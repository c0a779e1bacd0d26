---------------------------- MODULE ViewsProofs -----------------------------
(***************************************************************************)
(* Theorems about Views, for any lists, filters, sizes of pages and        *)
(* results and any number of pages loaded.                                 *)
(*                                                                         *)
(* NothingIsMissed speaks of the end, when nothing is left to load.  At    *)
(* any time before it, a row that was there when the first page was read   *)
(* has been read or is due: it stands in the list behind the pages read    *)
(* (Due).  A new row only moves the others back, so what was due stays so  *)
(* (Appeared), reading a page gets the rows due on it (ReadOrDue), and     *)
(* behind a page that is taken for the last nothing is due (Ending).       *)
(*                                                                         *)
(* ResultsAddUp compares the figures of a result, which are folds over its *)
(* rows, with the rows and with Qasir's list.  That a sum over rows is the *)
(* one over their set, and the sum of those over its parts, needs each row *)
(* to be there once: a debt always (Recorded, duplicates are dropped), a   *)
(* sale while nothing changes (QuietOK).  A complete reading has every row *)
(* of the list by the argument above (Inv, and SalesOK where a page may be *)
(* read again).                                                            *)
(*                                                                         *)
(* The rows are sequences that folds are taken of.  Facts about all        *)
(* sequences are inductions over their length (Induction, SeqInduction);   *)
(* that the naturals allow them follows from the inclusion of finite sets  *)
(* being well founded (Smallest, Least).                                   *)
(***************************************************************************)
EXTENDS Views, FiniteSetTheorems, SequenceTheorems, TLAPS

-----------------------------------------------------------------------------
(* Induction.                                                              *)

\* A set of finite sets has a smallest one.
LEMMA Smallest ==
  ASSUME NEW T, T # {}, \A t \in T : IsFiniteSet(t)
  PROVE  \E t \in T : \A u \in T : u \subseteq t => u = t
<1> DEFINE S == UNION T
<1>1. IsWellFoundedOn(StrictSubsetOrdering(S), FiniteSubsetsOf(S))
  BY FS_StrictSubsetOrderingWellFounded
<1>2. T \subseteq FiniteSubsetsOf(S)
  BY DEF FiniteSubsetsOf
<1>3. PICK t \in T : \A u \in T : ~(<<u, t>> \in StrictSubsetOrdering(S))
  <2> HIDE DEF S
  <2> QED
    BY <1>1, <1>2, WFMin
<1>4. \A u \in T : u \subseteq t => u = t
  BY <1>3 DEF StrictSubsetOrdering
<1> QED
  BY <1>4

\* A set of naturals has a least one.
LEMMA Least ==
  ASSUME NEW T \in SUBSET Nat, T # {}
  PROVE  \E n \in T : \A m \in T : n <= m
<1> DEFINE Below == {0 .. n : n \in T}
<1>1. \A t \in Below : IsFiniteSet(t)
  BY FS_Interval
<1>2. PICK t \in Below : \A u \in Below : u \subseteq t => u = t
  <2>1. Below # {}
    OBVIOUS
  <2> HIDE DEF Below
  <2> QED
    BY <1>1, <2>1, Smallest
<1>3. PICK n \in T : t = 0 .. n
  BY <1>2
<1>4. ASSUME NEW m \in T, ~(n <= m) PROVE FALSE
  <2>1. 0 .. m \in Below /\ 0 .. m \subseteq 0 .. n
    BY <1>4
  <2>2. 0 .. m = 0 .. n
    BY <1>2, <1>3, <2>1
  <2> QED
    BY <1>4, <2>2
<1> QED
  BY <1>4

\* Induction: a set of naturals that has 0 and with each number the next has all.
LEMMA Induction ==
  ASSUME NEW S, 0 \in S, \A n \in Nat : n \in S => n + 1 \in S
  PROVE  Nat \subseteq S
<1> SUFFICES ASSUME Nat \ S # {} PROVE FALSE
  OBVIOUS
<1>1. PICK n \in Nat \ S : \A m \in Nat \ S : n <= m
  <2> DEFINE T == Nat \ S
  <2>1. T \in SUBSET Nat /\ T # {}
    OBVIOUS
  <2> HIDE DEF T
  <2>2. \E n \in T : \A m \in T : n <= m
    BY <2>1, Least
  <2> QED
    BY <2>2 DEF T
<1>2. n # 0 /\ n - 1 \in Nat /\ n - 1 \in S
  BY <1>1
<1> QED
  BY <1>2

-----------------------------------------------------------------------------
(* Keep.                                                                   *)

LEMMA MaxTop ==
  ASSUME NEW n \in Nat, NEW t \in SUBSET (1 .. n), n \in t
  PROVE  Max(t) = n
<1>1. \A y \in t : n >= y
  OBVIOUS
<1>2. \A x \in t : (\A y \in t : x >= y) => x = n
  OBVIOUS
<1> QED
  BY <1>1, <1>2 DEF Max

LEMMA MaxOfAll ==
  ASSUME NEW n \in Nat
  PROVE  Max(1 .. n + 1) = n + 1 /\ (1 .. n + 1) \ {n + 1} = 1 .. n /\ 1 .. n + 1 # {}
<1>1. n + 1 \in Nat /\ 1 .. n + 1 \in SUBSET (1 .. n + 1) /\ n + 1 \in 1 .. n + 1
  OBVIOUS
<1>2. Max(1 .. n + 1) = n + 1
  BY <1>1, MaxTop
<1> QED
  BY <1>2

LEMMA MaxIn ==
  ASSUME NEW n \in Nat, NEW t \in SUBSET (1 .. n), t # {}
  PROVE  Max(t) \in t /\ \A y \in t : y <= Max(t)
<1> DEFINE T == {m \in Nat : \A y \in t : y <= m}
<1>1. PICK m \in T : \A k \in T : m <= k
  <2>1. n \in T /\ T \in SUBSET Nat
    OBVIOUS
  <2> HIDE DEF T
  <2> QED
    BY <2>1, Least
<1>2. m \in t
  <2>1. m # 0
    <3>1. PICK y \in t : TRUE
      OBVIOUS
    <3>2. y \in 1 .. n /\ y <= m
      OBVIOUS
    <3> QED
      BY <3>2
  <2>2. SUFFICES ASSUME m \notin t PROVE FALSE
    OBVIOUS
  <2>3. m - 1 \in T
    BY <2>1, <2>2
  <2> QED
    BY <1>1, <2>3
<1>3. \E x \in t : \A y \in t : x >= y
  BY <1>2
<1> QED
  BY <1>3 DEF Max

KeepOn(g, s, S, n) ==
  g = [t \in SUBSET (1 .. n) |->
         IF t = {} THEN <<>>
         ELSE IF s[Max(t)] \in S THEN Append(g[t \ {Max(t)}], s[Max(t)]) ELSE g[t \ {Max(t)}]]

LEMMA KeepStep ==
  ASSUME NEW g, NEW s, NEW S, NEW n \in Nat, KeepOn(g, s, S, n), NEW k \in Nat, k + 1 <= n
  PROVE  g[1 .. k + 1] = IF s[k + 1] \in S THEN Append(g[1 .. k], s[k + 1]) ELSE g[1 .. k]
<1> DEFINE all == 1 .. k + 1
<1>1. Max(all) = k + 1 /\ all \ {k + 1} = 1 .. k /\ all # {}
  BY MaxOfAll
<1>2. all \in SUBSET (1 .. n)
  OBVIOUS
<1> HIDE DEF all
<1>3. g[all] = IF s[k + 1] \in S THEN Append(g[1 .. k], s[k + 1]) ELSE g[1 .. k]
  BY <1>1, <1>2 DEF KeepOn
<1> QED
  BY <1>3 DEF all

LEMMA KeepExists == ASSUME NEW s, NEW S, NEW n \in Nat PROVE \E g : KeepOn(g, s, S, n)
<1> DEFINE Good == {k \in Nat : \E g : KeepOn(g, s, S, k)}
<1>1. 0 \in Good
  <2> DEFINE g == [t \in SUBSET (1 .. 0) |-> <<>>]
  <2>1. SUBSET (1 .. 0) = {{}}
    OBVIOUS
  <2>2. KeepOn(g, s, S, 0)
    BY <2>1 DEF KeepOn
  <2> QED
    BY <2>2
<1>2. ASSUME NEW k \in Nat, k \in Good PROVE k + 1 \in Good
  <2>1. PICK g : KeepOn(g, s, S, k)
    BY <1>2
  <2> DEFINE h == [t \in SUBSET (1 .. k + 1) |->
                     IF k + 1 \notin t THEN g[t]
                     ELSE IF s[k + 1] \in S THEN Append(g[t \ {k + 1}], s[k + 1]) ELSE g[t \ {k + 1}]]
  <2>2. ASSUME NEW t \in SUBSET (1 .. k + 1)
        PROVE  h[t] = IF t = {} THEN <<>>
                      ELSE IF s[Max(t)] \in S THEN Append(h[t \ {Max(t)}], s[Max(t)]) ELSE h[t \ {Max(t)}]
    <3>1. CASE k + 1 \in t
      <4>1. Max(t) = k + 1 /\ t \ {k + 1} \in SUBSET (1 .. k + 1)
        BY <3>1, MaxTop
      <4>2. h[t \ {k + 1}] = g[t \ {k + 1}]
        BY <4>1
      <4> QED
        BY <3>1, <4>1, <4>2
    <3>2. CASE k + 1 \notin t /\ t # {}
      <4>1. t \in SUBSET (1 .. k)
        BY <3>2
      <4>2. Max(t) \in t
        BY <3>2, <4>1, MaxIn
      <4> DEFINE m == Max(t)
      <4>3. t \ {m} \in SUBSET (1 .. k) /\ t \ {m} \in SUBSET (1 .. k + 1) /\ k + 1 \notin t \ {m}
        BY <4>1, <3>2
      <4>4. h[t \ {m}] = g[t \ {m}] /\ h[t] = g[t]
        BY <3>2, <4>3
      <4>5. g[t] = IF s[m] \in S THEN Append(g[t \ {m}], s[m]) ELSE g[t \ {m}]
        BY <2>1, <3>2, <4>1 DEF KeepOn
      <4> QED
        BY <3>2, <4>4, <4>5
    <3>3. CASE t = {}
      <4>1. g[{}] = <<>>
        BY <2>1 DEF KeepOn
      <4> QED
        BY <3>3, <4>1
    <3> QED
      BY <3>1, <3>2, <3>3
  <2>3. h = [t \in SUBSET (1 .. k + 1) |-> h[t]]
    OBVIOUS
  <2> HIDE DEF h
  <2>4. KeepOn(h, s, S, k + 1)
    BY <2>2, <2>3, Zenon DEF KeepOn
  <2> QED
    BY <2>4
<1>3. Nat \subseteq Good
  <2> HIDE DEF Good
  <2> QED
    BY <1>1, <1>2, Induction
<1> QED
  BY <1>3

\* The fold of the first k elements of s.
LEMMA KeepFold ==
  ASSUME NEW V, NEW s \in Seq(V), NEW S
  PROVE  \E g : KeepOn(g, s, S, Len(s)) /\ Keep(s, S) = g[1 .. Len(s)]
<1>1. DOMAIN s = 1 .. Len(s) /\ Len(s) \in Nat
  OBVIOUS
<1> DEFINE g == CHOOSE g : KeepOn(g, s, S, Len(s))
<1>2. KeepOn(g, s, S, Len(s))
  BY <1>1, KeepExists
<1>3. Keep(s, S) = g[1 .. Len(s)]
  BY <1>1 DEF Keep, FoldLeft, MapThenFoldSet, KeepOn
<1> QED
  BY <1>2, <1>3

\* Two folds agree where the sequences do.
LEMMA KeepAgree ==
  ASSUME NEW s, NEW t, NEW S, NEW m \in Nat, NEW n \in Nat, NEW g, NEW h,
         KeepOn(g, s, S, m), KeepOn(h, t, S, n), NEW k \in Nat, k <= m, k <= n,
         \A i \in 1 .. k : s[i] = t[i]
  PROVE  g[1 .. k] = h[1 .. k]
<1> DEFINE Good == {j \in Nat : j <= k => g[1 .. j] = h[1 .. j]}
<1>1. 0 \in Good
  <2>1. 1 .. 0 = {}
    OBVIOUS
  <2> QED
    BY <2>1 DEF KeepOn
<1>2. ASSUME NEW j \in Nat, j \in Good PROVE j + 1 \in Good
  <2> SUFFICES ASSUME j + 1 <= k PROVE g[1 .. j + 1] = h[1 .. j + 1]
    OBVIOUS
  <2>2. g[1 .. j] = h[1 .. j] /\ s[j + 1] = t[j + 1]
    BY <1>2
  <2>4. g[1 .. j + 1] = IF s[j + 1] \in S THEN Append(g[1 .. j], s[j + 1]) ELSE g[1 .. j]
    BY KeepStep
  <2>5. h[1 .. j + 1] = IF t[j + 1] \in S THEN Append(h[1 .. j], t[j + 1]) ELSE h[1 .. j]
    BY KeepStep
  <2> QED
    BY <2>2, <2>4, <2>5
<1>3. Nat \subseteq Good
  <2> HIDE DEF Good
  <2> QED
    BY <1>1, <1>2, Induction
<1> QED
  BY <1>3

LEMMA KeepNone == ASSUME NEW S PROVE Keep(<<>>, S) = <<>>
<1>1. <<>> \in Seq({}) /\ Len(<<>>) = 0 /\ 1 .. 0 = {}
  OBVIOUS
<1>2. PICK g : KeepOn(g, <<>>, S, 0) /\ Keep(<<>>, S) = g[{}]
  BY <1>1, KeepFold
<1> QED
  BY <1>2 DEF KeepOn

LEMMA KeepAppend ==
  ASSUME NEW V, NEW s \in Seq(V), NEW x \in V, NEW S
  PROVE  Keep(Append(s, x), S) = IF x \in S THEN Append(Keep(s, S), x) ELSE Keep(s, S)
<1> DEFINE n == Len(s)  t == Append(s, x)
<1>1. t \in Seq(V) /\ Len(t) = n + 1 /\ n \in Nat /\ t[n + 1] = x /\ \A i \in 1 .. n : t[i] = s[i]
  OBVIOUS
<1> HIDE DEF n, t
<1>2. PICK g : KeepOn(g, s, S, n) /\ Keep(s, S) = g[1 .. n]
  BY KeepFold DEF n
<1>3. PICK h : KeepOn(h, t, S, n + 1) /\ Keep(t, S) = h[1 .. n + 1]
  BY <1>1, KeepFold
<1>4. g[1 .. n] = h[1 .. n]
  BY <1>1, <1>2, <1>3, KeepAgree
<1>5. n + 1 \in Nat /\ n + 1 <= n + 1
  BY <1>1
<1>6. h[1 .. n + 1] = IF t[n + 1] \in S THEN Append(h[1 .. n], t[n + 1]) ELSE h[1 .. n]
  BY <1>1, <1>3, <1>5, KeepStep
<1> QED
  BY <1>1, <1>2, <1>3, <1>4, <1>6 DEF t

LEMMA KeepOne ==
  ASSUME NEW V, NEW x \in V, NEW S
  PROVE  Keep(<<x>>, S) = <<x>> \/ Keep(<<x>>, S) = <<>>
<1>1. <<>> \in Seq(V) /\ <<x>> = Append(<<>>, x)
  OBVIOUS
<1>2. Keep(Append(<<>>, x), S) = IF x \in S THEN Append(Keep(<<>>, S), x) ELSE Keep(<<>>, S)
  BY <1>1, KeepAppend
<1>3. Keep(<<>>, S) = <<>>
  BY KeepNone
<1> QED
  BY <1>1, <1>2, <1>3

\* Induction over sequences, in terms of a set.
LEMMA SeqInduction ==
  ASSUME NEW V, NEW G, <<>> \in G,
         \A s \in Seq(V), x \in V : s \in G => Append(s, x) \in G
  PROVE  Seq(V) \subseteq G
<1> DEFINE Good == {n \in Nat : \A s \in Seq(V) : Len(s) = n => s \in G}
<1>1. 0 \in Good
  BY EmptySeq
<1>2. ASSUME NEW n \in Nat, n \in Good PROVE n + 1 \in Good
  <2> SUFFICES ASSUME NEW s \in Seq(V), Len(s) = n + 1 PROVE s \in G
    OBVIOUS
  <2>1. s # <<>>
    BY EmptySeq
  <2>2. PICK r \in Seq(V), x \in V : s = Append(r, x)
    BY <2>1, SequenceEmptyOrAppend
  <2>3. Len(r) = n /\ Len(r) \in Nat
    BY <2>2, AppendProperties, LenProperties
  <2>4. r \in G
    BY <1>2, <2>3
  <2> QED
    BY <2>2, <2>4
<1>3. Nat \subseteq Good
  <2> HIDE DEF Good
  <2> QED
    BY <1>1, <1>2, Induction
<1> QED
  BY <1>3, LenProperties

LEMMA AppendSet ==
  ASSUME NEW V, NEW s \in Seq(V), NEW x \in V
  PROVE  Append(s, x) \in Seq(V) /\ Len(Append(s, x)) = Len(s) + 1
         /\ ToSet(Append(s, x)) = ToSet(s) \cup {x}
<1> DEFINE t == Append(s, x)  n == Len(s)
<1>1. t \in Seq(V) /\ Len(t) = n + 1 /\ t[n + 1] = x /\ \A i \in 1 .. n : t[i] = s[i]
  BY AppendProperties
<1>2. n \in Nat /\ DOMAIN s = 1 .. n /\ DOMAIN t = 1 .. n + 1
  BY <1>1, LenProperties
<1> HIDE DEF t, n
<1>3. 1 .. n + 1 = (1 .. n) \cup {n + 1}
  BY <1>2
<1>4. ToSet(t) = ToSet(s) \cup {x}
  BY <1>1, <1>2, <1>3 DEF ToSet
<1> QED
  BY <1>1, <1>4 DEF t, n

LEMMA ConcatSet ==
  ASSUME NEW V, NEW r \in Seq(V), NEW s \in Seq(V)
  PROVE  r \o s \in Seq(V) /\ ToSet(r \o s) = ToSet(r) \cup ToSet(s)
<1> DEFINE m == Len(r)  n == Len(s)  t == r \o s
<1>1. t \in Seq(V) /\ Len(t) = m + n
      /\ \A i \in 1 .. m + n : t[i] = IF i <= m THEN r[i] ELSE s[i - m]
  BY ConcatProperties
<1>2. m \in Nat /\ n \in Nat /\ DOMAIN r = 1 .. m /\ DOMAIN s = 1 .. n /\ DOMAIN t = 1 .. m + n
  BY <1>1, LenProperties
<1> HIDE DEF t, m, n
<1>3. ASSUME NEW i \in 1 .. m PROVE r[i] \in ToSet(t)
  <2>1. i \in 1 .. m + n /\ t[i] = r[i]
    BY <1>1, <1>2
  <2> QED
    BY <1>2, <2>1 DEF ToSet
<1>4. ASSUME NEW i \in 1 .. n PROVE s[i] \in ToSet(t)
  <2>1. m + i \in 1 .. m + n /\ ~(m + i <= m) /\ (m + i) - m = i
    BY <1>2
  <2>2. t[m + i] = s[i]
    BY <1>1, <2>1
  <2> QED
    BY <1>2, <2>1, <2>2 DEF ToSet
<1>5. ASSUME NEW i \in 1 .. m + n PROVE t[i] \in ToSet(r) \cup ToSet(s)
  <2>1. CASE i <= m
    <3>1. i \in 1 .. m /\ t[i] = r[i]
      BY <1>1, <1>2, <2>1
    <3> QED
      BY <1>2, <3>1 DEF ToSet
  <2>2. CASE ~(i <= m)
    <3>1. i - m \in 1 .. n /\ t[i] = s[i - m]
      BY <1>1, <1>2, <2>2
    <3> QED
      BY <1>2, <3>1 DEF ToSet
  <2> QED
    BY <2>1, <2>2
<1>6. ToSet(t) = ToSet(r) \cup ToSet(s)
  BY <1>2, <1>3, <1>4, <1>5 DEF ToSet
<1> QED
  BY <1>1, <1>6 DEF t

LEMMA SetOfSeq ==
  ASSUME NEW V, NEW s \in Seq(V)
  PROVE  ToSet(s) \subseteq V /\ DOMAIN s = 1 .. Len(s) /\ Len(s) \in Nat
  BY LenProperties, ElementOfSeq DEF ToSet

KeepsOK(s, S, V) ==
  /\ Keep(s, S) \in Seq(V)
  /\ ToSet(Keep(s, S)) = ToSet(s) \cap S
  /\ Len(Keep(s, S)) <= Len(s)
  /\ ToSet(s) \subseteq S => Keep(s, S) = s

LEMMA KeepSeq == ASSUME NEW V, NEW S, NEW s \in Seq(V) PROVE KeepsOK(s, S, V)
<1> DEFINE G == {r \in Seq(V) : KeepsOK(r, S, V)}
<1>1. <<>> \in G
  <2>1. <<>> \in Seq(V) /\ ToSet(<<>>) = {} /\ Len(<<>>) = 0
    BY DEF ToSet
  <2>2. Keep(<<>>, S) = <<>> /\ 0 <= 0
    BY KeepNone
  <2> QED
    BY <2>1, <2>2, Zenon DEF KeepsOK
<1>2. ASSUME NEW r \in Seq(V), NEW x \in V, r \in G PROVE Append(r, x) \in G
  <2> DEFINE t == Append(r, x)  k == Keep(r, S)
  <2>1. t \in Seq(V) /\ ToSet(t) = ToSet(r) \cup {x} /\ Len(t) = Len(r) + 1
    BY AppendSet
  <2>2. k \in Seq(V) /\ ToSet(k) = ToSet(r) \cap S /\ Len(k) <= Len(r)
    BY <1>2 DEF KeepsOK
  <2>3. ToSet(r) \subseteq S => k = r
    BY <1>2 DEF KeepsOK
  <2>4. Len(k) \in Nat /\ Len(r) \in Nat
    BY <2>2, LenProperties
  <2>5. Keep(t, S) = IF x \in S THEN Append(k, x) ELSE k
    BY KeepAppend
  <2>6. Append(k, x) \in Seq(V) /\ ToSet(Append(k, x)) = ToSet(k) \cup {x} /\ Len(Append(k, x)) = Len(k) + 1
    BY <2>2, AppendSet
  <2>7. k = r => Append(k, x) = t
    OBVIOUS
  <2> HIDE DEF t, k
  <2>8. CASE x \in S
    <3>1. Keep(t, S) = Append(k, x)
      BY <2>5, <2>8
    <3>2. ToSet(t) \subseteq S => Keep(t, S) = t
      BY <2>1, <2>3, <2>7, <3>1
    <3>3. ToSet(Keep(t, S)) = ToSet(t) \cap S
      BY <2>1, <2>2, <2>6, <2>8, <3>1
    <3>4. Keep(t, S) \in Seq(V) /\ Len(Keep(t, S)) <= Len(t)
      BY <2>1, <2>2, <2>4, <2>6, <3>1
    <3> QED
      BY <2>1, <3>2, <3>3, <3>4 DEF KeepsOK, t
  <2>9. CASE x \notin S
    <3>1. Keep(t, S) = k
      BY <2>5, <2>9
    <3>2. ~(ToSet(t) \subseteq S)
      BY <2>1, <2>9
    <3>3. ToSet(Keep(t, S)) = ToSet(t) \cap S
      BY <2>1, <2>2, <2>9, <3>1
    <3>4. Keep(t, S) \in Seq(V) /\ Len(Keep(t, S)) <= Len(t)
      BY <2>1, <2>2, <2>4, <3>1
    <3> QED
      BY <2>1, <3>2, <3>3, <3>4 DEF KeepsOK, t
  <2> QED
    BY <2>8, <2>9
<1>3. Seq(V) \subseteq G
  <2> HIDE DEF G
  <2> QED
    BY <1>1, <1>2, SeqInduction
<1> QED
  BY <1>3

LEMMA KeepConcat ==
  ASSUME NEW V, NEW S, NEW r \in Seq(V), NEW s \in Seq(V)
  PROVE  Keep(r \o s, S) = Keep(r, S) \o Keep(s, S)
<1> DEFINE G == {t \in Seq(V) : Keep(r \o t, S) = Keep(r, S) \o Keep(t, S)}
<1>1. <<>> \in G
  <2>1. Keep(r, S) \in Seq(V) /\ <<>> \in Seq(V)
    BY KeepSeq DEF KeepsOK
  <2> QED
    BY <2>1, KeepNone, ConcatEmptySeq
<1>2. ASSUME NEW t \in Seq(V), NEW x \in V, t \in G PROVE Append(t, x) \in G
  <2>1. r \o t \in Seq(V) /\ r \o Append(t, x) = Append(r \o t, x) /\ Append(t, x) \in Seq(V)
    OBVIOUS
  <2>2. Keep(r, S) \in Seq(V) /\ Keep(t, S) \in Seq(V)
    BY KeepSeq DEF KeepsOK
  <2>3. Keep(r, S) \o Append(Keep(t, S), x) = Append(Keep(r, S) \o Keep(t, S), x)
    BY <2>2
  <2>4. Keep(Append(r \o t, x), S) = IF x \in S THEN Append(Keep(r \o t, S), x) ELSE Keep(r \o t, S)
    BY <2>1, KeepAppend
  <2>5. Keep(Append(t, x), S) = IF x \in S THEN Append(Keep(t, S), x) ELSE Keep(t, S)
    BY KeepAppend
  <2> QED
    BY <1>2, <2>1, <2>3, <2>4, <2>5
<1>3. Seq(V) \subseteq G
  <2> HIDE DEF G
  <2> QED
    BY <1>1, <1>2, SeqInduction
<1> QED
  BY <1>3

LEMMA DistinctSet ==
  ASSUME NEW V, NEW s \in Seq(V)
  PROVE  Distinct(s) \in Seq(V) /\ ToSet(Distinct(s)) = ToSet(s)
<1> DEFINE n == Len(s)
           at == [k \in DOMAIN s |-> k]
           F == {k \in DOMAIN s : \A l \in 1..k - 1 : s[l] # s[k]}
           first == Keep(at, F)
<1>1. n \in Nat /\ DOMAIN s = 1 .. n /\ \A k \in 1 .. n : s[k] \in V
  BY LenProperties, ElementOfSeq
<1>2. at \in Seq(1 .. n) /\ ToSet(at) = 1 .. n
  <2>1. at = [k \in 1 .. n |-> k]
    BY <1>1
  <2>2. at \in Seq(1 .. n) /\ DOMAIN at = 1 .. n /\ \A k \in 1 .. n : at[k] = k
    BY <1>1, <2>1
  <2> QED
    BY <2>2 DEF ToSet
<1>3. F \subseteq 1 .. n
  BY <1>1
<1>4. first \in Seq(1 .. n) /\ ToSet(first) = F
  <2>1. KeepsOK(at, F, 1 .. n)
    BY <1>2, KeepSeq
  <2> HIDE DEF at, F
  <2> QED
    BY <1>2, <1>3, <2>1 DEF KeepsOK
<1>5. Distinct(s) = [k \in DOMAIN first |-> s[first[k]]]
  BY DEF Distinct
<1>6. ASSUME NEW x \in ToSet(s) PROVE \E k \in F : s[k] = x
  <2> DEFINE T == {k \in 1 .. n : s[k] = x}
  <2>1. T \in SUBSET Nat /\ T # {}
    BY <1>1, <1>6 DEF ToSet
  <2>2. PICK k \in T : \A l \in T : k <= l
    <3> HIDE DEF T
    <3> QED
      BY <2>1, Least
  <2>3. \A l \in 1..k - 1 : l \notin T
    BY <1>1, <2>2
  <2>4. k \in F
    BY <1>1, <2>2, <2>3
  <2> QED
    BY <2>2, <2>4
<1> HIDE DEF n, at, F, first
<1>7. Len(first) \in Nat /\ DOMAIN first = 1 .. Len(first) /\ \A k \in DOMAIN first : first[k] \in 1 .. n
  BY <1>4, LenProperties, ElementOfSeq
<1>8. Distinct(s) \in Seq(V) /\ DOMAIN Distinct(s) = DOMAIN first
  BY <1>1, <1>5, <1>7
<1>9. ToSet(Distinct(s)) = {s[first[k]] : k \in DOMAIN first}
  BY <1>5, <1>8 DEF ToSet
<1>10. ToSet(Distinct(s)) \subseteq ToSet(s)
  BY <1>1, <1>7, <1>9 DEF ToSet
<1>11. ASSUME NEW x \in ToSet(s) PROVE x \in ToSet(Distinct(s))
  <2>1. PICK k \in F : s[k] = x
    BY <1>6
  <2>2. PICK j \in DOMAIN first : first[j] = k
    BY <1>4, <2>1 DEF ToSet
  <2> QED
    BY <1>9, <2>1, <2>2
<1> QED
  BY <1>8, <1>10, <1>11

-----------------------------------------------------------------------------
(* FlattenSeq.                                                             *)

FlattenOn(g, ss, n) == g = [i \in 1 .. n |-> IF i = 1 THEN ss[i] ELSE g[i - 1] \o ss[i]]

LEMMA FlattenExists == ASSUME NEW ss, NEW n \in Nat PROVE \E g : FlattenOn(g, ss, n)
<1> DEFINE Good == {k \in Nat : \E g : FlattenOn(g, ss, k)}
<1>1. 0 \in Good
  <2>1. FlattenOn([i \in 1 .. 0 |-> 0], ss, 0)
    BY DEF FlattenOn
  <2> QED
    BY <2>1
<1>2. ASSUME NEW k \in Nat, k \in Good PROVE k + 1 \in Good
  <2>1. PICK g : FlattenOn(g, ss, k)
    BY <1>2
  <2> DEFINE h == [i \in 1 .. k + 1 |-> IF i # k + 1 THEN g[i] ELSE IF i = 1 THEN ss[i] ELSE g[i - 1] \o ss[i]]
  <2>2. ASSUME NEW i \in 1 .. k + 1 PROVE h[i] = IF i = 1 THEN ss[i] ELSE h[i - 1] \o ss[i]
    <3>1. i # 1 => i - 1 \in 1 .. k /\ i - 1 \in 1 .. k + 1 /\ i - 1 # k + 1
      OBVIOUS
    <3>2. i # 1 => h[i - 1] = g[i - 1]
      BY <3>1
    <3>3. CASE i = k + 1
      BY <3>2, <3>3
    <3>4. CASE i # k + 1
      <4>1. i \in 1 .. k
        BY <3>4
      <4>2. g[i] = IF i = 1 THEN ss[i] ELSE g[i - 1] \o ss[i]
        BY <2>1, <4>1 DEF FlattenOn
      <4>3. h[i] = g[i]
        BY <3>4
      <4> HIDE DEF h
      <4> QED
        BY <3>2, <4>2, <4>3
    <3> QED
      BY <3>3, <3>4
  <2>3. h = [i \in 1 .. k + 1 |-> h[i]]
    OBVIOUS
  <2> HIDE DEF h
  <2>4. FlattenOn(h, ss, k + 1)
    BY <2>2, <2>3, Zenon DEF FlattenOn
  <2> QED
    BY <2>4
<1>3. Nat \subseteq Good
  <2> HIDE DEF Good
  <2> QED
    BY <1>1, <1>2, Induction
<1> QED
  BY <1>3

LEMMA FlattenedSet ==
  ASSUME NEW V, NEW ss \in Seq(Seq(V))
  PROVE  FlattenSeq(ss) \in Seq(V) /\ ToSet(FlattenSeq(ss)) = UNION {ToSet(ss[k]) : k \in DOMAIN ss}
<1>0. PICK n : n = Len(ss)
  OBVIOUS
<1>1. n \in Nat /\ DOMAIN ss = 1 .. n /\ \A k \in 1 .. n : ss[k] \in Seq(V)
  BY <1>0, LenProperties, ElementOfSeq
<1>2. CASE n = 0
  <2>1. ss = <<>>
    BY <1>0, <1>2, EmptySeq
  <2>2. FlattenSeq(ss) = <<>>
    BY <1>0, <1>2, <2>1 DEF FlattenSeq
  <2>3. ToSet(<<>>) = {} /\ <<>> \in Seq(V)
    BY DEF ToSet
  <2>4. {ToSet(ss[k]) : k \in DOMAIN ss} = {}
    BY <1>1, <1>2
  <2> QED
    BY <2>2, <2>3, <2>4
<1>3. CASE n # 0
  <2> DEFINE g == CHOOSE g : FlattenOn(g, ss, n)
             Upper(k) == UNION {ToSet(ss[j]) : j \in 1 .. k}
  <2>1. FlattenSeq(ss) = g[n]
    BY <1>0, <1>1, <1>3 DEF FlattenSeq, FlattenOn
  <2>2. FlattenOn(g, ss, n)
    BY <1>1, FlattenExists
  <2> HIDE DEF g
  <2> DEFINE Good == {k \in Nat : 1 <= k /\ k <= n => g[k] \in Seq(V) /\ ToSet(g[k]) = Upper(k)}
  <2>3. 0 \in Good
    OBVIOUS
  <2>4. ASSUME NEW k \in Nat, k \in Good PROVE k + 1 \in Good
    <3> SUFFICES ASSUME k + 1 <= n PROVE g[k + 1] \in Seq(V) /\ ToSet(g[k + 1]) = Upper(k + 1)
      OBVIOUS
    <3>1. k + 1 \in 1 .. n /\ ss[k + 1] \in Seq(V)
      BY <1>1
    <3>2. g[k + 1] = IF k + 1 = 1 THEN ss[k + 1] ELSE g[k + 1 - 1] \o ss[k + 1]
      <4>1. \A i \in 1 .. n : g[i] = IF i = 1 THEN ss[i] ELSE g[i - 1] \o ss[i]
        BY <2>2, Zenon DEF FlattenOn
      <4> QED
        BY <3>1, <4>1
    <3>5. k + 1 - 1 = k /\ (k # 0 => k + 1 # 1)
      OBVIOUS
    <3>3. CASE k = 0
      <4>1. g[k + 1] = ss[k + 1] /\ 1 .. k + 1 = {k + 1}
        BY <3>2, <3>3
      <4> QED
        BY <3>1, <4>1
    <3>4. CASE k # 0
      <4>1. g[k + 1] = g[k] \o ss[k + 1]
        BY <3>2, <3>4, <3>5, Zenon
      <4>2. g[k] \in Seq(V) /\ ToSet(g[k]) = Upper(k)
        BY <2>4, <3>4, <1>1
      <4>3. ToSet(g[k] \o ss[k + 1]) = ToSet(g[k]) \cup ToSet(ss[k + 1]) /\ g[k] \o ss[k + 1] \in Seq(V)
        BY <3>1, <4>2, ConcatSet
      <4>4. 1 .. k + 1 = (1 .. k) \cup {k + 1}
        OBVIOUS
      <4>5. Upper(k + 1) = Upper(k) \cup ToSet(ss[k + 1])
        BY <4>4
      <4> QED
        BY <4>1, <4>2, <4>3, <4>5
    <3> QED
      BY <3>3, <3>4
  <2>5. Nat \subseteq Good
    <3> HIDE DEF Good
    <3> QED
      BY <2>3, <2>4, Induction
  <2>6. g[n] \in Seq(V) /\ ToSet(g[n]) = Upper(n)
    <3>1. n \in Good
      <4> HIDE DEF Good
      <4> QED
        BY <1>1, <2>5
    <3>2. 1 <= n /\ n <= n
      BY <1>1, <1>3
    <3> HIDE DEF Upper
    <3> QED
      BY <3>1, <3>2
  <2>7. Upper(n) = UNION {ToSet(ss[k]) : k \in DOMAIN ss}
    BY <1>1
  <2> HIDE DEF Upper
  <2> QED
    BY <2>1, <2>6, <2>7, Zenon
<1> QED
  BY <1>2, <1>3, Zenon

-----------------------------------------------------------------------------
(* Qasir's list.                                                           *)

CountDown(n) == [i \in 1 .. n |-> n + 1 - i]
InList(t, out) ==
  {i \in Rows \ out : (t = "detail" => Row[i].who = Focus) /\ (t \in Debts => Row[i].age <= ScanDays)}
ListOf(t, n, out) == Keep(CountDown(n), InList(t, out))

LEMMA RowsAre == Rows = 1 .. Len(Row) /\ Len(Row) \in Nat
  BY ViewsAssumption, LenProperties DEF Rows

LEMMA ListIs == \A n, out : List(n, out) = ListOf(tool, n, out)
  BY DEF List, ListOf, CountDown, InList

LEMMA CountDownSeq ==
  ASSUME NEW n \in 0 .. Len(Row)
  PROVE  CountDown(n) \in Seq(Rows) /\ Len(CountDown(n)) = n /\ ToSet(CountDown(n)) = 1 .. n
<1>1. n \in Nat /\ 1 .. n \subseteq Rows
  BY RowsAre
<1> DEFINE c == CountDown(n)
<1>2. DOMAIN c = 1 .. n /\ (\A i \in 1 .. n : c[i] = n + 1 - i /\ c[i] \in 1 .. n) /\ c = [i \in 1 .. n |-> n + 1 - i]
  BY <1>1 DEF CountDown
<1>3. c \in Seq(1 .. n) /\ Len(c) = n
  BY <1>1, <1>2
<1> HIDE DEF c
<1>4. ASSUME NEW j \in 1 .. n PROVE j \in ToSet(c)
  <2>1. n + 1 - j \in 1 .. n /\ n + 1 - (n + 1 - j) = j
    BY <1>1
  <2>2. c[n + 1 - j] = j
    BY <1>2, <2>1
  <2> QED
    BY <1>2, <2>1, <2>2 DEF ToSet
<1>5. ToSet(c) = 1 .. n
  BY <1>2, <1>4 DEF ToSet
<1>6. c \in Seq(Rows)
  BY <1>1, <1>3
<1> QED
  BY <1>3, <1>5, <1>6 DEF c

LEMMA ListSeq ==
  ASSUME NEW t, NEW n \in 0 .. Len(Row), NEW out
  PROVE  /\ ListOf(t, n, out) \in Seq(Rows) /\ ToSet(ListOf(t, n, out)) = 1 .. n \cap InList(t, out)
         /\ t \notin Debts => ListOf(t, n, {}) = CountDown(n)
<1> DEFINE c == CountDown(n)
<1>1. c \in Seq(Rows) /\ ToSet(c) = 1 .. n
  BY CountDownSeq
<1>2. KeepsOK(c, InList(t, out), Rows) /\ KeepsOK(c, InList(t, {}), Rows)
  BY <1>1, KeepSeq
<1>3. t \notin Debts => ToSet(c) \subseteq InList(t, {})
  BY <1>1, RowsAre DEF InList, Debts
<1> QED
  BY <1>1, <1>2, <1>3 DEF KeepsOK, ListOf

\* A new row is put before the others.
LEMMA ListNext ==
  ASSUME NEW t, NEW out, NEW n \in Nat, n + 1 <= Len(Row)
  PROVE  ListOf(t, n + 1, out) = ListOf(t, n, out)
         \/ ListOf(t, n + 1, out) = <<n + 1>> \o ListOf(t, n, out)
<1>1. n \in 0 .. Len(Row) /\ n + 1 \in 0 .. Len(Row) /\ n + 1 \in Rows
  BY RowsAre
<1> DEFINE c == CountDown(n)  x == n + 1  S == InList(t, out)
<1>2. c \in Seq(Rows) /\ <<x>> \in Seq(Rows) /\ <<>> \in Seq(Rows) /\ x \in Rows
  BY <1>1, CountDownSeq
<1>3. CountDown(x) = <<x>> \o c
  <2>1. Len(c) = n /\ DOMAIN c = 1 .. n /\ \A i \in 1 .. n : c[i] = n + 1 - i
    BY <1>1, CountDownSeq DEF CountDown
  <2> HIDE DEF c
  <2>2. <<x>> \o c = [i \in 1 .. 1 + n |-> IF i <= 1 THEN x ELSE c[i - 1]]
    BY <1>2, <2>1
  <2>3. \A i \in 1 .. n + 1 : (IF i <= 1 THEN x ELSE c[i - 1]) = n + 2 - i
    BY <2>1
  <2>4. 1 + n = n + 1
    OBVIOUS
  <2>5. <<x>> \o c = [i \in 1 .. n + 1 |-> n + 2 - i]
    BY <2>2, <2>3, <2>4
  <2>6. CountDown(x) = [i \in 1 .. n + 1 |-> n + 1 + 1 - i]
    BY DEF CountDown
  <2>7. \A i \in 1 .. n + 1 : n + 1 + 1 - i = n + 2 - i
    OBVIOUS
  <2> QED
    BY <2>5, <2>6, <2>7
<1> HIDE DEF c, S
<1>4. Keep(<<x>> \o c, S) = Keep(<<x>>, S) \o Keep(c, S)
  BY <1>2, KeepConcat
<1>5. Keep(<<x>>, S) = <<x>> \/ Keep(<<x>>, S) = <<>>
  <2> HIDE DEF x
  <2> QED
    BY <1>2, KeepOne
<1>6. Keep(c, S) \in Seq(Rows)
  BY <1>2, KeepSeq DEF KeepsOK
<1>7. <<>> \o Keep(c, S) = Keep(c, S)
  BY <1>6
<1> QED
  BY <1>3, <1>4, <1>5, <1>7 DEF ListOf, c, S

-----------------------------------------------------------------------------
(* The pages of the list.                                                  *)

KindsOK ==
  /\ tool \in AllTools /\ (filter # Nil => tool = "pembelian")
  /\ born \in 0 .. Len(Row) /\ gone \subseteq Rows /\ (gone # {} => tool \in Debts)
  /\ (start # Nil => start[2] \subseteq gone) /\ refetches \in Nat

LEMMA ListedSeq ==
  ASSUME KindsOK
  PROVE  Listed \in Seq(Rows) /\ Len(Listed) \in Nat /\ DOMAIN Listed = 1 .. Len(Listed)
         /\ \A k \in 1 .. Len(Listed) : Listed[k] \in Rows
<1>1. Listed = ListOf(tool, born, gone)
  BY ListIs DEF Listed
<1>2. Listed \in Seq(Rows)
  BY <1>1, ListSeq DEF KindsOK
<1> HIDE DEF Listed
<1> QED
  BY <1>2, LenProperties, ElementOfSeq

LEMMA PageBounds ==
  ASSUME KindsOK, NEW p \in Nat \ {0}
  PROVE  /\ PageSize[tool] \in Nat \ {0} /\ Extra \in {0, 1}
         /\ Before(p) \in Nat /\ Before(1) = 0
         /\ Through(p) = Before(p) + PageSize[tool] + Extra /\ Before(p + 1) <= Through(p)
<1> DEFINE s == PageSize[tool]  w == s + (IF overlap THEN 0 ELSE Extra)
<1>1. s \in Nat \ {0}
  BY ViewsAssumption DEF KindsOK
<1>2. Extra \in {0, 1}
  BY DEF Extra
<1>3. w \in Nat /\ w <= s + Extra
  BY <1>1, <1>2
<1>4. Before(p) = (p - 1) * w /\ Before(1) = (1 - 1) * w /\ Before(p + 1) = (p + 1 - 1) * w
  BY DEF Before
<1> HIDE DEF w, s, Extra
<1>5. p - 1 \in Nat /\ p + 1 - 1 = (p - 1) + 1
  OBVIOUS
<1>6. ((p - 1) + 1) * w = (p - 1) * w + w /\ (p - 1) * w \in Nat /\ (1 - 1) * w = 0
  BY <1>3, <1>5
<1>7. Through(p) = Before(p) + s + Extra
  BY DEF Through, s
<1>8. Before(p) \in Nat /\ Before(1) = 0 /\ Before(p + 1) = Before(p) + w
  BY <1>4, <1>5, <1>6
<1>9. Before(p + 1) <= Through(p)
  BY <1>1, <1>2, <1>3, <1>7, <1>8
<1> QED
  BY <1>1, <1>2, <1>7, <1>8, <1>9 DEF s

\* The list's rows on page p.
LastOf(p) == IF Through(p) < Len(Listed) THEN Through(p) ELSE Len(Listed)
PageRows(p) == SubSeq(Listed, Before(p) + 1, LastOf(p))

LEMMA PageRowsAre ==
  ASSUME KindsOK, NEW p \in Nat \ {0}
  PROVE  /\ PageRows(p) \in Seq(Rows) /\ Len(PageRows(p)) <= PageSize[tool] + Extra
         /\ Before(p) < LastOf(p) => Len(PageRows(p)) = LastOf(p) - Before(p)
         /\ \A k \in 1 .. Len(Listed) : Before(p) < k /\ k <= Through(p) => Listed[k] \in ToSet(PageRows(p))
         /\ \A i \in ToSet(PageRows(p)) : \E k \in 1 .. Len(Listed) :
              Before(p) < k /\ k <= Through(p) /\ Listed[k] = i
<1> DEFINE b == Before(p)  e == Through(p)  l == LastOf(p)  n == Len(Listed)  s == PageRows(p)  L == Listed
<1>1. L \in Seq(Rows) /\ n \in Nat /\ DOMAIN L = 1 .. n /\ \A k \in 1 .. n : L[k] \in Rows
  BY ListedSeq
<1>2. b \in Nat /\ e \in Nat /\ e = b + PageSize[tool] + Extra /\ b <= e
  <2>1. b \in Nat /\ e = b + PageSize[tool] + Extra /\ PageSize[tool] \in Nat \ {0} /\ Extra \in {0, 1}
    BY PageBounds
  <2> HIDE DEF b, e
  <2> QED
    BY <2>1
<1>3. l = IF e < n THEN e ELSE n
  BY DEF LastOf
<1>4. s = SubSeq(L, b + 1, l)
  BY DEF PageRows
<1>5. PageSize[tool] + Extra = e - b /\ e - b \in Nat
  BY <1>2, PageBounds
<1> HIDE DEF b, e, l, n, s, L
<1>6. l \in Nat /\ l <= n /\ l <= e
  BY <1>1, <1>2, <1>3
<1>7. s = [j \in 1 .. l - b |-> L[b + j]]
  <2>1. s = [j \in 1 .. l - (b + 1) + 1 |-> L[b + 1 + j - 1]]
    BY <1>4, <1>1, <1>2, <1>6 DEF n
  <2>2. l - (b + 1) + 1 = l - b /\ \A j \in 1 .. l - b : b + 1 + j - 1 = b + j
    BY <1>2, <1>6
  <2> QED
    BY <2>1, <2>2
<1>8. \A j \in 1 .. l - b : b + j \in 1 .. n /\ b < b + j /\ b + j <= e
  BY <1>1, <1>2, <1>6
<1>9. DOMAIN s = 1 .. l - b /\ \A j \in 1 .. l - b : s[j] = L[b + j] /\ s[j] \in Rows
  BY <1>1, <1>7, <1>8
<1>10. s \in Seq(Rows)
  <2>1. CASE b < l
    <3>1. l - b \in Nat
      BY <1>2, <1>6, <2>1
    <3> QED
      BY <1>7, <1>9, <3>1
  <2>2. CASE ~(b < l)
    <3>1. 1 .. l - b = 1 .. 0
      BY <1>2, <1>6, <2>2
    <3>2. s = [j \in 1 .. 0 |-> L[b + j]]
      BY <1>7, <3>1
    <3> QED
      BY <3>2
  <2> QED
    BY <2>1, <2>2
<1>11. Len(s) \in Nat /\ DOMAIN s = 1 .. Len(s)
  BY <1>10, LenProperties
<1>12. (b < l => Len(s) = l - b) /\ (~(b < l) => Len(s) = 0)
  BY <1>2, <1>6, <1>9, <1>11
<1>13. Len(s) <= e - b
  BY <1>2, <1>6, <1>12
<1>14. ASSUME NEW k \in 1 .. n, b < k, k <= e PROVE L[k] \in ToSet(s)
  <2>1. k - b \in 1 .. l - b /\ b + (k - b) = k
    BY <1>1, <1>2, <1>3, <1>14
  <2> QED
    BY <1>9, <2>1 DEF ToSet
<1>15. ASSUME NEW i \in ToSet(s) PROVE \E k \in 1 .. n : b < k /\ k <= e /\ L[k] = i
  <2>1. PICK j \in 1 .. l - b : s[j] = i
    BY <1>9 DEF ToSet
  <2> QED
    BY <1>8, <1>9, <2>1
<1> QED
  BY <1>5, <1>10, <1>12, <1>13, <1>14, <1>15 DEF b, e, l, n, s, L

Readable == {i \in Rows : Kept(i)}

\* Before the first product there is a pseudo row, which no projection keeps.
LEMMA PageKeeps ==
  ASSUME KindsOK, NEW p \in Nat \ {0}, NEW S \in SUBSET Rows
  PROVE  Keep(PageOfList(p), S) = Keep(PageRows(p), S)
<1> DEFINE s == PageRows(p)
<1>1. s \in Seq(Rows)
  BY PageRowsAre
<1>2. PageOfList(p) = (IF tool = "produk" /\ p = 1 THEN <<Manual>> ELSE <<>>) \o s
  BY DEF PageOfList, PageRows, LastOf
<1>3. Manual \notin S
  BY RowsAre DEF Manual
<1>4. s \in Seq(Rows \cup {Manual}) /\ <<Manual>> \in Seq(Rows \cup {Manual})
  BY <1>1
<1>5. Keep(<<Manual>>, S) = <<>>
  <2>1. Keep(Append(<<>>, Manual), S) = Keep(<<>>, S)
    <3> DEFINE V == {Manual}
    <3>1. <<>> \in Seq(V) /\ Manual \in V
      OBVIOUS
    <3> HIDE DEF V
    <3> QED
      BY <3>1, <1>3, KeepAppend
  <2>2. <<Manual>> = Append(<<>>, Manual)
    OBVIOUS
  <2> QED
    BY <2>1, <2>2, KeepNone
<1> HIDE DEF s
<1>6. Keep(<<Manual>> \o s, S) = <<>> \o Keep(s, S)
  <2> DEFINE V == Rows \cup {Manual}
  <2>1. s \in Seq(V) /\ <<Manual>> \in Seq(V)
    BY <1>4
  <2> HIDE DEF V
  <2>2. Keep(<<Manual>> \o s, S) = Keep(<<Manual>>, S) \o Keep(s, S)
    BY <2>1, KeepConcat
  <2> QED
    BY <1>5, <2>2
<1>7. Keep(s, S) \in Seq(Rows)
  BY <1>1, KeepSeq DEF KeepsOK
<1>8. <<>> \o Keep(s, S) = Keep(s, S) /\ <<>> \o s = s
  BY <1>1, <1>7
<1> QED
  BY <1>2, <1>6, <1>8 DEF s

LEMMA PageIs ==
  ASSUME KindsOK, NEW p \in Nat \ {0}, tool # "produk"
  PROVE  PageOfList(p) = PageRows(p)
<1>1. PageRows(p) \in Seq(Rows)
  BY PageRowsAre
<1>2. PageOfList(p) = <<>> \o PageRows(p)
  BY DEF PageOfList, PageRows, LastOf
<1> QED
  BY <1>1, <1>2

LEMMA UptoAll ==
  ASSUME NEW V, NEW s \in Seq(V), NEW n \in Nat, Len(s) <= n
  PROVE  Upto(s, n) = s
<1>1. Upto(s, n) = SubSeq(s, 1, Len(s))
  <2>1. Len(s) \in Nat /\ (n < Len(s) => n = Len(s))
    BY LenProperties
  <2> QED
    BY <2>1 DEF Upto
<1>2. SubSeq(s, 1, Len(s)) = s
  OBVIOUS
<1> QED
  BY <1>1, <1>2

\* A projection loses no row of a page that it can read.
LEMMA Projected ==
  ASSUME KindsOK, NEW p \in Nat \ {0}
  PROVE  /\ Project(PageOfList(p)) \in Seq(Rows)
         /\ ToSet(Project(PageOfList(p))) = ToSet(PageRows(p)) \cap Readable
<1> DEFINE s == PageRows(p)  k == Keep(s, Readable)
<1>1. s \in Seq(Rows) /\ Len(s) <= PageSize[tool] + Extra
  BY PageRowsAre
<1>2. Readable \in SUBSET Rows
  BY DEF Readable
<1>3. KeepsOK(s, Readable, Rows)
  BY <1>1, KeepSeq
<1>4. k \in Seq(Rows) /\ ToSet(k) = ToSet(s) \cap Readable /\ Len(k) <= Len(s)
  BY <1>3 DEF KeepsOK
<1>5. PageSize[tool] + Extra \in Nat
  BY PageBounds
<1>6. Project(PageOfList(p)) = Upto(k, PageSize[tool] + Extra)
  BY <1>2, PageKeeps DEF Project, Readable
<1>7. Len(k) <= PageSize[tool] + Extra
  <2>1. Len(k) \in Nat /\ Len(s) \in Nat
    BY <1>1, <1>4, LenProperties
  <2> HIDE DEF k, s
  <2> QED
    BY <1>1, <1>4, <1>5, <2>1
<1> HIDE DEF k, s
<1>8. Upto(k, PageSize[tool] + Extra) = k
  BY <1>4, <1>5, <1>7, UptoAll
<1> QED
  BY <1>4, <1>6, <1>8 DEF s

LEMMA ProjectedAll ==
  ASSUME KindsOK, NEW p \in Nat \ {0}, ToSet(PageRows(p)) \subseteq Readable
  PROVE  Project(PageOfList(p)) = PageRows(p)
<1> DEFINE s == PageRows(p)
<1>1. s \in Seq(Rows) /\ Len(s) <= PageSize[tool] + Extra
  BY PageRowsAre
<1>2. Readable \in SUBSET Rows
  BY DEF Readable
<1>3. Keep(s, Readable) = s
  BY <1>1, KeepSeq DEF KeepsOK
<1>4. PageSize[tool] + Extra \in Nat
  BY PageBounds
<1>5. Project(PageOfList(p)) = Upto(Keep(s, Readable), PageSize[tool] + Extra)
  BY <1>2, PageKeeps DEF Project, Readable
<1> HIDE DEF s
<1> QED
  BY <1>1, <1>3, <1>4, <1>5, UptoAll DEF s

\* When a page is taken for the last one, no row stands behind it.
LEMMA Ending ==
  ASSUME KindsOK, NEW p \in Nat \ {0}, p < MaxPage, ~Overlooked,
         Following(p, PageOfList(p)) = Nil
  PROVE  Len(Listed) <= Through(p)
<1> SUFFICES ASSUME ~(Len(Listed) <= Through(p)) PROVE FALSE
  OBVIOUS
<1> DEFINE b == Before(p)  e == Through(p)  n == Len(Listed)  s == PageRows(p)  raw == PageOfList(p)
           size == PageSize[tool]
<1>1. b \in Nat /\ e = b + size + Extra /\ size \in Nat \ {0} /\ Extra \in {0, 1} /\ n \in Nat
  BY PageBounds, ListedSeq
<1>2. LastOf(p) = e
  <2> HIDE DEF e, n
  <2>1. e < n
    BY <1>1 DEF e, n
  <2> QED
    BY <2>1 DEF LastOf, e, n
<1>3. s \in Seq(Rows) /\ (b < LastOf(p) => Len(s) = LastOf(p) - b)
  BY PageRowsAre
<1>4. HasNext(p)
  BY <1>1 DEF HasNext
<1>5. p + 1 # Nil
  BY ViewsAssumption
<1>6. Len(s) = size + Extra /\ Len(s) >= size
  <2> HIDE DEF b, e, s, size
  <2> QED
    BY <1>1, <1>2, <1>3
<1>10. \A k \in 1 .. n : b < k /\ k <= e => Listed[k] \in ToSet(s) /\ Listed[k] \in Rows
  BY PageRowsAre, ListedSeq
<1>11. ToSet(s) = {Listed[k] : k \in b + 1 .. e}
  <2>1. e < n
    BY <1>1
  <2>2. \A i \in ToSet(s) : \E k \in 1 .. n : b < k /\ k <= e /\ Listed[k] = i
    BY PageRowsAre
  <2> HIDE DEF b, e, n, s
  <2>3. \A k \in b + 1 .. e : k \in 1 .. n /\ b < k /\ k <= e
    BY <1>1, <2>1
  <2>4. \A k \in 1 .. n : b < k /\ k <= e => k \in b + 1 .. e
    BY <1>1
  <2> QED
    BY <1>10, <2>2, <2>3, <2>4
<1>12. ~Misleads(ToSet(s))
  <2>1. b \in 0 .. n /\ b + size + Extra < n /\ e = b + size + Extra
    <3> HIDE DEF b, e, n, size
    <3>1. e < n
      BY <1>1 DEF e, n
    <3> QED
      BY <1>1, <3>1
  <2>2. {Listed[k] : k \in b + 1 .. e} = {Listed[k] : k \in b + 1 .. b + size + Extra}
    <3> HIDE DEF b, e, size
    <3> QED
      BY <2>1
  <2>3. Misleads(ToSet(s)) => Overlooked
    <3> HIDE DEF b, e, s
    <3> QED
      BY <1>11, <2>1, <2>2 DEF Overlooked
  <2> QED
    BY <2>3
<1>7. CASE tool \in Debts
  <2>1. block /\ ~(\A i \in ToSet(s) : ~Kept(i))
    BY <1>7, <1>12 DEF Misleads
  <2>2. Project(raw) = <<>>
    <3>1. Following(p, raw) = IF block /\ HasNext(p) /\ Project(raw) # <<>> THEN p + 1 ELSE Nil
      BY <1>7 DEF Following, Debts
    <3> QED
      BY <1>4, <1>5, <2>1, <3>1
  <2>3. ToSet(s) \cap Readable = {}
    <3>1. ToSet(Project(raw)) = ToSet(s) \cap Readable
      BY Projected
    <3>2. ToSet(<<>>) = {}
      BY DEF ToSet
    <3> HIDE DEF s, raw
    <3> QED
      BY <2>2, <3>1, <3>2
  <2>4. ToSet(s) \subseteq Rows
    BY <1>3, SetOfSeq
  <2> HIDE DEF s, raw
  <2> QED
    BY <2>1, <2>3, <2>4 DEF Readable
<1>8. CASE tool = "produk"
  <2>1. Counted(raw) = Len(Keep(raw, Rows))
    BY <1>8 DEF Counted
  <2>2. Keep(raw, Rows) = s
    <3>1. Keep(raw, Rows) = Keep(s, Rows)
      BY PageKeeps
    <3>2. ToSet(s) \subseteq Rows
      BY <1>3, SetOfSeq
    <3>3. Keep(s, Rows) = s
      BY <1>3, <3>2, KeepSeq DEF KeepsOK
    <3> QED
      BY <3>1, <3>3
  <2>3. Counted(raw) = Len(s)
    BY <2>1, <2>2
  <2>4. Counted(raw) >= size /\ ~(Counted(raw) < size)
    <3>1. Len(s) \in Nat
      BY <1>3, LenProperties
    <3> HIDE DEF s, size, raw
    <3> QED
      BY <1>1, <1>6, <2>3, <3>1
  <2>5. Following(p, raw) = NextPageOf(p, raw)
    <3>1. tool \notin Debts /\ tool # "pembelian"
      BY <1>8 DEF Debts
    <3> QED
      BY <1>8, <2>4, <3>1 DEF Following
  <2>6. NextPageOf(p, raw) = p + 1
    BY <1>4, <2>4 DEF NextPageOf
  <2> QED
    BY <1>5, <2>5, <2>6
<1>9. CASE tool \notin Debts /\ tool # "produk"
  <2>1. raw = s
    BY <1>9, PageIs
  <2>2. raw # <<>>
    <3>1. Len(<<>>) = 0
      OBVIOUS
    <3> HIDE DEF s, raw
    <3> QED
      BY <1>1, <1>6, <2>1, <3>1
  <2>3. Following(p, raw) = NextPageOf(p, raw)
    BY <1>9, <2>2 DEF Following
  <2>4. ~block => Counted(raw) >= size
    <3>1. tool # "transaksi" => Counted(raw) = Len(s)
      BY <1>9, <2>1 DEF Counted
    <3>2. tool = "transaksi" /\ ~block => Project(raw) = s
      <4>1. ToSet(s) \subseteq Rows
        BY <1>3, SetOfSeq
      <4>2. tool = "transaksi" /\ ~block => \A i \in ToSet(s) : Kept(i)
        BY <1>12 DEF Misleads
      <4>3. tool = "transaksi" /\ ~block => ToSet(s) \subseteq Readable
        <5> HIDE DEF s
        <5> QED
          BY <4>1, <4>2 DEF Readable
      <4> QED
        BY <4>3, ProjectedAll
    <3>3. tool = "transaksi" => Counted(raw) = Len(Project(raw))
      BY DEF Counted
    <3> HIDE DEF raw, s
    <3> QED
      BY <1>6, <3>1, <3>2, <3>3
  <2>5. NextPageOf(p, raw) = p + 1
    BY <1>4, <2>4 DEF NextPageOf
  <2> QED
    BY <1>5, <2>3, <2>5
<1> QED
  BY <1>7, <1>8, <1>9

-----------------------------------------------------------------------------
(* What is read and what is still to come.                                 *)

\* Row i is still to come: it stands behind the pages before p.
Due(p, i) == \E k \in 1 .. Len(Listed) : k > Before(p) /\ Listed[k] = i

PageGot(p) == ToSet(Project(PageOfList(p)))

LEMMA PageNats ==
  ASSUME KindsOK, NEW p \in Nat \ {0}
  PROVE  Before(p) \in Nat /\ Through(p) \in Nat /\ Before(p + 1) \in Nat /\ Before(p + 1) <= Through(p)
<1> DEFINE b == Before(p)  e == Through(p)  f == Before(p + 1)  s == PageSize[tool]  x == Extra
<1>1. s \in Nat \ {0} /\ x \in {0, 1} /\ b \in Nat /\ e = b + s + x /\ f <= e
  BY PageBounds
<1>2. f \in Nat
  <2>1. p + 1 \in Nat \ {0}
    OBVIOUS
  <2> DEFINE q == p + 1
  <2> HIDE DEF q
  <2> QED
    BY <2>1, PageBounds DEF q
<1> HIDE DEF b, e, f, s, x
<1>3. e \in Nat
  BY <1>1
<1> QED
  BY <1>1, <1>2, <1>3 DEF b, e, f

LEMMA ReadOrDue ==
  ASSUME KindsOK, NEW p \in Nat \ {0}, NEW i \in Readable, Due(p, i)
  PROVE  i \in PageGot(p) \/ Due(p + 1, i)
<1>1. PICK k \in 1 .. Len(Listed) : k > Before(p) /\ Listed[k] = i
  BY DEF Due
<1>2. Before(p) \in Nat /\ Through(p) \in Nat /\ Before(p + 1) \in Nat /\ Before(p + 1) <= Through(p)
  BY PageNats
<1>3. CASE k <= Through(p)
  <2>1. Listed[k] \in ToSet(PageRows(p))
    BY <1>1, <1>3, PageRowsAre
  <2> QED
    BY <1>1, <2>1, Projected DEF PageGot
<1>4. CASE k > Through(p)
  BY <1>1, <1>2, <1>4 DEF Due
<1> QED
  BY <1>2, <1>3, <1>4, ListedSeq

LEMMA LastRead ==
  ASSUME KindsOK, NEW p \in Nat \ {0}, p < MaxPage, ~Overlooked,
         Following(p, PageOfList(p)) = Nil, NEW i \in Readable, Due(p, i)
  PROVE  i \in PageGot(p)
<1>1. PICK k \in 1 .. Len(Listed) : k > Before(p) /\ Listed[k] = i
  BY DEF Due
<1>2. Len(Listed) <= Through(p) /\ Len(Listed) \in Nat
  BY Ending, ListedSeq
<1>3. k <= Through(p)
  <2>1. Through(p) \in Nat
    BY PageNats
  <2> QED
    BY <1>2, <2>1
<1>4. Listed[k] \in ToSet(PageRows(p))
  BY <1>1, <1>3, PageRowsAre
<1> QED
  BY <1>1, <1>4, Projected DEF PageGot

\* Behind a sale before the window there is none in it.
LEMMA WindowRead ==
  ASSUME KindsOK, NEW p \in Nat \ {0}, tool = "velocity",
         NEW j \in PageGot(p), ~InWindow(j), NEW i \in Readable, Due(p, i), InWindow(i)
  PROVE  i \in PageGot(p)
<1>1. PICK k \in 1 .. Len(Listed) : k > Before(p) /\ Listed[k] = i
  BY DEF Due
<1>2. j \in ToSet(PageRows(p))
  BY Projected DEF PageGot
<1>3. PICK l \in 1 .. Len(Listed) : Before(p) < l /\ l <= Through(p) /\ Listed[l] = j
  BY <1>2, PageRowsAre
<1>4. Listed = CountDown(born) /\ born \in Nat /\ born <= Len(Row) /\ Len(Row) \in Nat
  <2>1. Listed = ListOf(tool, born, {})
    BY ListIs DEF Listed, KindsOK, Debts
  <2> QED
    BY <2>1, ListSeq, RowsAre DEF KindsOK, Debts
<1>5. Len(Listed) = born /\ \A m \in 1 .. born : Listed[m] = born + 1 - m
  BY <1>4, CountDownSeq DEF CountDown
<1>6. i = born + 1 - k /\ j = born + 1 - l /\ k \in 1 .. born /\ l \in 1 .. born
  BY <1>1, <1>3, <1>5
<1>7. ~(k > l)
  <2> SUFFICES ASSUME k > l PROVE FALSE
    OBVIOUS
  <2>1. i \in Rows /\ j \in Rows /\ j \in i .. Len(Row)
    BY <1>4, <1>6, RowsAre
  <2>2. Row[j].age <= Row[i].age /\ Row[i].age \in Nat /\ Row[j].age \in Nat
    BY <2>1, ViewsAssumption DEF Rows
  <2> QED
    BY <2>2 DEF InWindow, Window
<1>8. k <= Through(p)
  <2>1. Through(p) \in Nat
    BY PageNats
  <2> QED
    BY <1>3, <1>4, <1>6, <1>7, <2>1
<1>9. Listed[k] \in ToSet(PageRows(p))
  BY <1>1, <1>8, PageRowsAre
<1> QED
  BY <1>1, <1>9, Projected DEF PageGot

LEMMA FirstDue ==
  ASSUME KindsOK, NEW i \in ToSet(Listed)
  PROVE  Due(1, i)
<1>1. PICK k \in 1 .. Len(Listed) : Listed[k] = i
  BY ListedSeq DEF ToSet
<1>2. Before(1) = 0
  BY PageBounds
<1> QED
  BY <1>1, <1>2 DEF Due

LEMMA PagesBound == KindsOK => Pages \in Nat \ {0} /\ Pages < MaxPage
<1>1. MaxPage \in Nat /\ \A t \in AllTools : ScanPages[t] \in Nat \ {0} /\ ScanPages[t] < MaxPage
  BY ViewsAssumption
<1>2. SUFFICES ASSUME KindsOK PROVE Pages \in Nat \ {0} /\ Pages < MaxPage
  OBVIOUS
<1>3. ScanPages[tool] \in Nat \ {0} /\ ScanPages[tool] < MaxPage
  BY <1>1, <1>2 DEF KindsOK
<1> QED
  BY <1>1, <1>3 DEF Pages

LEMMA FollowingIs ==
  ASSUME NEW p, NEW raw
  PROVE  Following(p, raw) = Nil \/ Following(p, raw) = p + 1
<1>1. NextPageOf(p, raw) = Nil \/ NextPageOf(p, raw) = p + 1
  BY DEF NextPageOf
<1>2. CASE tool \in Debts
  BY <1>2 DEF Following, Debts
<1>3. CASE tool \notin Debts
  BY <1>1, <1>3 DEF Following
<1> QED
  BY <1>2, <1>3

LEMMA CapAll ==
  ASSUME NEW V, NEW s \in Seq(V), Fits(Len(s))
  PROVE  CapRows(s) = s
<1>1. Longest(Len(s)) = Len(s)
  BY DEF Longest
<1>2. Len(s) \in Nat /\ Len(s) <= Len(s)
  BY LenProperties
<1>3. Upto(s, Len(s)) = s
  BY <1>2, UptoAll
<1> QED
  BY <1>1, <1>3 DEF CapRows

-----------------------------------------------------------------------------
(* What the steps leave as it was.                                         *)

LEMMA ListedNow == Listed = ListOf(tool, born, gone) /\ Listed' = ListOf(tool', born', gone')
  BY DEF Listed, List, ListOf, CountDown, InList

LEMMA PlacesSame ==
  UNCHANGED <<tool, overlap>> => \A p : Before(p)' = Before(p) /\ Extra' = Extra
  BY DEF Before, Extra

LEMMA Same ==
  UNCHANGED <<tool, block, overlap, born, gone>> =>
    /\ \A p, i : Due(p, i)' <=> Due(p, i)
    /\ Overlooked' <=> Overlooked
<1> SUFFICES ASSUME UNCHANGED <<tool, block, overlap, born, gone>>
             PROVE  (\A p, i : Due(p, i)' <=> Due(p, i)) /\ (Overlooked' <=> Overlooked)
  OBVIOUS
<1>1. Listed' = Listed
  BY ListedNow
<1>2. \A p : Before(p)' = Before(p) /\ Extra' = Extra
  BY PlacesSame
<1>3. \A i : Kept(i)' <=> Kept(i)
  BY DEF Kept
<1>4. \A p, i : Due(p, i)' <=> Due(p, i)
  BY <1>1, <1>2 DEF Due
<1>6. \A S : Misleads(S)' <=> Misleads(S)
  BY <1>3 DEF Misleads
<1>5. Overlooked' <=> Overlooked
  BY <1>1, <1>2, <1>6 DEF Overlooked
<1> QED
  BY <1>4, <1>5

\* A new row moves the others back or leaves them in their places.
LEMMA Shifted ==
  ASSUME KindsOK, Appears
  PROVE  /\ Listed' \in Seq(Rows) /\ Len(Listed') \in Nat
         /\ \E d \in {0, 1} : Len(Listed') = Len(Listed) + d
                              /\ \A k \in 1 .. Len(Listed) : Listed'[k + d] = Listed[k]
<1>1. born \in Nat /\ born + 1 <= Len(Row) /\ born + 1 \in 0 .. Len(Row) /\ tool' = tool /\ gone' = gone /\ born' = born + 1
  BY RowsAre DEF KindsOK, Appears
<1>2. Listed = ListOf(tool, born, gone) /\ Listed' = ListOf(tool, born + 1, gone)
  BY <1>1, ListedNow
<1>3. Listed' \in Seq(Rows)
  BY <1>1, <1>2, ListSeq
<1> DEFINE L == Listed  M == Listed'  x == born + 1
<1>4. M = L \/ M = <<x>> \o L
  BY <1>1, <1>2, ListNext
<1>5. L \in Seq(Rows) /\ Len(L) \in Nat
  BY ListedSeq
<1>6. <<x>> \in Seq(Rows) /\ Len(<<x>>) = 1
  BY <1>1, RowsAre
<1> HIDE DEF L, M, x
<1>7. CASE M = L
  <2>1. \A k \in 1 .. Len(L) : M[k + 0] = L[k]
    BY <1>5, <1>7
  <2>2. Len(M) = Len(L) + 0 /\ Len(M) \in Nat
    BY <1>5, <1>7
  <2>3. 0 \in {0, 1}
    OBVIOUS
  <2> QED
    BY <1>3, <2>1, <2>2, <2>3 DEF L, M
<1>8. CASE M = <<x>> \o L
  <2>1. Len(M) = 1 + Len(L)
        /\ \A j \in 1 .. 1 + Len(L) : M[j] = IF j <= 1 THEN <<x>>[j] ELSE L[j - 1]
    BY <1>5, <1>6, <1>8, ConcatProperties
  <2>2. \A k \in 1 .. Len(L) : M[k + 1] = L[k]
    <3>1. TAKE k \in 1 .. Len(L)
    <3>2. k + 1 \in 1 .. 1 + Len(L) /\ ~(k + 1 <= 1) /\ k + 1 - 1 = k
      BY <1>5
    <3> QED
      BY <2>1, <3>2
  <2>3. Len(M) = Len(L) + 1 /\ Len(M) \in Nat
    BY <1>5, <2>1
  <2>4. 1 \in {0, 1}
    OBVIOUS
  <2> QED
    BY <1>3, <2>2, <2>3, <2>4 DEF L, M
<1> QED
  BY <1>4, <1>7, <1>8

LEMMA Appeared ==
  ASSUME KindsOK, Appears
  PROVE  /\ \A p \in Nat \ {0}, i \in Rows : Due(p, i) => Due(p, i)'
         /\ Overlooked => Overlooked'
<1> DEFINE L == Listed  M == Listed'
<1>1. PICK d \in {0, 1} : Len(M) = Len(L) + d /\ \A k \in 1 .. Len(L) : M[k + d] = L[k]
  BY Shifted
<1>2. Len(L) \in Nat /\ Len(M) \in Nat
  BY Shifted, ListedSeq
<1>3. \A p : Before(p)' = Before(p) /\ Extra' = Extra
  BY PlacesSame DEF Appears
<1>4. tool' = tool
  BY DEF Appears
<1> HIDE DEF L, M
<1>5. ASSUME NEW p \in Nat \ {0}, NEW i \in Rows, Due(p, i) PROVE Due(p, i)'
  <2>1. PICK k \in 1 .. Len(L) : k > Before(p) /\ L[k] = i
    BY <1>5 DEF Due, L
  <2>2. Before(p) \in Nat
    BY PageNats
  <2>3. k + d \in 1 .. Len(M) /\ k + d > Before(p) /\ M[k + d] = i
    BY <1>1, <1>2, <2>1, <2>2
  <2> QED
    BY <1>3, <2>3 DEF Due, M
<1>6. ASSUME Overlooked PROVE Overlooked'
  <2> DEFINE w == PageSize[tool] + Extra
  <2>1. PICK n \in 0 .. Len(L) : n + PageSize[tool] + Extra < Len(L)
                                 /\ Misleads({L[k] : k \in n + 1 .. n + PageSize[tool] + Extra})
    BY <1>6 DEF Overlooked, L
  <2>2. PageSize[tool] \in Nat /\ Extra \in {0, 1}
    <3>1. 1 \in Nat \ {0}
      OBVIOUS
    <3> QED
      BY <3>1, PageBounds
  <2>3. n + d \in 0 .. Len(M) /\ n + d + PageSize[tool] + Extra < Len(M)
    BY <1>1, <1>2, <2>1, <2>2
  <2>4. PICK S : S = {L[k] : k \in n + 1 .. n + PageSize[tool] + Extra}
    OBVIOUS
  <2>5. S = {M[k] : k \in n + d + 1 .. n + d + PageSize[tool] + Extra}
    <3>1. ASSUME NEW k \in n + d + 1 .. n + d + PageSize[tool] + Extra
          PROVE  M[k] \in S
      <4>1. k - d \in n + 1 .. n + PageSize[tool] + Extra /\ k - d \in 1 .. Len(L) /\ k - d + d = k
        BY <1>1, <1>2, <2>1, <2>2
      <4>2. M[k] = L[k - d]
        BY <1>1, <4>1
      <4> QED
        BY <2>4, <4>1, <4>2
    <3>2. ASSUME NEW l \in n + 1 .. n + PageSize[tool] + Extra
          PROVE  L[l] \in {M[k] : k \in n + d + 1 .. n + d + PageSize[tool] + Extra}
      <4>1. l + d \in n + d + 1 .. n + d + PageSize[tool] + Extra /\ l \in 1 .. Len(L)
        BY <1>1, <1>2, <2>1, <2>2
      <4>2. M[l + d] = L[l]
        BY <1>1, <4>1
      <4> QED
        BY <4>1, <4>2
    <3> QED
      BY <2>4, <3>1, <3>2
  <2>6. Misleads(S)
    BY <2>1, <2>4
  <2>7. Misleads(S)'
    <3>1. block' = block
      BY DEF Appears
    <3> QED
      BY <1>4, <2>6, <3>1 DEF Misleads, Kept, Debts
  <2>8. (n + d) + PageSize[tool]' + Extra' < Len(M)
        /\ S = {M[k] : k \in (n + d) + 1 .. (n + d) + PageSize[tool]' + Extra'}
    BY <1>3, <1>4, <2>3, <2>5
  <2>9. Misleads({Listed[k] : k \in (n + d) + 1 .. (n + d) + PageSize[tool] + Extra})'
    <3>1. S = {Listed[k] : k \in (n + d) + 1 .. (n + d) + PageSize[tool] + Extra}'
      BY <2>8 DEF M
    <3> QED
      BY <2>7, <3>1 DEF Misleads
  <2> QED
    BY <2>3, <2>8, <2>9 DEF Overlooked, M
<1> QED
  BY <1>5, <1>6

-----------------------------------------------------------------------------
(* The inductive invariant.                                                *)

\* What NothingIsMissed exempts did not happen, but for a cut.
Clean == (start # Nil => gone = start[2] /\ ~Overlooked) /\ refetches = 0

Sought == {i \in Known : Asked(i)}

\* The rows of a view before they are merged and filtered.
Have == IF tool \in Pagers THEN ToSet(view.rows) \cup UNION {ToSet(more[k].rows) : k \in DOMAIN more}
        ELSE ToSet(view.all)

\* What was there when the first page was read is there still.
StartOK == start # Nil => start \in (0 .. born) \X {gone}

\* What is sought and not read stands behind the pages read.
ScanOK ==
  scan # Nil =>
    /\ view = Nil /\ tool # "riwayat" /\ scan.rows \in Seq(Rows)
    /\ scan.more => scan.page \in 1 .. Pages
    /\ start = Nil => scan.more /\ scan.page = 1
    /\ start # Nil /\ scan.more => \A i \in Sought : i \in ToSet(scan.rows) \/ Due(scan.page, i)
    /\ ~scan.more => tool = "detail" /\ (scan.whole => Sought \subseteq ToSet(scan.rows))

LoadedOK ==
  /\ tool \in Pagers => view.rows \in Seq(Rows) /\ \A k \in DOMAIN more : more[k].rows \in Seq(Rows)
  /\ start # Nil /\ NextToLoad # Nil => \A i \in Sought : i \in Have \/ Due(NextToLoad, i)
  /\ start # Nil /\ NextToLoad = Nil /\ PagesRead < MaxPage => Sought \subseteq Have

ViewOK ==
  view # Nil =>
    /\ scan = Nil /\ more \in Seq(ToSet(more))
    /\ NextToLoad # Nil => tool \in Pagers /\ NextToLoad = PagesRead + 1
    /\ start = Nil => NextToLoad = 1
    /\ ~Truncated => LoadedOK

Inv == KindsOK /\ (Clean => StartOK /\ ScanOK /\ ViewOK)

LEMMA SoughtReadable == KindsOK /\ StartOK /\ start # Nil => Sought \subseteq Readable
<1> SUFFICES ASSUME KindsOK, StartOK, start # Nil PROVE Sought \subseteq Readable
  OBVIOUS
<1>1. start[1] \in 0 .. Len(Row)
  BY RowsAre DEF StartOK, KindsOK
<1>2. ToSet(List(start[1], start[2])) \subseteq Rows
  <2>1. List(start[1], start[2]) = ListOf(tool, start[1], start[2])
    BY ListIs
  <2>2. ListOf(tool, start[1], start[2]) \in Seq(Rows)
    BY <1>1, ListSeq
  <2> QED
    BY <2>1, <2>2, SetOfSeq
<1> QED
  BY <1>2 DEF Sought, Known, Readable

LEMMA AskedIs ==
  ASSUME KindsOK, NEW i, Asked(i)
  PROVE  (filter # Nil => Row[i].kind = filter) /\ (tool = "velocity" => InWindow(i))
  BY DEF Asked, KindsOK

LEMMA SoughtSame ==
  UNCHANGED <<tool, filter, start>> => Sought' = Sought
<1> SUFFICES ASSUME UNCHANGED <<tool, filter, start>> PROVE Sought' = Sought
  OBVIOUS
<1>1. List(start[1], start[2])' = List(start[1], start[2])
  BY DEF List
<1>2. \A i : (Kept(i)' <=> Kept(i)) /\ (Asked(i)' <=> Asked(i))
  BY DEF Kept, Asked, InWindow
<1> QED
  BY <1>1, <1>2 DEF Sought, Known

\* Reading page p, whether it is the first or not.
Reads ==
  /\ UNCHANGED <<tool, filter, block, overlap, born, gone>>
  /\ start' = IF start = Nil THEN <<born, gone>> ELSE start

LEMMA Started ==
  ASSUME KindsOK, StartOK, Reads, NEW p, NEW H, start = Nil => p = 1,
         start # Nil => \A i \in Sought : i \in H \/ Due(p, i)
  PROVE  /\ StartOK' /\ start' # Nil /\ Sought' \subseteq Readable
         /\ \A i \in Sought' : i \in H \/ Due(p, i)
<1>1. start' # Nil
  <2>1. <<born, gone>> \in Nat \X SUBSET Nat
    <3>1. born \in Nat /\ gone \subseteq Nat
      BY RowsAre DEF KindsOK
    <3> QED
      BY <3>1
  <2>2. <<born, gone>> # Nil
    BY <2>1, ViewsAssumption
  <2> QED
    BY <2>2 DEF Reads
<1>2. StartOK'
  <2>1. born' = born /\ born \in Nat /\ gone' = gone
    BY DEF Reads, KindsOK
  <2>2. start' \in (0 .. born) \X {gone}
    BY <2>1 DEF StartOK, Reads
  <2> QED
    BY <2>1, <2>2 DEF StartOK
<1>4. CASE start # Nil
  <2>1. Sought' = Sought
    BY <1>4, SoughtSame DEF Reads
  <2> QED
    BY <1>1, <1>2, <1>4, <2>1, SoughtReadable
<1>5. CASE start = Nil
  <2>1. start' = <<born, gone>> /\ tool' = tool
    BY <1>5 DEF Reads
  <2>2. \A i : Kept(i)' <=> Kept(i)
    BY <2>1 DEF Kept
  <2>3. List(start[1], start[2])' = Listed
    <3>1. List(start[1], start[2])' = List(start'[1], start'[2])
      BY <2>1 DEF List
    <3>2. start'[1] = born /\ start'[2] = gone
      BY <2>1
    <3> QED
      BY <3>1, <3>2 DEF Listed
  <2>4. \A i \in Sought' : i \in ToSet(Listed) /\ Kept(i)
    BY <2>2, <2>3 DEF Sought, Known
  <2>5. ToSet(Listed) \subseteq Rows
    BY ListedSeq DEF ToSet
  <2>6. \A i \in Sought' : Due(p, i)
    BY <1>5, <2>4, FirstDue
  <2>7. Sought' \subseteq Readable
    BY <2>4, <2>5 DEF Readable
  <2> QED
    BY <1>1, <1>2, <2>6, <2>7
<1> QED
  BY <1>4, <1>5

\* After page p, what is sought is read or behind it; after the last it is read.
LEMMA PageRead ==
  ASSUME KindsOK, ~Overlooked, NEW p \in Nat \ {0}, NEW H, NEW W \in SUBSET Readable,
         \A i \in W : i \in H \/ Due(p, i)
  PROVE  /\ \A i \in W : i \in H \cup PageGot(p) \/ Due(p + 1, i)
         /\ p < MaxPage /\ Following(p, PageOfList(p)) = Nil => W \subseteq H \cup PageGot(p)
<1>1. \A i \in W : i \in H \cup PageGot(p) \/ Due(p + 1, i)
  BY ReadOrDue
<1>2. p < MaxPage /\ Following(p, PageOfList(p)) = Nil => W \subseteq H \cup PageGot(p)
  BY LastRead
<1> QED
  BY <1>1, <1>2

-----------------------------------------------------------------------------
(* The steps of a tool call.                                               *)

LEMMA JoinedSet ==
  ASSUME NEW r \in Seq(Rows), NEW g \in Seq(Rows)
  PROVE  Joined(r, g) \in Seq(Rows) /\ ToSet(Joined(r, g)) = ToSet(r) \cup ToSet(g)
<1>1. r \o g \in Seq(Rows) /\ ToSet(r \o g) = ToSet(r) \cup ToSet(g)
  BY ConcatSet
<1>2. Distinct(r \o g) \in Seq(Rows) /\ ToSet(Distinct(r \o g)) = ToSet(r \o g)
  BY <1>1, DistinctSet
<1> QED
  BY <1>1, <1>2 DEF Joined

LEMMA ResultIs ==
  ASSUME NEW rows, NEW next, NEW whole, NEW result, result = Result(rows, next, whole)
  PROVE  /\ result.all = rows /\ result.rows = CapRows(Matching(rows))
         /\ result.next = IF tool \in Pagers THEN next ELSE Nil
         /\ ~result.truncated => Fits(Len(Matching(rows))) /\ (tool \notin Pagers => whole)
  BY DEF Result

\* A list that is not cut shows what it was asked for of the rows read.
LEMMA MatchingAll ==
  ASSUME KindsOK, tool \in Pagers, NEW rows \in Seq(Rows), Fits(Len(Matching(rows)))
  PROVE  /\ CapRows(Matching(rows)) \in Seq(Rows)
         /\ ToSet(CapRows(Matching(rows))) = ToSet(rows) \cap IF filter # Nil THEN OfKind(filter) ELSE Rows
<1> DEFINE m == Matching(rows)
<1>1. m = IF filter # Nil THEN Keep(rows, OfKind(filter)) ELSE rows
  BY DEF Matching, Pagers
<1>2. KeepsOK(rows, OfKind(filter), Rows)
  BY KeepSeq
<1>3. ToSet(rows) \subseteq Rows
  BY SetOfSeq
<1>4. m \in Seq(Rows) /\ ToSet(m) = ToSet(rows) \cap IF filter # Nil THEN OfKind(filter) ELSE Rows
  BY <1>1, <1>2, <1>3 DEF KeepsOK
<1> HIDE DEF m
<1>5. CapRows(m) = m
  BY <1>4, CapAll DEF m
<1> QED
  BY <1>4, <1>5 DEF m

\* A call that ends shows its result.
LEMMA Shown1 ==
  ASSUME KindsOK, Reads, scan' = Nil, view = Nil, tool # "riwayat", NEW rows \in Seq(Rows), NEW next, NEW whole,
         Shows(Result(rows, next, whole)), start' # Nil, Sought' \subseteq Readable,
         next # Nil /\ tool \in Pagers => next = Pages + 1 /\ \A i \in Sought' : i \in ToSet(rows) \/ Due(next, i),
         next = Nil \/ tool \notin Pagers => (whole => Sought' \subseteq ToSet(rows)),
         next = Nil => whole
  PROVE  ViewOK'
<1> DEFINE v == view'
<1>1. v = Result(rows, next, whole) /\ more' = <<>> /\ tool' = tool /\ filter' = filter
  BY DEF Shows, Reads
<1>2. /\ v.all = rows /\ v.rows = CapRows(Matching(rows))
      /\ v.next = IF tool \in Pagers THEN next ELSE Nil
      /\ ~v.truncated => Fits(Len(Matching(rows))) /\ (tool \notin Pagers => whole)
  BY <1>1, ResultIs
<1>3. more' \in Seq(ToSet(more')) /\ DOMAIN more' = {} /\ Len(more') = 0
  BY <1>1
<1>4. NextToLoad' = IF tool \in Pagers THEN next ELSE Nil
  BY <1>1, <1>2 DEF NextToLoad
<1>5. PagesRead' = Pages
  <2>1. Pages' = Pages /\ Pages \in Nat
    BY <1>1, PagesBound DEF Pages
  <2> QED
    BY <1>1, <1>3, <2>1 DEF PagesRead
<1>6. NextToLoad' # Nil => tool' \in Pagers /\ NextToLoad' = PagesRead' + 1
  BY <1>1, <1>4, <1>5
<1>7. ASSUME ~Truncated' PROVE LoadedOK'
  <2>1. ~v.truncated
    BY <1>7 DEF Truncated
  <2>2. Fits(Len(Matching(rows))) /\ (tool \notin Pagers => whole)
    BY <1>2, <2>1
  <2>3. \A i \in Sought' : i \in Rows /\ (filter # Nil => i \in OfKind(filter))
    <3>1. \A i \in Sought' : Asked(i)
      BY <1>1 DEF Sought, Asked, InWindow
    <3>2. \A i \in Sought' : i \in Rows
      BY DEF Readable
    <3> QED
      BY <3>1, <3>2, AskedIs DEF OfKind
  <2>4. tool \in Pagers => v.rows \in Seq(Rows) /\ ToSet(v.rows) = ToSet(rows) \cap IF filter # Nil THEN OfKind(filter) ELSE Rows
    BY <1>2, <2>2, MatchingAll
  <2>5. Have' = IF tool \in Pagers THEN ToSet(v.rows) ELSE ToSet(rows)
    <3>1. (UNION {ToSet(more[k].rows) : k \in DOMAIN more})' = {}
      BY <1>3
    <3>2. Have' = IF tool' \in Pagers
                  THEN ToSet(v.rows) \cup (UNION {ToSet(more[k].rows) : k \in DOMAIN more})'
                  ELSE ToSet(v.all)
      BY DEF Have
    <3> HIDE DEF v
    <3>3. v.all = rows /\ tool' = tool
      BY <1>1, <1>2
    <3> QED
      BY <3>1, <3>2, <3>3, Zenon
  <2>6. \A i \in Sought' : i \in ToSet(rows) => i \in Have'
    BY <2>3, <2>4, <2>5
  <2>7. \A k \in DOMAIN more' : more'[k].rows \in Seq(Rows)
    BY <1>3
  <2>8. NextToLoad' # Nil => \A i \in Sought' : i \in Have' \/ Due(NextToLoad, i)'
    <3> SUFFICES ASSUME NextToLoad' # Nil, NEW i \in Sought' PROVE i \in Have' \/ Due(NextToLoad, i)'
      OBVIOUS
    <3>1. NextToLoad' = next /\ next # Nil /\ tool \in Pagers
      BY <1>4
    <3>2. i \in ToSet(rows) \/ Due(next, i)
      BY <3>1
    <3>3. \A p : Due(p, i)' <=> Due(p, i)
      BY Same DEF Reads
    <3>4. Due(NextToLoad, i)' <=> \E k \in 1 .. Len(Listed') : k > Before(next)' /\ Listed'[k] = i
      BY <3>1 DEF Due, Before
    <3> QED
      BY <2>6, <3>2, <3>3, <3>4 DEF Due
  <2>9. NextToLoad' = Nil => Sought' \subseteq Have'
    BY <1>4, <2>2, <2>6
  <2> QED
    BY <1>1, <2>4, <2>7, <2>8, <2>9 DEF LoadedOK
<1> QED
  BY <1>1, <1>3, <1>6, <1>7 DEF ViewOK

LEMMA ReadPageKeeps ==
  ASSUME KindsOK, Clean', StartOK, ScanOK, ReadPage
  PROVE  StartOK' /\ ScanOK' /\ ViewOK'
<1> DEFINE p == scan.page
           raw == PageOfList(p)
           H == ToSet(scan.rows)
           rows == Joined(scan.rows, Project(raw))
           next == Following(p, raw)
           whole == \/ next = Nil
                    \/ tool = "velocity" /\ \E i \in ToSet(Project(raw)) : ~InWindow(i)
           ends == whole \/ p = Pages
           W == Sought'
<1>1. /\ scan # Nil /\ scan.more /\ Reads /\ refetches' = refetches
      /\ IF ends /\ tool # "detail" THEN scan' = Nil /\ Shows(Result(rows, next, whole))
         ELSE /\ scan' = [page |-> p + 1, rows |-> rows, more |-> ~ends, whole |-> whole]
              /\ UNCHANGED <<view, more>>
  BY DEF ReadPage, Reads
<1>2. /\ view = Nil /\ tool # "riwayat" /\ scan.rows \in Seq(Rows) /\ p \in 1 .. Pages
      /\ start = Nil => p = 1
      /\ start # Nil => \A i \in Sought : i \in H \/ Due(p, i)
  BY <1>1 DEF ScanOK
<1>3. Pages \in Nat \ {0} /\ Pages < MaxPage /\ MaxPage \in Nat
  BY PagesBound, ViewsAssumption
<1>4. p \in Nat \ {0} /\ p < MaxPage
  BY <1>2, <1>3
<1>6. /\ StartOK' /\ start' # Nil /\ W \subseteq Readable
      /\ \A i \in W : i \in H \/ Due(p, i)
  <2> HIDE DEF p, H
  <2> QED
    BY <1>1, <1>2, Started
<1>5. ~Overlooked
  BY <1>1, <1>6, Same DEF Clean, Reads
<1>7. rows \in Seq(Rows) /\ ToSet(rows) = H \cup PageGot(p)
  <2> HIDE DEF p
  <2>1. Project(raw) \in Seq(Rows) /\ PageGot(p) = ToSet(Project(raw))
    BY <1>4, Projected DEF PageGot
  <2> QED
    BY <1>2, <2>1, JoinedSet
<1>8. /\ \A i \in W : i \in ToSet(rows) \/ Due(p + 1, i)
      /\ next = Nil => W \subseteq ToSet(rows)
  <2> HIDE DEF p, H, W, rows
  <2>1. /\ \A i \in W : i \in H \cup PageGot(p) \/ Due(p + 1, i)
        /\ p < MaxPage /\ Following(p, PageOfList(p)) = Nil => W \subseteq H \cup PageGot(p)
    BY <1>4, <1>5, <1>6, PageRead
  <2> QED
    BY <1>4, <1>7, <2>1
<1>9. whole => W \subseteq ToSet(rows)
  <2> SUFFICES ASSUME tool = "velocity", NEW j \in PageGot(p), ~InWindow(j) PROVE W \subseteq ToSet(rows)
    BY <1>8 DEF PageGot
  <2>1. \A i \in W : InWindow(i)
    <3>1. \A i \in W : Asked(i)
      BY <1>1 DEF Sought, Asked, InWindow, Reads
    <3> QED
      BY <3>1, AskedIs
  <2> HIDE DEF p, H, W, rows
  <2>2. \A i \in W : Due(p, i) => i \in PageGot(p)
    BY <1>4, <1>5, <1>6, <2>1, WindowRead
  <2> QED
    BY <1>6, <1>7, <2>2
<1>10. next = Nil \/ next = p + 1
  BY FollowingIs
<1>11. CASE ends /\ tool # "detail"
  <2>1. scan' = Nil /\ Shows(Result(rows, next, whole))
    BY <1>1, <1>11
  <2>2. ScanOK'
    BY <2>1 DEF ScanOK
  <2>3. next # Nil /\ tool \in Pagers => next = Pages + 1 /\ \A i \in W : i \in ToSet(rows) \/ Due(next, i)
    <3> SUFFICES ASSUME next # Nil, tool \in Pagers
                 PROVE next = Pages + 1 /\ \A i \in W : i \in ToSet(rows) \/ Due(next, i)
      OBVIOUS
    <3>1. p = Pages
      BY <1>11 DEF Pagers
    <3>2. next = p + 1
      BY <1>10
    <3> HIDE DEF next, p, W, rows
    <3> QED
      BY <1>8, <3>1, <3>2
  <2> HIDE DEF rows, next, whole
  <2>4. (next = Nil => whole)
    BY DEF whole
  <2>5. ViewOK'
    BY <1>1, <1>2, <1>6, <1>7, <1>9, <2>1, <2>3, <2>4, Shown1
  <2> QED
    BY <1>6, <2>2, <2>5
<1>12. CASE ~(ends /\ tool # "detail")
  <2>1. view' = view /\ scan' = [page |-> p + 1, rows |-> rows, more |-> ~ends, whole |-> whole]
    BY <1>1, <1>12
  <2>2. ViewOK'
    BY <1>2, <2>1 DEF ViewOK
  <2>3. scan'.page = p + 1 /\ scan'.rows = rows /\ (scan'.more <=> ~ends) /\ (scan'.whole <=> whole)
    <3> HIDE DEF rows, p, ends, whole
    <3> QED
      BY <2>1
  <2>4. Pages' = Pages /\ tool' = tool
    BY <1>1 DEF Pages, Reads
  <2>5. scan'.more => scan'.page \in 1 .. Pages'
    <3>1. scan'.more => p # Pages
      BY <2>3
    <3> HIDE DEF p, ends
    <3> QED
      BY <1>2, <1>3, <2>3, <2>4, <3>1
  <2>6. scan'.more => \A i \in Sought' : i \in ToSet(scan'.rows) \/ Due(scan.page, i)'
    <3>1. PICK q : q = p + 1
      OBVIOUS
    <3>2. scan'.page = q
      BY <2>3, <3>1
    <3>3. \A i : Due(scan.page, i)' <=> Due(q, i)'
      BY <3>2 DEF Due, Before
    <3>4. \A i : Due(q, i)' <=> Due(q, i)
      BY <1>1, Same DEF Reads
    <3>5. \A i \in W : i \in ToSet(rows) \/ Due(q, i)
      BY <1>8, <3>1
    <3> HIDE DEF rows, p, ends, whole, W
    <3>6. scan'.rows = rows /\ W = Sought'
      BY <2>3 DEF W
    <3> QED
      BY <3>3, <3>4, <3>5, <3>6
  <2>7. ~scan'.more => tool' = "detail"
    BY <1>12, <2>3, <2>4
  <2>8. scan'.whole => Sought' \subseteq ToSet(scan'.rows)
    BY <1>9, <2>3
  <2>9. view' = Nil /\ tool' # "riwayat" /\ scan'.rows \in Seq(Rows)
    BY <1>2, <1>7, <2>1, <2>3, <2>4
  <2>10. ScanOK'
    BY <1>6, <2>5, <2>6, <2>7, <2>8, <2>9 DEF ScanOK
  <2> QED
    BY <1>6, <2>2, <2>10
<1> QED
  BY <1>11, <1>12

LEMMA ReadReceiptsKeeps ==
  ASSUME KindsOK, StartOK, ScanOK, ReadReceipts
  PROVE  StartOK' /\ ScanOK' /\ ViewOK'
<1>1. scan # Nil /\ ~scan.more /\ scan' = Nil /\ Shows(Result(scan.rows, Nil, scan.whole))
      /\ UNCHANGED <<tool, filter, block, overlap, born, gone, start, refetches>>
  BY DEF ReadReceipts
<1>2. /\ view = Nil /\ tool = "detail" /\ scan.rows \in Seq(Rows) /\ start # Nil
      /\ scan.whole => Sought \subseteq ToSet(scan.rows)
  BY <1>1 DEF ScanOK
<1> DEFINE v == view'
<1>3. v = Result(scan.rows, Nil, scan.whole) /\ more' = <<>> /\ tool' = tool /\ tool \notin Pagers
  BY <1>1, <1>2 DEF Shows, Pagers
<1>4. v.all = scan.rows /\ v.next = Nil /\ (~v.truncated => scan.whole)
  BY <1>3, ResultIs
<1>5. Sought' = Sought
  BY <1>1, SoughtSame
<1>6. NextToLoad' = Nil
  BY <1>3, <1>4 DEF NextToLoad
<1>7. more' \in Seq(ToSet(more'))
  BY <1>3
<1>8. Have' = ToSet(scan.rows)
  BY <1>3, <1>4 DEF Have
<1>9. ~Truncated' => LoadedOK'
  <2> SUFFICES ASSUME ~Truncated' PROVE LoadedOK'
    OBVIOUS
  <2>1. scan.whole
    BY <1>4 DEF Truncated
  <2> QED
    BY <1>2, <1>3, <1>5, <1>6, <1>8, <2>1 DEF LoadedOK
<1>10. ViewOK'
  BY <1>1, <1>2, <1>6, <1>7, <1>9 DEF ViewOK
<1>11. ScanOK' /\ StartOK'
  BY <1>1 DEF ScanOK, StartOK
<1> QED
  BY <1>10, <1>11

-----------------------------------------------------------------------------
(* The widget loads a page.                                                *)

LEMMA LoadMoreKeeps ==
  ASSUME KindsOK, Clean', StartOK, ViewOK, LoadMore
  PROVE  StartOK' /\ ScanOK' /\ ViewOK'
<1> DEFINE p == NextToLoad
           raw == PageOfList(p)
           next == Following(p, raw)
           new == [rows |-> CapRows(Project(raw)), next |-> next, truncated |-> ~Fits(Len(Project(raw)))]
           n == Len(more)
           W == Sought'
<1>1. /\ view # Nil /\ p # Nil /\ more' = Append(more, new) /\ Reads
      /\ UNCHANGED <<scan, view, refetches>>
  BY DEF LoadMore, Reads
<1>2. /\ scan = Nil /\ more \in Seq(ToSet(more)) /\ tool \in Pagers /\ p = PagesRead + 1
      /\ (start = Nil => p = 1) /\ (~Truncated => LoadedOK)
  BY <1>1 DEF ViewOK
<1>3. n \in Nat /\ DOMAIN more = 1 .. n
  BY <1>2, LenProperties
<1>4. Pages \in Nat \ {0} /\ MaxPage \in Nat
  BY PagesBound, ViewsAssumption
<1>5. PagesRead = n + (IF tool = "riwayat" THEN 0 ELSE Pages) /\ p \in Nat \ {0}
  <2>1. PagesRead = n + (IF tool = "riwayat" THEN 0 ELSE Pages)
    BY DEF PagesRead
  <2> HIDE DEF p, n
  <2> QED
    BY <1>2, <1>3, <1>4, <2>1
<1>7. tool' = tool /\ filter' = filter /\ view' = view /\ scan' = Nil
  BY <1>1, <1>2 DEF Reads
<1>8. /\ Len(more') = n + 1 /\ DOMAIN more' = 1 .. n + 1 /\ more'[n + 1] = new
      /\ (\A k \in 1 .. n : more'[k] = more[k]) /\ more' \in Seq(ToSet(more'))
  <2> DEFINE V == ToSet(more) \cup {new}  s == more
  <2>1. s \in Seq(V) /\ new \in V /\ more' = Append(s, new)
    BY <1>1, <1>2
  <2> HIDE DEF V, s, new
  <2>2. /\ Append(s, new) \in Seq(V) /\ Len(Append(s, new)) = Len(s) + 1
        /\ (\A k \in 1 .. Len(s) : Append(s, new)[k] = s[k]) /\ Append(s, new)[Len(s) + 1] = new
    BY <2>1, AppendProperties
  <2>3. ToSet(Append(s, new)) = ToSet(s) \cup {new}
    BY <2>1, AppendSet
  <2>4. more' \in Seq(ToSet(more'))
    BY <2>1, <2>2, <2>3 DEF V, s
  <2>5. DOMAIN more' = 1 .. n + 1
    BY <2>1, <2>2, LenProperties DEF s
  <2> QED
    BY <2>1, <2>2, <2>4, <2>5 DEF s
<1>9. NextToLoad' = next
  <2>1. more' # <<>>
    BY <1>3, <1>8
  <2>2. NextToLoad' = more'[n + 1].next
    BY <1>8, <2>1 DEF NextToLoad
  <2> HIDE DEF next
  <2> QED
    BY <1>8, <2>2
<1>10. PagesRead' = p
  <2>1. Pages' = Pages
    BY <1>7 DEF Pages
  <2>2. PagesRead' = n + 1 + (IF tool = "riwayat" THEN 0 ELSE Pages)
    BY <1>7, <1>8, <2>1 DEF PagesRead
  <2> HIDE DEF p, n
  <2> QED
    BY <1>2, <1>3, <1>4, <1>5, <2>2
<1>11. next = Nil \/ next = p + 1
  BY FollowingIs
<1>12. StartOK' /\ start' # Nil
  <2>1. CASE start # Nil
    BY <1>1, <2>1 DEF StartOK, Reads
  <2>2. CASE start = Nil
    <3> DEFINE q == p
    <3>1. q = 1 /\ (start # Nil => \A i \in Sought : i \in {} \/ Due(q, i)) /\ (start = Nil => q = 1)
      BY <1>2, <2>2
    <3> HIDE DEF q
    <3> QED
      BY <1>1, <3>1, Started
  <2> QED
    BY <2>1, <2>2
<1>6. ~Overlooked
  BY <1>1, <1>12, Same DEF Clean, Reads
<1>13. ASSUME ~Truncated' PROVE LoadedOK'
  <2>1. ~Truncated /\ ~new.truncated
    <3>1. ~view'.truncated /\ \A k \in DOMAIN more' : ~more'[k].truncated
      BY <1>13 DEF Truncated
    <3>2. n + 1 \in 1 .. n + 1 /\ \A k \in 1 .. n : k \in 1 .. n + 1
      BY <1>3
    <3> HIDE DEF new
    <3>3. ~new.truncated /\ \A k \in 1 .. n : ~more[k].truncated
      BY <1>8, <3>1, <3>2
    <3> QED
      BY <1>3, <1>7, <3>1, <3>3 DEF Truncated
  <2>2. Fits(Len(Project(raw)))
    BY <2>1
  <2>3. Project(raw) \in Seq(Rows) /\ PageGot(p) = ToSet(Project(raw))
    <3> HIDE DEF p
    <3> QED
      BY <1>5, Projected DEF PageGot
  <2>4. new.rows \in Seq(Rows) /\ ToSet(new.rows) = PageGot(p)
    <3>1. CapRows(Project(raw)) = Project(raw)
      <4> HIDE DEF raw
      <4> QED
        BY <2>2, <2>3, CapAll
    <3> HIDE DEF raw, p
    <3> QED
      BY <2>3, <3>1
  <2>5. LoadedOK
    BY <1>2, <2>1
  <2>6. view.rows \in Seq(Rows) /\ \A k \in 1 .. n : more[k].rows \in Seq(Rows)
    BY <1>2, <1>3, <2>5 DEF LoadedOK
  <2>7. view'.rows \in Seq(Rows) /\ \A k \in DOMAIN more' : more'[k].rows \in Seq(Rows)
    <3>1. \A k \in 1 .. n + 1 : k \in 1 .. n \/ k = n + 1
      BY <1>3
    <3> HIDE DEF new, n
    <3> QED
      BY <1>7, <1>8, <2>4, <2>6, <3>1
  <2>8. Have' = Have \cup PageGot(p)
    <3>1. Have = ToSet(view.rows) \cup UNION {ToSet(more[k].rows) : k \in 1 .. n}
      BY <1>2, <1>3 DEF Have
    <3>2. Have' = ToSet(view.rows) \cup UNION {ToSet(more'[k].rows) : k \in 1 .. n + 1}
      BY <1>2, <1>7, <1>8 DEF Have
    <3>3. 1 .. n + 1 = (1 .. n) \cup {n + 1}
      BY <1>3
    <3> HIDE DEF new, n, p
    <3>4. UNION {ToSet(more'[k].rows) : k \in 1 .. n + 1}
          = (UNION {ToSet(more[k].rows) : k \in 1 .. n}) \cup ToSet(new.rows)
      BY <1>8, <3>3
    <3> QED
      BY <2>4, <3>1, <3>2, <3>4
  <2>9. W \subseteq Readable /\ \A i \in W : i \in Have \/ Due(p, i)
    <3>1. start # Nil => \A i \in Sought : i \in Have \/ Due(p, i)
      BY <1>1, <2>5 DEF LoadedOK
    <3> HIDE DEF p
    <3> QED
      BY <1>1, <1>2, <3>1, Started
  <2>10. /\ \A i \in W : i \in Have \cup PageGot(p) \/ Due(p + 1, i)
         /\ p < MaxPage /\ next = Nil => W \subseteq Have \cup PageGot(p)
    <3> HIDE DEF p, W
    <3> QED
      BY <1>5, <1>6, <2>9, PageRead
  <2>11. NextToLoad' # Nil => \A i \in W : i \in Have' \/ Due(NextToLoad, i)'
    <3> SUFFICES ASSUME NextToLoad' # Nil PROVE \A i \in W : i \in Have' \/ Due(NextToLoad, i)'
      OBVIOUS
    <3>1. PICK q : q = p + 1
      OBVIOUS
    <3>2. NextToLoad' = q
      BY <1>9, <1>11, <3>1
    <3>3. \A i : Due(NextToLoad, i)' <=> Due(q, i)'
      BY <3>2 DEF Due, Before
    <3>4. \A i : Due(q, i)' <=> Due(q, i)
      BY <1>1, Same DEF Reads
    <3>5. \A i \in W : i \in Have' \/ Due(q, i)
      BY <2>8, <2>10, <3>1
    <3> HIDE DEF W
    <3> QED
      BY <3>3, <3>4, <3>5
  <2>12. NextToLoad' = Nil /\ PagesRead' < MaxPage => W \subseteq Have'
    <3> HIDE DEF W, p, next
    <3> QED
      BY <1>9, <1>10, <2>8, <2>10
  <2> QED
    BY <2>7, <2>11, <2>12 DEF LoadedOK
<1>14. NextToLoad' # Nil => tool' \in Pagers /\ NextToLoad' = PagesRead' + 1
  <2> HIDE DEF next, p
  <2> QED
    BY <1>2, <1>7, <1>9, <1>10, <1>11
<1>15. ViewOK'
  BY <1>7, <1>8, <1>12, <1>13, <1>14 DEF ViewOK
<1>16. ScanOK'
  BY <1>7 DEF ScanOK
<1> QED
  BY <1>12, <1>15, <1>16

-----------------------------------------------------------------------------
(* Nothing is missed.                                                      *)

LEMMA InitInv == ViewsInit => Inv
<1> SUFFICES ASSUME ViewsInit PROVE Inv
  OBVIOUS
<1>1. KindsOK
  BY ViewsAssumption DEF ViewsInit, KindsOK, Debts, AllTools
<1>2. start = Nil /\ more = <<>> /\ Pages \in Nat \ {0}
  BY <1>1, PagesBound DEF ViewsInit
<1>3. CASE tool = "riwayat"
  <2>1. scan = Nil /\ view = [rows |-> <<>>, next |-> 1, truncated |-> FALSE]
    BY <1>3 DEF ViewsInit
  <2>2. NextToLoad = 1
    BY <1>2, <2>1 DEF NextToLoad
  <2>3. PagesRead = 0 /\ tool \in Pagers
    BY <1>2, <1>3 DEF PagesRead, Pagers
  <2>4. view.rows \in Seq(Rows) /\ \A k \in DOMAIN more : more[k].rows \in Seq(Rows)
    BY <1>2, <2>1
  <2>5. LoadedOK
    BY <1>2, <2>4 DEF LoadedOK
  <2>6. more \in Seq(ToSet(more))
    BY <1>2
  <2> QED
    BY <1>1, <1>2, <2>1, <2>2, <2>3, <2>5, <2>6 DEF Inv, StartOK, ScanOK, ViewOK
<1>4. CASE tool # "riwayat"
  <2>1. scan = [page |-> 1, rows |-> <<>>, more |-> TRUE, whole |-> FALSE] /\ view = Nil
    BY <1>4 DEF ViewsInit
  <2>2. scan.page = 1 /\ scan.rows \in Seq(Rows) /\ scan.more
    BY <2>1
  <2>3. 1 \in 1 .. Pages
    BY <1>2
  <2> QED
    BY <1>1, <1>2, <1>4, <2>1, <2>2, <2>3 DEF Inv, StartOK, ScanOK, ViewOK
<1> QED
  BY <1>3, <1>4

LEMMA AppearsKeeps ==
  ASSUME KindsOK, StartOK, ScanOK, ViewOK, Appears
  PROVE  StartOK' /\ ScanOK' /\ ViewOK'
<1>1. /\ born' = born + 1 /\ born \in Nat
      /\ UNCHANGED <<tool, filter, block, overlap, gone, scan, view, more, start, refetches>>
  BY DEF Appears, KindsOK
<1>2. StartOK'
  <2>1. 0 .. born \subseteq 0 .. born + 1
    BY <1>1
  <2> QED
    BY <1>1, <2>1 DEF StartOK
<1>3. \A p \in Nat \ {0}, i \in Rows : Due(p, i) => Due(p, i)'
  BY Appeared
<1>4. Sought' = Sought /\ (start # Nil => Sought \subseteq Rows)
  BY <1>1, SoughtSame, SoughtReadable DEF Readable
<1>5. Pages' = Pages /\ PagesRead' = PagesRead /\ NextToLoad' = NextToLoad /\ (Truncated' <=> Truncated) /\ Have' = Have
  BY <1>1 DEF Pages, PagesRead, NextToLoad, Truncated, Have
<1>6. ScanOK'
  <2> SUFFICES ASSUME scan # Nil, start # Nil, scan.more, NEW i \in Sought, Due(scan.page, i) PROVE Due(scan.page, i)'
    BY <1>1, <1>4, <1>5 DEF ScanOK
  <2>1. PICK p : p = scan.page
    OBVIOUS
  <2>2. p \in Nat \ {0} /\ i \in Rows
    BY <1>4, <2>1, PagesBound DEF ScanOK
  <2>3. Due(p, i)'
    BY <1>3, <2>1, <2>2
  <2>4. scan'.page = p
    BY <1>1, <2>1
  <2>5. Due(scan.page, i)' <=> Due(p, i)'
    BY <2>4 DEF Due, Before
  <2> QED
    BY <2>3, <2>5
<1>7. ViewOK'
  <2> SUFFICES ASSUME view # Nil, ~Truncated, start # Nil, NextToLoad # Nil, NEW i \in Sought, Due(NextToLoad, i)
               PROVE Due(NextToLoad, i)'
    BY <1>1, <1>4, <1>5 DEF ViewOK, LoadedOK
  <2>1. PICK p : p = NextToLoad
    OBVIOUS
  <2>2. p \in Nat \ {0} /\ i \in Rows
    <3>1. p = PagesRead + 1 /\ more \in Seq(ToSet(more))
      BY <2>1 DEF ViewOK
    <3>2. Len(more) \in Nat
      BY <3>1, LenProperties
    <3>3. PagesRead \in Nat
      BY <3>2, PagesBound DEF PagesRead
    <3> QED
      BY <1>4, <3>1, <3>3
  <2>3. Due(p, i)'
    BY <1>3, <2>1, <2>2
  <2>4. NextToLoad' = p
    BY <1>5, <2>1
  <2>5. Due(NextToLoad, i)' <=> Due(p, i)'
    BY <2>4 DEF Due, Before
  <2> QED
    BY <2>3, <2>5
<1> QED
  BY <1>2, <1>6, <1>7

LEMMA StutterKeeps ==
  UNCHANGED viewsVars => (Inv' <=> Inv)
<1> SUFFICES ASSUME UNCHANGED viewsVars PROVE Inv' <=> Inv
  OBVIOUS
<1>1. UNCHANGED <<tool, filter, block, overlap, born, gone, scan, view, more, start, refetches>>
  BY DEF viewsVars
<1>2. Listed' = Listed
  BY <1>1, ListedNow
<1>3. (Overlooked' <=> Overlooked) /\ \A p, i : Due(p, i)' <=> Due(p, i)
  BY <1>1, Same
<1>4. Sought' = Sought
  BY <1>1, SoughtSame
<1>5. Pages' = Pages /\ PagesRead' = PagesRead /\ NextToLoad' = NextToLoad /\ (Truncated' <=> Truncated) /\ Have' = Have
  BY <1>1 DEF Pages, PagesRead, NextToLoad, Truncated, Have
<1>6. \A p : Before(p)' = Before(p)
  BY <1>1, PlacesSame
<1>7. \A i : Due(scan.page, i)' <=> Due(scan.page, i)
  BY <1>1, <1>2 DEF Due, Before, Extra
<1>8. \A i : Due(NextToLoad, i)' <=> Due(NextToLoad, i)
  BY <1>1, <1>2, <1>5 DEF Due, Before, Extra
<1>9. (KindsOK' <=> KindsOK) /\ (StartOK' <=> StartOK) /\ (Clean' <=> Clean)
  BY <1>1, <1>3 DEF KindsOK, StartOK, Clean
<1>10. ScanOK' <=> ScanOK
  BY <1>1, <1>4, <1>5, <1>7 DEF ScanOK
<1>11. ViewOK' <=> ViewOK
  <2>1. LoadedOK' <=> LoadedOK
    BY <1>1, <1>4, <1>5, <1>8 DEF LoadedOK
  <2> QED
    BY <1>1, <1>5, <2>1 DEF ViewOK
<1> QED
  BY <1>9, <1>10, <1>11 DEF Inv

LEMMA NextInv == Inv /\ [ViewsNext]_viewsVars => Inv'
<1> SUFFICES ASSUME Inv, [ViewsNext]_viewsVars PROVE Inv'
  OBVIOUS
<1>1. KindsOK
  BY DEF Inv
<1>2. CASE ReadPage
  <2>1. /\ Reads /\ refetches' = refetches
        /\ (start' = Nil => start = Nil) /\ (start # Nil => start' = start)
    BY <1>2 DEF ReadPage, Reads
  <2>2. KindsOK'
    BY <1>1, <2>1 DEF Reads, KindsOK
  <2>3. Clean' => Clean
    BY <2>1, Same DEF Clean, Reads
  <2> QED
    BY <1>1, <1>2, <2>2, <2>3, ReadPageKeeps DEF Inv
<1>3. CASE ReadReceipts
  <2>1. KindsOK' /\ UNCHANGED <<tool, block, overlap, born, gone, start, refetches>>
    BY <1>1, <1>3 DEF ReadReceipts, KindsOK
  <2>2. Clean' => Clean
    BY <2>1, Same DEF Clean
  <2> QED
    BY <1>1, <1>3, <2>1, <2>2, ReadReceiptsKeeps DEF Inv
<1>4. CASE LoadMore
  <2>1. /\ Reads /\ refetches' = refetches
        /\ (start' = Nil => start = Nil) /\ (start # Nil => start' = start)
    BY <1>4 DEF LoadMore, Reads
  <2>2. KindsOK'
    BY <1>1, <2>1 DEF Reads, KindsOK
  <2>3. Clean' => Clean
    BY <2>1, Same DEF Clean, Reads
  <2> QED
    BY <1>1, <1>4, <2>2, <2>3, LoadMoreKeeps DEF Inv
<1>5. CASE Refetch
  <2>1. KindsOK' /\ refetches' # 0
    BY <1>1, <1>5 DEF Refetch, KindsOK
  <2> QED
    BY <2>1 DEF Inv, Clean
<1>6. CASE Appears
  <2>1. KindsOK'
    BY <1>1, <1>6, RowsAre DEF Appears, KindsOK
  <2>2. Clean' => Clean
    <3>1. gone' = gone /\ refetches' = refetches /\ start' = start
      BY <1>6 DEF Appears
    <3>2. Overlooked => Overlooked'
      BY <1>1, <1>6, Appeared
    <3> QED
      BY <3>1, <3>2 DEF Clean
  <2> QED
    BY <1>1, <1>6, <2>1, <2>2, AppearsKeeps DEF Inv
<1>7. ASSUME NEW i \in DOMAIN Row, PaidOff(i) PROVE Inv'
  <2>1. /\ gone' = gone \cup {i} /\ i \notin gone /\ tool \in Debts
        /\ UNCHANGED <<tool, filter, block, overlap, born, scan, view, more, start, refetches>>
    BY <1>7 DEF PaidOff
  <2>2. KindsOK'
    BY <1>1, <1>7, <2>1 DEF KindsOK, Rows
  <2>3. CASE start # Nil
    <3>1. ~Clean'
      BY <1>1, <2>1, <2>3 DEF Clean, KindsOK
    <3> QED
      BY <2>2, <3>1 DEF Inv
  <2>4. CASE start = Nil
    <3>1. Clean' => Clean
      BY <2>1, <2>4 DEF Clean
    <3>2. Pages' = Pages /\ PagesRead' = PagesRead /\ NextToLoad' = NextToLoad /\ (Truncated' <=> Truncated)
      BY <2>1 DEF Pages, PagesRead, NextToLoad, Truncated
    <3>3. StartOK' /\ (ScanOK => ScanOK')
      BY <2>1, <2>4, <3>2 DEF StartOK, ScanOK
    <3>4. LoadedOK => LoadedOK'
      BY <2>1, <2>4 DEF LoadedOK
    <3>5. ViewOK => ViewOK'
      BY <2>1, <2>4, <3>2, <3>4 DEF ViewOK
    <3> QED
      BY <2>2, <3>1, <3>3, <3>5 DEF Inv
  <2> QED
    BY <2>3, <2>4
<1>8. CASE UNCHANGED viewsVars
  BY <1>8, StutterKeeps
<1> QED
  BY <1>2, <1>3, <1>4, <1>5, <1>6, <1>7, <1>8 DEF ViewsNext

\* The days of the sales list leave none of its rows out.
LEMMA DaysKeep ==
  ASSUME NEW rows \in Seq(Rows), NEW days,
         days = Distinct([k \in DOMAIN rows |-> Row[rows[k]].age])
  PROVE  ToSet(FlattenSeq([d \in DOMAIN days |-> Keep(rows, {i \in Rows : Row[i].age = days[d]})])) = ToSet(rows)
<1> DEFINE ages == [k \in DOMAIN rows |-> Row[rows[k]].age]
           of(d) == Keep(rows, {i \in Rows : Row[i].age = days[d]})
           ss == [d \in DOMAIN days |-> of(d)]
<1>1. DOMAIN rows = 1 .. Len(rows) /\ Len(rows) \in Nat /\ \A k \in 1 .. Len(rows) : rows[k] \in Rows
  BY LenProperties, ElementOfSeq
<1>2. ages \in Seq(Nat) /\ DOMAIN ages = DOMAIN rows
  <2>1. \A k \in DOMAIN rows : Row[rows[k]].age \in Nat
    BY <1>1, ViewsAssumption DEF Rows
  <2> QED
    BY <1>1, <2>1
<1>3. days \in Seq(Nat) /\ ToSet(days) = ToSet(ages)
  <2> HIDE DEF ages
  <2>1. days = Distinct(ages)
    BY DEF ages
  <2> QED
    BY <1>2, <2>1, DistinctSet
<1>4. DOMAIN days = 1 .. Len(days) /\ Len(days) \in Nat
  BY <1>3, LenProperties
<1>5. \A d : of(d) \in Seq(Rows) /\ ToSet(of(d)) = ToSet(rows) \cap {i \in Rows : Row[i].age = days[d]}
  BY KeepSeq DEF KeepsOK
<1>6. ss \in Seq(Seq(Rows)) /\ DOMAIN ss = DOMAIN days /\ \A d \in DOMAIN days : ss[d] = of(d)
  <2> DEFINE V == Seq(Rows)  n == Len(days)
  <2> HIDE DEF of, V, n
  <2>1. n \in Nat /\ DOMAIN days = 1 .. n /\ \A d \in 1 .. n : of(d) \in V
    BY <1>4, <1>5 DEF V, n
  <2>2. ss = [d \in 1 .. n |-> of(d)]
    BY <2>1
  <2>3. ss \in Seq(V)
    <3>1. ss = [d \in 1 .. n |-> ss[d]] /\ \A d \in 1 .. n : ss[d] \in V
      BY <2>1, <2>2
    <3> HIDE DEF ss
    <3> QED
      BY <2>1, <3>1
  <2> QED
    BY <2>1, <2>3 DEF V
<1> HIDE DEF of, ss
<1>7. ToSet(FlattenSeq(ss)) = UNION {ToSet(ss[d]) : d \in DOMAIN ss}
  BY <1>6, FlattenedSet
<1>8. ASSUME NEW i \in ToSet(rows) PROVE \E d \in DOMAIN ss : i \in ToSet(ss[d])
  <2>1. PICK k \in DOMAIN rows : rows[k] = i
    BY DEF ToSet
  <2>2. ages[k] = Row[i].age /\ i \in Rows
    BY <1>1, <2>1
  <2>3. ages[k] \in ToSet(days)
    <3> HIDE DEF ages
    <3> QED
      BY <1>2, <1>3, <2>1 DEF ToSet
  <2>4. PICK d \in DOMAIN days : days[d] = ages[k]
    BY <2>3 DEF ToSet
  <2>5. i \in ToSet(of(d))
    <3> HIDE DEF ages
    <3> QED
      BY <1>5, <2>2, <2>4
  <2> QED
    BY <1>6, <2>4, <2>5
<1>9. \A d \in DOMAIN ss : ToSet(ss[d]) \subseteq ToSet(rows)
  BY <1>5, <1>6
<1>10. UNION {ToSet(ss[d]) : d \in DOMAIN ss} = ToSet(rows)
  BY <1>8, <1>9
<1> QED
  BY <1>7, <1>10 DEF ss, of

\* Merging and filtering lose nothing that was asked for.
LEMMA HaveGot ==
  ASSUME KindsOK, view # Nil, ViewOK, LoadedOK, NEW i \in Sought, i \in Rows, i \in Have
  PROVE  i \in Got
<1>1. CASE tool \notin Pagers
  <2>1. tool \in Debts \cup {"velocity"}
    BY <1>1 DEF KindsOK, AllTools, Pagers, Debts
  <2> QED
    BY <1>1, <2>1 DEF Have, Got
<1>2. CASE tool \in Pagers
  <2>1. more \in Seq(ToSet(more)) /\ view.rows \in Seq(Rows) /\ \A k \in DOMAIN more : more[k].rows \in Seq(Rows)
    BY <1>2 DEF ViewOK, LoadedOK
  <2> DEFINE ss == [k \in DOMAIN more |-> more[k].rows]
             head == view.rows
             rows == Distinct(head \o Later)
  <2>2. DOMAIN more = 1 .. Len(more) /\ Len(more) \in Nat
    BY <2>1, LenProperties
  <2>3. ss \in Seq(Seq(Rows)) /\ DOMAIN ss = DOMAIN more /\ \A k \in DOMAIN more : ss[k] = more[k].rows
    BY <2>1, <2>2
  <2>4. Later \in Seq(Rows) /\ ToSet(Later) = UNION {ToSet(more[k].rows) : k \in DOMAIN more}
    <3> HIDE DEF ss
    <3>1. FlattenSeq(ss) \in Seq(Rows) /\ ToSet(FlattenSeq(ss)) = UNION {ToSet(ss[k]) : k \in DOMAIN ss}
      BY <2>3, FlattenedSet
    <3>2. Later = FlattenSeq(ss)
      BY DEF Later, ss
    <3> QED
      BY <2>3, <3>1, <3>2
  <2>5. head \o Later \in Seq(Rows) /\ ToSet(head \o Later) = ToSet(head) \cup ToSet(Later)
    BY <2>1, <2>4, ConcatSet
  <2>6. rows \in Seq(Rows) /\ ToSet(rows) = ToSet(head \o Later)
    BY <2>5, DistinctSet
  <2>7. i \in ToSet(head \o Later) /\ i \in ToSet(rows)
    BY <1>2, <2>4, <2>5, <2>6 DEF Have
  <2>8. Got = ToSet(Shown)
    BY <1>2 DEF Got, Pagers, Debts
  <2>9. CASE tool = "produk"
    <3>1. Shown = head \o Later
      BY <2>9 DEF Shown
    <3> QED
      BY <2>7, <2>8, <3>1
  <2>10. CASE tool = "pembelian" /\ filter # Nil
    <3>1. Shown = Keep(rows, OfKind(filter))
      BY <2>10 DEF Shown
    <3>2. i \in OfKind(filter)
      BY <2>10, AskedIs DEF Sought, OfKind
    <3>3. ToSet(Keep(rows, OfKind(filter))) = ToSet(rows) \cap OfKind(filter)
      BY <2>6, KeepSeq DEF KeepsOK
    <3> QED
      BY <2>7, <2>8, <3>1, <3>2, <3>3
  <2>11. CASE tool = "transaksi"
    <3> DEFINE days == Distinct([k \in DOMAIN rows |-> Row[rows[k]].age])
    <3>1. Shown = FlattenSeq([d \in DOMAIN days |-> Keep(rows, {j \in Rows : Row[j].age = days[d]})])
      BY <2>11 DEF Shown
    <3> HIDE DEF rows
    <3>2. ToSet(FlattenSeq([d \in DOMAIN days |-> Keep(rows, {j \in Rows : Row[j].age = days[d]})])) = ToSet(rows)
      BY <2>6, DaysKeep
    <3> QED
      BY <2>7, <2>8, <3>1, <3>2
  <2>12. CASE tool \notin {"produk", "transaksi"} /\ ~(tool = "pembelian" /\ filter # Nil)
    <3>1. Shown = rows
      BY <2>12 DEF Shown
    <3> QED
      BY <2>7, <2>8, <3>1
  <2> QED
    BY <2>9, <2>10, <2>11, <2>12
<1> QED
  BY <1>1, <1>2

LEMMA InvMissesNothing == Inv => NothingIsMissed
<1> SUFFICES ASSUME Inv, view # Nil, start # Nil, NextToLoad = Nil, ~Truncated, gone = start[2], refetches = 0,
                    PagesRead < MaxPage, ~Overlooked, NEW i \in Known, Asked(i)
             PROVE  i \in Got
  BY DEF NothingIsMissed
<1>1. KindsOK /\ StartOK /\ ViewOK
  BY DEF Inv, Clean
<1>2. LoadedOK
  BY <1>1 DEF ViewOK
<1>3. i \in Sought /\ i \in Have
  BY <1>2 DEF LoadedOK, Sought
<1>4. i \in Rows
  BY <1>1, <1>3, SoughtReadable DEF Readable
<1> QED
  BY <1>1, <1>2, <1>3, <1>4, HaveGot

\* However many rows appear between the pages, a list that has nothing left to
\* load holds every row there was at its first page, unless one of the reasons
\* NothingIsMissed names applies (nextPageOf, scanOpenCredit, useMorePages).
THEOREM NothingMissed == ViewsSpec => []NothingIsMissed
<1>1. ViewsInit => Inv
  BY InitInv
<1>2. Inv /\ [ViewsNext]_viewsVars => Inv'
  BY NextInv
<1>3. Inv => NothingIsMissed
  BY InvMissesNothing
<1> QED
  BY <1>1, <1>2, <1>3, PTL DEF ViewsSpec

-----------------------------------------------------------------------------
(* Sums.                                                                   *)

\* Induction over the subsets of a finite set.
LEMMA SetInduction ==
  ASSUME NEW S, IsFiniteSet(S), NEW G, {} \in G,
         \A t \in SUBSET S, x \in S : t \in G /\ x \notin t => t \cup {x} \in G
  PROVE  SUBSET S \subseteq G
<1> SUFFICES ASSUME (SUBSET S) \ G # {} PROVE FALSE
  OBVIOUS
<1>1. PICK t \in (SUBSET S) \ G : \A u \in (SUBSET S) \ G : u \subseteq t => u = t
  <2> DEFINE T == (SUBSET S) \ G
  <2>1. T # {} /\ \A u \in T : IsFiniteSet(u)
    BY FS_Subset
  <2> HIDE DEF T
  <2>2. \E t \in T : \A u \in T : u \subseteq t => u = t
    BY <2>1, Smallest
  <2> QED
    BY <2>2 DEF T
<1>2. PICK x \in t : TRUE
  BY <1>1
<1> DEFINE u == t \ {x}
<1>3. u \in SUBSET S /\ u \in G /\ x \in S /\ x \notin u
  BY <1>1, <1>2
<1>4. u \cup {x} = t
  BY <1>2
<1> HIDE DEF u
<1>5. u \cup {x} \in G
  BY <1>3
<1> QED
  BY <1>1, <1>4, <1>5

\* What the sums over the subsets of S are.
AddsUp(g, f, S) ==
  /\ g \in [SUBSET S -> Int] /\ g[{}] = 0
  /\ \A t \in SUBSET S, x \in S : x \notin t => g[t \cup {x}] = g[t] + f[x]

LEMMA AddsUpExists ==
  ASSUME NEW S, IsFiniteSet(S), NEW f, \A x \in S : f[x] \in Int
  PROVE  \E g : AddsUp(g, f, S)
<1> DEFINE G == {t \in SUBSET S : \E g : AddsUp(g, f, t)}
<1>1. {} \in G
  <2> DEFINE g == [t \in SUBSET {} |-> 0]
  <2>1. AddsUp(g, f, {})
    BY DEF AddsUp
  <2> QED
    BY <2>1
<1>2. ASSUME NEW t \in SUBSET S, NEW x \in S, t \in G, x \notin t PROVE t \cup {x} \in G
  <2>1. PICK g : AddsUp(g, f, t)
    BY <1>2
  <2> DEFINE h == [u \in SUBSET (t \cup {x}) |-> IF x \in u THEN g[u \ {x}] + f[x] ELSE g[u]]
  <2>2. \A u \in SUBSET (t \cup {x}) : u \ {x} \in SUBSET t /\ (x \notin u => u \in SUBSET t)
    OBVIOUS
  <2>3. \A u \in SUBSET t : g[u] \in Int
    BY <2>1 DEF AddsUp
  <2>4. h \in [SUBSET (t \cup {x}) -> Int]
    BY <2>2, <2>3
  <2>5. h[{}] = 0
    BY <2>1 DEF AddsUp
  <2>6. ASSUME NEW u \in SUBSET (t \cup {x}), NEW y \in t \cup {x}, y \notin u
        PROVE  h[u \cup {y}] = h[u] + f[y]
    <3>1. u \cup {y} \in SUBSET (t \cup {x})
      OBVIOUS
    <3>2. CASE y = x
      <4>1. (u \cup {y}) \ {x} = u /\ x \notin u /\ x \in u \cup {y}
        BY <2>6, <3>2
      <4> QED
        BY <3>1, <3>2, <4>1
    <3>3. CASE y # x /\ x \in u
      <4>1. (u \cup {y}) \ {x} = (u \ {x}) \cup {y} /\ y \in t /\ y \notin u \ {x} /\ x \in u \cup {y}
        BY <2>6, <3>3
      <4>2. u \ {x} \in SUBSET t
        BY <2>2
      <4>3. g[(u \ {x}) \cup {y}] = g[u \ {x}] + f[y]
        BY <2>1, <4>1, <4>2 DEF AddsUp
      <4>4. g[u \ {x}] \in Int /\ f[x] \in Int /\ f[y] \in Int
        BY <2>3, <4>1, <4>2
      <4>5. h[u \cup {y}] = g[u \ {x}] + f[y] + f[x] /\ h[u] = g[u \ {x}] + f[x]
        BY <3>1, <3>3, <4>1, <4>3
      <4> QED
        BY <4>4, <4>5
    <3>4. CASE y # x /\ x \notin u
      <4>1. y \in t /\ u \in SUBSET t /\ x \notin u \cup {y}
        BY <2>2, <3>4
      <4>2. g[u \cup {y}] = g[u] + f[y]
        BY <2>1, <2>6, <4>1 DEF AddsUp
      <4> QED
        BY <3>1, <3>4, <4>1, <4>2
    <3> QED
      BY <3>2, <3>3, <3>4
  <2> HIDE DEF h
  <2>7. AddsUp(h, f, t \cup {x})
    BY <2>4, <2>5, <2>6 DEF AddsUp
  <2> QED
    BY <2>7
<1>3. SUBSET S \subseteq G
  <2> HIDE DEF G
  <2> QED
    BY <1>1, <1>2, SetInduction
<1> QED
  BY <1>3

Picked(t) == CHOOSE x \in t : TRUE

TotalOn(g, f, S) ==
  g = [t \in SUBSET S |-> IF t = {} THEN 0 ELSE f[Picked(t)] + g[t \ {Picked(t)}]]

LEMMA AddsUpTotal ==
  ASSUME NEW S, NEW f, NEW g, AddsUp(g, f, S), \A x \in S : f[x] \in Int
  PROVE  TotalOn(g, f, S)
<1>1. ASSUME NEW t \in SUBSET S, t # {} PROVE g[t] = f[Picked(t)] + g[t \ {Picked(t)}]
  <2> DEFINE x == Picked(t)
  <2>1. x \in t
    BY <1>1 DEF Picked
  <2> HIDE DEF x
  <2>2. t \ {x} \in SUBSET S /\ x \in S /\ x \notin t \ {x} /\ (t \ {x}) \cup {x} = t
    BY <2>1
  <2>3. g[t] = g[t \ {x}] + f[x] /\ g[t \ {x}] \in Int /\ f[x] \in Int
    BY <2>2 DEF AddsUp
  <2> QED
    BY <2>3 DEF x
<1>2. g = [t \in SUBSET S |-> g[t]] /\ g[{}] = 0
  BY DEF AddsUp
<1>3. \A t \in SUBSET S : g[t] = IF t = {} THEN 0 ELSE f[Picked(t)] + g[t \ {Picked(t)}]
  BY <1>1, <1>2
<1> QED
  BY <1>2, <1>3, Zenon DEF TotalOn

LEMMA TotalIs ==
  ASSUME NEW S, IsFiniteSet(S), NEW f, NEW g, AddsUp(g, f, S), \A x \in S : f[x] \in Int
  PROVE  Total(S, f) = g[S]
<1> DEFINE i == CHOOSE i : TotalOn(i, f, S)
<1>1. TotalOn(i, f, S)
  BY AddsUpTotal
<1>2. Total(S, f) = i[S]
  BY DEF Total, SumFunctionOnSet, FoldFunctionOnSet, MapThenFoldSet, TotalOn, Picked
<1> HIDE DEF i
<1>3. TotalOn(g, f, S)
  BY AddsUpTotal
<1> DEFINE G == {t \in SUBSET S : i[t] = g[t]}
<1>4. {} \in G
  BY <1>1, <1>3 DEF TotalOn
<1>5. SUFFICES ASSUME (SUBSET S) \ G # {} PROVE FALSE
  BY <1>2
<1>6. PICK t \in (SUBSET S) \ G : \A u \in (SUBSET S) \ G : u \subseteq t => u = t
  <2> DEFINE T == (SUBSET S) \ G
  <2>1. T # {} /\ \A u \in T : IsFiniteSet(u)
    BY <1>5, FS_Subset
  <2> HIDE DEF T
  <2>2. \E t \in T : \A u \in T : u \subseteq t => u = t
    BY <2>1, Smallest
  <2> QED
    BY <2>2 DEF T
<1> DEFINE x == Picked(t)
<1>7. t # {}
  BY <1>4, <1>6
<1>8. x \in t
  BY <1>7 DEF Picked
<1>9. i[t] = f[x] + i[t \ {x}]
  BY <1>1, <1>6, <1>7 DEF TotalOn
<1>10. g[t] = f[x] + g[t \ {x}]
  BY <1>3, <1>6, <1>7 DEF TotalOn
<1> HIDE DEF x
<1>11. t \ {x} \in G
  BY <1>6, <1>8
<1> QED
  BY <1>6, <1>9, <1>10, <1>11

LEMMA TotalAdd ==
  ASSUME NEW S, IsFiniteSet(S), NEW f, NEW x, x \notin S, \A y \in S \cup {x} : f[y] \in Int
  PROVE  Total(S \cup {x}, f) = Total(S, f) + f[x] /\ Total(S, f) \in Int
<1>1. IsFiniteSet(S \cup {x})
  BY FS_AddElement
<1>2. PICK g : AddsUp(g, f, S \cup {x})
  BY <1>1, AddsUpExists
<1> DEFINE h == [t \in SUBSET S |-> g[t]]
<1>3. AddsUp(h, f, S)
  <2>1. \A t \in SUBSET S : t \in SUBSET (S \cup {x}) /\ g[t] \in Int
    BY <1>2 DEF AddsUp
  <2>2. \A t \in SUBSET S, y \in S : t \cup {y} \in SUBSET S
    OBVIOUS
  <2>3. h \in [SUBSET S -> Int] /\ h[{}] = g[{}]
    BY <2>1
  <2>4. \A t \in SUBSET S, y \in S : y \notin t => g[t \cup {y}] = g[t] + f[y]
    BY <1>2, <2>1 DEF AddsUp
  <2>5. \A t \in SUBSET S, y \in S : y \notin t => h[t \cup {y}] = h[t] + f[y]
    BY <2>2, <2>4
  <2>6. g[{}] = 0
    BY <1>2 DEF AddsUp
  <2> HIDE DEF h
  <2> QED
    BY <2>3, <2>5, <2>6 DEF AddsUp
<1>4. Total(S, f) = h[S] /\ h[S] = g[S]
  <2> HIDE DEF h
  <2>1. Total(S, f) = h[S]
    BY <1>3, TotalIs
  <2> QED
    BY <2>1 DEF h
<1>5. Total(S \cup {x}, f) = g[S \cup {x}]
  BY <1>1, <1>2, TotalIs
<1>6. g[S \cup {x}] = g[S] + f[x] /\ g[S] \in Int
  BY <1>2 DEF AddsUp
<1> QED
  BY <1>4, <1>5, <1>6

LEMMA TotalNone == ASSUME NEW f PROVE Total({}, f) = 0
<1> DEFINE g == [t \in SUBSET {} |-> 0]
<1>1. AddsUp(g, f, {})
  BY DEF AddsUp
<1>2. IsFiniteSet({})
  BY FS_EmptySet
<1>3. \A x \in {} : f[x] \in Int
  OBVIOUS
<1>4. Total({}, f) = g[{}]
  <2> HIDE DEF g
  <2> QED
    BY <1>1, <1>2, <1>3, TotalIs
<1> QED
  BY <1>4

LEMMA TotalSame ==
  ASSUME NEW S, IsFiniteSet(S), NEW f, NEW g, \A x \in S : f[x] \in Int /\ g[x] = f[x]
  PROVE  Total(S, f) = Total(S, g) /\ Total(S, f) \in Int
<1> DEFINE G == {t \in SUBSET S : Total(t, f) = Total(t, g) /\ Total(t, f) \in Int}
<1>1. {} \in G
  BY TotalNone
<1>2. ASSUME NEW t \in SUBSET S, NEW x \in S, t \in G, x \notin t PROVE t \cup {x} \in G
  <2>1. IsFiniteSet(t) /\ x \notin t
    BY <1>2, FS_Subset
  <2>2. \A y \in t \cup {x} : f[y] \in Int
    OBVIOUS
  <2>3. \A y \in t \cup {x} : g[y] \in Int
    OBVIOUS
  <2>4. Total(t \cup {x}, f) = Total(t, f) + f[x] /\ Total(t, f) \in Int
    BY <2>1, <2>2, TotalAdd
  <2>5. Total(t \cup {x}, g) = Total(t, g) + g[x] /\ Total(t, g) \in Int
    BY <2>1, <2>3, TotalAdd
  <2> QED
    BY <1>2, <2>2, <2>4, <2>5
<1>3. SUBSET S \subseteq G
  <2> HIDE DEF G
  <2> QED
    BY <1>1, <1>2, SetInduction
<1> QED
  BY <1>3

\* A sum one of whose terms grows.
LEMMA TotalGrows ==
  ASSUME NEW S, IsFiniteSet(S), NEW f, NEW g, NEW x \in S, NEW d \in Int,
         \A y \in S : f[y] \in Int, \A y \in S \ {x} : g[y] = f[y], g[x] = f[x] + d
  PROVE  Total(S, g) = Total(S, f) + d
<1> DEFINE T == S \ {x}
<1>1. T \cup {x} = S /\ x \notin T
  OBVIOUS
<1>2. IsFiniteSet(T)
  BY FS_Subset
<1> HIDE DEF T
<1>7. \A y \in T \cup {x} : f[y] \in Int
  BY <1>1 DEF T
<1>3. \A y \in T \cup {x} : g[y] \in Int
  BY <1>1, <1>7 DEF T
<1>4. Total(T \cup {x}, f) = Total(T, f) + f[x] /\ Total(T, f) \in Int
  BY <1>1, <1>2, <1>7, TotalAdd
<1>5. Total(T \cup {x}, g) = Total(T, g) + g[x] /\ Total(T, g) \in Int
  BY <1>1, <1>2, <1>3, TotalAdd
<1>6. Total(T, f) = Total(T, g)
  <2>1. \A y \in T : f[y] \in Int /\ g[y] = f[y]
    BY <1>7 DEF T
  <2> QED
    BY <1>2, <2>1, TotalSame
<1>8. Total(S, f) = Total(T, f) + f[x] /\ Total(S, g) = Total(T, f) + g[x]
  BY <1>1, <1>4, <1>5, <1>6
<1>9. f[x] \in Int /\ Total(T, f) \in Int
  BY <1>4
<1> QED
  BY <1>8, <1>9

LEMMA SumIs == \A s, f : Sum(s, f) = Total(DOMAIN s, [k \in DOMAIN s |-> f[s[k]]])
  BY DEF Sum, SumFunction, Total

LEMMA SumNone == ASSUME NEW f PROVE Sum(<<>>, f) = 0
<1>1. DOMAIN <<>> = {}
  OBVIOUS
<1> QED
  BY <1>1, SumIs, TotalNone

LEMMA SumAppend ==
  ASSUME NEW V, NEW f, \A y \in V : f[y] \in Int, NEW s \in Seq(V), NEW x \in V
  PROVE  Sum(Append(s, x), f) = Sum(s, f) + f[x] /\ Sum(s, f) \in Int
<1> DEFINE n == Len(s)  t == Append(s, x)
           g == [k \in DOMAIN s |-> f[s[k]]]
           h == [k \in DOMAIN t |-> f[t[k]]]
<1>1. t \in Seq(V) /\ Len(t) = n + 1 /\ t[n + 1] = x /\ \A k \in 1 .. n : t[k] = s[k]
  BY AppendProperties
<1>2. n \in Nat /\ DOMAIN s = 1 .. n /\ DOMAIN t = 1 .. n + 1
  BY <1>1, LenProperties
<1>3. \A k \in 1 .. n : s[k] \in V
  BY <1>2, ElementOfSeq
<1>4. Sum(s, f) = Total(1 .. n, g) /\ Sum(t, f) = Total(1 .. n + 1, h)
  <2>1. Sum(s, f) = Total(DOMAIN s, g) /\ Sum(t, f) = Total(DOMAIN t, h)
    BY SumIs
  <2> HIDE DEF t, n, g, h
  <2> QED
    BY <1>2, <2>1
<1>5. /\ \A k \in 1 .. n : g[k] \in Int
      /\ \A k \in 1 .. n : h[k] = g[k]
      /\ h[n + 1] = f[x] /\ f[x] \in Int
  <2>1. \A k \in 1 .. n : g[k] = f[s[k]]
    BY <1>2
  <2>2. \A k \in 1 .. n + 1 : h[k] = f[t[k]]
    BY <1>2
  <2>3. n + 1 \in 1 .. n + 1 /\ \A k \in 1 .. n : k \in 1 .. n + 1
    BY <1>2
  <2> HIDE DEF t, n, g, h
  <2>4. \A k \in 1 .. n : g[k] \in Int
    BY <1>3, <2>1
  <2>5. ASSUME NEW k \in 1 .. n PROVE h[k] = g[k]
    <3>1. h[k] = f[t[k]] /\ g[k] = f[s[k]] /\ t[k] = s[k]
      BY <1>1, <2>1, <2>2, <2>3
    <3> QED
      BY <3>1
  <2>6. h[n + 1] = f[x] /\ f[x] \in Int
    <3>1. h[n + 1] = f[t[n + 1]]
      BY <2>2, <2>3
    <3>2. t[n + 1] = x
      BY <1>1
    <3>3. f[x] \in Int
      OBVIOUS
    <3> QED
      BY <3>1, <3>2, <3>3
  <2> QED
    BY <2>4, <2>5, <2>6
<1> HIDE DEF t, n, g, h
<1>6. 1 .. n + 1 = (1 .. n) \cup {n + 1} /\ n + 1 \notin 1 .. n /\ IsFiniteSet(1 .. n)
  <2>1. 1 .. n + 1 = (1 .. n) \cup {n + 1} /\ n + 1 \notin 1 .. n
    BY <1>2
  <2>2. 1 \in Int /\ n \in Int
    BY <1>2
  <2> QED
    BY <2>1, <2>2, FS_Interval
<1>7. Total(1 .. n, g) = Total(1 .. n, h) /\ Total(1 .. n, g) \in Int
  <2>1. \A k \in 1 .. n : g[k] \in Int /\ h[k] = g[k]
    BY <1>5
  <2> QED
    BY <1>6, <2>1, TotalSame
<1>8. Total((1 .. n) \cup {n + 1}, h) = Total(1 .. n, h) + h[n + 1] /\ Total(1 .. n, h) \in Int
  <2>1. \A k \in (1 .. n) \cup {n + 1} : h[k] \in Int
    BY <1>5
  <2>2. IsFiniteSet(1 .. n) /\ n + 1 \notin 1 .. n
    BY <1>6
  <2> DEFINE S == 1 .. n  y == n + 1
  <2> HIDE DEF S, y
  <2>3. Total(S \cup {y}, h) = Total(S, h) + h[y] /\ Total(S, h) \in Int
    BY <2>1, <2>2, TotalAdd DEF S, y
  <2> QED
    BY <2>3 DEF S, y
<1>9. Sum(t, f) = Total(1 .. n, h) + f[x]
  BY <1>4, <1>5, <1>6, <1>8
<1>10. Sum(t, f) = Sum(s, f) + f[x] /\ Sum(s, f) \in Int
  BY <1>4, <1>7, <1>9
<1> QED
  BY <1>10 DEF t

LEMMA SumInt ==
  ASSUME NEW V, NEW f, \A y \in V : f[y] \in Int, NEW s \in Seq(V)
  PROVE  Sum(s, f) \in Int
<1>1. CASE s = <<>>
  BY <1>1, SumNone
<1>2. CASE s # <<>>
  <2>1. PICK r \in Seq(V), x \in V : s = Append(r, x)
    BY <1>2, SequenceEmptyOrAppend
  <2>2. Sum(Append(r, x), f) = Sum(r, f) + f[x] /\ Sum(r, f) \in Int
    BY SumAppend
  <2>3. f[x] \in Int
    OBVIOUS
  <2> QED
    BY <2>1, <2>2, <2>3
<1> QED
  BY <1>1, <1>2

\* A sequence without repetitions.
LEMMA OnceAppend ==
  ASSUME NEW V, NEW s \in Seq(V), NEW x \in V
  PROVE  IsInjective(Append(s, x)) <=> IsInjective(s) /\ x \notin ToSet(s)
<1> DEFINE n == Len(s)  t == Append(s, x)
<1>1. Len(t) = n + 1 /\ t \in Seq(V) /\ t[n + 1] = x /\ \A k \in 1 .. n : t[k] = s[k]
  BY AppendProperties
<1>2. n \in Nat /\ DOMAIN s = 1 .. n /\ DOMAIN t = 1 .. n + 1
  BY <1>1, LenProperties
<1> HIDE DEF n, t
<1>3. ASSUME IsInjective(t) PROVE IsInjective(s) /\ x \notin ToSet(s)
  <2>1. \A k, l \in 1 .. n + 1 : t[k] = t[l] => k = l
    BY <1>2, <1>3 DEF IsInjective
  <2>2. \A k, l \in 1 .. n : s[k] = s[l] => k = l
    BY <1>1, <1>2, <2>1
  <2>3. \A k \in 1 .. n : s[k] # x
    BY <1>1, <1>2, <2>1
  <2> QED
    BY <1>2, <2>2, <2>3 DEF IsInjective, ToSet
<1>4. ASSUME IsInjective(s), x \notin ToSet(s) PROVE IsInjective(t)
  <2>1. \A k, l \in 1 .. n : s[k] = s[l] => k = l
    BY <1>2, <1>4 DEF IsInjective
  <2>2. \A k \in 1 .. n : s[k] # x
    BY <1>2, <1>4 DEF ToSet
  <2>3. ASSUME NEW k \in 1 .. n + 1, NEW l \in 1 .. n + 1, t[k] = t[l] PROVE k = l
    <3>1. \A j \in 1 .. n + 1 : j \in 1 .. n \/ j = n + 1
      BY <1>2
    <3> QED
      BY <1>1, <2>1, <2>2, <2>3, <3>1
  <2> QED
    BY <1>2, <2>3 DEF IsInjective
<1> QED
  BY <1>3, <1>4 DEF t

LEMMA OnceNone == IsInjective(<<>>) /\ ToSet(<<>>) = {} /\ \A V : <<>> \in Seq(V)
  BY DEF IsInjective, ToSet

\* The sum of a sequence without repetitions is that of its set, and its length
\* the size of it.
LEMMA SumOnce ==
  ASSUME NEW V, NEW f, \A y \in V : f[y] \in Int, NEW s \in Seq(V), IsInjective(s)
  PROVE  Sum(s, f) = Total(ToSet(s), f) /\ IsFiniteSet(ToSet(s)) /\ Len(s) = Cardinality(ToSet(s))
<1> DEFINE P(r) == Sum(r, f) = Total(ToSet(r), f) /\ IsFiniteSet(ToSet(r)) /\ Len(r) = Cardinality(ToSet(r))
           G == {r \in Seq(V) : IsInjective(r) => P(r)}
<1>1. <<>> \in G
  <2>1. Len(<<>>) = 0 /\ IsFiniteSet({}) /\ Cardinality({}) = 0
    BY FS_EmptySet
  <2> QED
    BY <2>1, OnceNone, SumNone, TotalNone
<1>2. ASSUME NEW r \in Seq(V), NEW x \in V, r \in G PROVE Append(r, x) \in G
  <2> DEFINE t == Append(r, x)
  <2>1. t \in Seq(V) /\ Len(t) = Len(r) + 1 /\ ToSet(t) = ToSet(r) \cup {x}
    BY AppendSet
  <2>2. SUFFICES ASSUME IsInjective(t) PROVE P(t)
    BY <2>1
  <2>3. IsInjective(r) /\ x \notin ToSet(r)
    BY <2>2, OnceAppend
  <2>4. P(r)
    BY <1>2, <2>3
  <2>5. Sum(t, f) = Sum(r, f) + f[x]
    BY SumAppend
  <2> DEFINE S == ToSet(r)
  <2>6. S \subseteq V
    BY SetOfSeq
  <2>7. \A y \in S \cup {x} : f[y] \in Int
    BY <2>6
  <2>8. IsFiniteSet(S) /\ x \notin S
    BY <2>3, <2>4
  <2> HIDE DEF S
  <2>9. Total(S \cup {x}, f) = Total(S, f) + f[x] /\ Total(S, f) \in Int
    BY <2>7, <2>8, TotalAdd
  <2>10. IsFiniteSet(S \cup {x}) /\ Cardinality(S \cup {x}) = Cardinality(S) + 1
    BY <2>8, FS_AddElement
  <2> QED
    BY <2>1, <2>4, <2>5, <2>9, <2>10 DEF S
<1>3. Seq(V) \subseteq G
  <2> HIDE DEF G
  <2> QED
    BY <1>1, <1>2, SeqInduction
<1> QED
  BY <1>3

LEMMA KeepOnce ==
  ASSUME NEW V, NEW S, NEW s \in Seq(V), IsInjective(s)
  PROVE  IsInjective(Keep(s, S))
<1> DEFINE G == {r \in Seq(V) : IsInjective(r) => IsInjective(Keep(r, S))}
<1>1. <<>> \in G
  BY OnceNone, KeepNone
<1>2. ASSUME NEW r \in Seq(V), NEW x \in V, r \in G PROVE Append(r, x) \in G
  <2> DEFINE k == Keep(r, S)
  <2>1. Append(r, x) \in Seq(V)
    BY AppendSet
  <2>2. SUFFICES ASSUME IsInjective(Append(r, x)) PROVE IsInjective(Keep(Append(r, x), S))
    BY <2>1
  <2>3. IsInjective(r) /\ x \notin ToSet(r)
    BY <2>2, OnceAppend
  <2>4. k \in Seq(V) /\ ToSet(k) \subseteq ToSet(r)
    BY KeepSeq DEF KeepsOK
  <2>5. IsInjective(k)
    BY <1>2, <2>3
  <2>6. Keep(Append(r, x), S) = IF x \in S THEN Append(k, x) ELSE k
    BY KeepAppend
  <2> HIDE DEF k
  <2>7. IsInjective(Append(k, x))
    BY <2>3, <2>4, <2>5, OnceAppend
  <2> QED
    BY <2>5, <2>6, <2>7
<1>3. Seq(V) \subseteq G
  <2> HIDE DEF G
  <2> QED
    BY <1>1, <1>2, SeqInduction
<1> QED
  BY <1>3

LEMMA DistinctOnce ==
  ASSUME NEW V, NEW s \in Seq(V)
  PROVE  IsInjective(Distinct(s))
<1> DEFINE n == Len(s)
           at == [k \in DOMAIN s |-> k]
           F == {k \in DOMAIN s : \A l \in 1..k - 1 : s[l] # s[k]}
           first == Keep(at, F)
<1>1. n \in Nat /\ DOMAIN s = 1 .. n
  BY LenProperties
<1>2. at \in Seq(1 .. n) /\ IsInjective(at)
  <2>1. at = [k \in 1 .. n |-> k]
    BY <1>1
  <2>2. at \in Seq(1 .. n) /\ DOMAIN at = 1 .. n /\ \A k \in 1 .. n : at[k] = k
    BY <1>1, <2>1
  <2> QED
    BY <2>2 DEF IsInjective
<1>3. first \in Seq(1 .. n) /\ IsInjective(first) /\ ToSet(first) \subseteq F
  <2> HIDE DEF at, F
  <2>1. KeepsOK(at, F, 1 .. n)
    BY <1>2, KeepSeq
  <2> QED
    BY <1>2, <2>1, KeepOnce DEF KeepsOK
<1>4. Distinct(s) = [k \in DOMAIN first |-> s[first[k]]]
  BY DEF Distinct
<1>5. \A k, l \in F : s[k] = s[l] => k = l
  <2> SUFFICES ASSUME NEW k \in F, NEW l \in F, s[k] = s[l], k # l PROVE FALSE
    OBVIOUS
  <2>1. k \in 1 .. n /\ l \in 1 .. n
    BY <1>1
  <2>2. k \in 1 .. l - 1 \/ l \in 1 .. k - 1
    BY <2>1, <1>1
  <2> QED
    BY <2>2
<1> HIDE DEF n, at, F, first
<1>6. DOMAIN Distinct(s) = DOMAIN first /\ \A k \in DOMAIN first : first[k] \in F
  BY <1>3, <1>4 DEF ToSet
<1>7. ASSUME NEW k \in DOMAIN first, NEW l \in DOMAIN first, Distinct(s)[k] = Distinct(s)[l] PROVE k = l
  <2>1. s[first[k]] = s[first[l]]
    BY <1>4, <1>7
  <2>2. first[k] = first[l]
    BY <1>5, <1>6, <2>1
  <2> QED
    BY <1>3, <2>2 DEF IsInjective
<1> QED
  BY <1>6, <1>7 DEF IsInjective

\* A sequence adds up to at least what any of its elements do.
LEMMA SumAtLeast ==
  ASSUME NEW V, NEW f, \A y \in V : f[y] \in Nat, NEW s \in Seq(V), NEW T \in SUBSET ToSet(s)
  PROVE  Total(T, f) <= Sum(s, f) /\ IsFiniteSet(T) /\ Total(T, f) \in Int
<1> DEFINE P(r, t) == Total(t, f) <= Sum(r, f) /\ IsFiniteSet(t) /\ Total(t, f) \in Int
           G == {r \in Seq(V) : \A t \in SUBSET ToSet(r) : P(r, t)}
<1>1. <<>> \in G
  <2>1. ToSet(<<>>) = {} /\ <<>> \in Seq(V) /\ Sum(<<>>, f) = 0 /\ Total({}, f) = 0 /\ IsFiniteSet({})
    BY OnceNone, SumNone, TotalNone, FS_EmptySet
  <2>2. P(<<>>, {})
    BY <2>1
  <2> HIDE DEF P
  <2> QED
    BY <2>1, <2>2
<1>2. ASSUME NEW r \in Seq(V), NEW x \in V, r \in G PROVE Append(r, x) \in G
  <2>1. Append(r, x) \in Seq(V) /\ ToSet(Append(r, x)) = ToSet(r) \cup {x}
    BY AppendSet
  <2>2. SUFFICES ASSUME NEW t \in SUBSET (ToSet(r) \cup {x}) PROVE P(Append(r, x), t)
    BY <2>1
  <2>3. \A y \in V : f[y] \in Int
    OBVIOUS
  <2>4. Sum(Append(r, x), f) = Sum(r, f) + f[x] /\ Sum(r, f) \in Int
    BY <2>3, SumAppend
  <2>5. f[x] \in Nat
    OBVIOUS
  <2> DEFINE u == t \ {x}
  <2>6. P(r, u)
    BY <1>2, <2>2
  <2>7. CASE x \notin t
    <3>1. u = t
      BY <2>7
    <3> HIDE DEF u
    <3> QED
      BY <2>4, <2>5, <2>6, <3>1
  <2>8. CASE x \in t
    <3>1. t = u \cup {x} /\ x \notin u
      BY <2>8
    <3>2. u \subseteq V
      BY SetOfSeq
    <3> HIDE DEF u
    <3>3. \A y \in u \cup {x} : f[y] \in Int
      BY <2>3, <3>2
    <3>4. IsFiniteSet(u) /\ x \notin u
      BY <2>6, <3>1
    <3>5. Total(u \cup {x}, f) = Total(u, f) + f[x] /\ Total(u, f) \in Int
      BY <3>3, <3>4, TotalAdd
    <3>6. IsFiniteSet(u \cup {x})
      BY <3>4, FS_AddElement
    <3> QED
      BY <2>4, <2>5, <2>6, <3>1, <3>5, <3>6
  <2> QED
    BY <2>7, <2>8
<1>3. Seq(V) \subseteq G
  <2> HIDE DEF G
  <2> QED
    BY <1>1, <1>2, SeqInduction
<1> QED
  BY <1>3

LEMMA LenSum ==
  ASSUME NEW V, NEW s \in Seq(V)
  PROVE  Len(s) = Sum(s, [y \in V |-> 1])
<1> DEFINE f == [y \in V |-> 1]
           G == {r \in Seq(V) : Len(r) = Sum(r, f)}
<1>0. \A y \in V : f[y] = 1 /\ f[y] \in Int
  OBVIOUS
<1> HIDE DEF f
<1>1. <<>> \in G
  BY SumNone
<1>2. ASSUME NEW r \in Seq(V), NEW x \in V, r \in G PROVE Append(r, x) \in G
  <2>1. Append(r, x) \in Seq(V) /\ Len(Append(r, x)) = Len(r) + 1
    BY AppendSet
  <2>2. \A y \in V : f[y] \in Int
    BY <1>0
  <2>3. Sum(Append(r, x), f) = Sum(r, f) + f[x] /\ Sum(r, f) \in Int
    BY <2>2, SumAppend
  <2> QED
    BY <1>0, <1>2, <2>1, <2>3
<1>3. Seq(V) \subseteq G
  <2> HIDE DEF G
  <2> QED
    BY <1>1, <1>2, SeqInduction
<1>4. Len(s) = Sum(s, f)
  BY <1>3
<1> QED
  BY <1>4 DEF f

Class(V, c, m) == {i \in V : c[i] = m}

\* A sum is that of its parts.
LEMMA SumInParts ==
  ASSUME NEW V, NEW f, \A y \in V : f[y] \in Int, NEW M, IsFiniteSet(M), NEW c \in [V -> M],
         NEW s \in Seq(V)
  PROVE  /\ Total(M, [m \in M |-> Sum(Keep(s, Class(V, c, m)), f)]) = Sum(s, f)
         /\ \A m \in M : Sum(Keep(s, Class(V, c, m)), f) \in Int
<1> DEFINE Part(r, m) == Sum(Keep(r, Class(V, c, m)), f)
           parts(r) == [m \in M |-> Part(r, m)]
           G == {r \in Seq(V) : Total(M, parts(r)) = Sum(r, f)}
<1>0. \A r \in Seq(V) : \A m : Part(r, m) \in Int
  <2> TAKE r \in Seq(V)
  <2> TAKE m
  <2> DEFINE k == Keep(r, Class(V, c, m))
  <2>1. k \in Seq(V)
    BY KeepSeq DEF KeepsOK
  <2> HIDE DEF k
  <2>2. Sum(k, f) \in Int
    BY <2>1, SumInt
  <2> QED
    BY <2>2 DEF k
<1>1. <<>> \in G
  <2>1. \A m \in M : Part(<<>>, m) = 0
    BY KeepNone, SumNone
  <2> DEFINE z == [m \in M |-> 0]  q == parts(<<>>)
  <2>2. \A m \in M : z[m] = 0 /\ q[m] = 0
    BY <2>1
  <2> DEFINE Z == {t \in SUBSET M : Total(t, q) = 0}
  <2> HIDE DEF z, q
  <2>3. {} \in Z
    BY TotalNone
  <2>4. ASSUME NEW t \in SUBSET M, NEW x \in M, t \in Z, x \notin t PROVE t \cup {x} \in Z
    <3>1. IsFiniteSet(t) /\ x \notin t
      BY <2>4, FS_Subset
    <3>2. \A y \in t \cup {x} : q[y] \in Int
      BY <2>2
    <3>3. Total(t \cup {x}, q) = Total(t, q) + q[x] /\ Total(t, q) \in Int
      BY <3>1, <3>2, TotalAdd
    <3>4. Total(t, q) = 0 /\ q[x] = 0
      BY <2>2, <2>4
    <3> QED
      BY <3>3, <3>4
  <2>5. SUBSET M \subseteq Z
    <3> HIDE DEF Z
    <3> QED
      BY <2>3, <2>4, SetInduction
  <2>6. Total(M, q) = 0
    BY <2>5
  <2> QED
    BY <2>6, SumNone, OnceNone DEF q
<1>2. ASSUME NEW r \in Seq(V), NEW x \in V, r \in G PROVE Append(r, x) \in G
  <2> DEFINE a == parts(r)  b == parts(Append(r, x))  d == f[x]  m == c[x]
  <2>1. Append(r, x) \in Seq(V)
    BY AppendSet
  <2>2. m \in M /\ d \in Int
    OBVIOUS
  <2>3. \A y \in M : a[y] \in Int
    BY <1>0
  <2>4. ASSUME NEW y \in M PROVE b[y] = IF y = m THEN a[y] + d ELSE a[y]
    <3> DEFINE S == Class(V, c, y)  k == Keep(r, S)
    <3>1. Keep(Append(r, x), S) = IF x \in S THEN Append(k, x) ELSE k
      BY KeepAppend
    <3>2. k \in Seq(V)
      BY KeepSeq DEF KeepsOK
    <3>3. x \in S <=> y = m
      BY DEF Class
    <3>4. b[y] = Sum(Keep(Append(r, x), S), f) /\ a[y] = Sum(k, f)
      OBVIOUS
    <3> HIDE DEF S, k, a, b, d, m
    <3>5. Sum(Append(k, x), f) = Sum(k, f) + f[x] /\ Sum(k, f) \in Int
      BY <3>2, SumAppend
    <3> QED
      BY <3>1, <3>3, <3>4, <3>5 DEF d
  <2>5. Total(M, a) = Sum(r, f)
    BY <1>2
  <2> HIDE DEF a, b, d, m
  <2>6. Total(M, b) = Total(M, a) + d
    <3>1. \A y \in M \ {m} : b[y] = a[y]
      BY <2>4
    <3>2. b[m] = a[m] + d
      BY <2>2, <2>4
    <3> QED
      BY <2>2, <2>3, <3>1, <3>2, TotalGrows
  <2>7. Sum(Append(r, x), f) = Sum(r, f) + d /\ Sum(r, f) \in Int
    BY SumAppend DEF d
  <2>8. Total(M, b) = Sum(Append(r, x), f)
    BY <2>5, <2>6, <2>7
  <2> QED
    BY <2>1, <2>8 DEF b
<1>3. Seq(V) \subseteq G
  <2> HIDE DEF G
  <2> QED
    BY <1>1, <1>2, SeqInduction
<1>4. \A m \in M : Part(s, m) \in Int
  BY <1>0
<1> QED
  BY <1>3, <1>4

LEMMA SumOfParts ==
  ASSUME NEW V, NEW f, \A y \in V : f[y] \in Int, NEW M, IsFiniteSet(M), NEW c \in [V -> M],
         NEW s \in Seq(V), NEW p,
         \A m \in M : p[m] = Sum(Keep(s, Class(V, c, m)), f)
  PROVE  Total(M, p) = Sum(s, f)
<1> DEFINE q == [m \in M |-> Sum(Keep(s, Class(V, c, m)), f)]
<1>1. Total(M, q) = Sum(s, f) /\ \A m \in M : Sum(Keep(s, Class(V, c, m)), f) \in Int
  BY SumInParts
<1>2. \A m \in M : q[m] \in Int /\ p[m] = q[m]
  BY <1>1
<1> HIDE DEF q
<1>3. Total(M, q) = Total(M, p)
  BY <1>2, TotalSame
<1> QED
  BY <1>1, <1>3

-----------------------------------------------------------------------------
(* The longest head that fits.                                             *)

Middle(r) == (r[1] + r[2] + 1) \div 2

BisectOn(b, n) ==
  b = [r \in (0 .. n) \X (0 .. n) |->
         IF r[1] >= r[2] THEN r[1]
         ELSE IF Fits(Middle(r)) THEN b[<<Middle(r), r[2]>>] ELSE b[<<r[1], Middle(r) - 1>>]]

Bisected(lo, hi) ==
  IF lo >= hi \/ Capacity <= lo THEN lo ELSE IF hi <= Capacity THEN hi ELSE Capacity

LEMMA MiddleIs ==
  ASSUME NEW n \in Nat, NEW lo \in 0 .. n, NEW hi \in 0 .. n, lo < hi
  PROVE  LET m == Middle(<<lo, hi>>) IN
         /\ m \in 0 .. n /\ m - 1 \in 0 .. n /\ lo + 1 <= m /\ m <= hi
<1> DEFINE m == (lo + hi + 1) \div 2
<1>1. m \in Nat /\ lo + 1 <= m /\ m <= hi
  OBVIOUS
<1>2. Middle(<<lo, hi>>) = m
  BY DEF Middle
<1> HIDE DEF m
<1> QED
  BY <1>1, <1>2

LEMMA BisectStep ==
  ASSUME NEW b, NEW n \in Nat, BisectOn(b, n), NEW lo \in 0 .. n, NEW hi \in 0 .. n
  PROVE  LET m == Middle(<<lo, hi>>) IN
         b[<<lo, hi>>] = IF lo >= hi THEN lo ELSE IF Fits(m) THEN b[<<m, hi>>] ELSE b[<<lo, m - 1>>]
<1> DEFINE r == <<lo, hi>>
<1>1. r \in (0 .. n) \X (0 .. n) /\ r[1] = lo /\ r[2] = hi
  OBVIOUS
<1> HIDE DEF r
<1>2. b[r] = IF r[1] >= r[2] THEN r[1]
             ELSE IF Fits(Middle(r)) THEN b[<<Middle(r), r[2]>>] ELSE b[<<r[1], Middle(r) - 1>>]
  BY <1>1 DEF BisectOn
<1> QED
  BY <1>1, <1>2 DEF r

\* The halves lead to the same end.
LEMMA BisectedStep ==
  ASSUME NEW lo \in Nat, NEW hi \in Nat, lo < hi, NEW m \in Nat, lo + 1 <= m, m <= hi
  PROVE  Bisected(lo, hi) = IF Fits(m) THEN Bisected(m, hi) ELSE Bisected(lo, m - 1)
<1>1. Capacity \in Nat
  BY ViewsAssumption
<1> QED
  BY <1>1 DEF Fits, Bisected

LEMMA BisectEnds ==
  ASSUME NEW b, NEW n \in Nat, BisectOn(b, n), NEW lo \in 0 .. n, NEW hi \in 0 .. n
  PROVE  b[<<lo, hi>>] = Bisected(lo, hi)
<1> DEFINE G == {d \in Nat : \A l, h \in 0 .. n : h - l <= d => b[<<l, h>>] = Bisected(l, h)}
<1>1. ASSUME NEW l \in 0 .. n, NEW h \in 0 .. n, l >= h PROVE b[<<l, h>>] = Bisected(l, h)
  <2>1. b[<<l, h>>] = l
    BY <1>1, BisectStep
  <2> QED
    BY <1>1, <2>1 DEF Bisected
<1>2. 0 \in G
  <2>1. \A l, h \in 0 .. n : h - l <= 0 => l >= h
    OBVIOUS
  <2> QED
    BY <1>1, <2>1
<1>3. ASSUME NEW d \in Nat, d \in G PROVE d + 1 \in G
  <2>1. \A l, h \in 0 .. n : h - l <= d => b[<<l, h>>] = Bisected(l, h)
    BY <1>3
  <2>2. ASSUME NEW l \in 0 .. n, NEW h \in 0 .. n, h - l <= d + 1 PROVE b[<<l, h>>] = Bisected(l, h)
    <3>1. CASE l >= h
      BY <1>1, <3>1
    <3>2. CASE l < h
      <4> DEFINE m == Middle(<<l, h>>)
      <4>1. m \in 0 .. n /\ m - 1 \in 0 .. n /\ l + 1 <= m /\ m <= h
        BY <3>2, MiddleIs
      <4>2. b[<<l, h>>] = IF l >= h THEN l ELSE IF Fits(m) THEN b[<<m, h>>] ELSE b[<<l, m - 1>>]
        BY BisectStep
      <4> HIDE DEF m
      <4>3. h - m <= d /\ (m - 1) - l <= d
        BY <2>2, <4>1
      <4>4. b[<<m, h>>] = Bisected(m, h) /\ b[<<l, m - 1>>] = Bisected(l, m - 1)
        BY <2>1, <4>1, <4>3
      <4>5. Bisected(l, h) = IF Fits(m) THEN Bisected(m, h) ELSE Bisected(l, m - 1)
        BY <3>2, <4>1, BisectedStep
      <4> QED
        BY <3>2, <4>2, <4>4, <4>5
    <3> QED
      BY <3>1, <3>2
  <2> QED
    BY <2>2
<1>4. Nat \subseteq G
  <2> HIDE DEF G
  <2> QED
    BY <1>2, <1>3, Induction
<1>5. \A l, h \in 0 .. n : h - l <= n => b[<<l, h>>] = Bisected(l, h)
  BY <1>4
<1> QED
  BY <1>5

LEMMA BisectExists == ASSUME NEW n \in Nat PROVE \E b : BisectOn(b, n)
<1> DEFINE D == (0 .. n) \X (0 .. n)
           b == [r \in D |-> Bisected(r[1], r[2])]
           Half(r) == IF r[1] >= r[2] THEN r[1]
                      ELSE IF Fits(Middle(r)) THEN b[<<Middle(r), r[2]>>] ELSE b[<<r[1], Middle(r) - 1>>]
<1>1. \A lo, hi \in 0 .. n : b[<<lo, hi>>] = Bisected(lo, hi)
  OBVIOUS
<1>2. b = [r \in D |-> b[r]]
  OBVIOUS
<1> HIDE DEF b
<1>3. ASSUME NEW r \in D PROVE b[r] = Half(r)
  <2>1. PICK lo \in 0 .. n, hi \in 0 .. n : r = <<lo, hi>>
    OBVIOUS
  <2> DEFINE m == Middle(r)
  <2>2. Half(r) = IF lo >= hi THEN lo ELSE IF Fits(m) THEN b[<<m, hi>>] ELSE b[<<lo, m - 1>>]
    BY <2>1
  <2>3. b[r] = Bisected(lo, hi)
    BY <1>1, <2>1
  <2>4. CASE lo >= hi
    BY <2>2, <2>3, <2>4 DEF Bisected
  <2>5. CASE lo < hi
    <3>1. m \in 0 .. n /\ m - 1 \in 0 .. n /\ lo + 1 <= m /\ m <= hi
      BY <2>1, <2>5, MiddleIs
    <3> HIDE DEF m
    <3>2. Bisected(lo, hi) = IF Fits(m) THEN Bisected(m, hi) ELSE Bisected(lo, m - 1)
      BY <2>5, <3>1, BisectedStep
    <3>3. b[<<m, hi>>] = Bisected(m, hi) /\ b[<<lo, m - 1>>] = Bisected(lo, m - 1)
      BY <1>1, <3>1
    <3> HIDE DEF Half
    <3> QED
      BY <2>2, <2>3, <2>5, <3>2, <3>3
  <2> QED
    BY <2>4, <2>5
<1>4. BisectOn(b, n)
  BY <1>2, <1>3, Zenon DEF BisectOn
<1> QED
  BY <1>4

LEMMA LongestIs == ASSUME NEW n \in Nat PROVE Longest(n) = IF Fits(n) THEN n ELSE Capacity
<1> DEFINE b == CHOOSE b : BisectOn(b, n)
<1>0. Capacity \in Nat
  BY ViewsAssumption
<1>1. BisectOn(b, n)
  BY BisectExists
<1>2. Longest(n) = IF Fits(n) \/ n = 0 THEN n ELSE b[<<0, n - 1>>]
  BY DEF Longest, BisectOn, Middle
<1> HIDE DEF b
<1>3. CASE Fits(n) \/ n = 0
  BY <1>0, <1>2, <1>3 DEF Fits
<1>4. CASE ~(Fits(n) \/ n = 0)
  <2>1. 0 \in 0 .. n /\ n - 1 \in 0 .. n
    BY <1>4
  <2>2. b[<<0, n - 1>>] = Bisected(0, n - 1)
    BY <1>1, <2>1, BisectEnds
  <2>3. Longest(n) = Bisected(0, n - 1)
    BY <1>2, <1>4, <2>2
  <2> QED
    BY <1>0, <1>4, <2>3 DEF Fits, Bisected
<1> QED
  BY <1>3, <1>4

\* A head is cut no shorter than it must be.
LEMMA CapLongest ==
  ASSUME NEW V, NEW s \in Seq(V)
  PROVE  /\ CapRows(s) \in Seq(V) /\ Len(CapRows(s)) <= Len(s)
         /\ Len(CapRows(s)) < Len(s) => ~Fits(Len(CapRows(s)) + 1)
<1> DEFINE n == Len(s)  l == Longest(n)
<1>0. Capacity \in Nat /\ n \in Nat
  BY ViewsAssumption, LenProperties
<1>1. l = IF Fits(n) THEN n ELSE Capacity
  BY <1>0, LongestIs
<1> HIDE DEF n, l
<1>2. l \in Nat /\ l <= n
  BY <1>0, <1>1 DEF Fits
<1>3. CapRows(s) = SubSeq(s, 1, l)
  <2>1. CapRows(s) = SubSeq(s, 1, IF l < n THEN l ELSE n)
    BY DEF CapRows, Upto, n, l
  <2>2. (IF l < n THEN l ELSE n) = l
    BY <1>0, <1>2
  <2> QED
    BY <2>1, <2>2
<1>4. SubSeq(s, 1, l) \in Seq(V) /\ Len(SubSeq(s, 1, l)) = l
  BY <1>0, <1>2, SubSeqProperties DEF n
<1> QED
  BY <1>0, <1>1, <1>2, <1>3, <1>4 DEF Fits, n

-----------------------------------------------------------------------------
(* The customers of the debts.                                             *)

LEMMA RowIs ==
  ASSUME NEW i \in Rows
  PROVE  /\ Row[i].age \in Nat /\ Row[i].amount \in Int /\ Row[i].due \in Int \cup {Nil}
         /\ Amount[i] = Row[i].amount /\ Owed[i] \in Int /\ Late(i) \in Nat
<1>1. Row[i].age \in Nat /\ Row[i].amount \in Int /\ Row[i].paid \in Int /\ Row[i].due \in Int \cup {Nil}
  BY ViewsAssumption DEF Rows
<1>2. Amount[i] = Row[i].amount /\ Owed[i] \in Int
  BY <1>1 DEF Amount, Owed
<1>3. Late(i) \in Nat
  BY <1>1 DEF Late
<1> QED
  BY <1>1, <1>2, <1>3

BucketOf(age) ==
  IF age <= 7 THEN 1 ELSE IF age <= 30 THEN 2 ELSE IF age <= 90 THEN 3
  ELSE IF age <= 180 THEN 4 ELSE IF age <= 365 THEN 5 ELSE IF age <= 730 THEN 6 ELSE 7

LEMMA BucketsAre ==
  /\ DOMAIN Buckets = 1 .. 7 /\ Len(Buckets) = 7
  /\ Buckets[1].max = 7 /\ Buckets[2].max = 30 /\ Buckets[3].max = 90 /\ Buckets[4].max = 180
  /\ Buckets[5].max = 365 /\ Buckets[6].max = 730 /\ Buckets[7].max = ScanDays
  /\ Buckets[1].min = 0 /\ Buckets[2].min = 8 /\ Buckets[3].min = 31 /\ Buckets[4].min = 91
  /\ Buckets[5].min = 181 /\ Buckets[6].min = 366 /\ Buckets[7].min = 731
<1>1. DOMAIN Buckets = 1 .. 7 /\ Len(Buckets) = 7
  BY DEF Buckets
<1> QED
  BY <1>1 DEF Buckets

\* The bucket of an age, and the dates Qasir's report of it is asked for.
LEMMA AgingIs ==
  ASSUME NEW age \in Nat
  PROVE  /\ AgingBucket(age) = BucketOf(age) /\ BucketOf(age) \in 1 .. 7
         /\ age <= ScanDays => \A b \in 1 .. 7 : BucketOf(age) = b <=> age \in Buckets[b].min .. Buckets[b].max
<1> DEFINE P(b) == /\ b = 7 \/ age <= Buckets[b].max
                   /\ \A c \in 1..b - 1 : age > Buckets[c].max
<1>0. ScanDays \in Nat
  BY ViewsAssumption
<1>1. BucketOf(age) \in 1 .. 7
  BY DEF BucketOf
<1>2. \A b \in 1 .. 7 : b = 1 \/ b = 2 \/ b = 3 \/ b = 4 \/ b = 5 \/ b = 6 \/ b = 7
  OBVIOUS
<1>3. ASSUME NEW b \in 1 .. 7 PROVE P(b) <=> b = BucketOf(age)
  <2>1. \A c \in 1 .. b - 1 : c = 1 \/ c = 2 \/ c = 3 \/ c = 4 \/ c = 5 \/ c = 6
    OBVIOUS
  <2>2. P(b) => b = BucketOf(age)
    BY <1>2, BucketsAre DEF BucketOf
  <2>3. b = BucketOf(age) => P(b)
    BY <1>2, <2>1, BucketsAre DEF BucketOf
  <2> QED
    BY <2>2, <2>3
<1>4. AgingBucket(age) = CHOOSE b \in 1 .. 7 : P(b)
  BY BucketsAre DEF AgingBucket
<1> HIDE DEF P
<1>5. AgingBucket(age) = BucketOf(age)
  BY <1>1, <1>3, <1>4
<1>6. ASSUME age <= ScanDays, NEW b \in 1 .. 7
      PROVE  BucketOf(age) = b <=> age \in Buckets[b].min .. Buckets[b].max
  BY <1>0, <1>2, <1>6, BucketsAre DEF BucketOf
<1> QED
  BY <1>1, <1>5, <1>6

\* aggregateCustomers' step, and the fold of the first elements of s (as KeepOn).
Also(by, i) ==
  [c \in DOMAIN by \cup {Row[i].who} |->
     IF c # Row[i].who THEN by[c]
     ELSE IF c \in DOMAIN by THEN With(by[c], i) ELSE OfOne(i)]

ByOn(g, s, n) ==
  g = [t \in SUBSET (1 .. n) |-> IF t = {} THEN <<>> ELSE Also(g[t \ {Max(t)}], s[Max(t)])]

LEMMA ByStep ==
  ASSUME NEW g, NEW s, NEW n \in Nat, ByOn(g, s, n), NEW k \in Nat, k + 1 <= n
  PROVE  g[1 .. k + 1] = Also(g[1 .. k], s[k + 1])
<1> DEFINE all == 1 .. k + 1
<1>1. Max(all) = k + 1 /\ all \ {k + 1} = 1 .. k /\ all # {}
  BY MaxOfAll
<1>2. all \in SUBSET (1 .. n)
  OBVIOUS
<1> HIDE DEF all
<1>3. g[all] = Also(g[1 .. k], s[k + 1])
  BY <1>1, <1>2 DEF ByOn
<1> QED
  BY <1>3 DEF all

LEMMA ByExists == ASSUME NEW s, NEW n \in Nat PROVE \E g : ByOn(g, s, n)
<1> DEFINE Good == {k \in Nat : \E g : ByOn(g, s, k)}
<1>1. 0 \in Good
  <2> DEFINE g == [t \in SUBSET (1 .. 0) |-> <<>>]
  <2>1. SUBSET (1 .. 0) = {{}}
    OBVIOUS
  <2>2. ByOn(g, s, 0)
    BY <2>1 DEF ByOn
  <2> QED
    BY <2>2
<1>2. ASSUME NEW k \in Nat, k \in Good PROVE k + 1 \in Good
  <2>1. PICK g : ByOn(g, s, k)
    BY <1>2
  <2> DEFINE h == [t \in SUBSET (1 .. k + 1) |->
                     IF k + 1 \notin t THEN g[t] ELSE Also(g[t \ {k + 1}], s[k + 1])]
  <2>2. ASSUME NEW t \in SUBSET (1 .. k + 1)
        PROVE  h[t] = IF t = {} THEN <<>> ELSE Also(h[t \ {Max(t)}], s[Max(t)])
    <3>1. CASE k + 1 \in t
      <4>1. Max(t) = k + 1 /\ t \ {k + 1} \in SUBSET (1 .. k + 1)
        BY <3>1, MaxTop
      <4>2. h[t \ {k + 1}] = g[t \ {k + 1}]
        BY <4>1
      <4> QED
        BY <3>1, <4>1, <4>2
    <3>2. CASE k + 1 \notin t /\ t # {}
      <4>1. t \in SUBSET (1 .. k)
        BY <3>2
      <4>2. Max(t) \in t
        BY <3>2, <4>1, MaxIn
      <4> DEFINE m == Max(t)
      <4>3. t \ {m} \in SUBSET (1 .. k) /\ t \ {m} \in SUBSET (1 .. k + 1) /\ k + 1 \notin t \ {m}
        BY <4>1, <3>2
      <4>4. h[t \ {m}] = g[t \ {m}] /\ h[t] = g[t]
        BY <3>2, <4>3
      <4>5. g[t] = Also(g[t \ {m}], s[m])
        BY <2>1, <3>2, <4>1 DEF ByOn
      <4> QED
        BY <3>2, <4>4, <4>5
    <3>3. CASE t = {}
      <4>1. g[{}] = <<>>
        BY <2>1 DEF ByOn
      <4> QED
        BY <3>3, <4>1
    <3> QED
      BY <3>1, <3>2, <3>3
  <2>3. h = [t \in SUBSET (1 .. k + 1) |-> h[t]]
    OBVIOUS
  <2> HIDE DEF h
  <2>4. ByOn(h, s, k + 1)
    BY <2>2, <2>3, Zenon DEF ByOn
  <2> QED
    BY <2>4
<1>3. Nat \subseteq Good
  <2> HIDE DEF Good
  <2> QED
    BY <1>1, <1>2, Induction
<1> QED
  BY <1>3

LEMMA ByFold ==
  ASSUME NEW V, NEW s \in Seq(V)
  PROVE  \E g : ByOn(g, s, Len(s)) /\ ByCustomer(s) = g[1 .. Len(s)]
<1>1. DOMAIN s = 1 .. Len(s) /\ Len(s) \in Nat
  OBVIOUS
<1> DEFINE g == CHOOSE g : ByOn(g, s, Len(s))
<1>2. ByOn(g, s, Len(s))
  BY <1>1, ByExists
<1>3. ByCustomer(s) = g[1 .. Len(s)]
  BY <1>1 DEF ByCustomer, FoldLeft, MapThenFoldSet, ByOn, Also
<1> QED
  BY <1>2, <1>3

LEMMA ByAgree ==
  ASSUME NEW s, NEW t, NEW m \in Nat, NEW n \in Nat, NEW g, NEW h,
         ByOn(g, s, m), ByOn(h, t, n), NEW k \in Nat, k <= m, k <= n,
         \A i \in 1 .. k : s[i] = t[i]
  PROVE  g[1 .. k] = h[1 .. k]
<1> DEFINE Good == {j \in Nat : j <= k => g[1 .. j] = h[1 .. j]}
<1>1. 0 \in Good
  <2>1. 1 .. 0 = {}
    OBVIOUS
  <2> QED
    BY <2>1 DEF ByOn
<1>2. ASSUME NEW j \in Nat, j \in Good PROVE j + 1 \in Good
  <2> SUFFICES ASSUME j + 1 <= k PROVE g[1 .. j + 1] = h[1 .. j + 1]
    OBVIOUS
  <2>2. g[1 .. j] = h[1 .. j] /\ s[j + 1] = t[j + 1]
    BY <1>2
  <2>4. g[1 .. j + 1] = Also(g[1 .. j], s[j + 1])
    BY ByStep
  <2>5. h[1 .. j + 1] = Also(h[1 .. j], t[j + 1])
    BY ByStep
  <2> QED
    BY <2>2, <2>4, <2>5
<1>3. Nat \subseteq Good
  <2> HIDE DEF Good
  <2> QED
    BY <1>1, <1>2, Induction
<1> QED
  BY <1>3

LEMMA ByNone == ByCustomer(<<>>) = <<>> /\ DOMAIN ByCustomer(<<>>) = {}
<1>1. <<>> \in Seq({}) /\ Len(<<>>) = 0 /\ 1 .. 0 = {}
  OBVIOUS
<1>2. PICK g : ByOn(g, <<>>, 0) /\ ByCustomer(<<>>) = g[{}]
  BY <1>1, ByFold
<1> QED
  BY <1>2 DEF ByOn

LEMMA ByAppend ==
  ASSUME NEW V, NEW s \in Seq(V), NEW x \in V
  PROVE  ByCustomer(Append(s, x)) = Also(ByCustomer(s), x)
<1> DEFINE n == Len(s)  t == Append(s, x)
<1>1. t \in Seq(V) /\ Len(t) = n + 1 /\ n \in Nat /\ t[n + 1] = x /\ \A i \in 1 .. n : t[i] = s[i]
  OBVIOUS
<1> HIDE DEF n, t
<1>2. PICK g : ByOn(g, s, n) /\ ByCustomer(s) = g[1 .. n]
  BY ByFold DEF n
<1>3. PICK h : ByOn(h, t, n + 1) /\ ByCustomer(t) = h[1 .. n + 1]
  BY <1>1, ByFold
<1>4. g[1 .. n] = h[1 .. n]
  <2>1. n \in Nat /\ n + 1 \in Nat /\ n <= n /\ n <= n + 1 /\ \A i \in 1 .. n : s[i] = t[i]
    BY <1>1
  <2>2. ByOn(g, s, n) /\ ByOn(h, t, n + 1)
    BY <1>2, <1>3
  <2> QED
    BY <2>1, <2>2, ByAgree
<1>6. h[1 .. n + 1] = Also(h[1 .. n], t[n + 1])
  <2>1. n \in Nat /\ n + 1 \in Nat /\ n + 1 <= n + 1
    BY <1>1
  <2>2. ByOn(h, t, n + 1)
    BY <1>3
  <2> QED
    BY <2>1, <2>2, ByStep
<1> QED
  BY <1>1, <1>2, <1>3, <1>4, <1>6 DEF t

\* What ByCustomer keeps of a customer, and the debts it is about.
Debtor == [invoices : Nat, credit : Int, oldest : Nat, bucket : 1 .. 7, due : Int \cup {Nil}, overdue : Nat, late : Nat]
DebtsOf(c) == {i \in Rows : Row[i].who = c}
Overdue == {i \in Rows : Late(i) > 0}

LEMMA OfOneIs ==
  ASSUME NEW i \in Rows
  PROVE  /\ OfOne(i) \in Debtor /\ OfOne(i).invoices = 1 /\ OfOne(i).credit = Amount[i]
         /\ OfOne(i).overdue = (IF i \in Overdue THEN 1 ELSE 0)
         /\ OfOne(i).oldest = Row[i].age /\ OfOne(i).bucket = BucketOf(Row[i].age)
         /\ OfOne(i).due = Row[i].due /\ OfOne(i).late = Late(i)
<1> DEFINE d == IF Late(i) > 0 THEN 1 ELSE 0
<1>1. d \in Nat /\ d = IF i \in Overdue THEN 1 ELSE 0
  BY DEF Overdue
<1>2. OfOne(i) = [invoices |-> 1, credit |-> Amount[i], oldest |-> Row[i].age,
                  bucket |-> BucketOf(Row[i].age), due |-> Row[i].due, overdue |-> d, late |-> Late(i)]
  BY RowIs, AgingIs DEF OfOne
<1>3. BucketOf(Row[i].age) \in 1 .. 7
  BY RowIs, AgingIs
<1> HIDE DEF d
<1>4. OfOne(i) \in Debtor
  BY <1>1, <1>2, <1>3, RowIs DEF Debtor
<1> QED
  BY <1>1, <1>2, <1>4

LEMMA WithIs ==
  ASSUME NEW c \in Debtor, NEW i \in Rows
  PROVE  LET older == Row[i].age > c.oldest IN
         /\ With(c, i) \in Debtor
         /\ With(c, i).invoices = c.invoices + 1 /\ With(c, i).credit = c.credit + Amount[i]
         /\ With(c, i).overdue = c.overdue + IF i \in Overdue THEN 1 ELSE 0
         /\ With(c, i).oldest = IF older THEN Row[i].age ELSE c.oldest
         /\ With(c, i).bucket = IF older THEN BucketOf(Row[i].age) ELSE c.bucket
<1> DEFINE one == OfOne(i)  older == Row[i].age > c.oldest
<1>1. one \in Debtor /\ one.oldest = Row[i].age
  BY OfOneIs
<1> HIDE DEF one
<1>2. With(c, i) \in Debtor
  <2> DEFINE c1 == [c EXCEPT !.invoices = c.invoices + 1]
             c2 == [c1 EXCEPT !.credit = c.credit + one.credit]
             c3 == [c2 EXCEPT !.overdue = c.overdue + one.overdue]
             c4 == [c3 EXCEPT !.late = IF one.late > c.late THEN one.late ELSE c.late]
             c5 == [c4 EXCEPT !.oldest = IF older THEN one.oldest ELSE c.oldest]
             c6 == [c5 EXCEPT !.bucket = IF older THEN one.bucket ELSE c.bucket]
             c7 == [c6 EXCEPT !.due = IF one.due # Nil /\ (c.due = Nil \/ one.due < c.due)
                                      THEN one.due ELSE c.due]
  <2>1. With(c, i) = c7
    BY <1>1 DEF With, Debtor, one
  <2>2. c1 \in Debtor
    BY DEF Debtor
  <2> HIDE DEF c1
  <2>3. c2 \in Debtor
    BY <1>1, <2>2 DEF Debtor
  <2> HIDE DEF c2
  <2>4. c3 \in Debtor
    BY <1>1, <2>3 DEF Debtor
  <2> HIDE DEF c3
  <2>5. c4 \in Debtor
    BY <1>1, <2>4 DEF Debtor
  <2> HIDE DEF c4
  <2>6. c5 \in Debtor
    BY <1>1, <2>5 DEF Debtor
  <2> HIDE DEF c5
  <2>7. c6 \in Debtor
    BY <1>1, <2>6 DEF Debtor
  <2> HIDE DEF c6
  <2>8. c7 \in Debtor
    BY <1>1, <2>7 DEF Debtor
  <2> QED
    BY <2>1, <2>8
<1>3. /\ With(c, i).invoices = c.invoices + 1 /\ With(c, i).credit = c.credit + one.credit
      /\ With(c, i).overdue = c.overdue + one.overdue
  BY <1>1 DEF With, Debtor, one
<1>4. /\ With(c, i).oldest = IF older THEN one.oldest ELSE c.oldest
      /\ With(c, i).bucket = IF older THEN one.bucket ELSE c.bucket
  BY <1>1 DEF With, Debtor, one
<1> QED
  BY <1>2, <1>3, <1>4, OfOneIs DEF one

\* What aggregateCustomers says of a customer with the debts r.
CustomerIs(k, r) ==
  /\ k \in Debtor
  /\ k.invoices = Len(r) /\ k.credit = Sum(r, Amount) /\ k.overdue = Len(Keep(r, Overdue))
  /\ k.bucket = BucketOf(k.oldest)
  /\ \A i \in ToSet(r) : Row[i].age <= k.oldest
  /\ \E i \in ToSet(r) : Row[i].age = k.oldest

CustomersOK(by, s) ==
  /\ DOMAIN by = {Row[i].who : i \in ToSet(s)}
  /\ \A c \in DOMAIN by : CustomerIs(by[c], Keep(s, DebtsOf(c)))

\* His first debt.
LEMMA CustomerFirst ==
  ASSUME NEW i \in Rows
  PROVE  CustomerIs(OfOne(i), Append(<<>>, i))
<1> DEFINE e == <<>>  r == Append(e, i)
<1>1. e \in Seq(Rows) /\ Len(e) = 0 /\ ToSet(e) = {} /\ Sum(e, Amount) = 0 /\ Keep(e, Overdue) = e
  BY OnceNone, SumNone, KeepNone
<1>2. \A y \in Rows : Amount[y] \in Int
  BY RowIs
<1> HIDE DEF e
<1>3. r \in Seq(Rows) /\ Len(r) = 1 /\ ToSet(r) = {i}
  <2>1. r \in Seq(Rows) /\ Len(r) = Len(e) + 1 /\ ToSet(r) = ToSet(e) \cup {i}
    BY <1>1, AppendSet
  <2> QED
    BY <1>1, <2>1
<1>4. Sum(r, Amount) = Amount[i]
  <2>1. Sum(r, Amount) = Sum(e, Amount) + Amount[i]
    BY <1>1, <1>2, SumAppend
  <2>2. Amount[i] \in Int
    BY <1>2
  <2> QED
    BY <1>1, <2>1, <2>2
<1>5. Len(Keep(r, Overdue)) = IF i \in Overdue THEN 1 ELSE 0
  <2>1. Keep(r, Overdue) = IF i \in Overdue THEN r ELSE e
    BY <1>1, KeepAppend
  <2> QED
    BY <1>1, <1>3, <2>1
<1> HIDE DEF r
<1>6. OfOne(i) \in Debtor /\ OfOne(i).invoices = 1 /\ OfOne(i).credit = Amount[i]
      /\ OfOne(i).overdue = (IF i \in Overdue THEN 1 ELSE 0)
      /\ OfOne(i).oldest = Row[i].age /\ OfOne(i).bucket = BucketOf(Row[i].age)
  BY OfOneIs
<1>7. Row[i].age \in Nat
  BY RowIs
<1>8. \A j \in ToSet(r) : Row[j].age <= OfOne(i).oldest
  BY <1>3, <1>6, <1>7
<1>9. CustomerIs(OfOne(i), r)
  BY <1>3, <1>4, <1>5, <1>6, <1>8 DEF CustomerIs
<1> QED
  BY <1>9 DEF r, e

\* Another one.
LEMMA CustomerNext ==
  ASSUME NEW k, NEW r \in Seq(Rows), NEW i \in Rows, CustomerIs(k, r)
  PROVE  CustomerIs(With(k, i), Append(r, i))
<1> DEFINE t == Append(r, i)  w == With(k, i)  o == Keep(r, Overdue)
<1>1. t \in Seq(Rows) /\ Len(t) = Len(r) + 1 /\ ToSet(t) = ToSet(r) \cup {i}
  BY AppendSet
<1>2. \A y \in Rows : Amount[y] \in Int
  BY RowIs
<1>3. Sum(t, Amount) = Sum(r, Amount) + Amount[i]
  BY <1>2, SumAppend
<1>4. o \in Seq(Rows) /\ Len(o) \in Nat
  BY KeepSeq, LenProperties DEF KeepsOK
<1>5. Len(Keep(t, Overdue)) = Len(o) + IF i \in Overdue THEN 1 ELSE 0
  <2>1. Keep(t, Overdue) = IF i \in Overdue THEN Append(o, i) ELSE o
    BY KeepAppend
  <2>2. Len(Append(o, i)) = Len(o) + 1
    BY <1>4, AppendSet
  <2> QED
    BY <1>4, <2>1, <2>2
<1>6. k \in Debtor /\ k.oldest \in Nat /\ Row[i].age \in Nat
  BY RowIs DEF CustomerIs, Debtor
<1>7. /\ w \in Debtor
      /\ w.invoices = k.invoices + 1 /\ w.credit = k.credit + Amount[i]
      /\ w.overdue = k.overdue + IF i \in Overdue THEN 1 ELSE 0
      /\ w.oldest = IF Row[i].age > k.oldest THEN Row[i].age ELSE k.oldest
      /\ w.bucket = IF Row[i].age > k.oldest THEN BucketOf(Row[i].age) ELSE k.bucket
  BY <1>6, WithIs
<1> HIDE DEF t, w, o
<1>8. w.invoices = Len(t) /\ w.credit = Sum(t, Amount) /\ w.overdue = Len(Keep(t, Overdue))
  BY <1>1, <1>3, <1>5, <1>7 DEF CustomerIs, o
<1>9. w.bucket = BucketOf(w.oldest)
  BY <1>7 DEF CustomerIs
<1>10. /\ \A j \in ToSet(t) : Row[j].age <= w.oldest
       /\ \E j \in ToSet(t) : Row[j].age = w.oldest
  <2>1. ToSet(r) \subseteq Rows
    BY SetOfSeq
  <2>2. \A j \in ToSet(r) : Row[j].age \in Nat /\ Row[j].age <= k.oldest
    BY <2>1, RowIs DEF CustomerIs
  <2>3. \E j \in ToSet(r) : Row[j].age = k.oldest
    BY DEF CustomerIs
  <2> QED
    BY <1>1, <1>6, <1>7, <2>2, <2>3
<1> QED
  BY <1>7, <1>8, <1>9, <1>10 DEF CustomerIs, t, w

LEMMA Customers ==
  ASSUME NEW s \in Seq(Rows)
  PROVE  CustomersOK(ByCustomer(s), s)
<1> DEFINE G == {r \in Seq(Rows) : CustomersOK(ByCustomer(r), r)}
<1>1. <<>> \in G
  BY ByNone, OnceNone DEF CustomersOK
<1>2. ASSUME NEW r \in Seq(Rows), NEW i \in Rows, r \in G PROVE Append(r, i) \in G
  <2> DEFINE by == ByCustomer(r)  t == Append(r, i)  next == ByCustomer(t)  w == Row[i].who
  <2>1. t \in Seq(Rows) /\ ToSet(t) = ToSet(r) \cup {i}
    BY AppendSet
  <2>2. next = Also(by, i)
    BY ByAppend
  <2>3. DOMAIN by = {Row[j].who : j \in ToSet(r)} /\ \A c \in DOMAIN by : CustomerIs(by[c], Keep(r, DebtsOf(c)))
    BY <1>2 DEF CustomersOK
  <2>4. \A c : Keep(t, DebtsOf(c)) = IF c = w THEN Append(Keep(r, DebtsOf(c)), i) ELSE Keep(r, DebtsOf(c))
    <3> TAKE c
    <3>1. i \in DebtsOf(c) <=> c = w
      BY DEF DebtsOf
    <3> QED
      BY <3>1, KeepAppend
  <2>5. \A c : KeepsOK(r, DebtsOf(c), Rows)
    BY KeepSeq
  <2> HIDE DEF by, t, next, w
  <2>6. DOMAIN next = DOMAIN by \cup {w}
    BY <2>2 DEF Also, w
  <2>7. DOMAIN next = {Row[j].who : j \in ToSet(t)}
    BY <2>1, <2>3, <2>6 DEF w
  <2>8. ASSUME NEW c \in DOMAIN next PROVE CustomerIs(next[c], Keep(t, DebtsOf(c)))
    <3> DEFINE old == Keep(r, DebtsOf(c))
    <3>1. next[c] = IF c # w THEN by[c] ELSE IF c \in DOMAIN by THEN With(by[c], i) ELSE OfOne(i)
      BY <2>2, <2>6 DEF Also, w
    <3>2. CASE c # w
      <4>1. c \in DOMAIN by
        BY <2>6, <3>2
      <4>2. CustomerIs(by[c], old)
        BY <2>3, <4>1
      <4> QED
        BY <2>4, <3>1, <3>2, <4>2
    <3>3. CASE c = w /\ c \in DOMAIN by
      <4>1. old \in Seq(Rows)
        BY <2>5 DEF KeepsOK
      <4>2. CustomerIs(by[c], old)
        BY <2>3, <3>3
      <4> HIDE DEF old
      <4>3. CustomerIs(With(by[c], i), Append(old, i))
        BY <4>1, <4>2, CustomerNext
      <4> QED
        BY <2>4, <3>1, <3>3, <4>3 DEF old
    <3>4. CASE c = w /\ c \notin DOMAIN by
      <4>1. old = <<>>
        <5>1. ToSet(r) \cap DebtsOf(c) = {}
          BY <2>3, <3>4 DEF DebtsOf
        <5>2. old \in Seq(Rows) /\ ToSet(old) = {}
          BY <2>5, <5>1 DEF KeepsOK
        <5> HIDE DEF old
        <5>3. Len(old) = 0
          <6>1. DOMAIN old = 1 .. Len(old) /\ Len(old) \in Nat
            BY <5>2, LenProperties
          <6>2. \A n \in 1 .. Len(old) : old[n] \in ToSet(old)
            BY <6>1 DEF ToSet
          <6> QED
            BY <5>2, <6>1, <6>2
        <5> QED
          BY <5>2, <5>3, EmptySeq
      <4>2. CustomerIs(OfOne(i), Append(<<>>, i))
        BY CustomerFirst
      <4> QED
        BY <2>4, <3>1, <3>4, <4>1, <4>2
    <3> QED
      BY <3>2, <3>3, <3>4
  <2>9. CustomersOK(next, t)
    BY <2>7, <2>8 DEF CustomersOK
  <2> QED
    BY <2>1, <2>9 DEF next, t
<1>3. Seq(Rows) \subseteq G
  <2> HIDE DEF G
  <2> QED
    BY <1>1, <1>2, SeqInduction
<1> QED
  BY <1>3

-----------------------------------------------------------------------------
(* Results.                                                                *)

LEMMA WhoFinite ==
  ASSUME NEW s \in Seq(Rows)
  PROVE  IsFiniteSet(ToSet(s)) /\ IsFiniteSet({Row[i].who : i \in ToSet(s)})
<1> DEFINE W(r) == {Row[i].who : i \in ToSet(r)}
           G == {r \in Seq(Rows) : IsFiniteSet(ToSet(r)) /\ IsFiniteSet(W(r))}
<1>1. <<>> \in G
  BY OnceNone, FS_EmptySet
<1>2. ASSUME NEW r \in Seq(Rows), NEW i \in Rows, r \in G PROVE Append(r, i) \in G
  <2> DEFINE t == Append(r, i)  S == ToSet(r)  w == Row[i].who  Z == W(r)
  <2>1. t \in Seq(Rows) /\ ToSet(t) = S \cup {i}
    BY AppendSet
  <2>2. W(t) = Z \cup {w}
    BY <2>1
  <2>3. IsFiniteSet(S) /\ IsFiniteSet(Z)
    BY <1>2
  <2> HIDE DEF S, Z, w
  <2>4. IsFiniteSet(S \cup {i}) /\ IsFiniteSet(Z \cup {w})
    BY <2>3, FS_AddElement
  <2> QED
    BY <2>1, <2>2, <2>4
<1>3. Seq(Rows) \subseteq G
  <2> HIDE DEF G
  <2> QED
    BY <1>1, <1>2, SeqInduction
<1> QED
  BY <1>3

LEMMA RankedSeq ==
  ASSUME NEW s \in Seq(Rows)
  PROVE  \E V : Ranked(ByCustomer(s)) \in Seq(V)
<1> DEFINE by == ByCustomer(s)  n == Cardinality(DOMAIN by)
<1>1. DOMAIN by = {Row[i].who : i \in ToSet(s)}
  BY Customers DEF CustomersOK
<1>2. n \in Nat
  BY <1>1, WhoFinite, FS_CardinalityType
<1> HIDE DEF by
<1> DEFINE before(a, b) ==
             IF (by[a].overdue > 0) # (by[b].overdue > 0) THEN by[a].overdue > 0
             ELSE by[a].credit > by[b].credit \/ (by[a].credit = by[b].credit /\ a < b)
           pick(k) == CHOOSE x \in DOMAIN by : Cardinality({y \in DOMAIN by : before(y, x)}) = k - 1
<1>3. Ranked(by) = [k \in 1 .. n |-> pick(k)]
  BY DEF Ranked, Ordered
<1> HIDE DEF n, pick
<1>4. [k \in 1 .. n |-> pick(k)] \in Seq({pick(k) : k \in 1 .. n})
  <2> DEFINE V == {pick(k) : k \in 1 .. n}
  <2>1. [k \in 1 .. n |-> pick(k)] \in [1 .. n -> V]
    OBVIOUS
  <2> QED
    BY <1>2, <2>1, SeqDef
<1> QED
  BY <1>3, <1>4 DEF by

LEMMA OldestSeq ==
  ASSUME NEW s \in Seq(Rows)
  PROVE  \E V : Oldest(s) \in Seq(V)
<1> DEFINE S == {i \in ToSet(s) : Row[i].who = Focus}  n == Cardinality(S)
<1>1. S \subseteq ToSet(s) /\ IsFiniteSet(ToSet(s))
  BY WhoFinite
<1>2. n \in Nat
  <2> HIDE DEF S
  <2>1. IsFiniteSet(S)
    BY <1>1, FS_Subset
  <2> QED
    BY <2>1, FS_CardinalityType
<1> DEFINE before(a, b) == Row[a].age > Row[b].age \/ (Row[a].age = Row[b].age /\ a < b)
           pick(k) == CHOOSE x \in S : Cardinality({y \in S : before(y, x)}) = k - 1
<1>3. Oldest(s) = [k \in 1 .. n |-> pick(k)]
  BY DEF Oldest, Ordered
<1> HIDE DEF n, pick
<1>4. [k \in 1 .. n |-> pick(k)] \in Seq({pick(k) : k \in 1 .. n})
  <2> DEFINE V == {pick(k) : k \in 1 .. n}
  <2>1. [k \in 1 .. n |-> pick(k)] \in [1 .. n -> V]
    OBVIOUS
  <2> QED
    BY <1>2, <2>1, SeqDef
<1> QED
  BY <1>3, <1>4

LEMMA UptoSeq ==
  ASSUME NEW V, NEW s \in Seq(V), NEW n \in Nat
  PROVE  Upto(s, n) \in Seq(V)
<1>1. Len(s) \in Nat
  BY LenProperties
<1> DEFINE m == IF n < Len(s) THEN n ELSE Len(s)
<1>2. m \in 0 .. Len(s)
  BY <1>1
<1> HIDE DEF m
<1>3. SubSeq(s, 1, m) \in Seq(V)
  BY <1>1, <1>2, SubSeqProperties
<1> QED
  BY <1>3 DEF Upto, m

LEMMA MatchingSeq ==
  ASSUME KindsOK, NEW s \in Seq(Rows)
  PROVE  \E V : Matching(s) \in Seq(V)
<1>1. CASE filter # Nil
  <2>1. Keep(s, OfKind(filter)) \in Seq(Rows)
    BY KeepSeq DEF KeepsOK
  <2>2. Matching(s) = Keep(s, OfKind(filter))
    BY <1>1 DEF Matching, KindsOK
  <2> QED
    BY <2>1, <2>2
<1>2. CASE filter = Nil /\ tool = "piutang"
  <2>1. Matching(s) = Ranked(ByCustomer(s))
    BY <1>2 DEF Matching
  <2> QED
    BY <2>1, RankedSeq
<1>3. CASE filter = Nil /\ tool = "detail"
  <2>1. PICK V : Oldest(s) \in Seq(V)
    BY OldestSeq
  <2>2. DetailMax \in Nat
    BY ViewsAssumption
  <2>3. Upto(Oldest(s), DetailMax) \in Seq(V)
    BY <2>1, <2>2, UptoSeq
  <2>4. Matching(s) = Upto(Oldest(s), DetailMax)
    BY <1>3 DEF Matching
  <2> QED
    BY <2>3, <2>4
<1>4. CASE filter = Nil /\ tool = "velocity"
  <2>1. Matching(s) = <<>> /\ <<>> \in Seq({})
    BY <1>4 DEF Matching
  <2> QED
    BY <2>1
<1>5. CASE filter = Nil /\ tool \notin {"piutang", "detail", "velocity"}
  <2>1. Matching(s) = s
    BY <1>5 DEF Matching
  <2> QED
    BY <2>1
<1> QED
  BY <1>1, <1>2, <1>3, <1>4, <1>5

-----------------------------------------------------------------------------
(* Parts of a result.                                                      *)

LEMMA KeepSame ==
  ASSUME NEW V, NEW S, NEW T, \A y \in V : y \in S <=> y \in T, NEW s \in Seq(V)
  PROVE  Keep(s, S) = Keep(s, T)
<1> DEFINE G == {r \in Seq(V) : Keep(r, S) = Keep(r, T)}
<1>1. <<>> \in G
  BY KeepNone
<1>2. ASSUME NEW r \in Seq(V), NEW x \in V, r \in G PROVE Append(r, x) \in G
  <2>1. Append(r, x) \in Seq(V)
    BY AppendSet
  <2>2. Keep(Append(r, x), S) = IF x \in S THEN Append(Keep(r, S), x) ELSE Keep(r, S)
    BY KeepAppend
  <2>3. Keep(Append(r, x), T) = IF x \in T THEN Append(Keep(r, T), x) ELSE Keep(r, T)
    BY KeepAppend
  <2> QED
    <3>1. x \in S <=> x \in T
      OBVIOUS
    <3>2. Keep(r, S) = Keep(r, T)
      BY <1>2
    <3> HIDE DEF G
    <3>3. Keep(Append(r, x), S) = Keep(Append(r, x), T)
      BY <2>2, <2>3, <3>1, <3>2
    <3> QED
      BY <2>1, <3>3 DEF G
<1>3. Seq(V) \subseteq G
  <2> HIDE DEF G
  <2> QED
    BY <1>1, <1>2, SeqInduction
<1> QED
  BY <1>3

LEMMA OwnSeq == ASSUME NEW V, NEW s \in Seq(V) PROVE s \in Seq(ToSet(s))
<1>1. Len(s) \in Nat /\ DOMAIN s = 1 .. Len(s) /\ s \in [1 .. Len(s) -> V]
  BY LenProperties
<1>2. s \in [1 .. Len(s) -> ToSet(s)]
  BY <1>1 DEF ToSet
<1> QED
  BY <1>1, <1>2, SeqDef

\* The sums over the classes of the rows.
LEMMA PartsOf ==
  ASSUME NEW s \in Seq(Rows), NEW f, \A i \in Rows : f[i] \in Int, NEW M, IsFiniteSet(M),
         NEW c, \A i \in ToSet(s) : c[i] \in M,
         NEW p, \A m \in M : p[m] = Sum(Keep(s, Class(Rows, c, m)), f)
  PROVE  Total(M, p) = Sum(s, f)
<1> DEFINE V == ToSet(s)  d == [i \in V |-> c[i]]
<1>1. V \subseteq Rows
  BY SetOfSeq
<1>2. s \in Seq(V)
  BY OwnSeq
<1>3. d \in [V -> M] /\ \A i \in V : d[i] = c[i]
  OBVIOUS
<1>4. \A i \in V : f[i] \in Int
  BY <1>1
<1> HIDE DEF V, d
<1>5. ASSUME NEW m \in M PROVE p[m] = Sum(Keep(s, Class(V, d, m)), f)
  <2> DEFINE S == Class(Rows, c, m)  T == Class(V, d, m)
  <2>1. \A y \in V : y \in S <=> y \in T
    BY <1>1, <1>3 DEF Class
  <2>2. p[m] = Sum(Keep(s, S), f)
    OBVIOUS
  <2> HIDE DEF S, T
  <2>3. Keep(s, S) = Keep(s, T)
    BY <1>2, <2>1, KeepSame
  <2> QED
    BY <2>2, <2>3 DEF T
<1> QED
  BY <1>2, <1>3, <1>4, <1>5, SumOfParts

LEMMA LenOfParts ==
  ASSUME NEW s \in Seq(Rows), NEW M, IsFiniteSet(M), NEW c, \A i \in ToSet(s) : c[i] \in M,
         NEW p, \A m \in M : p[m] = Len(Keep(s, Class(Rows, c, m)))
  PROVE  Total(M, p) = Len(s)
<1> DEFINE f == [y \in Rows |-> 1]
<1>1. \A i \in Rows : f[i] \in Int
  OBVIOUS
<1>2. ASSUME NEW r \in Seq(Rows) PROVE Len(r) = Sum(r, f)
  BY LenSum
<1> HIDE DEF f
<1>3. ASSUME NEW m \in M PROVE p[m] = Sum(Keep(s, Class(Rows, c, m)), f)
  <2>1. Keep(s, Class(Rows, c, m)) \in Seq(Rows)
    BY KeepSeq DEF KeepsOK
  <2> QED
    BY <1>2, <2>1
<1>4. Total(M, p) = Sum(s, f)
  BY <1>1, <1>3, PartsOf
<1> QED
  BY <1>2, <1>4

LEMMA ModesHold ==
  ASSUME NEW s \in Seq(Rows), NEW modes, modes = ModeTotals(s)
  PROVE  /\ Total(DOMAIN modes, [m \in DOMAIN modes |-> modes[m].count]) = Len(s)
         /\ Total(DOMAIN modes, [m \in DOMAIN modes |-> modes[m].amount]) = Sum(s, Paid)
<1> DEFINE M == {Row[i].who : i \in ToSet(s)}
           c == [i \in Rows |-> Row[i].who]
           p == [m \in M |-> modes[m].count]
           q == [m \in M |-> modes[m].amount]
<1>1. DOMAIN modes = M
      /\ \A m \in M : /\ modes[m].count = Len(Keep(s, {i \in Rows : Row[i].who = m}))
                      /\ modes[m].amount = Sum(Keep(s, {i \in Rows : Row[i].who = m}), Paid)
  BY DEF ModeTotals
<1>2. IsFiniteSet(M)
  BY WhoFinite
<1>3. ToSet(s) \subseteq Rows
  BY SetOfSeq
<1>4. \A i \in ToSet(s) : c[i] \in M
  BY <1>3
<1>5. \A i \in Rows : Paid[i] \in Int
  BY RowIs DEF Paid
<1>6. \A m \in M : {i \in Rows : Row[i].who = m} = Class(Rows, c, m)
  BY DEF Class
<1>7. \A m \in M : p[m] = Len(Keep(s, Class(Rows, c, m))) /\ q[m] = Sum(Keep(s, Class(Rows, c, m)), Paid)
  BY <1>1, <1>6
<1> HIDE DEF M, c, p, q
<1>8. Total(M, p) = Len(s)
  BY <1>2, <1>4, <1>7, LenOfParts
<1>9. Total(M, q) = Sum(s, Paid)
  BY <1>2, <1>4, <1>5, <1>7, PartsOf
<1> QED
  BY <1>1, <1>8, <1>9 DEF p, q

-----------------------------------------------------------------------------
(* The buckets and the customers.                                          *)

\* The debts of an aging bucket, and what the buckets say of the debts s.
Aged(b) == {i \in Rows : AgingBucket(Row[i].age) = b}
BucketsSay(bs, s) ==
  \A b \in 1 .. 7 : bs[b].invoices = Len(Keep(s, Aged(b))) /\ bs[b].credit = Sum(Keep(s, Aged(b)), Amount)

LEMMA BucketsHold ==
  ASSUME NEW s \in Seq(Rows), IsInjective(s), NEW bs, BucketsSay(bs, s)
  PROVE  /\ Cardinality(ToSet(s)) = Total(1 .. 7, [b \in 1 .. 7 |-> bs[b].invoices])
         /\ Total(ToSet(s), Amount) = Total(1 .. 7, [b \in 1 .. 7 |-> bs[b].credit])
<1> DEFINE M == 1 .. 7
           c == [i \in Rows |-> AgingBucket(Row[i].age)]
           p == [b \in M |-> bs[b].invoices]
           q == [b \in M |-> bs[b].credit]
<1>1. \A i \in Rows : Amount[i] \in Int
  BY RowIs
<1>2. Sum(s, Amount) = Total(ToSet(s), Amount) /\ Len(s) = Cardinality(ToSet(s))
  BY <1>1, SumOnce
<1>3. IsFiniteSet(M)
  <2>1. \A a, b \in Int : IsFiniteSet(a .. b)
    BY FS_Interval
  <2>2. 1 \in Int /\ 7 \in Int
    OBVIOUS
  <2> QED
    BY <2>1, <2>2, Zenon
<1>4. \A i \in ToSet(s) : c[i] \in M
  <2>1. ToSet(s) \subseteq Rows
    BY SetOfSeq
  <2> QED
    BY <2>1, RowIs, AgingIs
<1>5. \A b \in M : Aged(b) = Class(Rows, c, b)
  BY DEF Aged, Class
<1>6. \A b \in M : p[b] = Len(Keep(s, Class(Rows, c, b))) /\ q[b] = Sum(Keep(s, Class(Rows, c, b)), Amount)
  BY <1>5 DEF BucketsSay
<1> HIDE DEF M, c, p, q
<1>7. Total(M, p) = Len(s)
  BY <1>3, <1>4, <1>6, LenOfParts
<1>8. Total(M, q) = Sum(s, Amount)
  BY <1>1, <1>3, <1>4, <1>6, PartsOf
<1> QED
  BY <1>2, <1>7, <1>8 DEF M, p, q

LEMMA BucketOfGrows ==
  ASSUME NEW a \in Nat, NEW b \in Nat, a <= b
  PROVE  BucketOf(a) <= BucketOf(b)
  BY DEF BucketOf

\* What the totals of the customers by say of the debts S.
CustomersSay(by, S) ==
  /\ Cardinality(S) = Total(DOMAIN by, [c \in DOMAIN by |-> by[c].invoices])
  /\ Total(S, Amount) = Total(DOMAIN by, [c \in DOMAIN by |-> by[c].credit])
  /\ \A c \in DOMAIN by : LET debts == {i \in S : Row[i].who = c} IN
       /\ \A i \in debts : by[c].bucket >= AgingBucket(Row[i].age)
       /\ \E i \in debts : by[c].bucket = AgingBucket(Row[i].age)
       /\ by[c].overdue = Cardinality({i \in debts : Late(i) > 0})

LEMMA CustomersHold ==
  ASSUME NEW s \in Seq(Rows), IsInjective(s), NEW by, CustomersOK(by, s)
  PROVE  CustomersSay(by, ToSet(s))
<1> DEFINE M == DOMAIN by
           who == [i \in Rows |-> Row[i].who]
           p == [c \in M |-> by[c].invoices]
           q == [c \in M |-> by[c].credit]
<1>1. \A i \in Rows : Amount[i] \in Int
  BY RowIs
<1>2. Sum(s, Amount) = Total(ToSet(s), Amount) /\ Len(s) = Cardinality(ToSet(s))
  BY <1>1, SumOnce
<1>3. IsFiniteSet(M)
  BY WhoFinite DEF CustomersOK
<1>4. ToSet(s) \subseteq Rows
  BY SetOfSeq
<1>5. \A i \in ToSet(s) : who[i] \in M
  BY <1>4 DEF CustomersOK
<1>6. \A c \in M : DebtsOf(c) = Class(Rows, who, c)
  BY DEF DebtsOf, Class
<1>7. \A c \in M : p[c] = Len(Keep(s, Class(Rows, who, c))) /\ q[c] = Sum(Keep(s, Class(Rows, who, c)), Amount)
  BY <1>6 DEF CustomersOK, CustomerIs
<1>8. ASSUME NEW c \in M
      PROVE  LET debts == {i \in ToSet(s) : Row[i].who = c} IN
             /\ \A i \in debts : by[c].bucket >= AgingBucket(Row[i].age)
             /\ \E i \in debts : by[c].bucket = AgingBucket(Row[i].age)
             /\ by[c].overdue = Cardinality({i \in debts : Late(i) > 0})
  <2> DEFINE r == Keep(s, DebtsOf(c))  o == Keep(r, Overdue)  debts == {i \in ToSet(s) : Row[i].who = c}
  <2>1. r \in Seq(Rows) /\ ToSet(r) = ToSet(s) \cap DebtsOf(c)
    BY KeepSeq DEF KeepsOK
  <2>2. ToSet(r) = debts
    BY <1>4, <2>1 DEF DebtsOf
  <2>3. IsInjective(r)
    BY KeepOnce
  <2>4. CustomerIs(by[c], r)
    BY DEF CustomersOK
  <2> HIDE DEF r
  <2>5. o \in Seq(Rows) /\ ToSet(o) = ToSet(r) \cap Overdue /\ IsInjective(o)
    BY <2>1, <2>3, KeepSeq, KeepOnce DEF KeepsOK
  <2>6. by[c].overdue = Len(o)
    BY <2>4 DEF CustomerIs
  <2> HIDE DEF o
  <2>7. Len(o) = Cardinality(ToSet(o))
    BY <1>1, <2>5, SumOnce
  <2>8. ToSet(o) = {i \in debts : Late(i) > 0}
    BY <1>4, <2>2, <2>5 DEF Overdue
  <2>9. by[c].oldest \in Nat /\ by[c].bucket = BucketOf(by[c].oldest)
    BY <2>4 DEF CustomerIs, Debtor
  <2>10. ASSUME NEW i \in debts PROVE by[c].bucket >= AgingBucket(Row[i].age)
    <3>1. Row[i].age <= by[c].oldest /\ Row[i].age \in Nat
      BY <1>4, <2>2, <2>4, RowIs DEF CustomerIs
    <3>2. BucketOf(Row[i].age) <= BucketOf(by[c].oldest) /\ AgingBucket(Row[i].age) = BucketOf(Row[i].age)
      BY <2>9, <3>1, BucketOfGrows, AgingIs
    <3>3. BucketOf(Row[i].age) \in 1 .. 7 /\ BucketOf(by[c].oldest) \in 1 .. 7
      BY <2>9, <3>1, AgingIs
    <3> QED
      BY <2>9, <3>2, <3>3
  <2>11. \E i \in debts : by[c].bucket = AgingBucket(Row[i].age)
    <3>1. PICK i \in ToSet(r) : Row[i].age = by[c].oldest
      BY <2>4 DEF CustomerIs
    <3>2. AgingBucket(Row[i].age) = BucketOf(Row[i].age)
      BY <2>9, <3>1, AgingIs
    <3> QED
      BY <2>2, <2>9, <3>1, <3>2
  <2>12. by[c].overdue = Cardinality({i \in debts : Late(i) > 0})
    BY <2>6, <2>7, <2>8
  <2> QED
    BY <2>10, <2>11, <2>12
<1> HIDE DEF M, who, p, q
<1>9. Total(M, p) = Len(s)
  BY <1>3, <1>5, <1>7, LenOfParts
<1>10. Total(M, q) = Sum(s, Amount)
  BY <1>1, <1>3, <1>5, <1>7, PartsOf
<1> QED
  BY <1>2, <1>8, <1>9, <1>10 DEF M, p, q, CustomersSay

-----------------------------------------------------------------------------
(* The counts, the balances and the sales.                                 *)

\* The counts beside the status filters, for the orders shown.
LEMMA CountsHold ==
  ASSUME KindsOK, tool = "pembelian", filter = Nil, view.rows = view.all, view.counts = Counts(view.all),
         view.all \in Seq(Rows), IsInjective(view.all), Later \in Seq(Rows), NEW k \in Filters
  PROVE  ShownCounts[k] = Cardinality({i \in ToSet(Shown) : Row[i].kind = k})
<1> DEFINE all == view.all
           first == Keep(all, OfKind(k))
           new == Distinct(Later)
           rest == Keep(new, Rows \ ToSet(all))
           last == Keep(rest, OfKind(k))
           A == ToSet(first)
           B == ToSet(last)
           one == [y \in Rows |-> 1]
<1>1. all \in Seq(Rows) /\ IsInjective(all) /\ \A y \in Rows : one[y] \in Int
  OBVIOUS
<1> HIDE DEF one
<1>2. new \in Seq(Rows) /\ ToSet(new) = ToSet(Later) /\ IsInjective(new)
  BY DistinctSet, DistinctOnce
<1>3. Shown = Distinct(all \o Later)
  BY DEF Shown
<1>4. ToSet(Shown) = ToSet(all) \cup ToSet(Later)
  <2>1. all \o Later \in Seq(Rows) /\ ToSet(all \o Later) = ToSet(all) \cup ToSet(Later)
    BY ConcatSet
  <2> QED
    BY <1>3, <2>1, DistinctSet
<1>5. ShownCounts[k] = Len(first) + Len(last)
  BY DEF ShownCounts, Counts, NewLater
<1> HIDE DEF all, new
<1>6. rest \in Seq(Rows) /\ ToSet(rest) = ToSet(new) \cap (Rows \ ToSet(all)) /\ IsInjective(rest)
  BY <1>2, KeepSeq, KeepOnce DEF KeepsOK
<1>7. first \in Seq(Rows) /\ A = ToSet(all) \cap OfKind(k) /\ IsInjective(first)
  BY <1>1, KeepSeq, KeepOnce DEF KeepsOK
<1> HIDE DEF rest
<1>8. last \in Seq(Rows) /\ B = ToSet(rest) \cap OfKind(k) /\ IsInjective(last)
  BY <1>6, KeepSeq, KeepOnce DEF KeepsOK
<1> HIDE DEF first, last, A, B
<1>9. Len(first) = Cardinality(A) /\ IsFiniteSet(A)
  BY <1>1, <1>7, SumOnce DEF A
<1>10. Len(last) = Cardinality(B) /\ IsFiniteSet(B)
  BY <1>1, <1>8, SumOnce DEF B
<1>11. A \cap B = {}
  BY <1>6, <1>7, <1>8
<1>12. Cardinality(A \cup B) = Cardinality(A) + Cardinality(B)
  <2>1. Cardinality(A \cup B) = Cardinality(A) + Cardinality(B) - Cardinality(A \cap B)
    BY <1>9, <1>10, FS_Union
  <2>2. Cardinality(A) \in Nat /\ Cardinality(B) \in Nat
    BY <1>9, <1>10, FS_CardinalityType
  <2>3. Cardinality(A \cap B) = 0
    BY <1>11, FS_EmptySet
  <2> QED
    BY <2>1, <2>2, <2>3
<1>13. ToSet(all) \subseteq Rows /\ ToSet(Later) \subseteq Rows
  BY <1>1, SetOfSeq
<1>14. A \cup B = {i \in ToSet(Shown) : Row[i].kind = k}
  BY <1>2, <1>4, <1>6, <1>7, <1>8, <1>13 DEF OfKind
<1> QED
  BY <1>5, <1>9, <1>10, <1>12, <1>14

\* What is in Qasir's list, and can be read.
Now == ToSet(Listed) \cap Readable

LEMMA ListedOnce ==
  ASSUME KindsOK
  PROVE  /\ IsInjective(Listed)
         /\ ToSet(Listed) = 1 .. born \cap InList(tool, gone) /\ ToSet(Listed) \subseteq Rows
<1> DEFINE d == CountDown(born)
<1>1. born \in 0 .. Len(Row)
  BY DEF KindsOK
<1>2. d \in Seq(Rows)
  BY <1>1, CountDownSeq
<1>3. IsInjective(d)
  <2>1. d = [i \in 1 .. born |-> born + 1 - i] /\ born \in Nat
    BY <1>1, RowsAre DEF CountDown
  <2> HIDE DEF d
  <2>2. DOMAIN d = 1 .. born /\ \A i \in 1 .. born : d[i] = born + 1 - i
    BY <2>1
  <2> QED
    BY <2>1, <2>2 DEF IsInjective
<1>4. Listed = Keep(d, InList(tool, gone))
  BY ListedNow DEF ListOf
<1> HIDE DEF d
<1>5. IsInjective(Listed)
  BY <1>2, <1>3, <1>4, KeepOnce
<1>6. ToSet(Listed) = 1 .. born \cap InList(tool, gone)
  BY <1>1, ListedNow, ListSeq
<1> QED
  BY <1>5, <1>6 DEF InList

\* Qasir's report on the dates of a bucket.
LEMMA ReceivableHolds ==
  ASSUME KindsOK, tool \in Debts, NEW s \in Seq(Rows), IsInjective(s), ToSet(s) = ToSet(Listed), NEW b \in 1 .. 7
  PROVE  Receivable(b) = Total({i \in ToSet(s) : AgingBucket(Row[i].age) = b}, Owed)
<1> DEFINE r == Keep(Listed, InBucket(b))
<1>1. \A i \in Rows : Owed[i] \in Int
  BY RowIs
<1>2. Listed \in Seq(Rows) /\ IsInjective(Listed) /\ ToSet(Listed) \subseteq Rows
  BY ListedSeq, ListedOnce
<1>3. r \in Seq(Rows) /\ ToSet(r) = ToSet(Listed) \cap InBucket(b) /\ IsInjective(r)
  BY <1>2, KeepSeq, KeepOnce DEF KeepsOK
<1>4. Receivable(b) = Sum(r, Owed)
  BY DEF Receivable
<1> HIDE DEF r
<1>5. ASSUME NEW i \in ToSet(Listed) PROVE i \in InBucket(b) <=> AgingBucket(Row[i].age) = b
  <2>1. i \in Rows /\ Row[i].age <= ScanDays
    BY ListedOnce DEF InList
  <2>2. Row[i].age \in Nat
    BY <2>1, RowIs
  <2>3. AgingBucket(Row[i].age) = b <=> Row[i].age \in Buckets[b].min .. Buckets[b].max
    BY <2>1, <2>2, AgingIs
  <2> QED
    BY <2>1, <2>3 DEF InBucket
<1>6. ToSet(r) = {i \in ToSet(s) : AgingBucket(Row[i].age) = b}
  BY <1>3, <1>5
<1>7. Sum(r, Owed) = Total(ToSet(r), Owed)
  BY <1>1, <1>3, SumOnce
<1> QED
  BY <1>4, <1>6, <1>7

\* A result of stock_velocity with all that was sought, and one with nothing else.
LEMMA SalesHold ==
  ASSUME tool = "velocity", filter = Nil, NEW s \in Seq(Rows), Known \subseteq Rows, Sought \subseteq ToSet(s), NEW k
  PROVE  LET there == Total({i \in Known : InWindow(i) /\ Row[i].kind = k}, Quantity) IN
         /\ Sold(s, k) >= there
         /\ ToSet(s) \subseteq Known /\ IsInjective(s) => Sold(s, k) = there
<1> DEFINE S == {i \in Rows : InWindow(i) /\ Row[i].kind = k}
           T == {i \in Known : InWindow(i) /\ Row[i].kind = k}
           r == Keep(s, S)
<1>1. \A i \in Rows : Quantity[i] \in Nat /\ Quantity[i] \in Int
  BY RowIs DEF Quantity
<1>2. r \in Seq(Rows) /\ ToSet(r) = ToSet(s) \cap S
  BY KeepSeq DEF KeepsOK
<1>3. Sold(s, k) = Sum(r, Quantity)
  BY DEF Sold
<1>4. T \subseteq ToSet(s) \cap S
  BY DEF Sought, Asked
<1>5. ASSUME ToSet(s) \subseteq Known PROVE ToSet(s) \cap S = T
  BY <1>4, <1>5
<1>6. IsInjective(s) => IsInjective(r)
  BY KeepOnce
<1> HIDE DEF r, T, S
<1>7. Total(T, Quantity) <= Sum(r, Quantity) /\ Total(T, Quantity) \in Int
  BY <1>1, <1>2, <1>4, SumAtLeast
<1>8. Sum(r, Quantity) \in Int
  BY <1>1, <1>2, SumInt
<1>9. ASSUME ToSet(s) \subseteq Known, IsInjective(s) PROVE Sum(r, Quantity) = Total(T, Quantity)
  <2>1. ToSet(r) = T
    BY <1>2, <1>5, <1>9
  <2> QED
    BY <1>1, <1>2, <1>6, <1>9, <2>1, SumOnce
<1> QED
  BY <1>3, <1>7, <1>8, <1>9 DEF T

-----------------------------------------------------------------------------
(* What the results and the scans hold, at any time.                       *)

\* The page a result names as the next, and a page a pager has loaded.
NextPage == (Nat \ {0}) \cup {Nil}
LoadedPage == [rows : Seq(Rows), next : NextPage, truncated : BOOLEAN]

\* The calls whose rows are all different: duplicates are dropped or there is one page.
EachOnce == tool \in Debts \/ (tool = "pembelian" /\ filter = Nil)

\* What a result says of the rows it was made of.
Says(v) ==
  /\ v.all \in Seq(Rows) /\ (EachOnce => IsInjective(v.all))
  /\ v.rows = CapRows(Matching(v.all)) /\ (~v.truncated => Fits(Len(Matching(v.all))))
  /\ v.counts = Counts(v.all) /\ v.modes = ModeTotals(v.all)
  /\ tool = "piutang" => v.customers = ByCustomer(v.all) /\ BucketsSay(v.buckets, v.all)
  /\ v.next \in NextPage /\ (tool \notin Pagers => v.next = Nil)

\* A scan never holds a debt twice; only the scans of one customer wait when done.
ScanRows ==
  scan # Nil =>
    /\ tool # "riwayat" /\ scan.rows \in Seq(Rows) /\ scan.page \in Nat \ {0}
    /\ tool \in Debts => IsInjective(scan.rows)
    /\ tool = "pembelian" /\ filter = Nil => scan.page = 1 /\ scan.rows = <<>>
    /\ ~scan.more => tool = "detail" /\ start # Nil
    /\ start = Nil => scan.page = 1 /\ scan.rows = <<>> /\ view = Nil

\* The view of a tool says of its rows what Says asks.
ViewRows ==
  /\ view # Nil /\ tool # "riwayat" => Says(view) /\ start # Nil
  /\ tool = "riwayat" => view.next \in NextPage
  /\ more \in Seq(LoadedPage) /\ (tool \notin Pagers => more = <<>>)

Recorded == ScanRows /\ ViewRows

LEMMA ResultSays ==
  ASSUME NEW rows \in Seq(Rows), EachOnce => IsInjective(rows), NEW next \in NextPage, NEW whole,
         NEW v, v = Result(rows, next, whole)
  PROVE  Says(v)
<1>1. /\ v.all = rows /\ v.rows = CapRows(Matching(rows))
      /\ v.next = IF tool \in Pagers THEN next ELSE Nil
      /\ ~v.truncated => Fits(Len(Matching(rows))) /\ (tool \notin Pagers => whole)
  BY ResultIs
<1>2. v.counts = Counts(rows) /\ v.modes = ModeTotals(rows)
  BY DEF Result
<1>3. ASSUME tool = "piutang" PROVE v.customers = ByCustomer(rows) /\ BucketsSay(v.buckets, rows)
  <2>1. v.customers = ByCustomer(rows) /\ v.buckets = BucketTotals(rows)
    BY <1>3 DEF Result
  <2>2. \A b \in 1 .. 7 :
          /\ BucketTotals(rows)[b].invoices = Len(Keep(rows, Aged(b)))
          /\ BucketTotals(rows)[b].credit = Sum(Keep(rows, Aged(b)), Amount)
    BY BucketsAre DEF BucketTotals, Aged
  <2> QED
    BY <2>1, <2>2 DEF BucketsSay
<1> QED
  BY <1>1, <1>2, <1>3 DEF Says, NextPage

LEMMA SaysSame ==
  ASSUME UNCHANGED <<tool, filter>>, NEW v
  PROVE  Says(v)' <=> Says(v)
  BY DEF Says, EachOnce, Matching

LEMMA ViewSame ==
  UNCHANGED <<tool, filter, view>> => (Says(view)' <=> Says(view))
<1> SUFFICES ASSUME UNCHANGED <<tool, filter, view>> PROVE Says(view)' <=> Says(view)
  OBVIOUS
<1>1. \A v : Says(v)' <=> Says(v)
  BY SaysSame
<1>2. PICK v : v = view
  OBVIOUS
<1>3. Says(v)' <=> Says(view)
  BY <1>1, <1>2
<1>4. Says(view)' <=> Says(v)'
  BY <1>2 DEF Says
<1> QED
  BY <1>3, <1>4

LEMMA SubSeqOnce ==
  ASSUME NEW V, NEW s \in Seq(V), IsInjective(s), NEW m \in Nat, NEW n \in Nat, m >= 1, n <= Len(s)
  PROVE  IsInjective(SubSeq(s, m, n))
<1> DEFINE t == SubSeq(s, m, n)
<1>1. DOMAIN s = 1 .. Len(s) /\ Len(s) \in Nat
  BY LenProperties
<1>2. CASE m <= n
  <2>1. t = [k \in 1 .. n - m + 1 |-> s[k + m - 1]]
    BY <1>1, <1>2 DEF SubSeq
  <2> HIDE DEF t
  <2>2. DOMAIN t = 1 .. n - m + 1 /\ \A k \in 1 .. n - m + 1 : t[k] = s[k + m - 1] /\ k + m - 1 \in 1 .. Len(s)
    BY <1>1, <1>2, <2>1
  <2> QED
    BY <1>1, <2>2 DEF IsInjective, t
<1>3. CASE ~(m <= n)
  <2>1. DOMAIN t = {}
    BY <1>1, <1>3 DEF SubSeq
  <2> QED
    BY <2>1 DEF IsInjective
<1> QED
  BY <1>2, <1>3

LEMMA ProjectedOnce ==
  ASSUME KindsOK, NEW p \in Nat \ {0}
  PROVE  IsInjective(Project(PageOfList(p)))
<1> DEFINE s == PageRows(p)  k == Keep(s, Readable)  n == PageSize[tool] + Extra
<1>1. s \in Seq(Rows) /\ Len(s) <= n
  BY PageRowsAre
<1>2. Readable \in SUBSET Rows
  BY DEF Readable
<1>3. IsInjective(s)
  <2>1. Listed \in Seq(Rows) /\ IsInjective(Listed) /\ Len(Listed) \in Nat
    BY ListedSeq, ListedOnce
  <2>2. Before(p) \in Nat /\ Through(p) \in Nat
    BY PageNats
  <2>3. LastOf(p) \in Nat /\ LastOf(p) <= Len(Listed) /\ Before(p) + 1 \in Nat /\ Before(p) + 1 >= 1
    BY <2>1, <2>2 DEF LastOf
  <2> QED
    BY <2>1, <2>3, SubSeqOnce DEF PageRows
<1>4. n \in Nat
  BY PageBounds
<1>5. Project(PageOfList(p)) = Upto(k, n)
  BY <1>2, PageKeeps DEF Project, Readable
<1>6. k \in Seq(Rows) /\ Len(k) <= Len(s)
  BY <1>1, KeepSeq DEF KeepsOK
<1>7. IsInjective(k)
  BY <1>1, <1>3, KeepOnce
<1>8. Len(k) \in Nat /\ Len(s) \in Nat
  BY <1>1, <1>6, LenProperties
<1> HIDE DEF s, k, n
<1>9. Upto(k, n) = k
  BY <1>1, <1>4, <1>6, <1>8, UptoAll
<1> QED
  BY <1>5, <1>7, <1>9

\* The rows joined, and what comes after a page.
LEMMA JoinedRows ==
  ASSUME KindsOK, NEW r \in Seq(Rows), NEW p \in Nat \ {0}, tool = "pembelian" /\ filter = Nil => r = <<>>
  PROVE  LET rows == Joined(r, Project(PageOfList(p))) IN
         /\ rows \in Seq(Rows) /\ (EachOnce => IsInjective(rows))
         /\ Following(p, PageOfList(p)) \in NextPage
<1> DEFINE g == Project(PageOfList(p))  rows == Joined(r, g)
<1>1. g \in Seq(Rows) /\ IsInjective(g)
  BY Projected, ProjectedOnce
<1> HIDE DEF g
<1>2. rows \in Seq(Rows)
  BY <1>1, JoinedSet
<1>3. ASSUME EachOnce PROVE IsInjective(rows)
  <2>1. CASE tool \in Debts
    <3>1. r \o g \in Seq(Rows)
      BY <1>1, ConcatSet
    <3>2. rows = Distinct(r \o g)
      BY <2>1 DEF Joined
    <3> QED
      BY <3>1, <3>2, DistinctOnce
  <2>2. CASE tool = "pembelian" /\ filter = Nil
    <3>1. rows = r \o g /\ r = <<>>
      BY <2>2 DEF Joined, Debts
    <3>2. rows = g
      BY <1>1, <3>1, ConcatEmptySeq
    <3> QED
      BY <1>1, <3>2
  <2> QED
    BY <1>3, <2>1, <2>2 DEF EachOnce
<1>4. Following(p, PageOfList(p)) \in NextPage
  BY FollowingIs DEF NextPage
<1> QED
  BY <1>2, <1>3, <1>4 DEF g

LEMMA ShowsRecorded ==
  ASSUME Recorded, Reads \/ UNCHANGED <<tool, filter, start>>, scan # Nil, scan' = Nil, start' # Nil,
         NEW rows \in Seq(Rows), EachOnce => IsInjective(rows), NEW next \in NextPage, NEW whole,
         Shows(Result(rows, next, whole))
  PROVE  Recorded'
<1>1. UNCHANGED <<tool, filter>>
  BY DEF Reads
<1>2. tool # "riwayat" /\ more \in Seq(LoadedPage) /\ (tool \notin Pagers => more = <<>>)
  BY DEF Recorded, ScanRows, ViewRows
<1>3. PICK v : v = Result(rows, next, whole)
  OBVIOUS
<1>4. Says(v)
  BY <1>3, ResultSays
<1>5. view' = v /\ more' \in {more, <<>>}
  BY <1>3 DEF Shows
<1>6. Says(v)'
  BY <1>1, <1>4, SaysSame
<1>7. more' \in Seq(LoadedPage) /\ (tool' \notin Pagers => more' = <<>>)
  BY <1>1, <1>2, <1>5, EmptySeq
<1>8. Says(view)'
  BY <1>5, <1>6 DEF Says
<1> QED
  BY <1>1, <1>2, <1>7, <1>8 DEF Recorded, ScanRows, ViewRows

LEMMA ReadsStarted ==
  ASSUME KindsOK, Reads
  PROVE  start' # Nil
<1>1. <<born, gone>> \in Nat \X SUBSET Nat
  <2>1. born \in Nat /\ gone \subseteq Nat
    BY RowsAre DEF KindsOK
  <2> QED
    BY <2>1
<1>2. <<born, gone>> # Nil
  BY <1>1, ViewsAssumption
<1> QED
  BY <1>2 DEF Reads

LEMMA ReadPageRecorded ==
  ASSUME KindsOK, Recorded, ReadPage
  PROVE  Recorded'
<1> DEFINE p == scan.page
           raw == PageOfList(p)
           rows == Joined(scan.rows, Project(raw))
           next == Following(p, raw)
           whole == \/ next = Nil
                    \/ tool = "velocity" /\ \E i \in ToSet(Project(raw)) : ~InWindow(i)
           ends == whole \/ p = Pages
<1>1. /\ scan # Nil /\ scan.more /\ Reads
      /\ IF ends /\ tool # "detail" THEN scan' = Nil /\ Shows(Result(rows, next, whole))
         ELSE /\ scan' = [page |-> p + 1, rows |-> rows, more |-> ~ends, whole |-> whole]
              /\ UNCHANGED <<view, more>>
  BY DEF ReadPage, Reads
<1>2. /\ tool # "riwayat" /\ scan.rows \in Seq(Rows) /\ p \in Nat \ {0}
      /\ tool = "pembelian" /\ filter = Nil => p = 1 /\ scan.rows = <<>>
  BY <1>1 DEF Recorded, ScanRows
<1>3. rows \in Seq(Rows) /\ (EachOnce => IsInjective(rows)) /\ next \in NextPage
  <2> HIDE DEF p
  <2> QED
    BY <1>2, JoinedRows
<1>4. start' # Nil
  BY <1>1, ReadsStarted
<1>5. tool = "pembelian" /\ filter = Nil => p = Pages
  BY <1>2 DEF Pages
<1> HIDE DEF p, rows, next, whole
<1>6. CASE ends /\ tool # "detail"
  <2>1. scan' = Nil /\ Shows(Result(rows, next, whole))
    BY <1>1, <1>6
  <2> QED
    BY <1>1, <1>3, <1>4, <2>1, ShowsRecorded
<1>7. CASE ~(ends /\ tool # "detail")
  <2>1. scan' = [page |-> p + 1, rows |-> rows, more |-> ~ends, whole |-> whole] /\ UNCHANGED <<tool, filter, view, more>>
    BY <1>1, <1>7 DEF Reads
  <2>2. ~(tool = "pembelian" /\ filter = Nil)
    BY <1>5, <1>7
  <2>3. ends => tool = "detail"
    BY <1>7
  <2>4. tool \in Debts => IsInjective(rows)
    BY <1>3 DEF EachOnce
  <2> HIDE DEF ends
  <2>5. ScanRows'
    <3>1. scan'.page = p + 1 /\ scan'.rows = rows /\ (~scan'.more => ends)
      BY <2>1
    <3>2. p + 1 \in Nat \ {0}
      BY <1>2
    <3>3. tool' = tool /\ filter' = filter
      BY <2>1
    <3> QED
      BY <1>2, <1>3, <1>4, <2>2, <2>3, <2>4, <3>1, <3>2, <3>3 DEF ScanRows
  <2>6. ViewRows'
    <3>1. Says(view)' <=> Says(view)
      BY <2>1, ViewSame
    <3> QED
      BY <1>4, <2>1, <3>1 DEF Recorded, ViewRows
  <2> QED
    BY <2>5, <2>6 DEF Recorded
<1> QED
  BY <1>6, <1>7

LEMMA LoadMoreRecorded ==
  ASSUME KindsOK, Recorded, LoadMore
  PROVE  Recorded'
<1> DEFINE p == NextToLoad
           raw == PageOfList(p)
           new == [rows |-> CapRows(Project(raw)), next |-> Following(p, raw), truncated |-> ~Fits(Len(Project(raw)))]
<1>1. /\ view # Nil /\ p # Nil /\ more' = Append(more, new) /\ Reads
      /\ UNCHANGED <<scan, view>>
  BY DEF LoadMore, Reads
<1>2. more \in Seq(LoadedPage) /\ (tool \notin Pagers => more = <<>>) /\ view.next \in NextPage
      /\ (tool \notin Pagers => view.next = Nil) /\ Len(more) \in Nat
  <2>1. more \in Seq(LoadedPage) /\ (tool \notin Pagers => more = <<>>)
    BY DEF Recorded, ViewRows
  <2>2. tool = "riwayat" => tool \in Pagers
    BY DEF Pagers
  <2> QED
    BY <1>1, <2>1, <2>2, LenProperties DEF Recorded, ViewRows, Says
<1>3. p \in Nat \ {0}
  <2>1. CASE more = <<>>
    BY <1>1, <1>2, <2>1 DEF NextToLoad, NextPage
  <2>2. CASE more # <<>>
    <3>1. Len(more) \in 1 .. Len(more)
      BY <1>2, <2>2, EmptySeq
    <3>2. more[Len(more)] \in LoadedPage
      BY <1>2, <3>1, ElementOfSeq
    <3> QED
      BY <1>1, <2>2, <3>2 DEF NextToLoad, NextPage, LoadedPage
  <2> QED
    BY <2>1, <2>2
<1>4. tool \in Pagers
  BY <1>1, <1>2 DEF NextToLoad
<1> HIDE DEF p
<1>5. new \in LoadedPage
  <2>1. Project(raw) \in Seq(Rows)
    BY <1>3, Projected
  <2>2. CapRows(Project(raw)) \in Seq(Rows)
    BY <2>1, CapLongest
  <2>3. Following(p, raw) \in NextPage
    BY <1>3, FollowingIs DEF NextPage
  <2> HIDE DEF raw
  <2> QED
    BY <2>2, <2>3 DEF LoadedPage, Fits
<1> HIDE DEF new
<1>6. more' \in Seq(LoadedPage)
  BY <1>1, <1>2, <1>5, AppendProperties
<1>7. start' # Nil
  BY <1>1, ReadsStarted
<1>8. UNCHANGED <<tool, filter, view, scan>>
  BY <1>1 DEF Reads
<1>9. Says(view)' <=> Says(view)
  BY <1>8, ViewSame
<1>10. ViewRows'
  BY <1>4, <1>6, <1>7, <1>8, <1>9 DEF Recorded, ViewRows
<1>11. ScanRows'
  BY <1>7, <1>8 DEF Recorded, ScanRows
<1> QED
  BY <1>10, <1>11 DEF Recorded

LEMMA OthersRecorded ==
  ASSUME Recorded, UNCHANGED <<tool, filter, view, more, start>>,
         scan' = scan \/ (view # Nil /\ tool # "riwayat" /\ scan' = [page |-> 1, rows |-> <<>>, more |-> TRUE, whole |-> FALSE])
  PROVE  Recorded'
<1>1. Says(view)' <=> Says(view)
  BY ViewSame
<1>2. ViewRows'
  BY <1>1 DEF Recorded, ViewRows
<1>3. ScanRows'
  <2>1. CASE scan' = scan
    BY <2>1 DEF Recorded, ScanRows
  <2>2. CASE view # Nil /\ tool # "riwayat" /\ scan' = [page |-> 1, rows |-> <<>>, more |-> TRUE, whole |-> FALSE]
    <3>1. start' # Nil
      BY <2>2 DEF Recorded, ViewRows
    <3>2. scan'.page = 1 /\ scan'.rows = <<>> /\ scan'.more
      BY <2>2
    <3>3. <<>> \in Seq(Rows) /\ IsInjective(<<>>)
      BY OnceNone
    <3> QED
      BY <2>2, <3>1, <3>2, <3>3 DEF ScanRows
  <2> QED
    BY <2>1, <2>2
<1> QED
  BY <1>2, <1>3 DEF Recorded

LEMMA InitRecorded == ViewsInit => Recorded
<1> SUFFICES ASSUME ViewsInit PROVE Recorded
  OBVIOUS
<1>1. more = <<>> /\ more \in Seq(LoadedPage) /\ start = Nil
  BY EmptySeq DEF ViewsInit
<1>2. CASE tool = "riwayat"
  <2>1. scan = Nil /\ view = [rows |-> <<>>, next |-> 1, truncated |-> FALSE]
    BY <1>2 DEF ViewsInit
  <2>2. view.next = 1
    BY <2>1
  <2> QED
    BY <1>1, <1>2, <2>1, <2>2 DEF Recorded, ScanRows, ViewRows, NextPage
<1>3. CASE tool # "riwayat"
  <2>1. scan = [page |-> 1, rows |-> <<>>, more |-> TRUE, whole |-> FALSE] /\ view = Nil
    BY <1>3 DEF ViewsInit
  <2>2. scan.page = 1 /\ scan.rows = <<>> /\ scan.more /\ <<>> \in Seq(Rows) /\ IsInjective(<<>>)
    BY <2>1, OnceNone
  <2> QED
    BY <1>1, <1>3, <2>1, <2>2 DEF Recorded, ScanRows, ViewRows
<1> QED
  BY <1>2, <1>3

LEMMA NextRecorded ==
  ASSUME KindsOK, Recorded, [ViewsNext]_viewsVars
  PROVE  Recorded'
<1>1. CASE ReadPage
  BY <1>1, ReadPageRecorded
<1>2. CASE ReadReceipts
  <2>1. scan # Nil /\ ~scan.more /\ scan' = Nil /\ Shows(Result(scan.rows, Nil, scan.whole))
        /\ UNCHANGED <<tool, filter, start>>
    BY <1>2 DEF ReadReceipts
  <2>2. scan.rows \in Seq(Rows) /\ tool = "detail" /\ start # Nil /\ (tool \in Debts => IsInjective(scan.rows))
    BY <2>1 DEF Recorded, ScanRows
  <2>3. PICK rows, whole : rows = scan.rows /\ whole = scan.whole
    OBVIOUS
  <2>4. Nil \in NextPage /\ start' # Nil /\ (EachOnce => IsInjective(rows)) /\ rows \in Seq(Rows)
    BY <2>1, <2>2, <2>3 DEF NextPage, EachOnce, Debts
  <2>5. Shows(Result(rows, Nil, whole))
    BY <2>1, <2>3
  <2> QED
    BY <2>1, <2>4, <2>5, ShowsRecorded
<1>3. CASE LoadMore
  BY <1>3, LoadMoreRecorded
<1>4. CASE Refetch
  BY <1>4, OthersRecorded DEF Refetch
<1>5. CASE Appears
  BY <1>5, OthersRecorded DEF Appears
<1>6. ASSUME NEW i \in DOMAIN Row, PaidOff(i) PROVE Recorded'
  BY <1>6, OthersRecorded DEF PaidOff
<1>7. CASE UNCHANGED viewsVars
  BY <1>7, OthersRecorded DEF viewsVars
<1> QED
  BY <1>1, <1>2, <1>3, <1>4, <1>5, <1>6, <1>7 DEF ViewsNext

-----------------------------------------------------------------------------
(* While nothing changes, a row read is in Qasir's list, and               *)
(* stock_velocity, whose pages do not overlap, reads it once.              *)

LEMMA ConcatOnce ==
  ASSUME NEW V, NEW r \in Seq(V), NEW g \in Seq(V), IsInjective(r), IsInjective(g), ToSet(r) \cap ToSet(g) = {}
  PROVE  IsInjective(r \o g)
<1> DEFINE G == {s \in Seq(V) : IsInjective(s) /\ ToSet(r) \cap ToSet(s) = {} => IsInjective(r \o s)}
<1>1. <<>> \in G
  BY OnceNone, ConcatEmptySeq
<1>2. ASSUME NEW s \in Seq(V), NEW x \in V, s \in G PROVE Append(s, x) \in G
  <2> DEFINE t == Append(s, x)
  <2>1. t \in Seq(V) /\ ToSet(t) = ToSet(s) \cup {x}
    BY AppendSet
  <2>2. SUFFICES ASSUME IsInjective(t), ToSet(r) \cap ToSet(t) = {} PROVE IsInjective(r \o t)
    BY <2>1
  <2>3. IsInjective(s) /\ x \notin ToSet(s)
    BY <2>2, OnceAppend
  <2>4. x \notin ToSet(r) /\ ToSet(r) \cap ToSet(s) = {}
    BY <2>1, <2>2
  <2>5. IsInjective(r \o s)
    BY <1>2, <2>3, <2>4
  <2>6. r \o s \in Seq(V) /\ ToSet(r \o s) = ToSet(r) \cup ToSet(s)
    BY ConcatSet
  <2>7. r \o t = Append(r \o s, x)
    OBVIOUS
  <2> DEFINE u == r \o s
  <2> HIDE DEF t, u
  <2>8. IsInjective(Append(u, x))
    BY <2>3, <2>4, <2>5, <2>6, OnceAppend DEF u
  <2> QED
    BY <2>7, <2>8 DEF u
<1>3. Seq(V) \subseteq G
  <2> HIDE DEF G
  <2> QED
    BY <1>1, <1>2, SeqInduction
<1> QED
  BY <1>3

\* Row i stands on a page before page p.
Passed(p, i) == \E k \in 1 .. Len(Listed) : k <= Before(p) /\ Listed[k] = i

\* With nothing changing, a scan holds rows of the list, each once where they count.
CalmScan ==
  scan # Nil =>
    /\ ToSet(scan.rows) \subseteq Now
    /\ tool = "velocity" => IsInjective(scan.rows) /\ \A i \in ToSet(scan.rows) : Passed(scan.page, i)
\* With nothing changing, so does a view, and the balances are those of the list.
CalmView ==
  view # Nil =>
    /\ tool \in {"piutang", "velocity"} => ToSet(view.all) \subseteq Now
    /\ tool = "velocity" => IsInjective(view.all)
    /\ tool = "piutang" => \A b \in 1 .. 7 : view.buckets[b].receivable = Receivable(b)
\* What was in the list at the first page; Quiet is nothing having changed since.
StartsOK == start # Nil => start \in (0 .. born) \X SUBSET gone
QuietOK == StartsOK /\ (Quiet => CalmScan /\ CalmView)

LEMMA QuietSame ==
  UNCHANGED <<tool, overlap, born, gone>> =>
    /\ Now' = Now /\ \A p, i : Passed(p, i)' <=> Passed(p, i)
    /\ \A b : Receivable(b)' = Receivable(b)
<1> SUFFICES ASSUME UNCHANGED <<tool, overlap, born, gone>>
             PROVE  /\ Now' = Now /\ \A p, i : Passed(p, i)' <=> Passed(p, i)
                    /\ \A b : Receivable(b)' = Receivable(b)
  OBVIOUS
<1>1. Listed' = Listed
  BY ListedNow
<1>2. \A p : Before(p)' = Before(p)
  BY PlacesSame
<1>3. Readable' = Readable
  BY DEF Readable, Kept
<1>4. Now' = Now
  BY <1>1, <1>3 DEF Now
<1>5. \A p, i : Passed(p, i)' <=> Passed(p, i)
  BY <1>1, <1>2 DEF Passed
<1>6. \A b : Receivable(b)' = Receivable(b)
  BY <1>1 DEF Receivable
<1> QED
  BY <1>4, <1>5, <1>6

LEMMA PageNow ==
  ASSUME KindsOK, NEW p \in Nat \ {0}
  PROVE  PageGot(p) \subseteq Now
<1>1. PageGot(p) = ToSet(PageRows(p)) \cap Readable
  BY Projected DEF PageGot
<1>2. DOMAIN Listed = 1 .. Len(Listed)
  BY ListedSeq
<1>3. \A i \in ToSet(PageRows(p)) : i \in ToSet(Listed)
  BY <1>2, PageRowsAre DEF ToSet
<1> QED
  BY <1>1, <1>3 DEF Now

\* A page of stock_velocity has none of the rows of the pages before it.
LEMMA PagePassed ==
  ASSUME KindsOK, tool = "velocity", NEW p \in Nat \ {0}
  PROVE  /\ \A i \in PageGot(p) : Passed(p + 1, i) /\ ~Passed(p, i)
         /\ \A i : Passed(p, i) => Passed(p + 1, i)
<1>1. Before(p) \in Nat /\ Through(p) \in Nat /\ Before(p + 1) \in Nat /\ Before(p) <= Before(p + 1)
      /\ Before(p + 1) = Through(p)
  <2>1. Before(p) \in Nat /\ Through(p) \in Nat /\ Before(p + 1) \in Nat
    BY PageNats
  <2>2. Extra = 0 /\ PageSize[tool] \in Nat
    BY PageBounds DEF Extra, Debts
  <2> DEFINE n == PageSize[tool] + IF overlap THEN 0 ELSE Extra
  <2>3. n = PageSize[tool] /\ n \in Nat
    BY <2>2
  <2>4. Before(p) = (p - 1) * n /\ Before(p + 1) = (p + 1 - 1) * n /\ Through(p) = Before(p) + n
    BY <2>2, <2>3 DEF Before, Through
  <2> HIDE DEF n
  <2>5. (p + 1 - 1) * n = (p - 1) * n + n
    BY <2>3
  <2> QED
    BY <2>1, <2>3, <2>4, <2>5
<1>2. IsInjective(Listed) /\ DOMAIN Listed = 1 .. Len(Listed)
  BY ListedOnce, ListedSeq
<1>3. ASSUME NEW i \in PageGot(p) PROVE Passed(p + 1, i) /\ ~Passed(p, i)
  <2>1. i \in ToSet(PageRows(p))
    BY Projected DEF PageGot
  <2>2. PICK k \in 1 .. Len(Listed) : Before(p) < k /\ k <= Through(p) /\ Listed[k] = i
    BY <2>1, PageRowsAre
  <2>3. Passed(p + 1, i)
    BY <1>1, <2>2 DEF Passed
  <2>4. ASSUME NEW l \in 1 .. Len(Listed), l <= Before(p), Listed[l] = i PROVE FALSE
    <3>1. l = k
      BY <1>2, <2>2, <2>4 DEF IsInjective
    <3> QED
      BY <1>1, <2>2, <2>4, <3>1
  <2> QED
    BY <2>3, <2>4 DEF Passed
<1>4. ASSUME NEW i, Passed(p, i) PROVE Passed(p + 1, i)
  <2>1. PICK k \in 1 .. Len(Listed) : k <= Before(p) /\ Listed[k] = i
    BY <1>4 DEF Passed
  <2>2. k <= Before(p + 1)
    BY <1>1, <2>1
  <2> QED
    BY <2>1, <2>2 DEF Passed
<1> QED
  BY <1>3, <1>4

LEMMA StartsKept ==
  ASSUME KindsOK, StartsOK, Reads
  PROVE  StartsOK'
<1>1. born' = born /\ gone' = gone /\ born \in 0 .. born
  BY DEF Reads, KindsOK
<1>2. CASE start = Nil
  <2>1. start' = <<born, gone>>
    BY <1>2 DEF Reads
  <2> QED
    BY <1>1, <2>1 DEF StartsOK
<1>3. CASE start # Nil
  BY <1>1, <1>3 DEF StartsOK, Reads
<1> QED
  BY <1>2, <1>3

\* When it is quiet after a page is read, it was before or nothing was read yet.
LEMMA ReadsCalm ==
  ASSUME KindsOK, Recorded, QuietOK, Reads, refetches' = refetches, Quiet'
  PROVE  \/ Quiet
         \/ /\ scan # Nil => scan.rows = <<>> /\ view = Nil
            /\ view # Nil => tool \notin {"piutang", "velocity"}
<1>1. CASE start # Nil
  BY <1>1 DEF Reads, Quiet
<1>2. CASE start = Nil
  BY <1>2 DEF Recorded, ScanRows, ViewRows
<1> QED
  BY <1>1, <1>2

LEMMA ShowsCalm ==
  ASSUME UNCHANGED <<tool, overlap, born, gone>>, scan' = Nil, NEW rows, NEW next, NEW whole,
         Shows(Result(rows, next, whole)),
         tool \in {"piutang", "velocity"} => ToSet(rows) \subseteq Now, tool = "velocity" => IsInjective(rows)
  PROVE  CalmScan' /\ CalmView'
<1>1. PICK v : v = Result(rows, next, whole)
  OBVIOUS
<1>2. view' = v /\ v.all = rows
  BY <1>1, ResultIs DEF Shows
<1>3. ASSUME tool = "piutang" PROVE \A b \in 1 .. 7 : v.buckets[b].receivable = Receivable(b)
  <2>1. v.buckets = BucketTotals(rows)
    BY <1>1, <1>3 DEF Result
  <2>2. \A b \in 1 .. 7 : BucketTotals(rows)[b].receivable = Receivable(b)
    BY BucketsAre DEF BucketTotals
  <2> QED
    BY <2>1, <2>2
<1>4. Now' = Now /\ \A b : Receivable(b)' = Receivable(b)
  BY QuietSame
<1> QED
  BY <1>2, <1>3, <1>4 DEF CalmScan, CalmView

LEMMA ReadPageQuiet ==
  ASSUME KindsOK, Recorded, QuietOK, ReadPage, Quiet'
  PROVE  CalmScan' /\ CalmView'
<1> DEFINE p == scan.page
           raw == PageOfList(p)
           r == scan.rows
           g == Project(raw)
           rows == Joined(r, g)
           next == Following(p, raw)
           whole == \/ next = Nil
                    \/ tool = "velocity" /\ \E i \in ToSet(g) : ~InWindow(i)
           ends == whole \/ p = Pages
<1>1. /\ scan # Nil /\ scan.more /\ Reads /\ refetches' = refetches
      /\ IF ends /\ tool # "detail" THEN scan' = Nil /\ Shows(Result(rows, next, whole))
         ELSE /\ scan' = [page |-> p + 1, rows |-> rows, more |-> ~ends, whole |-> whole]
              /\ UNCHANGED <<view, more>>
  BY DEF ReadPage, Reads
<1>2. Quiet \/ (r = <<>> /\ view = Nil)
  <2>1. Reads /\ refetches' = refetches /\ scan # Nil
    BY <1>1
  <2>2. \/ Quiet
        \/ /\ scan # Nil => scan.rows = <<>> /\ view = Nil
           /\ view # Nil => tool \notin {"piutang", "velocity"}
    BY <2>1, ReadsCalm
  <2> QED
    BY <2>1, <2>2
<1>3. r \in Seq(Rows) /\ p \in Nat \ {0}
  BY <1>1 DEF Recorded, ScanRows
<1>4. ToSet(r) \subseteq Now /\ (tool = "velocity" => IsInjective(r) /\ \A i \in ToSet(r) : Passed(p, i)) /\ CalmView
  <2>1. CASE Quiet
    BY <1>1, <2>1 DEF QuietOK, CalmScan
  <2>2. CASE r = <<>> /\ view = Nil
    <3>1. ToSet(r) = {} /\ IsInjective(r)
      BY <2>2, OnceNone
    <3> QED
      BY <2>2, <3>1 DEF CalmView
  <2> QED
    BY <1>2, <2>1, <2>2
<1> HIDE DEF p, r
<1>5. g \in Seq(Rows) /\ IsInjective(g) /\ ToSet(g) = PageGot(p)
  BY <1>3, Projected, ProjectedOnce DEF PageGot
<1>6. ToSet(g) \subseteq Now
  BY <1>3, <1>5, PageNow
<1> HIDE DEF g
<1>7. rows \in Seq(Rows) /\ ToSet(rows) = ToSet(r) \cup ToSet(g) /\ ToSet(rows) \subseteq Now
  BY <1>3, <1>4, <1>5, <1>6, JoinedSet
<1>8. ASSUME tool = "velocity" PROVE IsInjective(rows) /\ \A i \in ToSet(rows) : Passed(p + 1, i)
  <2>1. \A i \in ToSet(g) : Passed(p + 1, i) /\ ~Passed(p, i)
    BY <1>3, <1>5, <1>8, PagePassed
  <2>2. \A i \in ToSet(r) : Passed(p, i) /\ Passed(p + 1, i)
    BY <1>3, <1>4, <1>8, PagePassed
  <2>3. ToSet(r) \cap ToSet(g) = {}
    BY <2>1, <2>2
  <2>4. IsInjective(r \o g)
    BY <1>3, <1>4, <1>5, <1>8, <2>3, ConcatOnce
  <2>5. rows = r \o g
    BY <1>8 DEF Joined, Debts
  <2> QED
    BY <1>7, <2>1, <2>2, <2>4, <2>5
<1>9. UNCHANGED <<tool, overlap, born, gone>>
  BY <1>1 DEF Reads
<1> HIDE DEF rows, whole, next
<1>10. CASE ends /\ tool # "detail"
  <2>1. scan' = Nil /\ Shows(Result(rows, next, whole))
    BY <1>1, <1>10
  <2> QED
    BY <1>7, <1>8, <1>9, <2>1, ShowsCalm
<1>11. CASE ~(ends /\ tool # "detail")
  <2>1. scan'.page = p + 1 /\ scan'.rows = rows /\ view' = view
    BY <1>1, <1>11
  <2>0. PICK q : q = p + 1
    OBVIOUS
  <2>2. Now' = Now /\ (\A i : Passed(q, i)' <=> Passed(q, i)) /\ \A b : Receivable(b)' = Receivable(b)
    BY <1>9, QuietSame
  <2>3. \A i : Passed(scan.page, i)' <=> Passed(q, i)'
    <3>1. scan'.page = q
      BY <2>0, <2>1
    <3> QED
      BY <3>1 DEF Passed, Before
  <2>4. CalmScan'
    <3>1. tool = "velocity" => \A i \in ToSet(rows) : Passed(q, i)
      BY <1>8, <2>0
    <3> QED
      BY <1>7, <1>8, <1>9, <2>1, <2>2, <2>3, <3>1 DEF CalmScan
  <2>5. CalmView'
    BY <1>4, <1>9, <2>1, <2>2 DEF CalmView
  <2> QED
    BY <2>4, <2>5
<1> QED
  BY <1>10, <1>11

LEMMA SameCalm ==
  ASSUME UNCHANGED <<tool, overlap, born, gone, scan, view>>, CalmScan, CalmView
  PROVE  CalmScan' /\ CalmView'
<1>1. Now' = Now /\ (\A p, i : Passed(p, i)' <=> Passed(p, i)) /\ \A b : Receivable(b)' = Receivable(b)
  BY QuietSame
<1>2. PICK q : q = scan.page
  OBVIOUS
<1>3. \A i : (Passed(scan.page, i)' <=> Passed(q, i)') /\ (Passed(scan.page, i) <=> Passed(q, i))
  BY <1>2 DEF Passed, Before
<1>4. CalmScan'
  BY <1>1, <1>3 DEF CalmScan
<1>5. CalmView'
  BY <1>1 DEF CalmView
<1> QED
  BY <1>4, <1>5

LEMMA NextQuiet ==
  ASSUME KindsOK, Recorded, QuietOK, [ViewsNext]_viewsVars
  PROVE  QuietOK'
<1>1. CASE ReadPage
  <2>1. Reads
    BY <1>1 DEF ReadPage, Reads
  <2> QED
    BY <1>1, <2>1, StartsKept, ReadPageQuiet DEF QuietOK
<1>2. CASE ReadReceipts
  <2>1. scan # Nil /\ ~scan.more /\ scan' = Nil /\ Shows(Result(scan.rows, Nil, scan.whole))
        /\ UNCHANGED <<tool, filter, block, overlap, born, gone, start, refetches>>
    BY <1>2 DEF ReadReceipts
  <2>2. tool = "detail"
    BY <2>1 DEF Recorded, ScanRows
  <2>3. PICK rows, whole : rows = scan.rows /\ whole = scan.whole
    OBVIOUS
  <2>4. CalmScan' /\ CalmView'
    BY <2>1, <2>2, <2>3, ShowsCalm
  <2> QED
    BY <2>1, <2>4 DEF QuietOK, StartsOK
<1>3. CASE LoadMore
  <2>1. Reads /\ UNCHANGED <<scan, view, refetches>> /\ view # Nil
    BY <1>3 DEF LoadMore, Reads
  <2>2. ASSUME Quiet' PROVE CalmScan' /\ CalmView'
    <3>1. \/ Quiet
          \/ /\ scan # Nil => scan.rows = <<>> /\ view = Nil
             /\ view # Nil => tool \notin {"piutang", "velocity"}
      BY <2>1, <2>2, ReadsCalm
    <3>2. CalmScan /\ CalmView
      BY <2>1, <3>1 DEF QuietOK, CalmScan, CalmView
    <3> QED
      BY <2>1, <3>2, SameCalm DEF Reads
  <2> QED
    BY <2>1, <2>2, StartsKept DEF QuietOK
<1>4. CASE Refetch
  <2>1. refetches' # 0 /\ UNCHANGED <<born, gone, start>>
    BY <1>4 DEF Refetch, KindsOK
  <2> QED
    BY <2>1 DEF QuietOK, Quiet, StartsOK
<1>5. CASE Appears
  <2>1. born' = born + 1 /\ born \in Nat /\ UNCHANGED <<gone, start>>
    BY <1>5 DEF Appears, KindsOK
  <2>2. StartsOK'
    <3>1. 0 .. born \subseteq 0 .. born + 1
      BY <2>1
    <3> QED
      BY <2>1, <3>1 DEF QuietOK, StartsOK
  <2>3. ~Quiet'
    <3>1. ASSUME start = <<born + 1, gone>>, start \in (0 .. born) \X SUBSET gone PROVE FALSE
      <4>1. born + 1 \in 0 .. born
        BY <3>1
      <4> QED
        BY <2>1, <4>1
    <3>2. start = <<born + 1, gone>> => start # Nil
      <4>1. <<born + 1, gone>> \in Nat \X SUBSET Nat
        <5>1. born + 1 \in Nat /\ gone \subseteq Nat
          BY <2>1, RowsAre DEF KindsOK
        <5> QED
          BY <5>1
      <4> QED
        BY <4>1, ViewsAssumption
    <3> QED
      BY <2>1, <3>1, <3>2 DEF QuietOK, StartsOK, Quiet
  <2> QED
    BY <2>2, <2>3 DEF QuietOK
<1>6. ASSUME NEW i \in DOMAIN Row, PaidOff(i) PROVE QuietOK'
  <2>1. gone' = gone \cup {i} /\ i \notin gone /\ UNCHANGED <<born, start>> /\ i \in Rows
    BY <1>6 DEF PaidOff, Rows
  <2>2. StartsOK'
    BY <2>1 DEF QuietOK, StartsOK
  <2>3. ~Quiet'
    <3>1. ASSUME start = <<born, gone \cup {i}>>, start \in (0 .. born) \X SUBSET gone PROVE FALSE
      BY <2>1, <3>1
    <3>2. start = <<born, gone \cup {i}>> => start # Nil
      <4>1. <<born, gone \cup {i}>> \in Nat \X SUBSET Nat
        <5>1. born \in Nat /\ gone \cup {i} \subseteq Nat
          BY <2>1, RowsAre DEF KindsOK
        <5> QED
          BY <5>1
      <4> QED
        BY <4>1, ViewsAssumption
    <3> QED
      BY <2>1, <3>1, <3>2 DEF QuietOK, StartsOK, Quiet
  <2> QED
    BY <2>2, <2>3 DEF QuietOK
<1>7. CASE UNCHANGED viewsVars
  <2>1. UNCHANGED <<tool, overlap, born, gone, scan, view, start, refetches>>
    BY <1>7 DEF viewsVars
  <2> QED
    BY <2>1, SameCalm DEF QuietOK, StartsOK, Quiet
<1> QED
  BY <1>1, <1>2, <1>3, <1>4, <1>5, <1>6, <1>7 DEF ViewsNext

-----------------------------------------------------------------------------
(* stock_velocity, read again or not.                                      *)

\* The sales of the first page's list are read or due, also when a page is read again.
SalesOK ==
  tool = "velocity" =>
    /\ scan # Nil => scan.page \in 1 .. Pages
    /\ scan # Nil /\ start # Nil => \A i \in Sought : i \in ToSet(scan.rows) \/ Due(scan.page, i)
    /\ view # Nil /\ ~view.truncated => Sought \subseteq ToSet(view.all)

LEMMA VelocityStarts ==
  ASSUME KindsOK, StartsOK, tool = "velocity"
  PROVE  StartOK /\ ~Overlooked /\ filter = Nil
<1>1. gone = {} /\ filter = Nil
  BY DEF KindsOK, Debts
<1>2. SUBSET gone = {gone}
  BY <1>1
<1> QED
  BY <1>1, <1>2 DEF StartOK, StartsOK, Overlooked, Misleads, Debts

LEMMA SalesPage ==
  ASSUME KindsOK, tool = "velocity", filter = Nil, ~Overlooked, NEW p \in Nat \ {0}, p < MaxPage, NEW H,
         NEW W \in SUBSET Readable, \A i \in W : InWindow(i), \A i \in W : i \in H \/ Due(p, i)
  PROVE  /\ \A i \in W : i \in H \cup PageGot(p) \/ Due(p + 1, i)
         /\ Following(p, PageOfList(p)) = Nil \/ (\E i \in PageGot(p) : ~InWindow(i)) => W \subseteq H \cup PageGot(p)
<1>1. \A i \in W : i \in H \cup PageGot(p) \/ Due(p + 1, i)
  BY PageRead
<1>2. Following(p, PageOfList(p)) = Nil => W \subseteq H \cup PageGot(p)
  BY PageRead
<1>3. ASSUME NEW j \in PageGot(p), ~InWindow(j) PROVE W \subseteq H \cup PageGot(p)
  BY <1>3, WindowRead
<1> QED
  BY <1>1, <1>2, <1>3

LEMMA ReadPageSales ==
  ASSUME KindsOK, Recorded, QuietOK, SalesOK, ReadPage, tool = "velocity"
  PROVE  SalesOK'
<1> DEFINE p == scan.page
           raw == PageOfList(p)
           H == ToSet(scan.rows)
           rows == Joined(scan.rows, Project(raw))
           next == Following(p, raw)
           whole == \/ next = Nil
                    \/ tool = "velocity" /\ \E i \in ToSet(Project(raw)) : ~InWindow(i)
           ends == whole \/ p = Pages
           W == Sought'
<1>1. /\ scan # Nil /\ scan.more /\ Reads
      /\ IF ends /\ tool # "detail" THEN scan' = Nil /\ Shows(Result(rows, next, whole))
         ELSE /\ scan' = [page |-> p + 1, rows |-> rows, more |-> ~ends, whole |-> whole]
              /\ UNCHANGED <<view, more>>
  BY DEF ReadPage, Reads
<1>2. /\ scan.rows \in Seq(Rows) /\ p \in 1 .. Pages
      /\ start = Nil => p = 1 /\ view = Nil
      /\ start # Nil => \A i \in Sought : i \in H \/ Due(p, i)
  BY <1>1 DEF Recorded, ScanRows, SalesOK
<1>3. Pages \in Nat \ {0} /\ Pages < MaxPage /\ MaxPage \in Nat
  BY PagesBound, ViewsAssumption
<1>4. p \in Nat \ {0} /\ p < MaxPage
  BY <1>2, <1>3
<1>5. StartOK /\ ~Overlooked /\ filter = Nil
  BY VelocityStarts DEF QuietOK
<1>6. /\ start' # Nil /\ W \subseteq Readable
      /\ \A i \in W : i \in H \/ Due(p, i)
  <2> HIDE DEF p, H
  <2> QED
    BY <1>1, <1>2, <1>5, Started
<1>7. rows \in Seq(Rows) /\ ToSet(rows) = H \cup PageGot(p)
  <2> HIDE DEF p
  <2>1. Project(raw) \in Seq(Rows) /\ PageGot(p) = ToSet(Project(raw))
    BY <1>4, Projected DEF PageGot
  <2> QED
    BY <1>2, <2>1, JoinedSet
<1>8. \A i \in W : InWindow(i)
  <2>1. \A i \in W : Asked(i)
    BY <1>1 DEF Sought, Asked, InWindow, Reads
  <2> QED
    BY <2>1, AskedIs
<1>9. whole <=> Following(p, PageOfList(p)) = Nil \/ \E i \in PageGot(p) : ~InWindow(i)
  BY DEF PageGot
<1> HIDE DEF p, H, W, rows, whole
<1>10. /\ \A i \in W : i \in ToSet(rows) \/ Due(p + 1, i)
       /\ whole => W \subseteq ToSet(rows)
  BY <1>4, <1>5, <1>6, <1>7, <1>8, <1>9, SalesPage
<1>11. CASE ends
  <2>1. scan' = Nil /\ Shows(Result(rows, next, whole))
    BY <1>1, <1>11
  <2> HIDE DEF next
  <2>2. PICK v : v = Result(rows, next, whole)
    OBVIOUS
  <2>3. view' = v /\ v.all = rows /\ (~v.truncated => whole)
    BY <2>1, <2>2, ResultIs DEF Shows, Pagers
  <2> QED
    BY <1>10, <2>1, <2>3 DEF SalesOK, W
<1>12. CASE ~ends
  <2>1. view' = view /\ scan'.page = p + 1 /\ scan'.rows = rows
    BY <1>1, <1>12
  <2>2. Pages' = Pages
    BY <1>1 DEF Pages, Reads
  <2>3. p + 1 \in 1 .. Pages
    BY <1>2, <1>3, <1>12
  <2>4. \A i \in Sought' : i \in ToSet(scan'.rows) \/ Due(scan.page, i)'
    <3>1. PICK q : q = p + 1
      OBVIOUS
    <3>2. scan'.page = q
      BY <2>1, <3>1
    <3>3. \A i : Due(scan.page, i)' <=> Due(q, i)'
      BY <3>2 DEF Due, Before
    <3>4. \A i : Due(q, i)' <=> Due(q, i)
      BY <1>1, Same DEF Reads
    <3>5. \A i \in W : i \in ToSet(rows) \/ Due(q, i)
      BY <1>10, <3>1
    <3> QED
      BY <2>1, <3>3, <3>4, <3>5 DEF W
  <2>5. view # Nil /\ ~view.truncated => Sought' \subseteq ToSet(view.all)
    <3>1. view # Nil => start # Nil
      BY <1>2
    <3>2. start # Nil => Sought' = Sought
      BY <1>1, SoughtSame DEF Reads
    <3> QED
      BY <3>1, <3>2 DEF SalesOK
  <2> QED
    BY <2>1, <2>2, <2>3, <2>4, <2>5 DEF SalesOK
<1> QED
  BY <1>11, <1>12

LEMMA OtherSales ==
  ASSUME KindsOK, SalesOK, tool = "velocity", UNCHANGED <<tool, filter, overlap, scan, view, start>>,
         \A p \in Nat \ {0}, i \in Sought : start # Nil /\ Due(p, i) => Due(p, i)'
  PROVE  SalesOK'
<1>1. Sought' = Sought /\ Pages' = Pages
  BY SoughtSame DEF Pages
<1>2. PICK p : p = scan.page
  OBVIOUS
<1>3. \A i : Due(scan.page, i)' <=> Due(p, i)'
  BY <1>2 DEF Due, Before
<1>4. scan # Nil => p \in Nat \ {0}
  BY <1>2, PagesBound DEF SalesOK
<1> QED
  BY <1>1, <1>2, <1>3, <1>4 DEF SalesOK

LEMMA NextSales ==
  ASSUME KindsOK, Recorded, QuietOK, SalesOK, [ViewsNext]_viewsVars
  PROVE  SalesOK'
<1>0. tool' = tool
  BY DEF ViewsNext, viewsVars, ReadPage, ReadReceipts, LoadMore, Refetch, Appears, PaidOff
<1> SUFFICES ASSUME tool = "velocity" PROVE SalesOK'
  BY <1>0 DEF SalesOK
<1>1. CASE ReadPage
  BY <1>1, ReadPageSales
<1>2. CASE ReadReceipts
  BY <1>2 DEF ReadReceipts, Recorded, ScanRows
<1>3. CASE LoadMore
  <2>1. view # Nil /\ more = <<>> /\ view.next = Nil
    BY <1>3 DEF LoadMore, Recorded, ViewRows, Says, Pagers
  <2> QED
    BY <1>3, <2>1 DEF LoadMore, NextToLoad
<1>4. CASE Refetch
  <2>1. /\ view # Nil /\ scan' = [page |-> 1, rows |-> <<>>, more |-> TRUE, whole |-> FALSE]
        /\ UNCHANGED <<tool, filter, block, overlap, born, gone, view, more, start>>
    BY <1>4 DEF Refetch
  <2>2. start # Nil
    BY <2>1 DEF Recorded, ViewRows
  <2>3. Sought' = Sought /\ Pages' = Pages
    BY <2>1, SoughtSame DEF Pages
  <2>4. 1 \in 1 .. Pages
    BY PagesBound
  <2>5. scan'.page = 1
    BY <2>1
  <2>6. \A i \in Sought : Due(1, i)
    <3>1. start[1] \in 0 .. born /\ start[2] = gone
      BY <2>2, VelocityStarts DEF QuietOK, StartOK
    <3>2. born \in 0 .. Len(Row) /\ Len(Row) \in Nat
      BY RowsAre DEF KindsOK
    <3>3. ToSet(List(start[1], start[2])) = 1 .. start[1] \cap InList(tool, gone)
      <4>1. PICK n : n = start[1]
        OBVIOUS
      <4>2. n \in 0 .. Len(Row)
        BY <3>1, <3>2, <4>1
      <4>3. ToSet(ListOf(tool, n, gone)) = 1 .. n \cap InList(tool, gone)
        BY <4>2, ListSeq
      <4>4. List(start[1], start[2]) = ListOf(tool, n, gone)
        BY <3>1, <4>1, ListIs
      <4> QED
        BY <4>1, <4>3, <4>4
    <3>4. ToSet(Listed) = 1 .. born \cap InList(tool, gone)
      BY ListedOnce
    <3>5. ToSet(List(start[1], start[2])) \subseteq ToSet(Listed)
      BY <3>1, <3>2, <3>3, <3>4
    <3> QED
      BY <3>5, FirstDue DEF Sought, Known
  <2>7. \A i : Due(scan.page, i)' <=> Due(1, i)'
    BY <2>5 DEF Due, Before
  <2>8. \A i : Due(1, i)' <=> Due(1, i)
    BY <2>1, Same
  <2> QED
    BY <2>1, <2>3, <2>4, <2>5, <2>6, <2>7, <2>8 DEF SalesOK
<1>5. CASE Appears
  <2>1. UNCHANGED <<tool, filter, overlap, scan, view, start>>
    BY <1>5 DEF Appears
  <2>2. start # Nil => Sought \subseteq Rows
    BY VelocityStarts, SoughtReadable DEF QuietOK, Readable
  <2>3. \A p \in Nat \ {0}, i \in Sought : start # Nil /\ Due(p, i) => Due(p, i)'
    BY <1>5, <2>2, Appeared
  <2> QED
    BY <2>1, <2>3, OtherSales
<1>6. ASSUME NEW i \in DOMAIN Row, PaidOff(i) PROVE SalesOK'
  BY <1>6 DEF PaidOff, Debts
<1>7. CASE UNCHANGED viewsVars
  <2>1. UNCHANGED <<tool, filter, block, overlap, born, gone, scan, view, start>>
    BY <1>7 DEF viewsVars
  <2>2. \A p, i : Due(p, i)' <=> Due(p, i)
    BY <2>1, Same
  <2> QED
    BY <2>1, <2>2, OtherSales
<1> QED
  BY <1>1, <1>2, <1>3, <1>4, <1>5, <1>6, <1>7 DEF ViewsNext

-----------------------------------------------------------------------------
(* The figures of a result.                                                *)

\* A reading of the debts that is complete found those of Qasir's list.
LEMMA DebtsComplete ==
  ASSUME Inv, Recorded, QuietOK, view # Nil, tool = "piutang", Quiet, ~view.truncated, ~Overlooked,
         \A i \in ToSet(Listed) : Row[i].known
  PROVE  ToSet(view.all) = ToSet(Listed)
<1>1. KindsOK /\ start # Nil /\ more = <<>> /\ view.next = Nil /\ filter = Nil
  BY DEF Inv, Recorded, ViewRows, Says, Pagers, KindsOK
<1>2. start[1] = born /\ start[2] = gone /\ refetches = 0
  BY DEF Quiet
<1>3. ToSet(Listed) \subseteq Rows
  BY <1>1, ListedOnce
<1>5. ViewOK
  BY <1>2 DEF Inv, Clean
<1>6. NextToLoad = Nil /\ ~Truncated /\ PagesRead < MaxPage
  <2>1. Len(<<>>) = 0 /\ DOMAIN <<>> = {}
    OBVIOUS
  <2>2. NextToLoad = Nil /\ ~Truncated
    BY <1>1, <2>1 DEF NextToLoad, Truncated
  <2>3. PagesRead = 0 + Pages
    BY <1>1, <2>1 DEF PagesRead
  <2>4. Pages \in Nat /\ Pages < MaxPage
    BY <1>1, PagesBound
  <2> QED
    BY <2>2, <2>3, <2>4
<1>7. Sought \subseteq ToSet(view.all)
  <2>1. Sought \subseteq Have
    BY <1>1, <1>5, <1>6 DEF ViewOK, LoadedOK
  <2> QED
    BY <2>1 DEF Have, Pagers
<1>8. ToSet(Listed) \subseteq Sought
  <2>1. List(start[1], start[2]) = Listed
    BY <1>2 DEF Listed
  <2> QED
    BY <1>1, <2>1 DEF Sought, Known, Kept, Asked
<1>9. ToSet(view.all) \subseteq ToSet(Listed)
  BY DEF QuietOK, CalmView, Now
<1> QED
  BY <1>7, <1>8, <1>9

LEMMA DebtsAgree ==
  ASSUME Inv, Recorded, QuietOK, view # Nil, tool = "piutang"
  PROVE  DebtsAddUp
<1> DEFINE s == view.all  by == view.customers  bs == view.buckets
<1>1. KindsOK /\ s \in Seq(Rows) /\ IsInjective(s) /\ by = ByCustomer(s) /\ BucketsSay(bs, s)
  BY DEF Inv, Recorded, ViewRows, Says, EachOnce, Debts
<1>2. CustomersOK(by, s)
  BY <1>1, Customers
<1>3. ASSUME Quiet, ~view.truncated, ~Overlooked, \A i \in ToSet(Listed) : Row[i].known, NEW b \in 1 .. 7
      PROVE  bs[b].receivable = Total({i \in ToSet(s) : AgingBucket(Row[i].age) = b}, Owed)
  <2>1. ToSet(s) = ToSet(Listed)
    BY <1>3, DebtsComplete
  <2>2. Receivable(b) = Total({i \in ToSet(s) : AgingBucket(Row[i].age) = b}, Owed)
    <3> HIDE DEF s
    <3> QED
      BY <1>1, <2>1, ReceivableHolds DEF Debts
  <2>3. bs[b].receivable = Receivable(b)
    BY <1>3 DEF QuietOK, CalmView
  <2> QED
    BY <2>2, <2>3
<1> HIDE DEF s, by, bs
<1>4. /\ Cardinality(ToSet(s)) = Total(1 .. 7, [b \in 1 .. 7 |-> bs[b].invoices])
      /\ Total(ToSet(s), Amount) = Total(1 .. 7, [b \in 1 .. 7 |-> bs[b].credit])
  BY <1>1, BucketsHold
<1>5. CustomersSay(by, ToSet(s))
  BY <1>1, <1>2, CustomersHold
<1>6. DOMAIN Buckets = 1 .. 7
  BY BucketsAre
<1> QED
  BY <1>3, <1>4, <1>5, <1>6 DEF DebtsAddUp, CustomersSay, s, by, bs

LEMMA CountsAgree ==
  ASSUME Inv, Recorded, view # Nil, tool = "pembelian"
  PROVE  CountsAddUp
<1> SUFFICES ASSUME filter = Nil, ~view.truncated, NEW k \in Filters
             PROVE  ShownCounts[k] = Cardinality({i \in ToSet(Shown) : Row[i].kind = k})
  BY DEF CountsAddUp
<1>1. /\ KindsOK /\ view.all \in Seq(Rows) /\ IsInjective(view.all) /\ view.counts = Counts(view.all)
      /\ view.rows = CapRows(Matching(view.all)) /\ Fits(Len(Matching(view.all))) /\ more \in Seq(LoadedPage)
  BY DEF Inv, Recorded, ViewRows, Says, EachOnce
<1>2. Matching(view.all) = view.all
  BY DEF Matching
<1>3. view.rows = view.all
  BY <1>1, <1>2, CapAll
<1>4. Later \in Seq(Rows)
  <2> DEFINE ss == [k_1 \in DOMAIN more |-> more[k_1].rows]
  <2>1. DOMAIN more = 1 .. Len(more) /\ Len(more) \in Nat /\ \A l \in 1 .. Len(more) : more[l] \in LoadedPage
    BY <1>1, LenProperties, ElementOfSeq
  <2>2. ss \in [1 .. Len(more) -> Seq(Rows)]
    BY <2>1 DEF LoadedPage
  <2>3. ss \in Seq(Seq(Rows))
    BY <2>1, <2>2, SeqDef
  <2> HIDE DEF ss
  <2>4. FlattenSeq(ss) \in Seq(Rows)
    BY <2>3, FlattenedSet
  <2> QED
    BY <2>4 DEF Later, ss
<1> QED
  BY <1>1, <1>3, <1>4, CountsHold

LEMMA SalesAgree ==
  ASSUME Inv, Recorded, QuietOK, SalesOK, view # Nil, tool = "velocity"
  PROVE  SalesAddUp
<1> SUFFICES ASSUME ~view.truncated, NEW k \in {"sales", "refund"}
             PROVE  LET there == Total({i \in Known : InWindow(i) /\ Row[i].kind = k}, Quantity) IN
                    Sold(view.all, k) >= there /\ (Quiet => Sold(view.all, k) = there)
  BY DEF SalesAddUp
<1>1. KindsOK /\ filter = Nil /\ start # Nil /\ view.all \in Seq(Rows)
  BY DEF Inv, KindsOK, Recorded, ViewRows, Says
<1>2. Sought \subseteq ToSet(view.all)
  BY DEF SalesOK
<1>3. Known \subseteq Rows
  <2>1. StartOK
    BY <1>1, VelocityStarts DEF QuietOK
  <2>2. start[1] \in 0 .. Len(Row)
    BY <1>1, <2>1, RowsAre DEF StartOK, KindsOK
  <2>3. PICK n, out : n = start[1] /\ out = start[2]
    OBVIOUS
  <2>4. ListOf(tool, n, out) \in Seq(Rows)
    BY <2>2, <2>3, ListSeq
  <2>5. List(start[1], start[2]) = ListOf(tool, n, out)
    BY <2>3, ListIs
  <2> QED
    BY <2>4, <2>5, SetOfSeq DEF Known
<1>4. ASSUME Quiet PROVE ToSet(view.all) \subseteq Known /\ IsInjective(view.all)
  <2>1. List(start[1], start[2]) = Listed
    <3>1. start[1] = born /\ start[2] = gone
      BY <1>4 DEF Quiet
    <3> QED
      BY <3>1 DEF Listed
  <2> QED
    BY <1>4, <2>1 DEF QuietOK, CalmView, Now, Readable, Known
<1> HIDE DEF Known
<1> QED
  BY <1>1, <1>2, <1>3, <1>4, SalesHold

LEMMA FiguresAgree == Inv /\ Recorded /\ QuietOK /\ SalesOK => ResultsAddUp
<1> SUFFICES ASSUME Inv, Recorded, QuietOK, SalesOK, view # Nil, tool # "riwayat"
             PROVE  /\ DebtsAddUp /\ CountsAddUp /\ SalesAddUp /\ ModesAddUp
                    /\ Len(view.rows) < Len(Matching(view.all)) => ~Fits(Len(view.rows) + 1)
  BY DEF ResultsAddUp
<1>1. KindsOK /\ Says(view)
  BY DEF Inv, Recorded, ViewRows
<1>2. DebtsAddUp
  BY DebtsAgree DEF DebtsAddUp
<1>3. CountsAddUp
  BY CountsAgree DEF CountsAddUp
<1>4. SalesAddUp
  BY SalesAgree DEF SalesAddUp
<1>5. ModesAddUp
  BY <1>1, ModesHold DEF Says, ModesAddUp
<1>6. Len(view.rows) < Len(Matching(view.all)) => ~Fits(Len(view.rows) + 1)
  <2>1. view.all \in Seq(Rows) /\ view.rows = CapRows(Matching(view.all))
    BY <1>1 DEF Says
  <2>2. PICK V : Matching(view.all) \in Seq(V)
    BY <1>1, <2>1, MatchingSeq
  <2> QED
    BY <2>1, <2>2, CapLongest
<1> QED
  BY <1>2, <1>3, <1>4, <1>5, <1>6

\* The figures of a result agree with each other and with Qasir's list
\* whatever the pages and the rows: a debt is counted once in its bucket, in its
\* customer and in the summary, a count is that of the orders listed, a complete
\* reading of the sales has none too few (aggregateCustomers, countStatuses,
\* summarizeModes, capRows).
THEOREM ResultsAgree == ViewsSpec => []ResultsAddUp
<1> DEFINE I == Inv /\ Recorded /\ QuietOK /\ SalesOK
<1>1. ViewsInit => I
  <2> SUFFICES ASSUME ViewsInit PROVE I
    OBVIOUS
  <2>1. Inv /\ Recorded
    BY InitInv, InitRecorded
  <2>2. start = Nil
    BY DEF ViewsInit
  <2>3. QuietOK
    <3>1. Quiet => start # Nil
      <4>1. <<born, gone>> \in Nat \X SUBSET Nat
        <5>1. born \in Nat /\ gone \subseteq Nat
          BY <2>1, RowsAre DEF Inv, KindsOK
        <5> QED
          BY <5>1
      <4> QED
        BY <4>1, ViewsAssumption DEF Quiet
    <3> QED
      BY <2>2, <3>1 DEF QuietOK, StartsOK
  <2>4. SalesOK
    <3> SUFFICES ASSUME tool = "velocity" PROVE SalesOK
      BY DEF SalesOK
    <3>1. scan.page = 1 /\ view = Nil
      BY DEF ViewsInit
    <3>2. Pages \in Nat \ {0}
      BY <2>1, PagesBound DEF Inv
    <3> QED
      BY <2>2, <3>1, <3>2 DEF SalesOK
  <2> QED
    BY <2>1, <2>3, <2>4
<1>2. I /\ [ViewsNext]_viewsVars => I'
  BY NextInv, NextRecorded, NextQuiet, NextSales DEF Inv
<1>3. I => ResultsAddUp
  BY FiguresAgree
<1> HIDE DEF I
<1> QED
  BY <1>1, <1>2, <1>3, PTL DEF ViewsSpec
=============================================================================
