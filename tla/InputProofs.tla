---------------------------- MODULE InputProofs ----------------------------
(***************************************************************************)
(* Proofs about the validator and the document (Input), for every registry *)
(* of the shape InputAssumption names and for requests of any size:        *)
(*                                                                         *)
(*   what is accepted is as the document has it, and is accepted again as  *)
(*   it is (the ...Accepted and ...Settled lemmas);                        *)
(*   what is as the document has it is accepted (...Documented);           *)
(*   what a report tells mends what it tells of (...Within, ...Mended,     *)
(*   ...Report, ...Retried).                                               *)
(*                                                                         *)
(* Each is shown of a value given what holds of its parts, then of a       *)
(* field, a row of fields, the rows and the whole body in turn, then of a  *)
(* request.                                                                *)
(***************************************************************************)
EXTENDS Input, TLAPS

-----------------------------------------------------------------------------
(* Schemas and places.                                                     *)

\* Where a problem is: a list of keys and indices.
IsPlace(at) == \E S : at \in Seq(S)

LEMMA PlaceOfPart ==
  ASSUME NEW at, IsPlace(at), NEW k
  PROVE  /\ IsPlace(Append(at, k)) /\ Len(at) \in Nat /\ Len(Append(at, k)) = Len(at) + 1
         /\ Append(at, k)[Len(at) + 1] = k /\ \A i \in 1 .. Len(at) : Append(at, k)[i] = at[i]
<1>1. PICK S : at \in Seq(S)
  BY DEF IsPlace
<1>2. /\ Append(at, k) \in Seq(S \cup {k}) /\ Len(at) \in Nat /\ Len(Append(at, k)) = Len(at) + 1
      /\ Append(at, k)[Len(at) + 1] = k /\ \A i \in 1 .. Len(at) : Append(at, k)[i] = at[i]
  BY <1>1
<1> QED
  BY <1>2 DEF IsPlace

LEMMA Places == \A k, l : IsPlace(<<k>>) /\ IsPlace(<<k, l>>)
<1> TAKE k, l
<1>1. <<k>> \in Seq({k}) /\ <<k, l>> \in Seq({k, l})
  OBVIOUS
<1> QED
  BY <1>1 DEF IsPlace

\* The paging fields of a schema have the bounds checkBounds would give them.
Keyed(s, key) ==
  s.type = "integer" => (key \in PagingKeys => s.minimum # {}) /\ (key \in PageSizeKeys => s.maximum # {})

LEMMA PartOf ==
  ASSUME NEW s, SchemaOK(s), NEW k, HasSchema(s, k)
  PROVE  PartSchema(s, k) \in Insides(s) /\ Keyed(PartSchema(s, k), k)
<1>1. CASE s.type = "array"
  <2>1. PICK x \in s.items : TRUE
    BY <1>1 DEF HasSchema
  <2>2. s.items = {x} /\ x.type # "integer"
    BY <1>1, <2>1 DEF SchemaOK
  <2>3. PartSchema(s, k) = x /\ Insides(s) = {x}
    BY <1>1, <2>2 DEF PartSchema, Insides
  <2> QED
    BY <2>2, <2>3 DEF Keyed
<1>2. CASE s.type # "array"
  <2>1. k \in DOMAIN s.properties /\ PartSchema(s, k) = s.properties[k]
        /\ Insides(s) = {s.properties[x] : x \in DOMAIN s.properties}
    BY <1>2 DEF HasSchema, PartSchema, Insides
  <2> QED
    BY <2>1 DEF SchemaOK, Keyed
<1> QED
  BY <1>1, <1>2

LEMMA NoParts ==
  ASSUME NEW s, FieldOK(s), NEW v
  PROVE  Inner(v, s) = {}
<1> SUFFICES ASSUME NEW k, HasSchema(s, k) PROVE FALSE
  BY DEF Inner
<1> QED
  BY PartOf DEF FieldOK

-----------------------------------------------------------------------------
(* What is accepted is documented, and accepted again as it is.            *)

LEMMA Findings ==
  /\ \A v : Valid(v).problems = {} /\ Valid(v).value = v
  /\ \A P : Broken(P).problems = P
  /\ \A at : Invalid(at).problems = {Problem("invalid", at)}
BY DEF Valid, Broken, Invalid

LEMMA ValuesAre ==
  \A n : /\ Num(n)[1] = "number" /\ Num(n)[2] = n /\ Str(n)[1] = "string" /\ Str(n)[2] = n
         /\ Bool(n)[1] = "boolean" /\ Bool(n)[2] = n /\ Obj(n)[1] = "object" /\ Obj(n)[2] = n
         /\ Arr(n)[1] = "array" /\ Arr(n)[2] = n
BY DEF Num, Str, Bool, Obj, Arr

LEMMA PrimitiveAccepted ==
  ASSUME NEW v, NEW s, SchemaOK(s), NEW at, CheckPrimitive(v, s, at).problems = {}
  PROVE  LET c == CheckPrimitive(v, s, at).value IN
         /\ s.type \notin Structures /\ Shaped(c, s) /\ Short(c)
         /\ CheckPrimitive(c, s, at) = Valid(c)
         /\ CheckPrimitive(v, s, at) = Valid(c) /\ c = Coerced(v, s.type)
<1> DEFINE c == Coerced(v, s.type)
<1>1. Coercible(v, s.type) /\ InBounds(c, s, at[Len(at)]) /\ InEnum(c, s) /\ CheckPrimitive(v, s, at) = Valid(c)
  BY Findings DEF CheckPrimitive
<1>2. s.type \in {"integer", "string", "boolean"}
  BY <1>1 DEF Coercible, SchemaOK, Structures
<1>3. CASE s.type = "integer"
  <2>1. PICK n : c = Num(n) /\ Safe(n)
    BY <1>1, <1>3 DEF Coerced, Coercible, Is
  <2>2. Is(c, {"number"}) /\ c[2] = n
    BY <2>1, ValuesAre DEF Is
  <2>3. Coercible(c, s.type) /\ Coerced(c, s.type) = c
    BY <1>3, <2>1, <2>2 DEF Coercible, Coerced
  <2>4. (\A m \in s.minimum : c[2] >= m) /\ (\A m \in s.maximum : c[2] <= m)
    BY <1>1, <1>3, <2>2 DEF InBounds
  <2>5. Short(c)
    BY <2>1, <2>2 DEF Short, Is
  <2>6. Shaped(c, s)
    BY <1>3, <2>2, <2>4 DEF Shaped
  <2> HIDE DEF c
  <2> QED
    BY <1>1, <1>2, <2>3, <2>5, <2>6, Findings DEF CheckPrimitive, Structures, c
<1>4. CASE s.type = "string"
  <2>1. c = Str(Text(v))
    BY <1>4 DEF Coerced
  <2>2. Is(c, {"string"}) /\ c[2] = Text(v) /\ c[1] = "string"
    BY <2>1, ValuesAre DEF Is
  <2>3. Text(c) = Text(v)
    BY <2>2 DEF Text, Is
  <2>4. Coercible(c, s.type) /\ Coerced(c, s.type) = c
    BY <1>4, <2>1, <2>2, <2>3 DEF Coercible, Coerced, Is
  <2>5. Short(c)
    BY <1>1, <2>2 DEF Short, InBounds, Is
  <2>6. Shaped(c, s)
    BY <1>1, <1>4, <2>2 DEF Shaped
  <2> HIDE DEF c
  <2> QED
    BY <1>1, <1>2, <2>4, <2>5, <2>6, Findings DEF CheckPrimitive, Structures, c
<1>5. CASE s.type = "boolean"
  <2>1. c[1] = "boolean"
    BY <1>5, ValuesAre DEF Coerced, Is
  <2>2. Is(c, {"boolean"}) /\ ~Is(c, {"number"}) /\ ~Is(c, {"string"})
    BY <2>1 DEF Is
  <2>3. Coercible(c, s.type) /\ Coerced(c, s.type) = c
    BY <1>5, <2>2 DEF Coercible, Coerced
  <2>4. Shaped(c, s) /\ Short(c)
    BY <1>5, <2>2 DEF Shaped, Short
  <2> HIDE DEF c
  <2> QED
    BY <1>1, <1>2, <2>3, <2>4, Findings DEF CheckPrimitive, Structures, c
<1> QED
  BY <1>2, <1>3, <1>4, <1>5

LEMMA InnerHas == \A v, s : \A k \in Inner(v, s) : k \in DOMAIN v[2] /\ HasSchema(s, k)
  BY DEF Inner

\* The parts that were found to be right make a value that is.
MadeOf(c, v, s, found) ==
  /\ Shaped(c, s) /\ Short(c)
  /\ Structured(c, s) =>
       \A k \in Inner(c, s) :
         Structured(v, s) /\ k \in Inner(v, s) /\ found[k].problems = {} /\ c[2][k] = found[k].value
Stays(c, s, at, again) ==
  (Structured(c, s) => \A k \in Inner(c, s) : again[k] = Valid(c[2][k])) => CheckValue(c, s, at, again) = Valid(c)

LEMMA ValueAccepted ==
  ASSUME NEW v, NEW s, SchemaOK(s), NEW at, NEW found, CheckValue(v, s, at, found).problems = {},
         NEW c, c = CheckValue(v, s, at, found).value, NEW again
  PROVE  MadeOf(c, v, s, found) /\ Stays(c, s, at, again)
<1>1. CASE ~Structured(v, s)
  <2>1. CheckValue(v, s, at, found) = CheckPrimitive(v, s, at)
    BY <1>1 DEF CheckValue
  <2>2. /\ s.type \notin Structures /\ Shaped(c, s) /\ Short(c) /\ CheckPrimitive(c, s, at) = Valid(c)
    BY <2>1, PrimitiveAccepted
  <2>3. ~Structured(c, s)
    BY <2>2 DEF Structured
  <2> QED
    BY <2>2, <2>3 DEF CheckValue, MadeOf, Stays
<1>2. CASE Structured(v, s)
  <2> DEFINE f == v[2]
             I == Inner(v, s)
             g == [k \in DOMAIN f |-> IF k \in I THEN found[k].value ELSE f[k]]
             unknown == IF s.closed THEN {Problem("unknown", Append(at, k)) : k \in DOMAIN f \ I} ELSE {}
             given == unknown \cup UNION {found[k].problems : k \in I}
             missing == Missing(f, s, at, given)
  <2>1. CheckValue(v, s, at, found) = CheckParts(v, s, at, found)
    BY <1>2 DEF CheckValue
  <2>2. CheckParts(v, s, at, found) =
          IF given \cup missing # {} THEN Broken(given \cup missing) ELSE Valid(<<v[1], g>>)
    BY DEF CheckParts
  <2>3. given \cup missing = {} /\ c = <<v[1], g>>
    BY <2>1, <2>2, Findings
  <2>4. \A k \in I : found[k].problems = {}
    BY <2>3
  <2>5. c[1] = v[1] /\ c[2] = g /\ DOMAIN g = DOMAIN f
    BY <2>3
  <2>6. Inner(c, s) = I
    BY <2>5 DEF Inner
  <2>7. s.type \in Structures /\ v[1] = s.type /\ Structured(c, s)
    BY <1>2, <2>5 DEF Structured, Is
  <2>8. s.required \subseteq DOMAIN g
    BY <2>3, <2>5 DEF Missing
  <2>9. s.closed => DOMAIN f \subseteq I
    <3> SUFFICES ASSUME s.closed, NEW k \in DOMAIN f \ I PROVE FALSE
      OBVIOUS
    <3>1. Problem("unknown", Append(at, k)) \in unknown
      OBVIOUS
    <3> QED
      BY <2>3, <3>1
  <2>10. Shaped(c, s)
    <3>1. CASE s.type = "array"
      BY <2>5, <2>7, <3>1 DEF Shaped, Is
    <3>2. CASE s.type = "object"
      <4>1. I \subseteq DOMAIN s.properties
        BY <3>2 DEF Inner, HasSchema
      <4> QED
        BY <2>5, <2>7, <2>8, <2>9, <3>2, <4>1 DEF Shaped, Is
    <3> QED
      BY <2>7, <3>1, <3>2 DEF Structures
  <2>11. Short(c)
    BY <2>5, <2>7 DEF Short, Is, Structures
  <2>12. \A k \in I : c[2][k] = found[k].value
    <3>1. I \subseteq DOMAIN f
      BY DEF Inner
    <3> QED
      BY <2>5, <3>1
  <2>13. ASSUME \A k \in I : again[k] = Valid(c[2][k]) PROVE CheckValue(c, s, at, again) = Valid(c)
    <3> DEFINE unknown2 == IF s.closed THEN {Problem("unknown", Append(at, k)) : k \in DOMAIN g \ I} ELSE {}
               given2 == unknown2 \cup UNION {again[k].problems : k \in I}
               g2 == [k \in DOMAIN g |-> IF k \in I THEN again[k].value ELSE g[k]]
    <3>1. CheckValue(c, s, at, again) = CheckParts(c, s, at, again)
      BY <2>7 DEF CheckValue
    <3>2. CheckParts(c, s, at, again) =
            IF given2 \cup Missing(g, s, at, given2) # {} THEN Broken(given2 \cup Missing(g, s, at, given2))
            ELSE Valid(<<c[1], g2>>)
      BY <2>5, <2>6 DEF CheckParts
    <3>3. unknown2 = {}
      BY <2>5, <2>9
    <3>4. \A k \in I : again[k].problems = {} /\ again[k].value = g[k]
      BY <2>5, <2>13, Findings
    <3>5. given2 \cup Missing(g, s, at, given2) = {}
      <4>1. s.required \ DOMAIN g = {}
        BY <2>8
      <4>2. Missing(g, s, at, given2) = {}
        BY <4>1 DEF Missing
      <4> HIDE DEF g
      <4> QED
        BY <3>3, <3>4, <4>2
    <3>6. g2 = g
      BY <3>4
    <3> QED
      BY <2>3, <2>5, <3>1, <3>2, <3>5, <3>6
  <2> HIDE DEF I, g
  <2>14. MadeOf(c, v, s, found)
    BY <1>2, <2>4, <2>6, <2>10, <2>11, <2>12 DEF MadeOf, I
  <2>15. Stays(c, s, at, again)
    BY <2>6, <2>7, <2>13 DEF Stays
  <2> QED
    BY <2>14, <2>15
<1> QED
  BY <1>1, <1>2

\* The same for each depth of schemas: what is accepted conforms, and is
\* accepted again as it is.
LEMMA FieldAccepted ==
  ASSUME NEW v, NEW s, FieldOK(s), NEW at, CheckField(v, s, at).problems = {}
  PROVE  LET c == CheckField(v, s, at).value IN
         /\ FieldConforms(c, s) /\ CheckField(c, s, at) = Valid(c)
<1> DEFINE c == CheckField(v, s, at).value
<1>1. SchemaOK(s) /\ Inner(c, s) = {}
  BY NoParts DEF FieldOK
<1>2. CheckValue(v, s, at, <<>>).problems = {} /\ c = CheckValue(v, s, at, <<>>).value
  BY DEF CheckField
<1> HIDE DEF c
<1>3. MadeOf(c, v, s, <<>>) /\ Stays(c, s, at, <<>>)
  BY <1>1, <1>2, ValueAccepted
<1>4. Shaped(c, s) /\ CheckValue(c, s, at, <<>>) = Valid(c)
  BY <1>1, <1>3 DEF MadeOf, Stays
<1> QED
  BY <1>4 DEF c, CheckField, FieldConforms

LEMMA RowAccepted ==
  ASSUME NEW v, NEW s, RowOK(s), NEW at, CheckRow(v, s, at).problems = {}
  PROVE  LET c == CheckRow(v, s, at).value IN
         /\ RowConforms(c, s) /\ CheckRow(c, s, at) = Valid(c)
<1> DEFINE c == CheckRow(v, s, at).value
           found(w) == [k \in Inner(w, s) |-> CheckField(w[2][k], PartSchema(s, k), Append(at, k))]
<1>1. SchemaOK(s)
  BY DEF RowOK
<1>2. CheckValue(v, s, at, found(v)).problems = {} /\ c = CheckValue(v, s, at, found(v)).value
      /\ \A w : CheckRow(w, s, at) = CheckValue(w, s, at, found(w))
  BY DEF CheckRow
<1>3. \A w : \A k \in Inner(w, s) : /\ found(w)[k] = CheckField(w[2][k], PartSchema(s, k), Append(at, k))
                                    /\ FieldOK(PartSchema(s, k))
  BY <1>1, InnerHas, PartOf DEF RowOK
<1> HIDE DEF c, found
<1>4. MadeOf(c, v, s, found(v)) /\ Stays(c, s, at, found(c))
  BY <1>1, <1>2, ValueAccepted
<1>5. ASSUME Structured(c, s), NEW k \in Inner(c, s)
      PROVE  FieldConforms(c[2][k], PartSchema(s, k)) /\ found(c)[k] = Valid(c[2][k])
  <2>1. k \in Inner(v, s) /\ found(v)[k].problems = {} /\ c[2][k] = found(v)[k].value
    BY <1>4, <1>5 DEF MadeOf
  <2> QED
    BY <1>3, <2>1, FieldAccepted
<1>6. RowConforms(c, s)
  BY <1>4, <1>5 DEF RowConforms, MadeOf
<1>7. CheckRow(c, s, at) = Valid(c)
  BY <1>2, <1>4, <1>5 DEF Stays
<1> QED
  BY <1>6, <1>7 DEF c

LEMMA RowsAccepted ==
  ASSUME NEW v, NEW s, RowsOK(s), NEW at, CheckRows(v, s, at).problems = {}
  PROVE  LET c == CheckRows(v, s, at).value IN
         /\ RowsConform(c, s) /\ CheckRows(c, s, at) = Valid(c)
<1> DEFINE c == CheckRows(v, s, at).value
           found(w) == [k \in Inner(w, s) |-> CheckRow(w[2][k], PartSchema(s, k), Append(at, k))]
<1>1. SchemaOK(s)
  BY DEF RowsOK
<1>2. CheckValue(v, s, at, found(v)).problems = {} /\ c = CheckValue(v, s, at, found(v)).value
      /\ \A w : CheckRows(w, s, at) = CheckValue(w, s, at, found(w))
  BY DEF CheckRows
<1>3. \A w : \A k \in Inner(w, s) : /\ found(w)[k] = CheckRow(w[2][k], PartSchema(s, k), Append(at, k))
                                    /\ RowOK(PartSchema(s, k))
  BY <1>1, InnerHas, PartOf DEF RowsOK
<1> HIDE DEF c, found
<1>4. MadeOf(c, v, s, found(v)) /\ Stays(c, s, at, found(c))
  BY <1>1, <1>2, ValueAccepted
<1>5. ASSUME Structured(c, s), NEW k \in Inner(c, s)
      PROVE  RowConforms(c[2][k], PartSchema(s, k)) /\ found(c)[k] = Valid(c[2][k])
  <2>1. k \in Inner(v, s) /\ found(v)[k].problems = {} /\ c[2][k] = found(v)[k].value
    BY <1>4, <1>5 DEF MadeOf
  <2> QED
    BY <1>3, <2>1, RowAccepted
<1>6. RowsConform(c, s)
  BY <1>4, <1>5 DEF RowsConform, MadeOf
<1>7. CheckRows(c, s, at) = Valid(c)
  BY <1>2, <1>4, <1>5 DEF Stays
<1> QED
  BY <1>6, <1>7 DEF c
LEMMA WholeAccepted ==
  ASSUME NEW v, NEW s, WholeOK(s), NEW at, CheckWhole(v, s, at).problems = {}
  PROVE  LET c == CheckWhole(v, s, at).value IN
         /\ Conforms(c, s) /\ CheckWhole(c, s, at) = Valid(c)
<1> DEFINE c == CheckWhole(v, s, at).value
           found(w) == [k \in Inner(w, s) |-> CheckRows(w[2][k], PartSchema(s, k), Append(at, k))]
<1>1. SchemaOK(s)
  BY DEF WholeOK
<1>2. CheckValue(v, s, at, found(v)).problems = {} /\ c = CheckValue(v, s, at, found(v)).value
      /\ \A w : CheckWhole(w, s, at) = CheckValue(w, s, at, found(w))
  BY DEF CheckWhole
<1>3. \A w : \A k \in Inner(w, s) : /\ found(w)[k] = CheckRows(w[2][k], PartSchema(s, k), Append(at, k))
                                    /\ RowsOK(PartSchema(s, k))
  BY <1>1, InnerHas, PartOf DEF WholeOK
<1> HIDE DEF c, found
<1>4. MadeOf(c, v, s, found(v)) /\ Stays(c, s, at, found(c))
  BY <1>1, <1>2, ValueAccepted
<1>5. ASSUME Structured(c, s), NEW k \in Inner(c, s)
      PROVE  RowsConform(c[2][k], PartSchema(s, k)) /\ found(c)[k] = Valid(c[2][k])
  <2>1. k \in Inner(v, s) /\ found(v)[k].problems = {} /\ c[2][k] = found(v)[k].value
    BY <1>4, <1>5 DEF MadeOf
  <2> QED
    BY <1>3, <2>1, RowsAccepted
<1>6. Conforms(c, s)
  BY <1>4, <1>5 DEF Conforms, MadeOf
<1>7. CheckWhole(c, s, at) = Valid(c)
  BY <1>2, <1>4, <1>5 DEF Stays
<1> QED
  BY <1>6, <1>7 DEF c
-----------------------------------------------------------------------------
(* What is documented is accepted as it is given.                          *)

LEMMA PrimitiveDocumented ==
  ASSUME NEW v, ValueOK(v), NEW s, SchemaOK(s), s.type \notin Structures, NEW at,
         Keyed(s, at[Len(at)]), Shaped(v, s), Short(v)
  PROVE  CheckPrimitive(v, s, at) = Valid(v)
<1> DEFINE key == at[Len(at)]
<1>1. s.type \in {"integer", "string", "boolean"}
  BY DEF SchemaOK
<1>2. CASE s.type = "integer"
  <2>1. v[1] = "number" /\ Is(v, {"number"}) /\ ~Is(v, {"string"})
    BY <1>2 DEF Shaped, Is
  <2>2. v = Num(v[2]) /\ Safe(v[2])
    BY <2>1 DEF ValueOK, Is, Short, Null, Fraction, Structures
  <2>3. Coercible(v, s.type) /\ Coerced(v, s.type) = v
    BY <1>2, <2>1, <2>2 DEF Coercible, Coerced
  <2>4. InBounds(v, s, key)
    BY <1>2, <2>1 DEF InBounds, Shaped, Keyed
  <2>5. InEnum(v, s)
    BY <1>2 DEF InEnum, SchemaOK
  <2> QED
    BY <2>3, <2>4, <2>5 DEF CheckPrimitive
<1>3. CASE s.type = "string"
  <2>1. v[1] = "string" /\ Is(v, {"string"}) /\ ~Is(v, {"number"}) /\ InEnum(v, s)
    BY <1>3 DEF Shaped, Is
  <2>2. v = Str(v[2]) /\ v[2] # Long
    BY <2>1 DEF ValueOK, Is, Short, Null, Fraction, Structures
  <2>3. Text(v) = v[2]
    BY <2>1 DEF Text, Is
  <2>4. Coercible(v, s.type) /\ Coerced(v, s.type) = v
    BY <1>3, <2>1, <2>2, <2>3 DEF Coercible, Coerced, Is
  <2>5. InBounds(v, s, key)
    BY <2>1, <2>2 DEF InBounds
  <2> QED
    BY <2>1, <2>4, <2>5 DEF CheckPrimitive
<1>4. CASE s.type = "boolean"
  <2>1. v[1] = "boolean" /\ Is(v, {"boolean"}) /\ ~Is(v, {"number"}) /\ ~Is(v, {"string"})
    BY <1>4 DEF Shaped, Is
  <2>2. Coercible(v, s.type) /\ Coerced(v, s.type) = v
    BY <1>4, <2>1 DEF Coercible, Coerced
  <2>3. InBounds(v, s, key) /\ InEnum(v, s)
    BY <1>4, <2>1 DEF InBounds, InEnum, SchemaOK
  <2> QED
    BY <2>2, <2>3 DEF CheckPrimitive
<1> QED
  BY <1>1, <1>2, <1>3, <1>4

\* The parts that were found to be right are no problem.
FoundRight(v, s, found) == Structured(v, s) => \A k \in Inner(v, s) : found[k] = Valid(v[2][k])

LEMMA ValueDocumented ==
  ASSUME NEW v, ValueOK(v), NEW s, SchemaOK(s), NEW at, Keyed(s, at[Len(at)]),
         Shaped(v, s), Short(v), NEW found, FoundRight(v, s, found)
  PROVE  CheckValue(v, s, at, found) = Valid(v)
<1>1. CASE s.type \notin Structures
  BY <1>1, PrimitiveDocumented DEF CheckValue, Structured
<1>2. CASE s.type \in Structures
  <2> DEFINE f == v[2]
             I == Inner(v, s)
             g == [k \in DOMAIN f |-> IF k \in I THEN found[k].value ELSE f[k]]
             unknown == IF s.closed THEN {Problem("unknown", Append(at, k)) : k \in DOMAIN f \ I} ELSE {}
             given == unknown \cup UNION {found[k].problems : k \in I}
             missing == Missing(f, s, at, given)
  <2>1. v[1] = s.type /\ Structured(v, s)
    BY <1>2 DEF Shaped, Is, Structured, Structures
  <2>2. v = <<v[1], f>> /\ f = [k \in DOMAIN f |-> f[k]]
    BY <1>2, <2>1 DEF ValueOK, Null, Fraction, Is, Structures
  <2>3. CheckValue(v, s, at, found) =
          IF given \cup missing # {} THEN Broken(given \cup missing) ELSE Valid(<<v[1], g>>)
    BY <2>1 DEF CheckValue, CheckParts
  <2>4. \A k \in I : found[k].problems = {} /\ found[k].value = f[k]
    BY <2>1, Findings DEF FoundRight
  <2>5. s.required \subseteq DOMAIN f /\ (s.closed => DOMAIN f \subseteq I)
    BY <1>2, <2>1 DEF Shaped, Inner, HasSchema, SchemaOK, Structures
  <2>6. missing = {}
    BY <2>5 DEF Missing
  <2>7. unknown = {}
    BY <2>5
  <2>8. given \cup missing = {}
    <3> HIDE DEF missing, unknown
    <3> QED
      BY <2>4, <2>6, <2>7
  <2>9. g = f
    BY <2>2, <2>4
  <2> HIDE DEF given, missing, g
  <2> QED
    BY <2>2, <2>3, <2>8, <2>9
<1> QED
  BY <1>1, <1>2

LEMMA LastOfPlace ==
  ASSUME NEW at, IsPlace(at), NEW k
  PROVE  IsPlace(Append(at, k)) /\ Append(at, k)[Len(Append(at, k))] = k
BY PlaceOfPart

LEMMA FieldDocumented ==
  ASSUME NEW v, ValueOK(v), NEW s, FieldOK(s), NEW at, Keyed(s, at[Len(at)]), FieldConforms(v, s), Short(v)
  PROVE  CheckField(v, s, at) = Valid(v)
<1>1. Inner(v, s) = {} /\ SchemaOK(s) /\ Shaped(v, s)
  BY NoParts DEF FieldOK, FieldConforms
<1>2. FoundRight(v, s, <<>>)
  BY <1>1 DEF FoundRight
<1> QED
  BY <1>1, <1>2, ValueDocumented DEF CheckField

LEMMA RowDocumented ==
  ASSUME NEW v, RowJson(v), NEW s, RowOK(s), NEW at, IsPlace(at), Keyed(s, at[Len(at)]),
         RowConforms(v, s), RowShort(v, s)
  PROVE  CheckRow(v, s, at) = Valid(v)
<1> DEFINE found == [k \in Inner(v, s) |-> CheckField(v[2][k], PartSchema(s, k), Append(at, k))]
<1>1. SchemaOK(s) /\ Shaped(v, s) /\ ValueOK(v) /\ Short(v)
  BY DEF RowOK, RowConforms, RowJson, RowShort
<1>2. ASSUME Structured(v, s), NEW k \in Inner(v, s) PROVE found[k] = Valid(v[2][k])
  <2>1. k \in DOMAIN v[2] /\ HasSchema(s, k)
    BY <1>2, InnerHas
  <2>2. FieldOK(PartSchema(s, k)) /\ Keyed(PartSchema(s, k), k)
    BY <1>1, <2>1, PartOf DEF RowOK
  <2>3. ValueOK(v[2][k]) /\ FieldConforms(v[2][k], PartSchema(s, k)) /\ Short(v[2][k])
    BY <1>2, <2>1 DEF RowJson, RowConforms, RowShort, Structured, Is
  <2>4. IsPlace(Append(at, k)) /\ Keyed(PartSchema(s, k), Append(at, k)[Len(Append(at, k))])
    BY <2>2, LastOfPlace
  <2>5. CheckField(v[2][k], PartSchema(s, k), Append(at, k)) = Valid(v[2][k])
    BY <2>2, <2>3, <2>4, FieldDocumented
  <2> QED
    BY <2>5
<1>3. FoundRight(v, s, found)
  BY <1>2 DEF FoundRight
<1> HIDE DEF found
<1>4. CheckValue(v, s, at, found) = Valid(v)
  BY <1>1, <1>3, ValueDocumented
<1> QED
  BY <1>4 DEF found, CheckRow

LEMMA RowsDocumented ==
  ASSUME NEW v, RowsJson(v), NEW s, RowsOK(s), NEW at, IsPlace(at), Keyed(s, at[Len(at)]),
         RowsConform(v, s), RowsShort(v, s)
  PROVE  CheckRows(v, s, at) = Valid(v)
<1> DEFINE found == [k \in Inner(v, s) |-> CheckRow(v[2][k], PartSchema(s, k), Append(at, k))]
<1>1. SchemaOK(s) /\ Shaped(v, s) /\ ValueOK(v) /\ Short(v)
  BY DEF RowsOK, RowsConform, RowsJson, RowsShort
<1>2. ASSUME Structured(v, s), NEW k \in Inner(v, s) PROVE found[k] = Valid(v[2][k])
  <2>1. k \in DOMAIN v[2] /\ HasSchema(s, k)
    BY <1>2, InnerHas
  <2>2. RowOK(PartSchema(s, k)) /\ Keyed(PartSchema(s, k), k)
    BY <1>1, <2>1, PartOf DEF RowsOK
  <2>3. RowJson(v[2][k]) /\ RowConforms(v[2][k], PartSchema(s, k)) /\ RowShort(v[2][k], PartSchema(s, k))
    BY <1>2, <2>1 DEF RowsJson, RowsConform, RowsShort, Structured, Is
  <2>4. IsPlace(Append(at, k)) /\ Keyed(PartSchema(s, k), Append(at, k)[Len(Append(at, k))])
    BY <2>2, LastOfPlace
  <2>5. CheckRow(v[2][k], PartSchema(s, k), Append(at, k)) = Valid(v[2][k])
    BY <2>2, <2>3, <2>4, RowDocumented
  <2> QED
    BY <2>5
<1>3. FoundRight(v, s, found)
  BY <1>2 DEF FoundRight
<1> HIDE DEF found
<1>4. CheckValue(v, s, at, found) = Valid(v)
  BY <1>1, <1>3, ValueDocumented
<1> QED
  BY <1>4 DEF found, CheckRows

LEMMA WholeDocumented ==
  ASSUME NEW v, Json(v), NEW s, WholeOK(s), NEW at, IsPlace(at), Keyed(s, at[Len(at)]),
         Conforms(v, s), BodyShort(v, s)
  PROVE  CheckWhole(v, s, at) = Valid(v)
<1> DEFINE found == [k \in Inner(v, s) |-> CheckRows(v[2][k], PartSchema(s, k), Append(at, k))]
<1>1. SchemaOK(s) /\ Shaped(v, s) /\ ValueOK(v) /\ Short(v)
  BY DEF WholeOK, Conforms, Json, BodyShort
<1>2. ASSUME Structured(v, s), NEW k \in Inner(v, s) PROVE found[k] = Valid(v[2][k])
  <2>1. k \in DOMAIN v[2] /\ HasSchema(s, k)
    BY <1>2, InnerHas
  <2>2. RowsOK(PartSchema(s, k)) /\ Keyed(PartSchema(s, k), k)
    BY <1>1, <2>1, PartOf DEF WholeOK
  <2>3. RowsJson(v[2][k]) /\ RowsConform(v[2][k], PartSchema(s, k)) /\ RowsShort(v[2][k], PartSchema(s, k))
    BY <1>2, <2>1 DEF Json, Conforms, BodyShort, Structured, Is
  <2>4. IsPlace(Append(at, k)) /\ Keyed(PartSchema(s, k), Append(at, k)[Len(Append(at, k))])
    BY <2>2, LastOfPlace
  <2>5. CheckRows(v[2][k], PartSchema(s, k), Append(at, k)) = Valid(v[2][k])
    BY <2>2, <2>3, <2>4, RowsDocumented
  <2> QED
    BY <2>5
<1>3. FoundRight(v, s, found)
  BY <1>2 DEF FoundRight
<1> HIDE DEF found
<1>4. CheckValue(v, s, at, found) = Valid(v)
  BY <1>1, <1>3, ValueDocumented
<1> QED
  BY <1>4 DEF found, CheckWhole

-----------------------------------------------------------------------------
(* Path parameters.                                                        *)

ParamOK(s, name) ==
  /\ SchemaOK(s) /\ s.type \in {"integer", "string"}
  /\ s.type = "integer" => name \notin PagingKeys /\ s.minimum = {} /\ s.maximum = {}

\* A parameter of a path as documented; an id may stay its digits.
IdConforms(v, s) ==
  Conforms(v, s) \/ (s.type = "integer" /\ Is(v, {"string"}) /\ IntegerSegment(v[2]))

LEMMA Unstructured ==
  ASSUME NEW s, s.type \notin Structures, NEW v
  PROVE  (Conforms(v, s) <=> Shaped(v, s)) /\ (BodyShort(v, s) <=> Short(v))
BY DEF Conforms, BodyShort, Structured

LEMMA TextsAre ==
  /\ \A n : Text(Num(n)) = Digits(n) /\ Text(Str(n)) = n
  /\ \A n : Is(Digits(n), {"int"}) /\ Digits(n)[2] = n /\ IntegerText(Digits(n)) /\ SafeSegment(Digits(n))
  /\ \A t : IntegerText(t) => SafeSegment(t)
BY DEF Text, Num, Str, Digits, Is, IntegerText, SafeSegment

LEMMA ParamAccepted ==
  ASSUME NEW name, NEW v, NEW s, ParamOK(s, name), CheckPathParam(name, v, s).problems = {},
         NEW c, c = CheckPathParam(name, v, s).value
  PROVE  /\ IdConforms(c, s) /\ SafeSegment(Text(c)) /\ Is(c, {"string", "number"})
         /\ CheckPathParam(name, c, s) = Valid(c)
<1> DEFINE text == Text(v)
           number == s.type = "integer" /\ Is(text, {"int"}) /\ Safe(text[2])
           value == IF number THEN Num(text[2]) ELSE Str(text)
<1>1. /\ IF s.type = "integer" THEN IntegerSegment(text) ELSE SafeSegment(text)
      /\ InBounds(value, s, name) /\ InEnum(value, s) /\ c = value
  BY Findings DEF CheckPathParam
<1>2. s.type \notin Structures /\ s.type \in {"integer", "string"}
  BY DEF ParamOK, Structures
<1>3. CASE number
  <2>1. c = Num(text[2]) /\ Is(c, {"number"}) /\ ~Is(c, {"string"}) /\ c[2] = text[2]
    BY <1>1, <1>3, ValuesAre DEF Is
  <2>2. Text(c) = Digits(text[2]) /\ SafeSegment(Text(c)) /\ IntegerSegment(Text(c))
        /\ Is(Text(c), {"int"}) /\ Text(c)[2] = text[2]
    BY <1>1, <1>3, <2>1, TextsAre DEF IntegerSegment
  <2>3. CheckPathParam(name, c, s) = Valid(c)
    BY <1>1, <1>3, <2>1, <2>2 DEF CheckPathParam
  <2>4. Shaped(c, s)
    BY <1>3, <2>1 DEF ParamOK, Shaped
  <2> QED
    BY <1>2, <2>1, <2>2, <2>3, <2>4, Unstructured DEF IdConforms, Is
<1>4. CASE ~number
  <2>1. c = Str(text) /\ Is(c, {"string"}) /\ c[2] = text /\ Text(c) = text
    BY <1>1, <1>4, ValuesAre, TextsAre DEF Is
  <2>2. CheckPathParam(name, c, s) = Valid(c)
    BY <1>1, <1>4, <2>1 DEF CheckPathParam
  <2>3. SafeSegment(text)
    BY <1>1, TextsAre DEF IntegerSegment
  <2>4. IdConforms(c, s)
    <3>1. CASE s.type = "integer"
      BY <1>1, <2>1, <3>1 DEF IdConforms
    <3>2. CASE s.type = "string"
      <4>1. Shaped(c, s)
        BY <1>1, <1>4, <2>1, <3>2 DEF Shaped
      <4> QED
        BY <1>2, <4>1, Unstructured DEF IdConforms
    <3> QED
      BY <1>2, <3>1, <3>2
  <2> QED
    BY <2>1, <2>2, <2>3, <2>4 DEF Is
<1> QED
  BY <1>3, <1>4

LEMMA ParamDocumented ==
  ASSUME NEW name, NEW v, ValueOK(v), NEW s, ParamOK(s, name), IdConforms(v, s), Short(v),
         IF Is(v, {"number"}) THEN v[2] >= 0 ELSE SafeSegment(Text(v))
  PROVE  /\ CheckPathParam(name, v, s).problems = {}
         /\ Text(CheckPathParam(name, v, s).value) = Text(v)
         /\ Is(v, {"string", "number"})
<1> DEFINE text == Text(v)
           number == s.type = "integer" /\ Is(text, {"int"}) /\ Safe(text[2])
           value == IF number THEN Num(text[2]) ELSE Str(text)
<1>1. s.type \notin Structures /\ s.type \in {"integer", "string"} /\ SchemaOK(s)
  BY DEF ParamOK, Structures
<1>2. Shaped(v, s) \/ (s.type = "integer" /\ Is(v, {"string"}) /\ IntegerSegment(v[2]))
  BY <1>1, Unstructured DEF IdConforms
<1>3. SUFFICES /\ Is(v, {"string", "number"}) /\ (Is(v, {"number"}) => Safe(v[2]))
               /\ IF s.type = "integer" THEN IntegerSegment(text) ELSE SafeSegment(text)
               /\ InBounds(value, s, name) /\ InEnum(value, s) /\ Text(value) = text
  <2>1. Is(v, {"string"}) \/ (Is(v, {"number"}) /\ Safe(v[2]))
    BY <1>3 DEF Is
  <2>2. CheckPathParam(name, v, s) = Valid(value)
    BY <1>3, <2>1 DEF CheckPathParam
  <2> QED
    BY <1>3, <2>2, Findings
<1>4. Is(v, {"number"}) => Safe(v[2])
  BY DEF Short
<1>5. CASE s.type = "integer" /\ Is(v, {"number"})
  <2>1. v = Num(v[2]) /\ v[2] \in Int /\ v[2] >= 0 /\ Safe(v[2])
    BY <1>5 DEF ValueOK, Short, Null, Fraction, Structures, Is
  <2>2. text = Digits(v[2])
    BY <2>1, TextsAre
  <2>3. text[2] = v[2] /\ Is(text, {"int"}) /\ IntegerSegment(text)
    BY <2>1, <2>2, TextsAre DEF IntegerSegment
  <2>4. value = v
    BY <1>5, <2>1, <2>3
  <2>5. InBounds(v, s, name) /\ InEnum(v, s)
    BY <1>1, <1>5 DEF InBounds, ParamOK, InEnum, SchemaOK, Is, PagingKeys
  <2> HIDE DEF value
  <2> QED
    BY <1>5, <2>1, <2>3, <2>4, <2>5 DEF Is
<1>6. CASE s.type = "integer" /\ ~Is(v, {"number"})
  <2>1. Is(v, {"string"}) /\ IntegerSegment(v[2])
    BY <1>2, <1>6 DEF Shaped
  <2>2. v = Str(v[2]) /\ TextOK(v[2]) /\ text = v[2]
    BY <2>1 DEF ValueOK, Null, Fraction, Structures, Is, Text
  <2>3. text = <<text[1], text[2]>> /\ text[1] \in {"int", "zeros"}
    BY <2>1, <2>2 DEF TextOK, IntegerSegment, IntegerText, Is, Prose, Long, Decimal
  <2>4. CASE number
    <3>1. value = Num(text[2]) /\ Is(value, {"number"}) /\ ~Is(value, {"string"})
      BY <2>4, ValuesAre DEF Is
    <3>2. Text(value) = text
      BY <2>3, <2>4, <3>1, TextsAre DEF Digits, Is
    <3>3. InBounds(value, s, name) /\ InEnum(value, s)
      BY <1>1, <1>6, <3>1 DEF InBounds, ParamOK, InEnum, SchemaOK, PagingKeys
    <3> HIDE DEF value
    <3> QED
      BY <1>6, <2>1, <2>2, <3>2, <3>3 DEF Is
  <2>5. CASE ~number
    <3>1. value = Str(text) /\ Is(value, {"string"}) /\ ~Is(value, {"number"}) /\ Text(value) = text /\ value[2] = text
      BY <2>5, ValuesAre, TextsAre DEF Is
    <3>2. text # Long
      BY <2>3 DEF Long
    <3>3. InBounds(value, s, name) /\ InEnum(value, s)
      BY <1>1, <1>6, <3>1, <3>2 DEF InBounds, ParamOK, InEnum, SchemaOK
    <3> HIDE DEF value
    <3> QED
      BY <1>6, <2>1, <2>2, <3>1, <3>3 DEF Is
  <2> QED
    BY <2>4, <2>5
<1>7. CASE s.type = "string"
  <2>1. Is(v, {"string"}) /\ ~Is(v, {"number"}) /\ InEnum(v, s)
    BY <1>2, <1>7 DEF Shaped, Is
  <2>2. v = Str(v[2]) /\ text = v[2] /\ v[2] # Long
    BY <2>1 DEF ValueOK, Null, Fraction, Structures, Is, Text, Short
  <2>3. value = v /\ SafeSegment(text)
    BY <1>7, <2>1, <2>2
  <2>4. InBounds(v, s, name)
    BY <2>1, <2>2 DEF InBounds
  <2> HIDE DEF value
  <2> QED
    BY <1>7, <2>1, <2>2, <2>3, <2>4 DEF Is
<1> QED
  BY <1>1, <1>5, <1>6, <1>7

-----------------------------------------------------------------------------
(* validateOperationInput, part by part.                                   *)

Op(r) == Operations[r.op]
Property(r, k) == Op(r).schema.properties[k]
InPath(r) == Entries(r.path)
InQuery(r) == Entries(r.query)
Differ(r) == {k \in Op(r).param \cap DOMAIN InPath(r) \cap DOMAIN InQuery(r) :
                Text(InPath(r)[k]) # Text(InQuery(r)[k])}
Raw(r) == [k \in Op(r).param \cap (DOMAIN InPath(r) \cup DOMAIN InQuery(r)) |->
             IF k \in Differ(r) \/ k \notin DOMAIN InQuery(r) THEN InPath(r)[k] ELSE InQuery(r)[k]]
ParamOf(r, k) == CheckPathParam(k, Raw(r)[k], Property(r, k))
Asked(r) == Only(InQuery(r), DOMAIN InQuery(r) \ Op(r).param)
Known(r) == DOMAIN Asked(r) \cap DOMAIN Op(r).schema.properties
QueryOf(r, k) == CheckPrimitive(Asked(r)[k], Property(r, k), <<k>>)
QueryProblems(r) ==
  IF UsesBody(Op(r)) THEN {Problem("unknown", <<"query", k>>) : k \in DOMAIN Asked(r)}
  ELSE {Problem("unknown", <<k>>) : k \in DOMAIN Asked(r) \ Known(r)}
         \cup (UNION {QueryOf(r, k).problems : k \in Known(r)})
         \cup Missing(Asked(r), Rest(Op(r)), <<>>, {})
Problems(r) ==
  WrongBag(r.path, "path") \cup WrongBag(r.query, "query")
    \cup {Problem("unknown", <<"path", k>>) : k \in DOMAIN InPath(r) \ Op(r).param}
    \cup {Problem("invalid", <<k>>) : k \in Differ(r)}
    \cup {Problem("missing", <<k>>) : k \in Op(r).param \ DOMAIN Raw(r)}
    \cup (UNION {ParamOf(r, k).problems : k \in DOMAIN Raw(r)})
    \cup CheckBody(Op(r), r.body).problems
    \cup QueryProblems(r)

LEMMA ValidateIs ==
  ASSUME NEW r
  PROVE  Validate(r) =
           [problems |-> Problems(r),
            path |-> IF Problems(r) # {} THEN <<>> ELSE [k \in DOMAIN Raw(r) |-> ParamOf(r, k).value],
            query |-> IF Problems(r) # {} \/ UsesBody(Op(r)) THEN <<>>
                      ELSE [k \in Known(r) |-> QueryOf(r, k).value],
            body |-> IF Problems(r) # {} THEN Null ELSE CheckBody(Op(r), r.body).value]
BY DEF Validate, Problems, QueryProblems, QueryOf, Known, Asked, ParamOf, Raw, Differ, InQuery, InPath, Property, Op

LEMMA RestIs ==
  ASSUME NEW op, OperationOK(op)
  PROVE  LET s == op.schema  t == Rest(op) IN
         /\ t = [type |-> s.type, minimum |-> s.minimum, maximum |-> s.maximum, enum |-> s.enum, items |-> s.items,
                 properties |-> s.properties, required |-> s.required \ op.param, closed |-> s.closed]
         /\ WholeOK(t) /\ t.required = s.required \ op.param /\ t.properties = s.properties
         /\ t.type = "object" /\ t.closed /\ (op.method # "GET" => t = s)
<1> DEFINE s == op.schema  t == Rest(op)
<1>1. /\ s = [type |-> s.type, minimum |-> s.minimum, maximum |-> s.maximum, enum |-> s.enum, items |-> s.items,
              properties |-> s.properties, required |-> s.required, closed |-> s.closed]
      /\ s.type = "object" /\ s.closed /\ WholeOK(s) /\ SchemaOK(s) /\ (op.method # "GET" => op.param = {})
  BY DEF OperationOK, WholeOK, SchemaOK
<1>2. t = [type |-> s.type, minimum |-> s.minimum, maximum |-> s.maximum, enum |-> s.enum, items |-> s.items,
           properties |-> s.properties, required |-> s.required \ op.param, closed |-> s.closed]
  <2>1. t = [s EXCEPT !.required = s.required \ op.param]
    BY Zenon DEF Rest
  <2> HIDE DEF s, t
  <2>2. \A q : [s EXCEPT !.required = q] =
           [type |-> s.type, minimum |-> s.minimum, maximum |-> s.maximum, enum |-> s.enum, items |-> s.items,
            properties |-> s.properties, required |-> q, closed |-> s.closed]
    <3>1. TAKE q
    <3>2. /\ s = [f \in DOMAIN s |-> s[f]]
          /\ DOMAIN s = {"type", "minimum", "maximum", "enum", "items", "properties", "required", "closed"}
      BY <1>1
    <3> QED
      BY <3>2
  <2> QED
    BY <2>1, <2>2
<1>3. op.method # "GET" => t = s
  <2>1. op.method # "GET" => s.required \ op.param = s.required
    BY <1>1
  <2> QED
    BY <1>1, <1>2, <2>1
<1> HIDE DEF t
<1>4. /\ t.type = s.type /\ t.minimum = s.minimum /\ t.maximum = s.maximum /\ t.enum = s.enum /\ t.items = s.items
      /\ t.properties = s.properties /\ t.required = s.required \ op.param /\ t.closed = s.closed
  BY <1>2
<1>5. SchemaOK(t)
  BY <1>1, <1>2, <1>4 DEF SchemaOK
<1>6. WholeOK(t)
  <2>1. Insides(t) = Insides(s)
    BY <1>4 DEF Insides
  <2> QED
    BY <1>1, <1>5, <2>1 DEF WholeOK
<1> QED
  BY <1>1, <1>2, <1>3, <1>4, <1>6 DEF t

\* Nothing to complain of.
Fine(r) ==
  /\ Is(r.path, {"object", "null"}) /\ Is(r.query, {"object", "null"})
  /\ DOMAIN InPath(r) \subseteq Op(r).param /\ Differ(r) = {}
  /\ Op(r).param \subseteq DOMAIN InPath(r) \cup DOMAIN InQuery(r)
  /\ \A k \in Op(r).param : ParamOf(r, k).problems = {}
  /\ CheckBody(Op(r), r.body).problems = {}
  /\ IF UsesBody(Op(r)) THEN DOMAIN InQuery(r) \subseteq Op(r).param
     ELSE /\ DOMAIN InQuery(r) \subseteq Op(r).param \cup DOMAIN Op(r).schema.properties
          /\ \A k \in DOMAIN InQuery(r) \ Op(r).param : QueryOf(r, k).problems = {}
          /\ Op(r).schema.required \ Op(r).param \subseteq DOMAIN InQuery(r)

LEMMA FineOrNot ==
  ASSUME NEW r, OperationOK(Op(r))
  PROVE  Problems(r) = {} <=> Fine(r)
<1> DEFINE P == Op(r).param  props == DOMAIN Op(r).schema.properties
<1>1. DOMAIN Asked(r) = DOMAIN InQuery(r) \ P
  BY DEF Asked, Only
<1>2. DOMAIN Raw(r) = P \cap (DOMAIN InPath(r) \cup DOMAIN InQuery(r))
  BY DEF Raw
<1>3. Rest(Op(r)).required = Op(r).schema.required \ P
  BY RestIs
<1>4. WrongBag(r.path, "path") = {} <=> Is(r.path, {"object", "null"})
  BY DEF WrongBag
<1>5. WrongBag(r.query, "query") = {} <=> Is(r.query, {"object", "null"})
  BY DEF WrongBag
<1>6. {Problem("unknown", <<"path", k>>) : k \in DOMAIN InPath(r) \ P} = {} <=> DOMAIN InPath(r) \subseteq P
  OBVIOUS
<1>7. {Problem("invalid", <<k>>) : k \in Differ(r)} = {} <=> Differ(r) = {}
  OBVIOUS
<1>8. {Problem("missing", <<k>>) : k \in P \ DOMAIN Raw(r)} = {} <=> P \subseteq DOMAIN InPath(r) \cup DOMAIN InQuery(r)
  BY <1>2
<1>9. UNION {ParamOf(r, k).problems : k \in DOMAIN Raw(r)} = {} <=> \A k \in DOMAIN Raw(r) : ParamOf(r, k).problems = {}
  OBVIOUS
<1>10. CASE UsesBody(Op(r))
  <2>1. QueryProblems(r) = {} <=> DOMAIN InQuery(r) \subseteq P
    BY <1>1, <1>10 DEF QueryProblems
  <2> QED
    BY <1>2, <1>4, <1>5, <1>6, <1>7, <1>8, <1>9, <1>10, <2>1 DEF Problems, Fine
<1>11. CASE ~UsesBody(Op(r))
  <2>1. {Problem("unknown", <<k>>) : k \in DOMAIN Asked(r) \ Known(r)} = {}
          <=> DOMAIN InQuery(r) \subseteq P \cup props
    BY <1>1 DEF Known
  <2>2. UNION {QueryOf(r, k).problems : k \in Known(r)} = {} <=> \A k \in Known(r) : QueryOf(r, k).problems = {}
    OBVIOUS
  <2>3. Missing(Asked(r), Rest(Op(r)), <<>>, {}) = {} <=> Op(r).schema.required \ P \subseteq DOMAIN InQuery(r)
    BY <1>1, <1>3 DEF Missing
  <2>4. DOMAIN InQuery(r) \subseteq P \cup props => Known(r) = DOMAIN InQuery(r) \ P
    BY <1>1 DEF Known
  <2>5. QueryProblems(r) = {} <=>
          /\ DOMAIN InQuery(r) \subseteq P \cup props
          /\ \A k \in DOMAIN InQuery(r) \ P : QueryOf(r, k).problems = {}
          /\ Op(r).schema.required \ P \subseteq DOMAIN InQuery(r)
    BY <1>11, <2>1, <2>2, <2>3, <2>4 DEF QueryProblems
  <2> QED
    BY <1>2, <1>4, <1>5, <1>6, <1>7, <1>8, <1>9, <1>11, <2>5 DEF Problems, Fine
<1> QED
  BY <1>10, <1>11

LEMMA Nothing == DOMAIN <<>> = {} /\ \A f : <<>> = [k \in {} |-> f[k]]
OBVIOUS

-----------------------------------------------------------------------------
(* A request whose values are what the validator makes of them.            *)

Settled(op, path, query, body) ==
  LET P == op.param  props == op.schema.properties IN
  /\ path = [k \in P |-> path[k]]
  /\ \A k \in P : /\ IdConforms(path[k], props[k]) /\ SafeSegment(Text(path[k]))
                  /\ Is(path[k], {"string", "number"})
                  /\ CheckPathParam(k, path[k], props[k]) = Valid(path[k])
  /\ query = [k \in DOMAIN query |-> query[k]]
  /\ IF UsesBody(op)
     THEN /\ query = <<>>
          /\ Is(body, {"object"}) /\ Conforms(body, op.schema)
          /\ CheckWhole(body, op.schema, <<"body">>) = Valid(body)
     ELSE /\ DOMAIN query \subseteq DOMAIN props \ P /\ op.schema.required \ P \subseteq DOMAIN query
          /\ \A k \in DOMAIN query : /\ Conforms(query[k], props[k]) /\ query[k] # Null
                                     /\ CheckPrimitive(query[k], props[k], <<k>>) = Valid(query[k])
          /\ body = Null

LEMMA NotNull ==
  ASSUME NEW s, SchemaOK(s), NEW v, Shaped(v, s)
  PROVE  v # Null
<1>1. Null[1] = "null"
  BY DEF Null
<1>2. s.type \in {"integer", "string", "boolean", "array", "object"}
  BY DEF SchemaOK, Structures
<1>3. v[1] \in {"number", "string", "boolean", "array", "object"}
  BY <1>2 DEF Shaped, Is
<1> QED
  BY <1>1, <1>3

LEMMA ParamsOK ==
  ASSUME NEW op, OperationOK(op)
  PROVE  /\ \A k \in op.param : ParamOK(op.schema.properties[k], k)
         /\ \A k \in DOMAIN op.schema.properties :
              /\ SchemaOK(op.schema.properties[k]) /\ Keyed(op.schema.properties[k], k)
              /\ ~UsesBody(op) => op.schema.properties[k].type \notin Structures
         /\ op.param \subseteq DOMAIN op.schema.properties
         /\ UsesBody(op) <=> op.method # "GET"
<1>1. SchemaOK(op.schema) /\ op.schema.type = "object" /\ op.param \subseteq DOMAIN op.schema.properties
  BY DEF OperationOK, WholeOK
<1>2. ASSUME NEW k \in DOMAIN op.schema.properties
      PROVE  RowsOK(op.schema.properties[k]) /\ Keyed(op.schema.properties[k], k)
  <2>1. HasSchema(op.schema, k) /\ PartSchema(op.schema, k) = op.schema.properties[k]
    BY <1>1 DEF HasSchema, PartSchema
  <2>2. op.schema.properties[k] \in Insides(op.schema) /\ Keyed(op.schema.properties[k], k)
    BY <1>1, <2>1, PartOf
  <2> QED
    BY <2>2 DEF OperationOK, WholeOK
<1>3. \A k \in DOMAIN op.schema.properties : SchemaOK(op.schema.properties[k]) /\ Keyed(op.schema.properties[k], k)
  BY <1>2 DEF RowsOK
<1>4. UsesBody(op) <=> op.method # "GET"
  BY DEF UsesBody, OperationOK
<1>5. \A k \in op.param : ParamOK(op.schema.properties[k], k)
  BY <1>1, <1>3 DEF OperationOK, ParamOK
<1> QED
  BY <1>1, <1>3, <1>4, <1>5 DEF OperationOK

LEMMA BodyAccepted ==
  ASSUME NEW op, OperationOK(op), UsesBody(op), NEW v, CheckBody(op, v).problems = {},
         NEW c, c = CheckBody(op, v).value
  PROVE  /\ Is(c, {"object"}) /\ Conforms(c, op.schema)
         /\ CheckWhole(c, op.schema, <<"body">>) = Valid(c)
<1>1. op.method # "GET" /\ op.schema.required # {} /\ op.param = {} /\ WholeOK(op.schema) /\ op.schema.type = "object"
  BY DEF UsesBody, OperationOK
<1>2. Rest(op) = op.schema
  BY <1>1, RestIs
<1>3. v # Null
  <2> SUFFICES ASSUME v = Null PROVE FALSE
    OBVIOUS
  <2>1. Missing(<<>>, op.schema, <<"body">>, {}) = {}
    BY <1>2 DEF CheckBody
  <2>2. DOMAIN <<>> = {}
    BY Nothing
  <2>3. PICK k \in op.schema.required : TRUE
    BY <1>1
  <2>4. Problem("missing", Append(<<"body">>, k)) \in Missing(<<>>, op.schema, <<"body">>, {})
    BY <2>2, <2>3 DEF Missing
  <2> QED
    BY <2>1, <2>4
<1>4. CheckBody(op, v) = CheckWhole(v, op.schema, <<"body">>)
  BY <1>2, <1>3 DEF CheckBody
<1>5. Conforms(c, op.schema) /\ CheckWhole(c, op.schema, <<"body">>) = Valid(c)
  BY <1>1, <1>4, WholeAccepted
<1>6. Is(c, {"object"})
  BY <1>1, <1>5 DEF Conforms, Shaped
<1> QED
  BY <1>5, <1>6

LEMMA AcceptedIsSettled ==
  ASSUME NEW r, OperationOK(Op(r)), NEW a, a = Validate(r), a.problems = {}
  PROVE  Settled(Op(r), a.path, a.query, a.body)
<1> DEFINE op == Op(r)  P == op.param  props == op.schema.properties
<1>1. Problems(r) = {} /\ Fine(r)
  BY ValidateIs, FineOrNot
<1>2. /\ a.path = [k \in DOMAIN Raw(r) |-> ParamOf(r, k).value]
      /\ a.query = IF UsesBody(op) THEN <<>> ELSE [k \in Known(r) |-> QueryOf(r, k).value]
      /\ a.body = CheckBody(op, r.body).value
  BY <1>1, ValidateIs
<1>3. DOMAIN Raw(r) = P
  BY <1>1 DEF Raw, Fine
<1>4. a.path = [k \in P |-> a.path[k]] /\ \A k \in P : a.path[k] = ParamOf(r, k).value
  BY <1>2, <1>3
<1>5. ASSUME NEW k \in P
      PROVE  /\ IdConforms(a.path[k], props[k]) /\ SafeSegment(Text(a.path[k]))
             /\ Is(a.path[k], {"string", "number"})
             /\ CheckPathParam(k, a.path[k], props[k]) = Valid(a.path[k])
  <2>1. ParamOK(props[k], k)
    BY ParamsOK
  <2>2. CheckPathParam(k, Raw(r)[k], props[k]).problems = {} /\ a.path[k] = CheckPathParam(k, Raw(r)[k], props[k]).value
    BY <1>1, <1>4 DEF Fine, ParamOf, Property
  <2> QED
    BY <2>1, <2>2, ParamAccepted
<1>6. CASE UsesBody(op)
  <2>1. a.query = <<>> /\ a.query = [k \in DOMAIN a.query |-> a.query[k]]
    BY <1>2, <1>6, Nothing
  <2>2. CheckBody(op, r.body).problems = {}
    BY <1>1 DEF Fine
  <2>3. /\ Is(a.body, {"object"}) /\ Conforms(a.body, op.schema)
        /\ CheckWhole(a.body, op.schema, <<"body">>) = Valid(a.body)
    BY <1>2, <1>6, <2>2, BodyAccepted
  <2> QED
    BY <1>4, <1>5, <1>6, <2>1, <2>3 DEF Settled
<1>7. CASE ~UsesBody(op)
  <2>1. DOMAIN Asked(r) = DOMAIN InQuery(r) \ P
    BY DEF Asked, Only
  <2>2. Known(r) = DOMAIN InQuery(r) \ P /\ op.schema.required \ P \subseteq Known(r) /\ Known(r) \subseteq DOMAIN props \ P
    BY <1>1, <1>7, <2>1 DEF Fine, Known
  <2>3. a.query = [k \in Known(r) |-> QueryOf(r, k).value]
    BY <1>2, <1>7
  <2>4. DOMAIN a.query = Known(r) /\ a.query = [k \in DOMAIN a.query |-> a.query[k]]
    BY <2>3
  <2>5. ASSUME NEW k \in Known(r)
        PROVE  /\ Conforms(a.query[k], props[k]) /\ a.query[k] # Null
               /\ CheckPrimitive(a.query[k], props[k], <<k>>) = Valid(a.query[k])
    <3>1. a.query[k] = CheckPrimitive(Asked(r)[k], props[k], <<k>>).value
      BY <2>3 DEF QueryOf, Property
    <3>2. CheckPrimitive(Asked(r)[k], props[k], <<k>>).problems = {}
      BY <1>1, <1>7, <2>2 DEF Fine, QueryOf, Property
    <3>3. SchemaOK(props[k])
      BY <2>2, ParamsOK
    <3>4. /\ props[k].type \notin Structures /\ Shaped(a.query[k], props[k])
          /\ CheckPrimitive(a.query[k], props[k], <<k>>) = Valid(a.query[k])
      BY <3>1, <3>2, <3>3, PrimitiveAccepted
    <3>5. a.query[k] # Null
      BY <3>3, <3>4, NotNull
    <3> QED
      BY <3>4, <3>5, Unstructured
  <2>6. a.body = Null
    BY <1>2, <1>7 DEF CheckBody
  <2> QED
    BY <1>4, <1>5, <1>7, <2>2, <2>4, <2>5, <2>6 DEF Settled
<1> QED
  BY <1>6, <1>7

LEMMA SettledIsDocumented ==
  ASSUME NEW op, OperationOK(op), NEW path, NEW query, NEW body, Settled(op, path, query, body)
  PROVE  AsDocumented(op, path, query, body) /\ PathRefused(op, path) = {}
<1> DEFINE P == op.param  props == op.schema.properties
           bag(p) == IF p.in = "path" THEN path ELSE query
<1>1. P \subseteq DOMAIN props /\ (UsesBody(op) <=> op.method # "GET") /\ (UsesBody(op) => P = {})
  BY ParamsOK DEF OperationOK
<1>2. DOMAIN path = P
  BY DEF Settled
<1>3. UsesBody(op) => DOMAIN query = {}
  BY Nothing DEF Settled
<1>4. PathRefused(op, path) = {}
  BY <1>2 DEF PathRefused, Settled
<1>5. ASSUME NEW p \in Parameters(op)
      PROVE  /\ p.required => p.name \in DOMAIN bag(p)
             /\ \A v \in Field(bag(p), p.name) :
                  \/ Conforms(v, p.schema)
                  \/ p.in = "path" /\ p.schema.type = "integer" /\ Is(v, {"string"}) /\ IntegerSegment(v[2])
  <2>1. PICK k \in DOMAIN props :
          /\ p = [name |-> k, in |-> IF k \in P THEN "path" ELSE "query",
                  required |-> k \in P \cup op.schema.required, schema |-> props[k]]
          /\ op.method = "GET" \/ k \in P
    BY DEF Parameters
  <2>2. ~UsesBody(op)
    BY <1>1, <2>1
  <2>3. /\ p.name = k /\ p.schema = props[k]
        /\ p.in = "path" <=> k \in P
        /\ p.required <=> (k \in P \cup op.schema.required)
    BY <2>1
  <2>4. CASE k \in P
    <3>1. bag(p) = path
      BY <2>3, <2>4
    <3>2. IdConforms(path[k], props[k])
      BY <2>4 DEF Settled
    <3> QED
      BY <1>2, <2>3, <2>4, <3>1, <3>2 DEF Field, IdConforms
  <2>5. CASE k \notin P
    <3>1. bag(p) = query
      BY <2>3, <2>5
    <3>2. /\ op.schema.required \ P \subseteq DOMAIN query
          /\ \A x \in DOMAIN query : Conforms(query[x], props[x])
      BY <2>2 DEF Settled
    <3> QED
      BY <2>3, <2>5, <3>1, <3>2 DEF Field
  <2> QED
    BY <2>4, <2>5
<1>6. DOMAIN path \subseteq {p.name : p \in {q \in Parameters(op) : q.in = "path"}}
  <2> SUFFICES ASSUME NEW k \in P
               PROVE  \E p \in Parameters(op) : p.in = "path" /\ p.name = k
    BY <1>2
  <2> DEFINE p == [name |-> k, in |-> IF k \in P THEN "path" ELSE "query",
                   required |-> k \in P \cup op.schema.required, schema |-> props[k]]
  <2>1. p \in Parameters(op)
    BY <1>1 DEF Parameters
  <2>2. p.in = "path" /\ p.name = k
    OBVIOUS
  <2> HIDE DEF p
  <2> QED
    BY <2>1, <2>2
<1>7. DOMAIN query \subseteq {p.name : p \in {q \in Parameters(op) : q.in = "query"}}
  <2> SUFFICES ASSUME NEW k \in DOMAIN query
               PROVE  \E p \in Parameters(op) : p.in = "query" /\ p.name = k
    OBVIOUS
  <2>0. ~UsesBody(op) /\ op.method = "GET" /\ k \in DOMAIN props \ P
    BY <1>1, <1>3 DEF Settled
  <2> DEFINE p == [name |-> k, in |-> IF k \in P THEN "path" ELSE "query",
                   required |-> k \in P \cup op.schema.required, schema |-> props[k]]
  <2>1. p \in Parameters(op)
    BY <2>0 DEF Parameters
  <2>2. p.in = "query" /\ p.name = k
    BY <2>0
  <2> HIDE DEF p
  <2> QED
    BY <2>1, <2>2
<1>8. IF BodySchema(op) = {} THEN body = Null ELSE \A s \in BodySchema(op) : Conforms(body, s)
  BY <1>1 DEF BodySchema, Settled
<1> QED
  BY <1>4, <1>5, <1>6, <1>7, <1>8 DEF AsDocumented

LEMMA OfType ==
  ASSUME NEW T, "null" \notin T
  PROVE  \A v : Is(v, T) => v # Null
<1>1. Null[1] = "null"
  BY DEF Null
<1> QED
  BY <1>1 DEF Is

LEMMA EntriesOf ==
  ASSUME NEW f, f = [k \in DOMAIN f |-> f[k]], \A k \in DOMAIN f : f[k] # Null
  PROVE  Entries(Obj(f)) = f
<1>1. Is(Obj(f), {"object"}) /\ Obj(f)[2] = f
  BY ValuesAre DEF Is
<1>2. {x \in DOMAIN f : f[x] # Null} = DOMAIN f
  OBVIOUS
<1> QED
  BY <1>1, <1>2 DEF Entries

\* What is settled is settled for good.
LEMMA SettledStays ==
  ASSUME NEW o \in DOMAIN Operations, OperationOK(Operations[o]), NEW path, NEW query, NEW body,
         Settled(Operations[o], path, query, body)
  PROVE  Validate([op |-> o, path |-> Obj(path), query |-> Obj(query), body |-> body]) =
           [problems |-> {}, path |-> path, query |-> query, body |-> body]
<1> DEFINE op == Operations[o]  P == op.param  props == op.schema.properties
           r == [op |-> o, path |-> Obj(path), query |-> Obj(query), body |-> body]
<1>1. Op(r) = op /\ r.path = Obj(path) /\ r.query = Obj(query) /\ r.body = body
  BY DEF Op
<1>2. path = [k \in P |-> path[k]] /\ DOMAIN path = P /\ query = [k \in DOMAIN query |-> query[k]]
  BY DEF Settled
<1>3. ASSUME NEW k \in P PROVE path[k] # Null
  <2>1. Is(path[k], {"string", "number"})
    BY <1>3 DEF Settled
  <2> QED
    BY <2>1, OfType
<1>4. UsesBody(op) => query = <<>> /\ DOMAIN query = {} /\ P = {} /\ op.method # "GET"
  BY Nothing DEF Settled, OperationOK, UsesBody
<1>5. DOMAIN query \cap P = {}
  BY <1>4 DEF Settled
<1>6. \A k \in DOMAIN query : query[k] # Null
  BY <1>4 DEF Settled
<1>7. InPath(r) = path /\ InQuery(r) = query
  BY <1>1, <1>2, <1>3, <1>6, EntriesOf DEF InPath, InQuery
<1> HIDE DEF r
<1>8. Differ(r) = {}
  BY <1>1, <1>5, <1>7 DEF Differ
<1>9. DOMAIN Raw(r) = P /\ \A k \in P : Raw(r)[k] = path[k]
  <2>1. P \cap (DOMAIN path \cup DOMAIN query) = P
    BY <1>2
  <2>2. Raw(r) = [k \in P |-> IF k \in Differ(r) \/ k \notin DOMAIN query THEN path[k] ELSE query[k]]
    BY <1>1, <1>7, <2>1 DEF Raw
  <2> QED
    BY <1>5, <2>2
<1>10. \A k \in P : ParamOf(r, k) = Valid(path[k])
  BY <1>1, <1>9 DEF ParamOf, Property, Settled
<1>11. Asked(r) = query /\ DOMAIN Asked(r) = DOMAIN query
  <2>1. DOMAIN query \cap (DOMAIN query \ P) = DOMAIN query
    BY <1>5
  <2> QED
    BY <1>1, <1>2, <1>7, <2>1 DEF Asked, Only
<1>12. ~UsesBody(op) => /\ DOMAIN query \subseteq DOMAIN props /\ Known(r) = DOMAIN query
                        /\ \A k \in DOMAIN query : QueryOf(r, k) = Valid(query[k])
  BY <1>1, <1>11 DEF Known, QueryOf, Property, Settled
<1>13. CheckBody(op, body) = Valid(body)
  <2>1. CASE UsesBody(op)
    <3>1. Rest(op) = op.schema
      BY <1>4, <2>1, RestIs
    <3>2. body # Null
      <4>1. Is(body, {"object"})
        BY <2>1 DEF Settled
      <4> QED
        BY <4>1, OfType
    <3> QED
      BY <2>1, <3>1, <3>2 DEF CheckBody, Settled
  <2>2. CASE ~UsesBody(op)
    <3>1. body = Null
      BY <2>2 DEF Settled
    <3> QED
      BY <2>2, <3>1 DEF CheckBody, Valid
  <2> QED
    BY <2>1, <2>2
<1>14. Fine(r)
  <2>1. Is(r.path, {"object", "null"}) /\ Is(r.query, {"object", "null"})
    BY <1>1, ValuesAre DEF Is
  <2>2. CheckBody(Op(r), r.body).problems = {}
    BY <1>1, <1>13, Findings
  <2>3. \A k \in P : ParamOf(r, k).problems = {}
    BY <1>10, Findings
  <2>4. CASE UsesBody(op)
    BY <1>1, <1>2, <1>4, <1>7, <1>8, <2>1, <2>2, <2>3, <2>4 DEF Fine
  <2>5. CASE ~UsesBody(op)
    <3>1. DOMAIN query \subseteq P \cup DOMAIN props /\ op.schema.required \ P \subseteq DOMAIN query
          /\ \A k \in DOMAIN query \ P : QueryOf(r, k).problems = {}
      <4>1. op.schema.required \ P \subseteq DOMAIN query
        BY <2>5 DEF Settled
      <4>2. \A k \in DOMAIN query : QueryOf(r, k).problems = {}
        BY <1>12, <2>5, Findings
      <4> QED
        BY <1>12, <2>5, <4>1, <4>2
    <3>2. DOMAIN InPath(r) = P /\ DOMAIN InQuery(r) = DOMAIN query /\ Op(r).param = P
          /\ Op(r).schema = op.schema /\ ~UsesBody(Op(r))
      BY <1>1, <1>2, <1>7, <2>5
    <3> HIDE DEF P, op, props
    <3> QED
      BY <1>8, <2>1, <2>2, <2>3, <3>1, <3>2 DEF Fine, props
  <2> QED
    BY <2>4, <2>5
<1>15. Problems(r) = {}
  BY <1>1, <1>14, FineOrNot
<1>16. [k \in DOMAIN Raw(r) |-> ParamOf(r, k).value] = path
  <2>1. \A k \in P : ParamOf(r, k).value = path[k]
    BY <1>10, Findings
  <2>2. [k \in DOMAIN Raw(r) |-> ParamOf(r, k).value] = [k \in P |-> path[k]]
    BY <1>9, <2>1
  <2> QED
    BY <1>2, <2>2
<1>17. (IF UsesBody(Op(r)) THEN <<>> ELSE [k \in Known(r) |-> QueryOf(r, k).value]) = query
  <2>1. CASE UsesBody(op)
    BY <1>1, <1>4, <2>1
  <2>2. CASE ~UsesBody(op)
    <3>1. \A k \in DOMAIN query : QueryOf(r, k).value = query[k]
      BY <1>12, <2>2, Findings
    <3>2. [k \in Known(r) |-> QueryOf(r, k).value] = [k \in DOMAIN query |-> query[k]]
      BY <1>12, <2>2, <3>1
    <3> QED
      BY <1>1, <1>2, <2>2, <3>2
  <2> QED
    BY <2>1, <2>2
<1>18. CheckBody(Op(r), r.body).value = body
  BY <1>1, <1>13, Findings
<1> QED
  BY <1>15, <1>16, <1>17, <1>18, ValidateIs DEF r

-----------------------------------------------------------------------------
(* A request as the document has it.                                       *)

RequestOK(r) ==
  /\ r.op \in DOMAIN Operations
  /\ RowsJson(r.path) /\ RowsJson(r.query) /\ Json(r.body)

LEMMA DocumentedIsFine ==
  ASSUME NEW r, RequestOK(r), OperationOK(Op(r)), NEW tool, ToolFor(Op(r), tool), Ordinary(r),
         AsDocumented(Op(r), r.path[2], r.query[2], r.body)
  PROVE  /\ ~Refuses(tool, r) /\ Validate(r).problems = {}
         /\ Texts(Validate(r).path) = Texts(r.path[2])
         /\ Validate(r).query = r.query[2] /\ Validate(r).body = r.body
<1> DEFINE op == Op(r)  P == op.param  props == op.schema.properties  path == r.path[2]  query == r.query[2]
           p(k) == [name |-> k, in |-> IF k \in P THEN "path" ELSE "query",
                    required |-> k \in P \cup op.schema.required, schema |-> props[k]]
<1>1. P \subseteq DOMAIN props /\ (UsesBody(op) <=> op.method # "GET") /\ (UsesBody(op) => P = {})
  BY ParamsOK DEF OperationOK
<1>2. Is(r.path, {"object"}) /\ Is(r.query, {"object"})
  BY DEF Ordinary
<1>3. /\ r.path = Obj(path) /\ r.query = Obj(query)
      /\ path = [k \in DOMAIN path |-> path[k]] /\ query = [k \in DOMAIN query |-> query[k]]
      /\ \A k \in DOMAIN path : ValueOK(path[k]) /\ Short(path[k])
      /\ \A k \in DOMAIN query : ValueOK(query[k]) /\ Short(query[k])
  <2>1. ValueOK(r.path) /\ ValueOK(r.query)
    BY DEF RequestOK, RowsJson
  <2>2. /\ r.path = <<r.path[1], path>> /\ path = [k \in DOMAIN path |-> path[k]]
        /\ r.query = <<r.query[1], query>> /\ query = [k \in DOMAIN query |-> query[k]]
    BY <1>2, <2>1 DEF ValueOK, Is, Structures, Null, Fraction
  <2>3. r.path = Obj(path) /\ r.query = Obj(query)
    BY <1>2, <2>2 DEF Obj, Is
  <2>4. /\ \A k \in DOMAIN path : RowJson(path[k])
        /\ \A k \in DOMAIN query : RowJson(query[k])
    BY <1>2 DEF RequestOK, RowsJson, Is, Structures
  <2>5. /\ \A k \in DOMAIN path : Short(path[k])
        /\ \A k \in DOMAIN query : Short(query[k])
    BY DEF Ordinary
  <2> QED
    BY <2>2, <2>3, <2>4, <2>5 DEF RowJson
<1>4. \A k : p(k).name = k /\ p(k).schema = props[k] /\ (p(k).in = "path" <=> k \in P)
             /\ (p(k).in = "query" <=> k \notin P)
             /\ (p(k).required <=> (k \in P \cup op.schema.required))
  OBVIOUS
<1>5. Parameters(op) = {p(k) : k \in IF op.method = "GET" THEN DOMAIN props ELSE {}}
  <2>1. (IF op.method = "GET" THEN DOMAIN props ELSE P \cap DOMAIN props)
          = (IF op.method = "GET" THEN DOMAIN props ELSE {})
    BY <1>1
  <2> QED
    BY <2>1 DEF Parameters
<1> HIDE DEF p
<1>6. DOMAIN path \subseteq P /\ DOMAIN query \subseteq DOMAIN props \ P /\ (UsesBody(op) => DOMAIN query = {})
  <2>1. ASSUME NEW k \in DOMAIN path PROVE k \in P
    <3>1. PICK q \in Parameters(op) : q.in = "path" /\ q.name = k
      BY DEF AsDocumented
    <3> QED
      BY <1>4, <1>5, <3>1
  <2>2. ASSUME NEW k \in DOMAIN query PROVE k \in DOMAIN props \ P /\ op.method = "GET"
    <3>1. PICK q \in Parameters(op) : q.in = "query" /\ q.name = k
      BY DEF AsDocumented
    <3> QED
      BY <1>4, <1>5, <3>1
  <2> QED
    BY <1>1, <2>1, <2>2
<1>7. /\ \A k \in P : k \in DOMAIN path /\ IdConforms(path[k], props[k])
      /\ ~UsesBody(op) => op.schema.required \ P \subseteq DOMAIN query
      /\ \A k \in DOMAIN query : Conforms(query[k], props[k])
  <2>1. ASSUME NEW q \in Parameters(op), NEW bag, bag = IF q.in = "path" THEN path ELSE query
        PROVE  /\ q.required => q.name \in DOMAIN bag
               /\ \A v \in Field(bag, q.name) :
                    \/ Conforms(v, q.schema)
                    \/ q.in = "path" /\ q.schema.type = "integer" /\ Is(v, {"string"}) /\ IntegerSegment(v[2])
    BY <2>1 DEF AsDocumented
  <2>2. ASSUME NEW k \in P PROVE k \in DOMAIN path /\ IdConforms(path[k], props[k])
    <3>1. p(k) \in Parameters(op)
      BY <1>1, <1>5
    <3>2. k \in DOMAIN path
      BY <1>4, <2>1, <3>1
    <3>3. path[k] \in Field(path, k)
      BY <3>2 DEF Field
    <3> QED
      BY <1>4, <2>1, <3>1, <3>2, <3>3 DEF IdConforms
  <2>3. ASSUME NEW k \in DOMAIN props \ P, ~UsesBody(op)
        PROVE  (k \in op.schema.required => k \in DOMAIN query) /\ (k \in DOMAIN query => Conforms(query[k], props[k]))
    <3>1. p(k) \in Parameters(op)
      BY <1>1, <1>5, <2>3
    <3>2. k \in op.schema.required => k \in DOMAIN query
      BY <1>4, <2>1, <3>1
    <3>3. k \in DOMAIN query => query[k] \in Field(query, k)
      BY DEF Field
    <3> QED
      BY <1>4, <2>1, <3>1, <3>2, <3>3
  <2>4. op.schema.required \subseteq DOMAIN props
    BY DEF OperationOK, WholeOK, SchemaOK
  <2> QED
    BY <1>6, <2>2, <2>3, <2>4
<1>8. \A k \in P : /\ CheckPathParam(k, path[k], props[k]).problems = {}
                   /\ Text(CheckPathParam(k, path[k], props[k]).value) = Text(path[k])
                   /\ Is(path[k], {"string", "number"})
  <2>1. ASSUME NEW k \in P PROVE IF Is(path[k], {"number"}) THEN path[k][2] >= 0 ELSE SafeSegment(Text(path[k]))
    BY <1>7 DEF Ordinary
  <2> QED
    BY <1>3, <1>7, <2>1, ParamDocumented, ParamsOK
<1>9. ~UsesBody(op) => \A k \in DOMAIN query : /\ CheckPrimitive(query[k], props[k], <<k>>) = Valid(query[k])
                                              /\ Is(query[k], {"string", "number", "boolean"})
  <2>1. SUFFICES ASSUME ~UsesBody(op), NEW k \in DOMAIN query
                 PROVE  /\ CheckPrimitive(query[k], props[k], <<k>>) = Valid(query[k])
                        /\ Is(query[k], {"string", "number", "boolean"})
    OBVIOUS
  <2>2. SchemaOK(props[k]) /\ Keyed(props[k], k) /\ props[k].type \notin Structures
    BY <1>6, <2>1, ParamsOK
  <2>3. Shaped(query[k], props[k]) /\ ValueOK(query[k]) /\ Short(query[k])
    BY <1>3, <1>7, <2>2, Unstructured
  <2>4. <<k>>[Len(<<k>>)] = k
    OBVIOUS
  <2>5. CheckPrimitive(query[k], props[k], <<k>>) = Valid(query[k])
    BY <2>2, <2>3, <2>4, PrimitiveDocumented
  <2>6. props[k].type \in {"integer", "string", "boolean"}
    BY <2>2 DEF SchemaOK
  <2>7. Is(query[k], {"string", "number", "boolean"})
    BY <2>3, <2>6 DEF Shaped, Is
  <2> QED
    BY <2>5, <2>7
<1>10. CheckBody(op, r.body) = Valid(r.body)
  <2>1. CASE UsesBody(op)
    <3>1. Rest(op) = op.schema /\ WholeOK(op.schema) /\ op.schema.type = "object"
      BY <1>1, <2>1, RestIs DEF OperationOK
    <3>2. Conforms(r.body, op.schema)
      <4>1. BodySchema(op) = {op.schema}
        BY <1>1, <2>1 DEF BodySchema
      <4> QED
        BY <4>1 DEF AsDocumented
    <3>3. r.body # Null
      BY <3>1, <3>2, NotNull DEF Conforms, WholeOK
    <3>4. BodyShort(r.body, op.schema) /\ Json(r.body)
      BY <3>1 DEF Ordinary, RequestOK, Op
    <3>5. IsPlace(<<"body">>) /\ Keyed(op.schema, <<"body">>[Len(<<"body">>)])
      BY <3>1, Places DEF Keyed
    <3>6. CheckWhole(r.body, op.schema, <<"body">>) = Valid(r.body)
      BY <3>1, <3>2, <3>4, <3>5, WholeDocumented
    <3> QED
      BY <2>1, <3>1, <3>3, <3>6 DEF CheckBody
  <2>2. CASE ~UsesBody(op)
    <3>1. r.body = Null
      BY <1>1, <2>2 DEF AsDocumented, BodySchema
    <3> QED
      BY <2>2, <3>1 DEF CheckBody, Valid
  <2> QED
    BY <2>1, <2>2
<1>11. InPath(r) = path /\ InQuery(r) = query
  <2>1. \A k \in DOMAIN path : path[k] # Null
    BY <1>6, <1>8, OfType
  <2>2. \A k \in DOMAIN query : query[k] # Null
    BY <1>6, <1>9, OfType
  <2> HIDE DEF path, query
  <2> QED
    BY <1>3, <2>1, <2>2, EntriesOf DEF InPath, InQuery
<1>12. DOMAIN path = P
  BY <1>6, <1>7
<1>13. Differ(r) = {}
  BY <1>6, <1>11 DEF Differ
<1>14. DOMAIN Raw(r) = P /\ \A k \in P : Raw(r)[k] = path[k]
  <2>1. P \cap (DOMAIN path \cup DOMAIN query) = P
    BY <1>12
  <2>2. Raw(r) = [k \in P |-> IF k \in Differ(r) \/ k \notin DOMAIN query THEN path[k] ELSE query[k]]
    BY <1>11, <2>1 DEF Raw
  <2> QED
    BY <1>6, <2>2
<1>15. \A k \in P : /\ ParamOf(r, k).problems = {} /\ Text(ParamOf(r, k).value) = Text(path[k])
  BY <1>8, <1>14 DEF ParamOf, Property
<1>16. Asked(r) = query /\ DOMAIN Asked(r) = DOMAIN query
  <2>1. DOMAIN query \cap (DOMAIN query \ P) = DOMAIN query
    BY <1>6
  <2> QED
    BY <1>3, <1>11, <2>1 DEF Asked, Only
<1>17. ~UsesBody(op) => /\ Known(r) = DOMAIN query
                        /\ \A k \in DOMAIN query : QueryOf(r, k) = Valid(query[k])
  BY <1>6, <1>9, <1>16 DEF Known, QueryOf, Property
<1>18. Problems(r) = {}
  <2>1. Is(r.path, {"object", "null"}) /\ Is(r.query, {"object", "null"})
    BY <1>2 DEF Is
  <2>2. CheckBody(op, r.body).problems = {}
    BY <1>10, Findings
  <2>3. IF UsesBody(op) THEN DOMAIN query \subseteq P
        ELSE /\ DOMAIN query \subseteq P \cup DOMAIN props
             /\ \A k \in DOMAIN query \ P : QueryOf(r, k).problems = {}
             /\ op.schema.required \ P \subseteq DOMAIN query
    BY <1>6, <1>7, <1>17, Findings
  <2>4. Fine(r)
    BY <1>11, <1>12, <1>13, <1>15, <2>1, <2>2, <2>3 DEF Fine
  <2> QED
    BY <2>4, FineOrNot
<1>19. Validate(r).problems = {} /\ Validate(r).body = r.body
  BY <1>10, <1>18, ValidateIs, Findings
<1>20. Validate(r).query = query
  <2>1. Validate(r).query = IF UsesBody(op) THEN <<>> ELSE [k \in Known(r) |-> QueryOf(r, k).value]
    BY <1>18, ValidateIs
  <2>2. CASE UsesBody(op)
    <3>1. query = <<>>
      BY <1>3, <1>6, <2>2, Nothing
    <3> QED
      BY <2>1, <2>2, <3>1
  <2>3. CASE ~UsesBody(op)
    <3>1. \A k \in DOMAIN query : QueryOf(r, k).value = query[k]
      BY <1>17, <2>3, Findings
    <3>2. [k \in Known(r) |-> QueryOf(r, k).value] = [k \in DOMAIN query |-> query[k]]
      BY <1>17, <2>3, <3>1
    <3> QED
      BY <1>3, <2>1, <2>3, <3>2
  <2> QED
    BY <2>2, <2>3
<1>21. Texts(Validate(r).path) = Texts(path)
  <2>1. Validate(r).path = [k \in P |-> ParamOf(r, k).value]
    BY <1>14, <1>18, ValidateIs
  <2>2. DOMAIN Validate(r).path = P /\ \A k \in P : Text(Validate(r).path[k]) = Text(path[k])
    BY <1>15, <2>1
  <2> HIDE DEF path
  <2> QED
    BY <1>12, <2>2 DEF Texts
<1>22. ~Refuses(tool, r)
  <2>1. \A k \in DOMAIN path : Is(path[k], {"string", "number", "fraction"})
    BY <1>8, <1>12 DEF Is
  <2>2. \A k \in DOMAIN query : Is(query[k], {"string", "number", "fraction"} \cup {"boolean"})
    BY <1>6, <1>9 DEF Is
  <2> QED
    BY <1>2, <2>1, <2>2 DEF Refuses, Takes, Op
<1> QED
  BY <1>19, <1>20, <1>21, <1>22

-----------------------------------------------------------------------------
(* What is sent is JSON, whatever the tools make of it.                    *)

LEMMA JsonObject ==
  ASSUME NEW f, f = [k \in DOMAIN f |-> f[k]]
  PROVE  /\ ValueOK(Obj(f))
         /\ (\A k \in DOMAIN f : ValueOK(f[k])) => RowJson(Obj(f))
         /\ (\A k \in DOMAIN f : RowJson(f[k])) => RowsJson(Obj(f))
         /\ (\A k \in DOMAIN f : RowsJson(f[k])) => Json(Obj(f))
<1>1. Obj(f)[1] = "object" /\ Obj(f)[2] = f /\ Obj(f) = <<"object", f>>
  BY DEF Obj
<1>2. Is(Obj(f), Structures) /\ Obj(f) = <<Obj(f)[1], Obj(f)[2]>>
  BY <1>1 DEF Is, Structures
<1>3. ValueOK(Obj(f))
  BY <1>1, <1>2 DEF ValueOK
<1> QED
  BY <1>1, <1>3 DEF RowJson, RowsJson, Json

LEMMA JsonPlain ==
  ASSUME NEW v, ValueOK(v), ~Is(v, Structures) \/ v[2] = <<>>
  PROVE  RowJson(v) /\ RowsJson(v) /\ Json(v)
BY Nothing DEF RowJson, RowsJson, Json

LEMMA JsonDepth == \A v : RowsJson(v) => RowJson(v)
BY DEF RowJson, RowsJson

LEMMA JsonLeast == Json(Null) /\ Json(Obj(<<>>)) /\ Json(Num(7)) /\ Json(Arr(<<>>)) /\ ValueOK(Arr(<<>>))
<1>1. ValueOK(Null) /\ ~Is(Null, Structures)
  BY DEF ValueOK, Null, Is, Structures
<1>2. ValueOK(Num(7)) /\ ~Is(Num(7), Structures)
  <2>1. Is(Num(7), {"number"}) /\ Num(7)[2] = 7
    BY ValuesAre DEF Is
  <2> QED
    BY <2>1 DEF ValueOK, Num, Is, Structures
<1>3. <<>> = [k \in DOMAIN <<>> |-> <<>>[k]]
  BY Nothing
<1>4. ValueOK(Obj(<<>>)) /\ Obj(<<>>)[2] = <<>>
  BY <1>3, JsonObject, ValuesAre
<1>5. ValueOK(Arr(<<>>)) /\ Arr(<<>>)[2] = <<>>
  <2>1. Arr(<<>>)[1] = "array" /\ Arr(<<>>)[2] = <<>> /\ Arr(<<>>) = <<"array", <<>>>>
    BY DEF Arr
  <2>2. Is(Arr(<<>>), Structures) /\ Arr(<<>>) = <<Arr(<<>>)[1], Arr(<<>>)[2]>>
    BY <2>1 DEF Is, Structures
  <2> QED
    BY <1>3, <2>1, <2>2 DEF ValueOK
<1> QED
  BY <1>1, <1>2, <1>4, <1>5, JsonPlain

LEMMA SampleFieldJson ==
  ASSUME NEW s
  PROVE  ValueOK(SampleField(s)) /\ RowJson(SampleField(s)) /\ RowsJson(SampleField(s)) /\ Json(SampleField(s))
<1> DEFINE w == IF s.enum = {} THEN "id" ELSE CHOOSE x \in s.enum : TRUE
<1>1. SampleField(s) \in {Num(1), Str(Word(w)), Bool(TRUE), Arr(<<>>), Obj(<<>>)}
  BY DEF SampleField
<1>2. ValueOK(Num(1)) /\ ~Is(Num(1), Structures)
  <2>1. Is(Num(1), {"number"}) /\ Num(1)[2] = 1
    BY ValuesAre DEF Is
  <2> QED
    BY <2>1 DEF ValueOK, Num, Is, Structures
<1> HIDE DEF w
<1>3. ValueOK(Str(Word(w))) /\ ~Is(Str(Word(w)), Structures)
  <2>1. Str(Word(w))[1] = "string" /\ Str(Word(w))[2] = Word(w)
    BY ValuesAre
  <2>2. TextOK(Word(w))
    BY DEF TextOK, Word, Is
  <2> QED
    BY <2>1, <2>2 DEF ValueOK, Is, Structures
<1>4. ValueOK(Bool(TRUE)) /\ ~Is(Bool(TRUE), Structures)
  <2>1. Bool(TRUE)[1] = "boolean" /\ Bool(TRUE)[2] = TRUE
    BY ValuesAre
  <2> QED
    BY <2>1 DEF ValueOK, Is, Structures
<1>5. Arr(<<>>)[2] = <<>> /\ Obj(<<>>)[2] = <<>> /\ ValueOK(Obj(<<>>)) /\ ValueOK(Arr(<<>>))
  BY ValuesAre, JsonLeast DEF Json
<1> QED
  BY <1>1, <1>2, <1>3, <1>4, <1>5, JsonPlain

LEMMA SampleJson ==
  ASSUME NEW s
  PROVE  RowJson(SampleRow(s)) /\ RowsJson(SampleRows(s)) /\ Json(Sample(s))
<1>1. \A t : RowJson(SampleRow(t))
  <2> TAKE t
  <2> DEFINE f == [k \in t.required |-> SampleField(t.properties[k])]
  <2>1. \A k \in DOMAIN f : ValueOK(f[k])
    BY SampleFieldJson
  <2>2. f = [k \in DOMAIN f |-> f[k]]
    OBVIOUS
  <2> HIDE DEF f
  <2>3. RowJson(Obj(f))
    BY <2>1, <2>2, JsonObject
  <2>4. SampleRow(t) \in {SampleField(t), Obj(f)}
    BY DEF SampleRow, SampleOf, f
  <2> QED
    BY <2>3, <2>4, SampleFieldJson
<1>2. \A t : RowsJson(SampleRows(t))
  <2> TAKE t
  <2> DEFINE f == [k \in t.required |-> SampleRow(t.properties[k])]
  <2>1. \A k \in DOMAIN f : RowJson(f[k])
    BY <1>1
  <2>2. f = [k \in DOMAIN f |-> f[k]]
    OBVIOUS
  <2> HIDE DEF f
  <2>3. RowsJson(Obj(f))
    BY <2>1, <2>2, JsonObject
  <2>4. SampleRows(t) \in {SampleField(t), Obj(f)}
    BY DEF SampleRows, SampleOf, f
  <2> QED
    BY <2>3, <2>4, SampleFieldJson
<1>3. Json(Sample(s))
  <2> DEFINE f == [k \in s.required |-> SampleRows(s.properties[k])]
  <2>1. \A k \in DOMAIN f : RowsJson(f[k])
    BY <1>2
  <2>2. f = [k \in DOMAIN f |-> f[k]]
    OBVIOUS
  <2> HIDE DEF f
  <2>3. Json(Obj(f))
    BY <2>1, <2>2, JsonObject
  <2>4. Sample(s) \in {SampleField(s), Obj(f)}
    BY DEF Sample, SampleOf, f
  <2> QED
    BY <2>3, <2>4, SampleFieldJson
<1> QED
  BY <1>1, <1>2, <1>3

-----------------------------------------------------------------------------
(* The invariant.                                                          *)

InputBags == {"path", "query", "body"}

InputInv ==
  /\ request = [op |-> request.op, path |-> request.path, query |-> request.query, body |-> request.body]
  /\ request.op \in DOMAIN Operations
  /\ \A place \in InputBags : Json(request[place])
  /\ answer = <<>> \/
     \E tool \in InputTools :
       answer = [tool |-> tool, result |-> IF Refuses(tool, request) THEN Refused ELSE Validate(request)]

LEMMA InputInvInit == InputInit => InputInv
<1> SUFFICES ASSUME InputInit PROVE InputInv
  OBVIOUS
<1>1. PICK o \in DOMAIN Operations : request = Smallest(o)
  BY DEF InputInit
<1> DEFINE op == Operations[o]
           bag(keys) == [k \in keys |-> SampleField(op.schema.properties[k])]
<1>2. ASSUME NEW keys PROVE Json(Obj(bag(keys)))
  <2>1. \A k \in DOMAIN bag(keys) : RowsJson(bag(keys)[k])
    BY SampleFieldJson
  <2>2. bag(keys) = [k \in DOMAIN bag(keys) |-> bag(keys)[k]]
    OBVIOUS
  <2> HIDE DEF bag
  <2> QED
    BY <2>1, <2>2, JsonObject
<1>3. /\ request = [op |-> o, path |-> Obj(bag(op.param)),
                    query |-> IF UsesBody(op) THEN Obj(<<>>) ELSE Obj(bag(op.schema.required \ op.param)),
                    body |-> IF UsesBody(op) THEN Sample(Rest(op)) ELSE Null]
  BY <1>1 DEF Smallest
<1> HIDE DEF bag, op
<1>4. \A place \in InputBags : Json(request[place])
  BY <1>2, <1>3, JsonLeast, SampleJson DEF InputBags
<1> QED
  BY <1>3, <1>4 DEF InputInv, InputInit

LEMMA GivenJson ==
  ASSUME InputInv, NEW place \in InputBags, NEW v, Json(v), Give(place, v)
  PROVE  InputInv'
<1>1. request' = [request EXCEPT ![place] = v] /\ answer' = <<>>
  BY DEF Give
<1>2. /\ request'.op = request.op
      /\ \A p \in InputBags : request'[p] = IF p = place THEN v ELSE request[p]
      /\ request' = [op |-> request'.op, path |-> request'.path, query |-> request'.query, body |-> request'.body]
  BY <1>1 DEF InputInv, InputBags
<1> QED
  BY <1>1, <1>2 DEF InputInv

LEMMA InputInvStep == InputInv /\ [InputNext]_inputVars => InputInv'
<1> SUFFICES ASSUME InputInv, [InputNext]_inputVars PROVE InputInv'
  OBVIOUS
<1>1. CASE UNCHANGED inputVars
  BY <1>1 DEF inputVars, InputInv
<1>2. ASSUME NEW place \in InputBags, NEW v \in {Null, Obj(<<>>), Num(7)}, Give(place, v) PROVE InputInv'
  BY <1>2, GivenJson, JsonLeast
<1>3. ASSUME NEW place \in InputBags, NEW k, NEW v \in Values[place], GiveField(place, k, v) PROVE InputInv'
  <2> DEFINE f == request[place][2]
             g == [x \in DOMAIN f \cup {k} |-> IF x = k THEN v ELSE f[x]]
  <2>1. Is(request[place], Structures) /\ Give(place, Obj(g))
    BY <1>3 DEF GiveField, Is, Structures
  <2>2. Json(request[place]) /\ RowsJson(v)
    BY InputAssumption DEF InputInv, InputBags
  <2>3. \A x \in DOMAIN f : RowsJson(f[x])
    BY <2>1, <2>2 DEF Json
  <2>4. (\A x \in DOMAIN g : RowsJson(g[x])) /\ g = [x \in DOMAIN g |-> g[x]]
    BY <2>2, <2>3
  <2> HIDE DEF g
  <2>5. Json(Obj(g))
    BY <2>4, JsonObject
  <2> QED
    BY <2>1, <2>5, GivenJson
<1>4. ASSUME NEW place \in InputBags, NEW k, LeaveOut(place, k) PROVE InputInv'
  <2> DEFINE f == request[place][2]
             g == Only(f, DOMAIN f \ {k})
  <2>1. Is(request[place], Structures) /\ Give(place, Obj(g))
    BY <1>4 DEF LeaveOut, Is, Structures
  <2>2. Json(request[place])
    BY DEF InputInv
  <2>3. \A x \in DOMAIN f : RowsJson(f[x])
    BY <2>1, <2>2 DEF Json
  <2>4. (\A x \in DOMAIN g : RowsJson(g[x])) /\ g = [x \in DOMAIN g |-> g[x]]
    BY <2>3 DEF Only
  <2> HIDE DEF g
  <2>5. Json(Obj(g))
    BY <2>4, JsonObject
  <2> QED
    BY <2>1, <2>5, GivenJson
<1>5. ASSUME NEW tool \in InputTools, Answer(tool) PROVE InputInv'
  BY <1>5 DEF Answer, InputInv
<1> QED
  BY <1>1, <1>2, <1>3, <1>4, <1>5 DEF InputNext, InputBags

\* A request stays JSON and names an operation, and an answer is the one its
\* tool gives: the invariant the next theorem rests on (executeReadOperation,
\* runExecuteMutation, defineWidgetTool).
THEOREM AnswerIsOfItsRequest == InputSpec => []InputInv
<1> QED
  BY InputInvInit, InputInvStep, PTL DEF InputSpec

\* For every registry of the shape the assumption names, and for every request:
\* what is accepted is documented, what is documented is accepted as it was
\* given, and what was approved is what runs.
THEOREM ContractHolds == InputSpec => []DocumentIsTheContract
<1>1. InputInv => DocumentIsTheContract
  <2> SUFFICES ASSUME InputInv, answer # <<>> PROVE DocumentIsTheContract
    BY DEF DocumentIsTheContract, AcceptedIsDocumented, DocumentedIsAccepted, ApprovedIsWhatRuns, Accepted
  <2> DEFINE op == Operations[request.op]
  <2>1. PICK tool \in InputTools :
          answer = [tool |-> tool, result |-> IF Refuses(tool, request) THEN Refused ELSE Validate(request)]
    BY DEF InputInv
  <2>2. OperationOK(op) /\ Op(request) = op
    BY InputAssumption DEF InputInv, Op
  <2>3. Refused.problems # {}
    BY DEF Refused
  <2>4. Accepted => ~Refuses(tool, request) /\ answer.result = Validate(request) /\ Validate(request).problems = {}
    BY <2>1, <2>3 DEF Accepted
  <2> DEFINE a == Validate(request)
  <2>5. Accepted => Settled(op, a.path, a.query, a.body)
    BY <2>2, <2>4, AcceptedIsSettled
  <2>6. AcceptedIsDocumented
    BY <2>2, <2>4, <2>5, SettledIsDocumented DEF AcceptedIsDocumented
  <2>7. ApprovedIsWhatRuns
    <3> SUFFICES ASSUME Accepted
                 PROVE  Validate([op |-> request.op, path |-> Obj(a.path), query |-> Obj(a.query), body |-> a.body]) = a
      BY <2>4 DEF ApprovedIsWhatRuns
    <3>1. a = [problems |-> a.problems, path |-> a.path, query |-> a.query, body |-> a.body]
      BY ValidateIs
    <3>2. request.op \in DOMAIN Operations
      BY DEF InputInv
    <3> HIDE DEF a
    <3>3. a.problems = {}
      BY <2>4 DEF a
    <3> QED
      BY <2>2, <2>5, <3>1, <3>2, <3>3, SettledStays
  <2>8. DocumentedIsAccepted
    <3> SUFFICES ASSUME ToolFor(op, tool), Ordinary(request),
                        AsDocumented(op, request.path[2], request.query[2], request.body)
                 PROVE  /\ ~Refuses(tool, request) /\ a.problems = {}
                        /\ Texts(a.path) = Texts(request.path[2])
                        /\ a.query = request.query[2] /\ a.body = request.body
      BY <2>1 DEF DocumentedIsAccepted, Accepted
    <3>1. RequestOK(request)
      <4>1. Json(request.path) /\ Json(request.query) /\ Json(request.body) /\ request.op \in DOMAIN Operations
        BY DEF InputInv, InputBags
      <4>2. RowsJson(request.path) /\ RowsJson(request.query)
        BY <4>1, JsonDepth DEF Json, RowsJson
      <4> QED
        BY <4>1, <4>2 DEF RequestOK
    <3> QED
      BY <2>2, <3>1, DocumentedIsFine
  <2> QED
    BY <2>6, <2>7, <2>8 DEF DocumentIsTheContract
<1> QED
  BY <1>1, AnswerIsOfItsRequest, PTL

-----------------------------------------------------------------------------
(* A sample of a schema is accepted.                                       *)

LEMMA SampleFieldShaped ==
  ASSUME NEW s, SchemaOK(s), s.type = "object" => s.required = {}
  PROVE  LET v == SampleField(s) IN
         Shaped(v, s) /\ Short(v) /\ (Structured(v, s) => Inner(v, s) = {})
<1>1. s.type \in {"integer", "string", "boolean", "array", "object"}
  BY DEF SchemaOK, Structures
<1>2. CASE s.type = "integer"
  <2>1. SampleField(s) = Num(1) /\ Num(1)[1] = "number" /\ Num(1)[2] = 1
    BY <1>2, ValuesAre DEF SampleField
  <2>2. Safe(1) /\ (\A m \in s.minimum : 1 >= m) /\ (\A m \in s.maximum : 1 <= m)
    BY InputAssumption DEF SchemaOK, Safe, DefaultPageSizeMax
  <2>3. Shaped(Num(1), s) /\ Short(Num(1))
    BY <1>2, <2>1, <2>2 DEF Shaped, Short, Is
  <2> QED
    BY <1>2, <2>1, <2>3 DEF Structured, Structures
<1>3. CASE s.type = "string"
  <2> DEFINE w == IF s.enum = {} THEN "id" ELSE CHOOSE x \in s.enum : TRUE
  <2>1. SampleField(s) = Str(Word(w)) /\ Str(Word(w))[1] = "string" /\ Str(Word(w))[2] = Word(w)
    BY <1>3, ValuesAre DEF SampleField
  <2>2. Word(w) # Long
    <3>1. Word(w)[1] = "word" /\ Long[1] = "long"
      BY DEF Word, Long
    <3> QED
      BY <3>1
  <2>3. InEnum(Str(Word(w)), s)
    <3>1. s.enum # {} => w \in s.enum
      OBVIOUS
    <3> HIDE DEF w
    <3> QED
      BY <3>1 DEF InEnum
  <2>4. Shaped(Str(Word(w)), s) /\ Short(Str(Word(w)))
    BY <1>3, <2>1, <2>2, <2>3 DEF Shaped, Short, Is
  <2> QED
    BY <1>3, <2>1, <2>4 DEF Structured, Structures
<1>4. CASE s.type = "boolean"
  <2>1. SampleField(s) = Bool(TRUE) /\ Bool(TRUE)[1] = "boolean"
    BY <1>4, ValuesAre DEF SampleField
  <2> QED
    BY <1>4, <2>1 DEF Shaped, Short, Is, Structured, Structures
<1>5. CASE s.type \in {"array", "object"}
  <2>1. SampleField(s)[1] = s.type /\ SampleField(s)[2] = <<>>
    BY <1>5, ValuesAre DEF SampleField
  <2>2. DOMAIN <<>> = {}
    BY Nothing
  <2>3. Shaped(SampleField(s), s) /\ Short(SampleField(s))
    BY <1>5, <2>1, <2>2 DEF Shaped, Short, Is
  <2> QED
    BY <2>1, <2>2, <2>3 DEF Inner
<1> QED
  BY <1>1, <1>2, <1>3, <1>4, <1>5

\* An object made of the required parts.
LEMMA SampleOfShaped ==
  ASSUME NEW s, SchemaOK(s), NEW parts, DOMAIN parts = s.required
  PROVE  LET v == SampleOf(s, parts) IN
         /\ Shaped(v, s) /\ Short(v)
         /\ Structured(v, s) => \A k \in Inner(v, s) : /\ s.type = "object" /\ k \in s.required
                                                      /\ v[2][k] = parts[k] /\ PartSchema(s, k) = s.properties[k]
<1>1. CASE s.type = "object"
  <2> DEFINE v == SampleOf(s, parts)
  <2>1. v[1] = "object" /\ v[2] = parts
    BY <1>1, ValuesAre DEF SampleOf
  <2>2. s.required \subseteq DOMAIN s.properties
    BY DEF SchemaOK
  <2> HIDE DEF v
  <2>3. Shaped(v, s) /\ Short(v)
    BY <1>1, <2>1, <2>2 DEF Shaped, Short, Is
  <2>4. \A k \in Inner(v, s) : k \in s.required /\ v[2][k] = parts[k] /\ PartSchema(s, k) = s.properties[k]
    BY <1>1, <2>1 DEF Inner, PartSchema
  <2> QED
    BY <1>1, <2>3, <2>4 DEF v
<1>2. CASE s.type # "object"
  <2>1. SampleOf(s, parts) = SampleField(s)
    BY <1>2 DEF SampleOf
  <2> QED
    BY <1>2, <2>1, SampleFieldShaped
<1> QED
  BY <1>1, <1>2

LEMMA SampleFieldConforms ==
  ASSUME NEW s, FieldOK(s)
  PROVE  FieldConforms(SampleField(s), s) /\ Short(SampleField(s))
<1>1. SchemaOK(s) /\ (s.type = "object" => DOMAIN s.properties = {})
  BY DEF FieldOK, Insides
<1>2. s.type = "object" => s.required = {}
  BY <1>1 DEF SchemaOK
<1> QED
  BY <1>1, <1>2, SampleFieldShaped DEF FieldConforms

LEMMA SampleRowConforms ==
  ASSUME NEW s, RowOK(s)
  PROVE  RowConforms(SampleRow(s), s) /\ RowShort(SampleRow(s), s)
<1> DEFINE f == [k \in s.required |-> SampleField(s.properties[k])]
           v == SampleRow(s)
<1>1. SchemaOK(s) /\ DOMAIN f = s.required /\ v = SampleOf(s, f)
  BY DEF RowOK, SampleRow
<1>2. s.type = "object" => \A k \in s.required : FieldOK(s.properties[k])
  BY <1>1 DEF RowOK, SchemaOK, Insides
<1>3. \A k \in s.required : f[k] = SampleField(s.properties[k])
  OBVIOUS
<1> HIDE DEF f, v
<1>4. /\ Shaped(v, s) /\ Short(v)
      /\ Structured(v, s) => \A k \in Inner(v, s) : /\ s.type = "object" /\ k \in s.required
                                                   /\ v[2][k] = f[k] /\ PartSchema(s, k) = s.properties[k]
  BY <1>1, SampleOfShaped
<1>5. Structured(v, s) => \A k \in Inner(v, s) : FieldConforms(v[2][k], PartSchema(s, k)) /\ Short(v[2][k])
  BY <1>2, <1>3, <1>4, SampleFieldConforms
<1> QED
  BY <1>4, <1>5 DEF RowConforms, RowShort, v

LEMMA SampleRowsConform ==
  ASSUME NEW s, RowsOK(s)
  PROVE  RowsConform(SampleRows(s), s) /\ RowsShort(SampleRows(s), s)
<1> DEFINE f == [k \in s.required |-> SampleRow(s.properties[k])]
           v == SampleRows(s)
<1>1. SchemaOK(s) /\ DOMAIN f = s.required /\ v = SampleOf(s, f)
  BY DEF RowsOK, SampleRows
<1>2. s.type = "object" => \A k \in s.required : RowOK(s.properties[k])
  BY <1>1 DEF RowsOK, SchemaOK, Insides
<1>3. \A k \in s.required : f[k] = SampleRow(s.properties[k])
  OBVIOUS
<1> HIDE DEF f, v
<1>4. /\ Shaped(v, s) /\ Short(v)
      /\ Structured(v, s) => \A k \in Inner(v, s) : /\ s.type = "object" /\ k \in s.required
                                                   /\ v[2][k] = f[k] /\ PartSchema(s, k) = s.properties[k]
  BY <1>1, SampleOfShaped
<1>5. Structured(v, s) => \A k \in Inner(v, s) : /\ RowConforms(v[2][k], PartSchema(s, k))
                                                /\ RowShort(v[2][k], PartSchema(s, k))
  BY <1>2, <1>3, <1>4, SampleRowConforms
<1> QED
  BY <1>4, <1>5 DEF RowsConform, RowsShort, v

LEMMA SampleConforms ==
  ASSUME NEW s, WholeOK(s)
  PROVE  Conforms(Sample(s), s) /\ BodyShort(Sample(s), s)
<1> DEFINE f == [k \in s.required |-> SampleRows(s.properties[k])]
           v == Sample(s)
<1>1. SchemaOK(s) /\ DOMAIN f = s.required /\ v = SampleOf(s, f)
  BY DEF WholeOK, Sample
<1>2. s.type = "object" => \A k \in s.required : RowsOK(s.properties[k])
  BY <1>1 DEF WholeOK, SchemaOK, Insides
<1>3. \A k \in s.required : f[k] = SampleRows(s.properties[k])
  OBVIOUS
<1> HIDE DEF f, v
<1>4. /\ Shaped(v, s) /\ Short(v)
      /\ Structured(v, s) => \A k \in Inner(v, s) : /\ s.type = "object" /\ k \in s.required
                                                   /\ v[2][k] = f[k] /\ PartSchema(s, k) = s.properties[k]
  BY <1>1, SampleOfShaped
<1>5. Structured(v, s) => \A k \in Inner(v, s) : /\ RowsConform(v[2][k], PartSchema(s, k))
                                                /\ RowsShort(v[2][k], PartSchema(s, k))
  BY <1>2, <1>3, <1>4, SampleRowsConform
<1> QED
  BY <1>4, <1>5 DEF Conforms, BodyShort, v

LEMMA SampleAccepted ==
  ASSUME NEW s, NEW at, IsPlace(at), Keyed(s, at[Len(at)])
  PROVE  /\ FieldOK(s) => CheckField(SampleField(s), s, at).problems = {}
         /\ RowOK(s) => CheckRow(SampleRow(s), s, at).problems = {}
         /\ RowsOK(s) => CheckRows(SampleRows(s), s, at).problems = {}
         /\ WholeOK(s) => CheckWhole(Sample(s), s, at).problems = {}
<1>1. ASSUME FieldOK(s) PROVE CheckField(SampleField(s), s, at).problems = {}
  <2>1. CheckField(SampleField(s), s, at) = Valid(SampleField(s))
    BY <1>1, SampleFieldJson, SampleFieldConforms, FieldDocumented
  <2> QED
    BY <2>1, Findings
<1>2. ASSUME RowOK(s) PROVE CheckRow(SampleRow(s), s, at).problems = {}
  <2>1. CheckRow(SampleRow(s), s, at) = Valid(SampleRow(s))
    BY <1>2, SampleJson, SampleRowConforms, RowDocumented
  <2> QED
    BY <2>1, Findings
<1>3. ASSUME RowsOK(s) PROVE CheckRows(SampleRows(s), s, at).problems = {}
  <2>1. CheckRows(SampleRows(s), s, at) = Valid(SampleRows(s))
    BY <1>3, SampleJson, SampleRowsConform, RowsDocumented
  <2> QED
    BY <2>1, Findings
<1>4. ASSUME WholeOK(s) PROVE CheckWhole(Sample(s), s, at).problems = {}
  <2>1. CheckWhole(Sample(s), s, at) = Valid(Sample(s))
    BY <1>4, SampleJson, SampleConforms, WholeDocumented
  <2> QED
    BY <2>1, Findings
<1> QED
  BY <1>1, <1>2, <1>3, <1>4

-----------------------------------------------------------------------------
(* Where the problems of a value are.                                      *)

Under(x, at) == Len(x) \in Nat /\ Len(at) <= Len(x) /\ \A i \in 1 .. Len(at) : x[i] = at[i]

\* A problem of the value at a place, or of a part of it: only "invalid" is
\* said of the value itself.
Within(p, at) == Under(p.at, at) /\ (p.kind # "invalid" => Len(p.at) > Len(at))
AllWithin(P, at) == \A p \in P : Within(p, at)

\* A report and what was found tell the same of a place and below.
Agrees(R, P, at) == \A p : Under(p.at, at) => (p \in R <=> p \in P)

LEMMA ProblemsAre ==
  /\ \A kind, at : Problem(kind, at).kind = kind /\ Problem(kind, at).at = at
  /\ \A kind, at, k, x : Problem(kind, at) = Problem(k, x) => kind = k /\ at = x
<1>1. \A kind, at : Problem(kind, at).kind = kind /\ Problem(kind, at).at = at
  BY DEF Problem
<1> QED
  BY <1>1

LEMMA UnderPart ==
  ASSUME NEW at, IsPlace(at), NEW k
  PROVE  /\ \A x : Under(x, Append(at, k)) <=> Under(x, at) /\ Len(x) > Len(at) /\ x[Len(at) + 1] = k
         /\ Under(at, at) /\ Under(Append(at, k), at) /\ Under(Append(at, k), Append(at, k))
         /\ \A j : Under(Append(at, j), Append(at, k)) => j = k
<1>1. /\ Len(at) \in Nat /\ Len(Append(at, k)) = Len(at) + 1
      /\ Append(at, k)[Len(at) + 1] = k /\ \A i \in 1 .. Len(at) : Append(at, k)[i] = at[i]
  BY PlaceOfPart
<1>2. 1 .. Len(at) + 1 = (1 .. Len(at)) \cup {Len(at) + 1}
  BY <1>1
<1>3. ASSUME NEW x PROVE Under(x, Append(at, k)) <=> Under(x, at) /\ Len(x) > Len(at) /\ x[Len(at) + 1] = k
  BY <1>1, <1>2 DEF Under
<1>4. Under(at, at) /\ Under(Append(at, k), at) /\ Under(Append(at, k), Append(at, k))
  BY <1>1 DEF Under
<1>5. ASSUME NEW j, Under(Append(at, j), Append(at, k)) PROVE j = k
  <2>1. Append(at, j)[Len(at) + 1] = j
    BY PlaceOfPart
  <2> QED
    BY <1>3, <1>5, <2>1
<1> QED
  BY <1>3, <1>4, <1>5

LEMMA PrimitiveWithin ==
  ASSUME NEW v, NEW s, NEW at, IsPlace(at)
  PROVE  /\ CheckPrimitive(v, s, at).problems \in {{}, {Problem("invalid", at)}}
         /\ AllWithin(CheckPrimitive(v, s, at).problems, at)
<1>1. CheckPrimitive(v, s, at).problems \in {{}, {Problem("invalid", at)}}
  BY Findings DEF CheckPrimitive
<1>2. Within(Problem("invalid", at), at)
  BY ProblemsAre, UnderPart DEF Within
<1> QED
  BY <1>1, <1>2 DEF AllWithin

\* The problems of a structure: its own and those of its parts.
Unknowns(v, s, at) == IF s.closed THEN {Problem("unknown", Append(at, k)) : k \in DOMAIN v[2] \ Inner(v, s)} ELSE {}
Missings(f, s, at) == {Problem("missing", Append(at, k)) : k \in s.required \ DOMAIN f}

LEMMA PartsProblems ==
  ASSUME NEW v, NEW s, Structured(v, s), NEW at, NEW found
  PROVE  CheckValue(v, s, at, found).problems =
           Unknowns(v, s, at) \cup (UNION {found[k].problems : k \in Inner(v, s)}) \cup Missings(v[2], s, at)
<1> DEFINE unknown == Unknowns(v, s, at)
           given == unknown \cup UNION {found[k].problems : k \in Inner(v, s)}
           g == [k \in DOMAIN v[2] |-> IF k \in Inner(v, s) THEN found[k].value ELSE v[2][k]]
           all == given \cup Missing(v[2], s, at, given)
<1>1. CheckValue(v, s, at, found) = IF all # {} THEN Broken(all) ELSE Valid(<<v[1], g>>)
  BY DEF CheckValue, CheckParts, Unknowns
<1>2. Missing(v[2], s, at, given) = Missings(v[2], s, at)
  BY DEF Missing, Missings
<1> HIDE DEF all, g
<1>3. CheckValue(v, s, at, found).problems = all
  BY <1>1, Findings
<1> QED
  BY <1>2, <1>3 DEF all

LEMMA PartsWithin ==
  ASSUME NEW v, NEW s, NEW at, IsPlace(at), NEW found,
         \A k \in Inner(v, s) : AllWithin(found[k].problems, Append(at, k))
  PROVE  AllWithin(CheckValue(v, s, at, found).problems, at)
<1>1. CASE ~Structured(v, s)
  BY <1>1, PrimitiveWithin DEF CheckValue
<1>2. CASE Structured(v, s)
  <2>1. ASSUME NEW kind, NEW k PROVE Within(Problem(kind, Append(at, k)), at)
    <3>1. Under(Append(at, k), at) /\ Len(Append(at, k)) > Len(at)
      BY UnderPart, PlaceOfPart
    <3> QED
      BY <3>1, ProblemsAre DEF Within
  <2>2. ASSUME NEW k \in Inner(v, s), NEW p \in found[k].problems PROVE Within(p, at)
    <3>1. Within(p, Append(at, k))
      BY <2>2 DEF AllWithin
    <3>2. Under(p.at, at) /\ Len(p.at) > Len(at)
      BY <3>1, UnderPart DEF Within
    <3> QED
      BY <3>2 DEF Within
  <2>3. \A p \in Unknowns(v, s, at) : Within(p, at)
    BY <2>1 DEF Unknowns
  <2>4. \A p \in Missings(v[2], s, at) : Within(p, at)
    BY <2>1 DEF Missings
  <2> QED
    BY <1>2, <2>2, <2>3, <2>4, PartsProblems DEF AllWithin
<1> QED
  BY <1>1, <1>2

LEMMA FieldWithin ==
  ASSUME NEW v, NEW s, FieldOK(s), NEW at, IsPlace(at)
  PROVE  AllWithin(CheckField(v, s, at).problems, at)
BY NoParts, PartsWithin DEF CheckField

LEMMA RowWithin ==
  ASSUME NEW v, NEW s, RowOK(s), NEW at, IsPlace(at)
  PROVE  AllWithin(CheckRow(v, s, at).problems, at)
<1> DEFINE found == [k \in Inner(v, s) |-> CheckField(v[2][k], PartSchema(s, k), Append(at, k))]
<1>1. ASSUME NEW k \in Inner(v, s) PROVE AllWithin(found[k].problems, Append(at, k))
  <2>1. FieldOK(PartSchema(s, k)) /\ IsPlace(Append(at, k))
    BY InnerHas, PartOf, PlaceOfPart DEF RowOK
  <2>2. AllWithin(CheckField(v[2][k], PartSchema(s, k), Append(at, k)).problems, Append(at, k))
    BY <2>1, FieldWithin
  <2> QED
    BY <2>2
<1> HIDE DEF found
<1>2. AllWithin(CheckValue(v, s, at, found).problems, at)
  BY <1>1, PartsWithin
<1> QED
  BY <1>2 DEF CheckRow, found

LEMMA RowsWithin ==
  ASSUME NEW v, NEW s, RowsOK(s), NEW at, IsPlace(at)
  PROVE  AllWithin(CheckRows(v, s, at).problems, at)
<1> DEFINE found == [k \in Inner(v, s) |-> CheckRow(v[2][k], PartSchema(s, k), Append(at, k))]
<1>1. ASSUME NEW k \in Inner(v, s) PROVE AllWithin(found[k].problems, Append(at, k))
  <2>1. RowOK(PartSchema(s, k)) /\ IsPlace(Append(at, k))
    BY InnerHas, PartOf, PlaceOfPart DEF RowsOK
  <2>2. AllWithin(CheckRow(v[2][k], PartSchema(s, k), Append(at, k)).problems, Append(at, k))
    BY <2>1, RowWithin
  <2> QED
    BY <2>2
<1> HIDE DEF found
<1>2. AllWithin(CheckValue(v, s, at, found).problems, at)
  BY <1>1, PartsWithin
<1> QED
  BY <1>2 DEF CheckRows, found

LEMMA WholeWithin ==
  ASSUME NEW v, NEW s, WholeOK(s), NEW at, IsPlace(at)
  PROVE  AllWithin(CheckWhole(v, s, at).problems, at)
<1> DEFINE found == [k \in Inner(v, s) |-> CheckRows(v[2][k], PartSchema(s, k), Append(at, k))]
<1>1. ASSUME NEW k \in Inner(v, s) PROVE AllWithin(found[k].problems, Append(at, k))
  <2>1. RowsOK(PartSchema(s, k)) /\ IsPlace(Append(at, k))
    BY InnerHas, PartOf, PlaceOfPart DEF WholeOK
  <2>2. AllWithin(CheckRows(v[2][k], PartSchema(s, k), Append(at, k)).problems, Append(at, k))
    BY <2>1, RowsWithin
  <2> QED
    BY <2>2
<1> HIDE DEF found
<1>2. AllWithin(CheckValue(v, s, at, found).problems, at)
  BY <1>1, PartsWithin
<1> QED
  BY <1>2 DEF CheckWhole, found

-----------------------------------------------------------------------------
(* What the report says of a value mends it.                               *)

\* A report tells of the parts what was found of them, and each part of the
\* mended value is a mended part, a sample, or no concern of the schema.
PartsTold(v, s, at, R, found, parts, sample, m) ==
  /\ Problem("invalid", at) \notin R /\ Structured(m, s)
  /\ \A k \in Inner(v, s) : Agrees(R, found[k].problems, Append(at, k))
  /\ \A k \in Inner(m, s) :
       \/ s.type = "object" /\ k \in DOMAIN s.properties /\ m[2][k] = sample[k]
       \/ k \in Inner(v, s) /\ m[2][k] = parts[k]
PartsMend(m, s, at, again) ==
  (\A k \in Inner(m, s) : again[k].problems = {}) => CheckValue(m, s, at, again).problems = {}

LEMMA ToldOfParts ==
  ASSUME NEW v, NEW s, SchemaOK(s), Structured(v, s), NEW at, IsPlace(at), NEW R, NEW found,
         \A k \in Inner(v, s) : AllWithin(found[k].problems, Append(at, k)),
         Agrees(R, CheckValue(v, s, at, found).problems, at)
  PROVE  /\ Problem("invalid", at) \notin R
         /\ \A k : Problem("unknown", Append(at, k)) \in R <=> s.closed /\ k \in DOMAIN v[2] \ Inner(v, s)
         /\ \A k : Problem("missing", Append(at, k)) \in R <=> k \in s.required \ DOMAIN v[2]
         /\ \A k \in Inner(v, s) : Agrees(R, found[k].problems, Append(at, k))
<1> DEFINE P == CheckValue(v, s, at, found).problems
<1>1. P = Unknowns(v, s, at) \cup (UNION {found[k].problems : k \in Inner(v, s)}) \cup Missings(v[2], s, at)
  BY PartsProblems
<1>2. \A j, k : Append(at, j) = Append(at, k) => j = k
  BY PlaceOfPart
<1>3. \A k : Under(Append(at, k), at) /\ Under(at, at) /\ Append(at, k) # at
  BY UnderPart, PlaceOfPart
<1>4. ASSUME NEW k \in Inner(v, s), NEW p \in found[k].problems
      PROVE  /\ Under(p.at, Append(at, k)) /\ (\A j : p.at = Append(at, j) => p.kind = "invalid") /\ p.at # at
  <2>1. Within(p, Append(at, k))
    BY <1>4 DEF AllWithin
  <2>2. Len(Append(at, k)) = Len(at) + 1 /\ Len(at) \in Nat
    BY PlaceOfPart
  <2>3. \A j : p.at = Append(at, j) => Len(p.at) = Len(at) + 1
    BY PlaceOfPart
  <2> QED
    BY <2>1, <2>2, <2>3 DEF Within, Under
<1> HIDE DEF P
<1>5. Problem("invalid", at) \notin R
  <2>1. Problem("invalid", at) \notin P
    BY <1>1, <1>3, <1>4, ProblemsAre DEF Unknowns, Missings
  <2>2. Under(Problem("invalid", at).at, at)
    BY <1>3, ProblemsAre
  <2> QED
    BY <2>1, <2>2 DEF Agrees, P
<1>6. ASSUME NEW k PROVE Problem("unknown", Append(at, k)) \in R <=> s.closed /\ k \in DOMAIN v[2] \ Inner(v, s)
  <2> DEFINE told == Problem("unknown", Append(at, k))
  <2>1. told.kind = "unknown" /\ told.at = Append(at, k) /\ Under(told.at, at)
    <3>1. told.kind = "unknown" /\ told.at = Append(at, k)
      BY ProblemsAre
    <3> HIDE DEF told
    <3> QED
      BY <1>3, <3>1
  <2>2. told \in Unknowns(v, s, at) <=> s.closed /\ k \in DOMAIN v[2] \ Inner(v, s)
    <3>1. \A j : told = Problem("unknown", Append(at, j)) <=> j = k
      BY <1>2, ProblemsAre
    <3> HIDE DEF told
    <3> QED
      BY <3>1 DEF Unknowns
  <2>3. told \notin Missings(v[2], s, at)
    BY ProblemsAre DEF Missings
  <2> HIDE DEF told
  <2>4. told \notin UNION {found[j].problems : j \in Inner(v, s)}
    BY <1>4, <2>1
  <2>5. told \in R <=> told \in P
    BY <2>1 DEF Agrees, P
  <2> QED
    BY <1>1, <2>2, <2>3, <2>4, <2>5 DEF told
<1>7. ASSUME NEW k PROVE Problem("missing", Append(at, k)) \in R <=> k \in s.required \ DOMAIN v[2]
  <2> DEFINE told == Problem("missing", Append(at, k))
  <2>1. told.kind = "missing" /\ told.at = Append(at, k) /\ Under(told.at, at)
    <3>1. told.kind = "missing" /\ told.at = Append(at, k)
      BY ProblemsAre
    <3> HIDE DEF told
    <3> QED
      BY <1>3, <3>1
  <2>2. told \in Missings(v[2], s, at) <=> k \in s.required \ DOMAIN v[2]
    BY <1>2, ProblemsAre DEF Missings
  <2>3. told \notin Unknowns(v, s, at)
    BY ProblemsAre DEF Unknowns
  <2> HIDE DEF told
  <2>4. told \notin UNION {found[j].problems : j \in Inner(v, s)}
    BY <1>4, <2>1
  <2>5. told \in R <=> told \in P
    BY <2>1 DEF Agrees, P
  <2> QED
    BY <1>1, <2>2, <2>3, <2>4, <2>5 DEF told
<1>8. ASSUME NEW k \in Inner(v, s) PROVE Agrees(R, found[k].problems, Append(at, k))
  <2>0. \A p : Under(p.at, Append(at, k)) => (p \in R <=> p \in P)
    BY UnderPart DEF Agrees, P
  <2> SUFFICES ASSUME NEW p, Under(p.at, Append(at, k)) PROVE p \in P <=> p \in found[k].problems
    BY <2>0 DEF Agrees
  <2>1. k \in DOMAIN v[2] /\ HasSchema(s, k)
    BY InnerHas
  <2>2. p \notin Unknowns(v, s, at)
    <3> SUFFICES ASSUME NEW j \in DOMAIN v[2] \ Inner(v, s), p = Problem("unknown", Append(at, j)) PROVE FALSE
      BY DEF Unknowns
    <3>1. Under(Append(at, j), Append(at, k))
      BY ProblemsAre
    <3> QED
      BY <3>1, UnderPart
  <2>3. p \notin Missings(v[2], s, at)
    <3> SUFFICES ASSUME NEW j \in s.required \ DOMAIN v[2], p = Problem("missing", Append(at, j)) PROVE FALSE
      BY DEF Missings
    <3>1. Under(Append(at, j), Append(at, k))
      BY ProblemsAre
    <3> QED
      BY <2>1, <3>1, UnderPart
  <2>4. \A j \in Inner(v, s) : p \in found[j].problems => j = k
    <3>1. ASSUME NEW j \in Inner(v, s), p \in found[j].problems PROVE j = k
      <4>1. Under(p.at, Append(at, j))
        BY <1>4, <3>1
      <4> QED
        BY <4>1, UnderPart
    <3> QED
      BY <3>1
  <2> QED
    BY <1>1, <2>2, <2>3, <2>4
<1> QED
  BY <1>5, <1>6, <1>7, <1>8

LEMMA PartsMended ==
  ASSUME NEW v, NEW s, SchemaOK(s), Structured(v, s), NEW at, IsPlace(at), NEW R, NEW found,
         \A k \in Inner(v, s) : AllWithin(found[k].problems, Append(at, k)),
         Agrees(R, CheckValue(v, s, at, found).problems, at),
         NEW parts, NEW sample, NEW m, m = MendedParts(v, s, at, R, parts, sample), NEW again
  PROVE  PartsTold(v, s, at, R, found, parts, sample, m) /\ PartsMend(m, s, at, again)
<1> DEFINE f == v[2]
           I == Inner(v, s)
           kept == {k \in DOMAIN f : Problem("unknown", Append(at, k)) \notin R}
           added == {k \in DOMAIN s.properties : Problem("missing", Append(at, k)) \in R}
           g == [k \in kept \cup added |->
                   IF k \in added THEN sample[k] ELSE IF k \in I THEN parts[k] ELSE f[k]]
<1>1. /\ Problem("invalid", at) \notin R
      /\ \A k : Problem("unknown", Append(at, k)) \in R <=> s.closed /\ k \in DOMAIN f \ I
      /\ \A k : Problem("missing", Append(at, k)) \in R <=> k \in s.required \ DOMAIN f
      /\ \A k \in I : Agrees(R, found[k].problems, Append(at, k))
  BY ToldOfParts
<1>2. m[1] = v[1] /\ m[2] = g
  BY DEF MendedParts
<1>3. s.required \subseteq DOMAIN s.properties /\ (s.type = "array" => s.required = {} /\ ~s.closed)
      /\ s.type \in Structures
  BY DEF SchemaOK, Structured
<1>4. kept = {k \in DOMAIN f : s.closed => k \in I} /\ added = s.required \ DOMAIN f
  BY <1>1, <1>3
<1>5. \A k \in DOMAIN f : HasSchema(s, k) <=> k \in I
  BY DEF Inner
<1>6. s.type = "object" => \A k : HasSchema(s, k) <=> k \in DOMAIN s.properties
  BY DEF HasSchema
<1>7. DOMAIN g = kept \cup added
  OBVIOUS
<1>8. \A k \in kept \cup added : g[k] = IF k \in added THEN sample[k] ELSE IF k \in I THEN parts[k] ELSE f[k]
  OBVIOUS
<1> HIDE DEF kept, added, g, I
<1>9. Structured(m, s)
  BY <1>2 DEF Structured, Is
<1>10. \A k \in Inner(m, s) : k \in kept \cup added /\ HasSchema(s, k)
  BY <1>2, <1>7 DEF Inner
<1>11. added # {} => s.type = "object"
  BY <1>3, <1>4 DEF Structures
<1>12. ASSUME NEW k \in Inner(m, s)
       PROVE  \/ s.type = "object" /\ k \in DOMAIN s.properties /\ m[2][k] = sample[k]
              \/ k \in I /\ m[2][k] = parts[k]
  <2>1. CASE k \in added
    <3>1. k \in DOMAIN s.properties /\ s.type = "object"
      BY <1>3, <1>4, <1>11, <2>1
    <3> QED
      BY <1>2, <1>8, <2>1, <3>1
  <2>2. CASE k \notin added
    <3>1. k \in kept /\ k \in DOMAIN f /\ k \in I
      BY <1>4, <1>5, <1>10, <2>2
    <3> QED
      BY <1>2, <1>8, <2>2, <3>1
  <2> QED
    BY <2>1, <2>2
<1>13. PartsTold(v, s, at, R, found, parts, sample, m)
  BY <1>1, <1>9, <1>12 DEF PartsTold, I
<1>14. ASSUME \A k \in Inner(m, s) : again[k].problems = {} PROVE CheckValue(m, s, at, again).problems = {}
  <2>1. CheckValue(m, s, at, again).problems =
          Unknowns(m, s, at) \cup (UNION {again[k].problems : k \in Inner(m, s)}) \cup Missings(m[2], s, at)
    BY <1>9, PartsProblems
  <2>2. Missings(m[2], s, at) = {}
    <3>1. s.required \subseteq DOMAIN g
      <4> SUFFICES ASSUME NEW k \in s.required, k \in DOMAIN f PROVE k \in kept
        BY <1>4, <1>7
      <4>1. s.closed => k \in I
        BY <1>3, <1>5, <1>6 DEF Structures
      <4> QED
        BY <1>4, <4>1
    <3> QED
      BY <1>2, <3>1 DEF Missings
  <2>3. Unknowns(m, s, at) = {}
    <3> SUFFICES ASSUME s.closed, NEW k \in DOMAIN g PROVE k \in Inner(m, s)
      BY <1>2 DEF Unknowns
    <3>1. s.type = "object"
      BY <1>3 DEF Structures
    <3>2. k \in DOMAIN s.properties
      BY <1>3, <1>4, <1>5, <1>6, <1>7, <3>1
    <3>3. HasSchema(s, k)
      BY <1>6, <3>1, <3>2
    <3> QED
      BY <1>2, <3>3 DEF Inner
  <2> QED
    BY <1>14, <2>1, <2>2, <2>3
<1>15. PartsMend(m, s, at, again)
  BY <1>14 DEF PartsMend
<1> QED
  BY <1>13, <1>15

\* A value that is no structure is right or replaced.
LEMMA PlainMended ==
  ASSUME NEW v, NEW s, ~Structured(v, s), NEW at, IsPlace(at), NEW R, NEW found,
         Agrees(R, CheckValue(v, s, at, found).problems, at), Problem("invalid", at) \notin R
  PROVE  CheckValue(v, s, at, found).problems = {}
<1>1. CheckValue(v, s, at, found).problems \in {{}, {Problem("invalid", at)}}
  BY PrimitiveWithin DEF CheckValue
<1>2. Under(Problem("invalid", at).at, at)
  BY ProblemsAre, UnderPart
<1> QED
  BY <1>1, <1>2 DEF Agrees

LEMMA FieldMended ==
  ASSUME NEW v, NEW s, FieldOK(s), NEW at, IsPlace(at), Keyed(s, at[Len(at)]), NEW R,
         Agrees(R, CheckField(v, s, at).problems, at)
  PROVE  CheckField(MendedField(v, s, at, R), s, at).problems = {}
<1> DEFINE m == MendedField(v, s, at, R)
<1>1. SchemaOK(s) /\ Inner(v, s) = {} /\ Inner(m, s) = {}
  BY NoParts DEF FieldOK
<1>2. CASE Problem("invalid", at) \in R
  BY <1>2, SampleAccepted DEF MendedField
<1>3. CASE Problem("invalid", at) \notin R /\ ~Structured(v, s)
  <2>1. m = v
    BY <1>3 DEF MendedField
  <2> QED
    BY <1>3, <2>1, PlainMended DEF CheckField
<1>4. CASE Problem("invalid", at) \notin R /\ Structured(v, s)
  <2>1. m = MendedParts(v, s, at, R, <<>>, <<>>)
    BY <1>4 DEF MendedField
  <2>2. Agrees(R, CheckValue(v, s, at, <<>>).problems, at)
    BY DEF CheckField
  <2> HIDE DEF m
  <2>3. PartsMend(m, s, at, <<>>)
    BY <1>1, <1>4, <2>1, <2>2, PartsMended
  <2>4. CheckValue(m, s, at, <<>>).problems = {}
    BY <1>1, <2>3 DEF PartsMend
  <2> QED
    BY <2>4 DEF CheckField, m
<1> QED
  BY <1>2, <1>3, <1>4

LEMMA RowMended ==
  ASSUME NEW v, NEW s, RowOK(s), NEW at, IsPlace(at), Keyed(s, at[Len(at)]), NEW R,
         Agrees(R, CheckRow(v, s, at).problems, at)
  PROVE  CheckRow(MendedRow(v, s, at, R), s, at).problems = {}
<1> DEFINE m == MendedRow(v, s, at, R)
           found(w) == [k \in Inner(w, s) |-> CheckField(w[2][k], PartSchema(s, k), Append(at, k))]
           parts == [k \in Inner(v, s) |-> MendedField(v[2][k], PartSchema(s, k), Append(at, k), R)]
           sample == [k \in DOMAIN s.properties |-> SampleField(s.properties[k])]
<1>1. SchemaOK(s)
  BY DEF RowOK
<1>2. CASE Problem("invalid", at) \in R
  BY <1>2, SampleAccepted DEF MendedRow
<1>3. CASE Problem("invalid", at) \notin R /\ ~Structured(v, s)
  <2>1. m = v
    BY <1>3 DEF MendedRow
  <2>2. CheckRow(v, s, at) = CheckValue(v, s, at, found(v))
    BY DEF CheckRow
  <2> HIDE DEF m, found
  <2>3. CheckValue(v, s, at, found(v)).problems = {}
    BY <1>3, <2>2, PlainMended
  <2> QED
    BY <2>1, <2>2, <2>3 DEF m
<1>4. CASE Problem("invalid", at) \notin R /\ Structured(v, s)
  <2>1. m = MendedParts(v, s, at, R, parts, sample)
    BY <1>4 DEF MendedRow
  <2>2. \A w : CheckRow(w, s, at) = CheckValue(w, s, at, found(w))
    BY DEF CheckRow
  <2>3. \A w : \A k \in Inner(w, s) :
          /\ found(w)[k] = CheckField(w[2][k], PartSchema(s, k), Append(at, k))
          /\ FieldOK(PartSchema(s, k)) /\ Keyed(PartSchema(s, k), Append(at, k)[Len(Append(at, k))])
          /\ IsPlace(Append(at, k))
    BY <1>1, InnerHas, PartOf, LastOfPlace DEF RowOK
  <2>4. /\ \A k \in Inner(v, s) : parts[k] = MendedField(v[2][k], PartSchema(s, k), Append(at, k), R)
        /\ \A k \in DOMAIN s.properties : sample[k] = SampleField(s.properties[k])
    OBVIOUS
  <2> HIDE DEF m, found, parts, sample
  <2>5. \A k \in Inner(v, s) : AllWithin(found(v)[k].problems, Append(at, k))
    BY <2>3, FieldWithin
  <2>6. Agrees(R, CheckValue(v, s, at, found(v)).problems, at)
    BY <2>2
  <2>7. PartsTold(v, s, at, R, found(v), parts, sample, m) /\ PartsMend(m, s, at, found(m))
    BY <1>1, <1>4, <2>1, <2>5, <2>6, PartsMended
  <2>8. ASSUME NEW k \in Inner(m, s) PROVE found(m)[k].problems = {}
    <3>1. CASE s.type = "object" /\ k \in DOMAIN s.properties /\ m[2][k] = sample[k]
      <4>1. PartSchema(s, k) = s.properties[k]
        BY <3>1 DEF PartSchema
      <4>2. m[2][k] = SampleField(PartSchema(s, k))
        BY <2>4, <3>1, <4>1
      <4>3. CheckField(SampleField(PartSchema(s, k)), PartSchema(s, k), Append(at, k)).problems = {}
        BY <2>3, SampleAccepted
      <4> QED
        BY <2>3, <4>2, <4>3
    <3>2. CASE k \in Inner(v, s) /\ m[2][k] = parts[k]
      <4>1. Agrees(R, found(v)[k].problems, Append(at, k))
        BY <2>7, <3>2 DEF PartsTold
      <4>2. m[2][k] = MendedField(v[2][k], PartSchema(s, k), Append(at, k), R)
        BY <2>4, <3>2
      <4>3. CheckField(MendedField(v[2][k], PartSchema(s, k), Append(at, k), R), PartSchema(s, k), Append(at, k)).problems = {}
        <5>1. /\ found(v)[k] = CheckField(v[2][k], PartSchema(s, k), Append(at, k))
              /\ FieldOK(PartSchema(s, k)) /\ Keyed(PartSchema(s, k), Append(at, k)[Len(Append(at, k))])
              /\ IsPlace(Append(at, k))
          BY <2>3, <3>2
        <5>2. Agrees(R, CheckField(v[2][k], PartSchema(s, k), Append(at, k)).problems, Append(at, k))
          BY <4>1, <5>1
        <5> QED
          BY <5>1, <5>2, FieldMended
      <4> QED
        BY <2>3, <4>2, <4>3
    <3> QED
      BY <2>7, <3>1, <3>2 DEF PartsTold
  <2>9. CheckValue(m, s, at, found(m)).problems = {}
    BY <2>7, <2>8 DEF PartsMend
  <2> QED
    BY <2>2, <2>9 DEF m
<1> QED
  BY <1>2, <1>3, <1>4

LEMMA RowsMended ==
  ASSUME NEW v, NEW s, RowsOK(s), NEW at, IsPlace(at), Keyed(s, at[Len(at)]), NEW R,
         Agrees(R, CheckRows(v, s, at).problems, at)
  PROVE  CheckRows(MendedRows(v, s, at, R), s, at).problems = {}
<1> DEFINE m == MendedRows(v, s, at, R)
           found(w) == [k \in Inner(w, s) |-> CheckRow(w[2][k], PartSchema(s, k), Append(at, k))]
           parts == [k \in Inner(v, s) |-> MendedRow(v[2][k], PartSchema(s, k), Append(at, k), R)]
           sample == [k \in DOMAIN s.properties |-> SampleRow(s.properties[k])]
<1>1. SchemaOK(s)
  BY DEF RowsOK
<1>2. CASE Problem("invalid", at) \in R
  BY <1>2, SampleAccepted DEF MendedRows
<1>3. CASE Problem("invalid", at) \notin R /\ ~Structured(v, s)
  <2>1. m = v
    BY <1>3 DEF MendedRows
  <2>2. CheckRows(v, s, at) = CheckValue(v, s, at, found(v))
    BY DEF CheckRows
  <2> HIDE DEF m, found
  <2>3. CheckValue(v, s, at, found(v)).problems = {}
    BY <1>3, <2>2, PlainMended
  <2> QED
    BY <2>1, <2>2, <2>3 DEF m
<1>4. CASE Problem("invalid", at) \notin R /\ Structured(v, s)
  <2>1. m = MendedParts(v, s, at, R, parts, sample)
    BY <1>4 DEF MendedRows
  <2>2. \A w : CheckRows(w, s, at) = CheckValue(w, s, at, found(w))
    BY DEF CheckRows
  <2>3. \A w : \A k \in Inner(w, s) :
          /\ found(w)[k] = CheckRow(w[2][k], PartSchema(s, k), Append(at, k))
          /\ RowOK(PartSchema(s, k)) /\ Keyed(PartSchema(s, k), Append(at, k)[Len(Append(at, k))])
          /\ IsPlace(Append(at, k))
    BY <1>1, InnerHas, PartOf, LastOfPlace DEF RowsOK
  <2>4. /\ \A k \in Inner(v, s) : parts[k] = MendedRow(v[2][k], PartSchema(s, k), Append(at, k), R)
        /\ \A k \in DOMAIN s.properties : sample[k] = SampleRow(s.properties[k])
    OBVIOUS
  <2> HIDE DEF m, found, parts, sample
  <2>5. \A k \in Inner(v, s) : AllWithin(found(v)[k].problems, Append(at, k))
    BY <2>3, RowWithin
  <2>6. Agrees(R, CheckValue(v, s, at, found(v)).problems, at)
    BY <2>2
  <2>7. PartsTold(v, s, at, R, found(v), parts, sample, m) /\ PartsMend(m, s, at, found(m))
    BY <1>1, <1>4, <2>1, <2>5, <2>6, PartsMended
  <2>8. ASSUME NEW k \in Inner(m, s) PROVE found(m)[k].problems = {}
    <3>1. CASE s.type = "object" /\ k \in DOMAIN s.properties /\ m[2][k] = sample[k]
      <4>1. PartSchema(s, k) = s.properties[k]
        BY <3>1 DEF PartSchema
      <4>2. m[2][k] = SampleRow(PartSchema(s, k))
        BY <2>4, <3>1, <4>1
      <4>3. CheckRow(SampleRow(PartSchema(s, k)), PartSchema(s, k), Append(at, k)).problems = {}
        BY <2>3, SampleAccepted
      <4> QED
        BY <2>3, <4>2, <4>3
    <3>2. CASE k \in Inner(v, s) /\ m[2][k] = parts[k]
      <4>1. Agrees(R, found(v)[k].problems, Append(at, k))
        BY <2>7, <3>2 DEF PartsTold
      <4>2. m[2][k] = MendedRow(v[2][k], PartSchema(s, k), Append(at, k), R)
        BY <2>4, <3>2
      <4>3. CheckRow(MendedRow(v[2][k], PartSchema(s, k), Append(at, k), R), PartSchema(s, k), Append(at, k)).problems = {}
        <5>1. /\ found(v)[k] = CheckRow(v[2][k], PartSchema(s, k), Append(at, k))
              /\ RowOK(PartSchema(s, k)) /\ Keyed(PartSchema(s, k), Append(at, k)[Len(Append(at, k))])
              /\ IsPlace(Append(at, k))
          BY <2>3, <3>2
        <5>2. Agrees(R, CheckRow(v[2][k], PartSchema(s, k), Append(at, k)).problems, Append(at, k))
          BY <4>1, <5>1
        <5> QED
          BY <5>1, <5>2, RowMended
      <4> QED
        BY <2>3, <4>2, <4>3
    <3> QED
      BY <2>7, <3>1, <3>2 DEF PartsTold
  <2>9. CheckValue(m, s, at, found(m)).problems = {}
    BY <2>7, <2>8 DEF PartsMend
  <2> QED
    BY <2>2, <2>9 DEF m
<1> QED
  BY <1>2, <1>3, <1>4

LEMMA WholeMended ==
  ASSUME NEW v, NEW s, WholeOK(s), NEW at, IsPlace(at), Keyed(s, at[Len(at)]), NEW R,
         Agrees(R, CheckWhole(v, s, at).problems, at)
  PROVE  CheckWhole(Mended(v, s, at, R), s, at).problems = {}
<1> DEFINE m == Mended(v, s, at, R)
           found(w) == [k \in Inner(w, s) |-> CheckRows(w[2][k], PartSchema(s, k), Append(at, k))]
           parts == [k \in Inner(v, s) |-> MendedRows(v[2][k], PartSchema(s, k), Append(at, k), R)]
           sample == [k \in DOMAIN s.properties |-> SampleRows(s.properties[k])]
<1>1. SchemaOK(s)
  BY DEF WholeOK
<1>2. CASE Problem("invalid", at) \in R
  BY <1>2, SampleAccepted DEF Mended
<1>3. CASE Problem("invalid", at) \notin R /\ ~Structured(v, s)
  <2>1. m = v
    BY <1>3 DEF Mended
  <2>2. CheckWhole(v, s, at) = CheckValue(v, s, at, found(v))
    BY DEF CheckWhole
  <2> HIDE DEF m, found
  <2>3. CheckValue(v, s, at, found(v)).problems = {}
    BY <1>3, <2>2, PlainMended
  <2> QED
    BY <2>1, <2>2, <2>3 DEF m
<1>4. CASE Problem("invalid", at) \notin R /\ Structured(v, s)
  <2>1. m = MendedParts(v, s, at, R, parts, sample)
    BY <1>4 DEF Mended
  <2>2. \A w : CheckWhole(w, s, at) = CheckValue(w, s, at, found(w))
    BY DEF CheckWhole
  <2>3. \A w : \A k \in Inner(w, s) :
          /\ found(w)[k] = CheckRows(w[2][k], PartSchema(s, k), Append(at, k))
          /\ RowsOK(PartSchema(s, k)) /\ Keyed(PartSchema(s, k), Append(at, k)[Len(Append(at, k))])
          /\ IsPlace(Append(at, k))
    BY <1>1, InnerHas, PartOf, LastOfPlace DEF WholeOK
  <2>4. /\ \A k \in Inner(v, s) : parts[k] = MendedRows(v[2][k], PartSchema(s, k), Append(at, k), R)
        /\ \A k \in DOMAIN s.properties : sample[k] = SampleRows(s.properties[k])
    OBVIOUS
  <2> HIDE DEF m, found, parts, sample
  <2>5. \A k \in Inner(v, s) : AllWithin(found(v)[k].problems, Append(at, k))
    BY <2>3, RowsWithin
  <2>6. Agrees(R, CheckValue(v, s, at, found(v)).problems, at)
    BY <2>2
  <2>7. PartsTold(v, s, at, R, found(v), parts, sample, m) /\ PartsMend(m, s, at, found(m))
    BY <1>1, <1>4, <2>1, <2>5, <2>6, PartsMended
  <2>8. ASSUME NEW k \in Inner(m, s) PROVE found(m)[k].problems = {}
    <3>1. CASE s.type = "object" /\ k \in DOMAIN s.properties /\ m[2][k] = sample[k]
      <4>1. PartSchema(s, k) = s.properties[k]
        BY <3>1 DEF PartSchema
      <4>2. m[2][k] = SampleRows(PartSchema(s, k))
        BY <2>4, <3>1, <4>1
      <4>3. CheckRows(SampleRows(PartSchema(s, k)), PartSchema(s, k), Append(at, k)).problems = {}
        BY <2>3, SampleAccepted
      <4> QED
        BY <2>3, <4>2, <4>3
    <3>2. CASE k \in Inner(v, s) /\ m[2][k] = parts[k]
      <4>1. Agrees(R, found(v)[k].problems, Append(at, k))
        BY <2>7, <3>2 DEF PartsTold
      <4>2. m[2][k] = MendedRows(v[2][k], PartSchema(s, k), Append(at, k), R)
        BY <2>4, <3>2
      <4>3. CheckRows(MendedRows(v[2][k], PartSchema(s, k), Append(at, k), R), PartSchema(s, k), Append(at, k)).problems = {}
        <5>1. /\ found(v)[k] = CheckRows(v[2][k], PartSchema(s, k), Append(at, k))
              /\ RowsOK(PartSchema(s, k)) /\ Keyed(PartSchema(s, k), Append(at, k)[Len(Append(at, k))])
              /\ IsPlace(Append(at, k))
          BY <2>3, <3>2
        <5>2. Agrees(R, CheckRows(v[2][k], PartSchema(s, k), Append(at, k)).problems, Append(at, k))
          BY <4>1, <5>1
        <5> QED
          BY <5>1, <5>2, RowsMended
      <4> QED
        BY <2>3, <4>2, <4>3
    <3> QED
      BY <2>7, <3>1, <3>2 DEF PartsTold
  <2>9. CheckValue(m, s, at, found(m)).problems = {}
    BY <2>7, <2>8 DEF PartsMend
  <2> QED
    BY <2>2, <2>9 DEF m
<1> QED
  BY <1>2, <1>3, <1>4

-----------------------------------------------------------------------------
(* What a report tells of a request.                                       *)

LEMMA PlacesDiffer ==
  /\ \A k, l : <<k>> = <<l>> => k = l
  /\ \A j, k, l : <<k>> # <<j, l>>
  /\ \A k, l, x, y : <<k, x>> = <<l, y>> => k = l /\ x = y
<1>1. \A k, l : <<k>> = <<l>> => k = l
  OBVIOUS
<1>2. ASSUME NEW j, NEW k, NEW l PROVE <<k>> # <<j, l>>
  <2>1. Len(<<k>>) = 1 /\ Len(<<j, l>>) = 2
    OBVIOUS
  <2> QED
    BY <2>1
<1>3. \A k, l, x, y : <<k, x>> = <<l, y>> => k = l /\ x = y
  OBVIOUS
<1> QED
  BY <1>1, <1>2, <1>3

LEMMA ParamProblems ==
  ASSUME NEW k, NEW v, NEW s
  PROVE  CheckPathParam(k, v, s).problems \in {{}, {Problem("invalid", <<k>>)}}
BY Findings DEF CheckPathParam

LEMMA OwnPlaces ==
  ASSUME NEW r, OperationOK(Op(r))
  PROVE  \A k \in DOMAIN Op(r).schema.properties : k \notin {"path", "query", "body"}
BY DEF OperationOK

\* Where a problem comes from.
Sources(r, p) ==
  \/ p.kind = "invalid" /\ (p.at \in {<<"path">>, <<"query">>} \/ \E k \in Op(r).param : p.at = <<k>>)
  \/ \E k \in DOMAIN InPath(r) \ Op(r).param : p = Problem("unknown", <<"path", k>>)
  \/ \E k \in Op(r).param \ DOMAIN Raw(r) : p = Problem("missing", <<k>>)
  \/ p \in CheckBody(Op(r), r.body).problems
  \/ p \in QueryProblems(r)

LEMMA WhereFrom ==
  ASSUME NEW r, NEW p \in Problems(r)
  PROVE  Sources(r, p)
<1>1. CASE p \in WrongBag(r.path, "path") \cup WrongBag(r.query, "query")
  <2>1. p \in {Problem("invalid", <<"path">>), Problem("invalid", <<"query">>)}
    BY <1>1 DEF WrongBag
  <2> QED
    BY <2>1, ProblemsAre DEF Sources
<1>2. CASE \E k \in DOMAIN InPath(r) \ Op(r).param : p = Problem("unknown", <<"path", k>>)
  BY <1>2 DEF Sources
<1>3. CASE \E k \in Differ(r) : p = Problem("invalid", <<k>>)
  BY <1>3, ProblemsAre DEF Sources, Differ
<1>4. CASE \E k \in Op(r).param \ DOMAIN Raw(r) : p = Problem("missing", <<k>>)
  BY <1>4 DEF Sources
<1>5. CASE \E k \in DOMAIN Raw(r) : p \in ParamOf(r, k).problems
  <2>1. PICK k \in DOMAIN Raw(r) : p \in ParamOf(r, k).problems
    BY <1>5
  <2>2. p = Problem("invalid", <<k>>) /\ k \in Op(r).param
    BY <2>1, ParamProblems DEF ParamOf, Raw
  <2> QED
    BY <2>2, ProblemsAre DEF Sources
<1>6. CASE p \in CheckBody(Op(r), r.body).problems
  BY <1>6 DEF Sources
<1>7. CASE p \in QueryProblems(r)
  BY <1>7 DEF Sources
<1> QED
  BY <1>1, <1>2, <1>3, <1>4, <1>5, <1>6, <1>7 DEF Problems

LEMMA ReadReport ==
  ASSUME NEW r, OperationOK(Op(r)), ~UsesBody(Op(r)), NEW R, R = Problems(r)
  PROVE  /\ \A k \in DOMAIN InPath(r) \ Op(r).param : Problem("unknown", <<"path", k>>) \in R
         /\ \A k \in Differ(r) : Problem("invalid", <<k>>) \in R
         /\ \A k \in Op(r).param : Problem("missing", <<k>>) \in R <=> k \notin DOMAIN Raw(r)
         /\ \A k \in DOMAIN Raw(r) : ParamOf(r, k).problems = {} \/ Problem("invalid", <<k>>) \in R
         /\ \A k \in DOMAIN InQuery(r) \ Op(r).param :
              Problem("unknown", <<k>>) \notin R /\ Problem("unknown", <<"query", k>>) \notin R
                <=> k \in DOMAIN Op(r).schema.properties
         /\ \A k \in Known(r) : QueryOf(r, k).problems = {} \/ Problem("invalid", <<k>>) \in R
         /\ \A k \in Op(r).schema.required \ Op(r).param :
              k \in DOMAIN InQuery(r) \/ Problem("missing", <<k>>) \in R
         /\ r.body = Null \/ Problem("unknown", <<"body">>) \in R
<1> DEFINE P == Op(r).param  props == DOMAIN Op(r).schema.properties
<1>1. /\ DOMAIN Asked(r) = DOMAIN InQuery(r) \ P /\ Known(r) = DOMAIN Asked(r) \cap props
      /\ Rest(Op(r)).required = Op(r).schema.required \ P
  BY RestIs DEF Asked, Only, Known
<1>2. QueryProblems(r) =
        {Problem("unknown", <<k>>) : k \in DOMAIN Asked(r) \ Known(r)}
          \cup (UNION {QueryOf(r, k).problems : k \in Known(r)})
          \cup {Problem("missing", Append(<<>>, k)) : k \in (Op(r).schema.required \ P) \ DOMAIN Asked(r)}
  BY <1>1 DEF QueryProblems, Missing
<1>3. \A k : Append(<<>>, k) = <<k>>
  OBVIOUS
<1>4. \A k \in Known(r) : QueryOf(r, k).problems \in {{}, {Problem("invalid", <<k>>)}}
  BY Places, PrimitiveWithin DEF QueryOf
<1>5. CheckBody(Op(r), r.body).problems = IF r.body = Null THEN {} ELSE {Problem("unknown", <<"body">>)}
  BY DEF CheckBody
<1>6. QueryProblems(r) \subseteq R /\ CheckBody(Op(r), r.body).problems \subseteq R
  BY DEF Problems
<1>7. \A k \in DOMAIN InPath(r) \ P : Problem("unknown", <<"path", k>>) \in R
  BY DEF Problems
<1>8. \A k \in Differ(r) : Problem("invalid", <<k>>) \in R
  BY DEF Problems
<1>9. ASSUME NEW k \in P PROVE Problem("missing", <<k>>) \in R <=> k \notin DOMAIN Raw(r)
  <2>1. k \notin DOMAIN Raw(r) => Problem("missing", <<k>>) \in R
    BY DEF Problems
  <2>2. ASSUME Problem("missing", <<k>>) \in R, k \in DOMAIN Raw(r) PROVE FALSE
    <3> DEFINE p == Problem("missing", <<k>>)
    <3>1. p.kind = "missing" /\ p.at = <<k>>
      BY ProblemsAre
    <3>2. Sources(r, p)
      BY <2>2, WhereFrom
    <3>3. p \notin QueryProblems(r)
      <4>1. \A j : p = Problem("missing", Append(<<>>, j)) => j \in P
        BY <1>3, <3>1, ProblemsAre, PlacesDiffer
      <4>2. \A j : p # Problem("unknown", <<j>>) /\ p # Problem("invalid", <<j>>)
        BY <3>1, ProblemsAre
      <4> HIDE DEF p
      <4> QED
        BY <1>2, <1>4, <4>1, <4>2
    <3>4. p \notin CheckBody(Op(r), r.body).problems
      BY <1>5, ProblemsAre
    <3>5. \A j \in P \ DOMAIN Raw(r) : p # Problem("missing", <<j>>)
      BY <2>2, ProblemsAre, PlacesDiffer
    <3>6. \A j : p # Problem("unknown", <<"path", j>>)
      BY ProblemsAre
    <3> HIDE DEF p
    <3> QED
      BY <3>1, <3>2, <3>3, <3>4, <3>5, <3>6 DEF Sources
  <2> QED
    BY <2>1, <2>2
<1>10. \A k \in DOMAIN Raw(r) : ParamOf(r, k).problems = {} \/ Problem("invalid", <<k>>) \in R
  <2> TAKE k \in DOMAIN Raw(r)
  <2>1. ParamOf(r, k).problems \in {{}, {Problem("invalid", <<k>>)}}
    BY ParamProblems DEF ParamOf
  <2>2. ParamOf(r, k).problems \subseteq R
    BY DEF Problems
  <2> QED
    BY <2>1, <2>2
<1>11. ASSUME NEW k \in DOMAIN InQuery(r) \ P
       PROVE  Problem("unknown", <<k>>) \notin R /\ Problem("unknown", <<"query", k>>) \notin R <=> k \in props
  <2>1. k \notin props => Problem("unknown", <<k>>) \in R
    BY <1>1, <1>2, <1>6
  <2>2. ASSUME k \in props, NEW p \in R, p.kind = "unknown", p.at \in {<<k>>, <<"query", k>>} PROVE FALSE
    <3>1. Sources(r, p)
      BY <2>2, WhereFrom
    <3>2. k \notin {"path", "query", "body"}
      BY <2>2, OwnPlaces
    <3>3. p \notin CheckBody(Op(r), r.body).problems
      <4>1. <<k>> # <<"body">> /\ <<"query", k>> # <<"body">>
        BY <3>2, PlacesDiffer
      <4> QED
        BY <1>5, <2>2, <4>1, ProblemsAre
    <3>4. p \notin QueryProblems(r)
      <4>1. \A j \in DOMAIN Asked(r) \ Known(r) : p # Problem("unknown", <<j>>)
        BY <1>1, <2>2, ProblemsAre, PlacesDiffer
      <4>2. \A j : p # Problem("missing", Append(<<>>, j)) /\ p # Problem("invalid", <<j>>)
        BY <2>2, ProblemsAre
      <4>3. p \notin UNION {QueryOf(r, j).problems : j \in Known(r)}
        BY <1>4, <4>2
      <4>4. p \notin {Problem("missing", Append(<<>>, j)) : j \in (Op(r).schema.required \ P) \ DOMAIN Asked(r)}
        BY <4>2
      <4>5. p \notin {Problem("unknown", <<j>>) : j \in DOMAIN Asked(r) \ Known(r)}
        BY <4>1
      <4> QED
        BY <1>2, <4>3, <4>4, <4>5
    <3>5. \A j : p # Problem("missing", <<j>>)
      BY <2>2, ProblemsAre
    <3>6. \A j : p # Problem("unknown", <<"path", j>>)
      <4> TAKE j
      <4>1. <<k>> # <<"path", j>> /\ <<"query", k>> # <<"path", j>>
        BY PlacesDiffer
      <4> QED
        BY <2>2, <4>1, ProblemsAre
    <3> QED
      BY <2>2, <3>1, <3>3, <3>4, <3>5, <3>6 DEF Sources
  <2>3. /\ Problem("unknown", <<k>>).kind = "unknown" /\ Problem("unknown", <<k>>).at = <<k>>
        /\ Problem("unknown", <<"query", k>>).kind = "unknown" /\ Problem("unknown", <<"query", k>>).at = <<"query", k>>
    BY ProblemsAre
  <2> QED
    BY <2>1, <2>2, <2>3
<1>12. \A k \in Known(r) : QueryOf(r, k).problems = {} \/ Problem("invalid", <<k>>) \in R
  BY <1>2, <1>4, <1>6
<1>13. \A k \in Op(r).schema.required \ P : k \in DOMAIN InQuery(r) \/ Problem("missing", <<k>>) \in R
  BY <1>1, <1>2, <1>3, <1>6
<1>14. r.body = Null \/ Problem("unknown", <<"body">>) \in R
  BY <1>5, <1>6
<1> QED
  BY <1>7, <1>8, <1>9, <1>10, <1>11, <1>12, <1>13, <1>14

-----------------------------------------------------------------------------
(* The second try.                                                         *)

Told(R, params) == {k \in params : Problem("missing", <<k>>) \in R \/ Problem("invalid", <<k>>) \in R}
Kept(r, R, b, label) ==
  {k \in DOMAIN Entries(b) \ Op(r).param :
     Problem("unknown", <<k>>) \notin R /\ Problem("unknown", <<label, k>>) \notin R}
Both(r, R, b) == {k \in DOMAIN Entries(b) \cap Op(r).param : Problem("invalid", <<k>>) \notin R}
MendedBag(r, R, b, label, params) ==
  [k \in Told(R, params) \cup Kept(r, R, b, label) \cup Both(r, R, b) |->
     IF k \in Told(R, params) THEN SampleField(Property(r, k)) ELSE Entries(b)[k]]
MendedBody(r, R) ==
  IF Problem("unknown", <<"body">>) \in R THEN Null
  ELSE IF r.body = Null THEN (IF UsesBody(Op(r)) THEN Sample(Rest(Op(r))) ELSE Null)
  ELSE Mended(r.body, Rest(Op(r)), <<"body">>, R)

RequestForm(r) == r = [op |-> r.op, path |-> r.path, query |-> r.query, body |-> r.body]

LEMMA RetriedIs ==
  ASSUME NEW r, RequestForm(r), NEW R
  PROVE  LET q == Retried(r, R) IN
         /\ q.op = r.op /\ q.body = MendedBody(r, R)
         /\ q.path = Obj(MendedBag(r, R, r.path, "path", Op(r).param))
         /\ q.query = Obj(MendedBag(r, R, r.query, "query", DOMAIN Op(r).schema.properties \ Op(r).param))
<1> DEFINE a == Obj(MendedBag(r, R, r.path, "path", Op(r).param))
           b == Obj(MendedBag(r, R, r.query, "query", DOMAIN Op(r).schema.properties \ Op(r).param))
           c == MendedBody(r, R)
<1>1. Retried(r, R) = [r EXCEPT !.path = a, !.query = b, !.body = c]
  BY DEF Retried, MendedBag, MendedBody, Told, Kept, Both, Property, Op
<1>2. DOMAIN r = {"op", "path", "query", "body"} /\ r = [f \in DOMAIN r |-> r[f]]
  BY DEF RequestForm
<1> HIDE DEF a, b, c
<1>3. /\ [r EXCEPT !.path = a, !.query = b, !.body = c].op = r.op
      /\ [r EXCEPT !.path = a, !.query = b, !.body = c].path = a
      /\ [r EXCEPT !.path = a, !.query = b, !.body = c].query = b
      /\ [r EXCEPT !.path = a, !.query = b, !.body = c].body = c
  BY <1>2
<1> QED
  BY <1>1, <1>3 DEF a, b, c

LEMMA SampleIsGiven == \A s : SampleField(s) # Null
<1> TAKE s
<1>1. SampleField(s)[1] \in {"number", "string", "boolean", "array", "object"}
  BY ValuesAre DEF SampleField
<1>2. Null[1] = "null"
  BY DEF Null
<1> QED
  BY <1>1, <1>2

LEMMA EntriesAreGiven == \A b : \A k \in DOMAIN Entries(b) : Entries(b)[k] # Null
BY Nothing DEF Entries

BagIs(g, r, R, b, label, params) ==
  /\ Entries(Obj(g)) = g /\ DOMAIN g = Told(R, params) \cup Kept(r, R, b, label) \cup Both(r, R, b)
  /\ \A k \in DOMAIN g : g[k] = IF k \in Told(R, params) THEN SampleField(Property(r, k)) ELSE Entries(b)[k]

LEMMA MendedBagIs ==
  ASSUME NEW r, NEW R, NEW b, NEW label, NEW params
  PROVE  BagIs(MendedBag(r, R, b, label, params), r, R, b, label, params)
<1> DEFINE g == MendedBag(r, R, b, label, params)
<1>1. /\ DOMAIN g = Told(R, params) \cup Kept(r, R, b, label) \cup Both(r, R, b)
      /\ \A k \in DOMAIN g : g[k] = IF k \in Told(R, params) THEN SampleField(Property(r, k)) ELSE Entries(b)[k]
      /\ g = [k \in DOMAIN g |-> g[k]]
  BY DEF MendedBag
<1>2. \A k \in DOMAIN g : k \in Told(R, params) \/ k \in DOMAIN Entries(b)
  BY <1>1 DEF Kept, Both
<1>3. \A k \in DOMAIN g : g[k] # Null
  BY <1>1, <1>2, SampleIsGiven, EntriesAreGiven
<1> HIDE DEF g
<1>4. Entries(Obj(g)) = g
  BY <1>1, <1>3, EntriesOf
<1> QED
  BY <1>1, <1>4 DEF BagIs, g

LEMMA SampleParam ==
  ASSUME NEW s, NEW k, ParamOK(s, k)
  PROVE  CheckPathParam(k, SampleField(s), s).problems = {}
<1> DEFINE v == SampleField(s)
<1>1. SchemaOK(s) /\ s.type \in {"integer", "string"} /\ s.type \notin Structures /\ s.type # "object"
  BY DEF ParamOK, Structures
<1>2. ValueOK(v) /\ Shaped(v, s) /\ Short(v)
  BY <1>1, SampleFieldJson, SampleFieldShaped
<1>3. IdConforms(v, s)
  BY <1>1, <1>2, Unstructured DEF IdConforms
<1>4. IF Is(v, {"number"}) THEN v[2] >= 0 ELSE SafeSegment(Text(v))
  <2>1. CASE s.type = "integer"
    <3>1. v = Num(1) /\ Num(1)[2] = 1 /\ Is(Num(1), {"number"})
      BY <2>1, ValuesAre DEF SampleField, Is
    <3> QED
      BY <3>1
  <2>2. CASE s.type = "string"
    <3> DEFINE w == IF s.enum = {} THEN "id" ELSE CHOOSE x \in s.enum : TRUE
    <3>1. v = Str(Word(w))
      BY <2>2 DEF SampleField
    <3> HIDE DEF w
    <3>2. Text(v) = Word(w) /\ ~Is(v, {"number"})
      BY <3>1, TextsAre, ValuesAre DEF Is
    <3>3. SafeSegment(Word(w))
      BY DEF SafeSegment, Word, Is
    <3> QED
      BY <3>2, <3>3
  <2> QED
    BY <1>1, <2>1, <2>2
<1> HIDE DEF v
<1> QED
  BY <1>2, <1>3, <1>4, ParamDocumented DEF v

LEMMA SampleQuery ==
  ASSUME NEW s, NEW k, SchemaOK(s), Keyed(s, k), s.type \notin Structures
  PROVE  CheckPrimitive(SampleField(s), s, <<k>>).problems = {}
<1>1. s.type # "object" /\ <<k>>[Len(<<k>>)] = k
  BY DEF Structures
<1>2. Shaped(SampleField(s), s) /\ Short(SampleField(s)) /\ ValueOK(SampleField(s))
  BY <1>1, SampleFieldShaped, SampleFieldJson
<1>3. CheckPrimitive(SampleField(s), s, <<k>>) = Valid(SampleField(s))
  BY <1>1, <1>2, PrimitiveDocumented
<1> QED
  BY <1>3, Findings

LEMMA ReadRetried ==
  ASSUME NEW r, RequestForm(r), OperationOK(Op(r)), ~UsesBody(Op(r))
  PROVE  Problems(Retried(r, Problems(r))) = {}
<1> DEFINE R == Problems(r)  q == Retried(r, R)
           P == Op(r).param  props == DOMAIN Op(r).schema.properties
           g == MendedBag(r, R, r.path, "path", P)
           h == MendedBag(r, R, r.query, "query", props \ P)
           missing(k) == Problem("missing", <<k>>) \in R
           invalid(k) == Problem("invalid", <<k>>) \in R
<1>1. /\ q.op = r.op /\ q.path = Obj(g) /\ q.query = Obj(h) /\ q.body = MendedBody(r, R)
  BY RetriedIs
<1> HIDE DEF q
<1>2. /\ \A k \in DOMAIN InPath(r) \ P : Problem("unknown", <<"path", k>>) \in R
      /\ \A k \in Differ(r) : invalid(k)
      /\ \A k \in P : missing(k) <=> k \notin DOMAIN Raw(r)
      /\ \A k \in DOMAIN Raw(r) : ParamOf(r, k).problems = {} \/ invalid(k)
      /\ \A k \in DOMAIN InQuery(r) \ P :
           Problem("unknown", <<k>>) \notin R /\ Problem("unknown", <<"query", k>>) \notin R <=> k \in props
      /\ \A k \in Known(r) : QueryOf(r, k).problems = {} \/ invalid(k)
      /\ \A k \in Op(r).schema.required \ P : k \in DOMAIN InQuery(r) \/ missing(k)
      /\ r.body = Null \/ Problem("unknown", <<"body">>) \in R
  BY ReadReport
<1>3. /\ Entries(Obj(g)) = g /\ DOMAIN g = Told(R, P) \cup Kept(r, R, r.path, "path") \cup Both(r, R, r.path)
      /\ \A k \in DOMAIN g : g[k] = IF k \in Told(R, P) THEN SampleField(Property(r, k)) ELSE InPath(r)[k]
  <2>1. BagIs(g, r, R, r.path, "path", P)
    BY MendedBagIs
  <2> HIDE DEF g, R, P
  <2> QED
    BY <2>1 DEF BagIs, InPath
<1>4. /\ Entries(Obj(h)) = h
      /\ DOMAIN h = Told(R, props \ P) \cup Kept(r, R, r.query, "query") \cup Both(r, R, r.query)
      /\ \A k \in DOMAIN h : h[k] = IF k \in Told(R, props \ P) THEN SampleField(Property(r, k)) ELSE InQuery(r)[k]
  <2>1. BagIs(h, r, R, r.query, "query", props \ P)
    BY MendedBagIs
  <2> HIDE DEF h, R, P, props
  <2> QED
    BY <2>1 DEF BagIs, InQuery
<1>5. Op(q) = Op(r) /\ InPath(q) = g /\ InQuery(q) = h
  BY <1>1, <1>3, <1>4 DEF Op, InPath, InQuery
<1>6. /\ \A k \in P : ParamOK(Op(r).schema.properties[k], k)
      /\ \A k \in props : /\ SchemaOK(Op(r).schema.properties[k]) /\ Keyed(Op(r).schema.properties[k], k)
                          /\ Op(r).schema.properties[k].type \notin Structures
      /\ P \subseteq props /\ Op(r).schema.required \subseteq props
  <2>1. SchemaOK(Op(r).schema)
    BY DEF OperationOK, WholeOK
  <2>2. Op(r).schema.required \subseteq props
    BY <2>1 DEF SchemaOK
  <2> QED
    BY <2>2, ParamsOK
<1>7. Told(R, P) = {k \in P : missing(k) \/ invalid(k)} /\ Told(R, props \ P) = {k \in props \ P : missing(k) \/ invalid(k)}
  BY DEF Told
<1>8. Kept(r, R, r.path, "path") = {}
  BY <1>2 DEF Kept, InPath
<1>9. Kept(r, R, r.query, "query") = (DOMAIN InQuery(r) \ P) \cap props
  BY <1>2 DEF Kept, InQuery
<1>10. /\ Both(r, R, r.path) = {k \in DOMAIN InPath(r) \cap P : ~invalid(k)}
       /\ Both(r, R, r.query) = {k \in DOMAIN InQuery(r) \cap P : ~invalid(k)}
  BY DEF Both, InPath, InQuery
<1>11. DOMAIN Raw(r) = P \cap (DOMAIN InPath(r) \cup DOMAIN InQuery(r))
  BY DEF Raw
<1>12. DOMAIN g \subseteq P /\ P \subseteq DOMAIN g \cup DOMAIN h
  BY <1>2, <1>3, <1>4, <1>7, <1>8, <1>10, <1>11
<1> HIDE DEF g, h, missing, invalid, R, P, props
<1>13. ASSUME NEW k \in P, k \in DOMAIN g, k \in DOMAIN h
       PROVE  g[k] = InPath(r)[k] /\ h[k] = InQuery(r)[k] /\ k \in DOMAIN InPath(r) \cap DOMAIN InQuery(r) /\ k \notin Differ(r)
  <2>1. k \in DOMAIN InQuery(r) /\ ~invalid(k) /\ h[k] = InQuery(r)[k]
    BY <1>4, <1>7, <1>9, <1>10, <1>13
  <2>2. ~missing(k) /\ k \notin Differ(r)
    BY <1>2, <1>11, <2>1 DEF P
  <2>3. k \in DOMAIN InPath(r) /\ g[k] = InPath(r)[k]
    BY <1>3, <1>7, <1>8, <1>10, <1>13, <2>1, <2>2
  <2> QED
    BY <2>1, <2>2, <2>3
<1>14. Differ(q) = {}
  <2> SUFFICES ASSUME NEW k \in P \cap DOMAIN g \cap DOMAIN h PROVE Text(g[k]) = Text(h[k])
    BY <1>5 DEF Differ, P
  <2>1. k \in P /\ k \in DOMAIN InPath(r) \cap DOMAIN InQuery(r) /\ k \notin Differ(r)
        /\ g[k] = InPath(r)[k] /\ h[k] = InQuery(r)[k]
    BY <1>13
  <2> QED
    BY <2>1 DEF Differ, P
<1>15. \A k \in P : Raw(q)[k] = IF k \notin DOMAIN h THEN g[k] ELSE h[k]
  <2>1. P \cap (DOMAIN g \cup DOMAIN h) = P
    BY <1>12
  <2>2. Raw(q) = [k \in P |-> IF k \in Differ(q) \/ k \notin DOMAIN h THEN g[k] ELSE h[k]]
    BY <1>5, <2>1 DEF Raw, P
  <2> QED
    BY <1>14, <2>2
<1>16. ASSUME NEW k \in P PROVE ParamOf(q, k).problems = {}
  <2>1. ParamOf(q, k) = CheckPathParam(k, Raw(q)[k], Op(r).schema.properties[k])
    BY <1>5 DEF ParamOf, Property
  <2>2. CASE missing(k) \/ invalid(k)
    <3>1. k \notin DOMAIN h
      <4>1. missing(k) => k \notin DOMAIN InQuery(r)
        BY <1>2, <1>11 DEF P
      <4> QED
        BY <1>4, <1>7, <1>9, <1>10, <2>2, <4>1
    <3>2. k \in DOMAIN g /\ g[k] = SampleField(Op(r).schema.properties[k])
      BY <1>3, <1>7, <2>2 DEF Property
    <3>3. Raw(q)[k] = SampleField(Op(r).schema.properties[k])
      BY <1>15, <3>1, <3>2
    <3>4. ParamOK(Op(r).schema.properties[k], k)
      BY <1>6
    <3> QED
      BY <2>1, <3>3, <3>4, SampleParam
  <2>3. CASE ~missing(k) /\ ~invalid(k)
    <3>1. k \in DOMAIN Raw(r) /\ k \notin Differ(r) /\ ParamOf(r, k).problems = {}
      BY <1>2, <2>3 DEF P
    <3>2. Raw(r)[k] = IF k \notin DOMAIN InQuery(r) THEN InPath(r)[k] ELSE InQuery(r)[k]
      BY <3>1, <1>11 DEF Raw, P
    <3>3. k \in DOMAIN h <=> k \in DOMAIN InQuery(r)
      BY <1>4, <1>7, <1>9, <1>10, <2>3
    <3>4. k \in DOMAIN h => h[k] = InQuery(r)[k]
      BY <1>4, <1>7
    <3>5. k \notin DOMAIN h => g[k] = InPath(r)[k]
      BY <1>3, <1>7, <1>12, <2>3
    <3>6. Raw(q)[k] = Raw(r)[k]
      BY <1>15, <3>2, <3>3, <3>4, <3>5
    <3> QED
      BY <2>1, <3>1, <3>6 DEF ParamOf, Property
  <2> QED
    BY <2>2, <2>3
<1>17. DOMAIN h \subseteq P \cup props
  BY <1>4, <1>7, <1>9, <1>10
<1>18. ASSUME NEW k \in DOMAIN h \ P PROVE QueryOf(q, k).problems = {}
  <2>1. DOMAIN Asked(q) = DOMAIN h \ P /\ Asked(q)[k] = h[k]
    <3>1. Asked(q) = Only(h, DOMAIN h \ P)
      BY <1>5 DEF Asked, P
    <3> QED
      BY <3>1 DEF Only
  <2>2. QueryOf(q, k) = CheckPrimitive(h[k], Op(r).schema.properties[k], <<k>>) /\ k \in props
    BY <1>5, <1>17, <2>1 DEF QueryOf, Property
  <2>3. CASE missing(k) \/ invalid(k)
    <3>1. h[k] = SampleField(Op(r).schema.properties[k])
      BY <1>4, <1>7, <2>2, <2>3 DEF Property
    <3> QED
      BY <1>6, <2>2, <3>1, SampleQuery
  <2>4. CASE ~missing(k) /\ ~invalid(k)
    <3>1. k \in DOMAIN InQuery(r) \ P /\ h[k] = InQuery(r)[k]
      BY <1>4, <1>7, <1>9, <1>10, <2>4
    <3>2. k \in DOMAIN Asked(r) /\ Asked(r)[k] = h[k] /\ k \in Known(r)
      BY <2>2, <3>1 DEF Asked, Only, Known, P, props
    <3>3. QueryOf(r, k).problems = {}
      BY <1>2, <2>4, <3>2
    <3> QED
      BY <2>2, <3>2, <3>3 DEF QueryOf, Property
  <2> QED
    BY <2>3, <2>4
<1>19. Op(r).schema.required \ P \subseteq DOMAIN h
  <2> SUFFICES ASSUME NEW k \in Op(r).schema.required \ P PROVE k \in DOMAIN h
    OBVIOUS
  <2>1. k \in props \ P
    BY <1>6
  <2>2. missing(k) \/ k \in DOMAIN InQuery(r)
    BY <1>2 DEF P
  <2> QED
    BY <1>4, <1>7, <1>9, <2>1, <2>2
<1>20. CheckBody(Op(q), q.body).problems = {}
  <2>1. q.body = Null
    BY <1>1, <1>2 DEF MendedBody
  <2> QED
    BY <1>5, <2>1 DEF CheckBody
<1>21. Is(q.path, {"object", "null"}) /\ Is(q.query, {"object", "null"})
  BY <1>1, ValuesAre DEF Is
<1>22. Fine(q)
  BY <1>5, <1>12, <1>14, <1>16, <1>17, <1>18, <1>19, <1>20, <1>21 DEF Fine, P, props
<1> QED
  BY <1>5, <1>22, FineOrNot DEF q, R

LEMMA BodyWithin ==
  ASSUME NEW op, OperationOK(op), UsesBody(op), NEW body
  PROVE  AllWithin(CheckBody(op, body).problems, <<"body">>)
<1>1. IsPlace(<<"body">>) /\ WholeOK(Rest(op))
  BY Places, RestIs
<1>2. CASE body = Null
  <2>1. \A k : Within(Problem("missing", Append(<<"body">>, k)), <<"body">>)
    <3> TAKE k
    <3>1. Under(Append(<<"body">>, k), <<"body">>) /\ Len(Append(<<"body">>, k)) > Len(<<"body">>)
      BY <1>1, UnderPart, PlaceOfPart
    <3> QED
      BY <3>1, ProblemsAre DEF Within
  <2>2. CheckBody(op, body).problems = Missing(<<>>, Rest(op), <<"body">>, {})
    BY <1>2 DEF CheckBody
  <2> QED
    BY <2>1, <2>2 DEF Missing, AllWithin
<1>3. CASE body # Null
  <2>1. CheckBody(op, body) = CheckWhole(body, Rest(op), <<"body">>)
    BY <1>3 DEF CheckBody
  <2> QED
    BY <1>1, <2>1, WholeWithin
<1> QED
  BY <1>2, <1>3

LEMMA NullRefused ==
  ASSUME NEW s, s.type = "object", NEW at
  PROVE  CheckWhole(Null, s, at).problems # {}
<1>1. ~Structured(Null, s)
  BY DEF Structured, Is, Null
<1>2. CheckWhole(Null, s, at) = CheckPrimitive(Null, s, at)
  BY <1>1 DEF CheckWhole, CheckValue
<1>3. ~Coercible(Null, s.type)
  BY DEF Coercible
<1>4. CheckWhole(Null, s, at) = Invalid(at)
  BY <1>2, <1>3 DEF CheckPrimitive
<1> QED
  BY <1>4, Findings

LEMMA WriteReport ==
  ASSUME NEW r, OperationOK(Op(r)), UsesBody(Op(r)), NEW R, R = Problems(r)
  PROVE  /\ \A k \in DOMAIN InPath(r) : Problem("unknown", <<"path", k>>) \in R
         /\ \A k \in DOMAIN InQuery(r) : Problem("unknown", <<"query", k>>) \in R
         /\ Told(R, DOMAIN Op(r).schema.properties) = {}
         /\ Problem("unknown", <<"body">>) \notin R
         /\ Agrees(R, CheckBody(Op(r), r.body).problems, <<"body">>)
<1>1. Op(r).param = {}
  BY ParamsOK DEF OperationOK
<1>2. DOMAIN Asked(r) = DOMAIN InQuery(r)
  BY <1>1 DEF Asked, Only
<1>3. QueryProblems(r) = {Problem("unknown", <<"query", k>>) : k \in DOMAIN InQuery(r)}
  BY <1>2 DEF QueryProblems
<1>4. QueryProblems(r) \subseteq R /\ CheckBody(Op(r), r.body).problems \subseteq R
  BY DEF Problems
<1>5. \A k \in DOMAIN InPath(r) : Problem("unknown", <<"path", k>>) \in R
  BY <1>1 DEF Problems
<1>6. AllWithin(CheckBody(Op(r), r.body).problems, <<"body">>)
  BY BodyWithin
<1>7. ASSUME NEW p \in R
      PROVE  \/ p.kind = "invalid" /\ p.at \in {<<"path">>, <<"query">>}
             \/ \E k : p.kind = "unknown" /\ p.at \in {<<"path", k>>, <<"query", k>>}
             \/ p \in CheckBody(Op(r), r.body).problems
  <2>1. Sources(r, p)
    BY WhereFrom
  <2>2. ASSUME p \in QueryProblems(r) PROVE \E k : p.kind = "unknown" /\ p.at = <<"query", k>>
    <3>1. PICK k : p = Problem("unknown", <<"query", k>>)
      BY <1>3, <2>2
    <3>2. p.kind = "unknown" /\ p.at = <<"query", k>>
      BY <3>1, ProblemsAre
    <3> QED
      BY <3>2
  <2>3. ASSUME NEW k, p = Problem("unknown", <<"path", k>>) PROVE p.kind = "unknown" /\ p.at = <<"path", k>>
    BY <2>3, ProblemsAre
  <2> QED
    BY <1>1, <2>1, <2>2, <2>3 DEF Sources
<1>8. Len(<<"body">>) = 1 /\ <<"body">>[1] = "body" /\ \A x : Under(x, <<"body">>) => x[1] = "body"
  BY DEF Under
<1>9. \A x, y : <<x>>[1] = x /\ <<x, y>>[1] = x
  OBVIOUS
<1>10. ASSUME NEW p \in R, Under(p.at, <<"body">>) PROVE p \in CheckBody(Op(r), r.body).problems
  <2>1. p.at[1] = "body"
    BY <1>8, <1>10
  <2>2. p.at \notin {<<"path">>, <<"query">>} /\ \A k : p.at \notin {<<"path", k>>, <<"query", k>>}
    BY <1>9, <2>1
  <2> QED
    BY <1>7, <2>2
<1>11. Agrees(R, CheckBody(Op(r), r.body).problems, <<"body">>)
  BY <1>4, <1>10 DEF Agrees
<1>12. Problem("unknown", <<"body">>) \notin R
  <2> SUFFICES ASSUME Problem("unknown", <<"body">>) \in R PROVE FALSE
    OBVIOUS
  <2>1. Problem("unknown", <<"body">>).at = <<"body">> /\ Problem("unknown", <<"body">>).kind = "unknown"
    BY ProblemsAre
  <2>2. Under(<<"body">>, <<"body">>)
    BY Places, UnderPart
  <2>3. Problem("unknown", <<"body">>) \in CheckBody(Op(r), r.body).problems
    BY <1>10, <2>1, <2>2
  <2>4. Within(Problem("unknown", <<"body">>), <<"body">>)
    BY <1>6, <2>3 DEF AllWithin
  <2>5. Len(<<"body">>) > Len(<<"body">>)
    BY <2>1, <2>4 DEF Within
  <2> QED
    BY <1>8, <2>5
<1>13. ASSUME NEW k \in DOMAIN Op(r).schema.properties, NEW p \in R, p.at = <<k>> PROVE FALSE
  <2>1. k \notin {"path", "query", "body"}
    BY OwnPlaces
  <2>2. <<k>> \notin {<<"path">>, <<"query">>} /\ \A j : <<k>> \notin {<<"path", j>>, <<"query", j>>}
    BY <2>1, PlacesDiffer
  <2>3. p \in CheckBody(Op(r), r.body).problems
    BY <1>7, <1>13, <2>2
  <2>4. p.at[1] = "body"
    BY <1>6, <1>8, <2>3 DEF AllWithin, Within
  <2> QED
    BY <1>9, <1>13, <2>1, <2>4
<1>14. Told(R, DOMAIN Op(r).schema.properties) = {}
  BY <1>13, ProblemsAre DEF Told
<1> QED
  BY <1>3, <1>4, <1>5, <1>11, <1>12, <1>14

LEMMA BodyMended ==
  ASSUME NEW r, OperationOK(Op(r)), UsesBody(Op(r)), NEW R, R = Problems(r)
  PROVE  CheckBody(Op(r), MendedBody(r, R)).problems = {}
<1> DEFINE op == Op(r)  s == Rest(op)  m == MendedBody(r, R)
<1>1. WholeOK(s) /\ s.type = "object" /\ IsPlace(<<"body">>) /\ Keyed(s, <<"body">>[Len(<<"body">>)])
  BY RestIs, Places DEF Keyed
<1>2. Problem("unknown", <<"body">>) \notin R /\ Agrees(R, CheckBody(op, r.body).problems, <<"body">>)
  BY WriteReport
<1> HIDE DEF s
<1>3. CheckWhole(m, s, <<"body">>).problems = {}
  <2>1. CASE r.body = Null
    <3>1. m = Sample(s)
      BY <1>2, <2>1 DEF MendedBody, s
    <3> QED
      BY <1>1, <3>1, SampleAccepted
  <2>2. CASE r.body # Null
    <3>1. m = Mended(r.body, s, <<"body">>, R) /\ CheckBody(op, r.body) = CheckWhole(r.body, s, <<"body">>)
      BY <1>2, <2>2 DEF MendedBody, CheckBody, s
    <3>2. Agrees(R, CheckWhole(r.body, s, <<"body">>).problems, <<"body">>)
      BY <1>2, <3>1
    <3> HIDE DEF m
    <3> QED
      BY <1>1, <3>1, <3>2, WholeMended
  <2> QED
    BY <2>1, <2>2
<1> HIDE DEF m
<1>4. m # Null
  BY <1>1, <1>3, NullRefused
<1>5. CheckBody(op, m) = CheckWhole(m, s, <<"body">>)
  BY <1>4 DEF CheckBody, s
<1> QED
  BY <1>3, <1>5 DEF m

LEMMA WriteRetried ==
  ASSUME NEW r, RequestForm(r), OperationOK(Op(r)), UsesBody(Op(r))
  PROVE  Problems(Retried(r, Problems(r))) = {}
<1> DEFINE R == Problems(r)  q == Retried(r, R)
           props == DOMAIN Op(r).schema.properties
           g == MendedBag(r, R, r.path, "path", Op(r).param)
           h == MendedBag(r, R, r.query, "query", props \ Op(r).param)
<1>1. q.op = r.op /\ q.path = Obj(g) /\ q.query = Obj(h) /\ q.body = MendedBody(r, R)
  BY RetriedIs
<1>2. Op(r).param = {}
  BY ParamsOK DEF OperationOK
<1>3. /\ \A k \in DOMAIN InPath(r) : Problem("unknown", <<"path", k>>) \in R
      /\ \A k \in DOMAIN InQuery(r) : Problem("unknown", <<"query", k>>) \in R
      /\ Told(R, props) = {}
  BY WriteReport
<1>4. BagIs(g, r, R, r.path, "path", Op(r).param) /\ BagIs(h, r, R, r.query, "query", props \ Op(r).param)
  BY MendedBagIs
<1>5. CheckBody(Op(r), MendedBody(r, R)).problems = {}
  BY BodyMended
<1> HIDE DEF q, g, h, R
<1>6. Entries(Obj(g)) = g /\ DOMAIN g = {}
  <2>1. Told(R, Op(r).param) = {}
    BY <1>2 DEF Told
  <2>2. Kept(r, R, r.path, "path") = {} /\ Both(r, R, r.path) = {}
    BY <1>2, <1>3 DEF Kept, Both, InPath
  <2> QED
    BY <1>4, <2>1, <2>2 DEF BagIs
<1>7. Entries(Obj(h)) = h /\ DOMAIN h = {}
  <2>1. Told(R, props \ Op(r).param) = {}
    BY <1>3 DEF Told
  <2>2. Kept(r, R, r.query, "query") = {} /\ Both(r, R, r.query) = {}
    BY <1>2, <1>3 DEF Kept, Both, InQuery
  <2> QED
    BY <1>4, <2>1, <2>2 DEF BagIs
<1>8. Op(q) = Op(r) /\ InPath(q) = g /\ InQuery(q) = h
  BY <1>1, <1>6, <1>7 DEF Op, InPath, InQuery
<1>9. Differ(q) = {}
  BY <1>2, <1>8 DEF Differ
<1>10. Is(q.path, {"object", "null"}) /\ Is(q.query, {"object", "null"})
  BY <1>1, ValuesAre DEF Is
<1>11. Fine(q)
  BY <1>1, <1>2, <1>5, <1>6, <1>7, <1>8, <1>9, <1>10 DEF Fine
<1> QED
  BY <1>8, <1>11, FineOrNot DEF q, R

\* For every registry of that shape: whatever a model sent, correcting what the
\* report names, and only that, makes a request that is accepted
\* (validateOperationInput and its comment, problemMessage).
THEOREM SecondTryIsAccepted == InputSpec => []OneRetryIsEnough
<1>1. InputInv => OneRetryIsEnough
  <2> SUFFICES ASSUME InputInv, answer # <<>>, answer.result.problems # {}, ~Refuses(answer.tool, request)
               PROVE  Validate(Retried(request, answer.result.problems)).problems = {}
    BY DEF OneRetryIsEnough
  <2>1. PICK tool \in InputTools :
          answer = [tool |-> tool, result |-> IF Refuses(tool, request) THEN Refused ELSE Validate(request)]
    BY DEF InputInv
  <2>2. answer.tool = tool /\ answer.result = Validate(request)
    BY <2>1
  <2>3. answer.result.problems = Problems(request)
    BY <2>2, ValidateIs
  <2>4. OperationOK(Op(request)) /\ RequestForm(request)
    BY InputAssumption DEF InputInv, Op, RequestForm
  <2>5. Problems(Retried(request, Problems(request))) = {}
    BY <2>4, ReadRetried, WriteRetried
  <2>6. \A q : Validate(q).problems = Problems(q)
    BY ValidateIs
  <2> QED
    BY <2>3, <2>5, <2>6
<1> QED
  BY <1>1, AnswerIsOfItsRequest, PTL
=============================================================================
