----------------------------- MODULE SearchBox -----------------------------
(***************************************************************************)
(* The search box of a list (widgets/src/components/SearchInput.tsx): the  *)
(* text the user sees, the text its debouncer let through last, what it    *)
(* asked the page to search, and the search the page shows.                *)
(*                                                                         *)
(* The debouncer is the library's (react-pacer): each change of the text   *)
(* starts its timer again, and it gives out the text of that moment.  The  *)
(* page takes a search over by a navigation, which a later one overtakes.  *)
(***************************************************************************)
CONSTANTS
  Words,   \* bound: the texts, trimmed
  Empty,   \* the empty one
  Nothing

VARIABLES
  value,      \* the search of the page the box is rendered with
  text,       \* [word, padded]: what the user sees
  debounced,  \* the text the debouncer gave out last
  timer,      \* its timer runs
  emitted,    \* the search last passed to the page or taken from it
  going,      \* the search of the navigation under way, or Nothing
  own         \* history: the searches the user gave since a page replaced the text

searchVars == <<value, text, debounced, timer, emitted, going, own>>

Plain(w) == [word |-> w, padded |-> FALSE]
Text == [word : Words, padded : BOOLEAN]
Trim(t) == t.word

SearchTypeOK ==
  /\ value \in Words /\ emitted \in Words /\ going \in Words \cup {Nothing}
  /\ text \in Text /\ debounced \in Text
  /\ timer \in BOOLEAN /\ own \in SUBSET Words

SearchInit ==
  /\ value \in Words
  /\ text = Plain(value) /\ debounced = text /\ emitted = value
  /\ timer = FALSE /\ going = Nothing /\ own = {}

-----------------------------------------------------------------------------
\* onChange: the page navigates.
Emits(w) == emitted' = w /\ going' = w

\* A changed text starts the timer.
Shows(t) == text' = t /\ timer' = (timer \/ t # text)

Type(t) ==
  /\ t # text
  /\ Shows(t)
  /\ own' = own \cup {Trim(t)}
  /\ UNCHANGED <<value, debounced, emitted, going>>

\* The timer ends, or Enter flushes it.  The effect runs when what the debouncer
\* gives out differs from the time before.
Fires ==
  /\ timer
  /\ timer' = FALSE /\ debounced' = text
  /\ IF debounced' # debounced /\ Trim(text) # emitted THEN Emits(Trim(text))
     ELSE UNCHANGED <<emitted, going>>
  /\ UNCHANGED <<value, text, own>>

\* clear: the button, or Escape.
Clear ==
  /\ text # Plain(Empty)
  /\ text' = Plain(Empty) /\ timer' = TRUE
  /\ IF emitted # Empty THEN Emits(Empty) ELSE UNCHANGED <<emitted, going>>
  /\ own' = own \cup {Empty}
  /\ UNCHANGED <<value, debounced>>

\* Mutant: the box does not note what an outside change made of it.
RenderedForgetful(w) == Shows(Plain(w)) /\ own' = {} /\ UNCHANGED emitted

\* The page's search changed, and not to what the box asked for last.
Rendered(w) == emitted' = w /\ Shows(Plain(w)) /\ own' = {}

Takes(w) ==
  /\ value' = w /\ going' = Nothing
  /\ IF w # emitted THEN Rendered(w) ELSE UNCHANGED <<emitted, text, timer, own>>
  /\ UNCHANGED debounced

Arrives == going # Nothing /\ Takes(going)

\* The user follows a link to another search, or resets it.
Outside(w) == w # value /\ Takes(w)

SearchNext ==
  \/ \E t \in Text : Type(t)
  \/ Fires \/ Clear \/ Arrives
  \/ \E w \in Words : Outside(w)

SearchSpec == SearchInit /\ [][SearchNext]_searchVars

-----------------------------------------------------------------------------
(* Properties.                                                             *)

\* An outside change replaces the text without echoing it back, and the box
\* knows what the list shows or is about to show: only what the user typed or
\* cleared since then is searched (SearchInput's effects).
OnlyTypedIsSearched ==
  /\ going # Nothing => going \in own
  /\ emitted = IF going = Nothing THEN value ELSE going

\* Once typing pauses, the list shows what the box says: what the comment on
\* onChange promises.
QuietBoxIsSearched == ~timer /\ going = Nothing => value = Trim(text)
=============================================================================
