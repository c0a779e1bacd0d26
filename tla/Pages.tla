------------------------------- MODULE Pages --------------------------------
(***************************************************************************)
(* The pages of the widget: their filters, as Navigation has them, and the *)
(* box above their lists, as SearchBox has it.  A page and its box share   *)
(* nothing but the text (widgets/src/routes/stok.tsx), and each moves on   *)
(* its own.                                                                *)
(***************************************************************************)
EXTENDS Navigation

CONSTANTS
  Words,    \* bound: the texts of the box, trimmed
  NoWord    \* the empty one

ASSUME PagesAssumption == NoWord \in Words /\ Unset \notin Words

VARIABLES value, text, debounced, timer, emitted, going, own   \* SearchBox

B == INSTANCE SearchBox WITH Empty <- NoWord, Nothing <- Unset

boxVars == <<value, text, debounced, timer, emitted, going, own>>

PagesInit == NavigationInit /\ B!SearchInit
PagesNext ==
  \/ NavigationNext /\ UNCHANGED boxVars
  \/ B!SearchNext /\ UNCHANGED navigationVars
PagesSpec == PagesInit /\ [][PagesNext]_<<navigationVars, boxVars>>

\* What the owner chose or typed is what the next page asks for: a filter set is
\* kept through links and midnights (FiltersAreKept), and the search box of a
\* list neither echoes what a link set nor loses track of it (OnlyTypedIsSearched).
ChoicesAreKept == FiltersAreKept /\ B!OnlyTypedIsSearched

\* QuietBoxIsSearched of the search box.
QuietBoxIsSearched == B!QuietBoxIsSearched
=============================================================================
