------------------------- MODULE LibrarySelection -------------------------
(***************************************************************************)
(* AddLibsToCombo (DlgConsole.cpp): the rows of the library query are put  *)
(* in the combobox one by one, and while they go by the loop decides, with *)
(* three flags, which one to leave selected.  A row may be selected and    *)
(* overridden several times before the query is done, so what the user     *)
(* ends up with depends on the order of the rows.                          *)
(***************************************************************************)
EXTENDS SnippetTables

CONSTANTS
  Queries,      \* row sequences the query may return
  LastUsedIDs   \* values of lastUsed: library ids, or -1 when none is stored

JoinedRow == [lib : LibraryRow, Lang : LangIDs]

ASSUME SelectionAssumption ==
  /\ Queries \subseteq Seq(JoinedRow)
  /\ LastUsedIDs \subseteq LibraryIDs \cup {-1}

VARIABLES
  rows,                 \* the result of the query
  lastUsed,             \* int lastUsed
  fetched,              \* rows the loop has gone through
  first,                \* bool first
  firstLanguage,        \* bool firstLanguage
  selectedUsersChoice,  \* bool selectedUsersChoice
  selected              \* CB_GETCURSEL and s_curLibrary, 0 for none

vars == <<rows, lastUsed, fetched, first, firstLanguage, selectedUsersChoice,
          selected>>

Init ==
  /\ rows \in Queries
  /\ lastUsed \in LastUsedIDs
  /\ fetched = 0
  /\ first = TRUE
  /\ firstLanguage = FALSE
  /\ selectedUsersChoice = FALSE
  /\ selected = 0

(* GetNextRecord: the row the loop body now handles. *)
Current == rows[fetched + 1]

Fetch ==
  /\ fetched < Len(rows)
  /\ fetched' = fetched + 1
  /\ first' = FALSE
  /\ UNCHANGED <<rows, lastUsed>>

SelectRow == selected' = fetched + 1
SelectRowIfFirst == selected' = IF first THEN fetched + 1 ELSE selected

(* The library the user picked last for this language. *)
FetchUsersChoice ==
  /\ Fetch
  /\ ~selectedUsersChoice /\ Current.lib.LibraryID = lastUsed
  /\ selectedUsersChoice' = TRUE
  /\ SelectRow
  /\ UNCHANGED firstLanguage

(* The first library that is for a language of its own. *)
FetchFirstLanguage_EveryOne ==
  /\ Fetch
  /\ ~selectedUsersChoice /\ Current.lib.LibraryID # lastUsed
  /\ Current.Lang >= 0
  /\ firstLanguage' = TRUE
  /\ SelectRow
  /\ UNCHANGED selectedUsersChoice

FetchFirstLanguage ==
  /\ Fetch
  /\ ~selectedUsersChoice /\ Current.lib.LibraryID # lastUsed
  /\ ~firstLanguage /\ Current.Lang >= 0
  /\ firstLanguage' = TRUE
  /\ SelectRow
  /\ UNCHANGED selectedUsersChoice

(* Any other row is selected only when it is the first one. *)
FetchOther ==
  /\ Fetch
  /\ \/ selectedUsersChoice
     \/ /\ Current.lib.LibraryID # lastUsed
        /\ firstLanguage \/ Current.Lang < 0
  /\ SelectRowIfFirst
  /\ UNCHANGED <<firstLanguage, selectedUsersChoice>>

Done == fetched = Len(rows)

Next == FetchUsersChoice \/ FetchFirstLanguage \/ FetchOther

Spec == Init /\ [][Next]_vars

-----------------------------------------------------------------------------
TypeOK ==
  /\ rows \in Seq(JoinedRow)
  /\ lastUsed \in LibraryIDs \cup {-1}
  /\ fetched \in 0..Len(rows)
  /\ first \in BOOLEAN
  /\ firstLanguage \in BOOLEAN
  /\ selectedUsersChoice \in BOOLEAN
  /\ selected \in 0..fetched

(* What the three flags remember of the rows gone through.                  *)
FlagsMatchRows ==
  /\ first <=> fetched = 0
  /\ selectedUsersChoice <=>
       \E i \in 1..fetched : rows[i].lib.LibraryID = lastUsed
  /\ ~selectedUsersChoice =>
       (firstLanguage <=> \E i \in 1..fetched : rows[i].Lang >= 0)
  /\ firstLanguage => \E i \in 1..fetched : rows[i].Lang >= 0

(* The row those flags leave selected.                                      *)
SelectedSoFar ==
  /\ selectedUsersChoice =>
       /\ selected \in 1..fetched
       /\ rows[selected].lib.LibraryID = lastUsed
       /\ \A i \in 1..(selected - 1) : rows[i].lib.LibraryID # lastUsed
  /\ ~selectedUsersChoice /\ firstLanguage =>
       /\ selected \in 1..fetched
       /\ rows[selected].Lang >= 0
       /\ \A i \in 1..(selected - 1) : rows[i].Lang < 0
  /\ ~selectedUsersChoice /\ ~firstLanguage =>
       selected = IF fetched = 0 THEN 0 ELSE 1

(* The loop invariant: it makes SelectsChoice inductive.                    *)
LoopInvariant == TypeOK /\ FlagsMatchRows /\ SelectedSoFar

(* The library left selected when the rows are through is the one last used *)
(* for the language, else the first language-specific one, else the first   *)
(* (AddLibsToCombo; changelog 1.1.0 and 0.4.0).                             *)
SelectsChoice == Done => selected = Choice(rows, lastUsed)

=============================================================================
