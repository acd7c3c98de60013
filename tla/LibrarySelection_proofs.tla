---------------------- MODULE LibrarySelection_proofs ----------------------
(***************************************************************************)
(* AddLibsToCombo leaves selected what Choice says, for every result of    *)
(* the query: the loop invariant and its proof.                            *)
(***************************************************************************)
EXTENDS LibrarySelection, TLAPS

(* The least element of a set that a least element is known of. *)
LEMMA MinIs ==
  ASSUME NEW S \in SUBSET Int, NEW m \in S, \A x \in S : m <= x
  PROVE  Min(S) = m
<1> DEFINE Least(x) == \A y \in S : x <= y
<1>1. Least(m)
  OBVIOUS
<1>2. Min(S) = CHOOSE x \in S : Least(x)
  BY Zenon DEF Min
<1> HIDE DEF Least
<1>3. (CHOOSE x \in S : Least(x)) \in S /\ Least(CHOOSE x \in S : Least(x))
  BY <1>1, Zenon
<1>4. Min(S) \in S /\ Least(Min(S))
  BY <1>2, <1>3, Zenon
<1>5. Min(S) <= m
  BY <1>4 DEF Least
<1>6. m <= Min(S) /\ Min(S) \in Int
  BY <1>4
<1>7. QED
  BY <1>5, <1>6

(* What the types say of the rows. *)
LEMMA RowsTyped ==
  ASSUME TypeOK
  PROVE  /\ Len(rows) \in Nat
         /\ \A i \in 1..Len(rows) : rows[i].Lang \in Int
<1>1. Len(rows) \in Nat /\ \A i \in 1..Len(rows) : rows[i] \in JoinedRow
  BY DEF TypeOK
<1>2. LangIDs \subseteq Int
  BY TablesAssumption DEF LangIDs, NoOtherLib, AllLanguages
<1>3. QED
  BY <1>1, <1>2 DEF JoinedRow

(* One turn of the loop keeps the types. *)
LEMMA TypePreserved ==
  ASSUME TypeOK, [Next]_vars
  PROVE  TypeOK'
<1> USE DEF TypeOK
<1>0. Len(rows) \in Nat /\ fetched \in Nat
  BY RowsTyped
<1>1. CASE FetchUsersChoice
  <2>1. UNCHANGED <<rows, lastUsed, firstLanguage>> /\ first' = FALSE /\ selectedUsersChoice' = TRUE
    BY <1>1 DEF FetchUsersChoice, Fetch
  <2>2. fetched < Len(rows) /\ fetched' = fetched + 1 /\ selected' = fetched + 1
    BY <1>1 DEF FetchUsersChoice, Fetch, SelectRow
  <2>3. fetched' \in 0..Len(rows) /\ selected' \in 0..fetched'
    BY <2>2, <1>0
  <2>4. QED
    BY <2>1, <2>3
<1>2. CASE FetchFirstLanguage
  <2>1. UNCHANGED <<rows, lastUsed, selectedUsersChoice>> /\ first' = FALSE /\ firstLanguage' = TRUE
    BY <1>2 DEF FetchFirstLanguage, Fetch
  <2>2. fetched < Len(rows) /\ fetched' = fetched + 1 /\ selected' = fetched + 1
    BY <1>2 DEF FetchFirstLanguage, Fetch, SelectRow
  <2>3. fetched' \in 0..Len(rows) /\ selected' \in 0..fetched'
    BY <2>2, <1>0
  <2>4. QED
    BY <2>1, <2>3
<1>3. CASE FetchOther
  <2>1. UNCHANGED <<rows, lastUsed, firstLanguage, selectedUsersChoice>> /\ first' = FALSE
    BY <1>3 DEF FetchOther, Fetch
  <2>2. fetched < Len(rows) /\ fetched' = fetched + 1 /\ selected' \in {selected, fetched + 1}
    BY <1>3 DEF FetchOther, Fetch, SelectRowIfFirst
  <2>3. fetched' \in 0..Len(rows) /\ selected' \in 0..fetched'
    BY <2>2, <1>0
  <2>4. QED
    BY <2>1, <2>3
<1>4. CASE UNCHANGED vars
  BY <1>4 DEF vars
<1>5. QED
  BY <1>1, <1>2, <1>3, <1>4 DEF Next

(* The loop starts with the types right and nothing selected. *)
LEMMA InitLoop == Init => LoopInvariant
<1> SUFFICES ASSUME Init PROVE LoopInvariant
  OBVIOUS
<1>1. TypeOK
  <2>1. rows \in Seq(JoinedRow) /\ lastUsed \in LibraryIDs \cup {-1}
    BY SelectionAssumption DEF Init
  <2>2. Len(rows) \in Nat
    BY <2>1
  <2>3. first \in BOOLEAN /\ firstLanguage \in BOOLEAN /\ selectedUsersChoice \in BOOLEAN
    BY Zenon DEF Init
  <2>4. fetched \in 0..Len(rows) /\ selected \in 0..fetched
    BY <2>2 DEF Init
  <2>5. QED
    BY <2>1, <2>3, <2>4, Zenon DEF TypeOK
<1>2. FlagsMatchRows
  BY DEF Init, FlagsMatchRows
<1>3. SelectedSoFar
  BY DEF Init, SelectedSoFar
<1>4. QED
  BY <1>1, <1>2, <1>3 DEF LoopInvariant

(* A turn of the loop keeps what the flags remember and what is selected. *)
LEMMA LoopPreserved ==
  ASSUME LoopInvariant, [Next]_vars
  PROVE  LoopInvariant'
<1>1. TypeOK'
  BY TypePreserved DEF LoopInvariant
<1> USE DEF LoopInvariant, TypeOK
<1>2. CASE FetchUsersChoice
  <2>1. /\ fetched' = fetched + 1 /\ fetched' \in 1..Len(rows)
        /\ rows' = rows /\ lastUsed' = lastUsed /\ first' = FALSE
        /\ firstLanguage' = firstLanguage /\ selectedUsersChoice' = TRUE
        /\ selected' = fetched + 1 /\ ~selectedUsersChoice
        /\ rows[fetched + 1].lib.LibraryID = lastUsed
    BY <1>2, <1>1 DEF FetchUsersChoice, Fetch, SelectRow, Current
  <2>2. FlagsMatchRows'
    BY <2>1 DEF FlagsMatchRows
  <2>3. SelectedSoFar'
    BY <2>1 DEF FlagsMatchRows, SelectedSoFar
  <2>4. QED
    BY <1>1, <2>2, <2>3
<1>3. CASE FetchFirstLanguage
  <2>1. /\ fetched' = fetched + 1 /\ fetched' \in 1..Len(rows)
        /\ rows' = rows /\ lastUsed' = lastUsed /\ first' = FALSE
        /\ firstLanguage' = TRUE /\ selectedUsersChoice' = FALSE
        /\ selected' = fetched + 1 /\ ~selectedUsersChoice /\ ~firstLanguage
        /\ rows[fetched + 1].lib.LibraryID # lastUsed
        /\ rows[fetched + 1].Lang >= 0
    BY <1>3, <1>1 DEF FetchFirstLanguage, Fetch, SelectRow, Current
  <2>2. FlagsMatchRows'
    BY <2>1 DEF FlagsMatchRows
  <2>3. SelectedSoFar'
    <3>1. ASSUME NEW i \in 1..fetched PROVE rows[i].Lang < 0
      <4>1. i \in 1..Len(rows) /\ ~(rows[i].Lang >= 0)
        BY <2>1, <3>1 DEF FlagsMatchRows
      <4>2. QED
        BY <4>1, RowsTyped
    <3>2. QED
      BY <2>1, <3>1 DEF SelectedSoFar
  <2>4. QED
    BY <1>1, <2>2, <2>3
<1>4. CASE FetchOther
  <2>1. /\ fetched' = fetched + 1 /\ fetched' \in 1..Len(rows)
        /\ rows' = rows /\ lastUsed' = lastUsed /\ first' = FALSE
        /\ firstLanguage' = firstLanguage
        /\ selectedUsersChoice' = selectedUsersChoice
        /\ selected' = IF first THEN fetched + 1 ELSE selected
        /\ \/ selectedUsersChoice
           \/ /\ rows[fetched + 1].lib.LibraryID # lastUsed
              /\ firstLanguage \/ rows[fetched + 1].Lang < 0
    BY <1>4, <1>1 DEF FetchOther, Fetch, SelectRowIfFirst, Current
  <2>2. FlagsMatchRows'
    <3>1. CASE selectedUsersChoice
      BY <2>1, <3>1 DEF FlagsMatchRows
    <3>2. CASE ~selectedUsersChoice
      <4>1. rows[fetched + 1].lib.LibraryID # lastUsed
        BY <2>1, <3>2
      <4>2. firstLanguage \/ ~(rows[fetched + 1].Lang >= 0)
        BY <2>1, <3>2, RowsTyped
      <4>3. QED
        BY <2>1, <3>2, <4>1, <4>2 DEF FlagsMatchRows
    <3>3. QED
      BY <3>1, <3>2
  <2>3. SelectedSoFar'
    BY <2>1 DEF FlagsMatchRows, SelectedSoFar
  <2>4. QED
    BY <1>1, <2>2, <2>3
<1>5. CASE UNCHANGED vars
  BY <1>5, <1>1 DEF vars, FlagsMatchRows, SelectedSoFar
<1>6. QED
  BY <1>2, <1>3, <1>4, <1>5 DEF Next

(* The invariant of the loop of AddLibsToCombo, for every query result: the *)
(* flags say which kinds of rows have gone by, and the row left selected is *)
(* the one those rows call for.                                             *)
THEOREM LoopInvariantHolds == Spec => []LoopInvariant
<1>1. Init => LoopInvariant
  BY InitLoop
<1>2. LoopInvariant /\ [Next]_vars => LoopInvariant'
  BY LoopPreserved
<1>3. QED
  BY <1>1, <1>2, PTL DEF Spec

(* When the rows are through the library left selected is Choice.           *)
LEMMA InvariantSelects == LoopInvariant => SelectsChoice
<1> SUFFICES ASSUME LoopInvariant, Done PROVE selected = Choice(rows, lastUsed)
  BY DEF SelectsChoice
<1> DEFINE used == {i \in DOMAIN rows : rows[i].lib.LibraryID = lastUsed}
<1> DEFINE own == {i \in DOMAIN rows : rows[i].Lang >= 0}
<1>1. DOMAIN rows = 1..fetched /\ fetched \in Nat /\ used \subseteq Int /\ own \subseteq Int
  BY RowsTyped DEF LoopInvariant, TypeOK, Done
<1>2. CASE selectedUsersChoice
  <2>1. selected \in used /\ \A x \in used : selected <= x
    BY <1>1, <1>2 DEF LoopInvariant, SelectedSoFar
  <2>2. Min(used) = selected
    BY <1>1, <2>1, MinIs
  <2>3. QED
    BY <2>1, <2>2 DEF Choice
<1>3. CASE ~selectedUsersChoice /\ firstLanguage
  <2>1. used = {}
    BY <1>1, <1>3 DEF LoopInvariant, FlagsMatchRows
  <2>2. selected \in own /\ \A x \in own : selected <= x
    <3>1. selected \in own /\ \A x \in 1..(selected - 1) : rows[x].Lang < 0
      BY <1>1, <1>3 DEF LoopInvariant, SelectedSoFar
    <3>2. ASSUME NEW x \in own, x < selected PROVE FALSE
      <4>1. x \in 1..(selected - 1) /\ rows[x].Lang >= 0 /\ rows[x].Lang \in Int
        BY <1>1, <3>1, <3>2, RowsTyped DEF LoopInvariant, TypeOK, Done
      <4>2. QED
        BY <3>1, <4>1
    <3>3. QED
      BY <1>1, <3>1, <3>2
  <2>3. Min(own) = selected
    BY <1>1, <2>2, MinIs
  <2>4. QED
    BY <2>1, <2>2, <2>3 DEF Choice
<1>4. CASE ~selectedUsersChoice /\ ~firstLanguage
  <2>1. used = {} /\ own = {}
    BY <1>1, <1>4 DEF LoopInvariant, FlagsMatchRows
  <2>2. rows = <<>> <=> fetched = 0
    BY <1>1 DEF LoopInvariant, TypeOK, Done
  <2>3. selected = IF fetched = 0 THEN 0 ELSE 1
    BY <1>4 DEF LoopInvariant, SelectedSoFar
  <2>4. QED
    BY <2>1, <2>2, <2>3 DEF Choice
<1>5. QED
  BY <1>2, <1>3, <1>4

(* Whatever the query returns, the library left selected in the combobox is *)
(* the one last used for the language, else the first one for a language of *)
(* its own, else the first.                                                 *)
THEOREM SelectsChoiceHolds == Spec => []SelectsChoice
<1>1. LoopInvariant => SelectsChoice
  BY InvariantSelects
<1>2. QED
  BY <1>1, LoopInvariantHolds, PTL
=============================================================================
