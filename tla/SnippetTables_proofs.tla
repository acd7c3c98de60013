------------------------ MODULE SnippetTables_proofs ------------------------
(***************************************************************************)
(* The statements of SnippetTables keep a consistent database consistent,  *)
(* and the queries return sequences of rows.                               *)
(***************************************************************************)
EXTENDS SnippetTables, FiniteSetTheorems, SequenceTheorems, TLAPS

(* A bounded set of numbers that is not empty has a greatest element. *)
LEMMA MaxOf ==
  ASSUME NEW N \in Nat, NEW S \in SUBSET (0..N), S # {}
  PROVE  Max(S) \in S /\ \A x \in S : x <= Max(S)
<1> DEFINE Greatest(x) == \A y \in S : x >= y
<1> DEFINE T == {N - x : x \in S}
<1>0. \A x \in S : N - x \in Nat
  OBVIOUS
<1>1. T \subseteq Nat /\ T # {}
  BY <1>0, Zenon
<1>2. PICK t \in T : \A y \in T : ~(<<y, t>> \in OpToRel(<, Nat))
  BY <1>1, NatLessThanWellFounded, WFMin
<1>3. \A y \in T : t <= y
  <2>1. \A a, b \in Nat : a < b => <<a, b>> \in OpToRel(<, Nat)
    BY Zenon DEF OpToRel
  <2>2. \A y \in T : ~(y < t)
    BY <1>1, <1>2, <2>1, Zenon
  <2>3. QED
    BY <1>1, <2>2
<1>4. PICK m \in S : t = N - m
  OBVIOUS
<1>5. \A x \in S : x <= m
  BY <1>3, <1>4
<1>6. Greatest(m)
  BY <1>5
<1>7. Max(S) = CHOOSE x \in S : Greatest(x)
  BY Zenon DEF Max
<1> HIDE DEF Greatest
<1>8. Max(S) \in S /\ Greatest(Max(S))
  BY <1>4, <1>6, <1>7, Zenon
<1>9. QED
  BY <1>8 DEF Greatest

(* A set of natural numbers that is not empty has a least element. *)
LEMMA MinOf ==
  ASSUME NEW S \in SUBSET Nat, S # {}
  PROVE  Min(S) \in S
<1> DEFINE Least(x) == \A y \in S : x <= y
<1>1. PICK m \in S : \A y \in S : ~(<<y, m>> \in OpToRel(<, Nat))
  BY NatLessThanWellFounded, WFMin
<1>2. \A a, b \in Nat : a < b => <<a, b>> \in OpToRel(<, Nat)
  BY Zenon DEF OpToRel
<1>3. \A y \in S : ~(y < m)
  BY <1>1, <1>2, Zenon
<1>4. Least(m)
  BY <1>3
<1>5. Min(S) = CHOOSE x \in S : Least(x)
  BY Zenon DEF Min
<1> HIDE DEF Least
<1>6. QED
  BY <1>4, <1>5, Zenon

(* MAX(id) + 1 is an id no row has. *)
LEMMA NextIDIsNew ==
  ASSUME NEW N \in Nat, NEW ids \in SUBSET (1..N)
  PROVE  NextID(ids) \in Nat \ {0} /\ NextID(ids) \notin ids
<1>1. CASE ids = {}
  BY <1>1 DEF NextID
<1>2. CASE ids # {}
  <2>1. Max(ids) \in ids /\ \A x \in ids : x <= Max(ids)
    BY <1>2, MaxOf
  <2>2. NextID(ids) = Max(ids) + 1
    BY <1>2 DEF NextID
  <2>3. Max(ids) \in 1..N
    BY <2>1
  <2>4. Max(ids) + 1 \notin ids
    BY <2>1, <2>3
  <2>5. QED
    BY <2>2, <2>3, <2>4
<1>3. QED
  BY <1>1, <1>2

(* Rows of a consistent database are rows of the schema. *)
LEMMA RowsOf ==
  ASSUME NEW d, Consistent(d)
  PROVE  /\ d.Library \subseteq LibraryRow /\ d.Snippets \subseteq SnippetRow
         /\ LibraryIDsOf(d) \subseteq LibraryIDs /\ SnippetIDsOf(d) \subseteq SnippetIDs
         /\ \A l \in d.Library : l.LibraryID \in LibraryIDsOf(d)
         /\ \A s \in d.Snippets : s.LibraryID \in LibraryIDsOf(d)
<1>1. d.Library \subseteq LibraryRow /\ d.Snippets \subseteq SnippetRow
  BY DEF Consistent, Database
<1>2. LibraryIDsOf(d) \subseteq LibraryIDs /\ SnippetIDsOf(d) \subseteq SnippetIDs
  BY <1>1 DEF LibraryIDsOf, SnippetIDsOf, LibraryRow, SnippetRow
<1>3. \A l \in d.Library : l.LibraryID \in LibraryIDsOf(d)
  BY DEF LibraryIDsOf
<1>4. \A s \in d.Snippets : s.LibraryID \in LibraryIDsOf(d)
  BY DEF Consistent, ReferencesHold
<1>5. QED
  BY <1>1, <1>2, <1>3, <1>4

(* The keys SaveToDB takes are new, as long as they are within the bounds.   *)
LEMMA NewKeys ==
  ASSUME NEW d, Consistent(d)
  PROVE  /\ NextID(LibraryIDsOf(d)) <= MaxLibraryID =>
              NextID(LibraryIDsOf(d)) \in LibraryIDs \ LibraryIDsOf(d)
         /\ NextID(SnippetIDsOf(d)) <= MaxSnippetID =>
              NextID(SnippetIDsOf(d)) \in SnippetIDs \ SnippetIDsOf(d)
<1>1. LibraryIDsOf(d) \in SUBSET (1..MaxLibraryID) /\ SnippetIDsOf(d) \in SUBSET (1..MaxSnippetID)
  BY RowsOf DEF LibraryIDs, SnippetIDs
<1>2. NextID(LibraryIDsOf(d)) \in Nat \ {0} /\ NextID(LibraryIDsOf(d)) \notin LibraryIDsOf(d)
  BY <1>1, NextIDIsNew, TablesAssumption
<1>3. NextID(SnippetIDsOf(d)) \in Nat \ {0} /\ NextID(SnippetIDsOf(d)) \notin SnippetIDsOf(d)
  BY <1>1, NextIDIsNew, TablesAssumption
<1>4. QED
  BY <1>2, <1>3, TablesAssumption DEF LibraryIDs, SnippetIDs

-----------------------------------------------------------------------------
(* The statements. *)

(* A library with a new id may be inserted.                                 *)
LEMMA InsertLibraryConsistent ==
  ASSUME NEW db, Consistent(db), NEW lib \in LibraryRow,
         lib.LibraryID \notin LibraryIDsOf(db)
  PROVE  /\ Consistent(InsertLibrary(db, lib))
         /\ LibraryIDsOf(InsertLibrary(db, lib)) = LibraryIDsOf(db) \cup {lib.LibraryID}
         /\ InsertLibrary(db, lib).LangLastUsed = db.LangLastUsed
<1> DEFINE e == InsertLibrary(db, lib)
<1> USE DEF Consistent
<1>1. /\ e \in Database
      /\ e.Library = db.Library \cup {lib}
      /\ e.LibraryLang = db.LibraryLang
      /\ e.Snippets = db.Snippets /\ e.LangLastUsed = db.LangLastUsed
  BY DEF InsertLibrary, Database
<1> HIDE DEF e
<1>2. LibraryIDsOf(e) = LibraryIDsOf(db) \cup {lib.LibraryID}
  BY <1>1 DEF LibraryIDsOf
<1>3. KeysUnique(e)
  BY <1>1 DEF KeysUnique, LibraryIDsOf
<1>4. ReferencesHold(e)
  BY <1>1, <1>2 DEF ReferencesHold
<1>5. QED
  BY <1>1, <1>2, <1>3, <1>4 DEF e

(* UPDATE Library changes no key.                                           *)
LEMMA UpdateLibraryConsistent ==
  ASSUME NEW db, Consistent(db), NEW lib \in LibraryRow
  PROVE  Consistent(UpdateLibrary(db, lib))
<1> DEFINE e == UpdateLibrary(db, lib)
<1> DEFINE Row(l) == IF l.LibraryID = lib.LibraryID THEN lib ELSE l
<1> USE DEF Consistent
<1>1. /\ e.Library = {Row(l) : l \in db.Library}
      /\ e.LibraryLang = db.LibraryLang
      /\ e.Snippets = db.Snippets /\ e.LangLastUsed = db.LangLastUsed
      /\ e \in Database
  BY DEF UpdateLibrary, Database
<1>2. \A l : Row(l).LibraryID = l.LibraryID
  OBVIOUS
<1> HIDE DEF e, Row
<1>3. LibraryIDsOf(e) = LibraryIDsOf(db)
  BY <1>1, <1>2 DEF LibraryIDsOf
<1>4. KeysUnique(e)
  BY <1>1, <1>2 DEF KeysUnique
<1>5. ReferencesHold(e)
  BY <1>1, <1>3 DEF ReferencesHold
<1>6. QED
  BY <1>1, <1>4, <1>5 DEF e

(* The cascade leaves no reference to the library deleted.                  *)
LEMMA DeleteLibraryConsistent ==
  ASSUME NEW db, Consistent(db), NEW id
  PROVE  Consistent(DeleteLibrary(db, id))
<1> DEFINE e == DeleteLibrary(db, id)
<1> USE DEF Consistent
<1>1. /\ e.Library = {l \in db.Library : l.LibraryID # id}
      /\ e.LibraryLang = {x \in db.LibraryLang : x.LibraryID # id}
      /\ e.Snippets = {s \in db.Snippets : s.LibraryID # id}
      /\ e.LangLastUsed = {u \in db.LangLastUsed : u.LibraryID # id}
      /\ e \in Database
  BY DEF DeleteLibrary, Database
<1> HIDE DEF e
<1>2. LibraryIDsOf(e) = LibraryIDsOf(db) \ {id}
  BY <1>1 DEF LibraryIDsOf
<1>3. KeysUnique(e)
  BY <1>1 DEF KeysUnique
<1>4. ReferencesHold(e)
  BY <1>1, <1>2 DEF ReferencesHold
<1>5. QED
  BY <1>1, <1>3, <1>4 DEF e

(* A language may be added to a library that exists.                        *)
LEMMA AddLanguageConsistent ==
  ASSUME NEW db, Consistent(db), NEW id \in LibraryIDsOf(db), NEW l \in LangIDs
  PROVE  /\ Consistent(AddLanguage(db, id, l))
         /\ LibraryIDsOf(AddLanguage(db, id, l)) = LibraryIDsOf(db)
<1> DEFINE e == AddLanguage(db, id, l)
<1> USE DEF Consistent
<1>1. id \in LibraryIDs
  BY DEF LibraryIDsOf, Database, LibraryRow
<1>2. /\ e.LibraryLang = db.LibraryLang \cup {[LibraryID |-> id, Lang |-> l]}
      /\ e.Library = db.Library
      /\ e.Snippets = db.Snippets /\ e.LangLastUsed = db.LangLastUsed
      /\ e \in Database
  BY <1>1 DEF AddLanguage, Database, LibraryLangRow
<1> HIDE DEF e
<1>3. LibraryIDsOf(e) = LibraryIDsOf(db)
  BY <1>2 DEF LibraryIDsOf
<1>4. KeysUnique(e)
  BY <1>2 DEF KeysUnique
<1>5. ReferencesHold(e)
  BY <1>2, <1>3 DEF ReferencesHold
<1>6. QED
  BY <1>2, <1>3, <1>4, <1>5 DEF e

(* The languages of a library that exists may be replaced.                  *)
LEMMA SaveLanguagesConsistent ==
  ASSUME NEW db, Consistent(db), NEW id \in LibraryIDsOf(db),
         NEW langs \in SUBSET LangIDs
  PROVE  Consistent(SaveLanguages(db, id, langs))
<1> DEFINE e == SaveLanguages(db, id, langs)
<1> DEFINE new == [LibraryID : {id}, Lang : langs]
<1> USE DEF Consistent
<1>1. new \subseteq LibraryLangRow /\ \A x \in new : x.LibraryID = id
  BY DEF LibraryIDsOf, Database, LibraryRow, LibraryLangRow
<1> HIDE DEF new
<1>2. /\ e.LibraryLang = {x \in db.LibraryLang : x.LibraryID # id} \cup new
      /\ e.Library = db.Library
      /\ e.Snippets = db.Snippets /\ e.LangLastUsed = db.LangLastUsed
      /\ e \in Database
  BY <1>1 DEF SaveLanguages, Database, new
<1> HIDE DEF e
<1>3. LibraryIDsOf(e) = LibraryIDsOf(db)
  BY <1>2 DEF LibraryIDsOf
<1>4. KeysUnique(e)
  BY <1>2 DEF KeysUnique
<1>5. ReferencesHold(e)
  BY <1>1, <1>2, <1>3 DEF ReferencesHold
<1>6. QED
  BY <1>2, <1>4, <1>5 DEF e
(* A snippet with a new id may be inserted in a library that exists.        *)
LEMMA InsertSnippetConsistent ==
  ASSUME NEW db, Consistent(db), NEW snip \in SnippetRow,
         snip.SnippetID \notin SnippetIDsOf(db),
         snip.LibraryID \in LibraryIDsOf(db)
  PROVE  Consistent(InsertSnippet(db, snip))
<1> DEFINE e == InsertSnippet(db, snip)
<1> USE DEF Consistent
<1>1. /\ e.Snippets = db.Snippets \cup {snip}
      /\ e.Library = db.Library
      /\ e.LibraryLang = db.LibraryLang /\ e.LangLastUsed = db.LangLastUsed
      /\ e \in Database
  BY DEF InsertSnippet, Database
<1> HIDE DEF e
<1>2. LibraryIDsOf(e) = LibraryIDsOf(db)
  BY <1>1 DEF LibraryIDsOf
<1>3. KeysUnique(e)
  BY <1>1 DEF KeysUnique, SnippetIDsOf
<1>4. ReferencesHold(e)
  BY <1>1, <1>2 DEF ReferencesHold
<1>5. QED
  BY <1>1, <1>3, <1>4 DEF e

(* UPDATE Snippets changes neither key nor library.                         *)
LEMMA UpdateSnippetConsistent ==
  ASSUME NEW db, Consistent(db), NEW snip \in SnippetRow
  PROVE  /\ Consistent(UpdateSnippet(db, snip))
         /\ LibraryIDsOf(UpdateSnippet(db, snip)) = LibraryIDsOf(db)
<1> DEFINE e == UpdateSnippet(db, snip)
<1> DEFINE Row(s) == IF s.SnippetID = snip.SnippetID
                       THEN [snip EXCEPT !.LibraryID = s.LibraryID] ELSE s
<1> USE DEF Consistent
<1>1. \A s \in SnippetRow : /\ Row(s) \in SnippetRow
                            /\ Row(s).SnippetID = s.SnippetID
                            /\ Row(s).LibraryID = s.LibraryID
  BY DEF SnippetRow
<1>2. /\ e.Snippets = {Row(s) : s \in db.Snippets}
      /\ e.Library = db.Library
      /\ e.LibraryLang = db.LibraryLang /\ e.LangLastUsed = db.LangLastUsed
  BY DEF UpdateSnippet, Database
<1> HIDE DEF Row
<1>3. db.Snippets \subseteq SnippetRow /\ e.Snippets \subseteq SnippetRow
  BY <1>1, <1>2 DEF Database
<1>4. e \in Database
  BY <1>3 DEF UpdateSnippet, Database, Row
<1> HIDE DEF e
<1>5. LibraryIDsOf(e) = LibraryIDsOf(db)
  BY <1>2 DEF LibraryIDsOf
<1>6. KeysUnique(e)
  BY <1>1, <1>2, <1>3 DEF KeysUnique
<1>7. ReferencesHold(e)
  BY <1>1, <1>2, <1>3, <1>5 DEF ReferencesHold
<1>8. QED
  BY <1>4, <1>5, <1>6, <1>7 DEF e

(* Nothing refers to a snippet, so it may be deleted.                       *)
LEMMA DeleteSnippetConsistent ==
  ASSUME NEW db, Consistent(db), NEW id
  PROVE  /\ Consistent(DeleteSnippet(db, id))
         /\ LibraryIDsOf(DeleteSnippet(db, id)) = LibraryIDsOf(db)
<1> DEFINE e == DeleteSnippet(db, id)
<1> USE DEF Consistent
<1>1. /\ e.Snippets = {s \in db.Snippets : s.SnippetID # id}
      /\ e.Library = db.Library
      /\ e.LibraryLang = db.LibraryLang /\ e.LangLastUsed = db.LangLastUsed
      /\ e \in Database
  BY DEF DeleteSnippet, Database
<1> HIDE DEF e
<1>2. LibraryIDsOf(e) = LibraryIDsOf(db)
  BY <1>1 DEF LibraryIDsOf
<1>3. KeysUnique(e)
  BY <1>1 DEF KeysUnique
<1>4. ReferencesHold(e)
  BY <1>1, <1>2 DEF ReferencesHold
<1>5. QED
  BY <1>1, <1>2, <1>3, <1>4 DEF e

(* Sort numbers are no part of any key.                                     *)
LEMMA UpdateSortsConsistent ==
  ASSUME NEW db, Consistent(db), NEW objects \in Seq(SnippetRow)
  PROVE  /\ Consistent(UpdateSorts(db, objects))
         /\ LibraryIDsOf(UpdateSorts(db, objects)) = LibraryIDsOf(db)
<1> DEFINE e == UpdateSorts(db, objects)
<1> DEFINE at(s) == {i \in DOMAIN objects : objects[i].SnippetID = s.SnippetID}
<1> DEFINE SortOf(s) == IF at(s) = {} THEN s.Sort ELSE objects[CHOOSE i \in at(s) : TRUE].Sort
<1> DEFINE Row(s) == [s EXCEPT !.Sort = SortOf(s)]
<1> USE DEF Consistent
<1>1. \A i \in DOMAIN objects : objects[i].Sort \in 0..MaxSort
  <2>1. \A i \in DOMAIN objects : objects[i] \in SnippetRow
    BY ElementOfSeq, LenProperties
  <2>2. QED
    BY <2>1 DEF SnippetRow
<1>2. ASSUME NEW s \in SnippetRow PROVE SortOf(s) \in 0..MaxSort
  <2>1. CASE at(s) = {}
    BY <2>1 DEF SnippetRow
  <2>2. CASE at(s) # {}
    <3>1. (CHOOSE i \in at(s) : TRUE) \in at(s)
      BY <2>2, Zenon
    <3>2. SortOf(s) = objects[CHOOSE i \in at(s) : TRUE].Sort
      BY <2>2, Zenon
    <3>3. (CHOOSE i \in at(s) : TRUE) \in DOMAIN objects
      BY <3>1, Zenon
    <3>4. QED
      BY <1>1, <3>2, <3>3, Zenon
  <2>3. QED
    BY <2>1, <2>2, Zenon
<1>3. e = [db EXCEPT !.Snippets = {Row(s) : s \in @}]
  BY Zenon DEF UpdateSorts
<1> HIDE DEF e, SortOf, at
<1>4. \A s \in SnippetRow : /\ Row(s) \in SnippetRow
                            /\ Row(s).SnippetID = s.SnippetID
                            /\ Row(s).LibraryID = s.LibraryID
  BY <1>2 DEF SnippetRow
<1> HIDE DEF Row
<1>5. db.Snippets \subseteq SnippetRow
  BY DEF Database
<1>6. /\ e.Snippets = {Row(s) : s \in db.Snippets}
      /\ e.Library = db.Library
      /\ e.LibraryLang = db.LibraryLang /\ e.LangLastUsed = db.LangLastUsed
  BY <1>3 DEF Database
<1>7. e \in Database
  <2>1. {Row(s) : s \in db.Snippets} \subseteq SnippetRow
    BY <1>4, <1>5
  <2>2. QED
    BY <1>3, <2>1 DEF Database
<1>8. LibraryIDsOf(e) = LibraryIDsOf(db)
  BY <1>6 DEF LibraryIDsOf
<1>9. KeysUnique(e)
  BY <1>4, <1>5, <1>6 DEF KeysUnique
<1>10. ReferencesHold(e)
  BY <1>4, <1>5, <1>6, <1>8 DEF ReferencesHold
<1>11. QED
  BY <1>7, <1>8, <1>9, <1>10 DEF e

(* The last used library of a language may be deleted.                      *)
LEMMA ForgetLastUsedConsistent ==
  ASSUME NEW db, Consistent(db), NEW l
  PROVE  /\ Consistent(ForgetLastUsed(db, l))
         /\ LibraryIDsOf(ForgetLastUsed(db, l)) = LibraryIDsOf(db)
         /\ \A u \in ForgetLastUsed(db, l).LangLastUsed : u.Lang # l
<1> DEFINE e == ForgetLastUsed(db, l)
<1> USE DEF Consistent
<1>1. /\ e.LangLastUsed = {u \in db.LangLastUsed : u.Lang # l}
      /\ e.Library = db.Library
      /\ e.LibraryLang = db.LibraryLang /\ e.Snippets = db.Snippets
      /\ e \in Database
  BY DEF ForgetLastUsed, Database
<1> HIDE DEF e
<1>2. LibraryIDsOf(e) = LibraryIDsOf(db)
  BY <1>1 DEF LibraryIDsOf
<1>3. KeysUnique(e)
  BY <1>1 DEF KeysUnique
<1>4. ReferencesHold(e)
  BY <1>1, <1>2 DEF ReferencesHold
<1>5. QED
  BY <1>1, <1>2, <1>3, <1>4 DEF e

(* It may be inserted when the language has none.                           *)
LEMMA InsertLastUsedConsistent ==
  ASSUME NEW db, Consistent(db), NEW l \in Langs \cup {NoOtherLib},
         NEW id \in LibraryIDsOf(db), \A u \in db.LangLastUsed : u.Lang # l
  PROVE  /\ Consistent(InsertLastUsed(db, l, id))
         /\ LibraryIDsOf(InsertLastUsed(db, l, id)) = LibraryIDsOf(db)
<1> DEFINE e == InsertLastUsed(db, l, id)
<1> USE DEF Consistent
<1>1. id \in LibraryIDs
  BY DEF LibraryIDsOf, Database, LibraryRow
<1>2. /\ e.LangLastUsed = db.LangLastUsed \cup {[Lang |-> l, LibraryID |-> id]}
      /\ e.Library = db.Library
      /\ e.LibraryLang = db.LibraryLang /\ e.Snippets = db.Snippets
      /\ e \in Database
  BY <1>1 DEF InsertLastUsed, Database, LangLastUsedRow
<1> HIDE DEF e
<1>3. LibraryIDsOf(e) = LibraryIDsOf(db)
  BY <1>2 DEF LibraryIDsOf
<1>4. KeysUnique(e)
  BY <1>2 DEF KeysUnique
<1>5. ReferencesHold(e)
  BY <1>2, <1>3 DEF ReferencesHold
<1>6. QED
  BY <1>2, <1>3, <1>4, <1>5 DEF e

(* Deleting a library takes back whatever was inserted for it.              *)
LEMMA DeleteTakesBack ==
  ASSUME NEW d, Consistent(d), NEW id
  PROVE  /\ \A lib : lib.LibraryID = id /\ id \notin LibraryIDsOf(d) =>
              DeleteLibrary(InsertLibrary(d, lib), id) = d
         /\ \A s : s.LibraryID = id =>
              DeleteLibrary(InsertSnippet(d, s), id) = DeleteLibrary(d, id)
         /\ \A l : DeleteLibrary(AddLanguage(d, id, l), id) = DeleteLibrary(d, id)
<1>1. d \in Database /\ KeysUnique(d) /\ ReferencesHold(d)
  BY DEF Consistent
<1>2. d = [Library |-> d.Library, LibraryLang |-> d.LibraryLang, Snippets |-> d.Snippets,
           LangLastUsed |-> d.LangLastUsed]
  BY <1>1 DEF Database
<1>3. ASSUME NEW lib, lib.LibraryID = id, id \notin LibraryIDsOf(d)
      PROVE  DeleteLibrary(InsertLibrary(d, lib), id) = d
  <2> DEFINE e == InsertLibrary(d, lib)
  <2>1. /\ e.Library = d.Library \cup {lib} /\ e.LibraryLang = d.LibraryLang
        /\ e.Snippets = d.Snippets /\ e.LangLastUsed = d.LangLastUsed
    BY <1>1 DEF InsertLibrary, Database
  <2> HIDE DEF e
  <2>2. {l \in e.Library : l.LibraryID # id} = d.Library
    BY <1>3, <2>1 DEF LibraryIDsOf
  <2>3. {x \in e.LibraryLang : x.LibraryID # id} = d.LibraryLang
    BY <1>1, <1>3, <2>1 DEF ReferencesHold
  <2>4. {s \in e.Snippets : s.LibraryID # id} = d.Snippets
    BY <1>1, <1>3, <2>1 DEF ReferencesHold
  <2>5. {u \in e.LangLastUsed : u.LibraryID # id} = d.LangLastUsed
    BY <1>1, <1>3, <2>1 DEF ReferencesHold
  <2>6. DeleteLibrary(e, id) = d
    BY <1>2, <2>2, <2>3, <2>4, <2>5, Zenon DEF DeleteLibrary
  <2>7. QED
    BY <2>6 DEF e
<1>4. ASSUME NEW s, s.LibraryID = id
      PROVE  DeleteLibrary(InsertSnippet(d, s), id) = DeleteLibrary(d, id)
  <2> DEFINE e == InsertSnippet(d, s)
  <2>1. /\ e.Library = d.Library /\ e.LibraryLang = d.LibraryLang
        /\ e.Snippets = d.Snippets \cup {s} /\ e.LangLastUsed = d.LangLastUsed
    BY <1>1 DEF InsertSnippet, Database
  <2> HIDE DEF e
  <2>2. {t \in e.Snippets : t.LibraryID # id} = {t \in d.Snippets : t.LibraryID # id}
    BY <1>4, <2>1
  <2>3. DeleteLibrary(e, id) = DeleteLibrary(d, id)
    BY <2>1, <2>2, Zenon DEF DeleteLibrary
  <2>4. QED
    BY <2>3 DEF e
<1>5. ASSUME NEW l
      PROVE  DeleteLibrary(AddLanguage(d, id, l), id) = DeleteLibrary(d, id)
  <2> DEFINE e == AddLanguage(d, id, l)
  <2>1. /\ e.Library = d.Library /\ e.Snippets = d.Snippets
        /\ e.LibraryLang = d.LibraryLang \cup {[LibraryID |-> id, Lang |-> l]}
        /\ e.LangLastUsed = d.LangLastUsed
    BY <1>1 DEF AddLanguage, Database
  <2> HIDE DEF e
  <2>2. {x \in e.LibraryLang : x.LibraryID # id} = {x \in d.LibraryLang : x.LibraryID # id}
    BY <2>1
  <2>3. DeleteLibrary(e, id) = DeleteLibrary(d, id)
    BY <2>1, <2>2, Zenon DEF DeleteLibrary
  <2>4. QED
    BY <2>3 DEF e
<1>6. QED
  BY <1>3, <1>4, <1>5

-----------------------------------------------------------------------------
(* The queries. *)

(* The tables are finite, because ids are bounded and unique. *)
LEMMA TablesFinite ==
  ASSUME NEW db, Consistent(db)
  PROVE  IsFiniteSet(db.Library) /\ IsFiniteSet(db.Snippets)
<1> USE DEF Consistent
<1>1. IsFiniteSet(LibraryIDs) /\ IsFiniteSet(SnippetIDs)
  BY TablesAssumption, FS_Interval DEF LibraryIDs, SnippetIDs
<1>2. IsFiniteSet(db.Library)
  <2> DEFINE f == [l \in db.Library |-> l.LibraryID]
  <2>1. f \in [db.Library -> LibraryIDs]
    BY DEF Database, LibraryRow
  <2>2. \A a, b \in db.Library : f[a] = f[b] => a = b
    BY DEF KeysUnique
  <2>3. f \in Injection(db.Library, LibraryIDs)
    BY <2>1, <2>2, Zenon DEF Injection, IsInjective
  <2>4. QED
    BY <1>1, <2>3, FS_Injection
<1>3. IsFiniteSet(db.Snippets)
  <2> DEFINE f == [s \in db.Snippets |-> s.SnippetID]
  <2>1. f \in [db.Snippets -> SnippetIDs]
    BY DEF Database, SnippetRow
  <2>2. \A a, b \in db.Snippets : f[a] = f[b] => a = b
    BY DEF KeysUnique
  <2>3. f \in Injection(db.Snippets, SnippetIDs)
    BY <2>1, <2>2, Zenon DEF Injection, IsInjective
  <2>4. QED
    BY <1>1, <2>3, FS_Injection
<1>4. QED
  BY <1>2, <1>3

(* The rows of a query are a sequence of rows of its table. *)
LEMMA SnippetRowsTyped ==
  ASSUME NEW db, Consistent(db), NEW lib, NEW names,
         NEW rows \in SnippetRows(db, lib, names)
  PROVE  rows \in Seq(db.Snippets)
<1> DEFINE S == SnippetsLike(db, lib, names)
<1>1. S \subseteq db.Snippets
  BY DEF SnippetsLike
<1>2. Cardinality(S) \in Nat
  BY <1>1, TablesFinite, FS_Subset, FS_CardinalityType
<1>3. rows \in [1..Cardinality(S) -> S]
  BY DEF SnippetRows, Orderings
<1> HIDE DEF S
<1>4. QED
  BY <1>1, <1>2, <1>3

(* So are the libraries for a language.                                     *)
LEMMA LibrariesForFinite ==
  ASSUME NEW db, Consistent(db), NEW l
  PROVE  IsFiniteSet(LibrariesFor(db, l))
<1> DEFINE S == LibrariesFor(db, l)
<1>1. S \subseteq [lib : db.Library, Lang : {l, AllLanguages}]
  BY DEF LibrariesFor
<1> DEFINE f == [r \in S |-> <<r.lib, r.Lang>>]
<1>2. f \in [S -> db.Library \X {l, AllLanguages}]
  BY <1>1
<1>3. \A a, b \in S : f[a] = f[b] => a = b
  BY <1>1
<1>4. f \in Injection(S, db.Library \X {l, AllLanguages})
  BY <1>2, <1>3, Zenon DEF Injection, IsInjective
<1>5. IsFiniteSet({l, AllLanguages})
  <2>1. IsFiniteSet({l})
    BY FS_Singleton, Zenon
  <2>2. IsFiniteSet({l} \cup {AllLanguages})
    BY <2>1, FS_AddElement, Zenon
  <2>3. {l, AllLanguages} = {l} \cup {AllLanguages}
    OBVIOUS
  <2>4. QED
    BY <2>2, <2>3, Zenon
<1>6. QED
  BY <1>4, <1>5, TablesFinite, FS_Product, FS_Injection

(* The query of AddLibsToCombo returns libraries that exist, joined with a  *)
(* language.                                                                *)
LEMMA LibraryRowsTyped ==
  ASSUME NEW db, Consistent(db), NEW l, NEW rows \in LibraryRows(db, l)
  PROVE  /\ rows \in Seq([lib : db.Library, Lang : {l, AllLanguages}])
         /\ [i \in DOMAIN rows |-> rows[i].lib] \in Seq(db.Library)
         /\ DOMAIN [i \in DOMAIN rows |-> rows[i].lib] = DOMAIN rows
<1> DEFINE S == LibrariesFor(db, l)
<1> DEFINE R == [lib : db.Library, Lang : {l, AllLanguages}]
<1>1. S \subseteq R
  BY DEF LibrariesFor
<1>2. IsFiniteSet(S)
  BY LibrariesForFinite
<1>3. Cardinality(S) \in Nat
  BY <1>2, FS_CardinalityType
<1>4. rows \in [1..Cardinality(S) -> S]
  BY DEF LibraryRows, Orderings
<1> HIDE DEF S
<1>5. rows \in [1..Cardinality(S) -> R]
  BY <1>1, <1>4
<1>6. [i \in DOMAIN rows |-> rows[i].lib] \in [1..Cardinality(S) -> db.Library]
  BY <1>5
<1>7. DOMAIN [i \in DOMAIN rows |-> rows[i].lib] = DOMAIN rows
  OBVIOUS
<1> DEFINE libs == [i \in DOMAIN rows |-> rows[i].lib]
<1> HIDE DEF R, libs
<1>8. rows \in Seq(R)
  BY <1>3, <1>5
<1>9. libs \in Seq(db.Library)
  BY <1>3, <1>6 DEF libs
<1>10. QED
  BY <1>7, <1>8, <1>9 DEF R, libs

(* AddLibsToCombo selects a row, if there is one. *)
LEMMA ChoiceTyped ==
  ASSUME NEW rows, NEW T, rows \in Seq(T), NEW last
  PROVE  Choice(rows, last) \in 0..Len(rows)
<1> DEFINE used == {i \in DOMAIN rows : rows[i].lib.LibraryID = last}
<1> DEFINE own == {i \in DOMAIN rows : rows[i].Lang >= 0}
<1>1. Len(rows) \in Nat /\ DOMAIN rows = 1..Len(rows)
  BY LenProperties
<1>2. used \subseteq 1..Len(rows) /\ own \subseteq 1..Len(rows)
  BY <1>1
<1>3. CASE used # {}
  <2>1. Min(used) \in used
    BY <1>1, <1>2, <1>3, MinOf
  <2>2. Choice(rows, last) = Min(used)
    BY <1>3, Zenon DEF Choice
  <2>3. QED
    BY <1>1, <1>2, <2>1, <2>2
<1>4. CASE used = {} /\ own # {}
  <2>1. own \in SUBSET Nat
    BY <1>1, <1>2
  <2>2. Choice(rows, last) = Min(own)
    BY <1>4, Zenon DEF Choice
  <2> HIDE DEF own
  <2>3. own # {} /\ own \subseteq 1..Len(rows) /\ Len(rows) \in Nat
    BY <1>1, <1>2, <1>4, Zenon
  <2>4. Min(own) \in own
    BY <2>1, <2>3, MinOf, Zenon
  <2>5. Min(own) \in 1..Len(rows)
    BY <2>3, <2>4, Zenon
  <2>6. QED
    BY <2>2, <2>3, <2>5
<1>5. CASE used = {} /\ own = {}
  <2>1. Choice(rows, last) = IF rows = <<>> THEN 0 ELSE 1
    BY <1>5 DEF Choice
  <2>2. rows # <<>> => Len(rows) # 0
    BY EmptySeq
  <2>3. QED
    BY <1>1, <2>1, <2>2
<1>6. QED
  BY <1>3, <1>4, <1>5
-----------------------------------------------------------------------------
(* What the queries return. *)

(* As many different rows of a set as it has are all of them.               *)
LEMMA OrderingIsOnto ==
  ASSUME NEW S, IsFiniteSet(S), NEW q \in [1..Cardinality(S) -> S],
         \A i, j \in 1..Cardinality(S) : i < j => q[i] # q[j]
  PROVE  \A s \in S : \E i \in 1..Cardinality(S) : q[i] = s
<1> DEFINE n == Cardinality(S)
<1>1. n \in Nat
  BY FS_CardinalityType
<1> HIDE DEF n
<1>2. \A i, j \in 1..n : q[i] = q[j] => i = j
  BY <1>1 DEF n
<1>3. q \in [1..n -> S]
  BY DEF n
<1>4. q \in Injection(1..n, S)
  BY <1>2, <1>3, Zenon DEF Injection, IsInjective
<1>5. Cardinality(1..n) = n
  BY <1>1, FS_Interval
<1>6. q \in Surjection(1..n, S)
  BY <1>4, <1>5, FS_Injection, Zenon DEF n
<1>7. QED
  BY <1>6, Zenon DEF Surjection, n

(* The list query returns every snippet it is asked for, once, and those of *)
(* a library ordered by the user in the order of their sort numbers.        *)
LEMMA SnippetRowsOf ==
  ASSUME NEW d, Consistent(d), NEW lib, NEW names,
         NEW rows \in SnippetRows(d, lib, names)
  PROVE  /\ \A i \in DOMAIN rows : rows[i] \in SnippetsLike(d, lib, names)
         /\ \A i, j \in DOMAIN rows : rows[i].SnippetID = rows[j].SnippetID => i = j
         /\ \A s \in SnippetsLike(d, lib, names) : \E i \in DOMAIN rows : rows[i] = s
         /\ ~lib.Alphabetic =>
              \A i, j \in DOMAIN rows : i < j => rows[i].Sort <= rows[j].Sort
<1> DEFINE S == SnippetsLike(d, lib, names)
<1>1. S \subseteq d.Snippets /\ d.Snippets \subseteq SnippetRow
  BY RowsOf DEF SnippetsLike
<1>2. IsFiniteSet(S) /\ Cardinality(S) \in Nat
  BY <1>1, TablesFinite, FS_Subset, FS_CardinalityType
<1>3. /\ rows \in [1..Cardinality(S) -> S]
      /\ \A i, j \in 1..Cardinality(S) : i < j => rows[i] # rows[j]
  BY DEF SnippetRows, Orderings
<1>4. ~lib.Alphabetic =>
        \A i, j \in 1..Cardinality(S) : i < j => ~BySort(rows[j], rows[i])
  BY DEF SnippetRows, Orderings
<1> HIDE DEF S
<1>5. \A s \in S : \E i \in 1..Cardinality(S) : rows[i] = s
  BY <1>2, <1>3, OrderingIsOnto, Zenon
<1>6. \A i, j \in 1..Cardinality(S) : rows[i] = rows[j] => i = j
  BY <1>2, <1>3
<1>7. ASSUME NEW i \in 1..Cardinality(S), NEW j \in 1..Cardinality(S),
             rows[i].SnippetID = rows[j].SnippetID
      PROVE  i = j
  <2>1. rows[i] \in d.Snippets /\ rows[j] \in d.Snippets
    BY <1>1, <1>3
  <2>2. rows[i] = rows[j]
    BY <1>7, <2>1 DEF Consistent, KeysUnique
  <2>3. QED
    BY <1>6, <2>2
<1>8. ~lib.Alphabetic =>
        \A i, j \in 1..Cardinality(S) : i < j => rows[i].Sort <= rows[j].Sort
  <2>1. \A i \in 1..Cardinality(S) : rows[i].Sort \in Int
    BY <1>1, <1>3, TablesAssumption DEF SnippetRow
  <2>2. QED
    BY <1>4, <2>1 DEF BySort
<1>9. DOMAIN rows = 1..Cardinality(S)
  BY <1>3
<1>10. QED
  BY <1>3, <1>5, <1>7, <1>8, <1>9 DEF S

(* The combobox query returns every library of the language, once for each  *)
(* language it matches.                                                     *)
LEMMA LibraryRowsOf ==
  ASSUME NEW d, Consistent(d), NEW l, NEW rows \in LibraryRows(d, l)
  PROVE  /\ \A i \in DOMAIN rows : rows[i] \in LibrariesFor(d, l)
         /\ \A i, j \in DOMAIN rows : rows[i] = rows[j] => i = j
         /\ \A r \in LibrariesFor(d, l) : \E i \in DOMAIN rows : rows[i] = r
<1> DEFINE S == LibrariesFor(d, l)
<1>1. IsFiniteSet(S) /\ Cardinality(S) \in Nat
  BY LibrariesForFinite, FS_CardinalityType
<1>2. /\ rows \in [1..Cardinality(S) -> S]
      /\ \A i, j \in 1..Cardinality(S) : i < j => rows[i] # rows[j]
  BY DEF LibraryRows, Orderings
<1> HIDE DEF S
<1>3. \A s \in S : \E i \in 1..Cardinality(S) : rows[i] = s
  BY <1>1, <1>2, OrderingIsOnto, Zenon
<1>4. \A i, j \in 1..Cardinality(S) : rows[i] = rows[j] => i = j
  BY <1>1, <1>2
<1>5. DOMAIN rows = 1..Cardinality(S)
  BY <1>2
<1>6. QED
  BY <1>2, <1>3, <1>4, <1>5 DEF S

(* The libraries the combobox shows for a language: those with the language *)
(* or with all languages.                                                   *)
LEMMA LibrariesForOf ==
  ASSUME NEW d, NEW l
  PROVE  /\ \A r \in LibrariesFor(d, l) :
              /\ r.lib \in d.Library /\ r.Lang \in {l, AllLanguages}
              /\ r = [lib |-> r.lib, Lang |-> r.Lang]
              /\ [LibraryID |-> r.lib.LibraryID, Lang |-> r.Lang] \in d.LibraryLang
         /\ \A lib \in d.Library, x \in {l, AllLanguages} :
              [LibraryID |-> lib.LibraryID, Lang |-> x] \in d.LibraryLang
                => [lib |-> lib, Lang |-> x] \in LibrariesFor(d, l)
  BY DEF LibrariesFor

(* UPDATE Snippets SET Sort changes the rows that have an object, and those *)
(* in their Sort only.                                                      *)
LEMMA UpdateSortsEffect ==
  ASSUME NEW d, Consistent(d), NEW objects,
         \A i, j \in DOMAIN objects : objects[i].SnippetID = objects[j].SnippetID => i = j
  PROVE  /\ UpdateSorts(d, objects).Library = d.Library
         /\ UpdateSorts(d, objects).LibraryLang = d.LibraryLang
         /\ UpdateSorts(d, objects).LangLastUsed = d.LangLastUsed
         /\ \A s \in d.Snippets : \A i \in DOMAIN objects :
              objects[i].SnippetID = s.SnippetID =>
                [s EXCEPT !.Sort = objects[i].Sort] \in UpdateSorts(d, objects).Snippets
         /\ \A s \in d.Snippets :
              (\A i \in DOMAIN objects : objects[i].SnippetID # s.SnippetID) =>
                s \in UpdateSorts(d, objects).Snippets
         /\ \A t \in UpdateSorts(d, objects).Snippets : \E s \in d.Snippets :
              /\ t.SnippetID = s.SnippetID /\ t.LibraryID = s.LibraryID /\ t.Name = s.Name
              /\ \A i \in DOMAIN objects :
                   objects[i].SnippetID = s.SnippetID => t = [s EXCEPT !.Sort = objects[i].Sort]
<1> DEFINE e == UpdateSorts(d, objects)
<1> DEFINE at(s) == {i \in DOMAIN objects : objects[i].SnippetID = s.SnippetID}
<1> DEFINE SortOf(s) == IF at(s) = {} THEN s.Sort ELSE objects[CHOOSE i \in at(s) : TRUE].Sort
<1> DEFINE Row(s) == [s EXCEPT !.Sort = SortOf(s)]
<1>1. e = [d EXCEPT !.Snippets = {Row(s) : s \in @}]
  BY Zenon DEF UpdateSorts
<1>2. ASSUME NEW s, NEW i \in DOMAIN objects, objects[i].SnippetID = s.SnippetID
      PROVE  SortOf(s) = objects[i].Sort
  <2>1. i \in at(s)
    BY <1>2
  <2>2. at(s) # {} /\ (CHOOSE k \in at(s) : TRUE) \in at(s)
    BY <2>1, Zenon
  <2>3. (CHOOSE k \in at(s) : TRUE) \in DOMAIN objects
        /\ objects[CHOOSE k \in at(s) : TRUE].SnippetID = s.SnippetID
    BY <2>2, Zenon
  <2>4. (CHOOSE k \in at(s) : TRUE) = i
    BY <1>2, <2>3, Zenon
  <2>5. QED
    BY <2>2, <2>4, Zenon
<1>3. ASSUME NEW s, \A i \in DOMAIN objects : objects[i].SnippetID # s.SnippetID
      PROVE  SortOf(s) = s.Sort
  BY <1>3
<1> HIDE DEF e, SortOf, at
<1>4. d.Snippets \subseteq SnippetRow /\ d \in Database
  BY DEF Consistent, Database
<1>5. \A s \in SnippetRow : /\ Row(s).SnippetID = s.SnippetID
                            /\ Row(s).LibraryID = s.LibraryID /\ Row(s).Name = s.Name
                            /\ (SortOf(s) = s.Sort => Row(s) = s)
  BY DEF SnippetRow
<1>6. \A s \in d.Snippets : \A i \in DOMAIN objects :
        objects[i].SnippetID = s.SnippetID => Row(s) = [s EXCEPT !.Sort = objects[i].Sort]
  BY <1>2
<1> HIDE DEF Row
<1>7. /\ e.Snippets = {Row(s) : s \in d.Snippets}
      /\ e.Library = d.Library
      /\ e.LibraryLang = d.LibraryLang /\ e.LangLastUsed = d.LangLastUsed
  BY <1>1, <1>4 DEF Database
<1>8. \A s \in d.Snippets : \A i \in DOMAIN objects :
        objects[i].SnippetID = s.SnippetID => [s EXCEPT !.Sort = objects[i].Sort] \in e.Snippets
  BY <1>6, <1>7
<1>9. \A s \in d.Snippets :
        (\A i \in DOMAIN objects : objects[i].SnippetID # s.SnippetID) => s \in e.Snippets
  BY <1>3, <1>4, <1>5, <1>7
<1>10. \A t \in e.Snippets : \E s \in d.Snippets :
         /\ t.SnippetID = s.SnippetID /\ t.LibraryID = s.LibraryID /\ t.Name = s.Name
         /\ \A i \in DOMAIN objects :
              objects[i].SnippetID = s.SnippetID => t = [s EXCEPT !.Sort = objects[i].Sort]
  <2>1. SUFFICES ASSUME NEW s \in d.Snippets
                 PROVE  /\ Row(s).SnippetID = s.SnippetID /\ Row(s).LibraryID = s.LibraryID
                        /\ Row(s).Name = s.Name
                        /\ \A i \in DOMAIN objects : objects[i].SnippetID = s.SnippetID =>
                             Row(s) = [s EXCEPT !.Sort = objects[i].Sort]
    BY <1>7
  <2>2. QED
    BY <1>4, <1>5, <1>6
<1>11. QED
  BY <1>7, <1>8, <1>9, <1>10 DEF e

(* UPDATE Snippets with an object that differs from its row in other        *)
(* columns than its library.                                                *)
LEMMA UpdateSnippetEffect ==
  ASSUME NEW d, Consistent(d), NEW old \in d.Snippets, NEW snip \in SnippetRow,
         snip.SnippetID = old.SnippetID, snip.LibraryID = old.LibraryID
  PROVE  /\ UpdateSnippet(d, snip).Library = d.Library
         /\ UpdateSnippet(d, snip).LibraryLang = d.LibraryLang
         /\ UpdateSnippet(d, snip).LangLastUsed = d.LangLastUsed
         /\ UpdateSnippet(d, snip).Snippets =
              {IF s.SnippetID = snip.SnippetID THEN snip ELSE s : s \in d.Snippets}
<1> DEFINE e == UpdateSnippet(d, snip)
<1> DEFINE Row(s) == IF s.SnippetID = snip.SnippetID
                       THEN [snip EXCEPT !.LibraryID = s.LibraryID] ELSE s
<1>1. /\ e.Snippets = {Row(s) : s \in d.Snippets}
      /\ e.Library = d.Library
      /\ e.LibraryLang = d.LibraryLang /\ e.LangLastUsed = d.LangLastUsed
  BY DEF UpdateSnippet, Database, Consistent
<1>2. ASSUME NEW s \in d.Snippets
      PROVE  Row(s) = IF s.SnippetID = snip.SnippetID THEN snip ELSE s
  <2>1. s.SnippetID = snip.SnippetID => s = old
    BY DEF Consistent, KeysUnique
  <2>2. [snip EXCEPT !.LibraryID = old.LibraryID] = snip
    BY DEF SnippetRow
  <2>3. QED
    BY <2>1, <2>2
<1> HIDE DEF e, Row
<1>3. e.Snippets = {IF s.SnippetID = snip.SnippetID THEN snip ELSE s : s \in d.Snippets}
  BY <1>1, <1>2
<1>4. QED
  BY <1>1, <1>3 DEF e

=============================================================================
