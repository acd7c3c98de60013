--------------------------- MODULE SnippetTables ---------------------------
(***************************************************************************)
(* The four tables of NppSnippets.sqlite (misc/NppSnippets.sql, schema     *)
(* version 3) and the SQL statements the plug-in runs on them.             *)
(*                                                                         *)
(* A table is a set of rows, a row is a record, and a database is one      *)
(* record of the four tables.  An operator named after a statement maps    *)
(* the database before it to the database after it.  Every connection sets *)
(* PRAGMA foreign_keys (SnippetsDB::Open), so deleting a library cascades. *)
(*                                                                         *)
(* Abstractions.  A snippet's Name stands for its whole content, a         *)
(* library's for its text columns; names are numbers, in the order of the  *)
(* collation the queries sort with.  A Sort of NULL reads as 0.            *)
(***************************************************************************)
EXTENDS Integers, FiniteSets, Sequences, FiniteSetsExt

CONSTANTS
  Langs,          \* the LangType values of documents that occur, an enumeration
  LibNames,       \* names a library may have
  SnipNames,      \* names a snippet may have
  MaxLibraryID,   \* bound: library ids are 1..MaxLibraryID
  MaxSnippetID,   \* bound: snippet ids are 1..MaxSnippetID
  MaxSort         \* bound: sort numbers are 0..MaxSort

ASSUME TablesAssumption ==
  /\ Langs \subseteq Nat /\ IsFiniteSet(Langs)
  /\ LibNames \subseteq Nat
  /\ SnipNames \subseteq Nat
  /\ MaxLibraryID \in Nat
  /\ MaxSnippetID \in Nat
  /\ MaxSort \in Nat

NoOtherLib == -1      \* "No other library for this language"
AllLanguages == -2    \* "All languages"
LangIDs == Langs \cup {NoOtherLib, AllLanguages}

LibraryIDs == 1..MaxLibraryID
SnippetIDs == 1..MaxSnippetID

LibraryRow == [LibraryID : LibraryIDs, Name : LibNames, Alphabetic : BOOLEAN]
LibraryLangRow == [LibraryID : LibraryIDs, Lang : LangIDs]
SnippetRow == [SnippetID : SnippetIDs, LibraryID : LibraryIDs,
               Name : SnipNames, Sort : 0..MaxSort]
LangLastUsedRow == [Lang : Langs \cup {NoOtherLib}, LibraryID : LibraryIDs]

Database == [Library : SUBSET LibraryRow, LibraryLang : SUBSET LibraryLangRow,
             Snippets : SUBSET SnippetRow, LangLastUsed : SUBSET LangLastUsedRow]

LibraryIDsOf(db) == {l.LibraryID : l \in db.Library}
SnippetIDsOf(db) == {s.SnippetID : s \in db.Snippets}

-----------------------------------------------------------------------------
(* Statements.  An operator whose name ends in a qualifier (NextID_Count)   *)
(* is a plausible slip in the statement, kept to show which property would  *)
(* notice it.                                                               *)

NextID_Count(ids) == Cardinality(ids) + 1
NextID_FromZero(ids) == IF ids = {} THEN 0 ELSE Max(ids) + 1

(* SELECT MAX(id), plus one; MAX over no rows is NULL and reads as 0. *)
NextID(ids) == IF ids = {} THEN 1 ELSE Max(ids) + 1

InsertLibrary(db, lib) == [db EXCEPT !.Library = @ \cup {lib}]

UpdateLibrary(db, lib) ==
  [db EXCEPT !.Library =
     {IF l.LibraryID = lib.LibraryID THEN lib ELSE l : l \in @}]

DeleteLibrary_KeepLastUsed(db, id) ==
  [Library      |-> {l \in db.Library : l.LibraryID # id},
   LibraryLang  |-> {x \in db.LibraryLang : x.LibraryID # id},
   Snippets     |-> {s \in db.Snippets : s.LibraryID # id},
   LangLastUsed |-> db.LangLastUsed]

(* DELETE FROM Library; the references to it are ON DELETE CASCADE. *)
DeleteLibrary(db, id) ==
  [Library      |-> {l \in db.Library : l.LibraryID # id},
   LibraryLang  |-> {x \in db.LibraryLang : x.LibraryID # id},
   Snippets     |-> {s \in db.Snippets : s.LibraryID # id},
   LangLastUsed |-> {u \in db.LangLastUsed : u.LibraryID # id}]

AddLanguage(db, id, lang) ==
  [db EXCEPT !.LibraryLang = @ \cup {[LibraryID |-> id, Lang |-> lang]}]

(* SaveLanguages: the delete and the inserts are one transaction. *)
SaveLanguages(db, id, langs) ==
  [db EXCEPT !.LibraryLang =
     {x \in @ : x.LibraryID # id} \cup [LibraryID : {id}, Lang : langs]]

InsertSnippet(db, snip) == [db EXCEPT !.Snippets = @ \cup {snip}]

(* UPDATE Snippets: the row keeps its library, whatever the object says. *)
UpdateSnippet(db, snip) ==
  [db EXCEPT !.Snippets =
     {IF s.SnippetID = snip.SnippetID
        THEN [snip EXCEPT !.LibraryID = s.LibraryID] ELSE s : s \in @}]

DeleteSnippet(db, id) ==
  [db EXCEPT !.Snippets = {s \in @ : s.SnippetID # id}]

(* UPDATE Snippets SET Sort, once for every object of the sequence. *)
UpdateSorts(db, objects) ==
  LET SortOf(s) ==
        LET at == {i \in DOMAIN objects : objects[i].SnippetID = s.SnippetID}
        IN  IF at = {} THEN s.Sort ELSE objects[CHOOSE i \in at : TRUE].Sort
  IN  [db EXCEPT !.Snippets = {[s EXCEPT !.Sort = SortOf(s)] : s \in @}]

ForgetLastUsed(db, lang) ==
  [db EXCEPT !.LangLastUsed = {u \in @ : u.Lang # lang}]

InsertLastUsed(db, lang, id) ==
  [db EXCEPT !.LangLastUsed = @ \cup {[Lang |-> lang, LibraryID |-> id]}]

-----------------------------------------------------------------------------
(* Queries. *)

(* The orders in which ORDER BY may return a set of rows: rows that compare *)
(* equal come in any order.                                                 *)
Orderings(rows, Before(_, _)) ==
  {q \in [1..Cardinality(rows) -> rows] :
     \A i, j \in DOMAIN q : i < j => q[i] # q[j] /\ ~Before(q[j], q[i])}

(* Library INNER JOIN LibraryLang for a language, generic libraries included. *)
LibrariesFor(db, lang) ==
  {r \in [lib : db.Library, Lang : {lang, AllLanguages}] :
     [LibraryID |-> r.lib.LibraryID, Lang |-> r.Lang] \in db.LibraryLang}

LibraryRows(db, lang) ==
  Orderings(LibrariesFor(db, lang), LAMBDA a, b : a.lib.Name < b.lib.Name)

(* The snippets of a library whose name is LIKE the filter. *)
SnippetsLike(db, lib, names) ==
  {s \in db.Snippets : s.LibraryID = lib.LibraryID /\ s.Name \in names}

ByName(a, b) == a.Name < b.Name \/ (a.Name = b.Name /\ a.Sort < b.Sort)
BySort(a, b) == a.Sort < b.Sort \/ (a.Sort = b.Sort /\ a.Name < b.Name)

SnippetRows(db, lib, names) ==
  IF lib.Alphabetic THEN Orderings(SnippetsLike(db, lib, names), ByName)
                    ELSE Orderings(SnippetsLike(db, lib, names), BySort)

(* SELECT LibraryID FROM LangLastUsed, -1 when there is no row. *)
LastUsed(db, lang) ==
  LET used == {u \in db.LangLastUsed : u.Lang = lang}
  IN  IF used = {} THEN -1 ELSE (CHOOSE u \in used : TRUE).LibraryID

-----------------------------------------------------------------------------
(* Which row of the combobox AddLibsToCombo leaves selected: the library    *)
(* last used for the language, else the first that is for a language of     *)
(* its own, else the first.  Module LibrarySelection shows that the loop    *)
(* computes this.                                                           *)
Choice(rows, lastUsed) ==
  LET used == {i \in DOMAIN rows : rows[i].lib.LibraryID = lastUsed}
      own  == {i \in DOMAIN rows : rows[i].Lang >= 0}
  IN  CASE used # {}                -> Min(used)
        [] used = {} /\ own # {}    -> Min(own)
        [] used = {} /\ own = {}    -> IF rows = <<>> THEN 0 ELSE 1

-----------------------------------------------------------------------------
(* What the schema promises of every database. *)

(* PRIMARY KEY: no two rows of a table share their key. *)
KeysUnique(db) ==
  /\ \A a, b \in db.Library : a.LibraryID = b.LibraryID => a = b
  /\ \A a, b \in db.Snippets : a.SnippetID = b.SnippetID => a = b
  /\ \A a, b \in db.LangLastUsed : a.Lang = b.Lang => a = b

(* REFERENCES Library(LibraryID): no row refers to a library that is gone. *)
ReferencesHold(db) ==
  /\ \A x \in db.LibraryLang : x.LibraryID \in LibraryIDsOf(db)
  /\ \A s \in db.Snippets : s.LibraryID \in LibraryIDsOf(db)
  /\ \A u \in db.LangLastUsed : u.LibraryID \in LibraryIDsOf(db)

(* A database as the schema lets it be. *)
Consistent(db) == db \in Database /\ KeysUnique(db) /\ ReferencesHold(db)
=============================================================================
