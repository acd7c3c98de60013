------------------------------ MODULE Upgrade ------------------------------
(***************************************************************************)
(* Opening a database and converting an older one (SnippetsDB::Open and    *)
(* CheckDBVersion).  The conversion is a run of transactions and of        *)
(* statements that commit by themselves, each of which is a step here;     *)
(* the version number is written last.  The process may end between any    *)
(* two, and the next start opens what is then on disk.                     *)
(*                                                                         *)
(* Schema 1 keeps a library's only language, and whether it was used last, *)
(* in the Library table, and its snippets have no key (row is SQLite's     *)
(* hidden rowid).  Schema 2 moves the languages to LibraryLang, schema 3   *)
(* the last used libraries to LangLastUsed.                                *)
(***************************************************************************)
EXTENDS Integers, FiniteSets

CONSTANTS
  Files,       \* database files there may be, a file being a record of its
               \*   version, its tables and indices, and the rows of the tables
  MaxCrashes   \* bound: times the process ends early

VARIABLES
  file,         \* the database file as committed
  pc,           \* the statement that comes next, or how opening ended
  foreignKeys,  \* PRAGMA foreign_keys of the connection
  crashes,      \* times the process ended early
  old           \* the file as it was at first; never read by the program

vars == <<file, pc, foreignKeys, crashes, old>>

Schema3 == {"Library", "LibraryLang", "Snippets", "LangLastUsed", "SnipName", "SnipSort"}
Schema2 == Schema3 \ {"LangLastUsed"}
Schema1 == {"Library", "Snippets", "LibLang", "SnipName", "SnipSort"}

(* Rows of Library in schema 1 and of LibraryLang in schema 2; the others   *)
(* are as schema 3 has them.                                                *)
OldRow == [LibraryID : Nat, Lang : Int, LastUsed : BOOLEAN]
LibraryRow == [LibraryID : Nat]
LibraryLangRow == [LibraryID : Nat, Lang : Int]
SnippetRow == [row : Nat, LibraryID : Nat, Name : Nat]
LangLastUsedRow == [Lang : Int, LibraryID : Nat]

File == [version : Int, schema : SUBSET (Schema1 \cup Schema3),
         Library : SUBSET (OldRow \cup LibraryRow),
         LibraryLang : SUBSET (OldRow \cup LibraryLangRow),
         Snippets : SUBSET SnippetRow, LangLastUsed : SUBSET LangLastUsedRow]

(* A rowid is that of one row. *)
RowsUnique(rows) == \A s, t \in rows : s.row = t.row => s = t

ASSUME UpgradeAssumption ==
  /\ MaxCrashes \in Nat
  /\ Files \subseteq File
  /\ \A f \in Files :
       /\ IsFiniteSet(f.Snippets) /\ RowsUnique(f.Snippets)
       /\ f.version = 1 => f.schema = Schema1 /\ f.Library \subseteq OldRow
       /\ f.version = 2 => f.schema = Schema2 /\ f.Library \subseteq LibraryRow
       /\ f.version = 3 => f.schema = Schema3 /\ f.LibraryLang \subseteq LibraryLangRow

Init ==
  /\ file \in Files /\ old = file
  /\ pc = "closed" /\ foreignKeys = FALSE /\ crashes = 0

-----------------------------------------------------------------------------
Exists(object) == object \in file.schema

(* A transaction or a statement: SQLite refuses it unless the objects it    *)
(* drops exist and those it creates do not.  Nobody catches what Execute    *)
(* then throws.                                                             *)
Execute(here, next, possible, after) ==
  /\ pc = here
  /\ IF possible THEN file' = after /\ pc' = next
                 ELSE file' = file /\ pc' = "failed"
  /\ UNCHANGED <<foreignKeys, crashes, old>>

FirstStep ==
  CASE file.version = 1 -> "CreateLibraryLang"
    [] file.version = 2 -> "CreateLangLastUsed"
    [] file.version = 3 -> "EnableForeignKeys"
    [] OTHER -> "refused"

Open_KeysFirst ==
  /\ pc = "closed"
  /\ pc' = FirstStep
  /\ foreignKeys' = TRUE
  /\ UNCHANGED <<file, crashes, old>>

Open ==
  /\ pc = "closed"
  /\ pc' = FirstStep
  /\ foreignKeys' = FALSE
  /\ UNCHANGED <<file, crashes, old>>

(* UpgradeDatabase_1_2 *)
CreateLibraryLang ==
  Execute("CreateLibraryLang", "RebuildLibrary", ~Exists("LibraryLang"),
    [file EXCEPT !.schema = @ \cup {"LibraryLang"}, !.LibraryLang = file.Library])

(* DROP TABLE deletes the rows first, with their references if keys are on. *)
RebuildLibrary ==
  Execute("RebuildLibrary", "DropSnipName", Exists("LibLang"),
    [file EXCEPT !.schema = @ \ {"LibLang"},
       !.Library = {[LibraryID |-> l.LibraryID] : l \in @},
       !.LibraryLang = IF foreignKeys THEN {} ELSE @])

DropIndex(here, next, index) ==
  Execute(here, next, Exists(index), [file EXCEPT !.schema = @ \ {index}])
DropSnipName == DropIndex("DropSnipName", "DropSnipSort", "SnipName")
DropSnipSort == DropIndex("DropSnipSort", "RebuildSnippets", "SnipSort")

Rank(rows, s) == Cardinality({t \in rows : t.row <= s.row})
Numbered(rows) ==
  {[row |-> Rank(rows, s), LibraryID |-> s.LibraryID, Name |-> s.Name] : s \in rows}

(* The rows get keys in the order they are read. *)
RebuildSnippets ==
  Execute("RebuildSnippets", "CreateSnipName", TRUE,
    [file EXCEPT !.schema = @ \ {"SnipName", "SnipSort"},
       !.Snippets = Numbered(@)])

CreateIndex(here, next, index) ==
  Execute(here, next, ~Exists(index), [file EXCEPT !.schema = @ \cup {index}])
CreateSnipName == CreateIndex("CreateSnipName", "CreateSnipSort", "SnipName")
CreateSnipSort == CreateIndex("CreateSnipSort", "SetUserVersion2", "SnipSort")

SetUserVersion2_Break ==
  Execute("SetUserVersion2", "refused", TRUE, [file EXCEPT !.version = 2])

SetUserVersion2 ==
  Execute("SetUserVersion2", "CreateLangLastUsed", TRUE, [file EXCEPT !.version = 2])

UsedLast == {[Lang |-> x.Lang, LibraryID |-> x.LibraryID] :
               x \in {y \in file.LibraryLang : y.LastUsed}}

(* UpgradeDatabase_2_3; Lang is the key of LangLastUsed. *)
CreateLangLastUsed ==
  Execute("CreateLangLastUsed", "RebuildLibraryLang",
    ~Exists("LangLastUsed") /\ \A a, b \in UsedLast : a.Lang = b.Lang => a = b,
    [file EXCEPT !.schema = @ \cup {"LangLastUsed"}, !.LangLastUsed = UsedLast])

RebuildLibraryLang_VersionFirst ==
  Execute("RebuildLibraryLang", "SetUserVersion3", TRUE, [file EXCEPT !.version = 3])

RebuildLibraryLang ==
  Execute("RebuildLibraryLang", "SetUserVersion3", TRUE,
    [file EXCEPT !.LibraryLang = {[LibraryID |-> x.LibraryID, Lang |-> x.Lang] : x \in @}])

SetUserVersion3 ==
  Execute("SetUserVersion3", "EnableForeignKeys", TRUE, [file EXCEPT !.version = 3])

EnableForeignKeys ==
  /\ pc = "EnableForeignKeys"
  /\ pc' = "open" /\ foreignKeys' = TRUE
  /\ UNCHANGED <<file, crashes, old>>

Close ==
  /\ pc = "open" /\ pc' = "closed"
  /\ UNCHANGED <<file, foreignKeys, crashes, old>>

(* The process ends, early or after a refusal; what was not committed is    *)
(* rolled back.                                                             *)
Crash ==
  /\ pc # "closed" /\ crashes < MaxCrashes
  /\ pc' = "closed" /\ crashes' = crashes + 1
  /\ UNCHANGED <<file, foreignKeys, old>>

(* A refused connection stays so, and after an exception the transaction    *)
(* that failed is still open on it, so that no other can begin.             *)
Stuck == pc \in {"failed", "refused"} /\ UNCHANGED vars

UpgradeDatabase_1_2 ==
  \/ CreateLibraryLang \/ RebuildLibrary \/ DropSnipName \/ DropSnipSort
  \/ RebuildSnippets \/ CreateSnipName \/ CreateSnipSort \/ SetUserVersion2

UpgradeDatabase_2_3 == CreateLangLastUsed \/ RebuildLibraryLang \/ SetUserVersion3

OpenDatabase == UpgradeDatabase_1_2 \/ UpgradeDatabase_2_3 \/ EnableForeignKeys

Next == Open \/ OpenDatabase \/ Close \/ Crash \/ Stuck

(* The statements follow one another in one call on one thread. *)
Spec == Init /\ [][Next]_vars /\ WF_vars(OpenDatabase)

-----------------------------------------------------------------------------
(* What a file says, wherever its schema keeps it. *)
Languages(f) ==
  {[LibraryID |-> x.LibraryID, Lang |-> x.Lang] :
     x \in IF "LibraryLang" \in f.schema THEN f.LibraryLang ELSE f.Library}

LastUsed(f) ==
  IF "LangLastUsed" \in f.schema THEN f.LangLastUsed
  ELSE {[Lang |-> x.Lang, LibraryID |-> x.LibraryID] :
          x \in {y \in IF "LibraryLang" \in f.schema THEN f.LibraryLang ELSE f.Library :
                   y.LastUsed}}

InOrder(rows) ==
  [i \in 1..Cardinality(rows) |->
     LET s == CHOOSE s \in rows : Rank(rows, s) = i IN <<s.LibraryID, s.Name>>]

(* At no point of the conversion, and after no crash, is anything lost: the *)
(* file on disk still says which libraries, languages, last used libraries  *)
(* and snippets, in which order, there are (UpgradeDatabase_1_2 and 2_3).   *)
NothingLost ==
  /\ {l.LibraryID : l \in file.Library} = {l.LibraryID : l \in old.Library}
  /\ Languages(file) = Languages(old)
  /\ LastUsed(file) = LastUsed(old)
  /\ InOrder(file.Snippets) = InOrder(old.Snippets)

(* The version number never runs ahead of the schema: what is stored as     *)
(* version 2 or 3 has every table, index and column of that version, or is  *)
(* on its way from 2 to 3 (SetUserVersion comes last).                      *)
VersionTellsSchema ==
  /\ file.version = 3 => file.schema = Schema3 /\ file.LibraryLang \subseteq LibraryLangRow
  /\ file.version = 2 => Schema2 \subseteq file.schema /\ file.Library \subseteq LibraryRow

TypeOK ==
  /\ file \in File /\ old \in Files
  /\ foreignKeys \in BOOLEAN
  /\ crashes \in 0..MaxCrashes
  /\ pc \in {"closed", "CreateLibraryLang", "RebuildLibrary", "DropSnipName", "DropSnipSort",
            "RebuildSnippets", "CreateSnipName", "CreateSnipSort", "SetUserVersion2",
            "CreateLangLastUsed", "RebuildLibraryLang", "SetUserVersion3",
            "EnableForeignKeys", "open", "failed", "refused"}

(* What each statement finds when its turn comes.                           *)
ConversionHolds ==
  /\ pc \in {"closed", "EnableForeignKeys", "open", "failed"} \/ ~foreignKeys
  /\ pc = "CreateLibraryLang" => file.version = 1
  /\ pc = "RebuildLibrary" => file.version = 1 /\ file.schema = Schema1 \cup {"LibraryLang"}
  /\ pc \in {"DropSnipName", "DropSnipSort", "RebuildSnippets", "CreateSnipName",
            "CreateSnipSort", "SetUserVersion2"} =>
       file.version = 1 /\ file.Library \subseteq LibraryRow
  /\ pc = "DropSnipName" => file.schema = Schema2
  /\ pc = "DropSnipSort" => file.schema = Schema2 \ {"SnipName"}
  /\ pc = "RebuildSnippets" => file.schema = Schema2 \ {"SnipName", "SnipSort"}
  /\ pc = "CreateSnipName" => file.schema = Schema2 \ {"SnipName", "SnipSort"}
  /\ pc = "CreateSnipSort" => file.schema = Schema2 \ {"SnipSort"}
  /\ pc = "SetUserVersion2" => file.schema = Schema2
  /\ pc = "CreateLangLastUsed" => file.version = 2
  /\ pc = "RebuildLibraryLang" => file.version = 2 /\ file.schema = Schema3
  /\ pc = "SetUserVersion3" =>
       /\ file.version = 2 /\ file.schema = Schema3
       /\ file.LibraryLang \subseteq LibraryLangRow
  /\ pc = "EnableForeignKeys" => file.version = 3
  /\ file.version = 1 /\ "LibraryLang" \notin file.schema =>
       file.schema = Schema1 /\ file.Library \subseteq OldRow
  /\ file.version = 2 => file.schema \in {Schema2, Schema3}
  /\ IsFiniteSet(file.Snippets) /\ RowsUnique(file.Snippets)

IInv == TypeOK /\ ConversionHolds /\ VersionTellsSchema /\ NothingLost

(* An older database is converted when it is opened, unless the process     *)
(* ends before (changelog 0.4.0: "Existing databases will be converted      *)
(* automatically to the new schema").                                       *)
Converted ==
  (pc = "CreateLibraryLang" \/ pc = "CreateLangLastUsed") /\ crashes = 0 ~>
    crashes > 0 \/ (pc = "open" /\ file.version = 3 /\ foreignKeys)

(* Converting never fails, after an interrupted one either (changelog 0.4.0 *)
(* has no exception for it).                                                *)
ConversionNeverFails == pc # "failed"
=============================================================================
