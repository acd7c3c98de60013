---------------------------- MODULE ImportExport ----------------------------
(***************************************************************************)
(* Importing and exporting a library (DlgImportLibrary.cpp, ExportTo of    *)
(* Library.cpp, SnippetsDB.cpp) on the plug-in's one connection, g_db.     *)
(*                                                                         *)
(* Both attach a second file and copy the library row by row, every row a  *)
(* transaction of its own.  An export makes its file the plug-in's own for *)
(* as long as it takes.  Any statement may fail; the exception ends the    *)
(* handler and leaves the connection and the file name as they are.        *)
(* Another Notepad++ may write to the same files.  SQLite keeps it off     *)
(* what an open SELECT reads: the source once the library has been found,  *)
(* and the destination once it has been read from as well.                 *)
(***************************************************************************)
EXTENDS SnippetTables

CONSTANTS
  Disks,       \* contents the files may have at first
  NormalText,  \* for each content that says "Use default" for the language of the new
               \*   document: the same with "Normal Text", L_TEXT
  OthersNames, \* contents of the snippets that other instances add
  MaxRequests  \* bound: commands of the user and writes of other instances

Files == {"own", "other"}    \* the plug-in's database, and another file

(* Tables of a file: none, schema 1, schema 3, or schema 1 with those tables*)
(* of schema 3 added that it does not have.                                 *)
Schemas == {"none", "old", "new", "mixed"}
File == [version : 0..3, schema : Schemas, db : Database]

ASSUME ImportExportAssumption ==
  /\ DOMAIN NormalText \subseteq SnipNames
  /\ \A n \in DOMAIN NormalText : NormalText[n] \in SnipNames \ DOMAIN NormalText
  /\ OthersNames \subseteq SnipNames
  /\ MaxRequests \in Nat
  /\ \A d \in Disks :
       /\ d \in [Files -> File]
       /\ d["own"].version = 3 /\ d["own"].schema = "new"
       /\ \A f \in Files : /\ d[f].version = 3 <=> d[f].schema = "new"
                           /\ Consistent(d[f].db)

VARIABLES
  disk,      \* the files, as committed
  filename,  \* _dbFile of g_db
  conn,      \* _db of g_db: is it open, on which file, what is attached under
             \*   which alias, and is a transaction open
  op,        \* the handler under way and the statement that comes next
  requests,  \* commands and writes of others there may still be
  failed,    \* commands that failed since the process started, and "refused"
             \*   if what was refused was refused by the files as they are
  base       \* the tables as they would be without op; never read by the program

vars == <<disk, filename, conn, op, requests, failed, base>>

Closed == [open |-> FALSE, main |-> "own", attached |-> {}, txn |-> FALSE]
NoOp == [cmd |-> "none", pc |-> "idle", source |-> "own", home |-> "own",
         org |-> 0, new |-> 0, todo |-> {}]

Commands == {"import", "export", "save"}
PCs == {"idle", "list", "listed", "dialog", "attachExport", "createTables", "setVersion",
        "reopen", "attach", "select", "saveLibrary", "snippets", "languages", "detach",
        "insert"}

Source == disk[op.source].db
Main == disk[conn.main].db
Tables == [f \in Files |-> disk[f].db]

(* SnippetsDB::Open inside a handler that has opened the connection already *)
(* keeps it, and so does one after a handler that failed.                   *)
Opened(c, f) == IF c.open THEN c ELSE [Closed EXCEPT !.open = TRUE, !.main = f]
VersionFits(c) == disk[c.main].version = 3
Attached(c, alias) == [c EXCEPT !.attached = @ \cup {alias}]

Init ==
  /\ disk \in Disks
  /\ filename = "own" /\ conn = Closed /\ op = NoOp
  /\ requests = MaxRequests /\ failed = {}
  /\ base = Tables

-----------------------------------------------------------------------------
(* The steps of a handler. *)

Request ==
  /\ op = NoOp /\ requests > 0
  /\ requests' = requests - 1
  /\ base' = Tables

Fail(what) ==
  /\ failed' = failed \cup what
  /\ op' = NoOp
  /\ UNCHANGED <<disk, filename, requests, base>>

(* A statement SQLite carries out if the files as they are allow it.  The   *)
(* exception leaves the connection as it was.                               *)
Statement(here, possible, effect) ==
  /\ op.pc = here
  /\ IF possible THEN effect /\ UNCHANGED <<requests, failed, base>>
                 ELSE Fail({op.cmd, "refused"}) /\ UNCHANGED conn

GoTo(next) == op' = [op EXCEPT !.pc = next]

(* Open and Attach.  A version that does not fit and an alias that is in use*)
(* are only found out on a connection that is open by then, and stays open. *)
OpenAndAttach(here, alias, next) ==
  LET c == Opened(conn, filename)
  IN  /\ op.pc = here
      /\ IF VersionFits(c) /\ alias \notin c.attached
         THEN /\ conn' = Attached(c, alias)
              /\ GoTo(next)
              /\ UNCHANGED <<disk, filename, requests, failed, base>>
         ELSE Fail({op.cmd, "refused"}) /\ conn' = c

(* OnLibraryImport, and AddLibraryToCombo as the dialog opens. *)
OnLibraryImport(file) ==
  /\ Request
  /\ disk[file].schema # "none"
  /\ op' = [NoOp EXCEPT !.cmd = "import", !.pc = "list", !.source = file]
  /\ UNCHANGED <<disk, filename, conn, failed>>

AttachList == OpenAndAttach("list", "import", "listed")

AddLibraryToCombo_StayAttached ==
  Statement("listed", ~conn.txn,
    /\ op' = [op EXCEPT !.pc = "dialog", !.todo = LibraryIDsOf(Source)]
    /\ UNCHANGED <<disk, filename, conn>>)

(* A database cannot be detached that a transaction has read. *)
AddLibraryToCombo ==
  Statement("listed", ~conn.txn,
    /\ op' = [op EXCEPT !.pc = "dialog", !.todo = LibraryIDsOf(Source)]
    /\ conn' = Closed
    /\ UNCHANGED <<disk, filename>>)

OnCancel ==
  /\ op.pc = "dialog"
  /\ op' = NoOp
  /\ UNCHANGED <<disk, filename, conn, requests, failed, base>>

(* The library is the one with that id by then. *)
OnOK(id) ==
  /\ op.pc = "dialog"
  /\ op' = [op EXCEPT !.pc = "attach", !.org = id, !.todo = {}]
  /\ UNCHANGED <<disk, filename, conn, requests, failed, base>>

(* Library::ExportTo on the console's object, of which the row may be gone. *)
OnLibraryExport(file, id) ==
  /\ Request
  /\ op' = [NoOp EXCEPT !.cmd = "export", !.pc = "attachExport", !.source = file, !.org = id]
  /\ UNCHANGED <<disk, filename, conn, failed>>

AttachExport == OpenAndAttach("attachExport", "export", "createTables")

(* CREATE TABLE IF NOT EXISTS leaves the tables there are as they are.      *)
CreateExportDB_VersionFirst ==
  Statement("createTables", ~conn.txn,
    /\ disk' = [disk EXCEPT ![op.source].version = 3]
    /\ GoTo("setVersion")
    /\ UNCHANGED <<filename, conn>>)

CreateExportDB ==
  Statement("createTables", ~conn.txn,
    /\ disk' = [disk EXCEPT ![op.source].schema =
                  CASE @ = "none" -> "new" [] @ = "old" -> "mixed" [] OTHER -> @]
    /\ GoTo("setVersion")
    /\ UNCHANGED <<filename, conn>>)

SetUserVersion ==
  Statement("setVersion", TRUE,
    /\ disk' = [disk EXCEPT ![op.source].version = 3]
    /\ GoTo("reopen")
    /\ UNCHANGED <<filename, conn>>)

(* From here on the export file is the plug-in's, and the import's source   *)
(* what was the plug-in's before.                                           *)
Reopen ==
  Statement("reopen", TRUE,
    /\ filename' = op.source
    /\ conn' = Opened(Closed, op.source)
    /\ op' = [op EXCEPT !.pc = "attach", !.source = filename, !.home = filename]
    /\ UNCHANGED disk)

-----------------------------------------------------------------------------
(* SnippetsDB::ImportLibrary, with everything it calls. *)

Attach == OpenAndAttach("attach", "import", "select")

SelectLibrary ==
  Statement("select", TRUE,
    /\ GoTo(IF op.org \in LibraryIDsOf(Source) THEN "saveLibrary" ELSE "detach")
    /\ UNCHANGED <<disk, filename, conn>>)

(* A file cannot be written that an open SELECT reads under another name,   *)
(* nor can a row be inserted under a key that is taken.                     *)
CanInsert(id, ids) == conn.main # op.source /\ id \notin ids

Store(db) == disk' = [disk EXCEPT ![conn.main].db = db]

(* lib.SetLibraryID(0); SaveToDB takes the next id of the destination.      *)
SaveLibrary ==
  LET id == NextID(LibraryIDsOf(Main))
      lib == CHOOSE l \in Source.Library : l.LibraryID = op.org
  IN  id <= MaxLibraryID /\ Statement("saveLibrary", CanInsert(id, LibraryIDsOf(Main)),
        /\ Store(InsertLibrary(Main, [lib EXCEPT !.LibraryID = id]))
        /\ op' = [op EXCEPT !.pc = "snippets", !.new = id,
                    !.todo = {s.SnippetID : s \in {t \in Source.Snippets : t.LibraryID = op.org}}]
        /\ UNCHANGED <<filename, conn>>)

(* Set without the test of the column's type that it has commented out.     *)
Copied_EveryZero(name) ==
  IF \E n \in DOMAIN NormalText : name \in {n, NormalText[n]}
  THEN CHOOSE n \in DOMAIN NormalText : name \in {n, NormalText[n]} ELSE name

(* Set reads NULL, "Use default", as 0, and SaveToDB stores the 0.          *)
Copied(name) == IF name \in DOMAIN NormalText THEN NormalText[name] ELSE name

SnippetOf(id) == CHOOSE s \in Source.Snippets : s.SnippetID = id
Done(x) == op' = [op EXCEPT !.todo = @ \ {x}]

(* Without snip.SetSnippetID(0) SaveToDB would UPDATE. *)
ImportSnippet_KeepID(x) ==
  Statement("snippets", conn.main # op.source,
    /\ Store(UpdateSnippet(Main, [SnippetOf(x) EXCEPT !.LibraryID = op.new]))
    /\ Done(x)
    /\ UNCHANGED <<filename, conn>>)

(* The snippets come in any order.  The Snippets table of schema 1 has no   *)
(* SnippetID to take the maximum of.                                        *)
ImportSnippet(x) ==
  LET id == NextID(SnippetIDsOf(Main))
      s == SnippetOf(x)
  IN  id <= MaxSnippetID /\ Statement("snippets",
        CanInsert(id, SnippetIDsOf(Main)) /\ disk[conn.main].schema = "new",
        /\ Store(InsertSnippet(Main,
             [s EXCEPT !.SnippetID = id, !.LibraryID = op.new, !.Name = Copied(s.Name)]))
        /\ Done(x)
        /\ UNCHANGED <<filename, conn>>)

(* A source of schema 1 has no LibraryLang to select from. *)
ImportLanguages ==
  op.todo = {} /\ Statement("snippets", disk[op.source].schema # "old",
    /\ op' = [op EXCEPT !.pc = "languages",
                !.todo = {x.Lang : x \in {y \in Source.LibraryLang : y.LibraryID = op.org}}]
    /\ UNCHANGED <<disk, filename, conn>>)

ImportLanguage_SameRow(lang) ==
  Statement("languages", TRUE,
    /\ Store(AddLanguage(Main, op.new, lang))
    /\ UNCHANGED <<filename, conn, op>>)

ImportLanguage(lang) ==
  Statement("languages", TRUE,
    /\ Store(AddLanguage(Main, op.new, lang))
    /\ Done(lang)
    /\ UNCHANGED <<filename, conn>>)

ImportLanguages_Done ==
  op.todo = {} /\ Statement("languages", TRUE,
    /\ GoTo("detach")
    /\ UNCHANGED <<disk, filename, conn>>)

(* Finalize, Detach and Close; an export then restores the file name.       *)
Detach_KeepFilename ==
  Statement("detach", ~conn.txn, conn' = Closed /\ op' = NoOp /\ UNCHANGED <<disk, filename>>)

Detach ==
  Statement("detach", ~conn.txn,
    /\ conn' = Closed
    /\ filename' = IF op.cmd = "export" THEN op.home ELSE filename
    /\ op' = NoOp
    /\ UNCHANGED disk)

-----------------------------------------------------------------------------
(* Other handlers, on the same connection, and other processes. *)

(* A handler that saves a new library: MAX, then INSERT, then Close.  In a  *)
(* transaction that was left open the row is gone with the Close.           *)
SaveToDB ==
  LET c == Opened(conn, filename)
      id == NextID(LibraryIDsOf(disk[c.main].db))
  IN  /\ Request /\ id <= MaxLibraryID
      /\ op' = [NoOp EXCEPT !.cmd = "save", !.pc = "insert", !.new = id]
      /\ conn' = c
      /\ UNCHANGED <<disk, filename, failed>>

NewLibrary(name) == [LibraryID |-> op.new, Name |-> name, Alphabetic |-> FALSE]

SaveToDB_Insert(name) ==
  Statement("insert", op.new \notin LibraryIDsOf(Main),
    /\ IF conn.txn THEN UNCHANGED disk ELSE Store(InsertLibrary(Main, NewLibrary(name)))
    /\ conn' = Closed
    /\ op' = NoOp
    /\ UNCHANGED filename)

(* Every other handler opens the connection and closes it; a refresh does,  *)
(* while the import dialog is open too.                                     *)
UpdateSnippetsList ==
  /\ op.pc \in {"idle", "dialog"}
  /\ conn' = Closed
  /\ UNCHANGED <<disk, filename, op, requests, failed, base>>

(* Any statement may fail for reasons of its own (the disk, another user of *)
(* the file): after the connection was opened, or within the transaction of *)
(* CreateExportDB, which then stays open.                                   *)
Exception ==
  /\ op.pc \notin {"idle", "dialog"}
  /\ Fail({op.cmd})
  /\ \/ UNCHANGED conn
     \/ op.pc \in {"list", "attachExport", "attach"} /\ conn' = Opened(conn, filename)
     \/ op.pc = "createTables" /\ conn' = [conn EXCEPT !.txn = TRUE]

(* The export file cannot be opened, after the file name has been changed.  *)
Reopen_Exception ==
  /\ op.pc = "reopen"
  /\ filename' = op.source
  /\ conn' \in {Closed, Opened(Closed, op.source)}
  /\ failed' = failed \cup {op.cmd}
  /\ op' = NoOp
  /\ UNCHANGED <<disk, requests, base>>

Restart ==
  /\ failed # {} \/ op # NoOp
  /\ filename' = "own" /\ conn' = Closed /\ op' = NoOp /\ failed' = {}
  /\ UNCHANGED <<disk, requests, base>>

(* Files an open SELECT of this process keeps others from writing.          *)
Locked ==
  {f \in Files :
     \/ op.pc = "saveLibrary" /\ f = op.source
     \/ op.pc \in {"snippets", "languages", "detach"} /\ op.new # 0
        /\ f \in {op.source, conn.main}}

OthersWrite(file, Change(_)) ==
  /\ requests > 0
  /\ disk[file].version = 3 /\ disk[file].schema = "new"
  /\ file \notin Locked
  /\ disk' = [disk EXCEPT ![file].db = Change(@)]
  /\ base' = [base EXCEPT ![file] = Change(@)]
  /\ requests' = requests - 1
  /\ UNCHANGED <<filename, conn, op, failed>>

OtherAddsLibrary(file, name) ==
  LET id == NextID(LibraryIDsOf(disk[file].db))
  IN  id <= MaxLibraryID /\ OthersWrite(file, LAMBDA db :
        AddLanguage(InsertLibrary(db, [LibraryID |-> id, Name |-> name, Alphabetic |-> TRUE]),
                    id, AllLanguages))

OtherAddsSnippet(file, lib, name) ==
  LET id == NextID(SnippetIDsOf(disk[file].db))
  IN  id <= MaxSnippetID /\ OthersWrite(file, LAMBDA db :
        InsertSnippet(db, [SnippetID |-> id, LibraryID |-> lib, Name |-> name, Sort |-> 0]))

OtherDeletesLibrary(file, id) == OthersWrite(file, LAMBDA db : DeleteLibrary(db, id))

-----------------------------------------------------------------------------
ImportLibrary ==
  \/ Attach \/ SelectLibrary \/ SaveLibrary
  \/ \E x \in op.todo : ImportSnippet(x) \/ ImportLanguage(x)
  \/ ImportLanguages \/ ImportLanguages_Done \/ Detach

ExportTo == AttachExport \/ CreateExportDB \/ SetUserVersion \/ Reopen

Handler ==
  \/ AttachList \/ AddLibraryToCombo \/ ExportTo \/ ImportLibrary
  \/ \E name \in LibNames : SaveToDB_Insert(name)

User ==
  \/ \E file \in Files : OnLibraryImport(file)
  \/ \E file \in Files, id \in LibraryIDs : OnLibraryExport(file, id)
  \/ \E id \in op.todo : OnOK(id)
  \/ OnCancel \/ SaveToDB \/ UpdateSnippetsList

Others ==
  \E file \in Files :
    \/ \E name \in LibNames : OtherAddsLibrary(file, name)
    \/ \E lib \in LibraryIDsOf(disk[file].db) :
         \/ \E name \in OthersNames : OtherAddsSnippet(file, lib, name)
         \/ OtherDeletesLibrary(file, lib)

Next == Handler \/ User \/ Others \/ Exception \/ Reopen_Exception \/ Restart

(* The statements of a handler follow one another on one thread. *)
Spec == Init /\ [][Next]_vars /\ WF_vars(Handler)

-----------------------------------------------------------------------------
(* Types; HandlerEnds shows that the bounds of the ids are wide enough.     *)
TypeOK ==
  /\ disk \in [Files -> File]
  /\ filename \in Files
  /\ conn \in [open : BOOLEAN, main : Files, attached : SUBSET {"import", "export"},
              txn : BOOLEAN]
  /\ op \in [cmd : {"none"} \cup Commands, pc : PCs, source : Files, home : Files,
            org : {0} \cup LibraryIDs, new : {0} \cup LibraryIDs,
            todo : SUBSET (LibraryIDs \cup SnippetIDs \cup LangIDs)]
  /\ requests \in 0..MaxRequests
  /\ failed \subseteq Commands \cup {"refused"}
  /\ base \in [Files -> Database]

LangsOf(db, id) == {x.Lang : x \in {y \in db.LibraryLang : y.LibraryID = id}}

(* Snippets of one content and sort number: in the new library, in the      *)
(* library it is a copy of, and those of that library that have this content*)
(* instead of "Use default".                                                *)
Copies(name, sort) ==
  {s \in Main.Snippets : s.LibraryID = op.new /\ s.Name = name /\ s.Sort = sort}
Originals(name, sort) ==
  {s \in Source.Snippets : s.LibraryID = op.org /\ s.Name = name /\ s.Sort = sort}
Defaults(name, sort) ==
  {s \in Source.Snippets : /\ s.LibraryID = op.org /\ s.Sort = sort
                           /\ s.Name \in DOMAIN NormalText /\ NormalText[s.Name] = name}

LibraryIsCopied ==
  \E lib \in Source.Library :
    lib.LibraryID = op.org /\ [lib EXCEPT !.LibraryID = op.new] \in Main.Library

(* When an import or an export has gone through, the destination has a copy *)
(* of the library with all its languages, whatever others wrote meanwhile,  *)
(* and as many snippets of each content as the library has, but for one     *)
(* thing that the copy changes: a snippet that says "Use default" for the   *)
(* language of the new document comes out saying "Normal Text", and no      *)
(* snippet of the copy says "Use default" (SnippetsDB::ImportLibrary,       *)
(* Snippet::Set).                                                           *)
CopyIsWhole ==
  op.pc = "detach" /\ op.new # 0 =>
    /\ LibraryIsCopied
    /\ LangsOf(Main, op.new) = LangsOf(Source, op.org)
    /\ \A sort \in 0..MaxSort :
         /\ \A name \in SnipNames \ DOMAIN NormalText :
              Cardinality(Copies(name, sort)) =
                Cardinality(Originals(name, sort)) + Cardinality(Defaults(name, sort))
         /\ \A name \in DOMAIN NormalText : Copies(name, sort) = {}

(* At no step of an import or an export is anything else of either file     *)
(* added, changed or lost: to delete what there is of the new library would *)
(* give back the files as they would be without the command (SaveToDB       *)
(* updates when the object has an id).                                      *)
NothingElseTouched ==
  op.cmd \in {"import", "export"} =>
    \A f \in Files :
      base[f] = IF f = conn.main /\ op.new # 0 THEN DeleteLibrary(disk[f].db, op.new)
                                               ELSE disk[f].db

(* Between handlers the plug-in works on its own file and through a         *)
(* connection that is closed, unless one failed (Library::ExportTo: "When   *)
(* all done, restore the original database filename").                      *)
WorksOnOwnFile ==
  /\ filename # "own" => op.cmd = "export" \/ "export" \in failed
  /\ conn.open => op # NoOp \/ failed # {}

(* A new library is stored in the plug-in's own file, and is still there    *)
(* after the Close, unless an export failed before (Library::SaveToDB).     *)
SaveReachesOwnFile ==
  [][\A name \in LibNames :
       SaveToDB_Insert(name) /\ op.new \notin LibraryIDsOf(Main) /\ "export" \notin failed =>
         NewLibrary(name) \in disk'["own"].db.Library]_vars

(* A statement of an import or an export is refused for what it is, and not *)
(* by a fault of its own (Exception, which a file locked by others is too), *)
(* only if the files are one and the same or one is of an older schema: no  *)
(* alias is in use, no key is taken and no version is wrong, whatever rows  *)
(* others added or deleted before.                                          *)
RefusedForAReason ==
  [][op.cmd # "save" /\ failed = {} /\ "refused" \in failed' =>
       conn.main = op.source \/ \E f \in Files : disk[f].schema \in {"old", "mixed"}]_vars

(* What a statement finds when its turn comes.                              *)
HandlerHolds ==
  /\ op.pc = "idle" => op = NoOp
  /\ op.cmd = "none" => op.pc = "idle"
  /\ op.pc \in {"list", "listed", "dialog"} => op.cmd = "import"
  /\ op.pc \in {"attachExport", "createTables", "setVersion", "reopen"} => op.cmd = "export"
  /\ op.pc = "insert" <=> op.cmd = "save"
  /\ op.new # 0 => op.pc \in {"snippets", "languages", "detach", "insert"}
  /\ op.pc \in {"snippets", "languages", "insert"} => op.new # 0
  /\ op.new # 0 /\ op.cmd # "save" => conn.main # op.source /\ op.new \in LibraryIDsOf(Main)
  /\ op.pc = "dialog" => ~conn.open /\ op.todo \subseteq LibraryIDs
  /\ op.pc = "setVersion" => disk[op.source].schema \in {"new", "mixed"}
  /\ op.pc = "saveLibrary" => op.org \in LibraryIDsOf(Source)
  /\ op.pc = "snippets" => op.todo \subseteq SnippetIDsOf(Source)
  /\ op.pc = "languages" => op.todo \subseteq LangIDs

(* The plug-in is on its own file, except for the second half of an export, *)
(* which knows the way back.                                                *)
HomeHolds ==
  /\ "export" \notin failed =>
       /\ ~conn.txn
       /\ IF op.cmd = "export" /\ op.pc \in {"attach", "select", "saveLibrary", "snippets",
                                             "languages", "detach"}
          THEN op.home = "own"
          ELSE filename = "own" /\ conn.main = "own"
  /\ conn.open => op # NoOp \/ failed # {}

(* A file is only ever marked as schema 3 when it has its tables            *)
(* (CreateExportDB sets the version after the transaction).                 *)
VersionComesLast == \A f \in Files : disk[f].version = 3 => disk[f].schema \in {"new", "mixed"}

(* Every file is a database as its schema lets it be, at every step.        *)
FilesConsistent == \A f \in Files : Consistent(disk[f].db)

IInv ==
  TypeOK /\ FilesConsistent /\ HandlerHolds /\ HomeHolds /\ VersionComesLast /\ NothingElseTouched

(* As long as nothing failed the connection is closed before it is opened   *)
(* for an import or an export, so that the alias is free, and what it is on *)
(* then is marked as schema 3.                                              *)
ConnectionHolds ==
  /\ disk["own"].version = 3
  /\ failed = {} =>
       /\ op.pc \in {"idle", "list", "dialog", "attachExport"} => ~conn.open
       /\ op.pc = "reopen" => disk[op.source].version = 3
       /\ op.pc = "attach" /\ op.cmd = "import" => ~conn.open
       /\ op.pc = "attach" /\ op.cmd = "export" =>
            conn.open /\ conn.attached = {} /\ disk[conn.main].version = 3
       /\ op.pc \in {"select", "saveLibrary", "snippets"} => disk[conn.main].version = 3

(* How much has been copied at every step: what is still to do is missing   *)
(* and nothing else.                                                        *)
CopiedAs(name, sort) ==
  {s \in Source.Snippets : s.LibraryID = op.org /\ Copied(s.Name) = name /\ s.Sort = sort}

CopyHolds ==
  op.new # 0 /\ op.cmd # "save" =>
    /\ LibraryIsCopied
    /\ op.pc = "snippets" =>
         /\ op.todo \subseteq {s.SnippetID : s \in {t \in Source.Snippets : t.LibraryID = op.org}}
         /\ LangsOf(Main, op.new) = {}
    /\ op.pc = "languages" => op.todo \subseteq LangsOf(Source, op.org)
    /\ op.pc = "detach" => op.todo = {}
    /\ op.pc # "snippets" => LangsOf(Main, op.new) = LangsOf(Source, op.org) \ op.todo
    /\ \A name \in SnipNames, sort \in 0..MaxSort :
         Cardinality(Copies(name, sort)) =
         Cardinality({s \in CopiedAs(name, sort) : op.pc = "snippets" => s.SnippetID \notin op.todo})

CopyInv == IInv /\ ConnectionHolds /\ CopyHolds

(* What is stored as schema 3 has the tables of schema 3, so that it can be *)
(* exported to and imported from (docs/libraries.rst: "you can create a new *)
(* database or you can export to an existing database").                    *)
ExportedFileIsCurrent == \A f \in Files : disk[f].version = 3 => disk[f].schema = "new"

(* Every handler comes to its end, or to the dialog: the loops over the     *)
(* rows of the source end whatever is inserted meanwhile.                   *)
HandlerEnds == op # NoOp ~> op = NoOp \/ op.pc = "dialog"
=============================================================================
