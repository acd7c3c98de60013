------------------------ MODULE ImportExport_proofs ------------------------
(***************************************************************************)
(* An import or an export changes nothing but the rows of its new library  *)
(* and ends with a whole copy of it, SQLite refuses none of its statements *)
(* without a reason, the plug-in comes back to its own file, and no file is*)
(* marked as schema 3 before it has the tables: for any files and any      *)
(* number of commands, failures and writes of others.  IInv is inductive,  *)
(* and with it CopyInv, which counts what has been copied so far.          *)
(***************************************************************************)
EXTENDS ImportExport, SnippetTables_proofs

-----------------------------------------------------------------------------
(* What the invariant says of the files. *)
DiskHolds == FilesConsistent /\ VersionComesLast /\ NothingElseTouched

(* The invariant is about the types, the handler, the file name and the     *)
(* files.                                                                   *)
LEMMA InvariantParts == IInv <=> TypeOK /\ HandlerHolds /\ HomeHolds /\ DiskHolds
  BY DEF IInv, DiskHolds

(* The types, as the steps use them. *)
LEMMA Typed ==
  ASSUME TypeOK
  PROVE  /\ disk \in [Files -> File] /\ base \in [Files -> Database]
         /\ filename \in Files
         /\ conn \in [open : BOOLEAN, main : Files, attached : SUBSET {"import", "export"},
                      txn : BOOLEAN]
         /\ op \in [cmd : {"none"} \cup Commands, pc : PCs, source : Files, home : Files,
                    org : {0} \cup LibraryIDs, new : {0} \cup LibraryIDs,
                    todo : SUBSET (LibraryIDs \cup SnippetIDs \cup LangIDs)]
         /\ requests \in 0..MaxRequests
         /\ failed \subseteq Commands \cup {"refused"}
  BY DEF TypeOK

(* A step that leaves the files alone, and the connection on its file once  *)
(* there is a new library, keeps what holds of the files.                   *)
LEMMA SameFiles ==
  ASSUME DiskHolds, UNCHANGED <<disk, base>>,
         op'.cmd = op.cmd, op'.new = op.new, op.new # 0 => conn'.main = conn.main
  PROVE  DiskHolds'
<1>1. FilesConsistent' /\ VersionComesLast'
  BY DEF DiskHolds, FilesConsistent, VersionComesLast
<1>2. NothingElseTouched'
  BY DEF DiskHolds, NothingElseTouched
<1>3. QED
  BY <1>1, <1>2 DEF DiskHolds

(* So does the end of a handler.                                            *)
LEMMA SameFilesAtEnd ==
  ASSUME DiskHolds, UNCHANGED disk, op' = NoOp
  PROVE  DiskHolds'
<1>1. FilesConsistent' /\ VersionComesLast'
  BY DEF DiskHolds, FilesConsistent, VersionComesLast
<1>2. NothingElseTouched'
  BY DEF NothingElseTouched, NoOp
<1>3. QED
  BY <1>1, <1>2 DEF DiskHolds

(* A connection, of which the file is one of the two. *)
Connection == [open : BOOLEAN, main : Files, attached : SUBSET {"import", "export"},
               txn : BOOLEAN]

(* What opening the connection returns.                                     *)
LEMMA OpenedTyped ==
  ASSUME NEW c \in Connection, NEW f \in Files
  PROVE  /\ Opened(c, f) \in Connection
         /\ Opened(c, f).open = TRUE
         /\ Opened(c, f).txn = TRUE => c.txn = TRUE
         /\ Opened(c, f).main \in {c.main, f}
  BY DEF Opened, Closed, Files, Connection

(* A handler that fails, whatever it has done so far, keeps the invariant.  *)
LEMMA FailKeeps ==
  ASSUME IInv, op.pc # "idle", NEW what \in {{op.cmd}, {op.cmd, "refused"}}, Fail(what),
         \/ UNCHANGED conn
         \/ conn' = Opened(conn, filename)
         \/ op.pc = "createTables" /\ conn' = [conn EXCEPT !.txn = TRUE]
  PROVE  IInv'
<1>1. TypeOK /\ HandlerHolds /\ HomeHolds /\ DiskHolds
  BY InvariantParts
<1>2. op.cmd \in Commands /\ what \subseteq Commands \cup {"refused"} /\ op.cmd \in what
  BY <1>1, Typed DEF HandlerHolds
<1>3. failed' = failed \cup what /\ op' = NoOp /\ UNCHANGED <<disk, filename, requests, base>>
  BY DEF Fail
<1>4. /\ conn' \in Connection /\ conn'.main \in {conn.main, filename}
      /\ (conn'.txn = TRUE => conn.txn = TRUE \/ op.cmd = "export")
  <2>1. conn \in Connection /\ filename \in Files
    BY <1>1, Typed DEF Connection
  <2>2. CASE UNCHANGED conn
    BY <2>1, <2>2
  <2>3. CASE conn' = Opened(conn, filename)
    BY <2>1, <2>3, OpenedTyped
  <2>4. CASE op.pc = "createTables" /\ conn' = [conn EXCEPT !.txn = TRUE]
    BY <1>1, <2>1, <2>4 DEF HandlerHolds, Connection
  <2>5. QED
    BY <2>2, <2>3, <2>4
<1>5. TypeOK'
  BY <1>1, <1>2, <1>3, <1>4, Typed DEF TypeOK, NoOp, PCs, Files, Connection
<1>6. HandlerHolds'
  BY <1>3 DEF HandlerHolds, NoOp
<1>7. HomeHolds'
  BY <1>1, <1>2, <1>3, <1>4 DEF HomeHolds, NoOp, Connection
<1>8. DiskHolds'
  BY <1>1, <1>3, SameFilesAtEnd
<1>9. QED
  BY <1>5, <1>6, <1>7, <1>8 DEF IInv, DiskHolds

(* What attaching another file changes.                                     *)
LEMMA AttachedTyped ==
  ASSUME NEW c \in Connection, NEW alias \in {"import", "export"}
  PROVE  /\ Attached(c, alias) \in Connection
         /\ Attached(c, alias).open = c.open
         /\ Attached(c, alias).main = c.main
         /\ Attached(c, alias).txn = c.txn
  BY DEF Attached, Connection

(* What opening the connection and attaching a file to it change.           *)
LEMMA OpenedAttachedTyped ==
  ASSUME NEW c \in Connection, NEW f \in Files, NEW alias \in {"import", "export"},
         NEW d, d = Attached(Opened(c, f), alias)
  PROVE  /\ d \in Connection /\ d.main \in {c.main, f}
         /\ d.txn = TRUE => c.txn = TRUE
<1> DEFINE o == Opened(c, f)
<1>1. o \in Connection /\ (o.txn = TRUE => c.txn = TRUE) /\ o.main \in {c.main, f}
  BY OpenedTyped
<1> HIDE DEF o
<1>2. /\ Attached(o, alias) \in Connection /\ Attached(o, alias).main = o.main
      /\ Attached(o, alias).txn = o.txn
  BY <1>1, AttachedTyped
<1>3. d = Attached(o, alias)
  BY DEF o
<1>4. QED
  BY <1>1, <1>2, <1>3

(* The handler under way. *)
Step == [cmd : {"none"} \cup Commands, pc : PCs, source : Files, home : Files,
         org : {0} \cup LibraryIDs, new : {0} \cup LibraryIDs,
         todo : SUBSET (LibraryIDs \cup SnippetIDs \cup LangIDs)]

(* The parts of the invariant with their types named. *)
LEMMA Facts ==
  ASSUME IInv
  PROVE  /\ disk \in [Files -> File] /\ base \in [Files -> Database]
         /\ filename \in Files /\ conn \in Connection /\ op \in Step
         /\ requests \in 0..MaxRequests
         /\ failed \subseteq Commands \cup {"refused"}
         /\ HandlerHolds /\ HomeHolds /\ DiskHolds
  BY DEF IInv, DiskHolds, TypeOK, Connection, Step

(* A step keeps the invariant if it keeps its parts.                        *)
LEMMA Assembled ==
  ASSUME disk' \in [Files -> File], base' \in [Files -> Database],
         filename' \in Files, conn' \in Connection, op' \in Step,
         requests' \in 0..MaxRequests, failed' \subseteq Commands \cup {"refused"},
         HandlerHolds', HomeHolds', DiskHolds'
  PROVE  IInv'
  BY DEF IInv, DiskHolds, TypeOK, Connection, Step

(* A statement that SQLite refuses ends the handler.                        *)
LEMMA RefusedKeeps ==
  ASSUME IInv, op.pc # "idle", Fail({op.cmd, "refused"}),
         UNCHANGED conn \/ conn' = Opened(conn, filename)
  PROVE  IInv'
  BY FailKeeps

(* Filling the list of the import dialog.                                   *)
LEMMA DialogOpensKeeps ==
  ASSUME IInv, AttachList \/ AddLibraryToCombo
  PROVE  IInv'
<1>1. CASE /\ Fail({op.cmd, "refused"}) /\ op.pc # "idle"
           /\ UNCHANGED conn \/ conn' = Opened(conn, filename)
  BY <1>1, RefusedKeeps
<1>2. CASE /\ op.pc = "list"
           /\ conn' = Attached(Opened(conn, filename), "import")
           /\ op' = [op EXCEPT !.pc = "listed"]
           /\ UNCHANGED <<disk, filename, requests, failed, base>>
  <2>1. conn' \in Connection /\ conn'.main \in {conn.main, filename}
        /\ (conn'.txn = TRUE => conn.txn = TRUE)
    BY <1>2, Facts, OpenedAttachedTyped
  <2>2. op' \in Step /\ op'.pc = "listed" /\ op'.cmd = "import" /\ op'.new = 0 /\ op.new = 0
        /\ op.cmd = "import"
    BY <1>2, Facts DEF Step, PCs, HandlerHolds
  <2>3. HandlerHolds'
    BY <2>2 DEF HandlerHolds
  <2>4. HomeHolds'
    BY <1>2, <2>1, <2>2, Facts DEF HomeHolds, Connection, NoOp
  <2>5. DiskHolds'
    BY <1>2, <2>2, Facts, SameFiles
  <2>6. QED
    BY <1>2, <2>1, <2>2, <2>3, <2>4, <2>5, Facts, Assembled
<1>3. CASE /\ op.pc = "listed"
           /\ op' = [op EXCEPT !.pc = "dialog", !.todo = LibraryIDsOf(Source)]
           /\ conn' = Closed
           /\ UNCHANGED <<disk, filename, requests, failed, base>>
  <2>1. LibraryIDsOf(Source) \subseteq LibraryIDs
    BY Facts, RowsOf DEF DiskHolds, FilesConsistent, Source, Step
  <2>2. op' \in Step /\ op'.pc = "dialog" /\ op'.cmd = "import" /\ op'.new = 0 /\ op.new = 0
        /\ op.cmd = "import" /\ op'.todo \subseteq LibraryIDs
    BY <1>3, <2>1, Facts DEF Step, PCs, HandlerHolds
  <2>3. conn' \in Connection /\ conn'.open = FALSE /\ conn'.txn = FALSE /\ conn'.main = "own"
    BY <1>3 DEF Closed, Connection, Files
  <2>4. HandlerHolds'
    BY <2>2, <2>3 DEF HandlerHolds
  <2>5. HomeHolds'
    BY <1>3, <2>2, <2>3, Facts DEF HomeHolds
  <2>6. DiskHolds'
    BY <1>3, <2>2, Facts, SameFiles
  <2>7. QED
    BY <1>3, <2>2, <2>3, <2>4, <2>5, <2>6, Facts, Assembled
<1>4. QED
  BY <1>1, <1>2, <1>3 DEF AttachList, OpenAndAttach, AddLibraryToCombo, Statement, GoTo

(* A step that changes no row of any file keeps what holds of the files, if *)
(* no version runs ahead.                                                   *)
LEMMA SameRows ==
  ASSUME DiskHolds, \A f \in Files : disk'[f].db = disk[f].db, base' = base,
         op'.cmd = op.cmd, op'.new = op.new, conn'.main = conn.main, VersionComesLast'
  PROVE  DiskHolds'
<1>1. FilesConsistent'
  BY DEF DiskHolds, FilesConsistent
<1>2. NothingElseTouched'
  BY DEF DiskHolds, NothingElseTouched
<1>3. QED
  BY <1>1, <1>2 DEF DiskHolds

(* The first half of an export, up to where its file becomes the plug-in's. *)
LEMMA ExportPreparesKeeps ==
  ASSUME IInv, AttachExport \/ CreateExportDB \/ SetUserVersion
  PROVE  IInv'
<1>1. CASE /\ Fail({op.cmd, "refused"}) /\ op.pc # "idle"
           /\ UNCHANGED conn \/ conn' = Opened(conn, filename)
  BY <1>1, RefusedKeeps
<1>2. CASE /\ op.pc = "attachExport"
           /\ conn' = Attached(Opened(conn, filename), "export")
           /\ op' = [op EXCEPT !.pc = "createTables"]
           /\ UNCHANGED <<disk, filename, requests, failed, base>>
  <2>1. conn' \in Connection /\ conn'.main \in {conn.main, filename}
        /\ (conn'.txn = TRUE => conn.txn = TRUE)
    BY <1>2, Facts, OpenedAttachedTyped
  <2>2. op' \in Step /\ op'.pc = "createTables" /\ op'.cmd = "export" /\ op'.new = 0
        /\ op.new = 0 /\ op.cmd = "export"
    BY <1>2, Facts DEF Step, PCs, HandlerHolds
  <2>3. HandlerHolds'
    BY <2>2 DEF HandlerHolds
  <2>4. HomeHolds'
    BY <1>2, <2>1, <2>2, Facts DEF HomeHolds, Connection, NoOp
  <2>5. DiskHolds'
    BY <1>2, <2>2, Facts, SameFiles
  <2>6. QED
    BY <1>2, <2>1, <2>2, <2>3, <2>4, <2>5, Facts, Assembled
<1>3. CASE /\ op.pc = "createTables"
           /\ disk' = [disk EXCEPT ![op.source].schema =
                         CASE @ = "none" -> "new" [] @ = "old" -> "mixed" [] OTHER -> @]
           /\ op' = [op EXCEPT !.pc = "setVersion"]
           /\ UNCHANGED <<filename, conn, requests, failed, base>>
  <2>1. op.source \in Files /\ disk[op.source] \in File
    BY Facts DEF Step
  <2>2. op' \in Step /\ op'.pc = "setVersion" /\ op'.cmd = "export" /\ op'.new = 0
        /\ op.new = 0 /\ op.cmd = "export" /\ op'.source = op.source
    BY <1>3, Facts DEF Step, PCs, HandlerHolds
  <2> DEFINE schema == CASE disk[op.source].schema = "none" -> "new"
                         [] disk[op.source].schema = "old" -> "mixed"
                         [] OTHER -> disk[op.source].schema
  <2>3. schema \in {"new", "mixed"} /\ schema \in Schemas
    BY <2>1 DEF File, Schemas
  <2>4. disk' = [disk EXCEPT ![op.source].schema = schema]
    BY <1>3
  <2> HIDE DEF schema
  <2>5. /\ disk' \in [Files -> File] /\ disk'[op.source].schema \in {"new", "mixed"}
        /\ \A f \in Files : disk'[f].db = disk[f].db /\ disk'[f].version = disk[f].version
        /\ \A f \in Files : f # op.source => disk'[f].schema = disk[f].schema
    BY <2>1, <2>3, <2>4, Facts DEF File
  <2>6. HandlerHolds'
    BY <2>2, <2>5 DEF HandlerHolds
  <2>7. HomeHolds'
    BY <1>3, <2>2, Facts DEF HomeHolds, NoOp
  <2>8. VersionComesLast'
    BY <2>5, Facts DEF DiskHolds, VersionComesLast
  <2>9. DiskHolds'
    BY <1>3, <2>2, <2>5, <2>8, Facts, SameRows
  <2>10. QED
    BY <1>3, <2>2, <2>5, <2>6, <2>7, <2>9, Facts, Assembled
<1>4. CASE /\ op.pc = "setVersion"
           /\ disk' = [disk EXCEPT ![op.source].version = 3]
           /\ op' = [op EXCEPT !.pc = "reopen"]
           /\ UNCHANGED <<filename, conn, requests, failed, base>>
  <2>1. op.source \in Files /\ disk[op.source].schema \in {"new", "mixed"}
    BY <1>4, Facts DEF Step, HandlerHolds
  <2>2. op' \in Step /\ op'.pc = "reopen" /\ op'.cmd = "export" /\ op'.new = 0
        /\ op.new = 0 /\ op.cmd = "export"
    BY <1>4, Facts DEF Step, PCs, HandlerHolds
  <2>3. /\ disk' \in [Files -> File]
        /\ \A f \in Files : disk'[f].db = disk[f].db /\ disk'[f].schema = disk[f].schema
        /\ \A f \in Files : f # op.source => disk'[f].version = disk[f].version
    BY <1>4, <2>1, Facts DEF File
  <2>4. HandlerHolds'
    BY <2>2 DEF HandlerHolds
  <2>5. HomeHolds'
    BY <1>4, <2>2, Facts DEF HomeHolds, NoOp
  <2>6. VersionComesLast'
    BY <2>1, <2>3, Facts DEF DiskHolds, VersionComesLast
  <2>7. DiskHolds'
    BY <1>4, <2>2, <2>3, <2>6, Facts, SameRows
  <2>8. QED
    BY <1>4, <2>2, <2>3, <2>4, <2>5, <2>7, Facts, Assembled
<1>5. QED
  BY <1>1, <1>2, <1>3, <1>4
  DEF AttachExport, OpenAndAttach, CreateExportDB, SetUserVersion, Statement, GoTo

(* Reopening on the export file, and the import's own first statements.     *)
LEMMA ImportStartsKeeps ==
  ASSUME IInv, Reopen \/ Attach \/ SelectLibrary
  PROVE  IInv'
<1>1. CASE /\ Fail({op.cmd, "refused"}) /\ op.pc # "idle"
           /\ UNCHANGED conn \/ conn' = Opened(conn, filename)
  BY <1>1, RefusedKeeps
<1>2. CASE /\ op.pc = "reopen"
           /\ filename' = op.source /\ conn' = Opened(Closed, op.source)
           /\ op' = [op EXCEPT !.pc = "attach", !.source = filename, !.home = filename]
           /\ UNCHANGED <<disk, requests, failed, base>>
  <2>1. Closed \in Connection /\ Closed.txn = FALSE /\ op.source \in Files
    BY Facts DEF Closed, Connection, Files, Step
  <2>2. conn' \in Connection /\ conn'.txn # TRUE
    BY <1>2, <2>1, OpenedTyped
  <2>3. op' \in Step /\ op'.pc = "attach" /\ op'.cmd = "export" /\ op'.new = 0
        /\ op.new = 0 /\ op.cmd = "export" /\ op'.home = filename
    BY <1>2, Facts DEF Step, PCs, HandlerHolds
  <2>4. HandlerHolds'
    BY <2>3 DEF HandlerHolds
  <2>5. "export" \notin failed => filename = "own"
    BY <1>2, Facts DEF HomeHolds
  <2>6. conn'.txn = FALSE
    BY <2>2 DEF Connection
  <2>7. HomeHolds'
    BY <1>2, <2>3, <2>5, <2>6 DEF HomeHolds, NoOp
  <2>8. DiskHolds'
    BY <1>2, <2>3, Facts, SameFiles
  <2>9. QED
    BY <1>2, <2>1, <2>2, <2>3, <2>4, <2>7, <2>8, Facts, Assembled
<1>3. CASE /\ op.pc = "attach"
           /\ conn' = Attached(Opened(conn, filename), "import")
           /\ op' = [op EXCEPT !.pc = "select"]
           /\ UNCHANGED <<disk, filename, requests, failed, base>>
  <2>1. conn' \in Connection /\ conn'.main \in {conn.main, filename}
        /\ (conn'.txn = TRUE => conn.txn = TRUE)
    BY <1>3, Facts, OpenedAttachedTyped
  <2>2. op' \in Step /\ op'.pc = "select" /\ op'.cmd = op.cmd /\ op'.new = 0 /\ op.new = 0
        /\ op'.home = op.home /\ op.cmd # "save" /\ op.cmd # "none"
    BY <1>3, Facts DEF Step, PCs, HandlerHolds, NoOp
  <2>3. HandlerHolds'
    BY <2>2 DEF HandlerHolds
  <2>4. HomeHolds'
    BY <1>3, <2>1, <2>2, Facts DEF HomeHolds, Connection, NoOp
  <2>5. DiskHolds'
    BY <1>3, <2>2, Facts, SameFiles
  <2>6. QED
    BY <1>3, <2>1, <2>2, <2>3, <2>4, <2>5, Facts, Assembled
<1>4. CASE /\ op.pc = "select"
           /\ op' = [op EXCEPT !.pc = IF op.org \in LibraryIDsOf(Source) THEN "saveLibrary"
                                                                         ELSE "detach"]
           /\ UNCHANGED <<disk, filename, conn, requests, failed, base>>
  <2>1. op' \in Step /\ op'.cmd = op.cmd /\ op'.new = 0 /\ op.new = 0 /\ op'.home = op.home
        /\ op'.source = op.source /\ op'.org = op.org
        /\ op.cmd # "save" /\ op.cmd # "none" /\ op'.pc \in {"saveLibrary", "detach"}
        /\ (op'.pc = "saveLibrary" => op.org \in LibraryIDsOf(Source))
    BY <1>4, Facts DEF Step, PCs, HandlerHolds, NoOp
  <2>2. HandlerHolds'
    BY <1>4, <2>1 DEF HandlerHolds, Source
  <2>3. HomeHolds'
    BY <1>4, <2>1, Facts DEF HomeHolds, NoOp
  <2>4. DiskHolds'
    BY <1>4, <2>1, Facts, SameFiles
  <2>5. QED
    BY <1>4, <2>1, <2>2, <2>3, <2>4, Facts, Assembled
<1>5. QED
  BY <1>1, <1>2, <1>3, <1>4 DEF Reopen, Attach, OpenAndAttach, SelectLibrary, Statement, GoTo

-----------------------------------------------------------------------------
(* Copying the rows. *)

(* Storing other rows changes them and nothing else.                        *)
LEMMA StoreChanges ==
  ASSUME IInv, NEW e \in Database, Store(e)
  PROVE  /\ disk' \in [Files -> File] /\ disk'[conn.main].db = e
         /\ \A f \in Files : disk'[f].version = disk[f].version /\ disk'[f].schema = disk[f].schema
         /\ \A f \in Files : f # conn.main => disk'[f] = disk[f]
         /\ conn.main \in Files
<1>1. conn.main \in Files /\ disk \in [Files -> File]
  BY Facts DEF Connection
<1>2. disk' = [disk EXCEPT ![conn.main].db = e]
  BY DEF Store
<1>3. QED
  BY <1>1, <1>2 DEF File

(* What is stored keeps what holds of the files, if deleting the new library*)
(* still takes it back.                                                     *)
LEMMA StoreKeeps ==
  ASSUME IInv, NEW e, Consistent(e), Store(e), conn' = conn, base' = base,
         op.cmd \in {"import", "export"}, op'.cmd = op.cmd, op'.new # 0,
         op.new = 0 \/ op.new = op'.new,
         DeleteLibrary(e, op'.new) = IF op.new = 0 THEN Main ELSE DeleteLibrary(Main, op.new)
  PROVE  DiskHolds'
<1>1. /\ disk' \in [Files -> File] /\ disk'[conn.main].db = e
      /\ \A f \in Files : disk'[f].version = disk[f].version /\ disk'[f].schema = disk[f].schema
      /\ \A f \in Files : f # conn.main => disk'[f] = disk[f]
      /\ conn.main \in Files
  BY StoreChanges DEF Consistent
<1>2. FilesConsistent'
  BY <1>1, Facts DEF DiskHolds, FilesConsistent
<1>3. VersionComesLast'
  BY <1>1, Facts DEF DiskHolds, VersionComesLast
<1>4. \A f \in Files :
        base[f] = IF f = conn.main /\ op.new # 0 THEN DeleteLibrary(disk[f].db, op.new)
                                                 ELSE disk[f].db
  BY Facts DEF DiskHolds, NothingElseTouched
<1>5. base[conn.main] = DeleteLibrary(e, op'.new)
  BY <1>1, <1>4 DEF Main
<1>6. \A f \in Files : f # conn.main => base[f] = disk'[f].db
  BY <1>1, <1>4
<1>7. NothingElseTouched'
  BY <1>1, <1>5, <1>6 DEF NothingElseTouched
<1>8. QED
  BY <1>2, <1>3, <1>7 DEF DiskHolds

(* The library itself. *)
LEMMA SaveLibraryKeeps ==
  ASSUME IInv, SaveLibrary
  PROVE  IInv'
<1> DEFINE id == NextID(LibraryIDsOf(Main))
<1> DEFINE lib == CHOOSE l \in Source.Library : l.LibraryID = op.org
<1> DEFINE ids == {s.SnippetID : s \in {t \in Source.Snippets : t.LibraryID = op.org}}
<1>1. CASE Fail({op.cmd, "refused"}) /\ UNCHANGED conn /\ op.pc # "idle"
  BY <1>1, RefusedKeeps
<1>2. CASE /\ op.pc = "saveLibrary" /\ id <= MaxLibraryID
           /\ CanInsert(id, LibraryIDsOf(Main))
           /\ Store(InsertLibrary(Main, [lib EXCEPT !.LibraryID = id]))
           /\ op' = [op EXCEPT !.pc = "snippets", !.new = id, !.todo = ids]
           /\ UNCHANGED <<filename, conn, requests, failed, base>>
  <2>1. /\ Consistent(Main) /\ Consistent(Source) /\ op.org \in LibraryIDsOf(Source)
        /\ op.source \in Files /\ conn.main \in Files
    BY <1>2, Facts DEF DiskHolds, FilesConsistent, HandlerHolds, Main, Source, Step, Connection
  <2>2. id \in LibraryIDs /\ id \notin LibraryIDsOf(Main) /\ id # 0
    BY <1>2, <2>1, NewKeys DEF LibraryIDs
  <2>3. lib \in LibraryRow
    <3>1. \E l \in Source.Library : l.LibraryID = op.org
      BY <2>1 DEF LibraryIDsOf
    <3>2. lib \in Source.Library
      BY <3>1, Zenon
    <3>3. QED
      BY <2>1, <3>2, RowsOf
  <2>4. ids \subseteq SnippetIDsOf(Source) /\ ids \subseteq SnippetIDs
    BY <2>1, RowsOf DEF SnippetIDsOf
  <2> DEFINE new == [lib EXCEPT !.LibraryID = id]
  <2> HIDE DEF lib, ids, id
  <2>5. new \in LibraryRow /\ new.LibraryID = id
    BY <2>2, <2>3 DEF LibraryRow
  <2> DEFINE e == InsertLibrary(Main, new)
  <2> HIDE DEF new
  <2>6. Consistent(e) /\ LibraryIDsOf(e) = LibraryIDsOf(Main) \cup {id}
    BY <2>1, <2>2, <2>5, InsertLibraryConsistent
  <2>7. DeleteLibrary(e, id) = Main
    BY <2>1, <2>2, <2>5, DeleteTakesBack
  <2>8. Store(e)
    BY <1>2 DEF new, e
  <2> HIDE DEF e
  <2>9. op' \in Step /\ op'.pc = "snippets" /\ op'.cmd = op.cmd /\ op'.new = id
        /\ op'.home = op.home /\ op'.source = op.source /\ op.new = 0 /\ op'.todo = ids
        /\ op.cmd # "save" /\ op.cmd # "none"
    BY <1>2, <2>2, <2>4, Facts DEF Step, PCs, HandlerHolds, NoOp
  <2>10. /\ disk' \in [Files -> File] /\ disk'[conn.main].db = e
         /\ \A f \in Files : f # conn.main => disk'[f] = disk[f]
    BY <2>6, <2>8, StoreChanges DEF Consistent
  <2>11. HandlerHolds'
    <3>1. conn' = conn /\ conn.main # op.source
      BY <1>2, Zenon DEF CanInsert
    <3>2. Main' = e
      BY <2>10, <3>1, Zenon DEF Main
    <3>3. Source' = Source
      BY <2>1, <2>9, <2>10, <3>1, Zenon DEF Source
    <3>4. conn'.main # op'.source /\ op'.new \in LibraryIDsOf(Main')
      <4>1. id \in LibraryIDsOf(e)
        BY <2>6
      <4>2. QED
        BY <2>9, <3>1, <3>2, <4>1, Zenon
    <3>5. op'.todo \subseteq SnippetIDsOf(Source')
      BY <2>4, <2>9, <3>3, Zenon
    <3>6. op'.pc = "snippets" /\ op'.cmd # "save" /\ op'.cmd # "none" /\ op'.new # 0
      BY <2>2, <2>9, Zenon
    <3>7. QED
      BY <3>4, <3>5, <3>6 DEF HandlerHolds
  <2>12. HomeHolds'
    <3>1. HomeHolds /\ UNCHANGED <<filename, conn, failed>> /\ op.pc = "saveLibrary"
      BY <1>2, Facts, Zenon
    <3>2. op'.pc = "snippets" /\ op'.cmd = op.cmd /\ op'.home = op.home
      BY <2>9, Zenon
    <3>3. QED
      BY <3>1, <3>2 DEF HomeHolds, NoOp
  <2>13. op.cmd \in {"import", "export"}
    BY <2>9, Facts DEF Step, Commands
  <2>14. DiskHolds'
    BY <1>2, <2>2, <2>6, <2>7, <2>8, <2>9, <2>13, StoreKeeps
  <2>15. QED
    BY <1>2, <2>9, <2>10, <2>11, <2>12, <2>14, Facts, Assembled
<1>3. QED
  BY <1>1, <1>2 DEF SaveLibrary, Statement

(* One snippet of it. *)
LEMMA ImportSnippetKeeps ==
  ASSUME IInv, NEW x \in op.todo, ImportSnippet(x)
  PROVE  IInv'
<1> DEFINE id == NextID(SnippetIDsOf(Main))
<1> DEFINE s == SnippetOf(x)
<1> DEFINE new == [s EXCEPT !.SnippetID = id, !.LibraryID = op.new, !.Name = Copied(s.Name)]
<1>1. CASE Fail({op.cmd, "refused"}) /\ UNCHANGED conn /\ op.pc # "idle"
  BY <1>1, RefusedKeeps
<1>2. CASE /\ op.pc = "snippets" /\ id <= MaxSnippetID
           /\ CanInsert(id, SnippetIDsOf(Main))
           /\ Store(InsertSnippet(Main, new))
           /\ op' = [op EXCEPT !.todo = @ \ {x}]
           /\ UNCHANGED <<filename, conn, requests, failed, base>>
  <2>1. /\ Consistent(Main) /\ Consistent(Source) /\ x \in SnippetIDsOf(Source)
        /\ op.new \in LibraryIDsOf(Main) /\ op.new # 0 /\ op.cmd # "save" /\ op.cmd # "none"
        /\ op.source \in Files /\ conn.main \in Files /\ op.source # conn.main
    BY <1>2, Facts DEF DiskHolds, FilesConsistent, HandlerHolds, Main, Source, Step, Connection,
                       NoOp
  <2>2. id \in SnippetIDs /\ id \notin SnippetIDsOf(Main)
    BY <1>2, <2>1, NewKeys
  <2>3. s \in SnippetRow
    <3>1. \E r \in Source.Snippets : r.SnippetID = x
      BY <2>1 DEF SnippetIDsOf
    <3>2. s \in Source.Snippets
      BY <3>1, Zenon DEF SnippetOf
    <3>3. QED
      BY <2>1, <3>2, RowsOf
  <2>4. op.new \in LibraryIDs
    BY <2>1, RowsOf
  <2> HIDE DEF s, id
  <2>5. new \in SnippetRow /\ new.LibraryID = op.new /\ new.SnippetID = id
    <3>1. Copied(s.Name) \in SnipNames
      BY <2>3, ImportExportAssumption DEF SnippetRow, Copied
    <3>2. QED
      BY <2>2, <2>3, <2>4, <3>1 DEF SnippetRow
  <2> DEFINE e == InsertSnippet(Main, new)
  <2> HIDE DEF new
  <2>6. Consistent(e)
    BY <2>1, <2>2, <2>5, InsertSnippetConsistent
  <2>7. DeleteLibrary(e, op.new) = DeleteLibrary(Main, op.new)
    BY <2>1, <2>5, DeleteTakesBack
  <2>8. LibraryIDsOf(e) = LibraryIDsOf(Main)
    BY <2>1 DEF InsertSnippet, LibraryIDsOf, Consistent, Database
  <2>9. Store(e)
    BY <1>2 DEF e
  <2> HIDE DEF e
  <2>10. op' \in Step /\ op'.pc = "snippets" /\ op'.cmd = op.cmd /\ op'.new = op.new
         /\ op'.home = op.home /\ op'.source = op.source /\ op'.todo \subseteq op.todo
    BY <1>2, Facts DEF Step
  <2>11. /\ disk' \in [Files -> File] /\ disk'[conn.main].db = e
         /\ \A f \in Files : f # conn.main => disk'[f] = disk[f]
    BY <2>6, <2>9, StoreChanges DEF Consistent
  <2>12. HandlerHolds'
    <3>1. HandlerHolds
      BY Facts
    <3>2. Source' = Source
      BY <2>1, <2>10, <2>11 DEF Source
    <3>3. op'.todo \subseteq SnippetIDsOf(Source')
      BY <1>2, <2>10, <3>1, <3>2 DEF HandlerHolds
    <3>4. op'.new \in LibraryIDsOf(Main')
      BY <1>2, <2>1, <2>8, <2>10, <2>11 DEF Main
    <3>5. QED
      BY <1>2, <2>1, <2>10, <3>3, <3>4 DEF HandlerHolds
  <2>13. HomeHolds'
    BY <1>2, <2>10, Facts DEF HomeHolds, NoOp
  <2>14. op.cmd \in {"import", "export"}
    BY <2>1, Facts DEF Step, Commands
  <2>15. DiskHolds'
    BY <1>2, <2>1, <2>6, <2>7, <2>9, <2>10, <2>14, StoreKeeps
  <2>16. QED
    BY <1>2, <2>10, <2>11, <2>12, <2>13, <2>15, Facts, Assembled
<1>3. QED
  BY <1>1, <1>2 DEF ImportSnippet, Statement, Done

(* One of its languages. *)
LEMMA ImportLanguageKeeps ==
  ASSUME IInv, NEW x \in op.todo, ImportLanguage(x)
  PROVE  IInv'
<1>1. CASE Fail({op.cmd, "refused"}) /\ UNCHANGED conn /\ op.pc # "idle"
  BY <1>1, RefusedKeeps
<1>2. CASE /\ op.pc = "languages"
           /\ Store(AddLanguage(Main, op.new, x))
           /\ op' = [op EXCEPT !.todo = @ \ {x}]
           /\ UNCHANGED <<filename, conn, requests, failed, base>>
  <2>1. /\ Consistent(Main) /\ x \in LangIDs
        /\ op.new \in LibraryIDsOf(Main) /\ op.new # 0 /\ op.cmd # "save" /\ op.cmd # "none"
        /\ op.source \in Files /\ conn.main \in Files /\ op.source # conn.main
    BY <1>2, Facts DEF DiskHolds, FilesConsistent, HandlerHolds, Main, Step, Connection, NoOp
  <2> DEFINE e == AddLanguage(Main, op.new, x)
  <2>2. Consistent(e) /\ LibraryIDsOf(e) = LibraryIDsOf(Main)
    BY <2>1, AddLanguageConsistent
  <2>3. DeleteLibrary(e, op.new) = DeleteLibrary(Main, op.new)
    BY <2>1, DeleteTakesBack
  <2>4. Store(e)
    BY <1>2
  <2> HIDE DEF e
  <2>5. op' \in Step /\ op'.pc = "languages" /\ op'.cmd = op.cmd /\ op'.new = op.new
        /\ op'.home = op.home /\ op'.source = op.source /\ op'.todo \subseteq op.todo
    BY <1>2, Facts DEF Step
  <2>6. /\ disk' \in [Files -> File] /\ disk'[conn.main].db = e
        /\ \A f \in Files : f # conn.main => disk'[f] = disk[f]
    BY <2>2, <2>4, StoreChanges DEF Consistent
  <2>7. op'.new \in LibraryIDsOf(Main')
    BY <1>2, <2>1, <2>2, <2>5, <2>6 DEF Main
  <2>8. HandlerHolds'
    BY <1>2, <2>1, <2>5, <2>7, Facts DEF HandlerHolds
  <2>9. HomeHolds'
    BY <1>2, <2>5, Facts DEF HomeHolds, NoOp
  <2>10. op.cmd \in {"import", "export"}
    BY <2>1, Facts DEF Step, Commands
  <2>11. DiskHolds'
    BY <1>2, <2>1, <2>2, <2>3, <2>4, <2>5, <2>10, StoreKeeps
  <2>12. QED
    BY <1>2, <2>5, <2>6, <2>8, <2>9, <2>11, Facts, Assembled
<1>3. QED
  BY <1>1, <1>2 DEF ImportLanguage, Statement, Done

(* From the snippets to the languages, to the end, and back to where the    *)
(* plug-in was.                                                             *)
LEMMA ImportEndsKeeps ==
  ASSUME IInv, ImportLanguages \/ ImportLanguages_Done \/ Detach
  PROVE  IInv'
<1>1. CASE Fail({op.cmd, "refused"}) /\ UNCHANGED conn /\ op.pc # "idle"
  BY <1>1, RefusedKeeps
<1>2. CASE /\ op.pc = "snippets"
           /\ op' = [op EXCEPT !.pc = "languages",
                       !.todo = {x.Lang : x \in {y \in Source.LibraryLang : y.LibraryID = op.org}}]
           /\ UNCHANGED <<disk, filename, conn, requests, failed, base>>
  <2>1. Consistent(Source)
    BY Facts DEF DiskHolds, FilesConsistent, Source, Step
  <2>2. {x.Lang : x \in {y \in Source.LibraryLang : y.LibraryID = op.org}} \subseteq LangIDs
    BY <2>1 DEF Consistent, Database, LibraryLangRow
  <2>3. op' \in Step /\ op'.pc = "languages" /\ op'.cmd = op.cmd /\ op'.new = op.new
        /\ op'.home = op.home /\ op'.source = op.source /\ op'.todo \subseteq LangIDs
        /\ op.cmd # "save" /\ op.cmd # "none"
    BY <1>2, <2>2, Facts DEF Step, PCs, HandlerHolds, NoOp
  <2>4. HandlerHolds'
    BY <1>2, <2>3, Facts DEF HandlerHolds, Main
  <2>5. HomeHolds'
    BY <1>2, <2>3, Facts DEF HomeHolds, NoOp
  <2>6. DiskHolds'
    BY <1>2, <2>3, Facts, SameFiles
  <2>7. QED
    BY <1>2, <2>3, <2>4, <2>5, <2>6, Facts, Assembled
<1>3. CASE /\ op.pc = "languages" /\ op' = [op EXCEPT !.pc = "detach"]
           /\ UNCHANGED <<disk, filename, conn, requests, failed, base>>
  <2>1. op' \in Step /\ op'.pc = "detach" /\ op'.cmd = op.cmd /\ op'.new = op.new
        /\ op'.home = op.home /\ op'.source = op.source
        /\ op.cmd # "save" /\ op.cmd # "none"
    BY <1>3, Facts DEF Step, PCs, HandlerHolds, NoOp
  <2>2. HandlerHolds'
    BY <1>3, <2>1, Facts DEF HandlerHolds, Main
  <2>3. HomeHolds'
    BY <1>3, <2>1, Facts DEF HomeHolds, NoOp
  <2>4. DiskHolds'
    BY <1>3, <2>1, Facts, SameFiles
  <2>5. QED
    BY <1>3, <2>1, <2>2, <2>3, <2>4, Facts, Assembled
<1>4. CASE /\ op.pc = "detach" /\ conn' = Closed /\ op' = NoOp
           /\ filename' = IF op.cmd = "export" THEN op.home ELSE filename
           /\ UNCHANGED <<disk, requests, failed, base>>
  <2>1. op' \in Step /\ op'.pc = "idle" /\ op'.cmd = "none" /\ op'.new = 0
    BY <1>4 DEF NoOp, Step, PCs, Files
  <2>2. conn' \in Connection /\ conn'.open = FALSE /\ conn'.txn = FALSE /\ conn'.main = "own"
    BY <1>4 DEF Closed, Connection, Files
  <2>3. filename' \in Files /\ ("export" \notin failed => filename' = "own")
    BY <1>4, Facts DEF HomeHolds, Step
  <2>4. HandlerHolds'
    BY <1>4, <2>1 DEF HandlerHolds
  <2>5. HomeHolds'
    BY <1>4, <2>1, <2>2, <2>3 DEF HomeHolds
  <2>6. DiskHolds'
    BY <1>4, Facts, SameFilesAtEnd
  <2>7. QED
    BY <1>4, <2>1, <2>2, <2>3, <2>4, <2>5, <2>6, Facts, Assembled
<1>5. QED
  BY <1>1, <1>2, <1>3, <1>4
  DEF ImportLanguages, ImportLanguages_Done, Detach, Statement, GoTo

-----------------------------------------------------------------------------
(* The user, other processes, and failures. *)

(* Commands begin with the tables as they are.                              *)
LEMMA BeginKeeps ==
  ASSUME DiskHolds, disk' = disk, base' = Tables, op'.new = 0,
         disk \in [Files -> File]
  PROVE  DiskHolds' /\ base' \in [Files -> Database]
<1>1. FilesConsistent' /\ VersionComesLast'
  BY DEF DiskHolds, FilesConsistent, VersionComesLast
<1>2. NothingElseTouched'
  BY DEF NothingElseTouched, Tables
<1>3. base' \in [Files -> Database]
  BY DEF Tables, File
<1>4. QED
  BY <1>1, <1>2, <1>3 DEF DiskHolds

(* The commands of the import and the export.                               *)
LEMMA CommandKeeps ==
  ASSUME IInv, NEW file \in Files,
         OnLibraryImport(file) \/ \E id \in LibraryIDs : OnLibraryExport(file, id)
  PROVE  IInv'
<1>1. /\ op = NoOp /\ requests > 0 /\ requests' = requests - 1 /\ base' = Tables
      /\ UNCHANGED <<disk, filename, conn, failed>>
  BY DEF OnLibraryImport, OnLibraryExport, Request
<1>2. op' \in Step /\ op'.new = 0
      /\ \/ op'.cmd = "import" /\ op'.pc = "list"
         \/ op'.cmd = "export" /\ op'.pc = "attachExport"
  <2>1. CASE OnLibraryImport(file)
    BY <2>1 DEF OnLibraryImport, NoOp, Step, PCs, Commands, Files
  <2>2. ASSUME NEW id \in LibraryIDs, OnLibraryExport(file, id)
        PROVE  op' \in Step /\ op'.new = 0 /\ op'.cmd = "export" /\ op'.pc = "attachExport"
    BY <2>2 DEF OnLibraryExport, NoOp, Step, PCs, Commands, Files
  <2>3. QED
    BY <2>1, <2>2
<1>3. requests' \in 0..MaxRequests
  BY <1>1, Facts, ImportExportAssumption
<1>4. HandlerHolds'
  BY <1>1, <1>2 DEF HandlerHolds
<1>5. HomeHolds'
  BY <1>1, <1>2, Facts DEF HomeHolds, NoOp
<1>6. DiskHolds' /\ base' \in [Files -> Database]
  BY <1>1, <1>2, Facts, BeginKeeps
<1>7. QED
  BY <1>1, <1>2, <1>3, <1>4, <1>5, <1>6, Facts, Assembled

(* The import dialog, and what comes while it is open.                      *)
LEMMA DialogKeeps ==
  ASSUME IInv, OnCancel \/ UpdateSnippetsList \/ \E id \in op.todo : OnOK(id)
  PROVE  IInv'
<1>1. CASE OnCancel
  <2>1. /\ op.pc = "dialog" /\ op' = NoOp
        /\ UNCHANGED <<disk, filename, conn, requests, failed, base>>
    BY <1>1 DEF OnCancel
  <2>2. op' \in Step /\ op'.pc = "idle" /\ op'.cmd = "none" /\ op'.new = 0
    BY <2>1 DEF NoOp, Step, PCs, Files
  <2>3. HandlerHolds'
    BY <2>1, <2>2 DEF HandlerHolds
  <2>4. HomeHolds'
    BY <2>1, <2>2, Facts DEF HomeHolds, HandlerHolds
  <2>5. DiskHolds'
    BY <2>1, Facts, SameFilesAtEnd
  <2>6. QED
    BY <2>1, <2>2, <2>3, <2>4, <2>5, Facts, Assembled
<1>2. CASE UpdateSnippetsList
  <2>1. /\ op.pc \in {"idle", "dialog"} /\ conn' = Closed
        /\ UNCHANGED <<disk, filename, op, requests, failed, base>>
    BY <1>2 DEF UpdateSnippetsList
  <2>2. conn' \in Connection /\ conn'.open = FALSE /\ conn'.txn = FALSE /\ conn'.main = "own"
    BY <2>1 DEF Closed, Connection, Files
  <2>3. op.new = 0
    BY <2>1, Facts DEF HandlerHolds
  <2>4. HandlerHolds'
    BY <2>1, <2>2, <2>3, Facts DEF HandlerHolds
  <2>5. HomeHolds'
    BY <2>1, <2>2, Facts DEF HomeHolds
  <2>6. DiskHolds'
    BY <2>1, <2>3, Facts, SameFiles
  <2>7. QED
    BY <2>1, <2>2, <2>4, <2>5, <2>6, Facts, Assembled
<1>3. ASSUME NEW id \in op.todo, OnOK(id)
      PROVE  IInv'
  <2>1. /\ op.pc = "dialog" /\ op' = [op EXCEPT !.pc = "attach", !.org = id, !.todo = {}]
        /\ UNCHANGED <<disk, filename, conn, requests, failed, base>>
    BY <1>3 DEF OnOK
  <2>2. id \in LibraryIDs /\ op.cmd = "import" /\ op.new = 0
    BY <2>1, Facts DEF HandlerHolds
  <2>3. op' \in Step /\ op'.pc = "attach" /\ op'.cmd = "import" /\ op'.new = 0
    BY <2>1, <2>2, Facts DEF Step, PCs
  <2>4. HandlerHolds'
    BY <2>3 DEF HandlerHolds
  <2>5. HomeHolds'
    BY <2>1, <2>2, <2>3, Facts DEF HomeHolds, NoOp
  <2>6. DiskHolds'
    BY <2>1, <2>2, <2>3, Facts, SameFiles
  <2>7. QED
    BY <2>1, <2>3, <2>4, <2>5, <2>6, Facts, Assembled
<1>4. QED
  BY <1>1, <1>2, <1>3

(* Saving a new library, from MAX to the Close.                             *)
LEMMA SaveKeeps ==
  ASSUME IInv, SaveToDB \/ \E name \in LibNames : SaveToDB_Insert(name)
  PROVE  IInv'
<1>1. CASE SaveToDB
  <2> DEFINE c == Opened(conn, filename)
  <2> DEFINE id == NextID(LibraryIDsOf(disk[c.main].db))
  <2>1. c \in Connection /\ c.main \in {conn.main, filename} /\ (c.txn = TRUE => conn.txn = TRUE)
    BY Facts, OpenedTyped
  <2>2. Consistent(disk[c.main].db)
    BY <2>1, Facts DEF DiskHolds, FilesConsistent, Connection
  <2> HIDE DEF c
  <2>3. id <= MaxLibraryID => id \in LibraryIDs
    BY <2>2, NewKeys
  <2>4. /\ op = NoOp /\ requests > 0 /\ requests' = requests - 1 /\ base' = Tables
        /\ id \in LibraryIDs /\ conn' = c
        /\ op' = [NoOp EXCEPT !.cmd = "save", !.pc = "insert", !.new = id]
        /\ UNCHANGED <<disk, filename, failed>>
    BY <1>1, <2>3 DEF SaveToDB, Request, c
  <2> HIDE DEF id
  <2>5. op' \in Step /\ op'.pc = "insert" /\ op'.cmd = "save"
    BY <2>4 DEF NoOp, Step, PCs, Commands, Files
  <2>6. requests' \in 0..MaxRequests
    BY <2>4, Facts, ImportExportAssumption
  <2>7. HandlerHolds'
    <3>1. op'.new # 0
      BY <2>4 DEF NoOp, LibraryIDs
    <3>2. QED
      BY <2>5, <3>1 DEF HandlerHolds
  <2>8. HomeHolds'
    BY <2>1, <2>4, <2>5, Facts DEF HomeHolds, NoOp, Connection
  <2>9. FilesConsistent' /\ VersionComesLast' /\ NothingElseTouched'
    BY <2>4, <2>5, Facts DEF DiskHolds, FilesConsistent, VersionComesLast, NothingElseTouched
  <2>10. base' \in [Files -> Database]
    BY <2>4, Facts DEF Tables, File
  <2>11. QED
    BY <2>1, <2>4, <2>5, <2>6, <2>7, <2>8, <2>9, <2>10, Facts, Assembled DEF DiskHolds
<1>2. ASSUME NEW name \in LibNames, SaveToDB_Insert(name)
      PROVE  IInv'
  <2>1. CASE Fail({op.cmd, "refused"}) /\ UNCHANGED conn /\ op.pc # "idle"
    BY <2>1, RefusedKeeps
  <2>2. CASE /\ op.pc = "insert" /\ op.new \notin LibraryIDsOf(Main)
             /\ UNCHANGED disk \/ Store(InsertLibrary(Main, NewLibrary(name)))
             /\ conn' = Closed /\ op' = NoOp
             /\ UNCHANGED <<filename, requests, failed, base>>
    <3> DEFINE e == InsertLibrary(Main, NewLibrary(name))
    <3>1. Consistent(Main) /\ conn.main \in Files /\ op.cmd = "save"
      BY <2>2, Facts DEF DiskHolds, FilesConsistent, Main, Connection, HandlerHolds
    <3>2. op' \in Step /\ op'.pc = "idle" /\ op'.cmd = "none" /\ op'.new = 0
      BY <2>2 DEF NoOp, Step, PCs, Files
    <3>3. conn' \in Connection /\ conn'.open = FALSE /\ conn'.txn = FALSE /\ conn'.main = "own"
      BY <2>2 DEF Closed, Connection, Files
    <3>4. HandlerHolds'
      BY <2>2, <3>2 DEF HandlerHolds
    <3>5. HomeHolds'
      BY <2>2, <3>1, <3>2, <3>3, Facts DEF HomeHolds
    <3>6. CASE UNCHANGED disk
      <4>1. DiskHolds'
        BY <2>2, <3>6, Facts, SameFilesAtEnd
      <4>2. QED
        BY <2>2, <3>2, <3>3, <3>4, <3>5, <3>6, <4>1, Facts, Assembled
    <3>7. CASE Store(e) /\ op.new # 0
      <4>1. NewLibrary(name) \in LibraryRow /\ NewLibrary(name).LibraryID = op.new
        BY <3>7, Facts DEF NewLibrary, LibraryRow, Step
      <4>2. Consistent(e)
        BY <2>2, <3>1, <4>1, InsertLibraryConsistent
      <4>3. Store(e)
        BY <3>7
      <4> HIDE DEF e
      <4>4. /\ disk' \in [Files -> File] /\ disk'[conn.main].db = e
            /\ \A f \in Files : disk'[f].version = disk[f].version /\ disk'[f].schema = disk[f].schema
            /\ \A f \in Files : f # conn.main => disk'[f] = disk[f]
        BY <4>2, <4>3, StoreChanges DEF Consistent
      <4>5. FilesConsistent'
        BY <4>2, <4>4, Facts DEF DiskHolds, FilesConsistent
      <4>6. VersionComesLast'
        BY <4>4, Facts DEF DiskHolds, VersionComesLast
      <4>7. NothingElseTouched'
        BY <3>2 DEF NothingElseTouched
      <4>8. QED
        BY <2>2, <3>2, <3>3, <3>4, <3>5, <4>4, <4>5, <4>6, <4>7, Facts, Assembled DEF DiskHolds
    <3>8. op.new # 0
      BY <3>1, Facts DEF HandlerHolds
    <3>9. QED
      BY <2>2, <3>6, <3>7, <3>8
  <2>3. QED
    BY <1>2, <2>1, <2>2 DEF SaveToDB_Insert, Statement
<1>3. QED
  BY <1>1, <1>2

(* A write of another process to a file that is not locked.                 *)
LEMMA WriteKeeps ==
  ASSUME IInv, NEW file \in Files, file \notin Locked, requests > 0, requests' = requests - 1,
         NEW e, Consistent(e), disk' = [disk EXCEPT ![file].db = e],
         NEW b \in Database, base[file] = disk[file].db => b = e,
         base' = [base EXCEPT ![file] = b],
         UNCHANGED <<filename, conn, op, failed>>
  PROVE  IInv'
<1>1. e \in Database
  BY DEF Consistent
<1>2. /\ disk' \in [Files -> File] /\ disk'[file].db = e
      /\ \A f \in Files : disk'[f].version = disk[f].version /\ disk'[f].schema = disk[f].schema
      /\ \A f \in Files : f # file => disk'[f] = disk[f]
  BY <1>1, Facts DEF File
<1>3. /\ base' \in [Files -> Database] /\ base'[file] = b
      /\ \A f \in Files : f # file => base'[f] = base[f]
  BY Facts
<1>4. requests' \in 0..MaxRequests
  BY Facts, ImportExportAssumption
<1>5. FilesConsistent'
  BY <1>2, Facts DEF DiskHolds, FilesConsistent
<1>6. VersionComesLast'
  BY <1>2, Facts DEF DiskHolds, VersionComesLast
<1>7. op.cmd \in {"import", "export"} /\ op.new # 0 =>
        file # conn.main /\ file # op.source
  BY Facts DEF HandlerHolds, Locked
<1>8. NothingElseTouched'
  <2> SUFFICES ASSUME op.cmd \in {"import", "export"}, NEW f \in Files
               PROVE  base'[f] = IF f = conn.main /\ op.new # 0
                                   THEN DeleteLibrary(disk'[f].db, op.new) ELSE disk'[f].db
    BY DEF NothingElseTouched
  <2>1. base[f] = IF f = conn.main /\ op.new # 0 THEN DeleteLibrary(disk[f].db, op.new)
                                                 ELSE disk[f].db
    BY Facts DEF DiskHolds, NothingElseTouched
  <2>2. CASE f # file
    BY <1>2, <1>3, <2>1, <2>2
  <2>3. CASE f = file
    BY <1>2, <1>3, <1>7, <2>1, <2>3
  <2>4. QED
    BY <2>2, <2>3
<1>9. HandlerHolds'
  <2>1. op.source \in Files /\ conn.main \in Files /\ op.cmd \in {"none"} \cup Commands
    BY Facts DEF Step, Connection
  <2>2. op.pc \in {"saveLibrary", "snippets"} => Source' = Source
    BY <1>2, <2>1, Facts DEF Source, Locked, HandlerHolds
  <2>3. op.new # 0 /\ op.cmd # "save" => Main' = Main
    BY <1>2, <2>1, Facts DEF Main, Locked, HandlerHolds
  <2>4. QED
    BY <1>2, <2>1, <2>2, <2>3, Facts DEF HandlerHolds
<1>10. HomeHolds'
  BY Facts DEF HomeHolds
<1>11. QED
  BY <1>2, <1>3, <1>4, <1>5, <1>6, <1>8, <1>9, <1>10, Facts, Assembled DEF DiskHolds

(* Rows of other processes stay within the types of the tables.             *)
LEMMA ChangesTyped ==
  ASSUME NEW d \in Database
  PROVE  /\ \A lib \in LibraryRow : InsertLibrary(d, lib) \in Database
         /\ \A id \in LibraryIDs, l \in LangIDs : AddLanguage(d, id, l) \in Database
         /\ \A s \in SnippetRow : InsertSnippet(d, s) \in Database
         /\ \A id : DeleteLibrary(d, id) \in Database
<1>1. \A lib \in LibraryRow : InsertLibrary(d, lib) \in Database
  BY DEF InsertLibrary, Database
<1>2. \A id \in LibraryIDs, l \in LangIDs : AddLanguage(d, id, l) \in Database
  BY DEF AddLanguage, Database, LibraryLangRow
<1>3. \A s \in SnippetRow : InsertSnippet(d, s) \in Database
  BY DEF InsertSnippet, Database
<1>4. \A id : DeleteLibrary(d, id) \in Database
  BY DEF DeleteLibrary, Database
<1>5. QED
  BY <1>1, <1>2, <1>3, <1>4

(* Whatever other processes write keeps the invariant.                      *)
LEMMA OthersKeep ==
  ASSUME IInv, Others
  PROVE  IInv'
<1>1. PICK file \in Files :
        \/ \E name \in LibNames : OtherAddsLibrary(file, name)
        \/ \E lib \in LibraryIDsOf(disk[file].db) :
             \/ \E name \in OthersNames : OtherAddsSnippet(file, lib, name)
             \/ OtherDeletesLibrary(file, lib)
  BY DEF Others
<1> DEFINE db == disk[file].db
<1>2. Consistent(db) /\ base[file] \in Database
  BY Facts DEF DiskHolds, FilesConsistent
<1>3. ASSUME NEW name \in LibNames, OtherAddsLibrary(file, name)
      PROVE  IInv'
  <2> DEFINE id == NextID(LibraryIDsOf(db))
  <2> DEFINE row == [LibraryID |-> id, Name |-> name, Alphabetic |-> TRUE]
  <2> DEFINE e == AddLanguage(InsertLibrary(db, row), id, AllLanguages)
  <2> DEFINE b == AddLanguage(InsertLibrary(base[file], row), id, AllLanguages)
  <2>1. /\ id <= MaxLibraryID /\ file \notin Locked /\ requests > 0 /\ requests' = requests - 1
        /\ disk' = [disk EXCEPT ![file].db = e] /\ base' = [base EXCEPT ![file] = b]
        /\ UNCHANGED <<filename, conn, op, failed>>
    BY <1>3 DEF OtherAddsLibrary, OthersWrite
  <2>2. id \in LibraryIDs /\ id \notin LibraryIDsOf(db) /\ AllLanguages \in LangIDs
    BY <1>2, <2>1, NewKeys DEF LangIDs
  <2> HIDE DEF id
  <2>3. row \in LibraryRow /\ row.LibraryID = id
    BY <2>2 DEF LibraryRow
  <2> HIDE DEF row, db
  <2>4. Consistent(InsertLibrary(db, row)) /\ id \in LibraryIDsOf(InsertLibrary(db, row))
    BY <1>2, <2>2, <2>3, InsertLibraryConsistent
  <2>5. Consistent(e)
    BY <2>2, <2>4, AddLanguageConsistent
  <2>6. b \in Database
    BY <1>2, <2>2, <2>3, ChangesTyped
  <2>7. base[file] = db => b = e
    OBVIOUS
  <2> HIDE DEF e, b
  <2>8. QED
    BY <2>1, <2>5, <2>6, <2>7, WriteKeeps DEF db
<1>4. ASSUME NEW lib \in LibraryIDsOf(db), NEW name \in OthersNames,
             OtherAddsSnippet(file, lib, name)
      PROVE  IInv'
  <2> DEFINE id == NextID(SnippetIDsOf(db))
  <2> DEFINE row == [SnippetID |-> id, LibraryID |-> lib, Name |-> name, Sort |-> 0]
  <2> DEFINE e == InsertSnippet(db, row)
  <2> DEFINE b == InsertSnippet(base[file], row)
  <2>1. /\ id <= MaxSnippetID /\ file \notin Locked /\ requests > 0 /\ requests' = requests - 1
        /\ disk' = [disk EXCEPT ![file].db = e] /\ base' = [base EXCEPT ![file] = b]
        /\ UNCHANGED <<filename, conn, op, failed>>
    BY <1>4 DEF OtherAddsSnippet, OthersWrite
  <2>2. id \in SnippetIDs /\ id \notin SnippetIDsOf(db) /\ lib \in LibraryIDs
    BY <1>2, <1>4, <2>1, NewKeys, RowsOf
  <2> HIDE DEF id
  <2>3. row \in SnippetRow /\ row.SnippetID = id /\ row.LibraryID = lib
    BY <2>2, TablesAssumption, ImportExportAssumption DEF SnippetRow
  <2> HIDE DEF row, db
  <2>4. Consistent(e)
    BY <1>2, <1>4, <2>2, <2>3, InsertSnippetConsistent
  <2>5. b \in Database
    BY <1>2, <2>3, ChangesTyped
  <2>6. base[file] = db => b = e
    OBVIOUS
  <2> HIDE DEF e, b
  <2>7. QED
    BY <2>1, <2>4, <2>5, <2>6, WriteKeeps DEF db
<1>5. ASSUME NEW id, OtherDeletesLibrary(file, id)
      PROVE  IInv'
  <2> DEFINE e == DeleteLibrary(db, id)
  <2> DEFINE b == DeleteLibrary(base[file], id)
  <2>1. /\ file \notin Locked /\ requests > 0 /\ requests' = requests - 1
        /\ disk' = [disk EXCEPT ![file].db = e] /\ base' = [base EXCEPT ![file] = b]
        /\ UNCHANGED <<filename, conn, op, failed>>
    BY <1>5 DEF OtherDeletesLibrary, OthersWrite
  <2> HIDE DEF db
  <2>2. Consistent(e) /\ b \in Database
    BY <1>2, DeleteLibraryConsistent, ChangesTyped
  <2>3. base[file] = db => b = e
    OBVIOUS
  <2> HIDE DEF e, b
  <2>4. QED
    BY <2>1, <2>2, <2>3, WriteKeeps DEF db
<1>6. QED
  BY <1>1, <1>3, <1>4, <1>5

(* A statement that fails, and a new start of the process.                  *)
LEMMA FaultKeeps ==
  ASSUME IInv, Exception \/ Reopen_Exception \/ Restart
  PROVE  IInv'
<1>1. CASE Exception
  BY <1>1, FailKeeps DEF Exception
<1>2. CASE Restart
  <2>1. /\ filename' = "own" /\ conn' = Closed /\ op' = NoOp /\ failed' = {}
        /\ UNCHANGED <<disk, requests, base>>
    BY <1>2 DEF Restart
  <2>2. op' \in Step /\ op'.pc = "idle" /\ op'.cmd = "none" /\ op'.new = 0
    BY <2>1 DEF NoOp, Step, PCs, Files
  <2>3. conn' \in Connection /\ conn'.open = FALSE /\ conn'.txn = FALSE /\ conn'.main = "own"
    BY <2>1 DEF Closed, Connection, Files
  <2>4. HandlerHolds'
    BY <2>1, <2>2 DEF HandlerHolds
  <2>5. HomeHolds'
    BY <2>1, <2>2, <2>3 DEF HomeHolds
  <2>6. DiskHolds'
    BY <2>1, Facts, SameFilesAtEnd
  <2>7. filename' \in Files
    BY <2>1 DEF Files
  <2>8. QED
    BY <2>1, <2>2, <2>3, <2>4, <2>5, <2>6, <2>7, Facts, Assembled
<1>3. CASE Reopen_Exception
  <2>1. /\ op.pc = "reopen" /\ filename' = op.source /\ op' = NoOp
        /\ conn' = Closed \/ conn' = Opened(Closed, op.source)
        /\ failed' = failed \cup {op.cmd} /\ UNCHANGED <<disk, requests, base>>
    BY <1>3 DEF Reopen_Exception
  <2>2. op.cmd = "export" /\ op.source \in Files
    BY <2>1, Facts DEF HandlerHolds, Step
  <2>3. op' \in Step
    BY <2>1 DEF NoOp, Step, PCs, Files
  <2>4. conn' \in Connection
    <3>1. Closed \in Connection
      BY DEF Closed, Connection, Files
    <3>2. QED
      BY <2>1, <2>2, <3>1, OpenedTyped
  <2>5. failed' \subseteq Commands \cup {"refused"} /\ "export" \in failed'
    BY <2>1, <2>2, Facts DEF Commands
  <2>6. HandlerHolds'
    BY <2>1 DEF HandlerHolds, NoOp
  <2>7. HomeHolds'
    BY <2>5 DEF HomeHolds
  <2>8. DiskHolds'
    BY <2>1, Facts, SameFilesAtEnd
  <2>9. QED
    BY <2>1, <2>2, <2>3, <2>4, <2>5, <2>6, <2>7, <2>8, Facts, Assembled
<1>4. QED
  BY <1>1, <1>2, <1>3

-----------------------------------------------------------------------------
(* Every step keeps the invariant.                                          *)
LEMMA StepKeeps ==
  ASSUME IInv, [Next]_vars
  PROVE  IInv'
<1>1. CASE Handler
  BY <1>1, DialogOpensKeeps, ExportPreparesKeeps, ImportStartsKeeps, SaveLibraryKeeps,
     ImportSnippetKeeps, ImportLanguageKeeps, ImportEndsKeeps, SaveKeeps
  DEF Handler, ExportTo, ImportLibrary
<1>2. CASE User
  BY <1>2, CommandKeeps, DialogKeeps, SaveKeeps DEF User
<1>3. CASE Others
  BY <1>3, OthersKeep
<1>4. CASE Exception \/ Reopen_Exception \/ Restart
  BY <1>4, FaultKeeps
<1>5. CASE UNCHANGED vars
  <2>1. UNCHANGED <<disk, filename, conn, op, requests, failed, base>>
    BY <1>5 DEF vars
  <2>2. HandlerHolds' /\ HomeHolds'
    BY <2>1, Facts DEF HandlerHolds, HomeHolds, Source, Main
  <2>3. DiskHolds'
    BY <2>1, Facts, SameFiles
  <2>4. QED
    BY <2>1, <2>2, <2>3, Facts, Assembled
<1>6. QED
  BY <1>1, <1>2, <1>3, <1>4, <1>5 DEF Next

(* What holds at every step of every import, export and save, whatever fails*)
(* and whatever others write.                                               *)
THEOREM InvariantHolds == Spec => []IInv
<1>1. Init => IInv
  <2> SUFFICES ASSUME Init PROVE IInv
    OBVIOUS
  <2>1. /\ disk \in Disks /\ filename = "own" /\ conn = Closed /\ op = NoOp
        /\ requests = MaxRequests /\ failed = {} /\ base = [f \in Files |-> disk[f].db]
    BY DEF Init, Tables
  <2>2. /\ disk \in [Files -> File]
        /\ \A f \in Files : (disk[f].version = 3 <=> disk[f].schema = "new")
                            /\ Consistent(disk[f].db)
    BY <2>1, ImportExportAssumption
  <2>3. op \in Step /\ op.pc = "idle" /\ op.cmd = "none" /\ op.new = 0
    BY <2>1 DEF NoOp, Step, PCs, Files
  <2>4. conn \in Connection /\ conn.open = FALSE /\ conn.txn = FALSE /\ conn.main = "own"
    BY <2>1 DEF Closed, Connection, Files
  <2>5. TypeOK
    BY <2>1, <2>2, <2>3, <2>4, ImportExportAssumption
    DEF TypeOK, Connection, Step, Files, File
  <2>6. HandlerHolds
    BY <2>1, <2>3 DEF HandlerHolds
  <2>7. HomeHolds
    BY <2>1, <2>3, <2>4 DEF HomeHolds
  <2>8. FilesConsistent /\ VersionComesLast /\ NothingElseTouched
    BY <2>2, <2>3 DEF FilesConsistent, VersionComesLast, NothingElseTouched
  <2>9. QED
    BY <2>5, <2>6, <2>7, <2>8 DEF IInv
<1>2. IInv /\ [Next]_vars => IInv'
  BY StepKeeps
<1>3. QED
  BY <1>1, <1>2, PTL DEF Spec

(* Neither an import nor an export ever changes a row of another library,   *)
(* of either file.                                                          *)
THEOREM NothingElseTouchedHolds == Spec => []NothingElseTouched
<1>1. IInv => NothingElseTouched
  BY DEF IInv
<1>2. QED
  BY <1>1, InvariantHolds, PTL

(* No file is ever marked as schema 3 without the tables.                   *)
THEOREM VersionComesLastHolds == Spec => []VersionComesLast
<1>1. IInv => VersionComesLast
  BY DEF IInv
<1>2. QED
  BY <1>1, InvariantHolds, PTL

(* The plug-in is back on its own file after every handler, unless an export*)
(* failed.                                                                  *)
THEOREM WorksOnOwnFileHolds == Spec => []WorksOnOwnFile
<1>1. IInv => WorksOnOwnFile
  BY DEF IInv, HomeHolds, WorksOnOwnFile
<1>2. QED
  BY <1>1, InvariantHolds, PTL

(* A new library is stored in the plug-in's own file, unless an export      *)
(* failed before.                                                           *)
THEOREM SaveReachesOwnFileHolds == Spec => SaveReachesOwnFile
<1> DEFINE Reaches ==
      \A name \in LibNames :
        SaveToDB_Insert(name) /\ op.new \notin LibraryIDsOf(Main) /\ "export" \notin failed =>
          NewLibrary(name) \in disk'["own"].db.Library
<1>1. IInv /\ [Next]_vars => [Reaches]_vars
  <2> SUFFICES ASSUME IInv, NEW name \in LibNames, SaveToDB_Insert(name),
                      op.new \notin LibraryIDsOf(Main), "export" \notin failed
               PROVE  NewLibrary(name) \in disk'["own"].db.Library
    OBVIOUS
  <2>1. op.cmd = "save" /\ conn.txn = FALSE /\ conn.main = "own"
    BY Facts DEF SaveToDB_Insert, Statement, HandlerHolds, HomeHolds, Connection
  <2>2. Store(InsertLibrary(Main, NewLibrary(name)))
    BY <2>1 DEF SaveToDB_Insert, Statement
  <2>3. Main \in Database
    BY <2>1, Facts DEF Main, File, Files
  <2>4. NewLibrary(name) \in InsertLibrary(Main, NewLibrary(name)).Library
    BY <2>3 DEF InsertLibrary, Database
  <2>5. disk'["own"].db = InsertLibrary(Main, NewLibrary(name))
    BY <2>1, <2>2, Facts DEF Store, File, Files
  <2>6. QED
    BY <2>4, <2>5
<1>2. QED
  BY <1>1, InvariantHolds, PTL DEF Spec, SaveReachesOwnFile

-----------------------------------------------------------------------------
(* The connection, as long as nothing failed. *)

(* No file that is marked as schema 3 ever loses the mark.                  *)
LEMMA VersionsStay ==
  ASSUME IInv, [Next]_vars, NEW f \in Files, disk[f].version = 3
  PROVE  disk'[f].version = 3
<1>1. disk \in [Files -> File] /\ op.source \in Files
  BY Facts DEF Step
<1>2. CASE UNCHANGED disk
  BY <1>2
<1>3. ASSUME NEW g, NEW e, disk' = [disk EXCEPT ![g].db = e]
      PROVE  disk'[f].version = 3
  BY <1>1, <1>3 DEF File
<1>4. CASE CreateExportDB
  BY <1>1, <1>4 DEF CreateExportDB, Statement, Fail, File
<1>5. CASE SetUserVersion
  BY <1>1, <1>5 DEF SetUserVersion, Statement, Fail, File
<1>6. CASE \E x \in op.todo : ImportSnippet(x) \/ ImportLanguage(x)
  BY <1>2, <1>3, <1>6 DEF ImportSnippet, ImportLanguage, Statement, Store, Fail
<1>7. CASE SaveLibrary \/ \E name \in LibNames : SaveToDB_Insert(name)
  BY <1>2, <1>3, <1>7 DEF SaveLibrary, SaveToDB_Insert, Statement, Store, Fail
<1>8. CASE Others
  <2>1. ASSUME NEW g \in Files, NEW name \in LibNames, OtherAddsLibrary(g, name)
        PROVE  disk'[f].version = 3
    BY <1>3, <2>1 DEF OtherAddsLibrary, OthersWrite
  <2>2. ASSUME NEW g \in Files, NEW lib, NEW name \in OthersNames, OtherAddsSnippet(g, lib, name)
        PROVE  disk'[f].version = 3
    BY <1>3, <2>2 DEF OtherAddsSnippet, OthersWrite
  <2>3. ASSUME NEW g \in Files, NEW lib, OtherDeletesLibrary(g, lib)
        PROVE  disk'[f].version = 3
    BY <1>3, <2>3 DEF OtherDeletesLibrary, OthersWrite
  <2>4. QED
    BY <1>8, <2>1, <2>2, <2>3 DEF Others
<1>9. CASE \/ AttachList \/ AddLibraryToCombo \/ AttachExport \/ Reopen \/ Attach
           \/ SelectLibrary \/ ImportLanguages \/ ImportLanguages_Done \/ Detach
  BY <1>2, <1>9 DEF AttachList, AddLibraryToCombo, AttachExport, Reopen, Attach, OpenAndAttach,
                    SelectLibrary, ImportLanguages, ImportLanguages_Done, Detach, Statement, Fail
<1>10. CASE User \/ Exception \/ Reopen_Exception \/ Restart \/ UNCHANGED vars
  BY <1>2, <1>10 DEF User, OnLibraryImport, OnLibraryExport, OnOK, OnCancel, SaveToDB,
                     UpdateSnippetsList, Exception, Reopen_Exception, Fail, Restart, vars
<1>11. QED
  BY <1>4, <1>5, <1>6, <1>7, <1>8, <1>9, <1>10 DEF Next, Handler, ExportTo, ImportLibrary

(* Every step keeps what holds of the connection.                           *)
LEMMA ConnectionStep ==
  ASSUME IInv, ConnectionHolds, [Next]_vars
  PROVE  ConnectionHolds'
<1> DEFINE Fits ==
      /\ op.pc \in {"idle", "list", "dialog", "attachExport"} => ~conn.open
      /\ op.pc = "reopen" => disk[op.source].version = 3
      /\ op.pc = "attach" /\ op.cmd = "import" => ~conn.open
      /\ op.pc = "attach" /\ op.cmd = "export" =>
           conn.open /\ conn.attached = {} /\ disk[conn.main].version = 3
      /\ op.pc \in {"select", "saveLibrary", "snippets"} => disk[conn.main].version = 3
<1>1. disk'["own"].version = 3
  BY VersionsStay DEF ConnectionHolds, Files
<1>2. SUFFICES ASSUME failed' = {}
               PROVE  Fits'
  BY <1>1 DEF ConnectionHolds
<1>3. failed = {} => Fits
  BY DEF ConnectionHolds
<1>4. /\ op \in Step /\ conn \in Connection /\ disk \in [Files -> File] /\ filename \in Files
      /\ HandlerHolds
  BY Facts
<1>5. \A f \in Files : disk[f].version = 3 => disk'[f].version = 3
  BY VersionsStay
<1>6. ~Fail({op.cmd, "refused"}) /\ ~Fail({op.cmd})
  BY <1>2 DEF Fail
<1>7. conn' = Closed => ~conn'.open
  BY DEF Closed
<1> HIDE DEF Fits
<1>8. CASE op' = NoOp /\ conn' = Closed
  BY <1>7, <1>8 DEF Fits, NoOp
<1>9. CASE AttachList \/ AddLibraryToCombo
  BY <1>4, <1>6, <1>7, <1>9
  DEF AttachList, OpenAndAttach, AddLibraryToCombo, Statement, GoTo, Fits, Step
<1>10. CASE AttachExport \/ CreateExportDB
  BY <1>4, <1>6, <1>10
  DEF AttachExport, OpenAndAttach, CreateExportDB, Statement, GoTo, Fits, Step
<1>11. CASE SetUserVersion
  BY <1>4, <1>6, <1>11 DEF SetUserVersion, Statement, GoTo, Fits, Step, File
<1>12. CASE Reopen
  <2>1. /\ op.pc = "reopen" /\ failed = {} /\ op'.pc = "attach" /\ op'.cmd = "export"
        /\ conn' = Opened(Closed, op.source) /\ disk' = disk
    BY <1>2, <1>4, <1>6, <1>12 DEF Reopen, Statement, HandlerHolds, Step
  <2>2. conn'.open /\ conn'.attached = {} /\ conn'.main = op.source
    BY <2>1 DEF Opened, Closed
  <2>3. QED
    BY <1>3, <2>1, <2>2 DEF Fits
<1>13. CASE Attach
  <2>1. /\ conn' = Attached(Opened(conn, filename), "import") /\ disk' = disk
        /\ disk[Opened(conn, filename).main].version = 3 /\ op'.pc = "select"
    BY <1>4, <1>6, <1>13 DEF Attach, OpenAndAttach, GoTo, VersionFits, Step
  <2>2. conn'.main = Opened(conn, filename).main
    BY <1>4, <2>1, OpenedTyped, AttachedTyped
  <2>3. QED
    BY <2>1, <2>2 DEF Fits
<1>14. CASE SelectLibrary \/ SaveLibrary \/ \E x \in op.todo : ImportSnippet(x)
  <2>1. /\ op.pc \in {"select", "saveLibrary", "snippets"} /\ conn' = conn /\ failed = {}
        /\ op'.pc \in {"saveLibrary", "snippets", "detach"}
    BY <1>2, <1>4, <1>6, <1>14
    DEF SelectLibrary, SaveLibrary, ImportSnippet, Statement, GoTo, Done, Step
  <2>2. conn.main \in Files
    BY <1>4 DEF Connection
  <2>3. QED
    BY <1>3, <1>5, <2>1, <2>2 DEF Fits
<1>15. CASE ImportLanguages \/ ImportLanguages_Done \/ \E x \in op.todo : ImportLanguage(x)
  BY <1>4, <1>6, <1>15
  DEF ImportLanguages, ImportLanguages_Done, ImportLanguage, Statement, GoTo, Done, Fits, Step
<1>16. CASE Detach \/ Restart \/ \E name \in LibNames : SaveToDB_Insert(name)
  BY <1>6, <1>8, <1>16 DEF Detach, Restart, SaveToDB_Insert, Statement
<1>17. CASE \E file \in Files :
              OnLibraryImport(file) \/ \E id \in LibraryIDs : OnLibraryExport(file, id)
  <2>1. /\ op = NoOp /\ conn' = conn /\ failed = {} /\ op'.pc \in {"list", "attachExport"}
    BY <1>2, <1>17 DEF OnLibraryImport, OnLibraryExport, Request, NoOp
  <2>2. ~conn.open
    BY <1>3, <2>1 DEF Fits, NoOp
  <2>3. QED
    BY <2>1, <2>2 DEF Fits
<1>18. CASE OnCancel \/ \E id \in op.todo : OnOK(id)
  <2>1. /\ op.pc = "dialog" /\ op.cmd = "import" /\ conn' = conn /\ failed = {}
        /\ op' = NoOp \/ (op'.pc = "attach" /\ op'.cmd = "import")
    BY <1>2, <1>4, <1>18 DEF OnCancel, OnOK, HandlerHolds, Step
  <2>2. ~conn.open
    BY <1>3, <2>1 DEF Fits
  <2>3. QED
    BY <2>1, <2>2 DEF Fits, NoOp
<1>19. CASE SaveToDB
  BY <1>19 DEF SaveToDB, NoOp, Fits
<1>20. CASE UpdateSnippetsList
  BY <1>7, <1>20 DEF UpdateSnippetsList, Fits
<1>21. CASE Others \/ UNCHANGED vars
  <2>1. op' = op /\ conn' = conn /\ failed' = failed
    BY <1>21 DEF Others, OtherAddsLibrary, OtherAddsSnippet, OtherDeletesLibrary, OthersWrite, vars
  <2>2. op.source \in Files /\ conn.main \in Files
    BY <1>4 DEF Step, Connection
  <2>3. QED
    BY <1>2, <1>3, <1>5, <2>1, <2>2 DEF Fits
<1>22. CASE Exception \/ Reopen_Exception
  BY <1>2, <1>6, <1>22 DEF Exception, Reopen_Exception
<1>23. QED
  BY <1>9, <1>10, <1>11, <1>12, <1>13, <1>14, <1>15, <1>16, <1>17, <1>18, <1>19, <1>20, <1>21,
     <1>22
  DEF Next, Handler, ExportTo, ImportLibrary, User

-----------------------------------------------------------------------------
(* The copy, row by row. *)

(* Snippets of a library of the destination, and those of the source that   *)
(* have been copied.                                                        *)
Made(M, new, name, sort) ==
  {s \in M.Snippets : s.LibraryID = new /\ s.Name = name /\ s.Sort = sort}

Finished(S, org, pc, todo, name, sort) ==
  {s \in {t \in S.Snippets : t.LibraryID = org /\ Copied(t.Name) = name /\ t.Sort = sort} :
     pc = "snippets" => s.SnippetID \notin todo}

SnippetsOf(S, org) == {s.SnippetID : s \in {t \in S.Snippets : t.LibraryID = org}}

RowCopied(S, M, org, new) ==
  \E lib \in S.Library : lib.LibraryID = org /\ [lib EXCEPT !.LibraryID = new] \in M.Library

SnippetsCopied(S, M, org, new, pc, todo) ==
  \A name \in SnipNames, sort \in 0..MaxSort :
    Cardinality(Made(M, new, name, sort)) = Cardinality(Finished(S, org, pc, todo, name, sort))

LanguagesCopied(S, M, org, new, pc, todo) ==
  /\ pc = "snippets" => todo \subseteq SnippetsOf(S, org) /\ LangsOf(M, new) = {}
  /\ pc = "languages" => todo \subseteq LangsOf(S, org)
  /\ pc = "detach" => todo = {}
  /\ pc # "snippets" => LangsOf(M, new) = LangsOf(S, org) \ todo

(* CopyHolds of two databases, whichever files they are in.                 *)
Copying(S, M, o) ==
  /\ RowCopied(S, M, o.org, o.new)
  /\ LanguagesCopied(S, M, o.org, o.new, o.pc, o.todo)
  /\ SnippetsCopied(S, M, o.org, o.new, o.pc, o.todo)

(* Before a step ...                                                        *)
LEMMA CopyParts == CopyHolds <=> (op.new # 0 /\ op.cmd # "save" => Copying(Source, Main, op))
<1>1. LibraryIsCopied <=> RowCopied(Source, Main, op.org, op.new)
  BY DEF LibraryIsCopied, RowCopied
<1>2. \A name, sort : /\ Copies(name, sort) = Made(Main, op.new, name, sort)
                      /\ {s \in CopiedAs(name, sort) :
                           op.pc = "snippets" => s.SnippetID \notin op.todo} =
                         Finished(Source, op.org, op.pc, op.todo, name, sort)
  BY DEF Copies, CopiedAs, Made, Finished
<1>3. QED
  BY <1>1, <1>2, Zenon DEF CopyHolds, Copying, LanguagesCopied, SnippetsCopied, SnippetsOf

(* ... and after it.                                                        *)
LEMMA CopyPartsNext ==
  ASSUME op'.new # 0 /\ op'.cmd # "save" =>
           Copying(disk'[op'.source].db, disk'[conn'.main].db, op')
  PROVE  CopyHolds'
<1>1. RowCopied(Source', Main', op'.org, op'.new) => LibraryIsCopied'
  BY DEF LibraryIsCopied, RowCopied
<1>2. \A name, sort : /\ Copies(name, sort)' = Made(Main', op'.new, name, sort)
                      /\ {s \in CopiedAs(name, sort)' :
                           op'.pc = "snippets" => s.SnippetID \notin op'.todo} =
                         Finished(Source', op'.org, op'.pc, op'.todo, name, sort)
  BY DEF Copies, CopiedAs, Made, Finished
<1>3. Source' = disk'[op'.source].db /\ Main' = disk'[conn'.main].db
  BY DEF Source, Main
<1>4. QED
  BY <1>1, <1>2, <1>3, Zenon
  DEF CopyHolds, Copying, LanguagesCopied, SnippetsCopied, SnippetsOf

(* Nothing is copied but the library when its row is.                       *)
LEMMA LibraryIsInserted ==
  ASSUME NEW S, Consistent(S), NEW M, Consistent(M), NEW org \in LibraryIDsOf(S),
         NEW id, id \notin LibraryIDsOf(M),
         NEW lib \in S.Library, lib.LibraryID = org,
         NEW e, e = InsertLibrary(M, [lib EXCEPT !.LibraryID = id])
  PROVE  /\ RowCopied(S, e, org, id)
         /\ LanguagesCopied(S, e, org, id, "snippets", SnippetsOf(S, org))
         /\ SnippetsCopied(S, e, org, id, "snippets", SnippetsOf(S, org))
<1>1. /\ [lib EXCEPT !.LibraryID = id] \in e.Library
      /\ e.Snippets = M.Snippets /\ e.LibraryLang = M.LibraryLang
  BY DEF InsertLibrary, Consistent, Database
<1>2. RowCopied(S, e, org, id)
  BY <1>1 DEF RowCopied
<1>3. LangsOf(e, id) = {}
  BY <1>1 DEF LangsOf, Consistent, ReferencesHold
<1>4. LanguagesCopied(S, e, org, id, "snippets", SnippetsOf(S, org))
  BY <1>3 DEF LanguagesCopied
<1>5. ASSUME NEW name \in SnipNames, NEW sort \in 0..MaxSort
      PROVE  /\ Made(e, id, name, sort) = {}
             /\ Finished(S, org, "snippets", SnippetsOf(S, org), name, sort) = {}
  BY <1>1 DEF Made, Finished, SnippetsOf, Consistent, ReferencesHold
<1>6. SnippetsCopied(S, e, org, id, "snippets", SnippetsOf(S, org))
  BY <1>5, Zenon DEF SnippetsCopied
<1>7. QED
  BY <1>2, <1>4, <1>6

(* One more snippet is copied.                                              *)
LEMMA SnippetIsInserted ==
  ASSUME NEW S, Consistent(S), NEW M, Consistent(M), NEW org, NEW new, NEW todo, NEW x \in todo,
         RowCopied(S, M, org, new),
         LanguagesCopied(S, M, org, new, "snippets", todo),
         SnippetsCopied(S, M, org, new, "snippets", todo),
         NEW s \in S.Snippets, s.SnippetID = x, NEW id, id \notin SnippetIDsOf(M),
         NEW row, row = [s EXCEPT !.SnippetID = id, !.LibraryID = new, !.Name = Copied(s.Name)],
         NEW e, e = InsertSnippet(M, row)
  PROVE  /\ RowCopied(S, e, org, new)
         /\ LanguagesCopied(S, e, org, new, "snippets", todo \ {x})
         /\ SnippetsCopied(S, e, org, new, "snippets", todo \ {x})
<1>1. /\ e.Snippets = M.Snippets \cup {row} /\ e.Library = M.Library
      /\ e.LibraryLang = M.LibraryLang
  BY DEF InsertSnippet, Consistent, Database
<1>2. RowCopied(S, e, org, new)
  BY <1>1 DEF RowCopied
<1>3. LanguagesCopied(S, e, org, new, "snippets", todo \ {x})
  BY <1>1 DEF LanguagesCopied, LangsOf
<1>4. /\ s \in SnippetRow /\ s.LibraryID = org
      /\ \A t \in S.Snippets : t.SnippetID = x => t = s
  <2>1. x \in SnippetsOf(S, org)
    BY DEF LanguagesCopied
  <2>2. \A t \in S.Snippets : t.SnippetID = x => t = s
    BY DEF Consistent, KeysUnique
  <2>3. s.LibraryID = org
    BY <2>1, <2>2 DEF SnippetsOf
  <2>4. s \in SnippetRow
    BY DEF Consistent, Database
  <2>5. QED
    BY <2>2, <2>3, <2>4
<1>5. /\ row.SnippetID = id /\ row.LibraryID = new /\ row.Name = Copied(s.Name)
      /\ row.Sort = s.Sort
  BY <1>4 DEF SnippetRow
<1>6. row \notin M.Snippets
  BY <1>5 DEF SnippetIDsOf
<1>7. IsFiniteSet(M.Snippets) /\ IsFiniteSet(S.Snippets)
  BY TablesFinite
<1>8. ASSUME NEW name \in SnipNames, NEW sort \in 0..MaxSort
      PROVE  Cardinality(Made(e, new, name, sort)) =
             Cardinality(Finished(S, org, "snippets", todo \ {x}, name, sort))
  <2> DEFINE A == Made(M, new, name, sort)
             B == Finished(S, org, "snippets", todo, name, sort)
  <2>1. IsFiniteSet(A) /\ IsFiniteSet(B)
    <3>1. A \subseteq M.Snippets /\ B \subseteq S.Snippets
      BY DEF Made, Finished
    <3>2. QED
      BY <1>7, <3>1, FS_Subset
  <2>2. Cardinality(A) = Cardinality(B)
    BY DEF SnippetsCopied
  <2>3. CASE Copied(s.Name) = name /\ s.Sort = sort
    <3>1. Made(e, new, name, sort) = A \cup {row} /\ row \notin A
      BY <1>1, <1>5, <1>6, <2>3 DEF Made
    <3>2. Finished(S, org, "snippets", todo \ {x}, name, sort) = B \cup {s} /\ s \notin B
      BY <1>4, <2>3 DEF Finished
    <3> HIDE DEF A, B
    <3>3. Cardinality(A \cup {row}) = Cardinality(A) + 1
      BY <2>1, <3>1, FS_AddElement
    <3>4. Cardinality(B \cup {s}) = Cardinality(B) + 1
      BY <2>1, <3>2, FS_AddElement
    <3>5. QED
      BY <2>2, <3>1, <3>2, <3>3, <3>4, Zenon
  <2>4. CASE ~(Copied(s.Name) = name /\ s.Sort = sort)
    <3>1. Made(e, new, name, sort) = A
      BY <1>1, <1>5, <2>4 DEF Made
    <3>2. Finished(S, org, "snippets", todo \ {x}, name, sort) = B
      BY <1>4, <2>4 DEF Finished
    <3>3. QED
      BY <2>2, <3>1, <3>2, Zenon
  <2>5. QED
    BY <2>3, <2>4
<1>9. SnippetsCopied(S, e, org, new, "snippets", todo \ {x})
  BY <1>8, Zenon DEF SnippetsCopied
<1>10. QED
  BY <1>2, <1>3, <1>9

(* After the snippets, and after the languages, only the stage changes.     *)
LEMMA StageEnds ==
  ASSUME NEW S, NEW M, NEW org, NEW new, NEW pc, SnippetsCopied(S, M, org, new, pc, {}),
         LanguagesCopied(S, M, org, new, pc, {}), NEW next, NEW todo,
         \/ pc = "snippets" /\ next = "languages" /\ todo = LangsOf(S, org)
         \/ pc = "languages" /\ next = "detach" /\ todo = {}
  PROVE  LanguagesCopied(S, M, org, new, next, todo) /\ SnippetsCopied(S, M, org, new, next, todo)
<1>1. LanguagesCopied(S, M, org, new, next, todo)
  BY DEF LanguagesCopied
<1>2. \A name, sort : Finished(S, org, next, todo, name, sort) = Finished(S, org, pc, {}, name, sort)
  BY DEF Finished
<1>3. QED
  BY <1>1, <1>2, Zenon DEF SnippetsCopied

(* One more language is copied.                                             *)
LEMMA LanguageIsInserted ==
  ASSUME NEW S, NEW M \in Database, NEW org, NEW new, NEW todo, NEW x \in todo,
         RowCopied(S, M, org, new),
         LanguagesCopied(S, M, org, new, "languages", todo),
         SnippetsCopied(S, M, org, new, "languages", todo),
         NEW e, e = AddLanguage(M, new, x)
  PROVE  /\ RowCopied(S, e, org, new)
         /\ LanguagesCopied(S, e, org, new, "languages", todo \ {x})
         /\ SnippetsCopied(S, e, org, new, "languages", todo \ {x})
<1>1. /\ e.Snippets = M.Snippets /\ e.Library = M.Library
      /\ e.LibraryLang = M.LibraryLang \cup {[LibraryID |-> new, Lang |-> x]}
  BY DEF AddLanguage, Database
<1>2. RowCopied(S, e, org, new)
  BY <1>1 DEF RowCopied
<1>3. LangsOf(e, new) = LangsOf(M, new) \cup {x}
  <2> DEFINE r == [LibraryID |-> new, Lang |-> x]
  <2>1. r.LibraryID = new /\ r.Lang = x /\ e.LibraryLang = M.LibraryLang \cup {r}
    BY <1>1
  <2> HIDE DEF r
  <2>2. {y \in e.LibraryLang : y.LibraryID = new} =
        {y \in M.LibraryLang : y.LibraryID = new} \cup {r}
    BY <2>1
  <2>3. QED
    BY <2>1, <2>2 DEF LangsOf
<1>4. LanguagesCopied(S, e, org, new, "languages", todo \ {x})
  BY <1>3 DEF LanguagesCopied
<1>5. \A name, sort : /\ Made(e, new, name, sort) = Made(M, new, name, sort)
                      /\ Finished(S, org, "languages", todo \ {x}, name, sort) =
                         Finished(S, org, "languages", todo, name, sort)
  BY <1>1 DEF Made, Finished
<1>6. SnippetsCopied(S, e, org, new, "languages", todo \ {x})
  BY <1>5, Zenon DEF SnippetsCopied
<1>7. QED
  BY <1>2, <1>4, <1>6

(* A step that leaves the handler and both databases alone.                 *)
LEMMA CopyStays ==
  ASSUME CopyHolds, op' = op, conn' = conn,
         op.new # 0 /\ op.cmd # "save" =>
           disk'[op.source].db = Source /\ disk'[conn.main].db = Main
  PROVE  CopyHolds'
  BY CopyParts, CopyPartsNext

(* The library's row.                                                       *)
LEMMA CopyBegins ==
  ASSUME IInv, SaveLibrary
  PROVE  CopyHolds'
<1> DEFINE id == NextID(LibraryIDsOf(Main))
           lib == CHOOSE l \in Source.Library : l.LibraryID = op.org
           e == InsertLibrary(Main, [lib EXCEPT !.LibraryID = id])
<1>1. CASE op' = NoOp
  BY <1>1, CopyPartsNext DEF NoOp
<1>2. CASE /\ op.pc = "saveLibrary" /\ id <= MaxLibraryID /\ conn.main # op.source
           /\ Store(e) /\ conn' = conn
           /\ op' = [op EXCEPT !.pc = "snippets", !.new = id, !.todo = SnippetsOf(Source, op.org)]
  <2>1. /\ op \in Step /\ conn.main \in Files /\ disk \in [Files -> File]
        /\ Consistent(Source) /\ Consistent(Main) /\ op.org \in LibraryIDsOf(Source)
    BY <1>2, Facts DEF DiskHolds, FilesConsistent, HandlerHolds, Main, Source, Step, Connection
  <2>2. id \notin LibraryIDsOf(Main)
    BY <1>2, <2>1, NewKeys
  <2>3. \E l \in Source.Library : l.LibraryID = op.org
    BY <2>1 DEF LibraryIDsOf
  <2>4. lib \in Source.Library /\ lib.LibraryID = op.org
    BY <2>3, Zenon
  <2>5. /\ op'.pc = "snippets" /\ op'.new = id /\ op'.todo = SnippetsOf(Source, op.org)
        /\ op'.org = op.org /\ op'.source = op.source
    BY <1>2, <2>1 DEF Step
  <2>6. disk'[op.source].db = Source /\ disk'[conn.main].db = e
    BY <1>2, <2>1 DEF Store, Source, File, Step
  <2> HIDE DEF lib, id
  <2>7. e = InsertLibrary(Main, [lib EXCEPT !.LibraryID = id])
    OBVIOUS
  <2> HIDE DEF e
  <2>8. /\ RowCopied(Source, e, op.org, id)
        /\ LanguagesCopied(Source, e, op.org, id, "snippets", SnippetsOf(Source, op.org))
        /\ SnippetsCopied(Source, e, op.org, id, "snippets", SnippetsOf(Source, op.org))
    BY <2>1, <2>2, <2>4, <2>7, LibraryIsInserted
  <2>9. Copying(disk'[op'.source].db, disk'[conn'.main].db, op')
    BY <1>2, <2>5, <2>6, <2>8 DEF Copying
  <2>10. QED
    BY <2>9, CopyPartsNext
<1>3. QED
  BY <1>1, <1>2 DEF SaveLibrary, Statement, Fail, CanInsert, SnippetsOf

(* What the copy of a row relies on: two consistent databases.              *)
LEMMA CopyUnderWay ==
  ASSUME IInv, CopyHolds, op.pc \in {"snippets", "languages"}
  PROVE  /\ op \in Step /\ conn.main \in Files /\ disk \in [Files -> File]
         /\ conn.main # op.source
         /\ Consistent(Source) /\ Consistent(Main)
         /\ RowCopied(Source, Main, op.org, op.new)
         /\ LanguagesCopied(Source, Main, op.org, op.new, op.pc, op.todo)
         /\ SnippetsCopied(Source, Main, op.org, op.new, op.pc, op.todo)
<1>1. op.new # 0 /\ op.cmd # "save" /\ conn.main # op.source
  BY Facts DEF HandlerHolds
<1>2. Copying(Source, Main, op)
  BY <1>1, CopyParts
<1>3. Consistent(Source) /\ Consistent(Main)
  BY Facts DEF DiskHolds, FilesConsistent, Main, Source, Step, Connection
<1>4. QED
  BY <1>1, <1>2, <1>3, Facts DEF Copying, Connection

(* A snippet.                                                               *)
LEMMA CopyOfSnippet ==
  ASSUME IInv, CopyHolds, NEW x \in op.todo, ImportSnippet(x)
  PROVE  CopyHolds'
<1> DEFINE id == NextID(SnippetIDsOf(Main))
           s == SnippetOf(x)
           row == [s EXCEPT !.SnippetID = id, !.LibraryID = op.new, !.Name = Copied(s.Name)]
           e == InsertSnippet(Main, row)
<1>1. CASE op' = NoOp
  BY <1>1, CopyPartsNext DEF NoOp
<1>2. CASE /\ op.pc = "snippets" /\ id <= MaxSnippetID
           /\ Store(e) /\ conn' = conn /\ op' = [op EXCEPT !.todo = @ \ {x}]
  <2>1. /\ op \in Step /\ conn.main \in Files /\ disk \in [Files -> File]
        /\ conn.main # op.source /\ Consistent(Source) /\ Consistent(Main)
        /\ RowCopied(Source, Main, op.org, op.new)
        /\ LanguagesCopied(Source, Main, op.org, op.new, "snippets", op.todo)
        /\ SnippetsCopied(Source, Main, op.org, op.new, "snippets", op.todo)
    BY <1>2, CopyUnderWay
  <2>2. id \notin SnippetIDsOf(Main)
    BY <1>2, <2>1, NewKeys
  <2>3. \E t \in Source.Snippets : t.SnippetID = x
    BY <2>1 DEF LanguagesCopied, SnippetsOf
  <2>4. s \in Source.Snippets /\ s.SnippetID = x
    BY <2>3, Zenon DEF SnippetOf
  <2>5. /\ op'.pc = "snippets" /\ op'.new = op.new /\ op'.todo = op.todo \ {x}
        /\ op'.org = op.org /\ op'.source = op.source
    BY <1>2, <2>1 DEF Step
  <2>6. disk'[op.source].db = Source /\ disk'[conn.main].db = e
    BY <1>2, <2>1 DEF Store, Source, File, Step
  <2> HIDE DEF s, id
  <2>7. /\ row = [s EXCEPT !.SnippetID = id, !.LibraryID = op.new, !.Name = Copied(s.Name)]
        /\ e = InsertSnippet(Main, row)
    OBVIOUS
  <2> HIDE DEF row, e
  <2>8. /\ RowCopied(Source, e, op.org, op.new)
        /\ LanguagesCopied(Source, e, op.org, op.new, "snippets", op.todo \ {x})
        /\ SnippetsCopied(Source, e, op.org, op.new, "snippets", op.todo \ {x})
    BY <2>1, <2>2, <2>4, <2>7, SnippetIsInserted
  <2>9. Copying(disk'[op'.source].db, disk'[conn'.main].db, op')
    BY <1>2, <2>5, <2>6, <2>8 DEF Copying
  <2>10. QED
    BY <2>9, CopyPartsNext
<1>3. QED
  BY <1>1, <1>2 DEF ImportSnippet, Statement, Fail, Done

(* A language.                                                              *)
LEMMA CopyOfLanguage ==
  ASSUME IInv, CopyHolds, NEW x \in op.todo, ImportLanguage(x)
  PROVE  CopyHolds'
<1> DEFINE e == AddLanguage(Main, op.new, x)
<1>1. CASE op' = NoOp
  BY <1>1, CopyPartsNext DEF NoOp
<1>2. CASE /\ op.pc = "languages" /\ Store(e) /\ conn' = conn
           /\ op' = [op EXCEPT !.todo = @ \ {x}]
  <2>1. /\ op \in Step /\ conn.main \in Files /\ disk \in [Files -> File]
        /\ conn.main # op.source /\ Main \in Database
        /\ RowCopied(Source, Main, op.org, op.new)
        /\ LanguagesCopied(Source, Main, op.org, op.new, "languages", op.todo)
        /\ SnippetsCopied(Source, Main, op.org, op.new, "languages", op.todo)
    BY <1>2, CopyUnderWay DEF Consistent
  <2>2. /\ op'.pc = "languages" /\ op'.new = op.new /\ op'.todo = op.todo \ {x}
        /\ op'.org = op.org /\ op'.source = op.source
    BY <1>2, <2>1 DEF Step
  <2>3. disk'[op.source].db = Source /\ disk'[conn.main].db = e
    BY <1>2, <2>1 DEF Store, Source, File, Step
  <2>4. e = AddLanguage(Main, op.new, x)
    OBVIOUS
  <2> HIDE DEF e
  <2>5. /\ RowCopied(Source, e, op.org, op.new)
        /\ LanguagesCopied(Source, e, op.org, op.new, "languages", op.todo \ {x})
        /\ SnippetsCopied(Source, e, op.org, op.new, "languages", op.todo \ {x})
    BY <2>1, <2>4, LanguageIsInserted
  <2>6. Copying(disk'[op'.source].db, disk'[conn'.main].db, op')
    BY <1>2, <2>2, <2>3, <2>5 DEF Copying
  <2>7. QED
    BY <2>6, CopyPartsNext
<1>3. QED
  BY <1>1, <1>2 DEF ImportLanguage, Statement, Fail, Done

(* The end of a loop over the rows of the source.                           *)
LEMMA CopyGoesOn ==
  ASSUME IInv, CopyHolds, ImportLanguages \/ ImportLanguages_Done
  PROVE  CopyHolds'
<1>1. CASE op' = NoOp
  BY <1>1, CopyPartsNext DEF NoOp
<1>2. CASE /\ op.pc \in {"snippets", "languages"} /\ op.todo = {} /\ disk' = disk /\ conn' = conn
           /\ op'.source = op.source /\ op'.org = op.org /\ op'.new = op.new
           /\ \/ op.pc = "snippets" /\ op'.pc = "languages" /\ op'.todo = LangsOf(Source, op.org)
              \/ op.pc = "languages" /\ op'.pc = "detach" /\ op'.todo = {}
  <2>1. /\ RowCopied(Source, Main, op.org, op.new)
        /\ LanguagesCopied(Source, Main, op.org, op.new, op.pc, {})
        /\ SnippetsCopied(Source, Main, op.org, op.new, op.pc, {})
    BY <1>2, CopyUnderWay
  <2>2. /\ LanguagesCopied(Source, Main, op.org, op.new, op'.pc, op'.todo)
        /\ SnippetsCopied(Source, Main, op.org, op.new, op'.pc, op'.todo)
    BY <1>2, <2>1, StageEnds
  <2>3. disk'[op'.source].db = Source /\ disk'[conn'.main].db = Main
    BY <1>2 DEF Source, Main
  <2>4. Copying(disk'[op'.source].db, disk'[conn'.main].db, op')
    BY <1>2, <2>1, <2>2, <2>3 DEF Copying
  <2>5. QED
    BY <2>4, CopyPartsNext
<1>3. op \in Step
  BY Facts
<1>4. CASE ImportLanguages
  BY <1>1, <1>2, <1>3, <1>4 DEF ImportLanguages, Statement, Fail, Step, LangsOf
<1>5. CASE ImportLanguages_Done
  BY <1>1, <1>2, <1>3, <1>5 DEF ImportLanguages_Done, Statement, Fail, GoTo, Step
<1>6. QED
  BY <1>4, <1>5

(* Another instance: it writes to neither of the two files.                 *)
LEMMA CopyIsLocked ==
  ASSUME IInv, CopyHolds, Others
  PROVE  CopyHolds'
<1>1. disk \in [Files -> File] /\ HandlerHolds
  BY Facts
<1>2. op' = op /\ conn' = conn /\ \E f \in Files : f \notin Locked /\
                                      \A g \in Files \ {f} : disk'[g] = disk[g]
  BY <1>1 DEF Others, OtherAddsLibrary, OtherAddsSnippet, OtherDeletesLibrary, OthersWrite
<1>3. op.new # 0 /\ op.cmd # "save" => Locked = {op.source, conn.main}
  BY <1>1, Facts DEF Locked, HandlerHolds, Step, Connection
<1>4. op.source \in Files /\ conn.main \in Files
  BY Facts DEF Step, Connection
<1>5. QED
  BY <1>2, <1>3, <1>4, CopyStays DEF Source, Main

(* Every step keeps the copy as far as it has come.                         *)
LEMMA CopyStep ==
  ASSUME IInv, CopyHolds, [Next]_vars
  PROVE  CopyHolds'
<1>1. op'.new = 0 \/ op'.cmd = "save" => CopyHolds'
  BY CopyPartsNext
<1>2. op \in Step /\ HandlerHolds
  BY Facts
<1>3. CASE SaveLibrary \/ ImportLanguages \/ ImportLanguages_Done \/ Others
  BY <1>3, CopyBegins, CopyGoesOn, CopyIsLocked
<1>4. CASE \E x \in op.todo : ImportSnippet(x) \/ ImportLanguage(x)
  BY <1>4, CopyOfSnippet, CopyOfLanguage
<1>5. op.pc \notin {"snippets", "languages", "detach", "insert"} => op.new = 0
  BY <1>2 DEF HandlerHolds
<1>6. CASE AttachList \/ AddLibraryToCombo \/ ExportTo \/ Attach \/ SelectLibrary
  <2>1. op.pc \in {"list", "listed", "attachExport", "createTables", "setVersion", "reopen",
                   "attach", "select"}
    BY <1>6 DEF AttachList, AddLibraryToCombo, ExportTo, AttachExport, CreateExportDB,
                SetUserVersion, Reopen, Attach, SelectLibrary, OpenAndAttach, Statement
  <2>2. op' = NoOp \/ op'.new = op.new
    BY <1>2, <1>6
    DEF AttachList, AddLibraryToCombo, ExportTo, AttachExport, CreateExportDB, SetUserVersion,
        Reopen, Attach, SelectLibrary, OpenAndAttach, Statement, Fail, GoTo, Step
  <2>3. QED
    BY <1>1, <1>5, <2>1, <2>2 DEF NoOp
<1>7. CASE \/ Detach \/ Exception \/ Reopen_Exception \/ Restart \/ OnCancel
           \/ \E name \in LibNames : SaveToDB_Insert(name)
  BY <1>1, <1>7
  DEF Detach, Exception, Reopen_Exception, Restart, OnCancel, SaveToDB_Insert, Statement, Fail, NoOp
<1>8. CASE \E file \in Files :
             OnLibraryImport(file) \/ \E id \in LibraryIDs : OnLibraryExport(file, id)
  BY <1>1, <1>8 DEF OnLibraryImport, OnLibraryExport, NoOp
<1>9. CASE SaveToDB \/ \E id \in op.todo : OnOK(id)
  BY <1>1, <1>2, <1>9 DEF SaveToDB, OnOK, Step, HandlerHolds, NoOp
<1>10. CASE UpdateSnippetsList
  BY <1>1, <1>2, <1>10 DEF UpdateSnippetsList, HandlerHolds, NoOp
<1>11. CASE UNCHANGED vars
  BY <1>11, CopyStays DEF vars, Source, Main
<1>12. QED
  BY <1>3, <1>4, <1>6, <1>7, <1>8, <1>9, <1>10, <1>11 DEF Next, Handler, ImportLibrary, User

(* What has been copied is known at every step of every import and export:  *)
(* the rows still to do are missing, and nothing else.                      *)
THEOREM CopyInvHolds == Spec => []CopyInv
<1>1. Init => ConnectionHolds /\ CopyHolds
  BY ImportExportAssumption DEF Init, ConnectionHolds, CopyHolds, Closed, NoOp
<1>2. IInv /\ ConnectionHolds /\ CopyHolds /\ [Next]_vars => (ConnectionHolds /\ CopyHolds)'
  BY ConnectionStep, CopyStep
<1>3. QED
  BY <1>1, <1>2, InvariantHolds, PTL DEF Spec, CopyInv

(* An import or an export that goes through leaves a copy of the library    *)
(* with all its languages and as many snippets of each content, except that *)
(* those that said "Use default" say "Normal Text", whatever others wrote.  *)
THEOREM CopyIsWholeHolds == Spec => []CopyIsWhole
<1>1. CopyInv => CopyIsWhole
  <2> SUFFICES ASSUME CopyInv, op.pc = "detach", op.new # 0
               PROVE  CopyIsWhole
    BY DEF CopyIsWhole
  <2>1. op.cmd # "save" /\ IInv
    BY DEF CopyInv, IInv, HandlerHolds
  <2>2. /\ LibraryIsCopied /\ op.todo = {}
        /\ LangsOf(Main, op.new) = LangsOf(Source, op.org) \ op.todo
    BY <2>1 DEF CopyInv, CopyHolds
  <2>3. \A name \in SnipNames, sort \in 0..MaxSort :
          Cardinality(Copies(name, sort)) =
          Cardinality({s \in CopiedAs(name, sort) : op.pc = "snippets" => s.SnippetID \notin op.todo})
    BY <2>1 DEF CopyInv, CopyHolds
  <2>4. \A name, sort :
          {s \in CopiedAs(name, sort) : op.pc = "snippets" => s.SnippetID \notin op.todo} =
          CopiedAs(name, sort)
    OBVIOUS
  <2>5. \A name \in SnipNames, sort \in 0..MaxSort :
          Cardinality(Copies(name, sort)) = Cardinality(CopiedAs(name, sort))
    BY <2>3, <2>4, Zenon
  <2>6. Consistent(Source) /\ Consistent(Main)
    BY <2>1, Facts DEF DiskHolds, FilesConsistent, Source, Main, Step, Connection
  <2>7. IsFiniteSet(Source.Snippets) /\ IsFiniteSet(Main.Snippets)
    BY <2>6, TablesFinite
  <2>8. ASSUME NEW sort \in 0..MaxSort, NEW name \in SnipNames \ DOMAIN NormalText
        PROVE  Cardinality(Copies(name, sort)) =
                 Cardinality(Originals(name, sort)) + Cardinality(Defaults(name, sort))
    <3> DEFINE A == Originals(name, sort)
               B == Defaults(name, sort)
    <3>1. CopiedAs(name, sort) = A \cup B /\ A \cap B = {}
      BY DEF CopiedAs, Copied, Originals, Defaults
    <3>2. A \subseteq Source.Snippets /\ B \subseteq Source.Snippets
      BY DEF Originals, Defaults
    <3> HIDE DEF A, B
    <3>3. IsFiniteSet(A) /\ IsFiniteSet(B)
      BY <2>7, <3>2, FS_Subset
    <3>4. Cardinality(A \cup B) = Cardinality(A) + Cardinality(B)
      <4>1. Cardinality(A \cup B) = Cardinality(A) + Cardinality(B) - Cardinality(A \cap B)
        BY <3>3, FS_Union, Zenon
      <4>2. Cardinality(A \cap B) = 0
        BY <3>1, FS_EmptySet
      <4>3. Cardinality(A) \in Nat /\ Cardinality(B) \in Nat
        BY <3>3, FS_CardinalityType
      <4>4. QED
        BY <4>1, <4>2, <4>3
    <3>5. Cardinality(Copies(name, sort)) = Cardinality(CopiedAs(name, sort))
      BY <2>5
    <3>6. QED
      BY <3>1, <3>4, <3>5 DEF A, B
  <2>9. ASSUME NEW sort \in 0..MaxSort, NEW name \in DOMAIN NormalText
        PROVE  Copies(name, sort) = {}
    <3>1. CopiedAs(name, sort) = {}
      BY ImportExportAssumption DEF CopiedAs, Copied
    <3>2. name \in SnipNames
      BY ImportExportAssumption
    <3>3. Cardinality(Copies(name, sort)) = 0
      BY <2>5, <3>1, <3>2, FS_EmptySet
    <3>4. IsFiniteSet(Copies(name, sort))
      <4>1. Copies(name, sort) \subseteq Main.Snippets
        BY DEF Copies
      <4>2. QED
        BY <2>7, <4>1, FS_Subset
    <3>5. QED
      BY <3>3, <3>4, FS_EmptySet
  <2>10. LangsOf(Main, op.new) = LangsOf(Source, op.org)
    BY <2>2
  <2>11. QED
    BY <2>2, <2>8, <2>9, <2>10, Zenon DEF CopyIsWhole
<1>2. QED
  BY <1>1, CopyInvHolds, PTL

(* SQLite refuses a statement of an import or an export only because the    *)
(* two files are one or because of an older schema.                         *)
THEOREM RefusedForAReasonHolds == Spec => RefusedForAReason
<1> DEFINE Refused == op.cmd # "save" /\ failed = {} /\ "refused" \in failed'
           Reason == conn.main = op.source \/ \E f \in Files : disk[f].schema \in {"old", "mixed"}
<1>1. CopyInv /\ [Next]_vars => [Refused => Reason]_vars
  <2> SUFFICES ASSUME CopyInv, Next, Refused
               PROVE  Reason
    OBVIOUS
  <2>1. /\ op \in Step /\ conn \in Connection /\ HandlerHolds /\ HomeHolds /\ VersionComesLast
        /\ disk \in [Files -> File] /\ ConnectionHolds /\ IInv
    BY Facts DEF CopyInv, IInv
  <2>2. conn.txn = FALSE /\ (op.pc \in {"list", "attachExport"} => filename = "own")
    <3>1. ~conn.txn
      BY <2>1 DEF HomeHolds
    <3>2. op.pc \in {"list", "attachExport"} => filename = "own"
      BY <2>1 DEF HomeHolds
    <3>3. QED
      BY <2>1, <3>1, <3>2 DEF Connection
  <2>3. op.pc = "attach" => op.cmd \in {"import", "export"}
    BY <2>1 DEF HandlerHolds, Step, Commands
  <2>4. ASSUME ~conn.open, filename = "own"
        PROVE  Opened(conn, filename).attached = {} /\ VersionFits(Opened(conn, filename))
    BY <2>1, <2>4 DEF Opened, VersionFits, Closed, ConnectionHolds
  <2>5. CASE AttachList
    BY <2>1, <2>2, <2>4, <2>5 DEF AttachList, OpenAndAttach, ConnectionHolds
  <2>6. CASE AddLibraryToCombo
    BY <2>2, <2>6 DEF AddLibraryToCombo, Statement
  <2>7. CASE AttachExport
    BY <2>1, <2>2, <2>4, <2>7 DEF AttachExport, OpenAndAttach, ConnectionHolds
  <2>8. CASE CreateExportDB \/ SetUserVersion \/ Reopen \/ SelectLibrary \/ ImportLanguages_Done
             \/ Detach
    BY <2>2, <2>8 DEF CreateExportDB, SetUserVersion, Reopen, SelectLibrary, ImportLanguages_Done,
                      Detach, Statement
  <2>9. CASE Attach
    <3>1. op.pc = "attach"
      BY <2>9 DEF Attach, OpenAndAttach
    <3>2. CASE op.cmd = "import"
      <4>1. ~conn.open /\ filename = "own"
        BY <2>1, <3>1, <3>2 DEF ConnectionHolds, HomeHolds
      <4>2. QED
        BY <2>4, <2>9, <4>1 DEF Attach, OpenAndAttach
    <3>3. CASE op.cmd = "export"
      <4>1. conn.open /\ conn.attached = {} /\ disk[conn.main].version = 3
        BY <2>1, <3>1, <3>3 DEF ConnectionHolds
      <4>2. Opened(conn, filename) = conn
        BY <4>1 DEF Opened
      <4>3. QED
        BY <2>9, <4>1, <4>2 DEF Attach, OpenAndAttach, VersionFits
    <3>4. QED
      BY <2>3, <3>1, <3>2, <3>3
  <2>10. Consistent(Main)
    BY <2>1 DEF IInv, FilesConsistent, Main, Connection
  <2>11. CASE SaveLibrary
    <3>1. NextID(LibraryIDsOf(Main)) <= MaxLibraryID
      BY <2>11 DEF SaveLibrary
    <3>2. NextID(LibraryIDsOf(Main)) \notin LibraryIDsOf(Main)
      BY <2>10, <3>1, NewKeys
    <3>3. QED
      BY <2>11, <3>2 DEF SaveLibrary, Statement, CanInsert
  <2>12. CASE \E x \in op.todo : ImportSnippet(x)
    <3>1. op.pc = "snippets" /\ NextID(SnippetIDsOf(Main)) <= MaxSnippetID
      BY <2>12 DEF ImportSnippet, Statement
    <3>2. NextID(SnippetIDsOf(Main)) \notin SnippetIDsOf(Main)
      BY <2>10, <3>1, NewKeys
    <3>3. conn.main = op.source \/ disk[conn.main].schema # "new"
      BY <2>12, <3>2 DEF ImportSnippet, Statement, CanInsert
    <3>4. disk[conn.main].schema \in {"new", "mixed"} /\ conn.main \in Files
      BY <2>1, <3>1 DEF ConnectionHolds, VersionComesLast, Connection
    <3>5. QED
      BY <3>3, <3>4
  <2>13. CASE ImportLanguages
    BY <2>1, <2>13 DEF ImportLanguages, Statement, Step
  <2>14. CASE \E x \in op.todo : ImportLanguage(x)
    BY <2>14 DEF ImportLanguage, Statement
  <2>15. CASE \E name \in LibNames : SaveToDB_Insert(name)
    BY <2>1, <2>15 DEF SaveToDB_Insert, Statement, HandlerHolds
  <2>16. CASE User \/ Others
    BY <2>16 DEF User, OnLibraryImport, OnLibraryExport, OnOK, OnCancel, SaveToDB,
                 UpdateSnippetsList, Others, OtherAddsLibrary, OtherAddsSnippet,
                 OtherDeletesLibrary, OthersWrite
  <2>17. CASE Exception \/ Reopen_Exception \/ Restart
    BY <2>1, <2>17 DEF Exception, Reopen_Exception, Fail, Restart, Step, Commands
  <2>18. QED
    BY <2>5, <2>6, <2>7, <2>8, <2>9, <2>11, <2>12, <2>13, <2>14, <2>15, <2>16, <2>17
    DEF Next, Handler, ExportTo, ImportLibrary
<1>2. QED
  BY <1>1, CopyInvHolds, PTL DEF Spec, RefusedForAReason
=============================================================================
