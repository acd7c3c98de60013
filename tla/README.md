# A verification of NppSnippets

NppSnippets is a Notepad++ plug-in. It keeps code snippets in libraries in an
SQLite database and shows them in a docked console: a combobox with the
libraries for the language of the current document, a filter, and a list with
the snippets of the chosen library. This directory holds TLA+ models of it,
what TLC checks about them, and what TLAPS proves.

Paths are relative to `src/`, `file:line`.

## 1. The system

| Component | State | Operations | Modelled in |
|---|---|---|---|
| Console (`DlgConsole.cpp`) | objects of the combobox and the listbox, `s_curLibrary`, `s_curLang`, `s_bConsoleVisible`, text of the filter | toggle, notification, filter, select a library, insert, add (3 ways), edit, delete, duplicate, move; new, edit, delete, languages, import, export | Console, ImportExport, Insertion, Startup |
| Library selection (`AddLibsToCombo`) | three flags of a loop over a query | one row at a time | LibrarySelection |
| Tables and statements (`misc/NppSnippets.sql`, `Library.cpp`, `Snippets.cpp`) | Library, LibraryLang, Snippets, LangLastUsed | insert, update, delete with cascades, ids by `MAX + 1` | SnippetTables |
| Dialogs (`DlgEditSnippet`, `DlgEditLibrary`, `DlgEditLanguages`) | a pointer to the object edited | validate, save | Console, Insertion |
| Opening and upgrading (`SnippetsDB.cpp`) | `user_version`, schema, rows | open, convert 1 to 2, 2 to 3 | Upgrade |
| Import and export (`SnippetsDB.cpp`, `Library.cpp`, `DlgImportLibrary.cpp`) | an attached second file, the file name swapped for an export | row by row copies | ImportExport |
| Connection (`SqliteDB.cpp`) | handle, transaction, file name, attached files | open, close, attach, transactions, exceptions | ImportExport, Startup, Upgrade |
| Insertion (`DlgConsole.cpp`, `NppSnippets.cpp`, `Snippets.cpp`) | the document, its selection and line endings | insert, convert line endings, guess a name | Insertion |
| Start-up and options (`NppSnippets.cpp`, `Options.cpp`, `DlgOptions.cpp`) | `g_Options`, `g_db`, the ini file, flags of the console | find the database, copy the template, read and write options, show and hide | Startup |

**How they interact.** There is one thread, Notepad++'s window thread. Handlers
are called by window messages and by `beNotified`, and run to their end unless
they open a modal dialog or a message box, or send Notepad++ a message that
comes back as a notification (starting a document for a snippet does). While a
dialog waits, its message loop runs, and Notepad++ can activate another buffer,
for instance because a second start hands it a file. `beNotified` then calls
`UpdateSnippetsList`, which frees every object of the combobox and the list and
reads all of them again, below the suspended handler.

Objects of the widgets are copies of rows that handlers change and save back.
So there are three views to keep together: the rows, the objects, and what a
suspended handler remembers.

All handlers use one connection, `g_db`, which each opens and closes. What one
leaves open, because a statement threw and nobody caught it, the next goes on
with. Another Notepad++ process may use the same files at any time.

**What is hard here.**

* the order of notifications and answers to dialogs (pointers and
  `s_curLibrary` kept over a modal loop);
* `s_curLibrary` being NULL, and who may still run then;
* objects that are older than their rows, a list that shows only part of a
  library;
* ids that are used again after a delete, kept right only by cascades;
* handlers that write twice without a transaction, and a conversion of many
  transactions, with the process ending in between;
* an import or export of many small transactions with other writers in between,
  and exceptions that skip the clean-up: the alias stays attached, a transaction
  open, or the export file the plug-in's own;
* files that come and go between the look at them and their use;
* a selection loop whose result depends on the order of rows;
* line endings in three places: the source of a snippet, the database, the
  document.

`PROJECT.json` lists these with their lines under "hazards".

**What makes each component correct.**

* Tables: keys are unique, references hold, whatever is deleted and added.
* Library selection: last used, else first language-specific, else first.
* Console: the widgets never lack anything that is stored, and show nothing else
  unless a save was refused; every change of the database is what a dialog asked
  for, applied to what that dialog named; the last used library is the one
  shown; sort numbers keep the order the user made. (That no freed object and no
  NULL is used ought to hold too, but does not, see section 3.)
* Opening and upgrading: nothing is lost at any point, the version never runs
  ahead of the schema, and the conversion ends.
* Import and export: when the command goes through, the copy has every row and
  is the source but for "Use default", which becomes "Normal Text"; nothing
  else of either file changes at any point, the plug-in is on its own database
  afterwards, and the loops end.
* Insertion: lines come out as they went in, endings are those of the place they
  are in, and the selection is kept.
* Start-up: the database is found if there is one, none is ever replaced, and
  the next session is as the last one was left.

## 2. The modules

```
SnippetTables ----> LibrarySelection ----> MCLibrarySelection
      |                    '-------------> LibrarySelection_proofs
      |-----------> Console -------------> MCConsole
      |                | refines '-------> Console_proofs ---> ConsoleWidgets_proofs
      |                v
      |             Collection
      |-----------> ImportExport --------> MCImportExport
      |                    '-------------> ImportExport_proofs
      '-----------> SnippetTables_proofs   (used by the other four)
Upgrade ----------> MCUpgrade, Upgrade_proofs
Startup ----------> MCStartup, Startup_proofs
Insertion --------> MCInsertion, Insertion_proofs
```

**SnippetTables** has the four tables of schema 3 as sets of records, one
operator per SQL statement, and the two queries as the set of row sequences
`ORDER BY` allows. A snippet's `Name` stands for all its texts and flags and a
library's for its text columns, since a save writes them all. Names are numbers
in the order of the collation. `Choice` says which row is to be selected.

**LibrarySelection** is the loop of `AddLibsToCombo`. Its actions are the three
paths through the loop body. It is checked and proved to compute `Choice`, and
`Console` uses `Choice` in its place.

**Console** has one action per handler, and two where the handler waits for the
user (`OnSnippetEdit`, then `OnSnippetEdit_OK` or `OnCancel`) or writes twice
(`OnSelChange_Combo`, then `OnSelChange_Store`). Every handler that writes has
one more, `..._Refused`, for the case that SQLite refuses the write. The dialogs
catch that, tell the user and end with `IDOK` as if nothing were wrong
(`DlgEditSnippet.cpp:104`, `DlgEditLibrary.cpp:67`, `DlgEditLanguages.cpp:171`), so
that an object is changed, or added to the combobox, and no row is.
`UpdateSortInDB` rolls back and leaves the list moved (`DlgConsole.cpp:924`). Nobody
catches it in the others, which end where they are. Two things refuse a write: a
missing foreign key, always (`HasRow`: a library whose own insert was refused), and
anything else, for the handlers in the constant `Refusable`. `OnClose` is the x of
the panel, which empties the widgets while `s_bConsoleVisible` stays set. Its
variables are

| Variable | In the code |
|---|---|
| `db` | the database file |
| `lang`, `visible`, `curLang` | `g_currentLang`, `s_bConsoleVisible`, `s_curLang` |
| `shown` | whether the panel is on the screen; after the x it is not, and `visible` is |
| `combo`, `list` | the objects attached to the items of `IDC_NAME` and `IDC_LIST` |
| `cur` | `s_curLibrary`, as a position in `combo`; 0 for NULL |
| `filter` | the names the text of `IDC_FILTER` lets through |
| `frame` | the suspended handler: its locals, and whether the object it points to still exists |
| `fault` | a NULL dereference (the process ends, `Restart`) or a use of a freed object (nothing is modelled after it) |
| `unsaved` | nothing in the code; history: a refused write left the objects, or the selected library, ahead of the rows since the last refresh; only for the properties |

The constants are the databases to start with (`Templates`), what the user types
or ticks (`Filters`, `Sortings`), what a duplicate is called (`DupName`), whether
notifications and the x come during dialogs (`Reentrant`), whether the process may
end anywhere (`CanCrash`), `Refusable`, and `HasLangMsgs` for `g_HasLangMsgs`, which
is set once at start and without which `OnLibraryLanguages` does nothing.

`OnSnippetAdd` stands for the menu, the clipboard and the selection, which
differ in the text they start with. `Restart` is a crash or an exit at any step,
with what is committed on disk.

**Collection** is the contract: the collection of libraries and snippets changes
only when a request is carried out, and then only in what the request named.
`Console` is shown to implement it with the dialog that is open as the request.

**Upgrade** is `SnippetsDB::Open` with both conversions, a step per transaction
or statement that commits by itself. A file is its version, the tables and
indices it has, and its rows. A statement that SQLite would refuse (a table that
exists already) fails, and nobody catches the exception. `Crash` ends the
process between two steps.

**ImportExport** has two files, the plug-in's own and another, which may be
missing, of schema 1 or current, and steps through both commands statement by
statement.

| Variable | In the code |
|---|---|
| `disk` | both files as committed: version, tables, rows |
| `filename` | `g_db->_dbFile`, which `ExportTo` swaps and restores |
| `conn` | `g_db->_db`: open, on which file, what is attached, is a transaction open |
| `op` | the handler under way: its next statement (`pc`), the ids it works on, and the rows its loop has still to see (`todo`) |
| `failed` | commands that threw since the process started |
| `base` | the files as they would be without the command; only for the property |

`Statement` carries one out if SQLite can (the alias is free, the key is free,
the table has the columns, the file is not read by an open SELECT under another
name) and ends the handler with an exception if not. `Exception` lets any
statement fail for a reason of its own (a lock of another process among them); in
`CreateExportDB` the transaction then stays open. `Open` and `Attach` are one step
(`OpenAndAttach`), which leaves the connection open if the second fails.
`Reopen_Exception` is the `Open` of the export file that fails when `SetFilename`
has already been called. `OtherAddsLibrary`, `OtherAddsSnippet` and `OtherDeletesLibrary` are
another process, kept off only by what SQLite's locks keep it off (`Locked`).
`SaveToDB` is any other handler that adds a row on the same connection. Ids of
the model end at `MaxLibraryID` and `MaxSnippetID`, as guards; the property
`HandlerEnds` shows that within the bound on requests no handler meets them.
A snippet's `Name` stands for all its contents, its `NewDocumentLang` among them. The
one thing a copy changes is that column: NULL ("Use default") is read as 0 and
written back as `L_TEXT` ("Normal Text", `Snippets.cpp:193`). The constant
`NormalText` maps the contents that say the one to those that say the other, and
`Copied` is that conversion. `OthersNames` are the contents other processes add.

**Insertion** follows a text from the clipboard or a selection through
`ConvertLineEnding` and `GuessName` into a snippet, and through `OnSnippetInsert`
into a document, character by character. The option Indent is off in it (the
default is on), and of the snippet dialog it has what the dialog proposes, not what
the user makes of it, and the two fields that may not be empty. A text is a sequence of visible
characters, blanks, carriage returns and line feeds; positions are Scintilla's.

**Startup** is the life of the plug-in in a process, again and again: load, read
the options, ready, notifications, show and hide, the options dialog, unload or a
crash. `GetDatabaseFile` is two steps, the look for the file and the copy of the
template, with other processes in between.

| Variable | In the code |
|---|---|
| `db`, `templates`, `ini` | the files: databases in the three places, templates, `NppSnippets.ini` |
| `options`, `phase` | `g_Options`, and which notifications have come |
| `console` | `s_bConsoleVisible`, `s_bConsoleInitialized`, `s_HasPluginHome`, and whether the panel is on screen |
| `filename`, `broken` | `g_db->_dbFile`, and whether an `Open` that threw left `_db` open |
| `told`, `lost` | what the user was told, and whether a file was taken away; only for the properties |

## 3. What is checked

| Run | Module | Question | Bounds | States |
|---|---|---|---|---|
| select_row | MCLibrarySelection | Does the loop select the right row? | 3 libraries, all queries of up to 4 rows, every last used library | 19 thousand |
| libraries | MCConsole | Do libraries, references, the widgets and the last used library stay right, with notifications and the x during dialogs, refused writes and the process ending anywhere? | 2 languages, 2 libraries, 1 snippet; writes of the library commands, of the choice and of an edited snippet refused; "sort alphabetic" only taken away | 2.57 million |
| snippets | MCConsole | Do ids, list and order stay right, with and without a filter, and after refused writes? | 1 language, 1 library, 3 snippets, 2 names, 2 filters; adding, deleting, duplicating and moving refused | 1.67 million |
| transfer | MCImportExport | Do import and export copy the whole library, and nothing else, whatever fails and whoever else writes? | 2 files of up to 3 kinds, 2 snippets of different contents, one with "Use default", 2 languages, 3 requests | 531 thousand |
| editing | MCInsertion | Do lines, endings and selection survive? | every text of up to 3 characters and one of 5, 5 documents, all line endings | 439 thousand |
| startup | MCStartup | Which file is used, is any replaced, what does the next session remember? | every mix of databases in 3 places, 3 sets of templates, 3 changes from outside | 95 thousand |
| upgrade | MCUpgrade | Is an old file converted, and is anything lost when the process ends during it? | all files of schema 1 and 2 with 2 libraries, 2 languages, up to 2 snippets; an empty, a current and a newer file; up to 2 crashes | 7.9 thousand |

**What they show.**

* *select_row*: `SelectsChoice` and the loop invariant.
* *libraries*: no row ever refers to a library that is gone or was never stored
  (`RefIntegrity`). While the panel is on the screen and no handler is halfway,
  every library of the language is in the combobox and every snippet the filter
  lets through is in the list once, whatever writes were refused; and unless one
  was since the last refresh, nothing else is there, objects are as their rows and
  in their order (`ComboFresh`, `ListFresh`), no library is in the combobox twice
  (`ListedOnce`), and the library last used is the one shown (`LastUsedIsShown`).
* *snippets*: `IDsUnique`; every library stays reachable, whatever write is refused
  but the language of a new library (`LibraryIsReachable`); a new snippet sorts
  last and a move keeps the others' order as long as nothing is filtered and no
  refused move is in the list (`NewSnippetSortsLast`, `UnfilteredMoveKeepsOrder`); a
  move that was stored is read back as it is shown, also after refused ones, whose
  leftovers it puts right (`MoveSurvivesReload`); and the console refines
  `Collection`, refused requests being withdrawn (`ImplementsCollection`). In
  *libraries* that refinement does not hold, which is the finding of
  `delete_named`. (The run has refused moves before a move; refused edits before
  one are left to the proof.)
* *transfer*: what goes through has the library's row, all its languages and every
  snippet at its place, as it is or with "Normal Text" for "Use default"
  (`CopyIsWhole`); at every step the
  rest of both files is what it would be without the command
  (`NothingElseTouched`); the plug-in is back on its own file and connection, but
  for a failed export (`WorksOnOwnFile`), and saves reach that file
  (`SaveReachesOwnFile`); the version is set last (`VersionComesLast`); as long as
  nothing failed by a fault of its own, a statement is refused only because of the
  files the user chose, not because of rows others added or deleted
  (`RefusedForAReason`); and every loop ends (`HandlerEnds`).
* *editing*: stored texts have CR LF endings (`StoredEndsAreProper`), no line is
  lost, split or joined on the way (`LinesSurvive`), a document keeps its endings
  (`DocumentKeepsEnds`), the selection is selected again and the rest of the
  document untouched (`SelectionIsKept`), and the name proposed is a visible part
  of one line (`NameIsALine`). Two of these have the exception of
  a snippet that ends in a CR, which the conversion leaves as it is
  (`NppSnippets.cpp:210`).
* *startup*: no database is replaced (`DatabaseIsNeverReplaced`); an open throws
  only after the user was told that there is no database, or when one was taken
  away (`ThrowsForAReason`); the next session shows the console as the last left
  it, but for closing it with its x, which `docs/known-issues.rst` lists
  (`ShowIsRemembered`); a session stays on its file (`StaysOnItsFile`); and the
  user is told only if no place has one and the installation no template
  (`FoundIfThere`).
* *upgrade*: `NothingLost`, `VersionTellsSchema`, `Converted`.

What *libraries* and *snippets* say of `unsaved` is as strong as the code allows.
After a refused save the object of the widget really is ahead of its row: the next
refresh shows the old name again. `docs/known-issues.rst:15` says that a database
without write access "is not properly handled". What the two runs add is what such
a failure does not break: `RefIntegrity`, the half of `ComboFresh` and `ListFresh`
that is without condition, `MoveSurvivesReload`, `LibraryIsReachable` and the
refinement.

`FreshInv` in *libraries*, `CopyInv` in *transfer*, and `IInv` in *editing*,
*startup* and *upgrade* are the invariants the proofs show to be inductive; the
types (`TypeOK`) are part of them, and so is `IInv` of `Console` and
`ImportExport` of the first two.

**Why the bounds are enough.** Two libraries and two languages give a library
for each language, one for all, one for none, an id used again after a delete,
and a refresh that replaces `s_curLibrary`. Three snippets with two names give
equal names, equal sort numbers (a duplicate copies the sort number), and a
filter that hides a snippet between two others. Every action that the bounds
disable (`MaxLibraryID`, `MaxSnippetID`, `MaxSort`) is one that adds one more of
what there already is. `MaxSort` also keeps a list from being renumbered beyond
it. In the row loop four rows are enough for a row before and after each flag is
set. `MaxCrashes = 2` allows a crash in a conversion that follows a crash. Three
requests give a command that fails, one after it on what it left, and a write of
another process in between; a library of two snippets and two languages makes
every loop of the import run twice, and of the two snippets one says "Use default".
A refusal may come at any write; a second one may follow on what the first left,
and commands on that. `Refusable` is split over the two runs by what their
properties are about; the proofs are for every choice of it. A combobox with as
many objects as there are ids gets no further one by a refused insert. Texts of three characters hold every pair of
line ends and what is around it. Three changes from outside make a database,
take it away and make it again during a session.

**Fairness.** Two properties need it. `Converted`: weak fairness of
`OpenDatabase`, since the statements of the conversion follow one another in a
call on one thread. `HandlerEnds`: weak fairness of `Handler`, for the same
reason; it ends at the dialog, since nothing makes the user answer it. Nothing
else is driven by anybody but the user and other processes, of whom nothing is
assumed, and so has only safety properties.

**Deadlock** is checked in all runs but the loop's, which ends.

### Disagreements

Five runs end in a violation, each of a statement of the code or the docs. They
are under "findings" in `PROJECT.json`.

* `NamedLibraryIsDeleted` (delete_named): a change of document while the
  question is open makes Yes delete another library (`DlgConsole.cpp:1084`).
* `LibraryCanBeSelected` (select_after_none): with no library to show,
  `s_curLibrary` is NULL. A new library is added to the combobox but does not
  become current, and selecting it dereferences NULL (`DlgConsole.cpp:504`).
* `MoveKeepsOthersInOrder` (filtered_move): with a filter, a move renumbers
  only the snippets shown (`DlgConsole.cpp:906`). A new snippet's sort number
  comes from the same filtered list (`:688`).
* `ExportedFileIsCurrent` (export_old): exporting to a file of schema 1 marks it
  as schema 3 with the tables it had (`SnippetsDB.cpp:157`); the export fails, and
  the file is never converted any more.
* `ConversionNeverFails` (upgrade_stuck): an interrupted conversion starts
  again at its first statement, which then fails, at every start
  (`SnippetsDB.cpp:169`). Run *upgrade* shows that no data is lost by it.

Two things the models show go against no statement of the code or the docs, and so
are hazards in `PROJECT.json` and not findings:

* In *libraries* handlers use freed objects. `OnSnippetEdit` keeps a pointer to the
  object of the selected item over its dialog (`DlgConsole.cpp:738`); a notification
  or the x below the dialog frees it; OK then saves through it (`Dangling`). The
  same goes for deleting and duplicating a snippet and for the name and the
  languages of a library. The properties hold in every state up to that use, and
  after it the model has nothing to say.
* An import or export turns "Use default" into "Normal Text" (`Snippets.cpp:193`), as
  any save of a snippet read from the database does.

## 4. What is proved

Every safety invariant and every action property that a passing run checks is a
theorem, and so is the refinement. They hold for every value of the constants
that satisfies the named assumptions:

| Module | Theorem | States |
|---|---|---|
| `LibrarySelection_proofs` | `LoopInvariantHolds` | `Spec => []LoopInvariant` |
| | `SelectsChoiceHolds` | `Spec => []SelectsChoice` |
| `Console_proofs` | `InvariantHolds` | `Spec => []IInv` |
| | `TypesHold` | `Spec => []TypeOK` |
| | `IDsUniqueHold` | `Spec => []IDsUnique` |
| | `RefIntegrityHolds` | `Spec => []RefIntegrity` |
| `ConsoleWidgets_proofs` | `FreshInvHolds` | `Spec => []FreshInv` |
| | `ComboFreshHolds` | `Spec => []ComboFresh` |
| | `ListFreshHolds` | `Spec => []ListFresh` |
| | `LastUsedIsShownHolds` | `Spec => []LastUsedIsShown` |
| | `ListedOnceHolds` | `Spec => []ListedOnce` |
| | `LibraryIsReachableHolds` | `Spec => []LibraryIsReachable`, if `~CanCrash`, `"LibraryNewLang" \notin Refusable` and the templates' libraries have languages |
| | `NewSnippetSortsLastHolds` | `Spec => []NewSnippetSortsLast` |
| | `UnfilteredMoveKeepsOrderHolds` | `Spec => UnfilteredMoveKeepsOrder` |
| | `MoveSurvivesReloadHolds` | `Spec => MoveSurvivesReload` |
| | `ImplementsCollectionHolds` | `Spec => ImplementsCollection`, if `~Reentrant` |
| `ImportExport_proofs` | `InvariantHolds` | `Spec => []IInv` |
| | `NothingElseTouchedHolds` | `Spec => []NothingElseTouched` |
| | `WorksOnOwnFileHolds` | `Spec => []WorksOnOwnFile` |
| | `VersionComesLastHolds` | `Spec => []VersionComesLast` |
| | `SaveReachesOwnFileHolds` | `Spec => SaveReachesOwnFile` |
| | `CopyInvHolds` | `Spec => []CopyInv` |
| | `CopyIsWholeHolds` | `Spec => []CopyIsWhole` |
| | `RefusedForAReasonHolds` | `Spec => RefusedForAReason` |
| `Insertion_proofs` | `InvariantHolds` | `Spec => []IInv` |
| | `StoredEndsAreProperHolds` | `Spec => []StoredEndsAreProper` |
| | `NameIsALineHolds` | `Spec => []NameIsALine` |
| | `LinesSurviveHolds` | `Spec => LinesSurvive` |
| | `SelectionIsKeptHolds` | `Spec => SelectionIsKept` |
| | `DocumentKeepsEndsHolds` | `Spec => DocumentKeepsEnds` |
| `Startup_proofs` | `InvariantHolds` | `Spec => []IInv` |
| | `ThrowsForAReasonHolds` | `Spec => []ThrowsForAReason` |
| | `DatabaseIsNeverReplacedHolds` | `Spec => DatabaseIsNeverReplaced` |
| | `ShowIsRememberedHolds` | `Spec => ShowIsRemembered` |
| | `StaysOnItsFileHolds` | `Spec => StaysOnItsFile` |
| | `FoundIfThereHolds` | `Spec => FoundIfThere` |
| `Upgrade_proofs` | `InvariantHolds` | `Spec => []IInv` |
| | `NothingLostHolds` | `Spec => []NothingLost` |
| | `VersionTellsSchemaHolds` | `Spec => []VersionTellsSchema` |

The assumptions are the named ones of the modules: `TablesAssumption` (numbers
for languages, of which there are finitely many, names and bounds),
`SelectionAssumption` (queries are sequences of joined rows), `ConsoleAssumption`
(templates are consistent databases; `L_TEXT` is a language; filters are sets of
names; `Refusable` is a set of handlers), `TemplatesAssumption` (a library of a template that is for a general
language is for no other, which is what the dialog lets anyone save),
`ImportExportAssumption` (files are consistent, and those of version 3 are those
that have its tables; a copy does not say "Use default"), `InsertionAssumption` (visible characters are no blanks,
documents and clips are texts, a name may have a character),
`StartupAssumption` (templates are in the two places), `UpgradeAssumption` (files
have the tables their version says, with any number of rows).

Two theorems have a hypothesis besides. `~Reentrant` (no notification arrives
during a dialog) is needed for the refinement: with it false `ImplementsCollection`
is refuted by the finding of `delete_named`. `LibraryIsReachable` needs that
`OnLibraryNew` gets to its second write: that the process does not end before it
(`~CanCrash`, see section 5), and that it is not refused.

**The arguments.**

*Console.* `IDsUnique` and `RefIntegrity` are not inductive. A snippet
inserted for `frame.target` keeps the references only if that library still
exists, and `OnSelChange_Store` keeps `Lang` unique in `LangLastUsed` only if no
row for `curLang` came between the delete and the insert. `IInv` adds what is
missing (`FrameHolds`): what the suspended handler goes on with is as it was when
it was suspended. That a library named in an insert exists does not follow from
that, since the object may be of a library whose insert was refused; then the
foreign key refuses this one too. `SnippetTables_proofs` shows statement by
statement that a consistent database stays consistent, that `MAX + 1` is new, and what the
queries return. `Console_proofs` then has one lemma per action. Every refresh
goes through `Refreshed`, which does not depend on what the widgets held before.
A refused write is either no change at all (`AbandonedPreserves`), a refresh, or a
change of the widgets only, and `IInv` asks nothing of the objects that such a
change could break: a write through an object whose library has no row is itself
refused (`HasRow`).

*The widgets.* `ComboFresh`, `ListFresh` and `LastUsedIsShown` are about the states
between handlers and so are not inductive. `FreshInv` says what holds halfway,
too, in two layers. Whatever was refused, `ComboShows` (the combobox has what the
query gives, and a library that is being created besides) and `ListShows` (every
snippet the filter lets through is in the list once, and all there is, is a stored
snippet of the current library). Unless something was, `ComboCopies` and
`ListCopies` (nothing else, as it is stored, in the order of the sort numbers unless
the library is alphabetic) and `ChoiceHolds` (the one stored as last used is
selected). `FrameKnows` is what the second half of a handler needs: that the choice
is still the one to be stored, that the library created has no language yet, that
the item a dialog points to still is the snippet it was opened for. A refresh
establishes it from nothing (`WidgetsAreRead`), because of what the queries
return (`LibraryRowsOf`, `SnippetRowsOf`: each row once); a handler that patches
the list instead keeps it (`EditOKFreshens`, `DeleteYesFreshens`,
`MoveFreshens`); one that is refused keeps the first layer, since it changes what
objects say and where they are but not whose they are (`EditRefusedFreshens`,
`MoveRefusedFreshens`, `LibraryNewRefusedFreshens`, `PermutedShows`). `ListedOnce` rests on `OnceInv`: the dialog keeps a general
language alone (`SaveLanguagesAlone`), so that no two rows of the join have one
library (`RowsOnce`). The order of the snippets follows from `ListCopies`: without a
filter the list is the whole library, so that its highest sort number is the
library's (`AddSortsLast`), and a move is a permutation of the list that keeps the
others' order (`SourceIsPermutation`, `MoveKeepsOrder`); with a filter, too, the
numbers stored are the places shown (`MoveReadsAs`): a move stores the numbers of
all objects of the list, so it needs only the first layer, and holds on what a
refused edit or move left, too.

*The refinement.* The mapping takes the names, ids and libraries of the rows for
the collection and the dialog that is open for the request. Each action is a step
of `Collection` or a stutter: it asks (`Asks`), withdraws (`Withdraws`), carries
out (`CarriesOut`), or is not seen (`Stutter`: moves, filters, refreshes, the last
used library, a crash). A refused command withdraws. That the command meets what its dialog named needs
`FrameKnows` for the snippets and `DeletesNamed` (`frame.target = CurrentID`) for
the library that is deleted, which only holds without notifications.

*The loop.* `FlagsMatchRows` says what the flags remember and `SelectedSoFar`
which row they leave selected.

*Import and export.* `NothingElseTouched` says that deleting what there is of the
new library gives back `base`. That is kept because `MAX + 1` is new and
references hold (`FilesConsistent`), so that the delete takes back exactly the
insert (`DeleteTakesBack`, `NewKeys` in `SnippetTables_proofs`), and because the
new library is still there: while rows are copied no other process can write
the destination (`Locked`). `HandlerHolds` says what each statement finds, and
`HomeHolds` that the plug-in is on its own file except in the second half of an
export, which knows the way back.

`CopyIsWhole` is about the end of the loops. `CopyHolds` is their invariant: the
row of the library is there; the languages copied are the source's without those
still to do; and for each content and sort number there are as many snippets in
the new library as there are in the source, of that content or of the one that says
"Use default" in its place, that are not still to do; and none of the copies says
"Use default". A count is
needed since the copies have new ids, and two snippets may become equal but for
them. Each row adds one on both sides (`SnippetIsInserted`, by `FS_AddElement`),
since ids are keys; neither file changes otherwise, since the source is open in a
SELECT and the destination has been read from (`CopyIsLocked`).
`RefusedForAReason` needs to know why a statement can be carried out:
`ConnectionHolds` says when the connection is closed, so that the alias is free,
and that what it is on is of version 3; the rest is `NewKeys` (no key is taken)
and `VersionComesLast` (only a file that had tables of schema 1 has no `SnippetID`).

*Insertion.* `ConvertLineEnding` is a recursive function over the positions of a
text, from its end. The induction rules of the library take an operator, so they
cannot be cited here; `LeastElement` (a set of numbers has a least element, from
the well-foundedness of inclusion among finite sets) and `Backwards` (a set of
positions that holds the end, and a position when it holds those after it, holds
all) say the same of sets. With them the functions exist and unfold
(`ConvertedUnfolds`, `LinesUnfold`), and the conversion keeps the lines
(`ConversionKeepsLines`), has the endings asked for but for a CR at the very end
(`Nearly`, `ConversionEnds`), is cut into pieces that each stand for one or two
characters (`ConvertedPieces`), and so keeps what is visible and every run
without a line end (`ConversionKeepsRuns`). The last is what takes a name that was
guessed from the converted text back to a line of the text itself
(`NameOfConversion`). `IInv` relates a snippet to the text it was made of
(`origin`). The two action properties about the document come from its five
parts after an insertion (`AroundIs`, `PartsAre`).

*Start-up.* `FilesHold` (unless a database was taken away, every file has its tables
and the one in use is there) and `FlagsHold` (visible without a file name only
after the user was told, or while the template is copied) make
`ThrowsForAReason` inductive. The action properties follow from it, step by step;
`FoundIfThere` also needs that the search passes over no place (`SearchMisses`).

*Upgrade.* `ConversionHolds` says which tables and indices each statement finds
when its turn comes, and that keys are off until the end; without the latter
`RebuildLibrary` would cascade. The order of the snippets goes through `Rank`: the
new key of a row is the number of rows up to it, so that ranks, and with them the
order, are the same after `RebuildSnippets` (`NumberedRows`, `RankKept`,
`OrderKept`).

**Only model-checked:** liveness, `Converted` and `HandlerEnds`, which the prover
cannot do under fairness; and the properties of the five runs that end in a
violation, which do not hold.

## 5. What is not modelled

* `IndentSnippet` (`DlgConsole.cpp:437`): it asks Scintilla for the folding of the
  new lines, which the lexer of the language decides. `Insertion` has the option
  Indent off, which is not its default (1).
* What the user types over the name and the text the snippet dialog proposes. In
  `Insertion` they are as proposed, and OK needs both (`DlgEditSnippet.cpp:82`).
* Of failing writes: a `COMMIT` that fails and leaves its transaction open (in
  `Console`; `ImportExport` has one left open by `CreateExportDB`), and the state of
  the connection in `Console`: every handler opens it anew or finds it open. Reads
  that fail. `docs/known-issues.rst:15` names writes that fail.
* A command of the console given while the dialog of another waits. Notifications
  and the x during dialogs are modelled.
* That reading a snippet turns "Use default" into "Normal Text" (`Snippets.cpp:193`)
  outside of an import or export: in `Console` a snippet's texts and flags are one
  value, taken as they are read.
* Statement objects left open by an exception nobody catches. In the models the
  next handler finds the connection, the attached files and the transaction as
  the exception left them; a statement that was never finalised would besides
  keep `sqlite3_close` from closing.
* A file of schema 2 as the source or target of an import or export.
* The options ToolbarIcon and Indent, which pass through the ini file as Show and
  DBFile do. (`DlgOptions.cpp:46` compares the toolbar option with the
  checkbox of the indent option; it decides only whether a hint is shown.)
* A crash between the two writes of `OnLibraryNew` (`DlgConsole.cpp:1032`) leaves a
  library without a language, shown nowhere; the code has nothing against it, and
  `LibraryIsReachable` is checked without crashes.
* Which item of the list is selected, and the keys that move it: it is an input of
  the models, any item or none.
* Another process on the same database while a dialog of the console is open;
  only `ImportExport` and `Startup` have other processes.
* Painting, docking, tooltips, sizes, the About dialog, the wait cursor, filling
  the lists of languages.
* SQLite (`sqlite3.c`), the Notepad++ headers and Windows, except for what they do
  to the state above. They are most of the lines of the repository.
* `Upgrade` takes old files to have at most one last used library per language,
  as the old console stored them.

## 6. Plan

1. Proofs: that a conversion never fails unless one was interrupted before, and
   which part of `Collection` holds with notifications during dialogs (all but
   the deletion of a library).
2. *SharedDatabase*: two consoles on one file, objects older than their rows
   (`DlgEditSnippet.cpp:107`).
3. Which item of the list is selected, as state of `Console`
   (`DlgConsole.cpp:1237`).
