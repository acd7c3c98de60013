------------------------------ MODULE Startup ------------------------------
(***************************************************************************)
(* A session of the plug-in from load to unload: the options and their ini *)
(* file (Options.cpp, DlgOptions.cpp), showing and hiding the console      *)
(* (SnippetsConsole), and how the first time it is shown finds or makes    *)
(* the database (GetDatabaseFile).  Other processes create and remove      *)
(* databases at any time, also between the look at a file and the copy.    *)
(* SQLite makes an empty file of one that has gone, and what is thrown then*)
(* leaves the connection open.                                             *)
(***************************************************************************)
EXTENDS Integers, FiniteSets, Sequences, SequencesExt

CONSTANTS
  TemplateSets,  \* places that may hold a template: "home", "shipped"
  MaxChanges     \* bound: changes other processes make to the files

(* Where a database is looked for, in this order: the DBFile option, the    *)
(* config directory of the user, that of the installation.                  *)
Places == {"custom", "config", "install"}
SearchOrder_NoInstall == <<"custom", "config">>
SearchOrder == <<"custom", "config", "install">>

ASSUME StartupAssumption ==
  /\ TemplateSets \subseteq SUBSET {"home", "shipped"}
  /\ MaxChanges \in Nat

VARIABLES
  db,         \* the database of a place: "none", "user", "template", a fresh
              \*   copy of the template, or "empty", a file of no bytes
  templates,  \* places that hold Template.sqlite
  ini,        \* NppSnippets.ini
  options,    \* g_Options
  phase,      \* "off", "loaded", "options" (NPPN_TBMODIFICATION came), "ready"
  console,    \* visible: s_bConsoleVisible, initialized: s_bConsoleInitialized,
              \*   hasHome: s_HasPluginHome, shown: is the panel on screen
  filename,   \* _dbFile of g_db, a place or ""
  broken,     \* is _db of g_db left open by an Open that threw
  copying,    \* the template GetDatabaseFile is about to copy, or "none"
  told,       \* of "missed": the user was told that there is no database;
              \*   "closed": he closed the panel with its x; "thrown": Open threw
  lost,       \* did another process ever remove a database
  changes     \* changes other processes may still make

vars == <<db, templates, ini, options, phase, console, filename, broken, copying, told,
          lost, changes>>
session == <<console, filename, broken, copying, told>>
others == <<templates, lost, changes>>

(* dbFile: is the option set, to the place "custom"?  The other options say *)
(* how the toolbar and a snippet look.                                      *)
Options == [show : BOOLEAN, dbFile : BOOLEAN]
Defaults == [show |-> TRUE, dbFile |-> FALSE]
NoConsole == [visible |-> FALSE, initialized |-> FALSE, hasHome |-> FALSE, shown |-> FALSE]

Unloaded ==
  /\ phase' = "off" /\ options' = Defaults /\ console' = NoConsole
  /\ filename' = "" /\ broken' = FALSE /\ copying' = "none" /\ told' = {}

Init ==
  /\ db \in [Places -> {"none", "user"}] /\ templates \in TemplateSets
  /\ ini = Defaults /\ options = Defaults /\ phase = "off"
  /\ console = NoConsole /\ filename = "" /\ broken = FALSE
  /\ copying = "none" /\ told = {}
  /\ lost = FALSE /\ changes = MaxChanges

-----------------------------------------------------------------------------
(* Showing and hiding the console. *)

(* The flag is set before anything has been found. *)
BecomeVisible == [console EXCEPT !.visible = TRUE]

HasTables(kind) == kind \in {"user", "template"}

(* sqlite3_open16 creates a file that is not there, if it can; its version  *)
(* is 0, and the exception leaves the handler, and the connection open.     *)
OpenThrows(place, files) ==
  /\ db' \in {files} \cup
       {[files EXCEPT ![p] = "empty"] : p \in {q \in {place} : files[q] = "none" /\ ~broken}}
  /\ broken' = TRUE
  /\ told' = told \cup {"thrown"}

(* SnippetsConsole with a file name; files are the databases by then.       *)
Show(place, files) ==
  LET c == [BecomeVisible EXCEPT !.initialized = TRUE, !.hasHome = TRUE]
  IN  /\ filename' = place
      /\ copying' = "none"
      /\ \/ /\ HasTables(files[place]) /\ ~broken
            /\ console' = [c EXCEPT !.shown = TRUE]
            /\ options' = [options EXCEPT !.show = TRUE]
            /\ told' = told \ {"closed"}
            /\ db' = files
            /\ UNCHANGED broken
         \/ /\ ~HasTables(files[place]) \/ broken
            /\ console' = c
            /\ OpenThrows(place, files)
            /\ UNCHANGED options

(* SnippetsConsole returns at once, and visible stays set.                  *)
NotFound ==
  /\ console' = BecomeVisible
  /\ copying' = "none"
  /\ told' = told \cup {"missed"}
  /\ UNCHANGED <<db, options, filename, broken>>

AboutToCopy(template) ==
  /\ console' = BecomeVisible
  /\ copying' = template
  /\ UNCHANGED <<db, options, filename, broken, told>>

IsThere(place) == db[place] # "none" /\ (place = "custom" => options.dbFile)

(* What the search does next when no place has a database.                  *)
TryTemplate(from) ==
  IF from \cap templates = {} THEN NotFound
  ELSE AboutToCopy(IF "home" \in from \cap templates THEN "home" ELSE "shipped")

(* s_HasPluginHome, which is set when the search is over: the template of   *)
(* the plug-in's home is never used.                                        *)
FirstTemplates == IF console.hasHome THEN {"home", "shipped"} ELSE {"shipped"}

GetDatabaseFile ==
  LET place == SelectInSeq(SearchOrder, IsThere)
  IN  IF place # 0 THEN Show(SearchOrder[place], db) ELSE TryTemplate(FirstTemplates)

ShowConsole_SearchAgain == GetDatabaseFile

ShowConsole == IF console.initialized THEN Show(filename, db) ELSE GetDatabaseFile

HideConsole_NotStored ==
  /\ console' = [console EXCEPT !.visible = FALSE, !.shown = FALSE]
  /\ UNCHANGED <<db, options, filename, broken, copying, told>>

HideConsole ==
  /\ console' = [console EXCEPT !.visible = FALSE, !.shown = FALSE]
  /\ options' = [options EXCEPT !.show = FALSE]
  /\ told' = told \ {"closed"}
  /\ UNCHANGED <<db, filename, broken, copying>>

Toggle == IF console.visible THEN HideConsole ELSE ShowConsole

Waiting == phase = "ready" /\ copying = "none"

SnippetsConsole == Waiting /\ Toggle /\ UNCHANGED <<others, ini, phase>>

CopyTemplate_Overwrite ==
  /\ copying # "none"
  /\ Show("config", [db EXCEPT !["config"] = "template"])
  /\ UNCHANGED <<others, ini, phase>>

CopyTemplate_KeepTemplateName ==
  /\ copying # "none"
  /\ filename' = copying /\ copying' = "none"
  /\ UNCHANGED <<others, ini, phase, db, options, console, broken, told>>

(* CopyFile fails rather than replace a file that has come meanwhile, and   *)
(* may fail for other reasons.                                              *)
CopyTemplate ==
  /\ copying # "none"
  /\ \/ db["config"] = "none" /\ Show("config", [db EXCEPT !["config"] = "template"])
     \/ IF copying = "home" THEN TryTemplate({"shipped"}) ELSE NotFound
  /\ UNCHANGED <<others, ini, phase>>

(* OnClose and WM_CLOSE: the panel is gone, the flag is not.                *)
OnClose ==
  /\ Waiting /\ console.shown
  /\ console' = [console EXCEPT !.shown = FALSE]
  /\ options' = [options EXCEPT !.show = console.visible]
  /\ told' = told \cup {"closed"}
  /\ UNCHANGED <<db, others, ini, phase, filename, broken, copying>>

-----------------------------------------------------------------------------
(* Notepad++. *)

(* DllMain creates the panel, hidden. *)
Load ==
  /\ phase = "off" /\ phase' = "loaded"
  /\ UNCHANGED <<db, others, ini, options, session>>

(* NPPN_TBMODIFICATION *)
ReadOptions ==
  /\ phase = "loaded" /\ phase' = "options"
  /\ options' = ini
  /\ UNCHANGED <<db, others, ini, session>>

(* NPPN_READY *)
Ready ==
  /\ phase = "options" /\ phase' = "ready"
  /\ IF options.show THEN Toggle ELSE UNCHANGED <<db, options, session>>
  /\ UNCHANGED <<others, ini>>

(* UpdateSnippetsList opens the database, if a file name is set.            *)
Refresh ==
  \/ /\ filename # "" /\ HasTables(db[filename]) /\ ~broken
     /\ UNCHANGED <<db, broken, told>>
  \/ /\ filename # "" /\ (~HasTables(db[filename]) \/ broken)
     /\ OpenThrows(filename, db)
  \/ /\ filename = ""
     /\ told' = told \cup {"thrown"}
     /\ UNCHANGED <<db, broken>>

LangChanged_EvenHidden ==
  /\ phase = "ready" /\ copying = "none"
  /\ Refresh
  /\ UNCHANGED <<others, ini, options, phase, console, filename, copying>>

(* NPPN_LANGCHANGED, NPPN_BUFFERACTIVATED *)
LangChanged ==
  /\ Waiting
  /\ console.visible
  /\ Refresh
  /\ UNCHANGED <<others, ini, options, phase, console, filename, copying>>

(* The options dialog. *)
OptionsDlg_OK(dbFile) ==
  /\ Waiting
  /\ options' = [options EXCEPT !.dbFile = dbFile]
  /\ UNCHANGED <<db, others, ini, phase, session>>

(* DLL_PROCESS_DETACH: the destructor of Options writes the ini file.       *)
Unload ==
  /\ Waiting
  /\ ini' = options
  /\ Unloaded
  /\ UNCHANGED <<db, others>>

Crash ==
  /\ phase # "off"
  /\ Unloaded
  /\ UNCHANGED <<db, others, ini>>

(* Another Notepad++ copies its template, or the user brings a database or  *)
(* removes one; not the one that is open.                                   *)
OthersChange(place, what) ==
  /\ changes > 0 /\ changes' = changes - 1
  /\ \/ db[place] = "none" /\ what # "none" /\ UNCHANGED lost
     \/ /\ db[place] # "none" /\ what = "none" /\ ~(broken /\ place = filename)
        /\ lost' = TRUE
  /\ db' = [db EXCEPT ![place] = what]
  /\ UNCHANGED <<templates, ini, options, phase, session>>

Next ==
  \/ Load \/ ReadOptions \/ Ready \/ LangChanged \/ Unload \/ Crash
  \/ SnippetsConsole \/ CopyTemplate \/ OnClose
  \/ \E dbFile \in BOOLEAN : OptionsDlg_OK(dbFile)
  \/ \E place \in Places, what \in {"none", "user", "template"} : OthersChange(place, what)

Spec == Init /\ [][Next]_vars

-----------------------------------------------------------------------------
TypeOK ==
  /\ db \in [Places -> {"none", "user", "template", "empty"}]
  /\ templates \subseteq {"home", "shipped"}
  /\ {ini, options} \subseteq Options
  /\ phase \in {"off", "loaded", "options", "ready"}
  /\ console \in [visible : BOOLEAN, initialized : BOOLEAN, hasHome : BOOLEAN, shown : BOOLEAN]
  /\ filename \in Places \cup {""}
  /\ broken \in BOOLEAN /\ lost \in BOOLEAN
  /\ copying \in {"none", "home", "shipped"}
  /\ told \subseteq {"missed", "closed", "thrown"}
  /\ changes \in 0..MaxChanges

(* No database of the user is ever replaced by a template or an empty file, *)
(* not even one that comes between the search and the copy (CopyFile with   *)
(* bFailIfExists in GetDatabaseFile).                                       *)
DatabaseIsNeverReplaced ==
  [][\A place \in Places : db[place] = "user" => db'[place] \in {"user", "none"}]_vars

(* As long as nobody takes a database away, opening it throws only after the*)
(* user was told that there is none: no notification of Notepad++ and no    *)
(* start after a crash finds the file name unset or the file empty          *)
(* (SqliteDatabase::Open: "@pre The filename is already set").              *)
ThrowsForAReason == "thrown" \in told => "missed" \in told \/ lost

(* Until another process takes a database away, every file there is has its *)
(* tables and the one in use is there.                                      *)
FilesHold ==
  /\ ~lost => ~broken /\ \A place \in Places : db[place] # "empty"
  /\ ~lost /\ filename # "" => db[filename] # "none"
  /\ copying # "none" => filename = ""

(* What the flags of the console say of each other and of the option.       *)
FlagsHold ==
  /\ phase # "ready" => console = NoConsole /\ filename = "" /\ copying = "none"
  /\ console.initialized <=> filename # ""
  /\ console.visible /\ filename = "" => "missed" \in told \/ copying # "none"
  /\ phase = "ready" /\ copying = "none" => options.show = console.shown \/ told # {}

IInv == TypeOK /\ FilesHold /\ FlagsHold /\ ThrowsForAReason

(* The panel comes back at the next start as the user left it, unless it was*)
(* closed with its x, which the documentation calls a known issue, or it    *)
(* could not be shown (options.rst: "When Show is set to 0 the tree will    *)
(* not be shown").                                                          *)
ShowIsRemembered ==
  [][Unload => ini'.show = console.shown \/ told # {}]_vars

(* The file a session has found is its file to the end: neither the options *)
(* dialog nor a database that comes later makes the console change files.   *)
StaysOnItsFile ==
  [][filename # "" /\ phase' # "off" => filename' = filename]_vars

(* The user is told that there is no database only if no place where it is  *)
(* looked for has one and either the installation has no template or copying*)
(* it failed (changelog.rst: "when the plug-in tries to find an existing    *)
(* database and it can't find it, it copies this template database").       *)
FoundIfThere ==
  [][ "missed" \in told' \ told /\ copying = "none" =>
        (\A place \in Places : ~IsThere(place)) /\ "shipped" \notin templates ]_vars
=============================================================================
