------------------------------ MODULE Console ------------------------------
(***************************************************************************)
(* The snippets console (DlgConsole.cpp): a combobox of libraries, a       *)
(* filter and a list of snippets, over the database.                       *)
(*                                                                         *)
(* All code runs on Notepad++'s window thread.  A handler runs to its end  *)
(* unless it waits for the user in a modal dialog or message box, or sends *)
(* Notepad++ a message that comes back as a notification; frame is that    *)
(* suspended handler.  Handlers that write twice are two steps, so that    *)
(* the process may end in between.  Objects of the combobox and the list   *)
(* are copies of rows: the model keeps their contents, and in frame.live   *)
(* whether the object the suspended handler points to still exists.        *)
(*                                                                         *)
(* SQLite may refuse a write (a full disk, a lock, a foreign key).  The    *)
(* dialogs catch that and close as if it were stored; nobody catches it in *)
(* the other handlers, which are abandoned where they are.  Each handler   *)
(* has an action ..._Refused for it.                                       *)
(***************************************************************************)
EXTENDS SnippetTables, SequencesExt

CONSTANTS
  Templates,   \* databases the program may start with
  Filters,     \* filters the user types: each the set of names it lets through
  Sortings,    \* what the user sets "sort alphabetic" of a library to
  DupName,     \* the name of the duplicate of a snippet: " - Dup" appended
  Reentrant,   \* may a notification, or a click on the x of the console,
               \* arrive while a dialog waits for the user?
  CanCrash,    \* may the process end at any step?
  Refusable,   \* the handlers whose writes SQLite may refuse for any reason
  HasLangMsgs  \* g_HasLangMsgs: Notepad++ 5.93 or later

L_TEXT == 0    \* g_currentLang until the first notification

(* Commands that wait for the user, and handlers that go on by themselves. *)
Modal == {"SnippetAdd", "SnippetEdit", "SnippetDelete", "SnippetDuplicate",
          "LibraryNew", "LibraryEdit", "LibraryDelete", "LibraryLanguages"}
Internal == {"SnippetInsert", "SelChange", "LibraryNewLang"}

(* The handlers that write. *)
Writers == Modal \cup {"SnippetMove", "SelChange", "LibraryNewLang"}

(* A library for one of the general languages has no other language.        *)
GeneralAlone(d) ==
  \A x, y \in d.LibraryLang :
    x.LibraryID = y.LibraryID /\ x.Lang \in {NoOtherLib, AllLanguages} => x = y

(* A library without a language is in no combobox. *)
HasLanguages(d) ==
  \A l \in d.Library : \E x \in d.LibraryLang : x.LibraryID = l.LibraryID

ASSUME ConsoleAssumption ==
  /\ L_TEXT \in Langs
  /\ \A d \in Templates : Consistent(d)
  /\ Filters \subseteq SUBSET SnipNames
  /\ Sortings \subseteq BOOLEAN
  /\ DupName \in [SnipNames -> SnipNames]
  /\ Reentrant \in BOOLEAN
  /\ CanCrash \in BOOLEAN
  /\ Refusable \subseteq Writers
  /\ HasLangMsgs \in BOOLEAN

(* What DlgEditLanguages lets anyone save holds of the databases to start   *)
(* with too (misc/NppSnippets.sql: one library, with Lang -1 only).         *)
ASSUME TemplatesAssumption == \A d \in Templates : GeneralAlone(d)

VARIABLES
  db,       \* the database file
  lang,     \* g_currentLang
  visible,  \* s_bConsoleVisible
  shown,    \* is the console on the screen?
  combo,    \* Library objects of the combobox IDC_NAME
  cur,      \* position of s_curLibrary in the combobox, 0 for NULL
  curLang,  \* s_curLang
  filter,   \* names the text of IDC_FILTER lets through
  list,     \* Snippet objects of the listbox IDC_LIST
  frame,    \* the suspended handler
  fault     \* undefined behaviour met: "none", "null" or "dangling"

(* No state of the program, but of its history: was a write refused that    *)
(* left an object of the widgets, or the selected library, ahead of the     *)
(* database since the widgets were filled?                                  *)
VARIABLE unsaved

widgets == <<lang, visible, shown, combo, cur, curLang, filter, list, unsaved>>
vars == <<db, lang, visible, shown, combo, cur, curLang, filter, list, frame, fault,
          unsaved>>

NoFilter == SnipNames

NoFrame == [cmd |-> "none", item |-> 0, target |-> 0, sort |-> 0, live |-> TRUE]

Frame == [cmd : {"none"} \cup Modal \cup Internal,
          item : Nat,                  \* LB_GETCURSEL when the command was given
          target : {0} \cup LibraryIDs \cup SnippetIDs,
                                       \* id of what the dialog is about
          sort : 0..MaxSort,           \* SetSort of the snippet being added
          live : BOOLEAN]              \* is the object pointed to still there?

Suspend(command, item, target, sort) ==
  frame' = [cmd |-> command, item |-> item, target |-> target, sort |-> sort,
            live |-> TRUE]

Idle == frame = NoFrame /\ fault = "none"
Waiting(command) == frame.cmd = command /\ fault = "none"

(* A dereference that fails ends what the model says of the process. *)
Fault(kind) ==
  /\ fault' = kind
  /\ UNCHANGED <<db, widgets>>

-----------------------------------------------------------------------------
(* Filling the widgets. *)

AddComboItems_DocumentLang(d, l) ==
  LET language == IF LibrariesFor(d, l) # {} THEN l ELSE NoOtherLib
  IN  /\ curLang' = language
      /\ \E rows \in LibraryRows(d, language) :
           /\ combo' = [i \in DOMAIN rows |-> rows[i].lib]
           /\ cur' = Choice(rows, LastUsed(d, l))

AddComboItems(d, l) ==
  LET language == IF LibrariesFor(d, l) # {} THEN l ELSE NoOtherLib
  IN  /\ curLang' = language
      /\ \E rows \in LibraryRows(d, language) :
           /\ combo' = [i \in DOMAIN rows |-> rows[i].lib]
           /\ cur' = Choice(rows, LastUsed(d, language))

AddListItems(d) ==
  list' \in IF cur' = 0 THEN {<<>>} ELSE SnippetRows(d, combo'[cur'], filter')

(* Every object is freed and read again; the filter is emptied on the way. *)
UpdateSnippetsList(d, l) ==
  /\ AddComboItems(d, l)
  /\ filter' = NoFilter
  /\ AddListItems(d)
  /\ unsaved' = FALSE

(* Handlers that keep a pointer to an object of the widgets while they are  *)
(* suspended.  The others own their object: OnSnippetInsert copies it.      *)
HoldsPointer == {"SnippetEdit", "SnippetDelete", "SnippetDuplicate",
                 "LibraryEdit", "LibraryLanguages"}

(* The objects of the widgets are freed under the suspended handler.        *)
ObjectsFreed ==
  frame' = [frame EXCEPT !.live =
              frame.live /\ ~(frame.cmd \in HoldsPointer /\ frame.target # 0)]

-----------------------------------------------------------------------------
(* Notepad++ and the process. *)

(* NPPN_LANGCHANGED, NPPN_BUFFERACTIVATED.  Starting a document for a       *)
(* snippet sends them from within OnSnippetInsert.                          *)
BeNotified(l) ==
  /\ fault = "none"
  /\ \/ frame.cmd \in {"none", "SnippetInsert"}
     \/ Reentrant /\ frame.cmd \in Modal
  /\ l # lang
  /\ lang' = l
  /\ IF visible
       THEN UpdateSnippetsList(db, l) /\ ObjectsFreed
       ELSE UNCHANGED <<combo, cur, curLang, filter, list, unsaved, frame>>
  /\ UNCHANGED <<db, visible, shown, fault>>

(* SnippetsConsole: the menu entry toggles the console. *)
ShowConsole ==
  /\ Idle /\ ~visible
  /\ visible' = TRUE /\ shown' = TRUE
  /\ UpdateSnippetsList(db, lang)
  /\ UNCHANGED <<db, lang, frame, fault>>

HideConsole ==
  /\ Idle /\ visible
  /\ visible' = FALSE /\ shown' = FALSE
  /\ UNCHANGED <<db, lang, combo, cur, curLang, filter, list, frame, fault, unsaved>>

(* WM_CLOSE, the x of the console: s_bConsoleVisible and s_curLang stay, so *)
(* that a notification still fills the widgets of the closed window.        *)
OnClose ==
  /\ shown /\ fault = "none"
  /\ frame.cmd = "none" \/ (Reentrant /\ frame.cmd \in Modal)
  /\ shown' = FALSE
  /\ combo' = <<>> /\ cur' = 0 /\ filter' = NoFilter /\ list' = <<>>
  /\ ObjectsFreed
  /\ UNCHANGED <<db, lang, visible, curLang, fault, unsaved>>

(* The process ends, at any step or by a NULL dereference, and is started   *)
(* again.  Every completed statement or transaction is on disk.             *)
Restart ==
  /\ fault = "null" \/ (CanCrash /\ fault = "none")
  /\ lang' = L_TEXT /\ visible' = FALSE /\ shown' = FALSE
  /\ combo' = <<>> /\ cur' = 0 /\ curLang' = NoOtherLib
  /\ filter' = NoFilter /\ list' = <<>>
  /\ frame' = NoFrame /\ fault' = "none" /\ unsaved' = FALSE
  /\ UNCHANGED db

(* After a use of a freed object nothing is promised or modelled. *)
Undefined == fault = "dangling" /\ UNCHANGED vars

-----------------------------------------------------------------------------
(* The filter and the combobox. *)

Ready == Idle /\ shown

(* A write for a library without a row breaks the foreign key. *)
HasRow(id) == id \in LibraryIDsOf(db)
MayRefuse(handler, id) == handler \in Refusable \/ ~HasRow(id)

(* Nobody catches the failure of the write: the handler ends where it is.   *)
Abandoned == frame' = NoFrame /\ UNCHANGED <<db, widgets, fault>>

OnChange_Filter(names) ==
  /\ Ready
  /\ names # filter
  /\ filter' = names
  /\ UNCHANGED <<db, lang, visible, shown, combo, cur, curLang, frame, fault, unsaved>>
  /\ AddListItems(db)

(* CBN_SELCHANGE: emptying the filter already reloads the list for the new  *)
(* library; the DELETE of the old choice commits before the INSERT.  A      *)
(* library not stored has the id the next one gets: two objects may share   *)
(* an id, and going from one to the other changes s_curLibrary only.        *)
SameLibrary(i) == cur # 0 /\ combo[i].LibraryID = combo[cur].LibraryID

OnSelChange_Combo(i) ==
  /\ Ready /\ ~SameLibrary(i)
  /\ IF cur = 0
       THEN Suspend("SelChange", 0, 0, 0) /\ Fault("null")
       ELSE /\ cur' = i
            /\ filter' = NoFilter
            /\ db' = ForgetLastUsed(db, curLang)
            /\ Suspend("SelChange", 0, combo[i].LibraryID, 0)
            /\ UNCHANGED <<lang, visible, shown, combo, curLang, fault, unsaved>>
            /\ AddListItems(db)

OnSelChange_Combo_SameLibrary(i) ==
  /\ Ready /\ SameLibrary(i) /\ i # cur
  /\ cur' = i
  /\ UNCHANGED <<db, lang, visible, shown, combo, curLang, filter, list, frame, fault,
                 unsaved>>

(* The DELETE is refused: s_curLibrary and the list have changed already.   *)
OnSelChange_Combo_Refused(i) ==
  /\ Ready /\ cur # 0 /\ ~SameLibrary(i)
  /\ "SelChange" \in Refusable
  /\ cur' = i
  /\ filter' = NoFilter
  /\ unsaved' = TRUE
  /\ UNCHANGED <<db, lang, visible, shown, combo, curLang, frame, fault>>
  /\ AddListItems(db)

OnSelChange_Store ==
  /\ Waiting("SelChange")
  /\ HasRow(frame.target)
  /\ db' = InsertLastUsed(db, curLang, frame.target)
  /\ frame' = NoFrame
  /\ UNCHANGED <<lang, visible, shown, combo, cur, curLang, filter, fault, unsaved>>
  /\ AddListItems(db')

OnSelChange_Store_Refused ==
  /\ Waiting("SelChange")
  /\ MayRefuse("SelChange", frame.target)
  /\ Abandoned

-----------------------------------------------------------------------------
(* The snippet menu. *)

(* ShowContextMenu asks s_curLibrary how it is sorted. *)
OnContextMenu ==
  /\ Ready /\ cur = 0
  /\ Fault("null")
  /\ UNCHANGED frame

SnippetMenu == Ready /\ cur # 0

(* A modal dialog is cancelled, or a question answered with "No". *)
OnCancel ==
  /\ fault = "none" /\ frame.cmd \in Modal
  /\ frame' = NoFrame
  /\ UNCHANGED <<db, widgets, fault>>

(* The handler is done: the dialog closed and the console was refreshed. *)
DoneAndRefresh(d) ==
  /\ db' = d
  /\ frame' = NoFrame
  /\ UpdateSnippetsList(d, lang)
  /\ UNCHANGED <<lang, visible, shown, fault>>

(* Double click, Enter or the menu: the handler works on a copy, and        *)
(* starting a new document may bring notifications.                         *)
OnSnippetInsert(item) ==
  /\ Ready
  /\ Suspend("SnippetInsert", item, list[item].SnippetID, 0)
  /\ UNCHANGED <<db, widgets, fault>>

OnSnippetInsert_Done ==
  /\ Waiting("SnippetInsert")
  /\ frame' = NoFrame
  /\ UNCHANGED <<db, widgets, fault>>

GetMaxSort_Count == Len(list)

GetMaxSort == Max({0} \cup {list[i].Sort : i \in DOMAIN list})

(* From the menu, from the clipboard and from the selection alike: the new  *)
(* object gets its library and its sort number before the dialog opens.     *)
OnSnippetAdd ==
  /\ SnippetMenu
  /\ GetMaxSort < MaxSort
  /\ Suspend("SnippetAdd", 0, combo[cur].LibraryID, GetMaxSort + 1)
  /\ UNCHANGED <<db, widgets, fault>>

OnSnippetAdd_OK(name) ==
  LET id == NextID(SnippetIDsOf(db))
  IN  /\ Waiting("SnippetAdd")
      /\ HasRow(frame.target)
      /\ id <= MaxSnippetID
      /\ DoneAndRefresh(InsertSnippet(db,
           [SnippetID |-> id, LibraryID |-> frame.target, Name |-> name,
            Sort |-> frame.sort]))

(* The dialog tells the user and closes with OK all the same. *)
OnSnippetAdd_Refused ==
  /\ Waiting("SnippetAdd")
  /\ MayRefuse("SnippetAdd", frame.target)
  /\ DoneAndRefresh(db)

(* Edit, Delete and Duplicate point to the object of the selected item. *)
PointAt(command, item) ==
  /\ SnippetMenu
  /\ Suspend(command, item, list[item].SnippetID, 0)
  /\ UNCHANGED <<db, widgets, fault>>

OnSnippetEdit(item) == PointAt("SnippetEdit", item)
OnSnippetDelete(item) == PointAt("SnippetDelete", item)
OnSnippetDuplicate(item) == PointAt("SnippetDuplicate", item)

Dangling == frame.cmd \in Modal /\ ~frame.live /\ Fault("dangling") /\ UNCHANGED frame

(* The object is saved whole, its cached Sort included, and the changed     *)
(* name is put back at the same place of the list.                          *)
OnSnippetEdit_OK(name) ==
  /\ Waiting("SnippetEdit")
  /\ \/ Dangling
     \/ LET snip == [list[frame.item] EXCEPT !.Name = name]
        IN  /\ frame.live
            /\ db' = UpdateSnippet(db, snip)
            /\ list' = [list EXCEPT ![frame.item] = snip]
            /\ frame' = NoFrame
            /\ UNCHANGED <<lang, visible, shown, combo, cur, curLang, filter, fault, unsaved>>

(* The dialog tells the user and closes with OK all the same: the object    *)
(* and the list keep what was entered.                                      *)
OnSnippetEdit_Refused(name) ==
  /\ Waiting("SnippetEdit") /\ frame.live
  /\ "SnippetEdit" \in Refusable
  /\ list' = [list EXCEPT ![frame.item].Name = name]
  /\ unsaved' = TRUE
  /\ frame' = NoFrame
  /\ UNCHANGED <<db, lang, visible, shown, combo, cur, curLang, filter, fault>>

OnSnippetDelete_Yes_DatabaseOnly ==
  /\ Waiting("SnippetDelete")
  /\ \/ Dangling
     \/ /\ frame.live
        /\ db' = DeleteSnippet(db, list[frame.item].SnippetID)
        /\ frame' = NoFrame
        /\ UNCHANGED <<widgets, fault>>

OnSnippetDelete_Yes ==
  /\ Waiting("SnippetDelete")
  /\ \/ Dangling
     \/ /\ frame.live
        /\ db' = DeleteSnippet(db, list[frame.item].SnippetID)
        /\ list' = RemoveAt(list, frame.item)
        /\ frame' = NoFrame
        /\ UNCHANGED <<lang, visible, shown, combo, cur, curLang, filter, fault, unsaved>>

OnSnippetDelete_Refused ==
  /\ Waiting("SnippetDelete") /\ frame.live
  /\ "SnippetDelete" \in Refusable
  /\ Abandoned

OnSnippetDuplicate_Yes_CopyID ==
  /\ Waiting("SnippetDuplicate")
  /\ \/ Dangling
     \/ LET snip == list[frame.item]
        IN  /\ frame.live
            /\ DoneAndRefresh(UpdateSnippet(db, [snip EXCEPT !.Name = DupName[snip.Name]]))

(* The copy constructor copies everything but the id, the Sort included. *)
OnSnippetDuplicate_Yes ==
  /\ Waiting("SnippetDuplicate")
  /\ \/ Dangling
     \/ LET snip == list[frame.item]
            id == NextID(SnippetIDsOf(db))
        IN  /\ frame.live
            /\ HasRow(snip.LibraryID)
            /\ id <= MaxSnippetID
            /\ DoneAndRefresh(InsertSnippet(db,
                 [snip EXCEPT !.SnippetID = id, !.Name = DupName[snip.Name]]))

OnSnippetDuplicate_Refused ==
  /\ Waiting("SnippetDuplicate") /\ frame.live
  /\ MayRefuse("SnippetDuplicate", list[frame.item].LibraryID)
  /\ Abandoned

-----------------------------------------------------------------------------
(* Moving a snippet. *)

(* UpdateSortInDB: the objects of the list are numbered from 1, and their   *)
(* rows with them, in one transaction.                                      *)
Renumbered(objects) == [i \in DOMAIN objects |-> [objects[i] EXCEPT !.Sort = i]]

MovedTo_Exchange(item, to) ==
  [list EXCEPT ![item] = list[1], ![1] = list[item]]

MovedTo(item, to) == InsertAt(RemoveAt(list, item), to, list[item])

MoveTo_OldOrder(item, to) ==
  /\ SnippetMenu /\ ~combo[cur].Alphabetic
  /\ to \in DOMAIN list /\ Len(list) <= MaxSort
  /\ list' = MovedTo(item, to)
  /\ db' = UpdateSorts(db, Renumbered(list))
  /\ UNCHANGED <<lang, visible, shown, combo, cur, curLang, filter, frame, fault, unsaved>>

MoveTo(item, to) ==
  /\ SnippetMenu /\ ~combo[cur].Alphabetic
  /\ to \in DOMAIN list /\ Len(list) <= MaxSort
  /\ UNCHANGED <<lang, visible, shown, combo, cur, curLang, filter, frame, fault, unsaved>>
  /\ list' = Renumbered(MovedTo(item, to))
  /\ db' = UpdateSorts(db, list')

(* The k-th object has its new Sort when its UPDATE is refused: the rows    *)
(* are rolled back, the list stays as moved.                                *)
MoveTo_Refused(item, to) ==
  /\ SnippetMenu /\ ~combo[cur].Alphabetic
  /\ to \in DOMAIN list /\ Len(list) <= MaxSort
  /\ "SnippetMove" \in Refusable
  /\ LET moved == MovedTo(item, to)
     IN  \E k \in DOMAIN moved :
           list' = [i \in DOMAIN moved |->
                      IF i <= k THEN [moved[i] EXCEPT !.Sort = i] ELSE moved[i]]
  /\ unsaved' = TRUE
  /\ UNCHANGED <<db, lang, visible, shown, combo, cur, curLang, filter, frame, fault>>

OnSnippetMoveUp(item) == MoveTo(item, item - 1)
OnSnippetMoveDown(item) == MoveTo(item, item + 1)

-----------------------------------------------------------------------------
(* The library menu. *)

OnLibraryNew ==
  /\ Ready
  /\ Suspend("LibraryNew", 0, 0, 0)
  /\ UNCHANGED <<db, widgets, fault>>

(* The dialog inserts the library; its language follows when it has closed. *)
NewObject(name, alphabetic) ==
  [LibraryID |-> NextID(LibraryIDsOf(db)), Name |-> name, Alphabetic |-> alphabetic]

OnLibraryNew_OK(name, alphabetic) ==
  LET lib == NewObject(name, alphabetic)
  IN  /\ Waiting("LibraryNew")
      /\ lib.LibraryID <= MaxLibraryID
      /\ db' = InsertLibrary(db, lib)
      /\ combo' = Append(combo, lib)
      /\ Suspend("LibraryNewLang", 0, lib.LibraryID, 0)
      /\ UNCHANGED <<lang, visible, shown, cur, curLang, filter, list, fault, unsaved>>

(* The dialog tells the user and closes with OK all the same: the combobox  *)
(* gets a library without a row.  (Bound: only while it has fewer objects    *)
(* than there are ids.)                                                     *)
OnLibraryNew_Refused(name, alphabetic) ==
  LET lib == NewObject(name, alphabetic)
  IN  /\ Waiting("LibraryNew")
      /\ "LibraryNew" \in Refusable
      /\ Len(combo) < MaxLibraryID
      /\ lib.LibraryID <= MaxLibraryID
      /\ combo' = Append(combo, lib)
      /\ unsaved' = TRUE
      /\ Suspend("LibraryNewLang", 0, lib.LibraryID, 0)
      /\ UNCHANGED <<db, lang, visible, shown, cur, curLang, filter, list, fault>>

OnLibraryNew_AddLanguage_DocumentLang ==
  /\ Waiting("LibraryNewLang")
  /\ db' = AddLanguage(db, frame.target, lang)
  /\ frame' = NoFrame
  /\ UNCHANGED <<widgets, fault>>

OnLibraryNew_AddLanguage ==
  /\ Waiting("LibraryNewLang")
  /\ HasRow(frame.target)
  /\ db' = AddLanguage(db, frame.target, curLang)
  /\ frame' = NoFrame
  /\ UNCHANGED <<widgets, fault>>

(* The library stays in the combobox until the next refresh, without a      *)
(* language, or without a row.                                              *)
OnLibraryNew_AddLanguage_Refused ==
  /\ Waiting("LibraryNewLang")
  /\ MayRefuse("LibraryNewLang", frame.target)
  /\ frame' = NoFrame
  /\ unsaved' = TRUE
  /\ UNCHANGED <<db, lang, visible, shown, combo, cur, curLang, filter, list, fault>>

CurrentID == IF cur = 0 THEN 0 ELSE combo[cur].LibraryID

(* The edit dialogs are opened on s_curLibrary, even when it is NULL. *)
OnLibraryEdit ==
  /\ Ready
  /\ Suspend("LibraryEdit", 0, CurrentID, 0)
  /\ UNCHANGED <<db, widgets, fault>>

OnLibraryEdit_OK(name, alphabetic) ==
  /\ Waiting("LibraryEdit")
  /\ \/ Dangling
     \/ frame.target = 0 /\ Fault("null") /\ UNCHANGED frame
     \/ /\ frame.live /\ frame.target # 0
        /\ DoneAndRefresh(UpdateLibrary(db,
             [combo[cur] EXCEPT !.Name = name, !.Alphabetic = alphabetic]))

(* The dialog tells the user and closes with OK all the same. *)
OnLibraryEdit_Refused ==
  /\ Waiting("LibraryEdit") /\ frame.live /\ frame.target # 0
  /\ "LibraryEdit" \in Refusable
  /\ DoneAndRefresh(db)

OnLibraryLanguages ==
  /\ Ready /\ HasLangMsgs
  /\ Suspend("LibraryLanguages", 0, CurrentID, 0)
  /\ UNCHANGED <<db, widgets, fault>>

Validate_NotEmpty(langs) == langs # {}
Validate_GeneralAlone(langs) ==
  langs \cap {NoOtherLib, AllLanguages} # {} => Cardinality(langs) = 1

(* At least one language, and a general one only by itself. *)
Validate(langs) ==
  /\ langs # {}
  /\ langs \cap {NoOtherLib, AllLanguages} # {} => Cardinality(langs) = 1

(* On NULL the dialog is empty, so that Validate keeps it from closing. *)
OnLibraryLanguages_OK(langs) ==
  /\ Waiting("LibraryLanguages")
  /\ frame.target # 0
  /\ Validate(langs)
  /\ \/ Dangling
     \/ /\ frame.live
        /\ HasRow(combo[cur].LibraryID)
        /\ DoneAndRefresh(SaveLanguages(db, combo[cur].LibraryID, langs))

(* The rows are rolled back, and the dialog closes with OK all the same. *)
OnLibraryLanguages_Refused ==
  /\ Waiting("LibraryLanguages") /\ frame.live /\ frame.target # 0
  /\ MayRefuse("LibraryLanguages", combo[cur].LibraryID)
  /\ DoneAndRefresh(db)

OnLibraryDelete ==
  /\ Ready
  /\ Suspend("LibraryDelete", 0, CurrentID, 0)
  /\ IF cur = 0 THEN Fault("null") ELSE UNCHANGED <<db, widgets, fault>>

OnLibraryDelete_Yes_NoRefresh ==
  /\ Waiting("LibraryDelete")
  /\ IF cur = 0
       THEN Fault("null") /\ UNCHANGED frame
       ELSE /\ db' = DeleteLibrary(db, combo[cur].LibraryID)
            /\ frame' = NoFrame
            /\ UNCHANGED <<widgets, fault>>

(* The answer applies to s_curLibrary as it is now. *)
OnLibraryDelete_Yes ==
  /\ Waiting("LibraryDelete")
  /\ IF cur = 0
       THEN Fault("null") /\ UNCHANGED frame
       ELSE DoneAndRefresh(DeleteLibrary(db, combo[cur].LibraryID))

OnLibraryDelete_Refused ==
  /\ Waiting("LibraryDelete") /\ cur # 0
  /\ "LibraryDelete" \in Refusable
  /\ Abandoned

-----------------------------------------------------------------------------
Init ==
  /\ db \in Templates
  /\ lang = L_TEXT /\ visible = FALSE /\ shown = FALSE
  /\ combo = <<>> /\ cur = 0 /\ curLang = NoOtherLib
  /\ filter = NoFilter /\ list = <<>>
  /\ frame = NoFrame /\ fault = "none" /\ unsaved = FALSE

Notepad ==
  \/ \E l \in Langs : BeNotified(l)
  \/ ShowConsole \/ HideConsole \/ OnClose \/ Restart \/ Undefined

Widgets ==
  \/ \E names \in Filters : OnChange_Filter(names)
  \/ \E i \in DOMAIN combo :
       \/ OnSelChange_Combo(i) \/ OnSelChange_Combo_Refused(i)
       \/ OnSelChange_Combo_SameLibrary(i)
  \/ OnSelChange_Store \/ OnSelChange_Store_Refused
  \/ OnContextMenu
  \/ OnCancel

SnippetCommands ==
  \/ \E item \in DOMAIN list :
       \/ OnSnippetInsert(item)
       \/ OnSnippetEdit(item) \/ OnSnippetDelete(item) \/ OnSnippetDuplicate(item)
       \/ OnSnippetMoveUp(item) \/ MoveTo_Refused(item, item - 1)
       \/ OnSnippetMoveDown(item) \/ MoveTo_Refused(item, item + 1)
  \/ OnSnippetInsert_Done
  \/ OnSnippetAdd \/ OnSnippetAdd_Refused
  \/ \E name \in SnipNames :
       OnSnippetAdd_OK(name) \/ OnSnippetEdit_OK(name) \/ OnSnippetEdit_Refused(name)
  \/ OnSnippetDelete_Yes \/ OnSnippetDelete_Refused
  \/ OnSnippetDuplicate_Yes \/ OnSnippetDuplicate_Refused

LibraryCommands ==
  \/ OnLibraryNew \/ OnLibraryEdit \/ OnLibraryLanguages \/ OnLibraryDelete
  \/ \E name \in LibNames, alphabetic \in Sortings :
       \/ OnLibraryNew_OK(name, alphabetic) \/ OnLibraryNew_Refused(name, alphabetic)
       \/ OnLibraryEdit_OK(name, alphabetic)
  \/ OnLibraryNew_AddLanguage \/ OnLibraryNew_AddLanguage_Refused
  \/ OnLibraryEdit_Refused
  \/ \E langs \in SUBSET LangIDs : OnLibraryLanguages_OK(langs)
  \/ OnLibraryLanguages_Refused
  \/ OnLibraryDelete_Yes \/ OnLibraryDelete_Refused

Next == Notepad \/ Widgets \/ SnippetCommands \/ LibraryCommands

Spec == Init /\ [][Next]_vars

-----------------------------------------------------------------------------
(* Types.  (An Alphabetic column of a row is the SortBy column.)            *)
TypeOK ==
  /\ db \in Database
  /\ lang \in Langs
  /\ visible \in BOOLEAN
  /\ shown \in BOOLEAN
  /\ combo \in Seq(LibraryRow)
  /\ cur \in 0..Len(combo)
  /\ curLang \in Langs \cup {NoOtherLib}
  /\ filter \in SUBSET SnipNames
  /\ list \in Seq(SnippetRow)
  /\ frame \in Frame
  /\ fault \in {"none", "null", "dangling"}
  /\ unsaved \in BOOLEAN

(* Ids are handed out by MAX + 1 and used again after a delete; still no    *)
(* two rows ever share one (Library::SaveToDB, Snippet::SaveToDB).          *)
IDsUnique == KeysUnique(db)

(* Whatever is deleted, while whatever is open, nothing in the database     *)
(* refers to a library that is gone, or to one that was never stored: an id *)
(* used again never inherits the languages, snippets or last-used choices   *)
(* of its previous owner.                                                   *)
RefIntegrity == ReferencesHold(db)

(* What a suspended handler goes on with is as it was when it was suspended.*)
FrameHolds ==
  /\ frame.cmd \in {"SnippetEdit", "SnippetDelete", "SnippetDuplicate"} /\ frame.live =>
       frame.item \in DOMAIN list /\ frame.target \in SnippetIDs
  /\ frame.cmd \in {"LibraryEdit", "LibraryLanguages"} /\ frame.live /\ frame.target # 0 =>
       cur # 0
  /\ frame.cmd \in {"SnippetAdd", "SelChange", "LibraryNewLang"} /\ fault = "none" =>
       frame.target \in LibraryIDs
  /\ frame.cmd = "SelChange" /\ fault = "none" =>
       \A u \in db.LangLastUsed : u.Lang # curLang

(* Unique ids and references depend on each other and on the suspended      *)
(* handler; together they are inductive.                                    *)
IInv == TypeOK /\ IDsUnique /\ RefIntegrity /\ FrameHolds

(* No handler is halfway through its writes, and the console is on screen.  *)
Settled == shown /\ fault = "none" /\ frame.cmd \notin {"SelChange", "LibraryNewLang"}

(* A general language excludes all others (DlgEditLanguages, Validate), so  *)
(* that no library is twice in the combobox, once per matching language.    *)
(* (A library whose INSERT was refused stays in it with the id the next new *)
(* library gets, until the next refresh.)                                   *)
ListedOnce == Settled /\ ~unsaved => \A i, j \in DOMAIN combo :
                combo[i].LibraryID = combo[j].LibraryID => i = j

(* The combobox is for the document's language, or for none when no library *)
(* is for it.  Every library there is for it can be selected, whatever      *)
(* write was refused; and unless one was since the last refresh, nothing    *)
(* else can, and what a handler saves through the objects overwrites        *)
(* nothing newer.                                                           *)
ComboFresh == Settled =>
  LET libraries == {r.lib : r \in LibrariesFor(db, curLang)}
      objects   == {combo[i] : i \in DOMAIN combo}
  IN  /\ curLang = IF LibrariesFor(db, lang) # {} THEN lang ELSE NoOtherLib
      /\ libraries \subseteq objects
      /\ ~unsaved => objects \subseteq libraries

(* The list by identity: each of its objects is of a stored snippet of the  *)
(* current library, no two of the same one, and none that the filter lets   *)
(* through is missing.                                                      *)
ListShows ==
  /\ cur = 0 => list = <<>>
  /\ \A i \in DOMAIN list :
       /\ list[i].LibraryID = combo[cur].LibraryID
       /\ \E s \in db.Snippets : /\ s.SnippetID = list[i].SnippetID
                                /\ s.LibraryID = list[i].LibraryID
  /\ \A i, j \in DOMAIN list : list[i].SnippetID = list[j].SnippetID => i = j
  /\ cur # 0 => \A s \in SnippetsLike(db, combo[cur], filter) :
                  \E i \in DOMAIN list : list[i].SnippetID = s.SnippetID

(* Its objects are what is stored, in the order they are stored in.         *)
ListCopies ==
  /\ \A i \in DOMAIN list : list[i] \in db.Snippets
  /\ cur # 0 /\ ~combo[cur].Alphabetic =>
       \A i, j \in DOMAIN list : i < j => list[i].Sort <= list[j].Sort

(* The list shows the snippets of the current library, each once, and every *)
(* one the filter lets through, also after a save of a snippet or a move    *)
(* was refused.  Only the contents and the order of its objects may then    *)
(* differ from what is stored, until the next refresh; else they never do,  *)
(* the cached Sort that OnSnippetEdit and OnSnippetDuplicate save included. *)
ListFresh == Settled => ListShows /\ (~unsaved => ListCopies)

(* The library last used for a language is the one the console shows, as    *)
(* long as it is there to be shown, through every edit, delete, change of   *)
(* language and restart (changelog 0.4.0: "the last used library is         *)
(* remembered"), unless storing the choice was refused.                     *)
ChoiceHolds ==
  \A u \in db.LangLastUsed :
    (u.Lang = curLang /\ \E i \in DOMAIN combo : combo[i].LibraryID = u.LibraryID)
      => CurrentID = u.LibraryID

LastUsedIsShown == Settled /\ ~unsaved => ChoiceHolds

(* The widgets are what one refresh reads, at every step.  A library that   *)
(* is being created is in the combobox before it has a language.            *)
NewLibrary ==
  {l \in db.Library : frame.cmd = "LibraryNewLang" /\ l.LibraryID = frame.target}

ComboShows ==
  /\ curLang = IF LibrariesFor(db, lang) # {} THEN lang ELSE NoOtherLib
  /\ \A l \in NewLibrary \cup {r.lib : r \in LibrariesFor(db, curLang)} :
       \E i \in DOMAIN combo : combo[i] = l

ComboCopies ==
  \A i \in DOMAIN combo :
    combo[i] \in NewLibrary \/ \E r \in LibrariesFor(db, curLang) : combo[i] = r.lib

(* What the second half of a handler needs to leave them so.                *)
FrameKnows ==
  /\ shown => visible
  /\ frame.cmd # "none" => visible
  /\ frame.cmd = "SelChange" /\ fault = "none" => CurrentID = frame.target
  /\ frame.cmd = "LibraryNewLang" =>
       fault = "none" /\ \A x \in db.LibraryLang : x.LibraryID # frame.target
  /\ frame.cmd \in {"SnippetEdit", "SnippetDelete", "SnippetDuplicate"} /\ frame.live =>
       list[frame.item].SnippetID = frame.target

(* ListedOnce, ComboFresh, ListFresh and LastUsedIsShown leave out the steps*)
(* halfway through a handler; what holds there too is inductive.            *)
WidgetsFresh ==
  /\ ListShows
  /\ ~unsaved => ListCopies
  /\ shown /\ fault = "none" =>
       ComboShows /\ (~unsaved => ComboCopies /\ ChoiceHolds)

FreshInv == IInv /\ FrameKnows /\ WidgetsFresh

(* The rows are those of the list that the filter still lets through, in    *)
(* its order.                                                               *)
ReadsAs(rows, objects, d) ==
  LET ids == {objects[k].SnippetID : k \in DOMAIN objects}
  IN  /\ {rows[i] : i \in DOMAIN rows} =
         {s \in d.Snippets : s.SnippetID \in ids /\ s.Name \in filter}
      /\ \A i, j \in DOMAIN rows, k, l \in DOMAIN objects :
           ( /\ i < j
             /\ rows[i].SnippetID = objects[k].SnippetID
             /\ rows[j].SnippetID = objects[l].SnippetID)
           => k < l

(* After a move that was stored, reading the library back in gives the      *)
(* snippets in the order of the list, also when earlier saves or moves were *)
(* refused and the objects of the list are not what is stored: a move puts  *)
(* right what a refused one left.                                           *)
MoveSurvivesReload ==
  [][\A item \in DOMAIN list :
       OnSnippetMoveUp(item) \/ OnSnippetMoveDown(item) =>
         \A rows \in SnippetRows(db', combo[cur], filter) : ReadsAs(rows, list', db')]_vars

(* The others of the library: what a move ought to leave in their order.    *)
OthersKeepOrder(item) ==
  \A s, t \in db.Snippets :
    ( /\ s.LibraryID = t.LibraryID /\ s.Sort < t.Sort
      /\ list[item].SnippetID \notin {s.SnippetID, t.SnippetID})
    => \E s2, t2 \in db'.Snippets :
         /\ s2.SnippetID = s.SnippetID /\ t2.SnippetID = t.SnippetID
         /\ s2.Sort < t2.Sort

(* A move changes the place of one snippet among the others; no two others  *)
(* of the library change places (UpdateSortInDB).                           *)
MoveKeepsOthersInOrder ==
  [][\A item \in DOMAIN list :
       OnSnippetMoveUp(item) \/ OnSnippetMoveDown(item) => OthersKeepOrder(item)]_vars

(* The same without a filter, when the list holds the whole library in the  *)
(* order it is stored in.                                                   *)
UnfilteredMoveKeepsOrder ==
  [][\A item \in DOMAIN list :
       filter = NoFilter /\ ~unsaved /\ (OnSnippetMoveUp(item) \/ OnSnippetMoveDown(item)) =>
         OthersKeepOrder(item)]_vars

(* A new snippet comes after every snippet of its library: its sort number  *)
(* is higher than theirs (GetMaxSort: "the highest used sort number"), as   *)
(* long as no filter hides any, no refused move left other numbers in the   *)
(* list and nothing refreshes the list meanwhile.                           *)
NewSnippetSortsLast ==
  frame.cmd = "SnippetAdd" /\ filter = NoFilter /\ ~unsaved /\ ~Reentrant =>
    \A s \in db.Snippets : s.LibraryID = frame.target => s.Sort < frame.sort

(* The library deleted is the one the question named (OnLibraryDelete: "Are *)
(* you sure you want to delete the library").                               *)
NamedLibraryIsDeleted ==
  [][OnLibraryDelete_Yes =>
       LibraryIDsOf(db) \ LibraryIDsOf(db') \subseteq {frame.target}]_vars

(* Selecting a library of the combobox always works (docs/usage.rst: "A     *)
(* combobox where you can select the library").                             *)
LibraryCanBeSelected == ~(fault = "null" /\ frame.cmd = "SelChange")

(* Between handlers every library has a language, without which no combobox *)
(* ever shows it (docs/database.rst: "For every library at least one record *)
(* in the LibraryLang and Snippets tables is needed"), whatever saves are   *)
(* refused, as long as OnLibraryNew gets to add the language: the process   *)
(* neither ends before it nor is that second write refused.                 *)
LibraryIsReachable ==
  frame.cmd # "LibraryNewLang" => HasLanguages(db)

-----------------------------------------------------------------------------
(* The console implements the collection its user knows.                    *)
Contract == INSTANCE Collection WITH
  libraries <- LibraryIDsOf(db),
  snippets  <- {[SnippetID |-> s.SnippetID, LibraryID |-> s.LibraryID,
                 Name |-> s.Name] : s \in db.Snippets},
  request   <- IF frame.cmd \in Modal
                 THEN [command |-> frame.cmd, target |-> frame.target]
                 ELSE [command |-> "none", target |-> 0],
  Commands  <- Modal,
  NoRequest <- [command |-> "none", target |-> 0]

(* Every change of the database is the request of the dialog it answers,    *)
(* carried out on the thing that dialog named.                              *)
ImplementsCollection == Contract!Spec
=============================================================================
