--------------------------- MODULE Console_proofs ---------------------------
(***************************************************************************)
(* The console keeps its types, unique ids and referential integrity, for  *)
(* every number of libraries and snippets, with and without notifications  *)
(* during dialogs, across crashes and whatever writes SQLite refuses: IInv *)
(* is inductive.                                                           *)
(***************************************************************************)
EXTENDS Console, SnippetTables_proofs

-----------------------------------------------------------------------------
(* What the parts of the invariant say, in the form the steps use. *)

(* The invariant says that the database is consistent, and two things more. *)
LEMMA InvariantIsConsistent == IInv <=> TypeOK /\ Consistent(db) /\ FrameHolds
  BY DEF IInv, TypeOK, Consistent, IDsUnique, RefIntegrity

(* The types of the widgets. *)
WidgetsOK ==
  /\ lang \in Langs /\ visible \in BOOLEAN /\ shown \in BOOLEAN
  /\ combo \in Seq(LibraryRow) /\ cur \in 0..Len(combo)
  /\ curLang \in Langs \cup {NoOtherLib}
  /\ filter \in SUBSET SnipNames
  /\ list \in Seq(SnippetRow)
  /\ unsaved \in BOOLEAN

(* Type correctness is that of the database, of the widgets and of the      *)
(* rest.                                                                    *)
LEMMA TypeParts ==
  TypeOK <=> /\ db \in Database /\ WidgetsOK
             /\ frame \in Frame /\ fault \in {"none", "null", "dangling"}
  BY Zenon DEF TypeOK, WidgetsOK

(* AddListItems puts stored snippets in the list.                           *)
LEMMA ListRead ==
  ASSUME NEW d, Consistent(d), AddListItems(d)
  PROVE  list' \in Seq(SnippetRow)
<1>1. list' = <<>> \/ list' \in SnippetRows(d, combo'[cur'], filter')
  BY DEF AddListItems
<1>2. list' \in Seq(d.Snippets)
  BY <1>1, SnippetRowsTyped, EmptySeq, Zenon
<1>3. QED
  BY <1>2, RowsOf, SeqMonotonic

(* UpdateSnippetsList leaves widgets of the right types, whatever they held *)
(* before.                                                                  *)
LEMMA Refreshed ==
  ASSUME NEW d, Consistent(d), NEW l \in Langs, UpdateSnippetsList(d, l),
         lang' \in Langs, visible' \in BOOLEAN, shown' \in BOOLEAN
  PROVE  WidgetsOK'
<1> DEFINE language == IF LibrariesFor(d, l) # {} THEN l ELSE NoOtherLib
<1>1. curLang' = language /\ language \in Langs \cup {NoOtherLib}
  BY DEF UpdateSnippetsList, AddComboItems
<1>2. PICK rows \in LibraryRows(d, language) :
        /\ combo' = [i \in DOMAIN rows |-> rows[i].lib]
        /\ cur' = Choice(rows, LastUsed(d, language))
  BY DEF UpdateSnippetsList, AddComboItems
<1> HIDE DEF language
<1>3. rows \in Seq([lib : d.Library, Lang : {language, AllLanguages}])
  BY LibraryRowsTyped
<1>4. combo' \in Seq(d.Library) /\ DOMAIN combo' = DOMAIN rows
  BY <1>2, LibraryRowsTyped
<1>5. Len(combo') = Len(rows)
  BY <1>3, <1>4, LenProperties
<1>6. cur' \in 0..Len(combo')
  BY <1>2, <1>3, <1>5, ChoiceTyped
<1>7. combo' \in Seq(LibraryRow)
  BY <1>4, RowsOf, SeqMonotonic
<1>8. filter' \in SUBSET SnipNames
  BY DEF UpdateSnippetsList, NoFilter
<1>9. AddListItems(d) /\ unsaved' = FALSE
  BY DEF UpdateSnippetsList
<1>10. list' \in Seq(SnippetRow)
  BY <1>9, ListRead
<1>11. unsaved' \in BOOLEAN
  BY <1>9, Zenon
<1>12. QED
  BY <1>1, <1>6, <1>7, <1>8, <1>10, <1>11 DEF WidgetsOK

-----------------------------------------------------------------------------
(* Steps that end, suspend or fault a handler. *)

(* Nothing is asked of the suspended handler when there is none.            *)
LEMMA NoFrameHolds ==
  ASSUME frame' = NoFrame
  PROVE  frame' \in Frame /\ FrameHolds'
<1>1. NoFrame \in Frame
  BY TablesAssumption DEF NoFrame, Frame
<1>2. FrameHolds'
  BY DEF FrameHolds, NoFrame
<1>3. QED
  BY <1>1, <1>2

(* A handler that is done, and has refreshed the console. *)
LEMMA RefreshPreserves ==
  ASSUME IInv, NEW d, Consistent(d), DoneAndRefresh(d)
  PROVE  IInv'
<1>1. db' = d /\ frame' = NoFrame /\ UpdateSnippetsList(d, lang)
      /\ lang' = lang /\ visible' = visible /\ shown' = shown /\ fault' = fault
  BY DEF DoneAndRefresh
<1>2. /\ lang \in Langs /\ visible \in BOOLEAN /\ shown \in BOOLEAN
      /\ fault \in {"none", "null", "dangling"}
  BY DEF IInv, TypeOK
<1>3. WidgetsOK'
  BY <1>1, <1>2, Refreshed
<1>4. frame' \in Frame /\ FrameHolds'
  BY <1>1, NoFrameHolds
<1>5. TypeOK'
  BY <1>1, <1>2, <1>3, <1>4 DEF TypeOK, WidgetsOK, Consistent
<1>6. IDsUnique' /\ RefIntegrity'
  BY <1>1 DEF Consistent, IDsUnique, RefIntegrity
<1>7. QED
  BY <1>4, <1>5, <1>6 DEF IInv

(* A step that leaves database and widgets alone. *)
LEMMA FramePreserves ==
  ASSUME IInv, UNCHANGED <<db, widgets>>, frame' \in Frame,
         fault' \in {"none", "null", "dangling"}, FrameHolds'
  PROVE  IInv'
<1> USE DEF IInv, widgets
<1>1. TypeOK'
  BY DEF TypeOK
<1>2. IDsUnique' /\ RefIntegrity'
  BY DEF IDsUnique, RefIntegrity
<1>3. QED
  BY <1>1, <1>2

(* A handler that ends, whether or not it wrote anything, and leaves the    *)
(* widgets typed.                                                           *)
LEMMA DonePreserves ==
  ASSUME IInv, Consistent(db'), WidgetsOK', frame' = NoFrame, fault' = fault
  PROVE  IInv'
<1>1. frame' \in Frame /\ FrameHolds'
  BY NoFrameHolds
<1>2. fault' \in {"none", "null", "dangling"}
  BY DEF IInv, TypeOK
<1>3. TypeOK'
  BY <1>1, <1>2 DEF TypeOK, WidgetsOK, Consistent
<1>4. QED
  BY <1>1, <1>3 DEF IInv, Consistent, IDsUnique, RefIntegrity

(* So does a handler that is abandoned: it leaves everything as it is.      *)
LEMMA AbandonedPreserves ==
  ASSUME IInv, Abandoned
  PROVE  IInv'
<1>1. frame' \in Frame /\ FrameHolds'
  BY NoFrameHolds DEF Abandoned
<1>2. QED
  BY <1>1, FramePreserves DEF Abandoned, IInv, TypeOK

(* A dereference fails in a handler that is already suspended. *)
LEMMA FaultPreserves ==
  ASSUME IInv, NEW kind \in {"null", "dangling"}, Fault(kind), UNCHANGED frame
  PROVE  IInv'
<1>1. UNCHANGED <<db, widgets>> /\ fault' = kind /\ frame' = frame
  BY DEF Fault
<1>2. frame' \in Frame
  BY <1>1 DEF IInv, TypeOK
<1>3. FrameHolds'
  BY <1>1 DEF IInv, FrameHolds, widgets
<1>4. QED
  BY <1>1, <1>2, <1>3, FramePreserves

(* A handler that only waits: what it points to is there now. *)
LEMMA SuspendPreserves ==
  ASSUME IInv, NEW cmd \in Modal \cup Internal, NEW item \in Nat,
         NEW target \in {0} \cup LibraryIDs \cup SnippetIDs, NEW sort \in 0..MaxSort,
         Suspend(cmd, item, target, sort),
         UNCHANGED <<db, widgets>>, fault' \in {"none", "null"},
         cmd \in {"SnippetEdit", "SnippetDelete", "SnippetDuplicate"} =>
           item \in DOMAIN list /\ target \in SnippetIDs,
         cmd \in {"LibraryEdit", "LibraryLanguages"} /\ target # 0 => cur # 0,
         cmd = "SnippetAdd" => target \in LibraryIDs,
         cmd \in {"SelChange", "LibraryNewLang"} => fault' = "null"
  PROVE  IInv'
<1>1. frame' = [cmd |-> cmd, item |-> item, target |-> target, sort |-> sort, live |-> TRUE]
  BY DEF Suspend
<1>2. frame' \in Frame
  BY <1>1 DEF Frame
<1>3. FrameHolds'
  BY <1>1 DEF FrameHolds, widgets
<1>4. QED
  BY <1>2, <1>3, FramePreserves

-----------------------------------------------------------------------------
(* Notepad++ and the process. *)

(* The program starts with the invariant.                                   *)
LEMMA InitHolds == Init => IInv
<1> SUFFICES ASSUME Init PROVE IInv
  OBVIOUS
<1>1. Consistent(db)
  BY ConsoleAssumption DEF Init
<1>2. WidgetsOK
  <2>1. combo \in Seq(LibraryRow) /\ list \in Seq(SnippetRow) /\ Len(combo) = 0
    BY EmptySeq DEF Init
  <2>2. visible \in BOOLEAN /\ shown \in BOOLEAN /\ unsaved \in BOOLEAN
    BY Zenon DEF Init
  <2>3. QED
    BY <2>1, <2>2, ConsoleAssumption DEF Init, WidgetsOK, NoFilter
<1>3. frame \in Frame /\ FrameHolds
  BY TablesAssumption DEF Init, NoFrame, Frame, FrameHolds
<1>4. TypeOK
  BY <1>1, <1>2, <1>3 DEF Init, TypeOK, WidgetsOK, Consistent
<1>5. QED
  BY <1>1, <1>3, <1>4, InvariantIsConsistent

(* Freeing the objects of the widgets leaves the suspended handler what it  *)
(* relies on: a pointer to one of them is gone with it.                     *)
LEMMA FreedHolds ==
  ASSUME IInv, ObjectsFreed, fault = "none", frame.cmd \in {"none", "SnippetInsert"} \cup Modal
  PROVE  frame' \in Frame /\ FrameHolds'
<1>1. frame \in Frame
  BY DEF IInv, TypeOK
<1>2. /\ frame'.cmd = frame.cmd /\ frame'.item = frame.item /\ frame'.target = frame.target
      /\ frame'.live <=> frame.live /\ ~(frame.cmd \in HoldsPointer /\ frame.target # 0)
  BY <1>1 DEF ObjectsFreed, Frame
<1>3. frame' \in Frame
  BY <1>1 DEF ObjectsFreed, Frame
<1>4. frame.cmd \in {"SnippetEdit", "SnippetDelete", "SnippetDuplicate"} /\ frame.live =>
        frame.target # 0
  BY DEF IInv, FrameHolds, SnippetIDs
<1>5. QED
  BY <1>2, <1>3, <1>4 DEF IInv, FrameHolds, HoldsPointer, Modal

(* A notification, with the refresh it causes, keeps the invariant.         *)
LEMMA BeNotifiedPreserves ==
  ASSUME IInv, NEW l \in Langs, BeNotified(l)
  PROVE  IInv'
<1>1. /\ db' = db /\ visible' = visible /\ shown' = shown /\ fault' = fault /\ lang' = l
      /\ fault = "none" /\ frame.cmd \in {"none", "SnippetInsert"} \cup Modal
  BY DEF BeNotified
<1>2. CASE visible
  <2>1. UpdateSnippetsList(db, l) /\ ObjectsFreed
    BY <1>2 DEF BeNotified
  <2>2. WidgetsOK'
    BY <1>1, <2>1, Refreshed, InvariantIsConsistent DEF IInv, TypeOK
  <2>3. frame' \in Frame /\ FrameHolds'
    BY <1>1, <2>1, FreedHolds
  <2>4. QED
    BY <1>1, <2>2, <2>3 DEF IInv, TypeOK, WidgetsOK, IDsUnique, RefIntegrity
<1>3. CASE ~visible
  <2>1. UNCHANGED <<combo, cur, curLang, filter, list, unsaved, frame>>
    BY <1>3 DEF BeNotified
  <2>2. QED
    BY <1>1, <2>1 DEF IInv, TypeOK, IDsUnique, RefIntegrity, FrameHolds
<1>4. QED
  BY <1>2, <1>3

(* Empty widgets, as before the first refresh and in a closed window.       *)
LEMMA EmptyWidgets ==
  ASSUME combo' = <<>>, list' = <<>>, cur' = 0, filter' = NoFilter,
         lang' \in Langs, curLang' \in Langs \cup {NoOtherLib},
         visible' \in BOOLEAN, shown' \in BOOLEAN, unsaved' \in BOOLEAN
  PROVE  WidgetsOK'
<1>1. combo' \in Seq(LibraryRow) /\ list' \in Seq(SnippetRow) /\ Len(combo') = 0
  BY EmptySeq
<1>2. QED
  BY <1>1 DEF WidgetsOK, NoFilter

(* Closing the window with its x keeps the invariant.                       *)
LEMMA ClosePreserves ==
  ASSUME IInv, OnClose
  PROVE  IInv'
<1>1. /\ fault = "none" /\ fault' = fault /\ db' = db /\ ObjectsFreed /\ shown' = FALSE
      /\ combo' = <<>> /\ list' = <<>> /\ cur' = 0 /\ filter' = NoFilter
      /\ lang' = lang /\ curLang' = curLang /\ visible' = visible /\ unsaved' = unsaved
      /\ frame.cmd \in {"none", "SnippetInsert"} \cup Modal
  BY DEF OnClose
<1>2. WidgetsOK'
  <2>1. /\ lang' \in Langs /\ curLang' \in Langs \cup {NoOtherLib}
        /\ visible' \in BOOLEAN /\ unsaved' \in BOOLEAN
    BY <1>1 DEF IInv, TypeOK
  <2>2. shown' \in BOOLEAN
    BY <1>1, Zenon
  <2>3. QED
    BY <1>1, <2>1, <2>2, EmptyWidgets
<1>3. frame' \in Frame /\ FrameHolds'
  BY <1>1, FreedHolds
<1>4. QED
  BY <1>1, <1>2, <1>3 DEF IInv, TypeOK, WidgetsOK, IDsUnique, RefIntegrity

(* So does all Notepad++ and the process do.                                *)
LEMMA NotepadPreserves ==
  ASSUME IInv, Notepad
  PROVE  IInv'
<1>1. ASSUME NEW l \in Langs, BeNotified(l) PROVE IInv'
  BY <1>1, BeNotifiedPreserves
<1>2. CASE ShowConsole
  <2>1. /\ UpdateSnippetsList(db, lang) /\ visible' = TRUE /\ shown' = TRUE
        /\ UNCHANGED <<db, lang, frame, fault>> /\ frame = NoFrame
    BY <1>2 DEF ShowConsole, Idle
  <2>2. lang' \in Langs /\ visible' \in BOOLEAN /\ shown' \in BOOLEAN /\ lang \in Langs
    BY <2>1 DEF IInv, TypeOK
  <2>3. WidgetsOK'
    BY <2>1, <2>2, Refreshed, InvariantIsConsistent
  <2>4. QED
    BY <2>1, <2>3, DonePreserves, InvariantIsConsistent
<1>3. CASE HideConsole
  BY <1>3 DEF HideConsole, IInv, TypeOK, IDsUnique, RefIntegrity, FrameHolds
<1>4. CASE OnClose
  BY <1>4, ClosePreserves
<1>5. CASE Restart
  <2>1. /\ db' = db /\ frame' = NoFrame /\ fault' = "none" /\ combo' = <<>> /\ list' = <<>>
        /\ cur' = 0 /\ filter' = NoFilter /\ curLang' = NoOtherLib /\ lang' = L_TEXT
        /\ visible' = FALSE /\ shown' = FALSE /\ unsaved' = FALSE
    BY <1>5 DEF Restart
  <2>2. WidgetsOK'
    <3>1. visible' \in BOOLEAN /\ shown' \in BOOLEAN /\ unsaved' \in BOOLEAN
      BY <2>1, Zenon
    <3>2. QED
      BY <2>1, <3>1, ConsoleAssumption, EmptyWidgets
  <2>3. frame' \in Frame /\ FrameHolds'
    BY <2>1, NoFrameHolds
  <2>4. QED
    BY <2>1, <2>2, <2>3 DEF IInv, TypeOK, WidgetsOK, IDsUnique, RefIntegrity
<1>6. CASE Undefined
  BY <1>6 DEF Undefined, vars, IInv, TypeOK, IDsUnique, RefIntegrity, FrameHolds
<1>7. QED
  BY <1>1, <1>2, <1>3, <1>4, <1>5, <1>6 DEF Notepad
-----------------------------------------------------------------------------
(* The filter and the combobox. *)

(* OnChange_Filter reloads the list and keeps the invariant.                *)
LEMMA ChangeFilterPreserves ==
  ASSUME IInv, NEW names \in Filters, OnChange_Filter(names)
  PROVE  IInv'
<1>1. /\ filter' = names /\ AddListItems(db) /\ frame = NoFrame
      /\ UNCHANGED <<db, lang, visible, shown, combo, cur, curLang, frame, fault, unsaved>>
  BY DEF OnChange_Filter, Ready, Idle
<1>2. list' \in Seq(SnippetRow)
  BY <1>1, ListRead, InvariantIsConsistent
<1>3. filter' \in SUBSET SnipNames
  BY <1>1, ConsoleAssumption
<1>4. frame' \in Frame /\ FrameHolds'
  BY <1>1, NoFrameHolds
<1>5. QED
  BY <1>1, <1>2, <1>3, <1>4 DEF IInv, TypeOK, IDsUnique, RefIntegrity

(* A library of the combobox has the types of a row, stored or not.         *)
LEMMA LibraryOf ==
  ASSUME IInv, NEW i \in DOMAIN combo
  PROVE  /\ combo[i] \in LibraryRow /\ combo[i].LibraryID \in LibraryIDs
         /\ i \in 0..Len(combo)
<1>1. combo \in Seq(LibraryRow)
  BY DEF IInv, TypeOK
<1>2. i \in 0..Len(combo) /\ combo[i] \in LibraryRow
  BY <1>1, LenProperties, ElementOfSeq
<1>3. QED
  BY <1>2 DEF LibraryRow

(* Choosing a library writes twice; in between no row is for curLang. *)
LEMMA SelChangePreserves ==
  ASSUME IInv, NEW i \in DOMAIN combo, OnSelChange_Combo(i)
  PROVE  IInv'
<1>1. CASE cur = 0
  <2>1. Suspend("SelChange", 0, 0, 0) /\ UNCHANGED <<db, widgets>> /\ fault' = "null"
    BY <1>1 DEF OnSelChange_Combo, Fault
  <2>2. "SelChange" \in Modal \cup Internal /\ 0 \in 0..MaxSort
    BY TablesAssumption DEF Internal
  <2>3. QED
    BY <2>1, <2>2, SuspendPreserves
<1>2. CASE cur # 0
  <2>1. /\ cur' = i /\ filter' = NoFilter /\ db' = ForgetLastUsed(db, curLang)
        /\ Suspend("SelChange", 0, combo[i].LibraryID, 0)
        /\ UNCHANGED <<lang, visible, shown, combo, curLang, fault, unsaved>>
        /\ AddListItems(db)
    BY <1>2 DEF OnSelChange_Combo
  <2>2. Consistent(db') /\ \A u \in db'.LangLastUsed : u.Lang # curLang
    BY <2>1, ForgetLastUsedConsistent, InvariantIsConsistent
  <2>3. list' \in Seq(SnippetRow)
    BY <2>1, ListRead, InvariantIsConsistent
  <2>4. combo[i].LibraryID \in LibraryIDs
    BY LibraryOf
  <2>5. frame' = [cmd |-> "SelChange", item |-> 0, target |-> combo[i].LibraryID,
                  sort |-> 0, live |-> TRUE]
    BY <2>1 DEF Suspend
  <2>6. frame' \in Frame
    BY <2>4, <2>5, TablesAssumption DEF Frame, Internal
  <2>7. FrameHolds'
    BY <2>1, <2>2, <2>4, <2>5 DEF FrameHolds
  <2>8. cur' \in 0..Len(combo')
    BY <2>1, LibraryOf
  <2>9. TypeOK'
    BY <2>1, <2>2, <2>3, <2>6, <2>8 DEF IInv, TypeOK, NoFilter, Consistent
  <2>10. QED
    BY <2>2, <2>7, <2>9 DEF IInv, Consistent, IDsUnique, RefIntegrity
<1>3. QED
  BY <1>1, <1>2

(* Going to another object of the same library changes s_curLibrary only.   *)
LEMMA SameLibraryPreserves ==
  ASSUME IInv, NEW i \in DOMAIN combo, OnSelChange_Combo_SameLibrary(i)
  PROVE  IInv'
<1>1. /\ cur' = i /\ frame = NoFrame
      /\ UNCHANGED <<db, lang, visible, shown, combo, curLang, filter, list, frame, fault,
                     unsaved>>
  BY DEF OnSelChange_Combo_SameLibrary, Ready, Idle
<1>2. cur' \in 0..Len(combo')
  BY <1>1, LibraryOf
<1>3. frame' \in Frame /\ FrameHolds'
  BY <1>1, NoFrameHolds
<1>4. QED
  BY <1>1, <1>2, <1>3 DEF IInv, TypeOK, IDsUnique, RefIntegrity

(* A refused DELETE leaves the database and changes the widgets.            *)
LEMMA SelChangeRefusedPreserves ==
  ASSUME IInv, NEW i \in DOMAIN combo, OnSelChange_Combo_Refused(i)
  PROVE  IInv'
<1>1. /\ cur' = i /\ filter' = NoFilter /\ unsaved' = TRUE /\ frame = NoFrame
      /\ UNCHANGED <<db, lang, visible, shown, combo, curLang, frame, fault>>
      /\ AddListItems(db)
  BY DEF OnSelChange_Combo_Refused, Ready, Idle
<1>2. cur' \in 0..Len(combo')
  BY <1>1, LibraryOf
<1>3. list' \in Seq(SnippetRow)
  BY <1>1, ListRead, InvariantIsConsistent
<1>4. frame' \in Frame /\ FrameHolds'
  BY <1>1, NoFrameHolds
<1>5. unsaved' \in BOOLEAN
  BY <1>1, Zenon
<1>6. QED
  BY <1>1, <1>2, <1>3, <1>4, <1>5 DEF IInv, TypeOK, NoFilter, IDsUnique, RefIntegrity

(* The INSERT of OnSelChange_Combo finds no other choice for the language.  *)
LEMMA SelChangeStorePreserves ==
  ASSUME IInv, OnSelChange_Store
  PROVE  IInv'
<1>1. /\ frame.cmd = "SelChange" /\ fault = "none"
      /\ frame.target \in LibraryIDsOf(db)
      /\ db' = InsertLastUsed(db, curLang, frame.target)
      /\ frame' = NoFrame
      /\ UNCHANGED <<lang, visible, shown, combo, cur, curLang, filter, fault, unsaved>>
      /\ AddListItems(db')
  BY DEF OnSelChange_Store, Waiting, HasRow
<1>2. \A u \in db.LangLastUsed : u.Lang # curLang
  BY <1>1 DEF IInv, FrameHolds
<1>3. Consistent(db')
  <2>1. curLang \in Langs \cup {NoOtherLib}
    BY DEF IInv, TypeOK
  <2>2. QED
    BY <1>1, <1>2, <2>1, InsertLastUsedConsistent, InvariantIsConsistent
<1>4. list' \in Seq(SnippetRow)
  BY <1>1, <1>3, ListRead
<1>5. WidgetsOK'
  BY <1>1, <1>4 DEF IInv, TypeOK, WidgetsOK
<1>6. QED
  BY <1>1, <1>3, <1>5, DonePreserves

(* The filter and the combobox keep the invariant.                          *)
LEMMA WidgetsPreserve ==
  ASSUME IInv, Widgets
  PROVE  IInv'
<1>1. ASSUME NEW names \in Filters, OnChange_Filter(names) PROVE IInv'
  BY <1>1, ChangeFilterPreserves
<1>2. ASSUME NEW i \in DOMAIN combo, OnSelChange_Combo(i) PROVE IInv'
  BY <1>2, SelChangePreserves
<1>3. ASSUME NEW i \in DOMAIN combo, OnSelChange_Combo_Refused(i) PROVE IInv'
  BY <1>3, SelChangeRefusedPreserves
<1>4. ASSUME NEW i \in DOMAIN combo, OnSelChange_Combo_SameLibrary(i) PROVE IInv'
  BY <1>4, SameLibraryPreserves
<1>5. CASE OnSelChange_Store
  BY <1>5, SelChangeStorePreserves
<1>6. CASE OnSelChange_Store_Refused
  BY <1>6, AbandonedPreserves DEF OnSelChange_Store_Refused
<1>7. CASE OnContextMenu
  BY <1>7, FaultPreserves DEF OnContextMenu
<1>8. CASE OnCancel
  BY <1>8, AbandonedPreserves DEF OnCancel, Abandoned
<1>9. QED
  BY <1>1, <1>2, <1>3, <1>4, <1>5, <1>6, <1>7, <1>8 DEF Widgets
-----------------------------------------------------------------------------
(* The snippet menu. *)

(* An item of the list has the types of a row.                              *)
LEMMA ItemOf ==
  ASSUME IInv, NEW item \in DOMAIN list
  PROVE  /\ item \in Nat /\ item \in 1..Len(list) /\ Len(list) \in Nat
         /\ list[item] \in SnippetRow
         /\ list[item].SnippetID \in SnippetIDs
<1>1. list \in Seq(SnippetRow)
  BY DEF IInv, TypeOK
<1>2. item \in 1..Len(list) /\ Len(list) \in Nat /\ list[item] \in SnippetRow
  BY <1>1, LenProperties, ElementOfSeq
<1>3. QED
  BY <1>2 DEF SnippetRow

(* So has s_curLibrary when it is not NULL.                                 *)
LEMMA CurrentOf ==
  ASSUME IInv, cur # 0
  PROVE  combo[cur] \in LibraryRow /\ combo[cur].LibraryID \in LibraryIDs
<1>1. combo \in Seq(LibraryRow) /\ cur \in 0..Len(combo)
  BY DEF IInv, TypeOK
<1>2. cur \in DOMAIN combo
  BY <1>1, LenProperties
<1>3. QED
  BY <1>2, LibraryOf

(* Edit, Delete and Duplicate may point at any item of the list.            *)
LEMMA PointAtPreserves ==
  ASSUME IInv, NEW item \in DOMAIN list,
         NEW cmd \in {"SnippetEdit", "SnippetDelete", "SnippetDuplicate"},
         PointAt(cmd, item)
  PROVE  IInv'
<1>1. Suspend(cmd, item, list[item].SnippetID, 0) /\ UNCHANGED <<db, widgets>> /\ fault' = "none"
  BY DEF PointAt, SnippetMenu, Ready, Idle
<1>2. cmd \in Modal \cup Internal /\ 0 \in 0..MaxSort
  BY TablesAssumption DEF Modal
<1>3. QED
  BY <1>1, <1>2, ItemOf, SuspendPreserves

(* OnSnippetInsert keeps the invariant.                                     *)
LEMMA InsertPreserves ==
  ASSUME IInv, NEW item \in DOMAIN list, OnSnippetInsert(item)
  PROVE  IInv'
<1>1. /\ Suspend("SnippetInsert", item, list[item].SnippetID, 0)
      /\ UNCHANGED <<db, widgets>> /\ fault' = "none"
  BY DEF OnSnippetInsert, Ready, Idle
<1>2. "SnippetInsert" \in Modal \cup Internal /\ 0 \in 0..MaxSort
  BY TablesAssumption DEF Internal
<1>3. QED
  BY <1>1, <1>2, ItemOf, SuspendPreserves

(* OnSnippetAdd keeps the invariant: the new snippet is for a library that  *)
(* exists.                                                                  *)
LEMMA AddPreserves ==
  ASSUME IInv, OnSnippetAdd
  PROVE  IInv'
<1>1. /\ Suspend("SnippetAdd", 0, combo[cur].LibraryID, GetMaxSort + 1)
      /\ UNCHANGED <<db, widgets>> /\ fault' = "none" /\ cur # 0
      /\ GetMaxSort < MaxSort
  BY DEF OnSnippetAdd, SnippetMenu, Ready, Idle
<1>2. GetMaxSort \in 0..MaxSort
  <2> DEFINE sorts == {0} \cup {list[i].Sort : i \in DOMAIN list}
  <2>1. \A i \in DOMAIN list : list[i].Sort \in 0..MaxSort
    BY ItemOf DEF SnippetRow
  <2>2. sorts \in SUBSET (0..MaxSort) /\ sorts # {}
    BY <2>1, TablesAssumption
  <2>3. Max(sorts) \in sorts
    BY <2>2, TablesAssumption, MaxOf
  <2>4. QED
    BY <2>2, <2>3 DEF GetMaxSort
<1>3. "SnippetAdd" \in Modal \cup Internal /\ GetMaxSort + 1 \in 0..MaxSort
  BY <1>1, <1>2, TablesAssumption DEF Modal
<1>4. QED
  BY <1>1, <1>3, CurrentOf, SuspendPreserves

(* The id of a new snippet is new. *)
LEMMA NewSnippetID ==
  ASSUME IInv, NextID(SnippetIDsOf(db)) <= MaxSnippetID
  PROVE  NextID(SnippetIDsOf(db)) \in SnippetIDs \ SnippetIDsOf(db)
<1>1. SnippetIDsOf(db) \in SUBSET (1..MaxSnippetID) /\ MaxSnippetID \in Nat
  BY RowsOf, InvariantIsConsistent, TablesAssumption DEF SnippetIDs
<1>2. NextID(SnippetIDsOf(db)) \in Nat \ {0} /\ NextID(SnippetIDsOf(db)) \notin SnippetIDsOf(db)
  BY <1>1, NextIDIsNew
<1>3. QED
  BY <1>1, <1>2 DEF SnippetIDs

(* Saving a new snippet keeps the invariant.                                *)
LEMMA AddOKPreserves ==
  ASSUME IInv, NEW name \in SnipNames, OnSnippetAdd_OK(name)
  PROVE  IInv'
<1> DEFINE id == NextID(SnippetIDsOf(db))
<1> DEFINE snip == [SnippetID |-> id, LibraryID |-> frame.target, Name |-> name,
                    Sort |-> frame.sort]
<1>1. /\ frame.cmd = "SnippetAdd" /\ fault = "none" /\ id <= MaxSnippetID
      /\ DoneAndRefresh(InsertSnippet(db, snip))
      /\ frame.target \in LibraryIDsOf(db)
  BY DEF OnSnippetAdd_OK, Waiting, HasRow
<1>2. id \in SnippetIDs \ SnippetIDsOf(db)
  BY <1>1, NewSnippetID
<1>3. frame.target \in LibraryIDsOf(db) /\ frame.target \in LibraryIDs
  BY <1>1, RowsOf, InvariantIsConsistent
<1>4. frame.sort \in 0..MaxSort
  BY DEF IInv, TypeOK, Frame
<1> HIDE DEF id
<1>5. snip \in SnippetRow /\ snip.SnippetID = id /\ snip.LibraryID = frame.target
  BY <1>2, <1>3, <1>4 DEF SnippetRow
<1> HIDE DEF snip
<1>6. Consistent(InsertSnippet(db, snip))
  BY <1>2, <1>3, <1>5, InsertSnippetConsistent, InvariantIsConsistent
<1>7. QED
  BY <1>1, <1>6, RefreshPreserves

(* The use of a freed object changes nothing the invariant is about.        *)
LEMMA DanglingPreserves ==
  ASSUME IInv, Dangling
  PROVE  IInv'
  BY FaultPreserves DEF Dangling

(* A handler that changed the list, or only the database, and is done.      *)
LEMMA ListChangePreserves ==
  ASSUME IInv, Consistent(db'),
         UNCHANGED <<lang, visible, shown, combo, cur, curLang, filter, fault>>,
         unsaved' \in BOOLEAN, frame' = NoFrame, list' \in Seq(SnippetRow)
  PROVE  IInv'
<1>1. WidgetsOK'
  BY DEF IInv, TypeOK, WidgetsOK
<1>2. QED
  BY <1>1, DonePreserves

(* The object of the list with the name that was entered.                   *)
LEMMA EditedList ==
  ASSUME IInv, frame.cmd = "SnippetEdit", frame.live, NEW name \in SnipNames
  PROVE  /\ [list[frame.item] EXCEPT !.Name = name] \in SnippetRow
         /\ [list EXCEPT ![frame.item] = [list[frame.item] EXCEPT !.Name = name]]
              \in Seq(SnippetRow)
<1> DEFINE snip == [list[frame.item] EXCEPT !.Name = name]
<1>1. frame.item \in DOMAIN list
  BY DEF IInv, FrameHolds
<1>2. snip \in SnippetRow
  BY <1>1, ItemOf DEF SnippetRow
<1> HIDE DEF snip
<1>3. [list EXCEPT ![frame.item] = snip] \in Seq(SnippetRow)
  BY <1>1, <1>2, ItemOf, ExceptSeq DEF IInv, TypeOK
<1>4. QED
  BY <1>2, <1>3 DEF snip

(* Saving an edited snippet through its object keeps the invariant.         *)
LEMMA EditOKPreserves ==
  ASSUME IInv, NEW name \in SnipNames, OnSnippetEdit_OK(name)
  PROVE  IInv'
<1> DEFINE snip == [list[frame.item] EXCEPT !.Name = name]
<1>1. CASE Dangling
  BY <1>1, DanglingPreserves
<1>2. CASE ~Dangling
  <2>1. /\ frame.cmd = "SnippetEdit" /\ frame.live
        /\ db' = UpdateSnippet(db, snip)
        /\ list' = [list EXCEPT ![frame.item] = snip]
        /\ frame' = NoFrame
        /\ UNCHANGED <<lang, visible, shown, combo, cur, curLang, filter, fault, unsaved>>
    BY <1>2 DEF OnSnippetEdit_OK, Waiting
  <2>2. snip \in SnippetRow /\ list' \in Seq(SnippetRow)
    BY <2>1, EditedList
  <2> HIDE DEF snip
  <2>3. Consistent(db')
    BY <2>1, <2>2, UpdateSnippetConsistent, InvariantIsConsistent
  <2>4. unsaved' \in BOOLEAN
    BY <2>1 DEF IInv, TypeOK
  <2>5. QED
    BY <2>1, <2>2, <2>3, <2>4, ListChangePreserves
<1>3. QED
  BY <1>1, <1>2

(* So does a save that was refused: it changes the list only.               *)
LEMMA EditRefusedPreserves ==
  ASSUME IInv, NEW name \in SnipNames, OnSnippetEdit_Refused(name)
  PROVE  IInv'
<1>1. /\ frame.cmd = "SnippetEdit" /\ frame.live /\ frame' = NoFrame /\ unsaved' = TRUE
      /\ list' = [list EXCEPT ![frame.item] = [list[frame.item] EXCEPT !.Name = name]]
      /\ UNCHANGED <<db, lang, visible, shown, combo, cur, curLang, filter, fault>>
  BY DEF OnSnippetEdit_Refused, Waiting
<1>2. list' \in Seq(SnippetRow)
  BY <1>1, EditedList
<1>3. unsaved' \in BOOLEAN
  BY <1>1, Zenon
<1>4. Consistent(db')
  BY <1>1, InvariantIsConsistent
<1>5. QED
  BY <1>1, <1>2, <1>3, <1>4, ListChangePreserves

(* Taking an element out of a sequence: those after it move up. *)
LEMMA RemoveAtProperties ==
  ASSUME NEW S, NEW seq \in Seq(S), NEW i \in 1..Len(seq)
  PROVE  /\ RemoveAt(seq, i) \in Seq(S)
         /\ Len(RemoveAt(seq, i)) = Len(seq) - 1
         /\ \A k \in 1..(Len(seq) - 1) :
              RemoveAt(seq, i)[k] = IF k < i THEN seq[k] ELSE seq[k + 1]
<1> DEFINE a == SubSeq(seq, 1, i - 1)
<1> DEFINE b == SubSeq(seq, i + 1, Len(seq))
<1>1. Len(seq) \in Nat /\ i \in Int /\ DOMAIN seq = 1..Len(seq) /\ \A j \in 1..Len(seq) : seq[j] \in S
  BY LenProperties, ElementOfSeq
<1>2. a \in Seq(S) /\ Len(a) = i - 1 /\ \A k \in 1..(i - 1) : a[k] = seq[k]
  BY <1>1, SubSeqProperties
<1>3. /\ b \in Seq(S) /\ Len(b) = Len(seq) - i
      /\ \A k \in 1..(Len(seq) - i) : b[k] = seq[i + k]
  <2>1. i + 1 \in Int /\ \A j \in (i + 1)..Len(seq) : seq[j] \in S
    BY <1>1
  <2>2. /\ b \in Seq(S)
        /\ Len(b) = IF i + 1 <= Len(seq) THEN Len(seq) - (i + 1) + 1 ELSE 0
        /\ \A k \in 1..(Len(seq) - (i + 1) + 1) : b[k] = seq[(i + 1) + k - 1]
    BY <1>1, <2>1, SubSeqProperties
  <2> HIDE DEF b
  <2>3. Len(b) = Len(seq) - i
    <3>1. Len(b) = IF i + 1 <= Len(seq) THEN Len(seq) - (i + 1) + 1 ELSE 0
      BY <2>2
    <3>2. i \in Int /\ Len(seq) \in Int /\ i <= Len(seq)
      BY <1>1
    <3>3. QED
      BY <3>1, <3>2
  <2>4. ASSUME NEW k \in 1..(Len(seq) - i) PROVE b[k] = seq[i + k]
    <3>1. k \in 1..(Len(seq) - (i + 1) + 1) /\ (i + 1) + k - 1 = i + k
      BY <1>1
    <3>2. QED
      BY <2>2, <3>1
  <2>5. QED
    BY <2>2, <2>3, <2>4
<1>4. RemoveAt(seq, i) = a \o b
  BY DEF RemoveAt
<1> HIDE DEF a, b
<1>5. /\ a \o b \in Seq(S) /\ Len(a \o b) = Len(a) + Len(b)
      /\ \A k \in 1..(Len(a) + Len(b)) : (a \o b)[k] = IF k <= Len(a) THEN a[k] ELSE b[k - Len(a)]
  BY <1>2, <1>3, ConcatProperties
<1>6. ASSUME NEW k \in 1..(Len(seq) - 1)
      PROVE  (a \o b)[k] = IF k < i THEN seq[k] ELSE seq[k + 1]
  <2>1. CASE k <= i - 1
    BY <1>1, <1>2, <1>3, <1>5, <2>1
  <2>2. CASE ~(k <= i - 1)
    <3>1. k - (i - 1) \in 1..(Len(seq) - i) /\ i + (k - (i - 1)) = k + 1
      BY <1>1, <2>2
    <3>2. (a \o b)[k] = b[k - (i - 1)]
      BY <1>1, <1>2, <1>3, <1>5, <2>2
    <3>3. (a \o b)[k] = seq[k + 1]
      BY <1>3, <3>1, <3>2
    <3>4. QED
      BY <1>1, <2>2, <3>3
  <2>3. QED
    BY <2>1, <2>2
<1>7. Len(a \o b) = Len(seq) - 1
  BY <1>1, <1>2, <1>3, <1>5
<1>8. QED
  BY <1>4, <1>5, <1>6, <1>7

(* Putting an element into a sequence: those from there on move down. *)
LEMMA InsertAtProperties ==
  ASSUME NEW S, NEW seq \in Seq(S), NEW to \in 1..(Len(seq) + 1), NEW e \in S
  PROVE  /\ InsertAt(seq, to, e) \in Seq(S)
         /\ Len(InsertAt(seq, to, e)) = Len(seq) + 1
         /\ \A k \in 1..(Len(seq) + 1) :
              InsertAt(seq, to, e)[k] =
                IF k < to THEN seq[k] ELSE IF k = to THEN e ELSE seq[k - 1]
<1> DEFINE a == SubSeq(seq, 1, to - 1)
<1> DEFINE b == SubSeq(seq, to, Len(seq))
<1> DEFINE m == a \o <<e>>
<1>1. Len(seq) \in Nat /\ to \in Int /\ DOMAIN seq = 1..Len(seq) /\ \A j \in 1..Len(seq) : seq[j] \in S
  BY LenProperties, ElementOfSeq
<1>2. a \in Seq(S) /\ Len(a) = to - 1 /\ \A k \in 1..(to - 1) : a[k] = seq[k]
  BY <1>1, SubSeqProperties
<1>3. /\ b \in Seq(S) /\ Len(b) = Len(seq) - to + 1
      /\ \A k \in 1..(Len(seq) - to + 1) : b[k] = seq[to + k - 1]
  BY <1>1, SubSeqProperties
<1>4. InsertAt(seq, to, e) = m \o b
  BY DEF InsertAt
<1> HIDE DEF a, b
<1>5. <<e>> \in Seq(S) /\ Len(<<e>>) = 1 /\ <<e>>[1] = e
  OBVIOUS
<1>6. /\ m \in Seq(S) /\ Len(m) = to
      /\ \A k \in 1..to : m[k] = IF k <= to - 1 THEN a[k] ELSE <<e>>[k - (to - 1)]
  BY <1>1, <1>2, <1>5, ConcatProperties
<1> HIDE DEF m
<1>7. /\ m \o b \in Seq(S) /\ Len(m \o b) = Len(seq) + 1
      /\ \A k \in 1..(Len(seq) + 1) : (m \o b)[k] = IF k <= to THEN m[k] ELSE b[k - to]
  <2>1. /\ m \o b \in Seq(S) /\ Len(m \o b) = Len(m) + Len(b)
        /\ \A k \in 1..(Len(m) + Len(b)) :
             (m \o b)[k] = IF k <= Len(m) THEN m[k] ELSE b[k - Len(m)]
    BY <1>3, <1>6, ConcatProperties
  <2>2. Len(m) = to /\ Len(m) + Len(b) = Len(seq) + 1
    BY <1>1, <1>3, <1>6
  <2>3. QED
    BY <2>1, <2>2
<1>8. ASSUME NEW k \in 1..(Len(seq) + 1)
      PROVE  (m \o b)[k] = IF k < to THEN seq[k] ELSE IF k = to THEN e ELSE seq[k - 1]
  <2>1. CASE k < to
    <3>1. k \in 1..to /\ k \in 1..(to - 1)
      BY <1>1, <2>1
    <3>2. (m \o b)[k] = m[k] /\ m[k] = a[k] /\ a[k] = seq[k]
      BY <1>2, <1>6, <1>7, <3>1
    <3>3. QED
      BY <2>1, <3>2
  <2>2. CASE k = to
    BY <1>1, <1>5, <1>6, <1>7, <2>2
  <2>3. CASE k > to
    <3>1. k - to \in 1..(Len(seq) - to + 1) /\ to + (k - to) - 1 = k - 1
      BY <1>1, <2>3
    <3>2. b[k - to] = seq[k - 1]
      BY <1>3, <3>1
    <3>3. (m \o b)[k] = b[k - to]
      BY <1>1, <1>7, <2>3
    <3>4. QED
      BY <1>1, <2>3, <3>2, <3>3
  <2>4. k < to \/ k = to \/ k > to
    BY <1>1
  <2>5. QED
    BY <2>1, <2>2, <2>3, <2>4, Zenon
<1>9. QED
  BY <1>4, <1>7, <1>8

(* Deleting a snippet from the table and the list keeps the invariant.      *)
LEMMA DeleteYesPreserves ==
  ASSUME IInv, OnSnippetDelete_Yes
  PROVE  IInv'
<1>1. CASE Dangling
  BY <1>1, DanglingPreserves
<1>2. CASE ~Dangling
  <2>1. /\ frame.cmd = "SnippetDelete" /\ frame.live
        /\ db' = DeleteSnippet(db, list[frame.item].SnippetID)
        /\ list' = RemoveAt(list, frame.item)
        /\ frame' = NoFrame
        /\ UNCHANGED <<lang, visible, shown, combo, cur, curLang, filter, fault, unsaved>>
    BY <1>2 DEF OnSnippetDelete_Yes, Waiting
  <2>2. frame.item \in DOMAIN list /\ list \in Seq(SnippetRow) /\ unsaved' \in BOOLEAN
    BY <2>1 DEF IInv, FrameHolds, TypeOK
  <2>3. Consistent(db')
    BY <2>1, DeleteSnippetConsistent, InvariantIsConsistent
  <2>4. list' \in Seq(SnippetRow)
    BY <2>1, <2>2, ItemOf, RemoveAtProperties
  <2>5. QED
    BY <2>1, <2>2, <2>3, <2>4, ListChangePreserves
<1>3. QED
  BY <1>1, <1>2

(* Saving the duplicate of a snippet keeps the invariant.                   *)
LEMMA DuplicateYesPreserves ==
  ASSUME IInv, OnSnippetDuplicate_Yes
  PROVE  IInv'
<1> DEFINE id == NextID(SnippetIDsOf(db))
<1> DEFINE old == list[frame.item]
<1> DEFINE snip == [old EXCEPT !.SnippetID = id, !.Name = DupName[old.Name]]
<1>1. CASE Dangling
  BY <1>1, DanglingPreserves
<1>2. CASE ~Dangling
  <2>1. /\ frame.cmd = "SnippetDuplicate" /\ frame.live /\ id <= MaxSnippetID
        /\ DoneAndRefresh(InsertSnippet(db, snip))
        /\ old.LibraryID \in LibraryIDsOf(db)
    BY <1>2 DEF OnSnippetDuplicate_Yes, Waiting, HasRow
  <2>2. frame.item \in DOMAIN list
    BY <2>1 DEF IInv, FrameHolds
  <2>3. old \in SnippetRow /\ old.LibraryID \in LibraryIDsOf(db)
    BY <2>1, <2>2, ItemOf
  <2>4. id \in SnippetIDs \ SnippetIDsOf(db)
    BY <2>1, NewSnippetID
  <2> HIDE DEF id, old
  <2>5. snip \in SnippetRow /\ snip.SnippetID = id /\ snip.LibraryID = old.LibraryID
    BY <2>3, <2>4, ConsoleAssumption DEF SnippetRow
  <2> HIDE DEF snip
  <2>6. Consistent(InsertSnippet(db, snip))
    BY <2>3, <2>4, <2>5, InsertSnippetConsistent, InvariantIsConsistent
  <2>7. QED
    BY <2>1, <2>6, RefreshPreserves
<1>3. QED
  BY <1>1, <1>2

(* Where the snippet that a move puts at position k was before. *)
Source(item, to, k) ==
  IF k = to THEN item
  ELSE IF k < to THEN (IF k < item THEN k ELSE k + 1)
                 ELSE (IF k - 1 < item THEN k - 1 ELSE k)

(* A move puts every snippet of the list in one place, and keeps the order  *)
(* of all but the one it moves.                                             *)
LEMMA SourceIsPermutation ==
  ASSUME NEW n \in Nat, NEW item \in 1..n, NEW to \in 1..n
  PROVE  /\ \A k \in 1..n : Source(item, to, k) \in 1..n
         /\ \A k, m \in 1..n : Source(item, to, k) = Source(item, to, m) => k = m
         /\ \A j \in 1..n : \E k \in 1..n : Source(item, to, k) = j
         /\ \A k, m \in 1..n :
              (k # to /\ m # to /\ Source(item, to, k) < Source(item, to, m)) => k < m
<1>1. \A k \in 1..n : Source(item, to, k) \in 1..n
  BY DEF Source
<1>2. \A k, m \in 1..n : Source(item, to, k) = Source(item, to, m) => k = m
  BY DEF Source
<1>3. \A k, m \in 1..n :
        (k # to /\ m # to /\ Source(item, to, k) < Source(item, to, m)) => k < m
  BY DEF Source
<1>4. ASSUME NEW j \in 1..n PROVE \E k \in 1..n : Source(item, to, k) = j
  <2> DEFINE r == IF j < item THEN j ELSE j - 1
  <2> DEFINE k == IF j = item THEN to ELSE IF r < to THEN r ELSE r + 1
  <2>1. k \in 1..n
    OBVIOUS
  <2>2. Source(item, to, k) = j
    BY DEF Source
  <2>3. QED
    BY <2>1, <2>2
<1>5. QED
  BY <1>1, <1>2, <1>3, <1>4

(* What MovedTo puts where.                                                 *)
LEMMA MovedToProperties ==
  ASSUME list \in Seq(SnippetRow), NEW item \in DOMAIN list, NEW to \in DOMAIN list
  PROVE  /\ MovedTo(item, to) \in Seq(SnippetRow)
         /\ Len(MovedTo(item, to)) = Len(list)
         /\ \A k \in 1..Len(list) : MovedTo(item, to)[k] = list[Source(item, to, k)]
<1>1. Len(list) \in Nat /\ DOMAIN list = 1..Len(list)
  BY LenProperties
<1> DEFINE rest == RemoveAt(list, item)
<1>2. /\ rest \in Seq(SnippetRow) /\ Len(rest) = Len(list) - 1
      /\ \A k \in 1..(Len(list) - 1) :
           rest[k] = IF k < item THEN list[k] ELSE list[k + 1]
  <2>1. item \in 1..Len(list)
    BY <1>1
  <2>2. QED
    BY <2>1, RemoveAtProperties
<1> HIDE DEF rest
<1> DEFINE moved == InsertAt(rest, to, list[item])
<1>3. to \in 1..(Len(rest) + 1) /\ list[item] \in SnippetRow
  BY <1>1, <1>2, ElementOfSeq
<1>4. /\ moved \in Seq(SnippetRow) /\ Len(moved) = Len(rest) + 1
      /\ \A k \in 1..(Len(rest) + 1) :
           moved[k] = IF k < to THEN rest[k] ELSE IF k = to THEN list[item] ELSE rest[k - 1]
  <2>1. rest \in Seq(SnippetRow)
    BY <1>2
  <2>2. \A e \in SnippetRow : \A i \in 1..(Len(rest) + 1) :
          /\ InsertAt(rest, i, e) \in Seq(SnippetRow)
          /\ Len(InsertAt(rest, i, e)) = Len(rest) + 1
          /\ \A k \in 1..(Len(rest) + 1) :
               InsertAt(rest, i, e)[k] =
                 IF k < i THEN rest[k] ELSE IF k = i THEN e ELSE rest[k - 1]
    BY <2>1, InsertAtProperties
  <2>3. QED
    BY <1>3, <2>2, Zenon
<1> HIDE DEF moved
<1>5. Len(moved) = Len(list)
  BY <1>1, <1>2, <1>4
<1>6. ASSUME NEW k \in 1..Len(list) PROVE moved[k] = list[Source(item, to, k)]
  <2>1. moved[k] = IF k < to THEN rest[k] ELSE IF k = to THEN list[item] ELSE rest[k - 1]
    BY <1>1, <1>2, <1>4
  <2>2. CASE k < to
    BY <1>1, <1>2, <2>1, <2>2 DEF Source
  <2>3. CASE k = to
    BY <1>1, <2>1, <2>3 DEF Source
  <2>4. CASE k > to
    <3>1. k - 1 \in 1..(Len(list) - 1) /\ k - 1 + 1 = k
      BY <1>1, <2>4
    <3>2. rest[k - 1] = IF k - 1 < item THEN list[k - 1] ELSE list[k]
      BY <1>2, <3>1
    <3>3. QED
      BY <1>1, <2>1, <2>4, <3>2 DEF Source
  <2>5. QED
    BY <1>1, <2>2, <2>3, <2>4
<1>7. MovedTo(item, to) = moved
  BY DEF MovedTo, moved, rest
<1>8. QED
  BY <1>4, <1>5, <1>6, <1>7

(* A move shows every snippet in its new place with that place as its sort  *)
(* number, and stores it so.                                                *)
LEMMA MoveEffect ==
  ASSUME IInv, NEW item \in DOMAIN list, NEW to, MoveTo(item, to)
  PROVE  /\ Len(list) \in Nat /\ DOMAIN list = 1..Len(list)
         /\ item \in 1..Len(list) /\ to \in 1..Len(list) /\ Len(list) <= MaxSort
         /\ list' \in Seq(SnippetRow) /\ DOMAIN list' = 1..Len(list)
         /\ \A k \in 1..Len(list) :
              list'[k] = [list[Source(item, to, k)] EXCEPT !.Sort = k]
         /\ db' = UpdateSorts(db, list')
<1>1. /\ list' = Renumbered(MovedTo(item, to))
      /\ db' = UpdateSorts(db, list')
      /\ to \in DOMAIN list /\ Len(list) <= MaxSort
  BY DEF MoveTo
<1>2. list \in Seq(SnippetRow) /\ Len(list) \in Nat /\ DOMAIN list = 1..Len(list)
  BY LenProperties DEF IInv, TypeOK
<1>3. /\ MovedTo(item, to) \in Seq(SnippetRow) /\ DOMAIN MovedTo(item, to) = 1..Len(list)
      /\ \A k \in 1..Len(list) : MovedTo(item, to)[k] = list[Source(item, to, k)]
  BY <1>1, <1>2, MovedToProperties, LenProperties
<1>4. list' = [k \in 1..Len(list) |-> [list[Source(item, to, k)] EXCEPT !.Sort = k]]
  BY <1>1, <1>3 DEF Renumbered
<1>5. ASSUME NEW k \in 1..Len(list)
      PROVE  [list[Source(item, to, k)] EXCEPT !.Sort = k] \in SnippetRow
  <2>1. Source(item, to, k) \in 1..Len(list)
    BY <1>1, <1>2, SourceIsPermutation
  <2>2. list[Source(item, to, k)] \in SnippetRow
    BY <1>2, <2>1, ElementOfSeq
  <2>3. k \in 0..MaxSort
    BY <1>1, <1>2, TablesAssumption
  <2>4. QED
    BY <2>2, <2>3 DEF SnippetRow
<1>6. list' \in Seq(SnippetRow)
  <2>1. list' \in [1..Len(list) -> SnippetRow]
    BY <1>4, <1>5, Zenon
  <2>2. QED
    BY <1>2, <2>1
<1>7. QED
  BY <1>1, <1>2, <1>4, <1>6

(* Moving a snippet renumbers the list.                                     *)
LEMMA MovePreserves ==
  ASSUME IInv, NEW item \in DOMAIN list, NEW to, MoveTo(item, to)
  PROVE  IInv'
<1>1. /\ UNCHANGED <<lang, visible, shown, combo, cur, curLang, filter, fault, unsaved>>
      /\ frame' = NoFrame
  BY DEF MoveTo, SnippetMenu, Ready, Idle
<1>2. unsaved' \in BOOLEAN
  BY <1>1 DEF IInv, TypeOK
<1>3. Consistent(db')
  BY MoveEffect, UpdateSortsConsistent, InvariantIsConsistent
<1>4. QED
  BY <1>1, <1>2, <1>3, MoveEffect, ListChangePreserves

(* A move that is refused leaves the rows, and the list moved: every object *)
(* in its new place, with that place or its old number as its Sort.         *)
LEMMA MoveRefusedEffect ==
  ASSUME IInv, NEW item \in DOMAIN list, NEW to, MoveTo_Refused(item, to)
  PROVE  /\ Len(list) \in Nat /\ DOMAIN list = 1..Len(list)
         /\ item \in 1..Len(list) /\ to \in 1..Len(list)
         /\ list' \in Seq(SnippetRow) /\ DOMAIN list' = 1..Len(list)
         /\ \A k \in 1..Len(list) :
              /\ list'[k].SnippetID = list[Source(item, to, k)].SnippetID
              /\ list'[k].LibraryID = list[Source(item, to, k)].LibraryID
<1>1. list \in Seq(SnippetRow) /\ Len(list) \in Nat /\ DOMAIN list = 1..Len(list)
  BY LenProperties DEF IInv, TypeOK
<1>2. to \in DOMAIN list /\ Len(list) <= MaxSort
  BY DEF MoveTo_Refused
<1> DEFINE moved == MovedTo(item, to)
<1>3. PICK last \in DOMAIN moved :
        list' = [i \in DOMAIN moved |->
                   IF i <= last THEN [moved[i] EXCEPT !.Sort = i] ELSE moved[i]]
  BY DEF MoveTo_Refused
<1>4. /\ DOMAIN moved = 1..Len(list)
      /\ \A k \in 1..Len(list) : moved[k] \in SnippetRow
      /\ \A k \in 1..Len(list) : moved[k] = list[Source(item, to, k)]
  BY <1>1, <1>2, MovedToProperties, LenProperties, ElementOfSeq
<1> HIDE DEF moved
<1>5. ASSUME NEW k \in 1..Len(list)
      PROVE  /\ list'[k] \in SnippetRow
             /\ list'[k].SnippetID = moved[k].SnippetID
             /\ list'[k].LibraryID = moved[k].LibraryID
  <2>1. list'[k] = IF k <= last THEN [moved[k] EXCEPT !.Sort = k] ELSE moved[k]
    BY <1>3, <1>4
  <2>2. moved[k] \in SnippetRow /\ k \in 0..MaxSort
    BY <1>1, <1>2, <1>4, TablesAssumption
  <2>3. QED
    BY <2>1, <2>2 DEF SnippetRow
<1>6. list' \in Seq(SnippetRow) /\ DOMAIN list' = 1..Len(list)
  <2>1. DOMAIN list' = 1..Len(list) /\ list' = [k \in 1..Len(list) |-> list'[k]]
    BY <1>3, <1>4
  <2>2. list' \in [1..Len(list) -> SnippetRow]
    BY <1>5, <2>1, Zenon
  <2>3. QED
    BY <1>1, <2>1, <2>2
<1>7. QED
  BY <1>1, <1>2, <1>4, <1>5, <1>6

(* It keeps the invariant.                                                  *)
LEMMA MoveRefusedPreserves ==
  ASSUME IInv, NEW item \in DOMAIN list, NEW to, MoveTo_Refused(item, to)
  PROVE  IInv'
<1>1. /\ UNCHANGED <<db, lang, visible, shown, combo, cur, curLang, filter, fault>>
      /\ frame' = NoFrame /\ unsaved' = TRUE
  BY DEF MoveTo_Refused, SnippetMenu, Ready, Idle
<1>2. unsaved' \in BOOLEAN
  BY <1>1, Zenon
<1>3. Consistent(db')
  BY <1>1, InvariantIsConsistent
<1>4. QED
  BY <1>1, <1>2, <1>3, MoveRefusedEffect, ListChangePreserves

(* The snippet menu keeps the invariant.                                    *)
LEMMA SnippetCommandsPreserve ==
  ASSUME IInv, SnippetCommands
  PROVE  IInv'
<1>1. ASSUME NEW item \in DOMAIN list, OnSnippetInsert(item) PROVE IInv'
  BY <1>1, InsertPreserves
<1>2. ASSUME NEW item \in DOMAIN list,
             OnSnippetEdit(item) \/ OnSnippetDelete(item) \/ OnSnippetDuplicate(item)
      PROVE  IInv'
  BY <1>2, PointAtPreserves DEF OnSnippetEdit, OnSnippetDelete, OnSnippetDuplicate
<1>3. ASSUME NEW item \in DOMAIN list, OnSnippetMoveUp(item) \/ OnSnippetMoveDown(item)
      PROVE  IInv'
  BY <1>3, MovePreserves DEF OnSnippetMoveUp, OnSnippetMoveDown
<1>4. ASSUME NEW item \in DOMAIN list, NEW to, MoveTo_Refused(item, to) PROVE IInv'
  BY <1>4, MoveRefusedPreserves
<1>5. CASE OnSnippetInsert_Done
  BY <1>5, AbandonedPreserves DEF OnSnippetInsert_Done, Abandoned
<1>6. CASE OnSnippetAdd
  BY <1>6, AddPreserves
<1>7. CASE OnSnippetAdd_Refused
  BY <1>7, RefreshPreserves, InvariantIsConsistent DEF OnSnippetAdd_Refused
<1>8. ASSUME NEW name \in SnipNames, OnSnippetAdd_OK(name) PROVE IInv'
  BY <1>8, AddOKPreserves
<1>9. ASSUME NEW name \in SnipNames, OnSnippetEdit_OK(name) PROVE IInv'
  BY <1>9, EditOKPreserves
<1>10. ASSUME NEW name \in SnipNames, OnSnippetEdit_Refused(name) PROVE IInv'
  BY <1>10, EditRefusedPreserves
<1>11. CASE OnSnippetDelete_Yes
  BY <1>11, DeleteYesPreserves
<1>12. CASE OnSnippetDuplicate_Yes
  BY <1>12, DuplicateYesPreserves
<1>13. CASE OnSnippetDelete_Refused \/ OnSnippetDuplicate_Refused
  BY <1>13, AbandonedPreserves DEF OnSnippetDelete_Refused, OnSnippetDuplicate_Refused
<1>14. QED
  BY <1>1, <1>2, <1>3, <1>4, <1>5, <1>6, <1>7, <1>8, <1>9, <1>10, <1>11, <1>12, <1>13
     DEF SnippetCommands
-----------------------------------------------------------------------------
(* The library menu. *)

(* The object of a new library: its id is that of no row.                   *)
LEMMA NewObjectIs ==
  ASSUME IInv, NEW name \in LibNames, NEW alphabetic \in BOOLEAN,
         NewObject(name, alphabetic).LibraryID <= MaxLibraryID
  PROVE  /\ NewObject(name, alphabetic) \in LibraryRow
         /\ NewObject(name, alphabetic).LibraryID \in LibraryIDs
         /\ NewObject(name, alphabetic).LibraryID \notin LibraryIDsOf(db)
<1> DEFINE id == NextID(LibraryIDsOf(db))
<1>1. LibraryIDsOf(db) \in SUBSET (1..MaxLibraryID) /\ MaxLibraryID \in Nat
  BY RowsOf, InvariantIsConsistent, TablesAssumption DEF LibraryIDs
<1>2. id \in Nat \ {0} /\ id \notin LibraryIDsOf(db)
  BY <1>1, NextIDIsNew
<1>3. /\ NewObject(name, alphabetic) =
           [LibraryID |-> id, Name |-> name, Alphabetic |-> alphabetic]
      /\ id <= MaxLibraryID
  BY DEF NewObject
<1> HIDE DEF id
<1>4. id \in LibraryIDs
  BY <1>1, <1>2, <1>3 DEF LibraryIDs
<1>5. QED
  BY <1>2, <1>3, <1>4 DEF LibraryRow

(* An object put into the combobox comes after those that are there.        *)
LEMMA AppendedCombo ==
  ASSUME IInv, NEW lib \in LibraryRow
  PROVE  /\ Append(combo, lib) \in Seq(LibraryRow)
         /\ Len(Append(combo, lib)) = Len(combo) + 1 /\ Len(combo) \in Nat
         /\ DOMAIN combo = 1..Len(combo)
         /\ DOMAIN Append(combo, lib) = 1..(Len(combo) + 1)
         /\ \A i \in 1..Len(combo) : Append(combo, lib)[i] = combo[i]
         /\ Append(combo, lib)[Len(combo) + 1] = lib
<1>1. combo \in Seq(LibraryRow) /\ Len(combo) \in Nat /\ DOMAIN combo = 1..Len(combo)
  BY LenProperties DEF IInv, TypeOK
<1>2. /\ Append(combo, lib) \in Seq(LibraryRow)
      /\ Len(Append(combo, lib)) = Len(combo) + 1
      /\ \A i \in 1..Len(combo) : Append(combo, lib)[i] = combo[i]
      /\ Append(combo, lib)[Len(combo) + 1] = lib
  BY <1>1, AppendProperties
<1>3. QED
  BY <1>1, <1>2, LenProperties

(* Putting a new library into the combobox, whether or not it was stored,   *)
(* keeps the invariant.                                                     *)
LEMMA NewLibraryPreserves ==
  ASSUME IInv, NEW lib \in LibraryRow, Consistent(db'), lib.LibraryID \in LibraryIDs,
         combo' = Append(combo, lib), Suspend("LibraryNewLang", 0, lib.LibraryID, 0),
         UNCHANGED <<lang, visible, shown, cur, curLang, filter, list, fault>>,
         unsaved' \in BOOLEAN
  PROVE  IInv'
<1>1. frame' = [cmd |-> "LibraryNewLang", item |-> 0, target |-> lib.LibraryID, sort |-> 0,
                live |-> TRUE]
  BY DEF Suspend
<1>2. frame' \in Frame
  BY <1>1, TablesAssumption DEF Frame, Internal
<1>3. FrameHolds'
  BY <1>1 DEF FrameHolds
<1>4. combo' \in Seq(LibraryRow) /\ Len(combo') = Len(combo) + 1 /\ Len(combo) \in Nat
  BY AppendedCombo
<1>5. cur' \in 0..Len(combo')
  BY <1>4 DEF IInv, TypeOK
<1>6. TypeOK'
  BY <1>2, <1>4, <1>5 DEF IInv, TypeOK, Consistent
<1>7. QED
  BY <1>3, <1>6 DEF IInv, Consistent, IDsUnique, RefIntegrity

(* Inserting a library keeps the invariant.                                 *)
LEMMA LibraryNewOKPreserves ==
  ASSUME IInv, NEW name \in LibNames, NEW alphabetic \in BOOLEAN,
         OnLibraryNew_OK(name, alphabetic)
  PROVE  IInv'
<1> DEFINE lib == NewObject(name, alphabetic)
<1>1. /\ lib.LibraryID <= MaxLibraryID
      /\ db' = InsertLibrary(db, lib)
      /\ combo' = Append(combo, lib)
      /\ Suspend("LibraryNewLang", 0, lib.LibraryID, 0)
      /\ UNCHANGED <<lang, visible, shown, cur, curLang, filter, list, fault, unsaved>>
  BY DEF OnLibraryNew_OK, Waiting
<1>2. lib \in LibraryRow /\ lib.LibraryID \in LibraryIDs /\ lib.LibraryID \notin LibraryIDsOf(db)
  BY <1>1, NewObjectIs
<1> HIDE DEF lib
<1>3. Consistent(db')
  BY <1>1, <1>2, InsertLibraryConsistent, InvariantIsConsistent
<1>4. unsaved' \in BOOLEAN
  BY <1>1 DEF IInv, TypeOK
<1>5. QED
  BY <1>1, <1>2, <1>3, <1>4, NewLibraryPreserves

(* So does a library whose INSERT was refused.                              *)
LEMMA LibraryNewRefusedPreserves ==
  ASSUME IInv, NEW name \in LibNames, NEW alphabetic \in BOOLEAN,
         OnLibraryNew_Refused(name, alphabetic)
  PROVE  IInv'
<1> DEFINE lib == NewObject(name, alphabetic)
<1>1. /\ lib.LibraryID <= MaxLibraryID /\ unsaved' = TRUE
      /\ combo' = Append(combo, lib)
      /\ Suspend("LibraryNewLang", 0, lib.LibraryID, 0)
      /\ UNCHANGED <<db, lang, visible, shown, cur, curLang, filter, list, fault>>
  BY DEF OnLibraryNew_Refused, Waiting
<1>2. lib \in LibraryRow /\ lib.LibraryID \in LibraryIDs
  BY <1>1, NewObjectIs
<1> HIDE DEF lib
<1>3. Consistent(db')
  BY <1>1, InvariantIsConsistent
<1>4. unsaved' \in BOOLEAN
  BY <1>1, Zenon
<1>5. QED
  BY <1>1, <1>2, <1>3, <1>4, NewLibraryPreserves

(* Adding the language of the new library keeps the invariant.              *)
LEMMA LibraryNewAddLanguagePreserves ==
  ASSUME IInv, OnLibraryNew_AddLanguage
  PROVE  IInv'
<1>1. /\ frame.target \in LibraryIDsOf(db)
      /\ db' = AddLanguage(db, frame.target, curLang)
      /\ frame' = NoFrame
      /\ UNCHANGED <<lang, visible, shown, combo, cur, curLang, filter, list, fault, unsaved>>
  BY DEF OnLibraryNew_AddLanguage, HasRow, widgets
<1>2. curLang \in LangIDs
  BY <1>1 DEF IInv, TypeOK, LangIDs
<1>3. Consistent(db')
  BY <1>1, <1>2, AddLanguageConsistent, InvariantIsConsistent
<1>4. list' \in Seq(SnippetRow) /\ unsaved' \in BOOLEAN
  BY <1>1 DEF IInv, TypeOK
<1>5. QED
  BY <1>1, <1>3, <1>4, ListChangePreserves

(* So does the second write when it is refused.                             *)
LEMMA LibraryNewAddLanguageRefusedPreserves ==
  ASSUME IInv, OnLibraryNew_AddLanguage_Refused
  PROVE  IInv'
<1>1. /\ frame' = NoFrame /\ unsaved' = TRUE
      /\ UNCHANGED <<db, lang, visible, shown, combo, cur, curLang, filter, list, fault>>
  BY DEF OnLibraryNew_AddLanguage_Refused
<1>2. list' \in Seq(SnippetRow)
  BY <1>1 DEF IInv, TypeOK
<1>3. unsaved' \in BOOLEAN
  BY <1>1, Zenon
<1>4. Consistent(db')
  BY <1>1, InvariantIsConsistent
<1>5. QED
  BY <1>1, <1>2, <1>3, <1>4, ListChangePreserves

(* Saving an edited library keeps the invariant.                            *)
LEMMA LibraryEditOKPreserves ==
  ASSUME IInv, NEW name \in LibNames, NEW alphabetic \in BOOLEAN,
         OnLibraryEdit_OK(name, alphabetic)
  PROVE  IInv'
<1> DEFINE lib == [combo[cur] EXCEPT !.Name = name, !.Alphabetic = alphabetic]
<1>1. CASE Dangling
  BY <1>1, DanglingPreserves
<1>2. CASE frame.target = 0 /\ Fault("null") /\ UNCHANGED frame
  BY <1>2, FaultPreserves
<1>3. CASE frame.live /\ frame.target # 0 /\ DoneAndRefresh(UpdateLibrary(db, lib))
  <2>1. cur # 0
    BY <1>3 DEF OnLibraryEdit_OK, Waiting, IInv, FrameHolds
  <2>2. lib \in LibraryRow
    BY <2>1, CurrentOf DEF LibraryRow
  <2> HIDE DEF lib
  <2>3. Consistent(UpdateLibrary(db, lib))
    BY <2>2, UpdateLibraryConsistent, InvariantIsConsistent
  <2>4. QED
    BY <1>3, <2>3, RefreshPreserves
<1>4. QED
  BY <1>1, <1>2, <1>3 DEF OnLibraryEdit_OK

(* Saving the languages of a library keeps the invariant.                   *)
LEMMA LibraryLanguagesOKPreserves ==
  ASSUME IInv, NEW langs \in SUBSET LangIDs, OnLibraryLanguages_OK(langs)
  PROVE  IInv'
<1>1. CASE Dangling
  BY <1>1, DanglingPreserves
<1>2. CASE ~Dangling
  <2>1. /\ combo[cur].LibraryID \in LibraryIDsOf(db)
        /\ DoneAndRefresh(SaveLanguages(db, combo[cur].LibraryID, langs))
    BY <1>2 DEF OnLibraryLanguages_OK, HasRow
  <2>2. Consistent(SaveLanguages(db, combo[cur].LibraryID, langs))
    BY <2>1, SaveLanguagesConsistent, InvariantIsConsistent
  <2>3. QED
    BY <2>1, <2>2, RefreshPreserves
<1>3. QED
  BY <1>1, <1>2

(* Deleting a library with all that refers to it keeps the invariant, since *)
(* the widgets are read again.                                              *)
LEMMA LibraryDeleteYesPreserves ==
  ASSUME IInv, OnLibraryDelete_Yes
  PROVE  IInv'
<1>1. CASE cur = 0
  BY <1>1, FaultPreserves DEF OnLibraryDelete_Yes
<1>2. CASE cur # 0
  <2>1. DoneAndRefresh(DeleteLibrary(db, combo[cur].LibraryID))
    BY <1>2 DEF OnLibraryDelete_Yes
  <2>2. Consistent(DeleteLibrary(db, combo[cur].LibraryID))
    BY DeleteLibraryConsistent, InvariantIsConsistent
  <2>3. QED
    BY <2>1, <2>2, RefreshPreserves
<1>3. QED
  BY <1>1, <1>2

(* The commands that only open their dialog. *)
LEMMA LibraryDialogPreserves ==
  ASSUME IInv, NEW cmd \in {"LibraryNew", "LibraryEdit", "LibraryLanguages", "LibraryDelete"},
         NEW target \in {0, CurrentID}, Suspend(cmd, 0, target, 0),
         UNCHANGED <<db, widgets>>, fault' \in {"none", "null"}
  PROVE  IInv'
<1>1. cmd \in Modal \cup Internal /\ 0 \in 0..MaxSort
  BY TablesAssumption DEF Modal
<1>2. CurrentID \in {0} \cup LibraryIDs /\ (CurrentID # 0 => cur # 0)
  BY CurrentOf DEF CurrentID
<1>3. target \in {0} \cup LibraryIDs \cup SnippetIDs /\ (target # 0 => cur # 0)
  BY <1>2
<1>4. QED
  BY <1>1, <1>3, SuspendPreserves

(* The library menu keeps the invariant.                                    *)
LEMMA LibraryCommandsPreserve ==
  ASSUME IInv, LibraryCommands
  PROVE  IInv'
<1>1. CASE OnLibraryNew
  BY <1>1, LibraryDialogPreserves DEF OnLibraryNew, Ready, Idle
<1>2. CASE OnLibraryEdit
  BY <1>2, LibraryDialogPreserves DEF OnLibraryEdit, Ready, Idle
<1>3. CASE OnLibraryLanguages
  BY <1>3, LibraryDialogPreserves DEF OnLibraryLanguages, Ready, Idle
<1>4. CASE OnLibraryDelete
  <2>1. Suspend("LibraryDelete", 0, CurrentID, 0) /\ UNCHANGED <<db, widgets>>
        /\ fault' \in {"none", "null"}
    BY <1>4 DEF OnLibraryDelete, Ready, Idle, Fault
  <2>2. QED
    BY <2>1, LibraryDialogPreserves
<1> Sortings \subseteq BOOLEAN
  BY ConsoleAssumption
<1>5. ASSUME NEW name \in LibNames, NEW alphabetic \in Sortings,
             OnLibraryNew_OK(name, alphabetic)
      PROVE  IInv'
  <2>1. alphabetic \in BOOLEAN
    OBVIOUS
  <2>2. QED
    BY <1>5, <2>1, LibraryNewOKPreserves
<1>6. ASSUME NEW name \in LibNames, NEW alphabetic \in Sortings,
             OnLibraryNew_Refused(name, alphabetic)
      PROVE  IInv'
  <2>1. alphabetic \in BOOLEAN
    OBVIOUS
  <2>2. QED
    BY <1>6, <2>1, LibraryNewRefusedPreserves
<1>7. ASSUME NEW name \in LibNames, NEW alphabetic \in Sortings,
             OnLibraryEdit_OK(name, alphabetic)
      PROVE  IInv'
  <2>1. alphabetic \in BOOLEAN
    OBVIOUS
  <2>2. QED
    BY <1>7, <2>1, LibraryEditOKPreserves
<1>8. CASE OnLibraryNew_AddLanguage
  BY <1>8, LibraryNewAddLanguagePreserves
<1>9. CASE OnLibraryNew_AddLanguage_Refused
  BY <1>9, LibraryNewAddLanguageRefusedPreserves
<1>10. ASSUME NEW langs \in SUBSET LangIDs, OnLibraryLanguages_OK(langs) PROVE IInv'
  BY <1>10, LibraryLanguagesOKPreserves
<1>11. CASE OnLibraryDelete_Yes
  BY <1>11, LibraryDeleteYesPreserves
<1>12. CASE OnLibraryEdit_Refused \/ OnLibraryLanguages_Refused
  BY <1>12, RefreshPreserves, InvariantIsConsistent
     DEF OnLibraryEdit_Refused, OnLibraryLanguages_Refused
<1>13. CASE OnLibraryDelete_Refused
  BY <1>13, AbandonedPreserves DEF OnLibraryDelete_Refused
<1>14. QED
  BY <1>1, <1>2, <1>3, <1>4, <1>5, <1>6, <1>7, <1>8, <1>9, <1>10, <1>11, <1>12, <1>13
     DEF LibraryCommands

-----------------------------------------------------------------------------
(* The theorems. *)

(* Every step keeps the invariant.                                          *)
LEMMA StepPreserves == IInv /\ [Next]_vars => IInv'
<1> SUFFICES ASSUME IInv, [Next]_vars PROVE IInv'
  OBVIOUS
<1>1. CASE Next
  BY <1>1, NotepadPreserves, WidgetsPreserve, SnippetCommandsPreserve,
     LibraryCommandsPreserve DEF Next
<1>2. CASE UNCHANGED vars
  BY <1>2 DEF vars, IInv, TypeOK, IDsUnique, RefIntegrity, FrameHolds
<1>3. QED
  BY <1>1, <1>2

(* The inductive invariant: types, keys, references and what suspended      *)
(* handlers rely on hold together through every handler, every write that   *)
(* SQLite refuses, every notification, close of the window and crash.       *)
THEOREM InvariantHolds == Spec => []IInv
<1>1. Init => IInv
  BY InitHolds
<1>2. IInv /\ [Next]_vars => IInv'
  BY StepPreserves
<1>3. QED
  BY <1>1, <1>2, PTL DEF Spec

(* Every variable keeps its type: in particular no handler indexes a widget *)
(* outside of it and every id saved is one the schema allows.               *)
THEOREM TypesHold == Spec => []TypeOK
<1>1. IInv => TypeOK
  BY DEF IInv
<1>2. QED
  BY <1>1, InvariantHolds, PTL

(* No two rows of a table share a key, though ids are reused (MAX + 1) and  *)
(* the last-used table is written in two statements.                        *)
THEOREM IDsUniqueHold == Spec => []IDsUnique
<1>1. IInv => IDsUnique
  BY DEF IInv
<1>2. QED
  BY <1>1, InvariantHolds, PTL

(* No row refers to a library that is gone, for any number of libraries and *)
(* snippets, also when the process ends between two writes.                 *)
THEOREM RefIntegrityHolds == Spec => []RefIntegrity
<1>1. IInv => RefIntegrity
  BY DEF IInv
<1>2. QED
  BY <1>1, InvariantHolds, PTL
=============================================================================
