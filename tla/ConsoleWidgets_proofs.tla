------------------------ MODULE ConsoleWidgets_proofs ------------------------
(***************************************************************************)
(* The widgets show what is stored: FreshInv is inductive, and with it     *)
(* ComboFresh, ListFresh, ListedOnce and LastUsedIsShown hold in every     *)
(* state, with and without notifications during dialogs and crashes.  From *)
(* it follow the order a new snippet and a move leave the snippets in, that*)
(* a library with a language can be reached, and that the console          *)
(* implements module Collection.                                           *)
(***************************************************************************)
EXTENDS Console_proofs

-----------------------------------------------------------------------------
(* Reading the widgets. *)

(* What holds of the list, and of the combobox, at every step.              *)
ListHolds == ListShows /\ (~unsaved => ListCopies)
ComboHolds == ComboShows /\ (~unsaved => ComboCopies /\ ChoiceHolds)

(* The widgets are fresh when both hold; a hidden console asks nothing of   *)
(* the combobox.                                                            *)
LEMMA WidgetsParts == WidgetsFresh <=> ListHolds /\ (shown /\ fault = "none" => ComboHolds)
  BY DEF WidgetsFresh, ListHolds, ComboHolds

(* The libraries for a language depend on two tables only.                  *)
LEMMA LibrariesForSame ==
  ASSUME NEW d, NEW e, e.Library = d.Library, e.LibraryLang = d.LibraryLang
  PROVE  \A l : LibrariesFor(e, l) = LibrariesFor(d, l)
  BY DEF LibrariesFor

(* An empty list is right when no library is chosen.                        *)
LEMMA EmptyHolds ==
  ASSUME list' = <<>>, cur' = 0
  PROVE  ListHolds'
<1>1. DOMAIN list' = {}
  OBVIOUS
<1>2. QED
  BY <1>1 DEF ListHolds, ListShows, ListCopies

(* AddListItems puts the snippets of the current library in the list that   *)
(* the filter lets through, each once.                                      *)
LEMMA ListIsRead ==
  ASSUME NEW d, Consistent(d), AddListItems(d), db'.Snippets = d.Snippets
  PROVE  ListHolds'
<1>1. CASE cur' = 0
  BY <1>1, EmptyHolds DEF AddListItems
<1>2. CASE cur' # 0
  <2> DEFINE lib == combo'[cur']
  <2>1. list' \in SnippetRows(d, lib, filter')
    BY <1>2 DEF AddListItems
  <2> HIDE DEF lib
  <2>2. /\ \A i \in DOMAIN list' : list'[i] \in SnippetsLike(d, lib, filter')
        /\ \A i, j \in DOMAIN list' : list'[i].SnippetID = list'[j].SnippetID => i = j
        /\ \A s \in SnippetsLike(d, lib, filter') : \E i \in DOMAIN list' : list'[i] = s
        /\ ~lib.Alphabetic =>
             \A i, j \in DOMAIN list' : i < j => list'[i].Sort <= list'[j].Sort
    BY <2>1, SnippetRowsOf
  <2>3. SnippetsLike(d, lib, filter') = SnippetsLike(db', lib, filter')
    BY DEF SnippetsLike
  <2>4. \A i \in DOMAIN list' : list'[i] \in db'.Snippets /\ list'[i].LibraryID = lib.LibraryID
    BY <2>2, <2>3 DEF SnippetsLike
  <2>5. ListShows'
    BY <1>2, <2>2, <2>3, <2>4 DEF ListShows, lib
  <2>6. ListCopies'
    BY <1>2, <2>2, <2>4 DEF ListCopies, lib
  <2>7. QED
    BY <2>5, <2>6 DEF ListHolds
<1>3. QED
  BY <1>1, <1>2

(* The library last used, when it is among the rows, is the one selected.   *)
LEMMA ChoiceIsLastUsed ==
  ASSUME NEW rows, NEW T, rows \in Seq(T), NEW last,
         \E i \in DOMAIN rows : rows[i].lib.LibraryID = last
  PROVE  /\ Choice(rows, last) \in DOMAIN rows
         /\ rows[Choice(rows, last)].lib.LibraryID = last
<1> DEFINE used == {i \in DOMAIN rows : rows[i].lib.LibraryID = last}
<1>1. used # {} /\ used \in SUBSET Nat
  BY LenProperties
<1>2. Choice(rows, last) = Min(used)
  BY <1>1, Zenon DEF Choice
<1>3. Min(used) \in used
  BY <1>1, MinOf
<1>4. QED
  BY <1>2, <1>3

(* The one row of LangLastUsed for a language is what the query returns.    *)
LEMMA LastUsedOf ==
  ASSUME NEW d, Consistent(d), NEW u \in d.LangLastUsed
  PROVE  LastUsed(d, u.Lang) = u.LibraryID
<1> DEFINE used == {v \in d.LangLastUsed : v.Lang = u.Lang}
<1>1. used # {}
  OBVIOUS
<1>2. (CHOOSE v \in used : TRUE) \in used
  BY <1>1, Zenon
<1>3. (CHOOSE v \in used : TRUE) = u
  BY <1>2, Zenon DEF Consistent, KeysUnique
<1>4. LastUsed(d, u.Lang) = (CHOOSE v \in used : TRUE).LibraryID
  BY <1>1, Zenon DEF LastUsed
<1>5. QED
  BY <1>3, <1>4, Zenon

(* UpdateSnippetsList leaves widgets that show what is stored, whatever they*)
(* held before.                                                             *)
LEMMA WidgetsAreRead ==
  ASSUME NEW d, Consistent(d), db' = d, NEW l \in Langs, lang' = l,
         UpdateSnippetsList(d, l), frame'.cmd # "LibraryNewLang"
  PROVE  WidgetsFresh'
<1> DEFINE language == IF LibrariesFor(d, l) # {} THEN l ELSE NoOtherLib
<1>1. curLang' = language /\ AddListItems(d)
  BY DEF UpdateSnippetsList, AddComboItems
<1>2. PICK rows \in LibraryRows(d, language) :
        /\ combo' = [i \in DOMAIN rows |-> rows[i].lib]
        /\ cur' = Choice(rows, LastUsed(d, language))
  BY DEF UpdateSnippetsList, AddComboItems
<1>3. curLang' = IF LibrariesFor(db', lang') # {} THEN lang' ELSE NoOtherLib
  BY <1>1
<1> HIDE DEF language
<1>4. rows \in Seq([lib : d.Library, Lang : {language, AllLanguages}])
  BY LibraryRowsTyped
<1>5. DOMAIN combo' = DOMAIN rows /\ \A i \in DOMAIN rows : combo'[i] = rows[i].lib
  BY <1>2
<1>6. /\ \A i \in DOMAIN rows : rows[i] \in LibrariesFor(d, language)
      /\ \A r \in LibrariesFor(d, language) : \E i \in DOMAIN rows : rows[i] = r
  BY LibraryRowsOf
<1>7. NewLibrary' = {}
  BY DEF NewLibrary
<1>8. ComboShows' /\ ComboCopies'
  <2>1. \A i \in DOMAIN combo' : \E r \in LibrariesFor(d, language) : combo'[i] = r.lib
    BY <1>5, <1>6
  <2>2. \A x \in {r.lib : r \in LibrariesFor(d, language)} :
          \E i \in DOMAIN combo' : combo'[i] = x
    BY <1>5, <1>6
  <2>3. ComboShows'
    BY <1>1, <1>3, <1>7, <2>2 DEF ComboShows
  <2>4. ComboCopies'
    BY <1>1, <1>7, <2>1 DEF ComboCopies
  <2>5. QED
    BY <2>3, <2>4
<1>9. ListHolds'
  BY <1>1, ListIsRead
<1>10. ASSUME NEW u \in d.LangLastUsed, u.Lang = language,
              \E i \in DOMAIN combo' : combo'[i].LibraryID = u.LibraryID
       PROVE  CurrentID' = u.LibraryID
  <2>1. LastUsed(d, language) = u.LibraryID
    BY <1>10, LastUsedOf
  <2>2. \E i \in DOMAIN rows : rows[i].lib.LibraryID = u.LibraryID
    BY <1>5, <1>10
  <2>3. cur' \in DOMAIN rows /\ rows[cur'].lib.LibraryID = u.LibraryID
    BY <1>2, <1>4, <2>1, <2>2, ChoiceIsLastUsed
  <2>4. cur' # 0
    BY <1>4, <2>3, LenProperties
  <2>5. QED
    BY <1>5, <2>3, <2>4 DEF CurrentID
<1>11. ChoiceHolds'
  BY <1>1, <1>10 DEF ChoiceHolds
<1>12. QED
  BY <1>8, <1>9, <1>11 DEF WidgetsFresh, ListHolds

-----------------------------------------------------------------------------
(* Steps that leave most widgets alone. *)

(* Nothing is asked of the suspended handler when there is none.            *)
LEMMA NoFrameKnows ==
  ASSUME frame' = NoFrame, shown' => visible'
  PROVE  FrameKnows'
  BY DEF FrameKnows, NoFrame

(* The databases an invariant step leads to are consistent.                 *)
LEMMA StepIsConsistent ==
  ASSUME IInv'
  PROVE  Consistent(db')
  BY DEF IInv, TypeOK, IDsUnique, RefIntegrity, Consistent

(* A handler that is done, and has refreshed the console.                   *)
LEMMA RefreshFreshens ==
  ASSUME FreshInv, IInv', NEW d, DoneAndRefresh(d)
  PROVE  FreshInv'
<1>1. /\ db' = d /\ frame' = NoFrame /\ UpdateSnippetsList(d, lang) /\ lang' = lang
      /\ visible' = visible /\ shown' = shown
  BY DEF DoneAndRefresh
<1>2. lang \in Langs /\ Consistent(d)
  BY <1>1, StepIsConsistent DEF FreshInv, IInv, TypeOK
<1>3. WidgetsFresh'
  BY <1>1, <1>2, WidgetsAreRead DEF NoFrame
<1>4. shown' => visible'
  BY <1>1 DEF FreshInv, FrameKnows
<1>5. QED
  BY <1>1, <1>3, <1>4, NoFrameKnows DEF FreshInv

(* The combobox does not depend on the snippets or on the last used         *)
(* libraries.                                                               *)
LEMMA ComboStays ==
  ASSUME ComboHolds, UNCHANGED <<lang, combo, curLang>>,
         db'.Library = db.Library, db'.LibraryLang = db.LibraryLang,
         frame.cmd # "LibraryNewLang", frame'.cmd # "LibraryNewLang",
         ~unsaved' => ~unsaved /\ ChoiceHolds'
  PROVE  ComboHolds'
<1>1. LibrariesFor(db', lang') = LibrariesFor(db, lang)
      /\ LibrariesFor(db', curLang') = LibrariesFor(db, curLang)
  BY LibrariesForSame
<1>2. NewLibrary = {} /\ NewLibrary' = {}
  BY DEF NewLibrary
<1>3. ComboShows'
  BY <1>1, <1>2 DEF ComboHolds, ComboShows
<1>4. ComboCopies => ComboCopies'
  BY <1>1, <1>2 DEF ComboCopies
<1>5. QED
  BY <1>3, <1>4 DEF ComboHolds

(* Nor does the choice depend on the snippets.                              *)
LEMMA ChoiceStays ==
  ASSUME ChoiceHolds, UNCHANGED <<combo, cur, curLang>>,
         db'.LangLastUsed = db.LangLastUsed
  PROVE  ChoiceHolds'
  BY DEF ChoiceHolds, CurrentID

(* The list depends on the snippets and on which library is chosen, not on  *)
(* which of its objects.                                                    *)
LEMMA ListStays ==
  ASSUME ListHolds, UNCHANGED <<list, filter>>, db'.Snippets = db.Snippets,
         cur = 0 <=> cur' = 0,
         cur # 0 => combo'[cur'].LibraryID = combo[cur].LibraryID,
         ~unsaved' => ~unsaved,
         cur # 0 /\ ~unsaved' => combo'[cur'].Alphabetic = combo[cur].Alphabetic
  PROVE  ListHolds'
<1>1. CASE cur = 0
  BY <1>1, EmptyHolds DEF ListHolds, ListShows
<1>2. CASE cur # 0
  <2>1. SnippetsLike(db', combo'[cur'], filter') = SnippetsLike(db, combo[cur], filter)
    BY <1>2 DEF SnippetsLike
  <2>2. ListShows'
    BY <1>2, <2>1 DEF ListHolds, ListShows
  <2>3. ~unsaved' => ListCopies'
    BY <1>2 DEF ListHolds, ListCopies
  <2>4. QED
    BY <2>2, <2>3 DEF ListHolds
<1>3. QED
  BY <1>1, <1>2

(* A step that leaves database and widgets alone.                           *)
LEMMA WidgetsStay ==
  ASSUME WidgetsFresh, UNCHANGED <<db, widgets>>, fault = "none" \/ fault' # "none",
         frame.cmd # "LibraryNewLang", frame'.cmd # "LibraryNewLang"
  PROVE  WidgetsFresh'
<1>1. UNCHANGED <<db, lang, visible, shown, combo, cur, curLang, filter, list, unsaved>>
  BY DEF widgets
<1>2. ListHolds'
  BY <1>1, ListStays, WidgetsParts
<1>3. ASSUME shown', fault' = "none" PROVE ComboHolds'
  <2>1. ComboHolds
    BY <1>1, <1>3, WidgetsParts
  <2>2. ~unsaved' => ~unsaved /\ ChoiceHolds'
    BY <1>1, <2>1, ChoiceStays DEF ComboHolds
  <2>3. QED
    BY <1>1, <2>1, <2>2, ComboStays
<1>4. QED
  BY <1>2, <1>3 DEF WidgetsFresh, ListHolds, ComboHolds

(* A handler that ends with nothing written and nothing shown otherwise.    *)
LEMMA AbandonedFreshens ==
  ASSUME FreshInv, Abandoned, fault = "none", frame.cmd # "LibraryNewLang"
  PROVE  FreshInv'
<1>1. frame' = NoFrame /\ UNCHANGED <<db, widgets, fault>>
  BY DEF Abandoned
<1>2. WidgetsFresh'
  BY <1>1, WidgetsStay DEF FreshInv, NoFrame
<1>3. shown' => visible'
  BY <1>1 DEF FreshInv, FrameKnows, widgets
<1>4. QED
  BY <1>1, <1>2, <1>3, NoFrameKnows, AbandonedPreserves DEF FreshInv

(* A step that ends in a fault has nothing to show.                         *)
LEMMA FaultFreshens ==
  ASSUME FreshInv, NEW kind \in {"null", "dangling"}, Fault(kind), UNCHANGED frame,
         frame.cmd # "LibraryNewLang"
  PROVE  FreshInv'
<1>1. IInv'
  BY FaultPreserves DEF FreshInv
<1>2. WidgetsFresh'
  BY WidgetsStay DEF Fault, FreshInv
<1>3. FrameKnows'
  BY DEF FreshInv, FrameKnows, Fault, widgets
<1>4. QED
  BY <1>1, <1>2, <1>3 DEF FreshInv

(* A command that waits for its dialog, with what it points to.             *)
LEMMA SuspendFreshens ==
  ASSUME FreshInv, IInv', Ready, NEW cmd, NEW item, NEW target, NEW sort,
         Suspend(cmd, item, target, sort), UNCHANGED <<db, widgets>>,
         cmd \notin {"SelChange", "LibraryNewLang"},
         cmd \in {"SnippetEdit", "SnippetDelete", "SnippetDuplicate"} =>
           list[item].SnippetID = target
  PROVE  FreshInv'
<1>1. frame' = [cmd |-> cmd, item |-> item, target |-> target, sort |-> sort, live |-> TRUE]
  BY DEF Suspend
<1>2. visible /\ fault = "none" /\ frame.cmd # "LibraryNewLang"
  BY DEF Ready, Idle, NoFrame, FreshInv, FrameKnows
<1>3. WidgetsFresh'
  BY <1>1, <1>2, WidgetsStay DEF FreshInv
<1>4. FrameKnows'
  BY <1>1, <1>2 DEF FrameKnows, widgets
<1>5. QED
  BY <1>3, <1>4 DEF FreshInv
-----------------------------------------------------------------------------
(* One lemma per action. *)

(* The program starts with the console hidden.                              *)
LEMMA InitFresh == Init => FreshInv
<1> SUFFICES ASSUME Init PROVE FreshInv
  OBVIOUS
<1>1. IInv
  BY InitHolds
<1>2. FrameKnows
  BY DEF Init, FrameKnows, NoFrame
<1>3. ListShows /\ ListCopies
  <2>1. list = <<>> /\ DOMAIN list = {} /\ cur = 0
    BY DEF Init
  <2>2. QED
    BY <2>1 DEF ListShows, ListCopies
<1>4. WidgetsFresh
  BY <1>3 DEF Init, WidgetsFresh
<1>5. QED
  BY <1>1, <1>2, <1>4 DEF FreshInv

(* When the objects of the widgets are freed, no handler is left that knows *)
(* one of them.                                                             *)
LEMMA FreedKnows ==
  ASSUME FreshInv, ObjectsFreed, frame.cmd \in {"none", "SnippetInsert"} \cup Modal,
         visible' = visible, shown' => visible
  PROVE  FrameKnows' /\ frame'.cmd = frame.cmd
<1>1. frame \in Frame
  BY DEF FreshInv, IInv, TypeOK
<1>2. /\ frame'.cmd = frame.cmd
      /\ frame'.live <=> frame.live /\ ~(frame.cmd \in HoldsPointer /\ frame.target # 0)
  BY <1>1 DEF ObjectsFreed, Frame
<1>3. frame.cmd # "none" => visible
  BY DEF FreshInv, FrameKnows
<1>4. frame.cmd \in {"SnippetEdit", "SnippetDelete", "SnippetDuplicate"} /\ frame.live =>
        frame.target # 0
  BY DEF FreshInv, IInv, FrameHolds, SnippetIDs
<1>5. QED
  BY <1>2, <1>3, <1>4 DEF FrameKnows, HoldsPointer, Modal

(* What Notepad++ does either refreshes the console or leaves it alone.     *)
LEMMA NotepadFreshens ==
  ASSUME FreshInv, Notepad
  PROVE  FreshInv'
<1>1. IInv'
  BY NotepadPreserves DEF FreshInv
<1> SUFFICES FrameKnows' /\ WidgetsFresh'
  BY <1>1 DEF FreshInv
<1>2. ASSUME NEW l \in Langs, BeNotified(l) PROVE FrameKnows' /\ WidgetsFresh'
  <2>1. /\ db' = db /\ visible' = visible /\ shown' = shown /\ fault' = fault /\ lang' = l
        /\ fault = "none" /\ frame.cmd \in {"none", "SnippetInsert"} \cup Modal
    BY <1>2 DEF BeNotified
  <2>2. shown => visible
    BY DEF FreshInv, FrameKnows
  <2>3. CASE visible
    <3>1. UpdateSnippetsList(db, l) /\ ObjectsFreed
      BY <1>2, <2>3 DEF BeNotified
    <3>2. FrameKnows' /\ frame'.cmd = frame.cmd
      BY <2>1, <2>2, <3>1, FreedKnows
    <3>3. frame'.cmd # "LibraryNewLang"
      BY <2>1, <3>2 DEF Modal
    <3>4. WidgetsFresh'
      BY <2>1, <3>1, <3>3, WidgetsAreRead, InvariantIsConsistent DEF FreshInv
    <3>5. QED
      BY <3>2, <3>4
  <2>4. CASE ~visible
    <3>1. UNCHANGED <<combo, cur, curLang, filter, list, unsaved, frame>>
      BY <1>2, <2>4 DEF BeNotified
    <3>2. FrameKnows'
      BY <2>1, <3>1 DEF FreshInv, FrameKnows, CurrentID
    <3>3. ListHolds'
      BY <2>1, <3>1, ListStays, WidgetsParts DEF FreshInv
    <3>4. QED
      BY <2>1, <2>2, <2>4, <3>2, <3>3 DEF WidgetsFresh, ListHolds
  <2>5. QED
    BY <2>3, <2>4
<1>3. CASE ShowConsole
  <2>1. /\ UpdateSnippetsList(db, lang) /\ UNCHANGED <<db, lang, frame, fault>>
        /\ frame = NoFrame /\ lang \in Langs /\ visible' = TRUE
    BY <1>3 DEF ShowConsole, Idle, FreshInv, IInv, TypeOK
  <2>2. WidgetsFresh'
    BY <2>1, WidgetsAreRead, InvariantIsConsistent DEF FreshInv, NoFrame
  <2>3. QED
    BY <2>1, <2>2, NoFrameKnows
<1>4. CASE HideConsole
  <2>1. /\ frame' = NoFrame /\ shown' = FALSE
        /\ UNCHANGED <<db, combo, cur, filter, list, unsaved>>
    BY <1>4 DEF HideConsole, Idle
  <2>2. ListHolds'
    BY <2>1, ListStays, WidgetsParts DEF FreshInv
  <2>3. QED
    BY <2>1, <2>2, NoFrameKnows DEF WidgetsFresh, ListHolds
<1>5. CASE OnClose
  <2>1. /\ list' = <<>> /\ cur' = 0 /\ shown' = FALSE /\ ObjectsFreed /\ visible' = visible
        /\ frame.cmd \in {"none", "SnippetInsert"} \cup Modal
    BY <1>5 DEF OnClose
  <2>2. QED
    BY <2>1, EmptyHolds, FreedKnows DEF WidgetsFresh, ListHolds
<1>6. CASE Restart
  <2>1. list' = <<>> /\ cur' = 0 /\ shown' = FALSE /\ frame' = NoFrame
    BY <1>6 DEF Restart
  <2>2. QED
    BY <2>1, EmptyHolds, NoFrameKnows DEF WidgetsFresh, ListHolds
<1>7. CASE Undefined
  <2>1. UNCHANGED <<db, widgets, frame, fault>> /\ fault' = "dangling"
    BY <1>7 DEF Undefined, vars, widgets
  <2>2. FrameKnows'
    BY <2>1 DEF FreshInv, FrameKnows, CurrentID, widgets
  <2>3. ListHolds'
    BY <2>1, ListStays, WidgetsParts DEF FreshInv, widgets
  <2>4. QED
    BY <2>1, <2>2, <2>3 DEF WidgetsFresh, ListHolds
<1>8. QED
  BY <1>2, <1>3, <1>4, <1>5, <1>6, <1>7 DEF Notepad

(* Choosing a library reads its snippets; until the choice is stored, none  *)
(* is stored for the language.                                              *)
LEMMA SelChangeFreshens ==
  ASSUME FreshInv, NEW i \in DOMAIN combo, OnSelChange_Combo(i)
  PROVE  FrameKnows' /\ WidgetsFresh'
<1>1. shown /\ visible /\ fault = "none" /\ frame = NoFrame
  BY DEF OnSelChange_Combo, Ready, Idle, FreshInv, FrameKnows
<1>2. CASE cur = 0
  <2>1. Suspend("SelChange", 0, 0, 0) /\ UNCHANGED <<db, widgets>> /\ fault' = "null"
    BY <1>2 DEF OnSelChange_Combo, Fault
  <2>2. WidgetsFresh'
    BY <1>1, <2>1, WidgetsStay DEF FreshInv, NoFrame, Suspend
  <2>3. FrameKnows'
    BY <1>1, <2>1 DEF Suspend, FrameKnows, widgets
  <2>4. QED
    BY <2>2, <2>3
<1>3. CASE cur # 0
  <2>1. /\ cur' = i /\ db' = ForgetLastUsed(db, curLang)
        /\ Suspend("SelChange", 0, combo[i].LibraryID, 0)
        /\ UNCHANGED <<lang, visible, shown, combo, curLang, fault, unsaved>>
        /\ AddListItems(db)
    BY <1>3 DEF OnSelChange_Combo
  <2>2. Consistent(db) /\ db \in Database
    BY InvariantIsConsistent DEF FreshInv, Consistent
  <2>3. /\ db'.Library = db.Library /\ db'.LibraryLang = db.LibraryLang
        /\ db'.Snippets = db.Snippets
        /\ \A u \in db'.LangLastUsed : u.Lang # curLang
    BY <2>1, <2>2 DEF ForgetLastUsed, Database
  <2>4. frame'.cmd = "SelChange" /\ frame'.target = combo[i].LibraryID
    BY <2>1 DEF Suspend
  <2>5. ChoiceHolds'
    BY <2>1, <2>3 DEF ChoiceHolds
  <2>6. ComboHolds'
    <3>1. ComboHolds
      BY <1>1, WidgetsParts DEF FreshInv
    <3>2. QED
      BY <1>1, <2>1, <2>3, <2>4, <2>5, <3>1, ComboStays DEF NoFrame
  <2>7. ListHolds'
    BY <2>1, <2>2, <2>3, ListIsRead
  <2>8. i # 0
    <3>1. combo \in Seq(LibraryRow)
      BY DEF FreshInv, IInv, TypeOK
    <3>2. QED
      BY <3>1, LenProperties
  <2>9. FrameKnows'
    BY <1>1, <2>1, <2>4, <2>8 DEF FrameKnows, CurrentID
  <2>10. QED
    BY <2>6, <2>7, <2>9 DEF WidgetsFresh, ListHolds, ComboHolds
<1>4. QED
  BY <1>2, <1>3

(* So it does when the choice cannot be stored.                             *)
LEMMA SelChangeRefusedFreshens ==
  ASSUME FreshInv, NEW i \in DOMAIN combo, OnSelChange_Combo_Refused(i)
  PROVE  FrameKnows' /\ WidgetsFresh'
<1>1. /\ shown /\ visible /\ fault = "none" /\ frame' = NoFrame /\ frame = NoFrame
      /\ unsaved' = TRUE /\ AddListItems(db)
      /\ UNCHANGED <<db, lang, visible, shown, combo, curLang, fault>>
  BY DEF OnSelChange_Combo_Refused, Ready, Idle, FreshInv, FrameKnows
<1>2. ComboHolds
  BY <1>1, WidgetsParts DEF FreshInv
<1>3. ComboHolds'
  BY <1>1, <1>2, ComboStays DEF NoFrame
<1>4. ListHolds'
  BY <1>1, ListIsRead, InvariantIsConsistent DEF FreshInv
<1>5. FrameKnows'
  BY <1>1, NoFrameKnows
<1>6. QED
  BY <1>3, <1>4, <1>5 DEF WidgetsFresh, ListHolds, ComboHolds

(* Two objects of one library are only there when one was not stored; else  *)
(* both are its row.                                                        *)
LEMMA SameLibraryFreshens ==
  ASSUME FreshInv, NEW i \in DOMAIN combo, OnSelChange_Combo_SameLibrary(i)
  PROVE  FrameKnows' /\ WidgetsFresh'
<1>1. /\ shown /\ visible /\ fault = "none" /\ frame' = NoFrame /\ frame = NoFrame
      /\ cur # 0 /\ combo[i].LibraryID = combo[cur].LibraryID /\ cur' = i
      /\ UNCHANGED <<db, lang, visible, shown, combo, curLang, filter, list, fault, unsaved>>
  BY DEF OnSelChange_Combo_SameLibrary, SameLibrary, Ready, Idle, FreshInv, FrameKnows
<1>2. ComboHolds /\ ListHolds /\ Consistent(db)
  BY <1>1, WidgetsParts, InvariantIsConsistent DEF FreshInv
<1>3. i # 0 /\ cur \in DOMAIN combo
  <2>1. combo \in Seq(LibraryRow) /\ cur \in 0..Len(combo)
    BY DEF FreshInv, IInv, TypeOK
  <2>2. QED
    BY <1>1, <2>1, LenProperties
<1>4. ~unsaved => combo[i] = combo[cur]
  <2>1. SUFFICES ASSUME ~unsaved PROVE combo[i] = combo[cur]
    OBVIOUS
  <2>2. \A j \in DOMAIN combo : combo[j] \in db.Library
    BY <1>1, <1>2, <2>1, LibrariesForOf DEF ComboHolds, ComboCopies, NewLibrary
  <2>3. QED
    BY <1>1, <1>2, <1>3, <2>2 DEF Consistent, KeysUnique
<1>5. ListHolds'
  BY <1>1, <1>2, <1>3, <1>4, ListStays
<1>6. ChoiceHolds => ChoiceHolds'
  BY <1>1, <1>3 DEF ChoiceHolds, CurrentID
<1>7. ComboHolds'
  BY <1>1, <1>2, <1>6, ComboStays DEF ComboHolds, NoFrame
<1>8. FrameKnows'
  BY <1>1, NoFrameKnows
<1>9. QED
  BY <1>5, <1>7, <1>8 DEF WidgetsFresh, ListHolds, ComboHolds

(* The choice stored is the library shown.                                  *)
LEMMA SelChangeStoreFreshens ==
  ASSUME FreshInv, OnSelChange_Store
  PROVE  FrameKnows' /\ WidgetsFresh'
<1>1. /\ frame.cmd = "SelChange" /\ fault = "none"
      /\ db' = InsertLastUsed(db, curLang, frame.target)
      /\ frame' = NoFrame
      /\ UNCHANGED <<lang, visible, shown, combo, cur, curLang, filter, fault, unsaved>>
      /\ AddListItems(db')
  BY DEF OnSelChange_Store, Waiting
<1>2. visible /\ CurrentID = frame.target
  BY <1>1 DEF FreshInv, FrameKnows
<1>3. Consistent(db') /\ db \in Database
  BY SelChangeStorePreserves DEF FreshInv, IInv, TypeOK, Consistent, IDsUnique, RefIntegrity
<1>4. /\ db'.Library = db.Library /\ db'.LibraryLang = db.LibraryLang
      /\ db'.LangLastUsed = db.LangLastUsed \cup {[Lang |-> curLang, LibraryID |-> frame.target]}
  BY <1>1, <1>3 DEF InsertLastUsed, Database
<1>5. ChoiceHolds => ChoiceHolds'
  BY <1>1, <1>2, <1>4 DEF ChoiceHolds, CurrentID
<1>6. ComboHolds => ComboHolds'
  BY <1>1, <1>4, <1>5, ComboStays DEF ComboHolds, NoFrame
<1>7. ListHolds'
  BY <1>1, <1>3, ListIsRead
<1>8. FrameKnows'
  BY <1>1, <1>2, NoFrameKnows
<1>9. shown /\ fault = "none" => ComboHolds
  BY WidgetsParts DEF FreshInv
<1>10. QED
  BY <1>1, <1>6, <1>7, <1>8, <1>9 DEF WidgetsFresh, ListHolds, ComboHolds

(* The filter reads the list again.                                         *)
LEMMA ChangeFilterFreshens ==
  ASSUME FreshInv, NEW names \in Filters, OnChange_Filter(names)
  PROVE  FrameKnows' /\ WidgetsFresh'
<1>1. /\ AddListItems(db) /\ frame = NoFrame /\ frame' = NoFrame /\ visible /\ shown
      /\ fault = "none"
      /\ UNCHANGED <<db, lang, visible, shown, combo, cur, curLang, fault, unsaved>>
  BY DEF OnChange_Filter, Ready, Idle, FreshInv, FrameKnows
<1>2. ComboHolds
  BY <1>1, WidgetsParts DEF FreshInv
<1>3. ~unsaved => ChoiceHolds'
  BY <1>1, <1>2, ChoiceStays DEF ComboHolds
<1>4. ComboHolds'
  BY <1>1, <1>2, <1>3, ComboStays DEF NoFrame
<1>5. ListHolds'
  BY <1>1, ListIsRead, InvariantIsConsistent DEF FreshInv
<1>6. FrameKnows'
  BY <1>1, NoFrameKnows
<1>7. QED
  BY <1>4, <1>5, <1>6 DEF WidgetsFresh, ListHolds, ComboHolds

(* The filter and the combobox keep the widgets fresh.                      *)
LEMMA WidgetsFreshen ==
  ASSUME FreshInv, Widgets
  PROVE  FreshInv'
<1>1. IInv'
  BY WidgetsPreserve DEF FreshInv
<1>2. ASSUME NEW names \in Filters, OnChange_Filter(names) PROVE FreshInv'
  BY <1>1, <1>2, ChangeFilterFreshens DEF FreshInv
<1>3. ASSUME NEW i \in DOMAIN combo,
             \/ OnSelChange_Combo(i) \/ OnSelChange_Combo_Refused(i)
             \/ OnSelChange_Combo_SameLibrary(i)
      PROVE  FreshInv'
  BY <1>1, <1>3, SelChangeFreshens, SelChangeRefusedFreshens, SameLibraryFreshens DEF FreshInv
<1>4. CASE OnSelChange_Store
  BY <1>1, <1>4, SelChangeStoreFreshens DEF FreshInv
<1>5. CASE OnSelChange_Store_Refused
  BY <1>5, AbandonedFreshens DEF OnSelChange_Store_Refused, Waiting
<1>6. CASE OnContextMenu
  <2>1. Fault("null") /\ UNCHANGED frame /\ frame.cmd # "LibraryNewLang"
    BY <1>6 DEF OnContextMenu, Ready, Idle, NoFrame
  <2>2. QED
    BY <2>1, FaultFreshens
<1>7. CASE OnCancel
  BY <1>7, AbandonedFreshens DEF OnCancel, Abandoned, Modal
<1>8. QED
  BY <1>2, <1>3, <1>4, <1>5, <1>6, <1>7 DEF Widgets

-----------------------------------------------------------------------------
(* The snippet menu. *)

(* A handler that changed the snippets or the list alone, and is done.      *)
LEMMA ListChangeFreshens ==
  ASSUME FreshInv, IInv', frame.cmd # "LibraryNewLang",
         db'.Library = db.Library, db'.LibraryLang = db.LibraryLang,
         db'.LangLastUsed = db.LangLastUsed,
         UNCHANGED <<lang, visible, shown, combo, cur, curLang, filter, fault>>,
         ~unsaved' => ~unsaved, frame' = NoFrame, ListHolds'
  PROVE  FreshInv'
<1>1. shown' => visible'
  BY DEF FreshInv, FrameKnows
<1>2. ASSUME ComboHolds PROVE ComboHolds'
  <2>1. ~unsaved' => ChoiceHolds'
    BY <1>2, ChoiceStays DEF ComboHolds
  <2>2. QED
    BY <1>2, <2>1, ComboStays DEF NoFrame
<1>3. shown /\ fault = "none" => ComboHolds
  BY WidgetsParts DEF FreshInv
<1>4. WidgetsFresh'
  BY <1>2, <1>3 DEF WidgetsFresh, ListHolds, ComboHolds
<1>5. QED
  BY <1>1, <1>4, NoFrameKnows DEF FreshInv

(* A list of the same snippets in another order, whatever the contents of   *)
(* its objects, shows what it showed.                                       *)
LEMMA PermutedShows ==
  ASSUME ListShows, UNCHANGED <<combo, cur, filter>>, cur # 0,
         DOMAIN list' = DOMAIN list, NEW p,
         \A k \in DOMAIN list : p[k] \in DOMAIN list,
         \A k, m \in DOMAIN list : p[k] = p[m] => k = m,
         \A j \in DOMAIN list : \E k \in DOMAIN list : p[k] = j,
         \A k \in DOMAIN list : /\ list'[k].SnippetID = list[p[k]].SnippetID
                                /\ list'[k].LibraryID = list[p[k]].LibraryID,
         \A s \in db.Snippets : \E t \in db'.Snippets :
           t.SnippetID = s.SnippetID /\ t.LibraryID = s.LibraryID,
         \A t \in SnippetsLike(db', combo[cur], filter) :
           \E k \in DOMAIN list : list[k].SnippetID = t.SnippetID
  PROVE  ListShows'
<1>1. ASSUME NEW k \in DOMAIN list'
      PROVE  /\ list'[k].LibraryID = combo'[cur'].LibraryID
             /\ \E t \in db'.Snippets : /\ t.SnippetID = list'[k].SnippetID
                                       /\ t.LibraryID = list'[k].LibraryID
  <2>1. p[k] \in DOMAIN list
    OBVIOUS
  <2>2. /\ list[p[k]].LibraryID = combo[cur].LibraryID
        /\ \E s \in db.Snippets : /\ s.SnippetID = list[p[k]].SnippetID
                                 /\ s.LibraryID = list[p[k]].LibraryID
    BY <2>1 DEF ListShows
  <2>3. /\ list'[k].SnippetID = list[p[k]].SnippetID
        /\ list'[k].LibraryID = list[p[k]].LibraryID
    OBVIOUS
  <2>4. combo'[cur'].LibraryID = combo[cur].LibraryID
    OBVIOUS
  <2>5. list'[k].LibraryID = combo'[cur'].LibraryID
    BY <2>2, <2>3, <2>4, Zenon
  <2>6. PICK s \in db.Snippets : /\ s.SnippetID = list'[k].SnippetID
                                 /\ s.LibraryID = list'[k].LibraryID
    BY <2>2, <2>3, Zenon
  <2>7. PICK t \in db'.Snippets : t.SnippetID = s.SnippetID /\ t.LibraryID = s.LibraryID
    BY Zenon
  <2>8. QED
    BY <2>5, <2>6, <2>7, Zenon
<1>2. ASSUME NEW k \in DOMAIN list', NEW m \in DOMAIN list',
             list'[k].SnippetID = list'[m].SnippetID
      PROVE  k = m
  <2>1. /\ k \in DOMAIN list /\ m \in DOMAIN list
        /\ p[k] \in DOMAIN list /\ p[m] \in DOMAIN list
    OBVIOUS
  <2>2. list[p[k]].SnippetID = list[p[m]].SnippetID
    BY <1>2, <2>1, Zenon
  <2>3. p[k] = p[m]
    BY <2>1, <2>2, Zenon DEF ListShows
  <2>4. QED
    BY <2>1, <2>3, Zenon
<1>3. ASSUME NEW t \in SnippetsLike(db', combo[cur], filter)
      PROVE  \E k \in DOMAIN list' : list'[k].SnippetID = t.SnippetID
  <2>1. PICK j \in DOMAIN list : list[j].SnippetID = t.SnippetID
    BY <1>3
  <2>2. PICK k \in DOMAIN list : p[k] = j
    BY <2>1, Zenon
  <2>3. k \in DOMAIN list' /\ list'[k].SnippetID = list[p[k]].SnippetID
    BY Zenon
  <2>4. QED
    BY <2>1, <2>2, <2>3, Zenon
<1>4. QED
  BY <1>1, <1>2, <1>3 DEF ListShows

(* A list with an item is one of a chosen library, and a stored snippet has *)
(* the item's id.                                                           *)
LEMMA ItemIsStored ==
  ASSUME ListShows, NEW item \in DOMAIN list
  PROVE  /\ cur # 0
         /\ \E s \in db.Snippets : /\ s.SnippetID = list[item].SnippetID
                                  /\ s.LibraryID = list[item].LibraryID
<1>1. list # <<>>
  OBVIOUS
<1>2. QED
  BY <1>1 DEF ListShows

(* An object whose name was changed still shows its snippet.                *)
LEMMA EditedShows ==
  ASSUME FreshInv, frame.item \in DOMAIN list, NEW name \in SnipNames,
         UNCHANGED <<combo, cur, filter>>,
         list' = [list EXCEPT ![frame.item] = [list[frame.item] EXCEPT !.Name = name]],
         \A s \in db.Snippets : \E t \in db'.Snippets :
           t.SnippetID = s.SnippetID /\ t.LibraryID = s.LibraryID,
         \A t \in SnippetsLike(db', combo[cur], filter) :
           \/ t \in SnippetsLike(db, combo[cur], filter)
           \/ t.SnippetID = list[frame.item].SnippetID
  PROVE  ListShows'
<1> DEFINE item == frame.item
<1> DEFINE snip == [list[item] EXCEPT !.Name = name]
<1>1. ListShows /\ list[item] \in SnippetRow /\ cur # 0
  BY ItemOf, ItemIsStored DEF FreshInv, WidgetsFresh
<1>2. snip.SnippetID = list[item].SnippetID /\ snip.LibraryID = list[item].LibraryID
  BY <1>1 DEF SnippetRow
<1>3. DOMAIN list' = DOMAIN list /\ list'[item] = snip
      /\ \A k \in DOMAIN list : k # item => list'[k] = list[k]
  OBVIOUS
<1> HIDE DEF snip, item
<1> DEFINE p == [k \in DOMAIN list |-> k]
<1>4. /\ \A k \in DOMAIN list : p[k] \in DOMAIN list
      /\ \A k, m \in DOMAIN list : p[k] = p[m] => k = m
      /\ \A j \in DOMAIN list : \E k \in DOMAIN list : p[k] = j
  OBVIOUS
<1>5. \A k \in DOMAIN list : /\ list'[k].SnippetID = list[p[k]].SnippetID
                             /\ list'[k].LibraryID = list[p[k]].LibraryID
  BY <1>2, <1>3
<1>6. \A t \in SnippetsLike(db', combo[cur], filter) :
        \E k \in DOMAIN list : list[k].SnippetID = t.SnippetID
  BY <1>1 DEF ListShows, item
<1> HIDE DEF p
<1>7. QED
  <2>1. ListShows /\ cur # 0 /\ DOMAIN list' = DOMAIN list
    BY <1>1, <1>3
  <2>2. QED
    BY <2>1, <1>4, <1>5, <1>6, PermutedShows

(* An edited snippet is stored as it is shown.                              *)
LEMMA EditOKFreshens ==
  ASSUME FreshInv, IInv', NEW name \in SnipNames, OnSnippetEdit_OK(name), ~Dangling
  PROVE  FreshInv'
<1> DEFINE item == frame.item
<1> DEFINE old == list[item]
<1> DEFINE snip == [old EXCEPT !.Name = name]
<1>1. /\ frame.cmd = "SnippetEdit" /\ frame.live /\ fault = "none"
      /\ db' = UpdateSnippet(db, snip)
      /\ list' = [list EXCEPT ![item] = snip]
      /\ frame' = NoFrame
      /\ UNCHANGED <<lang, visible, shown, combo, cur, curLang, filter, fault, unsaved>>
  BY DEF OnSnippetEdit_OK, Waiting
<1>2. ListHolds /\ ListShows /\ item \in DOMAIN list /\ IInv
  BY <1>1, WidgetsParts DEF FreshInv, IInv, FrameHolds, ListHolds
<1>3. old \in SnippetRow /\ cur # 0
  BY <1>2, ItemOf, ItemIsStored
<1>4. PICK row \in db.Snippets : row.SnippetID = old.SnippetID /\ row.LibraryID = old.LibraryID
  BY <1>2, ItemIsStored
<1> HIDE DEF item
<1>5. /\ snip \in SnippetRow /\ snip.SnippetID = old.SnippetID
      /\ snip.LibraryID = old.LibraryID /\ snip.Sort = old.Sort
  BY <1>3 DEF SnippetRow
<1>6. DOMAIN list' = DOMAIN list /\ list'[item] = snip
      /\ \A i \in DOMAIN list : i # item => list'[i] = list[i]
  BY <1>1, <1>2
<1>7. list' = [list EXCEPT ![frame.item] = [list[frame.item] EXCEPT !.Name = name]]
  BY <1>1 DEF item
<1> HIDE DEF snip, old
<1>8. /\ db'.Library = db.Library /\ db'.LibraryLang = db.LibraryLang
      /\ db'.LangLastUsed = db.LangLastUsed
      /\ db'.Snippets = {IF s.SnippetID = snip.SnippetID THEN snip ELSE s : s \in db.Snippets}
  BY <1>1, <1>2, <1>4, <1>5, UpdateSnippetEffect, InvariantIsConsistent
<1>9. ASSUME NEW s \in db.Snippets
      PROVE  \E t \in db'.Snippets : t.SnippetID = s.SnippetID /\ t.LibraryID = s.LibraryID
  <2>1. CASE s.SnippetID = snip.SnippetID
    <3>1. s = row
      BY <1>2, <1>4, <1>5, <2>1, InvariantIsConsistent DEF Consistent, KeysUnique
    <3>2. snip \in db'.Snippets /\ snip.SnippetID = s.SnippetID /\ snip.LibraryID = s.LibraryID
      BY <1>4, <1>5, <1>8, <3>1
    <3>3. QED
      BY <3>2
  <2>2. CASE s.SnippetID # snip.SnippetID
    BY <1>8, <2>2
  <2>3. QED
    BY <2>1, <2>2
<1>10. \A t \in SnippetsLike(db', combo[cur], filter) :
         t \in SnippetsLike(db, combo[cur], filter) \/ t.SnippetID = list[frame.item].SnippetID
  BY <1>5, <1>8 DEF SnippetsLike, old, item
<1>11. ListShows'
  <2>1. frame.item \in DOMAIN list
    BY <1>2 DEF item
  <2>2. QED
    BY <1>1, <1>7, <1>9, <1>10, <2>1, EditedShows
<1>12. ASSUME ListCopies PROVE ListCopies'
  <2>1. \A i \in DOMAIN list' : list'[i] \in db'.Snippets
    <3>1. ASSUME NEW i \in DOMAIN list, i # item PROVE list[i] \in db'.Snippets
      <4>1. list[i].SnippetID # snip.SnippetID /\ list[i] \in db.Snippets
        BY <1>2, <1>5, <1>12, <3>1 DEF ListShows, ListCopies, old
      <4>2. QED
        BY <1>8, <4>1
    <3>2. snip \in db'.Snippets
      BY <1>4, <1>5, <1>8
    <3>3. QED
      BY <1>6, <3>1, <3>2
  <2>2. \A i \in DOMAIN list : list'[i].Sort = list[i].Sort
    BY <1>5, <1>6 DEF old
  <2>3. QED
    BY <1>1, <1>6, <1>12, <2>1, <2>2 DEF ListCopies
<1>13. ListHolds'
  BY <1>1, <1>2, <1>11, <1>12 DEF ListHolds
<1>14. QED
  BY <1>1, <1>8, <1>13, ListChangeFreshens

(* A save that is refused leaves the name in the list only.                 *)
LEMMA EditRefusedFreshens ==
  ASSUME FreshInv, IInv', NEW name \in SnipNames, OnSnippetEdit_Refused(name)
  PROVE  FreshInv'
<1>1. /\ frame.cmd = "SnippetEdit" /\ frame.live /\ frame' = NoFrame /\ unsaved' = TRUE
      /\ list' = [list EXCEPT ![frame.item] = [list[frame.item] EXCEPT !.Name = name]]
      /\ UNCHANGED <<db, lang, visible, shown, combo, cur, curLang, filter, fault>>
  BY DEF OnSnippetEdit_Refused, Waiting
<1>2. frame.item \in DOMAIN list
  BY <1>1 DEF FreshInv, IInv, FrameHolds
<1>3. ListShows'
  BY <1>1, <1>2, EditedShows
<1>4. ListHolds'
  BY <1>1, <1>3 DEF ListHolds
<1>5. QED
  BY <1>1, <1>4, ListChangeFreshens

(* A deleted snippet is gone from the table and from the list.              *)
LEMMA DeleteYesFreshens ==
  ASSUME FreshInv, IInv', OnSnippetDelete_Yes, ~Dangling
  PROVE  FreshInv'
<1> DEFINE item == frame.item
<1> DEFINE n == Len(list)
<1> DEFINE From(k) == IF k < item THEN k ELSE k + 1
<1>1. /\ frame.cmd = "SnippetDelete" /\ frame.live /\ fault = "none"
      /\ db' = DeleteSnippet(db, list[item].SnippetID)
      /\ list' = RemoveAt(list, item)
      /\ frame' = NoFrame
      /\ UNCHANGED <<lang, visible, shown, combo, cur, curLang, filter, fault, unsaved>>
  BY DEF OnSnippetDelete_Yes, Waiting
<1>2. ListHolds /\ ListShows /\ item \in DOMAIN list /\ IInv
  BY <1>1, WidgetsParts DEF FreshInv, IInv, FrameHolds, ListHolds
<1>3. item \in 1..n /\ n \in Nat /\ DOMAIN list = 1..n /\ list \in Seq(SnippetRow)
  BY <1>2, ItemOf, LenProperties DEF IInv, TypeOK
<1>4. cur # 0
  BY <1>2, ItemIsStored
<1> HIDE DEF item
<1>5. DOMAIN list' = 1..(n - 1) /\ \A k \in 1..(n - 1) : list'[k] = list[From(k)]
  <2>1. /\ list' \in Seq(SnippetRow) /\ Len(list') = n - 1
        /\ \A k \in 1..(n - 1) : list'[k] = IF k < item THEN list[k] ELSE list[k + 1]
    BY <1>1, <1>3, RemoveAtProperties
  <2>2. DOMAIN list' = 1..Len(list')
    BY <2>1, LenProperties, Zenon
  <2>3. \A k \in 1..(n - 1) : list'[k] = list[From(k)]
    BY <2>1
  <2> HIDE DEF From, n
  <2>4. DOMAIN list' = 1..(n - 1)
    BY <2>1, <2>2
  <2>5. QED
    BY <2>3, <2>4, Zenon
<1>6. /\ db'.Library = db.Library /\ db'.LibraryLang = db.LibraryLang
      /\ db'.LangLastUsed = db.LangLastUsed
      /\ db'.Snippets = {s \in db.Snippets : s.SnippetID # list[item].SnippetID}
  BY <1>1, <1>2 DEF DeleteSnippet, Database, IInv, TypeOK
<1> HIDE DEF n
<1>7. /\ \A k \in 1..(n - 1) : From(k) \in 1..n /\ From(k) # item
      /\ \A k, m \in 1..(n - 1) : (From(k) = From(m) => k = m) /\ (k < m => From(k) < From(m))
      /\ \A j \in 1..n : j # item => \E k \in 1..(n - 1) : From(k) = j
  <2>1. ASSUME NEW j \in 1..n, j # item PROVE \E k \in 1..(n - 1) : From(k) = j
    <3>1. CASE j < item
      <4>1. j \in 1..(n - 1) /\ From(j) = j
        BY <1>3, <3>1
      <4>2. QED
        BY <4>1
    <3>2. CASE j > item
      <4>1. j - 1 \in 1..(n - 1) /\ From(j - 1) = j
        BY <1>3, <3>2
      <4>2. QED
        BY <4>1
    <3>3. QED
      BY <1>3, <2>1, <3>1, <3>2
  <2>2. QED
    BY <1>3, <2>1
<1> HIDE DEF From
<1>8. ASSUME NEW k \in 1..(n - 1)
      PROVE  /\ list'[k].LibraryID = combo[cur].LibraryID
             /\ \E s \in db'.Snippets : /\ s.SnippetID = list'[k].SnippetID
                                       /\ s.LibraryID = list'[k].LibraryID
  <2>1. From(k) \in DOMAIN list /\ From(k) # item /\ list'[k] = list[From(k)]
    BY <1>3, <1>5, <1>7
  <2>2. list[From(k)].LibraryID = combo[cur].LibraryID
        /\ list[From(k)].SnippetID # list[item].SnippetID
    BY <1>2, <2>1 DEF ListShows
  <2>3. PICK s \in db.Snippets : /\ s.SnippetID = list[From(k)].SnippetID
                                 /\ s.LibraryID = list[From(k)].LibraryID
    BY <1>2, <2>1 DEF ListShows
  <2>4. s \in db'.Snippets
    BY <1>6, <2>2, <2>3
  <2>5. QED
    BY <2>1, <2>2, <2>3, <2>4
<1>9. \A k, m \in DOMAIN list' : list'[k].SnippetID = list'[m].SnippetID => k = m
  BY <1>2, <1>3, <1>5, <1>7 DEF ListShows
<1>10. ASSUME NEW s \in SnippetsLike(db', combo[cur], filter)
       PROVE  \E k \in DOMAIN list' : list'[k].SnippetID = s.SnippetID
  <2>1. s \in SnippetsLike(db, combo[cur], filter) /\ s.SnippetID # list[item].SnippetID
    BY <1>6, <1>10 DEF SnippetsLike
  <2>2. PICK j \in DOMAIN list : list[j].SnippetID = s.SnippetID
    BY <1>2, <1>4, <2>1 DEF ListShows
  <2>3. j # item /\ j \in 1..n
    BY <1>3, <2>1, <2>2
  <2>4. PICK k \in 1..(n - 1) : From(k) = j
    BY <1>7, <2>3
  <2>5. QED
    BY <1>5, <2>2, <2>4
<1>11. ListShows'
  BY <1>1, <1>4, <1>5, <1>8, <1>9, <1>10 DEF ListShows
<1>12. ASSUME ListCopies PROVE ListCopies'
  <2>1. ASSUME NEW k \in DOMAIN list' PROVE list'[k] \in db'.Snippets
    <3>1. From(k) \in DOMAIN list /\ From(k) # item /\ list'[k] = list[From(k)]
      BY <1>3, <1>5, <1>7
    <3>2. list[From(k)] \in db.Snippets /\ list[From(k)].SnippetID # list[item].SnippetID
      BY <1>2, <1>12, <3>1 DEF ListShows, ListCopies
    <3>3. QED
      BY <1>6, <3>1, <3>2
  <2>2. ~combo[cur].Alphabetic =>
          \A k, m \in DOMAIN list' : k < m => list'[k].Sort <= list'[m].Sort
    BY <1>3, <1>4, <1>5, <1>7, <1>12 DEF ListCopies
  <2>3. QED
    BY <1>1, <1>4, <2>1, <2>2 DEF ListCopies
<1>13. ListHolds'
  BY <1>1, <1>2, <1>11, <1>12 DEF ListHolds
<1>14. QED
  BY <1>1, <1>6, <1>13, ListChangeFreshens

(* A move that is stored changes the order and the numbers of the list and  *)
(* of its rows alike, also when the list was ahead of the rows.             *)
LEMMA MoveRows ==
  ASSUME IInv, ListShows, NEW item \in DOMAIN list, NEW to, MoveTo(item, to)
  PROVE  /\ db'.Library = db.Library /\ db'.LibraryLang = db.LibraryLang
         /\ db'.LangLastUsed = db.LangLastUsed
         /\ \A s \in db.Snippets : \A i \in DOMAIN list' :
              list'[i].SnippetID = s.SnippetID => [s EXCEPT !.Sort = list'[i].Sort] \in db'.Snippets
         /\ \A s \in db.Snippets : \E t \in db'.Snippets :
              t.SnippetID = s.SnippetID /\ t.LibraryID = s.LibraryID
         /\ \A t \in db'.Snippets : \E s \in db.Snippets :
              /\ t.SnippetID = s.SnippetID /\ t.LibraryID = s.LibraryID /\ t.Name = s.Name
              /\ \A i \in DOMAIN list' :
                   list'[i].SnippetID = s.SnippetID => t = [s EXCEPT !.Sort = list'[i].Sort]
         /\ \A k, m \in DOMAIN list' : list'[k].SnippetID = list'[m].SnippetID => k = m
         /\ \A k \in DOMAIN list' : /\ list'[k].SnippetID = list[Source(item, to, k)].SnippetID
                                   /\ list'[k].LibraryID = list[Source(item, to, k)].LibraryID
                                   /\ list'[k].Sort = k
<1> DEFINE n == Len(list)
<1> DEFINE From(k) == Source(item, to, k)
<1>1. /\ n \in Nat /\ DOMAIN list = 1..n /\ item \in 1..n /\ to \in 1..n
      /\ DOMAIN list' = 1..n
      /\ \A k \in 1..n : list'[k] = [list[From(k)] EXCEPT !.Sort = k]
      /\ db' = UpdateSorts(db, list')
  BY MoveEffect
<1>2. /\ \A k \in 1..n : From(k) \in 1..n
      /\ \A k, m \in 1..n : From(k) = From(m) => k = m
  BY <1>1, SourceIsPermutation
<1> HIDE DEF n, From
<1>3. \A k \in 1..n : /\ list'[k].SnippetID = list[From(k)].SnippetID
                      /\ list'[k].LibraryID = list[From(k)].LibraryID
                      /\ list'[k].Sort = k
  <2>1. SUFFICES ASSUME NEW k \in 1..n
                 PROVE  /\ list'[k].SnippetID = list[From(k)].SnippetID
                        /\ list'[k].LibraryID = list[From(k)].LibraryID
                        /\ list'[k].Sort = k
    OBVIOUS
  <2>2. From(k) \in DOMAIN list /\ list'[k] = [list[From(k)] EXCEPT !.Sort = k]
    BY <1>1, <1>2
  <2>3. list[From(k)] \in SnippetRow
    BY <2>2, ItemOf
  <2>4. QED
    BY <2>2, <2>3 DEF SnippetRow
<1>4. \A k, m \in DOMAIN list' : list'[k].SnippetID = list'[m].SnippetID => k = m
  BY <1>1, <1>2, <1>3 DEF ListShows
<1>5. Consistent(db)
  BY InvariantIsConsistent
<1>6. /\ db'.Library = db.Library /\ db'.LibraryLang = db.LibraryLang
      /\ db'.LangLastUsed = db.LangLastUsed
      /\ \A s \in db.Snippets : \A i \in DOMAIN list' :
           list'[i].SnippetID = s.SnippetID => [s EXCEPT !.Sort = list'[i].Sort] \in db'.Snippets
      /\ \A s \in db.Snippets :
           (\A i \in DOMAIN list' : list'[i].SnippetID # s.SnippetID) => s \in db'.Snippets
      /\ \A t \in db'.Snippets : \E s \in db.Snippets :
           /\ t.SnippetID = s.SnippetID /\ t.LibraryID = s.LibraryID /\ t.Name = s.Name
           /\ \A i \in DOMAIN list' :
                list'[i].SnippetID = s.SnippetID => t = [s EXCEPT !.Sort = list'[i].Sort]
  BY <1>1, <1>4, <1>5, UpdateSortsEffect
<1>7. ASSUME NEW s \in db.Snippets
      PROVE  \E t \in db'.Snippets : t.SnippetID = s.SnippetID /\ t.LibraryID = s.LibraryID
  <2>1. s \in SnippetRow
    BY <1>5, RowsOf
  <2>2. CASE \A i \in DOMAIN list' : list'[i].SnippetID # s.SnippetID
    BY <1>6, <2>2
  <2>3. ASSUME NEW i \in DOMAIN list', list'[i].SnippetID = s.SnippetID
        PROVE  \E t \in db'.Snippets : t.SnippetID = s.SnippetID /\ t.LibraryID = s.LibraryID
    <3> DEFINE t == [s EXCEPT !.Sort = list'[i].Sort]
    <3>1. t \in db'.Snippets
      BY <1>6, <2>3
    <3>2. t.SnippetID = s.SnippetID /\ t.LibraryID = s.LibraryID
      BY <2>1 DEF SnippetRow
    <3>3. QED
      BY <3>1, <3>2
  <2>4. QED
    BY <2>2, <2>3
<1>8. QED
  BY <1>1, <1>3, <1>4, <1>6, <1>7 DEF From

(* Where the objects of a moved list come from, as a function.              *)
LEMMA MoveSource ==
  ASSUME DOMAIN list = 1..Len(list), Len(list) \in Nat,
         NEW item \in 1..Len(list), NEW to \in 1..Len(list)
  PROVE  LET p == [k \in DOMAIN list |-> Source(item, to, k)]
         IN  /\ \A k \in DOMAIN list : p[k] \in DOMAIN list
             /\ \A k, m \in DOMAIN list : p[k] = p[m] => k = m
             /\ \A j \in DOMAIN list : \E k \in DOMAIN list : p[k] = j
<1> DEFINE n == Len(list)
<1> DEFINE p == [k \in DOMAIN list |-> Source(item, to, k)]
<1>1. /\ \A k \in 1..n : Source(item, to, k) \in 1..n
      /\ \A k, m \in 1..n : Source(item, to, k) = Source(item, to, m) => k = m
      /\ \A j \in 1..n : \E k \in 1..n : Source(item, to, k) = j
  BY SourceIsPermutation
<1>2. DOMAIN list = 1..n /\ \A k \in 1..n : p[k] = Source(item, to, k)
  OBVIOUS
<1> HIDE DEF n, p
<1>3. /\ \A k \in DOMAIN list : p[k] \in DOMAIN list
      /\ \A k, m \in DOMAIN list : p[k] = p[m] => k = m
      /\ \A j \in DOMAIN list : \E k \in DOMAIN list : p[k] = j
  <2>1. ASSUME NEW k \in 1..n PROVE p[k] \in 1..n
    <3>1. p[k] = Source(item, to, k)
      BY <1>2
    <3>2. QED
      BY <1>1, <3>1, Zenon
  <2>2. \A k, m \in 1..n : p[k] = p[m] => k = m
    BY <1>1, <1>2, Zenon
  <2>3. \A j \in 1..n : \E k \in 1..n : p[k] = j
    BY <1>1, <1>2, Zenon
  <2>4. QED
    BY <1>2, <2>1, <2>2, <2>3, Zenon
<1>4. QED
  BY <1>3 DEF p

(* A move leaves a list that shows what it showed, and copies of what is    *)
(* stored where it had them.                                                *)
LEMMA MoveFreshens ==
  ASSUME FreshInv, IInv', NEW item \in DOMAIN list, NEW to, MoveTo(item, to)
  PROVE  FreshInv'
<1> DEFINE p == [k \in DOMAIN list |-> Source(item, to, k)]
<1>1. /\ UNCHANGED <<lang, visible, shown, combo, cur, curLang, filter, fault, unsaved>>
      /\ frame' = NoFrame /\ frame = NoFrame /\ cur # 0
  BY DEF MoveTo, SnippetMenu, Ready, Idle
<1>2. ListHolds /\ ListShows /\ IInv /\ Consistent(db)
  BY WidgetsParts, InvariantIsConsistent DEF FreshInv, ListHolds
<1>3. DOMAIN list' = DOMAIN list /\ DOMAIN list = 1..Len(list) /\ Len(list) \in Nat
  BY <1>2, MoveEffect
<1>4. /\ \A k \in DOMAIN list : p[k] \in DOMAIN list
      /\ \A k, m \in DOMAIN list : p[k] = p[m] => k = m
      /\ \A j \in DOMAIN list : \E k \in DOMAIN list : p[k] = j
  <2>1. item \in 1..Len(list) /\ to \in 1..Len(list)
    BY <1>2, MoveEffect
  <2>2. QED
    BY <1>3, <2>1, MoveSource
<1>5. /\ db'.Library = db.Library /\ db'.LibraryLang = db.LibraryLang
      /\ db'.LangLastUsed = db.LangLastUsed
      /\ \A s \in db.Snippets : \A i \in DOMAIN list' :
           list'[i].SnippetID = s.SnippetID => [s EXCEPT !.Sort = list'[i].Sort] \in db'.Snippets
      /\ \A s \in db.Snippets : \E t \in db'.Snippets :
           t.SnippetID = s.SnippetID /\ t.LibraryID = s.LibraryID
      /\ \A t \in db'.Snippets : \E s \in db.Snippets :
           t.SnippetID = s.SnippetID /\ t.LibraryID = s.LibraryID /\ t.Name = s.Name
      /\ \A k \in DOMAIN list' : /\ list'[k].SnippetID = list[Source(item, to, k)].SnippetID
                                /\ list'[k].LibraryID = list[Source(item, to, k)].LibraryID
                                /\ list'[k].Sort = k
  BY <1>2, MoveRows
<1>6. \A k \in DOMAIN list : /\ list'[k].SnippetID = list[p[k]].SnippetID
                             /\ list'[k].LibraryID = list[p[k]].LibraryID
  BY <1>3, <1>5
<1>7. \A k \in DOMAIN list : p[k] = Source(item, to, k)
  OBVIOUS
<1> HIDE DEF p
<1>8. \A t \in SnippetsLike(db', combo[cur], filter) :
        \E k \in DOMAIN list : list[k].SnippetID = t.SnippetID
  <2>1. SUFFICES ASSUME NEW t \in SnippetsLike(db', combo[cur], filter)
                 PROVE  \E k \in DOMAIN list : list[k].SnippetID = t.SnippetID
    OBVIOUS
  <2>2. PICK s \in db.Snippets :
          t.SnippetID = s.SnippetID /\ t.LibraryID = s.LibraryID /\ t.Name = s.Name
    BY <1>5 DEF SnippetsLike
  <2>3. s \in SnippetsLike(db, combo[cur], filter)
    BY <2>2 DEF SnippetsLike
  <2>4. QED
    BY <1>1, <1>2, <2>2, <2>3 DEF ListShows
<1>9. ListShows'
  BY <1>1, <1>2, <1>3, <1>4, <1>5, <1>6, <1>8, PermutedShows
<1>10. ASSUME ListCopies PROVE ListCopies'
  <2>1. ASSUME NEW k \in DOMAIN list' PROVE list'[k] \in db'.Snippets
    <3>1. p[k] \in DOMAIN list /\ list[p[k]] \in db.Snippets
      BY <1>3, <1>4, <1>10 DEF ListCopies
    <3>2. list'[k].SnippetID = list[p[k]].SnippetID /\ list'[k].Sort = k
      BY <1>3, <1>5, <1>6
    <3>3. [list[p[k]] EXCEPT !.Sort = list'[k].Sort] \in db'.Snippets
      BY <1>5, <3>1, <3>2
    <3>4. list'[k] = [list[p[k]] EXCEPT !.Sort = k]
      BY <1>2, <1>3, <1>7, MoveEffect
    <3>5. QED
      BY <3>2, <3>3, <3>4
  <2>2. \A k, m \in DOMAIN list' : k < m => list'[k].Sort <= list'[m].Sort
    BY <1>3, <1>5
  <2>3. QED
    BY <2>1, <2>2 DEF ListCopies
<1>11. ListHolds'
  BY <1>1, <1>2, <1>9, <1>10 DEF ListHolds
<1>12. QED
  BY <1>1, <1>5, <1>11, ListChangeFreshens DEF NoFrame

(* A move that is refused leaves it showing the same snippets.              *)
LEMMA MoveRefusedFreshens ==
  ASSUME FreshInv, IInv', NEW item \in DOMAIN list, NEW to, MoveTo_Refused(item, to)
  PROVE  FreshInv'
<1> DEFINE p == [k \in DOMAIN list |-> Source(item, to, k)]
<1>1. /\ UNCHANGED <<db, lang, visible, shown, combo, cur, curLang, filter, fault>>
      /\ frame' = NoFrame /\ frame = NoFrame /\ cur # 0 /\ unsaved' = TRUE
  BY DEF MoveTo_Refused, SnippetMenu, Ready, Idle
<1>2. ListShows /\ IInv
  BY DEF FreshInv, WidgetsFresh
<1>3. /\ Len(list) \in Nat /\ DOMAIN list = 1..Len(list)
      /\ item \in 1..Len(list) /\ to \in 1..Len(list) /\ DOMAIN list' = 1..Len(list)
      /\ \A k \in 1..Len(list) :
           /\ list'[k].SnippetID = list[Source(item, to, k)].SnippetID
           /\ list'[k].LibraryID = list[Source(item, to, k)].LibraryID
  BY <1>2, MoveRefusedEffect
<1>4. /\ \A k \in DOMAIN list : p[k] \in DOMAIN list
      /\ \A k, m \in DOMAIN list : p[k] = p[m] => k = m
      /\ \A j \in DOMAIN list : \E k \in DOMAIN list : p[k] = j
  BY <1>3, MoveSource
<1>5. \A k \in DOMAIN list : /\ list'[k].SnippetID = list[p[k]].SnippetID
                             /\ list'[k].LibraryID = list[p[k]].LibraryID
  BY <1>3
<1> HIDE DEF p
<1>6. \A t \in SnippetsLike(db', combo[cur], filter) :
        \E k \in DOMAIN list : list[k].SnippetID = t.SnippetID
  BY <1>1, <1>2 DEF ListShows
<1>7. ListShows'
  BY <1>1, <1>2, <1>3, <1>4, <1>5, <1>6, PermutedShows
<1>8. ListHolds'
  BY <1>1, <1>7 DEF ListHolds
<1>9. QED
  BY <1>1, <1>8, ListChangeFreshens DEF NoFrame

(* The snippet menu keeps the widgets fresh.                                *)
LEMMA SnippetCommandsFreshen ==
  ASSUME FreshInv, SnippetCommands
  PROVE  FreshInv'
<1>1. IInv'
  BY SnippetCommandsPreserve DEF FreshInv
<1>2. ASSUME NEW item \in DOMAIN list, OnSnippetInsert(item) PROVE FreshInv'
  BY <1>1, <1>2, SuspendFreshens DEF OnSnippetInsert
<1>3. ASSUME NEW item \in DOMAIN list, NEW cmd \in {"SnippetEdit", "SnippetDelete", "SnippetDuplicate"},
             PointAt(cmd, item)
      PROVE  FreshInv'
  BY <1>1, <1>3, SuspendFreshens DEF PointAt, SnippetMenu
<1>4. ASSUME NEW item \in DOMAIN list, OnSnippetMoveUp(item) \/ OnSnippetMoveDown(item)
      PROVE  FreshInv'
  BY <1>1, <1>4, MoveFreshens DEF OnSnippetMoveUp, OnSnippetMoveDown
<1>5. ASSUME NEW item \in DOMAIN list, NEW to, MoveTo_Refused(item, to) PROVE FreshInv'
  BY <1>1, <1>5, MoveRefusedFreshens
<1>6. CASE OnSnippetInsert_Done
  BY <1>6, AbandonedFreshens DEF OnSnippetInsert_Done, Abandoned, Waiting
<1>7. CASE OnSnippetAdd
  BY <1>1, <1>7, SuspendFreshens DEF OnSnippetAdd, SnippetMenu
<1>8. CASE Dangling
  <2>1. Fault("dangling") /\ UNCHANGED frame /\ frame.cmd # "LibraryNewLang"
    BY <1>8 DEF Dangling, Modal
  <2>2. QED
    BY <2>1, FaultFreshens
<1>9. ASSUME NEW name \in SnipNames, OnSnippetAdd_OK(name) PROVE FreshInv'
  BY <1>1, <1>9, RefreshFreshens DEF OnSnippetAdd_OK
<1>10. CASE OnSnippetAdd_Refused
  BY <1>1, <1>10, RefreshFreshens DEF OnSnippetAdd_Refused
<1>11. ASSUME NEW name \in SnipNames, OnSnippetEdit_OK(name) PROVE FreshInv'
  BY <1>1, <1>8, <1>11, EditOKFreshens
<1>12. ASSUME NEW name \in SnipNames, OnSnippetEdit_Refused(name) PROVE FreshInv'
  BY <1>1, <1>12, EditRefusedFreshens
<1>13. CASE OnSnippetDelete_Yes
  BY <1>1, <1>8, <1>13, DeleteYesFreshens
<1>14. CASE OnSnippetDuplicate_Yes
  BY <1>1, <1>8, <1>14, RefreshFreshens DEF OnSnippetDuplicate_Yes
<1>15. CASE OnSnippetDelete_Refused \/ OnSnippetDuplicate_Refused
  BY <1>15, AbandonedFreshens
     DEF OnSnippetDelete_Refused, OnSnippetDuplicate_Refused, Waiting
<1>16. QED
  BY <1>2, <1>3, <1>4, <1>5, <1>6, <1>7, <1>9, <1>10, <1>11, <1>12, <1>13, <1>14, <1>15
     DEF SnippetCommands, OnSnippetEdit, OnSnippetDelete, OnSnippetDuplicate

-----------------------------------------------------------------------------
(* The library menu. *)

(* Appending an object moves no library of the combobox, nor s_curLibrary.  *)
LEMMA AppendedChoice ==
  ASSUME IInv, NEW lib \in LibraryRow, combo' = Append(combo, lib), cur' = cur
  PROVE  /\ cur # 0 => combo'[cur'] = combo[cur]
         /\ \A i \in DOMAIN combo : i \in DOMAIN combo' /\ combo'[i] = combo[i]
         /\ \A i \in DOMAIN combo' : i \in DOMAIN combo \/ combo'[i] = lib
         /\ \E i \in DOMAIN combo' : combo'[i] = lib
<1>1. /\ Len(combo) \in Nat /\ DOMAIN combo = 1..Len(combo)
      /\ DOMAIN combo' = 1..(Len(combo) + 1)
      /\ \A i \in 1..Len(combo) : combo'[i] = combo[i]
      /\ combo'[Len(combo) + 1] = lib
  BY AppendedCombo
<1>2. cur \in 0..Len(combo)
  BY DEF IInv, TypeOK
<1>3. cur # 0 => combo'[cur'] = combo[cur]
  BY <1>1, <1>2
<1>4. \A i \in DOMAIN combo' : i \in DOMAIN combo \/ combo'[i] = lib
  BY <1>1
<1>5. Len(combo) + 1 \in DOMAIN combo'
  BY <1>1
<1>6. \A i \in DOMAIN combo : i \in DOMAIN combo' /\ combo'[i] = combo[i]
  BY <1>1
<1>7. \E i \in DOMAIN combo' : combo'[i] = lib
  BY <1>1, <1>5
<1>8. QED
  BY <1>3, <1>4, <1>6, <1>7, Zenon

(* What a new library, stored or not, does to the rest of the widgets.      *)
LEMMA NewLibraryFreshens ==
  ASSUME FreshInv, IInv', frame.cmd = "LibraryNew", fault = "none",
         NEW lib \in LibraryRow, lib.LibraryID \notin LibraryIDsOf(db),
         combo' = Append(combo, lib), Suspend("LibraryNewLang", 0, lib.LibraryID, 0),
         UNCHANGED <<lang, visible, shown, cur, curLang, filter, list, fault>>,
         ~unsaved' => ~unsaved,
         db'.LibraryLang = db.LibraryLang, db'.LangLastUsed = db.LangLastUsed,
         db'.Snippets = db.Snippets,
         db'.Library = db.Library \cup {lib} \/ (db' = db /\ unsaved')
  PROVE  FreshInv'
<1>1. frame'.cmd = "LibraryNewLang" /\ frame'.target = lib.LibraryID
  BY DEF Suspend
<1>2. IInv /\ Consistent(db) /\ visible
  BY InvariantIsConsistent DEF FreshInv, FrameKnows
<1>3. /\ \A x \in db.LibraryLang : x.LibraryID # lib.LibraryID
      /\ \A u \in db.LangLastUsed : u.LibraryID # lib.LibraryID
      /\ \A l \in db.Library : l.LibraryID # lib.LibraryID
  BY <1>2 DEF Consistent, ReferencesHold, LibraryIDsOf
<1>4. /\ cur # 0 => combo'[cur'] = combo[cur]
      /\ \A i \in DOMAIN combo : i \in DOMAIN combo' /\ combo'[i] = combo[i]
      /\ \A i \in DOMAIN combo' : i \in DOMAIN combo \/ combo'[i] = lib
      /\ \E i \in DOMAIN combo' : combo'[i] = lib
  BY <1>2, AppendedChoice
<1>5. \A l : LibrariesFor(db', l) = LibrariesFor(db, l)
  <2>1. CASE db' = db
    BY <2>1
  <2>2. CASE db'.Library = db.Library \cup {lib}
    BY <1>3, <2>2 DEF LibrariesFor
  <2>3. QED
    BY <2>1, <2>2
<1>6. NewLibrary = {} /\ NewLibrary' \subseteq {lib} /\ (~unsaved' => NewLibrary' = {lib})
  <2>1. NewLibrary = {}
    BY DEF NewLibrary
  <2>2. CASE db' = db /\ unsaved'
    BY <1>1, <1>3, <2>1, <2>2 DEF NewLibrary
  <2>3. CASE db'.Library = db.Library \cup {lib}
    BY <1>1, <1>3, <2>1, <2>3 DEF NewLibrary
  <2>4. QED
    BY <2>2, <2>3
<1>7. ListHolds'
  <2>1. ListHolds
    BY WidgetsParts DEF FreshInv
  <2>2. QED
    BY <1>4, <2>1, ListStays
<1>8. ASSUME ComboHolds PROVE ComboHolds'
  <2>1. ComboShows'
    <3>1. curLang' = IF LibrariesFor(db', lang') # {} THEN lang' ELSE NoOtherLib
      BY <1>5, <1>8 DEF ComboHolds, ComboShows
    <3>2. ASSUME NEW l \in NewLibrary' \cup {r.lib : r \in LibrariesFor(db', curLang')}
          PROVE  \E i \in DOMAIN combo' : combo'[i] = l
      <4>1. CASE l \in NewLibrary'
        BY <1>4, <1>6, <4>1
      <4>2. CASE l \in {r.lib : r \in LibrariesFor(db', curLang')}
        <5>1. l \in {r.lib : r \in LibrariesFor(db, curLang)}
          BY <1>5, <4>2
        <5>2. PICK i \in DOMAIN combo : combo[i] = l
          BY <1>8, <5>1 DEF ComboHolds, ComboShows
        <5>3. QED
          BY <1>4, <5>2
      <4>3. QED
        BY <3>2, <4>1, <4>2
    <3>3. QED
      BY <3>1, <3>2 DEF ComboShows
  <2>2. ASSUME ~unsaved' PROVE ComboCopies'
    <3>1. ComboCopies /\ NewLibrary' = {lib}
      BY <1>6, <1>8, <2>2 DEF ComboHolds
    <3>2. ASSUME NEW i \in DOMAIN combo'
          PROVE  combo'[i] \in NewLibrary' \/ \E r \in LibrariesFor(db', curLang') : combo'[i] = r.lib
      <4>1. CASE combo'[i] = lib
        BY <3>1, <4>1
      <4>2. CASE i \in DOMAIN combo
        BY <1>4, <1>5, <1>6, <3>1, <4>2 DEF ComboCopies
      <4>3. QED
        BY <1>4, <4>1, <4>2
    <3>3. QED
      BY <3>2 DEF ComboCopies
  <2>3. ASSUME ChoiceHolds PROVE ChoiceHolds'
    <3>1. CurrentID' = CurrentID
      BY <1>4 DEF CurrentID
    <3>2. ASSUME NEW u \in db.LangLastUsed, NEW i \in DOMAIN combo', combo'[i].LibraryID = u.LibraryID
          PROVE  \E j \in DOMAIN combo : combo[j].LibraryID = u.LibraryID
      <4>1. i \in DOMAIN combo
        BY <1>3, <1>4, <3>2
      <4>2. QED
        BY <1>4, <3>2, <4>1
    <3>3. QED
      BY <2>3, <3>1, <3>2 DEF ChoiceHolds
  <2>4. QED
    BY <1>8, <2>1, <2>2, <2>3 DEF ComboHolds
<1>9. shown /\ fault = "none" => ComboHolds
  BY WidgetsParts DEF FreshInv
<1>10. WidgetsFresh'
  BY <1>7, <1>8, <1>9 DEF WidgetsFresh, ListHolds, ComboHolds
<1>11. FrameKnows'
  BY <1>1, <1>2, <1>3 DEF FrameKnows
<1>12. QED
  BY <1>10, <1>11 DEF FreshInv

(* A library that is inserted has no language yet: it is in the combobox    *)
(* because the handler put it there, and no query would return it.          *)
LEMMA LibraryNewOKFreshens ==
  ASSUME FreshInv, IInv', NEW name \in LibNames, NEW alphabetic \in BOOLEAN,
         OnLibraryNew_OK(name, alphabetic)
  PROVE  FreshInv'
<1> DEFINE lib == NewObject(name, alphabetic)
<1>1. /\ frame.cmd = "LibraryNew" /\ fault = "none" /\ lib.LibraryID <= MaxLibraryID
      /\ db' = InsertLibrary(db, lib)
      /\ combo' = Append(combo, lib)
      /\ Suspend("LibraryNewLang", 0, lib.LibraryID, 0)
      /\ UNCHANGED <<lang, visible, shown, cur, curLang, filter, list, fault, unsaved>>
  BY DEF OnLibraryNew_OK, Waiting
<1>2. IInv /\ db \in Database
  BY DEF FreshInv, IInv, TypeOK
<1>3. lib \in LibraryRow /\ lib.LibraryID \notin LibraryIDsOf(db)
  BY <1>1, <1>2, NewObjectIs
<1> HIDE DEF lib
<1>4. /\ db'.Library = db.Library \cup {lib} /\ db'.LibraryLang = db.LibraryLang
      /\ db'.LangLastUsed = db.LangLastUsed /\ db'.Snippets = db.Snippets
  BY <1>1, <1>2 DEF InsertLibrary, Database
<1>5. QED
  BY <1>1, <1>3, <1>4, NewLibraryFreshens

(* One whose INSERT was refused is in the combobox only.                    *)
LEMMA LibraryNewRefusedFreshens ==
  ASSUME FreshInv, IInv', NEW name \in LibNames, NEW alphabetic \in BOOLEAN,
         OnLibraryNew_Refused(name, alphabetic)
  PROVE  FreshInv'
<1> DEFINE lib == NewObject(name, alphabetic)
<1>1. /\ frame.cmd = "LibraryNew" /\ fault = "none" /\ lib.LibraryID <= MaxLibraryID
      /\ combo' = Append(combo, lib) /\ unsaved' = TRUE
      /\ Suspend("LibraryNewLang", 0, lib.LibraryID, 0)
      /\ UNCHANGED <<db, lang, visible, shown, cur, curLang, filter, list, fault>>
  BY DEF OnLibraryNew_Refused, Waiting
<1>2. lib \in LibraryRow /\ lib.LibraryID \notin LibraryIDsOf(db)
  BY <1>1, NewObjectIs DEF FreshInv
<1> HIDE DEF lib
<1>3. QED
  BY <1>1, <1>2, NewLibraryFreshens

(* With its language the new library is one the combobox would show anyway. *)
LEMMA AddLanguageFreshens ==
  ASSUME FreshInv, IInv', OnLibraryNew_AddLanguage
  PROVE  FreshInv'
<1> DEFINE id == frame.target
<1>1. /\ frame.cmd = "LibraryNewLang" /\ fault = "none"
      /\ db' = AddLanguage(db, id, curLang)
      /\ frame' = NoFrame
      /\ UNCHANGED <<lang, visible, shown, combo, cur, curLang, filter, list, fault, unsaved>>
  BY DEF OnLibraryNew_AddLanguage, Waiting, widgets
<1>2. visible /\ ListHolds /\ IInv /\ Consistent(db)
  BY <1>1, InvariantIsConsistent, WidgetsParts DEF FreshInv, FrameKnows
<1> DEFINE row == [LibraryID |-> id, Lang |-> curLang]
<1>3. /\ db'.Library = db.Library /\ db'.LibraryLang = db.LibraryLang \cup {row}
      /\ db'.LangLastUsed = db.LangLastUsed /\ db'.Snippets = db.Snippets
  BY <1>1, <1>2 DEF AddLanguage, Database, Consistent
<1> HIDE DEF id
<1>4. NewLibrary = {l \in db.Library : l.LibraryID = id} /\ NewLibrary' = {}
  BY <1>1 DEF NewLibrary, NoFrame, id
<1>5. lang \in Nat /\ curLang # AllLanguages
  BY <1>2, TablesAssumption DEF IInv, TypeOK, NoOtherLib, AllLanguages
<1>6. \A l : LibrariesFor(db, l) \subseteq LibrariesFor(db', l)
  BY <1>3 DEF LibrariesFor
<1>7. ASSUME ComboShows, lang # curLang PROVE LibrariesFor(db', lang) = {}
  <2>1. LibrariesFor(db, lang) = {}
    BY <1>7 DEF ComboShows
  <2>2. ASSUME NEW r \in LibrariesFor(db', lang) PROVE FALSE
    <3>1. r.Lang # curLang
      <4>1. r.Lang \in {lang, AllLanguages}
        BY <2>2 DEF LibrariesFor
      <4>2. QED
        BY <1>5, <1>7, <4>1
    <3>2. [LibraryID |-> r.lib.LibraryID, Lang |-> r.Lang] # row
      BY <3>1
    <3>3. [LibraryID |-> r.lib.LibraryID, Lang |-> r.Lang] \in db.LibraryLang
          /\ r.lib \in db.Library /\ r.Lang \in {lang, AllLanguages}
      BY <1>3, <2>2, <3>2, LibrariesForOf
    <3>4. [lib |-> r.lib, Lang |-> r.Lang] \in LibrariesFor(db, lang)
      BY <3>3, LibrariesForOf
    <3>5. QED
      BY <2>1, <3>4
  <2>3. QED
    BY <2>2
<1>8. \A l \in NewLibrary : \E r \in LibrariesFor(db', curLang) : l = r.lib
  <2>1. SUFFICES ASSUME NEW l \in db.Library, l.LibraryID = id
                 PROVE  \E r \in LibrariesFor(db', curLang) : l = r.lib
    BY <1>4
  <2>2. [LibraryID |-> l.LibraryID, Lang |-> curLang] \in db'.LibraryLang /\ l \in db'.Library
    BY <1>3, <2>1
  <2>3. [lib |-> l, Lang |-> curLang] \in LibrariesFor(db', curLang)
    BY <2>2, LibrariesForOf
  <2>4. QED
    BY <2>3
<1>9. ASSUME NEW r \in LibrariesFor(db', curLang)
      PROVE  r.lib \in NewLibrary \cup {q.lib : q \in LibrariesFor(db, curLang)}
  <2>1. /\ r.lib \in db.Library /\ r.Lang \in {curLang, AllLanguages}
        /\ [LibraryID |-> r.lib.LibraryID, Lang |-> r.Lang] \in db.LibraryLang \cup {row}
    BY <1>3, <1>9, LibrariesForOf
  <2>2. CASE r.lib.LibraryID = id
    BY <1>4, <2>1, <2>2
  <2>3. CASE r.lib.LibraryID # id
    <3>1. [LibraryID |-> r.lib.LibraryID, Lang |-> r.Lang] # row
      BY <2>3
    <3>2. [LibraryID |-> r.lib.LibraryID, Lang |-> r.Lang] \in db.LibraryLang
      BY <2>1, <3>1
    <3>3. [lib |-> r.lib, Lang |-> r.Lang] \in LibrariesFor(db, curLang)
      BY <2>1, <3>2, LibrariesForOf
    <3>4. QED
      BY <3>3
  <2>4. QED
    BY <2>2, <2>3
<1>10. ASSUME ComboShows PROVE ComboShows'
  <2>1. curLang' = IF LibrariesFor(db', lang') # {} THEN lang' ELSE NoOtherLib
    BY <1>1, <1>6, <1>7, <1>10 DEF ComboShows
  <2>2. ASSUME NEW r \in LibrariesFor(db', curLang) PROVE \E i \in DOMAIN combo : combo[i] = r.lib
    <3>1. r.lib \in NewLibrary \cup {q.lib : q \in LibrariesFor(db, curLang)}
      BY <1>9, <2>2
    <3>2. QED
      BY <1>10, <3>1, Zenon DEF ComboShows
  <2>3. QED
    BY <1>1, <1>4, <2>1, <2>2 DEF ComboShows
<1>11. ASSUME ComboCopies PROVE ComboCopies'
  <2>1. \A i \in DOMAIN combo : \E r \in LibrariesFor(db', curLang) : combo[i] = r.lib
    BY <1>6, <1>8, <1>11 DEF ComboCopies
  <2>2. QED
    BY <1>1, <2>1 DEF ComboCopies
<1>12. ChoiceHolds => ChoiceHolds'
  BY <1>1, <1>3, ChoiceStays
<1>13. ListHolds'
  BY <1>1, <1>2, <1>3, ListStays
<1>14. shown /\ fault = "none" => ComboHolds
  BY WidgetsParts DEF FreshInv
<1>15. WidgetsFresh'
  BY <1>1, <1>10, <1>11, <1>12, <1>13, <1>14 DEF WidgetsFresh, ListHolds, ComboHolds
<1>16. QED
  BY <1>1, <1>2, <1>15, NoFrameKnows DEF FreshInv

(* Without it the library stays in the combobox, which still has all others.*)
LEMMA AddLanguageRefusedFreshens ==
  ASSUME FreshInv, IInv', OnLibraryNew_AddLanguage_Refused
  PROVE  FreshInv'
<1>1. /\ frame.cmd = "LibraryNewLang" /\ frame' = NoFrame /\ unsaved' = TRUE
      /\ UNCHANGED <<db, lang, visible, shown, combo, cur, curLang, filter, list, fault>>
  BY DEF OnLibraryNew_AddLanguage_Refused, Waiting
<1>2. visible /\ ListHolds /\ (shown /\ fault = "none" => ComboShows)
  BY <1>1, WidgetsParts DEF FreshInv, FrameKnows, ComboHolds
<1>3. ListHolds'
  BY <1>1, <1>2, ListStays
<1>4. ComboShows => ComboShows'
  <2>1. NewLibrary' = {}
    BY <1>1 DEF NewLibrary, NoFrame
  <2>2. QED
    BY <1>1, <2>1 DEF ComboShows
<1>5. WidgetsFresh'
  BY <1>1, <1>2, <1>3, <1>4 DEF WidgetsFresh, ListHolds
<1>6. QED
  BY <1>1, <1>2, <1>5, NoFrameKnows DEF FreshInv

(* The library menu keeps the widgets fresh.                                *)
LEMMA LibraryCommandsFreshen ==
  ASSUME FreshInv, LibraryCommands
  PROVE  FreshInv'
<1>1. IInv'
  BY LibraryCommandsPreserve DEF FreshInv
<1>2. CASE OnLibraryNew \/ OnLibraryEdit \/ OnLibraryLanguages
  BY <1>1, <1>2, SuspendFreshens DEF OnLibraryNew, OnLibraryEdit, OnLibraryLanguages
<1>3. CASE OnLibraryDelete
  <2>1. Ready /\ Suspend("LibraryDelete", 0, CurrentID, 0) /\ UNCHANGED <<db, widgets>>
    BY <1>3 DEF OnLibraryDelete, Fault
  <2>2. QED
    BY <1>1, <2>1, SuspendFreshens
<1>4. Sortings \subseteq BOOLEAN
  BY ConsoleAssumption
<1>5. ASSUME NEW name \in LibNames, NEW alphabetic \in Sortings,
             OnLibraryNew_OK(name, alphabetic) \/ OnLibraryNew_Refused(name, alphabetic)
      PROVE  FreshInv'
  <2>1. alphabetic \in BOOLEAN
    BY <1>4
  <2>2. QED
    BY <1>1, <1>5, <2>1, LibraryNewOKFreshens, LibraryNewRefusedFreshens
<1>6. CASE OnLibraryNew_AddLanguage
  BY <1>1, <1>6, AddLanguageFreshens
<1>7. CASE OnLibraryNew_AddLanguage_Refused
  BY <1>1, <1>7, AddLanguageRefusedFreshens
<1>8. CASE Dangling
  <2>1. Fault("dangling") /\ UNCHANGED frame /\ frame.cmd # "LibraryNewLang"
    BY <1>8 DEF Dangling, Modal
  <2>2. QED
    BY <2>1, FaultFreshens
<1>9. ASSUME NEW name \in LibNames, NEW alphabetic \in Sortings, OnLibraryEdit_OK(name, alphabetic)
      PROVE  FreshInv'
  <2>1. CASE Fault("null") /\ UNCHANGED frame
    BY <1>9, <2>1, FaultFreshens DEF OnLibraryEdit_OK, Waiting
  <2>2. CASE DoneAndRefresh(UpdateLibrary(db,
               [combo[cur] EXCEPT !.Name = name, !.Alphabetic = alphabetic]))
    BY <1>1, <2>2, RefreshFreshens
  <2>3. QED
    BY <1>8, <1>9, <2>1, <2>2 DEF OnLibraryEdit_OK
<1>10. ASSUME NEW langs \in SUBSET LangIDs, OnLibraryLanguages_OK(langs) PROVE FreshInv'
  <2>1. CASE DoneAndRefresh(SaveLanguages(db, combo[cur].LibraryID, langs))
    BY <1>1, <2>1, RefreshFreshens
  <2>2. QED
    BY <1>8, <1>10, <2>1 DEF OnLibraryLanguages_OK
<1>11. CASE OnLibraryDelete_Yes
  <2>1. CASE cur = 0
    BY <1>11, <2>1, FaultFreshens DEF OnLibraryDelete_Yes, Waiting
  <2>2. CASE cur # 0
    BY <1>1, <1>11, <2>2, RefreshFreshens DEF OnLibraryDelete_Yes
  <2>3. QED
    BY <2>1, <2>2
<1>12. CASE OnLibraryEdit_Refused \/ OnLibraryLanguages_Refused
  BY <1>1, <1>12, RefreshFreshens DEF OnLibraryEdit_Refused, OnLibraryLanguages_Refused
<1>13. CASE OnLibraryDelete_Refused
  BY <1>13, AbandonedFreshens DEF OnLibraryDelete_Refused, Waiting
<1>14. QED
  BY <1>2, <1>3, <1>5, <1>6, <1>7, <1>9, <1>10, <1>11, <1>12, <1>13 DEF LibraryCommands

-----------------------------------------------------------------------------
(* The theorems. *)

(* Every step keeps the widgets fresh.                                      *)
LEMMA StepFreshens == FreshInv /\ [Next]_vars => FreshInv'
<1> SUFFICES ASSUME FreshInv, [Next]_vars PROVE FreshInv'
  OBVIOUS
<1>1. CASE Next
  BY <1>1, NotepadFreshens, WidgetsFreshen, SnippetCommandsFreshen,
     LibraryCommandsFreshen DEF Next
<1>2. CASE UNCHANGED vars
  <2>1. IInv'
    BY <1>2, StepPreserves DEF FreshInv
  <2>2. FrameKnows'
    BY <1>2 DEF vars, FreshInv, FrameKnows, CurrentID
  <2>3. ListShows' /\ (ListCopies => ListCopies')
    BY <1>2 DEF vars, FreshInv, WidgetsFresh, ListShows, ListCopies
  <2>4. (ComboShows => ComboShows') /\ (ComboCopies => ComboCopies')
    BY <1>2 DEF vars, ComboShows, ComboCopies, NewLibrary
  <2>5. ChoiceHolds => ChoiceHolds'
    BY <1>2 DEF vars, ChoiceHolds, CurrentID
  <2>6. WidgetsFresh'
    BY <1>2, <2>3, <2>4, <2>5 DEF vars, FreshInv, WidgetsFresh
  <2>7. QED
    BY <2>1, <2>2, <2>6 DEF FreshInv
<1>3. QED
  BY <1>1, <1>2

(* The inductive invariant of the widgets: whatever notifications, dialogs, *)
(* the x of the console, crashes and refused writes do, the combobox and the*)
(* list show what is stored, as far as no refused write left them ahead of  *)
(* it, and every suspended handler knows what its second half relies on.    *)
THEOREM FreshInvHolds == Spec => []FreshInv
<1>1. Init => FreshInv
  BY InitFresh
<1>2. FreshInv /\ [Next]_vars => FreshInv'
  BY StepFreshens
<1>3. QED
  BY <1>1, <1>2, PTL DEF Spec

(* Between handlers no library is halfway through being created.            *)
LEMMA SettledIsFresh ==
  ASSUME FreshInv, Settled
  PROVE  /\ ComboShows /\ NewLibrary = {}
         /\ ~unsaved => ComboCopies /\ ChoiceHolds
  BY DEF FreshInv, WidgetsFresh, Settled, NewLibrary

(* The combobox holds every library the database has for the document's     *)
(* language, whatever was refused, and their present contents unless        *)
(* something was (AddLibsToCombo).                                          *)
THEOREM ComboFreshHolds == Spec => []ComboFresh
<1>1. FreshInv => ComboFresh
  <2> DEFINE libraries == {r.lib : r \in LibrariesFor(db, curLang)}
  <2> DEFINE objects == {combo[i] : i \in DOMAIN combo}
  <2>1. SUFFICES ASSUME FreshInv, Settled
                 PROVE  /\ curLang = IF LibrariesFor(db, lang) # {} THEN lang ELSE NoOtherLib
                        /\ libraries \subseteq objects
                        /\ ~unsaved => objects \subseteq libraries
    BY DEF ComboFresh
  <2>2. ComboShows /\ NewLibrary = {} /\ (~unsaved => ComboCopies)
    BY <2>1, SettledIsFresh
  <2>3. libraries \subseteq objects
    BY <2>2 DEF ComboShows
  <2>4. ~unsaved => objects \subseteq libraries
    BY <2>2 DEF ComboCopies
  <2>5. QED
    BY <2>2, <2>3, <2>4 DEF ComboShows
<1>2. QED
  BY <1>1, FreshInvHolds, PTL

(* The list shows the snippets of the chosen library, every one the filter  *)
(* lets through, whatever was refused, and their present contents unless    *)
(* something was (AddListItems and the handlers that patch the list instead *)
(* of reading it again).                                                    *)
THEOREM ListFreshHolds == Spec => []ListFresh
<1>1. FreshInv => ListFresh
  BY DEF ListFresh, FreshInv, WidgetsFresh
<1>2. QED
  BY <1>1, FreshInvHolds, PTL

(* The library remembered for the language is the one that is chosen.       *)
THEOREM LastUsedIsShownHolds == Spec => []LastUsedIsShown
<1>1. FreshInv => LastUsedIsShown
  BY SettledIsFresh DEF LastUsedIsShown
<1>2. QED
  BY <1>1, FreshInvHolds, PTL

-----------------------------------------------------------------------------
(* Every library once. *)

(* The rows for a language are of different libraries, unless one library   *)
(* is both for that language and for all.                                   *)
LEMMA RowsOnce ==
  ASSUME NEW d, Consistent(d), GeneralAlone(d), NEW l, NEW rows \in LibraryRows(d, l)
  PROVE  \A i, j \in DOMAIN rows : rows[i].lib.LibraryID = rows[j].lib.LibraryID => i = j
<1> SUFFICES ASSUME NEW i \in DOMAIN rows, NEW j \in DOMAIN rows,
                    rows[i].lib.LibraryID = rows[j].lib.LibraryID
             PROVE  i = j
  OBVIOUS
<1>1. rows[i] \in LibrariesFor(d, l) /\ rows[j] \in LibrariesFor(d, l)
  BY LibraryRowsOf
<1>2. rows[i].lib = rows[j].lib
  BY <1>1, LibrariesForOf DEF Consistent, KeysUnique
<1>3. /\ [LibraryID |-> rows[i].lib.LibraryID, Lang |-> rows[i].Lang] \in d.LibraryLang
      /\ [LibraryID |-> rows[j].lib.LibraryID, Lang |-> rows[j].Lang] \in d.LibraryLang
      /\ rows[i].Lang \in {l, AllLanguages} /\ rows[j].Lang \in {l, AllLanguages}
      /\ rows[i] = [lib |-> rows[i].lib, Lang |-> rows[i].Lang]
      /\ rows[j] = [lib |-> rows[j].lib, Lang |-> rows[j].Lang]
  BY <1>1, LibrariesForOf
<1>4. ASSUME NEW id, NEW a, NEW b, a = AllLanguages,
             [LibraryID |-> id, Lang |-> a] \in d.LibraryLang,
             [LibraryID |-> id, Lang |-> b] \in d.LibraryLang
      PROVE  a = b
  <2>1. [LibraryID |-> id, Lang |-> a] = [LibraryID |-> id, Lang |-> b]
    BY <1>4 DEF GeneralAlone
  <2>2. QED
    BY <2>1
<1>5. rows[i].Lang = rows[j].Lang
  BY <1>2, <1>3, <1>4
<1>6. rows[i] = rows[j]
  BY <1>2, <1>3, <1>5
<1>7. QED
  BY <1>6, LibraryRowsOf

(* The combobox has no library twice, and none that is not stored.          *)
ComboOnce == \A i, j \in DOMAIN combo : combo[i].LibraryID = combo[j].LibraryID => i = j
ComboStored == \A i \in DOMAIN combo : combo[i].LibraryID \in LibraryIDsOf(db)

(* Why: no general language stands beside another language of a library,    *)
(* and a new library has an id that no object of the combobox has.          *)
OnceInv == GeneralAlone(db) /\ (~unsaved => ComboOnce /\ ComboStored)

(* Reading the combobox again puts every library in it once.                *)
LEMMA RefreshOnce ==
  ASSUME NEW d, Consistent(d), GeneralAlone(d), NEW l, UpdateSnippetsList(d, l), db' = d
  PROVE  OnceInv'
<1>1. PICK language :
        \E rows \in LibraryRows(d, language) : combo' = [i \in DOMAIN rows |-> rows[i].lib]
  BY DEF UpdateSnippetsList, AddComboItems
<1>2. PICK rows \in LibraryRows(d, language) : combo' = [i \in DOMAIN rows |-> rows[i].lib]
  BY <1>1
<1>3. \A i, j \in DOMAIN rows : rows[i].lib.LibraryID = rows[j].lib.LibraryID => i = j
  BY RowsOnce
<1>4. ComboOnce'
  BY <1>2, <1>3 DEF ComboOnce
<1>5. \A i \in DOMAIN rows : rows[i].lib \in d.Library
  BY LibraryRowsOf, LibrariesForOf
<1>6. ComboStored'
  BY <1>2, <1>5 DEF ComboStored, LibraryIDsOf
<1>7. QED
  BY <1>4, <1>6 DEF OnceInv

(* A handler that refreshes after writing languages that are in order.      *)
LEMMA DoneOnce ==
  ASSUME IInv', NEW d, GeneralAlone(d), DoneAndRefresh(d)
  PROVE  OnceInv'
<1>1. db' = d /\ UpdateSnippetsList(d, lang)
  BY DEF DoneAndRefresh
<1>2. Consistent(d)
  BY <1>1, StepIsConsistent
<1>3. QED
  BY <1>1, <1>2, RefreshOnce

(* A step that neither writes libraries nor fills the combobox.             *)
LEMMA SameOnce ==
  ASSUME OnceInv, db'.Library = db.Library, db'.LibraryLang = db.LibraryLang,
         combo' = combo \/ DOMAIN combo' = {}, ~unsaved' => ~unsaved
  PROVE  OnceInv'
<1>1. GeneralAlone(db')
  BY DEF OnceInv, GeneralAlone
<1>2. LibraryIDsOf(db') = LibraryIDsOf(db)
  BY DEF LibraryIDsOf
<1>3. CASE combo' = combo
  BY <1>1, <1>2, <1>3 DEF OnceInv, ComboOnce, ComboStored
<1>4. CASE DOMAIN combo' = {}
  BY <1>1, <1>4 DEF OnceInv, ComboOnce, ComboStored
<1>5. QED
  BY <1>3, <1>4

(* Validate lets a general language be saved only by itself.                *)
LEMMA SaveLanguagesAlone ==
  ASSUME Consistent(db), GeneralAlone(db), NEW id, NEW langs \in SUBSET LangIDs, Validate(langs)
  PROVE  GeneralAlone(SaveLanguages(db, id, langs))
<1> DEFINE saved == [LibraryID : {id}, Lang : langs]
<1>1. SaveLanguages(db, id, langs).LibraryLang =
        {x \in db.LibraryLang : x.LibraryID # id} \cup saved
  BY DEF SaveLanguages, Consistent, Database
<1>2. IsFiniteSet(langs)
  <2>1. IsFiniteSet(LangIDs)
    <3>1. IsFiniteSet({NoOtherLib}) /\ IsFiniteSet({AllLanguages}) /\ IsFiniteSet(Langs)
      BY TablesAssumption, FS_Singleton
    <3>2. LangIDs = (Langs \cup {NoOtherLib}) \cup {AllLanguages}
      BY DEF LangIDs
    <3>3. QED
      BY <3>1, <3>2, FS_Union
  <2>2. QED
    BY <2>1, FS_Subset
<1>3. ASSUME NEW g \in langs, g \in {NoOtherLib, AllLanguages} PROVE langs = {g}
  <2>1. Cardinality(langs) = 1
    BY <1>3 DEF Validate
  <2>2. \E x : langs = {x}
    BY <1>2, <2>1, FS_Singleton
  <2>3. QED
    BY <1>3, <2>2
<1>4. ASSUME NEW x \in saved, NEW y \in saved, x.Lang \in {NoOtherLib, AllLanguages}
      PROVE  x = y
  <2>1. x.Lang \in langs /\ y.Lang \in langs
    OBVIOUS
  <2>2. x.Lang = y.Lang
    BY <1>3, <1>4, <2>1
  <2>3. QED
    BY <2>2
<1>5. \A x \in saved : x.LibraryID = id
  OBVIOUS
<1> HIDE DEF saved
<1>6. QED
  BY <1>1, <1>4, <1>5 DEF GeneralAlone

(* Only the library menu writes to the tables of libraries and languages.   *)
LEMMA LibrariesStay ==
  ASSUME db \in Database, Notepad \/ Widgets \/ SnippetCommands
  PROVE  db'.Library = db.Library /\ db'.LibraryLang = db.LibraryLang
<1> DEFINE Same(d) == d.Library = db.Library /\ d.LibraryLang = db.LibraryLang
<1>1. \A snip : Same(InsertSnippet(db, snip)) /\ Same(UpdateSnippet(db, snip))
  BY DEF InsertSnippet, UpdateSnippet, Database
<1>2. \A id, objects : Same(DeleteSnippet(db, id)) /\ Same(UpdateSorts(db, objects))
  BY DEF DeleteSnippet, UpdateSorts, Database
<1>3. \A l, id : Same(ForgetLastUsed(db, l)) /\ Same(InsertLastUsed(db, l, id))
  BY DEF ForgetLastUsed, InsertLastUsed, Database
<1>4. CASE db' = db
  BY <1>4
<1>5. CASE Notepad
  BY <1>4, <1>5
     DEF Notepad, BeNotified, ShowConsole, HideConsole, OnClose, Restart, Undefined, vars
<1>6. CASE Widgets
  <2>1. ASSUME NEW names \in Filters, OnChange_Filter(names) PROVE db' = db
    BY <2>1 DEF OnChange_Filter
  <2>2. ASSUME NEW i \in DOMAIN combo, OnSelChange_Combo(i)
        PROVE  db' = db \/ db' = ForgetLastUsed(db, curLang)
    BY <2>2 DEF OnSelChange_Combo, Fault
  <2>3. OnSelChange_Store => db' = InsertLastUsed(db, curLang, frame.target)
    BY DEF OnSelChange_Store
  <2>4. ASSUME NEW i \in DOMAIN combo,
               OnSelChange_Combo_Refused(i) \/ OnSelChange_Combo_SameLibrary(i)
        PROVE  db' = db
    BY <2>4 DEF OnSelChange_Combo_Refused, OnSelChange_Combo_SameLibrary
  <2>5. OnSelChange_Store_Refused \/ OnContextMenu \/ OnCancel => db' = db
    BY DEF OnSelChange_Store_Refused, Abandoned, OnContextMenu, OnCancel, Fault
  <2>6. QED
    BY <1>3, <1>6, <2>1, <2>2, <2>3, <2>4, <2>5 DEF Widgets
<1>7. CASE SnippetCommands
  <2>1. ASSUME NEW item \in DOMAIN list,
               \/ OnSnippetInsert(item)
               \/ OnSnippetEdit(item) \/ OnSnippetDelete(item) \/ OnSnippetDuplicate(item)
               \/ \E to : MoveTo_Refused(item, to)
        PROVE  db' = db
    BY <2>1 DEF OnSnippetInsert, OnSnippetEdit, OnSnippetDelete, OnSnippetDuplicate, PointAt,
                MoveTo_Refused
  <2>2. ASSUME NEW item \in DOMAIN list, OnSnippetMoveUp(item) \/ OnSnippetMoveDown(item)
        PROVE  db' = UpdateSorts(db, list')
    BY <2>2 DEF OnSnippetMoveUp, OnSnippetMoveDown, MoveTo
  <2>3. /\ OnSnippetInsert_Done \/ OnSnippetAdd \/ OnSnippetAdd_Refused \/ Dangling => db' = db
        /\ OnSnippetDelete_Refused \/ OnSnippetDuplicate_Refused => db' = db
    BY DEF OnSnippetInsert_Done, OnSnippetAdd, OnSnippetAdd_Refused, DoneAndRefresh, Dangling,
           Fault, OnSnippetDelete_Refused, OnSnippetDuplicate_Refused, Abandoned
  <2>4. ASSUME NEW name \in SnipNames, OnSnippetAdd_OK(name)
        PROVE  \E snip : db' = InsertSnippet(db, snip)
    BY <2>4 DEF OnSnippetAdd_OK, DoneAndRefresh
  <2>5. ASSUME NEW name \in SnipNames, OnSnippetEdit_OK(name) \/ OnSnippetEdit_Refused(name)
        PROVE  db' = db \/ \E snip : db' = UpdateSnippet(db, snip)
    BY <2>3, <2>5 DEF OnSnippetEdit_OK, OnSnippetEdit_Refused
  <2>6. OnSnippetDelete_Yes => db' = db \/ \E id : db' = DeleteSnippet(db, id)
    BY <2>3 DEF OnSnippetDelete_Yes
  <2>7. OnSnippetDuplicate_Yes => db' = db \/ \E snip : db' = InsertSnippet(db, snip)
    BY <2>3 DEF OnSnippetDuplicate_Yes, DoneAndRefresh
  <2> HIDE DEF Same
  <2>8. \/ db' = db \/ (\E snip : db' = InsertSnippet(db, snip))
        \/ (\E snip : db' = UpdateSnippet(db, snip)) \/ (\E id : db' = DeleteSnippet(db, id))
        \/ db' = UpdateSorts(db, list')
    BY <1>7, <2>1, <2>2, <2>3, <2>4, <2>5, <2>6, <2>7 DEF SnippetCommands
  <2>9. Same(db')
    BY <1>1, <1>2, <2>8 DEF Same
  <2>10. QED
    BY <2>9 DEF Same
<1>8. QED
  BY <1>5, <1>6, <1>7

(* Outside the library menu the combobox is left alone, read again, or      *)
(* emptied with its window or its process.                                  *)
LEMMA ComboStep ==
  ASSUME Notepad \/ Widgets \/ SnippetCommands
  PROVE  \/ combo' = combo /\ (~unsaved' => ~unsaved)
         \/ combo' = <<>>
         \/ \E l : UpdateSnippetsList(db', l)
<1> DEFINE Stays == combo' = combo /\ (~unsaved' => ~unsaved)
<1> DEFINE IsRead == \E l : UpdateSnippetsList(db', l)
<1>1. ASSUME NEW kind, Fault(kind) PROVE Stays
  BY <1>1 DEF Fault, widgets
<1>2. Abandoned => Stays
  BY DEF Abandoned, widgets
<1>3. ASSUME NEW d, DoneAndRefresh(d) PROVE IsRead
  <2>1. UpdateSnippetsList(d, lang) /\ db' = d
    BY <1>3 DEF DoneAndRefresh
  <2>2. QED
    BY <2>1, Zenon
<1>4. CASE Notepad
  <2>1. ASSUME NEW l \in Langs, BeNotified(l) PROVE Stays \/ IsRead
    <3>1. db' = db /\ (UpdateSnippetsList(db, l) \/ Stays)
      BY <2>1, Zenon DEF BeNotified
    <3>2. QED
      BY <3>1, Zenon
  <2>2. ShowConsole => IsRead
    <3>1. ShowConsole => db' = db /\ UpdateSnippetsList(db, lang)
      BY Zenon DEF ShowConsole
    <3>2. QED
      BY <3>1, Zenon
  <2>3. HideConsole \/ Undefined => Stays
    BY DEF HideConsole, Undefined, vars
  <2>4. OnClose \/ Restart => combo' = <<>>
    BY DEF OnClose, Restart
  <2> HIDE DEF Stays, IsRead
  <2>5. QED
    BY <1>4, <2>1, <2>2, <2>3, <2>4 DEF Notepad, Stays, IsRead
<1>5. CASE Widgets
  <2>1. Stays
    BY <1>1, <1>2, <1>5
       DEF Widgets, OnChange_Filter, OnSelChange_Combo, OnSelChange_Combo_Refused,
           OnSelChange_Combo_SameLibrary, OnSelChange_Store, OnSelChange_Store_Refused,
           OnContextMenu, OnCancel, widgets
  <2>2. QED
    BY <2>1
<1>6. CASE SnippetCommands
  <2>1. ASSUME NEW item \in DOMAIN list,
               \/ OnSnippetInsert(item)
               \/ OnSnippetEdit(item) \/ OnSnippetDelete(item) \/ OnSnippetDuplicate(item)
               \/ OnSnippetMoveUp(item) \/ OnSnippetMoveDown(item)
               \/ \E to : MoveTo_Refused(item, to)
        PROVE  Stays
    BY <2>1 DEF OnSnippetInsert, OnSnippetEdit, OnSnippetDelete, OnSnippetDuplicate, PointAt,
                OnSnippetMoveUp, OnSnippetMoveDown, MoveTo, MoveTo_Refused, widgets
  <2>2. OnSnippetInsert_Done \/ OnSnippetAdd => Stays
    BY DEF OnSnippetInsert_Done, OnSnippetAdd, widgets
  <2>3. Dangling => Stays
    BY <1>1 DEF Dangling
  <2>4. OnSnippetAdd_Refused => IsRead
    BY <1>3 DEF OnSnippetAdd_Refused
  <2>5. OnSnippetDelete_Refused \/ OnSnippetDuplicate_Refused => Stays
    BY <1>2 DEF OnSnippetDelete_Refused, OnSnippetDuplicate_Refused
  <2> HIDE DEF IsRead
  <2>6. ASSUME NEW name \in SnipNames, OnSnippetAdd_OK(name) PROVE IsRead
    BY <1>3, <2>6 DEF OnSnippetAdd_OK
  <2>7. ASSUME NEW name \in SnipNames, OnSnippetEdit_OK(name) \/ OnSnippetEdit_Refused(name)
        PROVE  Stays
    BY <2>3, <2>7 DEF OnSnippetEdit_OK, OnSnippetEdit_Refused
  <2>8. OnSnippetDelete_Yes => Stays
    BY <2>3 DEF OnSnippetDelete_Yes
  <2>9. OnSnippetDuplicate_Yes => Stays \/ IsRead
    BY <1>3, <2>3 DEF OnSnippetDuplicate_Yes
  <2> HIDE DEF Stays
  <2>10. Stays \/ IsRead
    BY <1>6, <2>1, <2>2, <2>4, <2>5, <2>6, <2>7, <2>8, <2>9 DEF SnippetCommands
  <2>11. QED
    BY <2>10 DEF Stays, IsRead
<1>7. QED
  BY <1>4, <1>5, <1>6

(* No step puts a library in the combobox twice.                            *)
LEMMA StepOnce ==
  ASSUME FreshInv, OnceInv, Next
  PROVE  OnceInv'
<1>1. IInv' /\ Consistent(db) /\ db \in Database /\ GeneralAlone(db)
  BY StepPreserves, InvariantIsConsistent DEF FreshInv, Consistent, OnceInv
<1>2. ASSUME NEW d, d.LibraryLang \subseteq db.LibraryLang, DoneAndRefresh(d) PROVE OnceInv'
  <2>1. GeneralAlone(d)
    BY <1>1, <1>2 DEF GeneralAlone
  <2>2. QED
    BY <1>1, <1>2, <2>1, DoneOnce
<1>3. CASE db' = db /\ UNCHANGED widgets
  BY <1>3, SameOnce DEF widgets
<1>4. ASSUME NEW kind, Fault(kind) PROVE OnceInv'
  BY <1>3, <1>4 DEF Fault
<1>5. CASE Notepad \/ Widgets \/ SnippetCommands
  <2>1. db'.Library = db.Library /\ db'.LibraryLang = db.LibraryLang
    BY <1>1, <1>5, LibrariesStay
  <2>2. Consistent(db') /\ GeneralAlone(db')
    BY <1>1, <2>1, StepIsConsistent DEF GeneralAlone
  <2>3. CASE combo' = combo /\ (~unsaved' => ~unsaved)
    BY <2>1, <2>3, SameOnce
  <2>4. CASE combo' = <<>>
    <3>1. DOMAIN combo' = {}
      BY <2>4
    <3>2. QED
      BY <2>2, <3>1 DEF OnceInv, ComboOnce, ComboStored
  <2>5. ASSUME NEW l, UpdateSnippetsList(db', l) PROVE OnceInv'
    BY <2>2, <2>5, RefreshOnce
  <2>6. QED
    BY <1>5, <2>3, <2>4, <2>5, ComboStep
<1>6. CASE LibraryCommands
  <2>1. CASE OnLibraryNew \/ OnLibraryEdit \/ OnLibraryLanguages
    BY <1>3, <2>1 DEF OnLibraryNew, OnLibraryEdit, OnLibraryLanguages
  <2>2. CASE OnLibraryDelete
    BY <1>3, <1>4, <2>2 DEF OnLibraryDelete
  <2>3. CASE Dangling
    BY <1>4, <2>3 DEF Dangling
  <2>4. ASSUME NEW name \in LibNames, NEW alphabetic \in Sortings, OnLibraryNew_OK(name, alphabetic)
        PROVE  OnceInv'
    <3>1. PICK lib \in LibraryRow :
            /\ lib.LibraryID \notin LibraryIDsOf(db) /\ db' = InsertLibrary(db, lib)
            /\ combo' = Append(combo, lib) /\ unsaved' = unsaved
      <4>1. /\ NewObject(name, alphabetic).LibraryID <= MaxLibraryID
            /\ db' = InsertLibrary(db, NewObject(name, alphabetic))
            /\ combo' = Append(combo, NewObject(name, alphabetic)) /\ unsaved' = unsaved
        BY <2>4, Zenon DEF OnLibraryNew_OK
      <4>2. /\ NewObject(name, alphabetic) \in LibraryRow
            /\ NewObject(name, alphabetic).LibraryID \notin LibraryIDsOf(db)
        BY <4>1, ConsoleAssumption, NewObjectIs DEF FreshInv
      <4>3. QED
        BY <4>1, <4>2, Zenon
    <3>2. /\ db'.LibraryLang = db.LibraryLang /\ db'.Library = db.Library \cup {lib}
      BY <1>1, <3>1 DEF InsertLibrary, Database
    <3>3. GeneralAlone(db')
      BY <1>1, <3>2 DEF GeneralAlone
    <3>4. LibraryIDsOf(db') = LibraryIDsOf(db) \cup {lib.LibraryID}
      BY <3>2 DEF LibraryIDsOf
    <3>5. /\ Len(combo) \in Nat /\ DOMAIN combo = 1..Len(combo)
          /\ DOMAIN combo' = 1..(Len(combo) + 1)
          /\ \A i \in 1..Len(combo) : combo'[i] = combo[i]
          /\ combo'[Len(combo) + 1] = lib
      BY <3>1, AppendedCombo DEF FreshInv
    <3>6. ASSUME ~unsaved' PROVE ComboOnce' /\ ComboStored'
      <4>1. ComboOnce /\ ComboStored
        BY <3>1, <3>6 DEF OnceInv
      <4>2. \A i \in 1..Len(combo) : combo[i].LibraryID # lib.LibraryID
        BY <3>1, <3>5, <4>1 DEF ComboStored
      <4>3. ComboOnce'
        BY <3>5, <4>1, <4>2 DEF ComboOnce
      <4>4. ComboStored'
        BY <3>4, <3>5, <4>1 DEF ComboStored
      <4>5. QED
        BY <4>3, <4>4
    <3>7. QED
      BY <3>3, <3>6 DEF OnceInv
  <2>5. ASSUME NEW name \in LibNames, NEW alphabetic \in Sortings,
               OnLibraryNew_Refused(name, alphabetic)
        PROVE  OnceInv'
    BY <1>1, <2>5 DEF OnLibraryNew_Refused, OnceInv
  <2>6. CASE OnLibraryNew_AddLanguage
    <3> DEFINE row == [LibraryID |-> frame.target, Lang |-> curLang]
    <3>1. /\ db'.LibraryLang = db.LibraryLang \cup {row} /\ db'.Library = db.Library
          /\ combo' = combo /\ unsaved' = unsaved /\ row.LibraryID = frame.target
      BY <1>1, <2>6 DEF OnLibraryNew_AddLanguage, AddLanguage, Database, widgets
    <3>2. \A x \in db.LibraryLang : x.LibraryID # frame.target
      BY <2>6 DEF OnLibraryNew_AddLanguage, Waiting, FreshInv, FrameKnows
    <3> HIDE DEF row
    <3>3. GeneralAlone(db')
      BY <1>1, <3>1, <3>2 DEF GeneralAlone
    <3>4. LibraryIDsOf(db') = LibraryIDsOf(db)
      BY <3>1 DEF LibraryIDsOf
    <3>5. QED
      BY <3>1, <3>3, <3>4 DEF OnceInv, ComboOnce, ComboStored
  <2>7. CASE OnLibraryNew_AddLanguage_Refused
    BY <1>1, <2>7 DEF OnLibraryNew_AddLanguage_Refused, OnceInv
  <2>8. ASSUME NEW name \in LibNames, NEW alphabetic \in Sortings, OnLibraryEdit_OK(name, alphabetic)
        PROVE  OnceInv'
    <3>1. \A lib : UpdateLibrary(db, lib).LibraryLang = db.LibraryLang
      BY <1>1 DEF UpdateLibrary, Database
    <3>2. QED
      BY <1>2, <1>4, <2>3, <2>8, <3>1 DEF OnLibraryEdit_OK
  <2>9. CASE OnLibraryEdit_Refused \/ OnLibraryLanguages_Refused
    BY <1>2, <2>9 DEF OnLibraryEdit_Refused, OnLibraryLanguages_Refused
  <2>10. ASSUME NEW langs \in SUBSET LangIDs, OnLibraryLanguages_OK(langs) PROVE OnceInv'
    <3>1. Validate(langs)
      BY <2>10 DEF OnLibraryLanguages_OK
    <3>2. GeneralAlone(SaveLanguages(db, combo[cur].LibraryID, langs))
      BY <1>1, <3>1, SaveLanguagesAlone
    <3>3. QED
      BY <1>1, <2>3, <2>10, <3>2, DoneOnce DEF OnLibraryLanguages_OK
  <2>11. CASE OnLibraryDelete_Yes
    <3>1. \A id : DeleteLibrary(db, id).LibraryLang \subseteq db.LibraryLang
      BY DEF DeleteLibrary
    <3>2. QED
      BY <1>2, <1>4, <2>11, <3>1 DEF OnLibraryDelete_Yes
  <2>12. CASE OnLibraryDelete_Refused
    BY <1>3, <2>12 DEF OnLibraryDelete_Refused, Abandoned
  <2>13. QED
    BY <1>6, <2>1, <2>2, <2>4, <2>5, <2>6, <2>7, <2>8, <2>9, <2>10, <2>11, <2>12
       DEF LibraryCommands
<1>7. QED
  BY <1>5, <1>6 DEF Next

(* No library is twice in the combobox, though a row per matching language  *)
(* is fetched: the dialog keeps general languages alone (Validate).         *)
THEOREM ListedOnceHolds == Spec => []ListedOnce
<1>1. Init => OnceInv
  <2>1. Init => DOMAIN combo = {} /\ db \in Templates
    BY DEF Init
  <2>2. QED
    BY <2>1, TemplatesAssumption DEF OnceInv, ComboOnce, ComboStored
<1>2. FreshInv /\ OnceInv /\ [Next]_vars => OnceInv'
  <2>1. UNCHANGED vars /\ OnceInv => OnceInv'
    BY DEF vars, OnceInv, ComboOnce, ComboStored
  <2>2. QED
    BY <2>1, StepOnce
<1>3. OnceInv => ListedOnce
  BY DEF OnceInv, ComboOnce, ListedOnce
<1>4. QED
  BY <1>1, <1>2, <1>3, FreshInvHolds, PTL DEF Spec

-----------------------------------------------------------------------------
(* Every library has a language. *)

(* Only the library that is being created may be without a language.        *)
ReachInv ==
  \A l \in db.Library :
    \/ frame.cmd = "LibraryNewLang" /\ l.LibraryID = frame.target
    \/ \E x \in db.LibraryLang : x.LibraryID = l.LibraryID

(* Unless the process ends, the handler that creates a library goes on      *)
(* before anything else happens.                                            *)
LEMMA CreationGoesOn ==
  ASSUME FreshInv, ~CanCrash, Notepad \/ Widgets \/ SnippetCommands
  PROVE  frame.cmd # "LibraryNewLang"
<1> SUFFICES ASSUME frame.cmd = "LibraryNewLang" PROVE FALSE
  OBVIOUS
<1>1. fault = "none"
  BY DEF FreshInv, FrameKnows
<1>2. ~Notepad
  BY <1>1 DEF Notepad, BeNotified, Modal, ShowConsole, HideConsole, OnClose, Restart, Undefined,
                    Idle, NoFrame
<1>3. ~Widgets
  BY <1>1 DEF Widgets, OnChange_Filter, OnSelChange_Combo, OnSelChange_Combo_Refused,
              OnSelChange_Combo_SameLibrary, OnSelChange_Store, OnSelChange_Store_Refused,
              OnContextMenu, OnCancel, Modal, Ready, Idle, Waiting, NoFrame
<1>4. ~SnippetCommands
  BY <1>1 DEF SnippetCommands, OnSnippetInsert, OnSnippetEdit, OnSnippetDelete, OnSnippetDuplicate,
              OnSnippetMoveUp, OnSnippetMoveDown, MoveTo, PointAt, OnSnippetInsert_Done,
              OnSnippetAdd, OnSnippetAdd_OK, OnSnippetEdit_OK, OnSnippetDelete_Yes,
              OnSnippetDuplicate_Yes, OnSnippetAdd_Refused, OnSnippetEdit_Refused,
              OnSnippetDelete_Refused, OnSnippetDuplicate_Refused, MoveTo_Refused,
              SnippetMenu, Ready, Idle, Waiting, NoFrame
<1>5. QED
  BY <1>2, <1>3, <1>4

(* Languages are only taken from a library that is deleted, or exchanged    *)
(* for others.                                                              *)
LEMMA LibraryCommandsReach ==
  ASSUME FreshInv, ReachInv, LibraryCommands, "LibraryNewLang" \notin Refusable
  PROVE  ReachInv'
<1>1. Consistent(db) /\ db \in Database
  BY InvariantIsConsistent DEF FreshInv, Consistent
<1>2. CASE db' = db /\ frame.cmd # "LibraryNewLang"
  BY <1>2 DEF ReachInv
<1>3. CASE OnLibraryNew \/ OnLibraryEdit \/ OnLibraryLanguages \/ OnLibraryDelete
  BY <1>2, <1>3 DEF OnLibraryNew, OnLibraryEdit, OnLibraryLanguages, OnLibraryDelete, Fault,
                    Ready, Idle, NoFrame
<1>4. CASE Dangling
  BY <1>2, <1>4 DEF Dangling, Fault, Modal
<1>5. ASSUME NEW name \in LibNames, NEW alphabetic \in Sortings, OnLibraryNew_OK(name, alphabetic)
      PROVE  ReachInv'
  <2>1. PICK lib : /\ db' = InsertLibrary(db, lib) /\ frame.cmd = "LibraryNew"
                   /\ Suspend("LibraryNewLang", 0, lib.LibraryID, 0)
    BY <1>5, Zenon DEF OnLibraryNew_OK, Waiting
  <2>2. frame'.cmd = "LibraryNewLang" /\ frame'.target = lib.LibraryID
    BY <2>1 DEF Suspend
  <2>3. db'.Library = db.Library \cup {lib} /\ db'.LibraryLang = db.LibraryLang
    BY <1>1, <2>1 DEF InsertLibrary, Database
  <2>4. QED
    BY <2>1, <2>2, <2>3 DEF ReachInv
<1>6. CASE OnLibraryNew_AddLanguage
  <2> DEFINE row == [LibraryID |-> frame.target, Lang |-> curLang]
  <2>1. /\ db'.Library = db.Library /\ db'.LibraryLang = db.LibraryLang \cup {row}
        /\ row.LibraryID = frame.target
    BY <1>1, <1>6 DEF OnLibraryNew_AddLanguage, AddLanguage, Database
  <2> HIDE DEF row
  <2>2. QED
    BY <2>1 DEF ReachInv
<1>7. ASSUME NEW name \in LibNames, NEW alphabetic \in Sortings, OnLibraryEdit_OK(name, alphabetic)
      PROVE  ReachInv'
  <2>1. frame.cmd = "LibraryEdit"
    BY <1>7 DEF OnLibraryEdit_OK, Waiting
  <2>2. CASE Fault("null")
    BY <1>2, <2>1, <2>2 DEF Fault
  <2>3. ASSUME NEW lib, db' = UpdateLibrary(db, lib) PROVE ReachInv'
    <3>1. /\ db'.LibraryLang = db.LibraryLang
          /\ db'.Library = {IF l.LibraryID = lib.LibraryID THEN lib ELSE l : l \in db.Library}
      BY <1>1, <2>3 DEF UpdateLibrary, Database
    <3>2. QED
      BY <2>1, <3>1 DEF ReachInv
  <2>4. QED
    BY <1>4, <1>7, <2>2, <2>3 DEF OnLibraryEdit_OK, DoneAndRefresh
<1>8. ASSUME NEW langs \in SUBSET LangIDs, OnLibraryLanguages_OK(langs) PROVE ReachInv'
  <2>1. frame.cmd = "LibraryLanguages" /\ langs # {}
    BY <1>8 DEF OnLibraryLanguages_OK, Waiting, Validate
  <2>2. ASSUME NEW id, db' = SaveLanguages(db, id, langs) PROVE ReachInv'
    <3>1. /\ db'.Library = db.Library
          /\ db'.LibraryLang = {x \in db.LibraryLang : x.LibraryID # id} \cup [LibraryID : {id}, Lang : langs]
      BY <1>1, <2>2 DEF SaveLanguages, Database
    <3>2. PICK g \in langs : TRUE
      BY <2>1
    <3>3. [LibraryID |-> id, Lang |-> g] \in db'.LibraryLang
      BY <3>1
    <3>4. ASSUME NEW l \in db.Library PROVE \E x \in db'.LibraryLang : x.LibraryID = l.LibraryID
      <4>1. CASE l.LibraryID = id
        BY <3>3, <4>1
      <4>2. CASE l.LibraryID # id
        BY <2>1, <3>1, <4>2 DEF ReachInv
      <4>3. QED
        BY <4>1, <4>2
    <3>5. QED
      BY <3>1, <3>4 DEF ReachInv
  <2>3. QED
    BY <1>4, <1>8, <2>2 DEF OnLibraryLanguages_OK, DoneAndRefresh
<1>9. CASE OnLibraryDelete_Yes
  <2>1. frame.cmd = "LibraryDelete"
    BY <1>9 DEF OnLibraryDelete_Yes, Waiting
  <2>2. CASE Fault("null")
    BY <1>2, <2>1, <2>2 DEF Fault
  <2>3. ASSUME NEW id, db' = DeleteLibrary(db, id) PROVE ReachInv'
    BY <2>1, <2>3 DEF DeleteLibrary, ReachInv
  <2>4. QED
    BY <1>9, <2>2, <2>3 DEF OnLibraryDelete_Yes, DoneAndRefresh
<1>10. ASSUME NEW name \in LibNames, NEW alphabetic \in Sortings,
              OnLibraryNew_Refused(name, alphabetic)
       PROVE  ReachInv'
  BY <1>10 DEF OnLibraryNew_Refused, Waiting, ReachInv
<1>11. CASE OnLibraryNew_AddLanguage_Refused
  <2>1. /\ db' = db /\ frame.target \notin LibraryIDsOf(db)
    BY <1>11 DEF OnLibraryNew_AddLanguage_Refused, MayRefuse, HasRow
  <2>2. QED
    BY <2>1 DEF ReachInv, LibraryIDsOf
<1>12. CASE OnLibraryEdit_Refused \/ OnLibraryLanguages_Refused \/ OnLibraryDelete_Refused
  BY <1>2, <1>12 DEF OnLibraryEdit_Refused, OnLibraryLanguages_Refused, OnLibraryDelete_Refused,
                     DoneAndRefresh, Abandoned, Waiting
<1>13. QED
  BY <1>3, <1>5, <1>6, <1>7, <1>8, <1>9, <1>10, <1>11, <1>12 DEF LibraryCommands

(* As long as OnLibraryNew gets to add a language to a library it has       *)
(* stored - the process does not end between the two inserts and the second *)
(* is not refused - every library has a language and so a combobox that     *)
(* shows it, if every one had at the start, whatever other write is refused.*)
THEOREM LibraryIsReachableHolds ==
  ASSUME ~CanCrash, "LibraryNewLang" \notin Refusable, \A d \in Templates : HasLanguages(d)
  PROVE  Spec => []LibraryIsReachable
<1>1. Init => ReachInv
  BY DEF Init, ReachInv, HasLanguages
<1>2. FreshInv /\ ReachInv /\ [Next]_vars => ReachInv'
  <2>1. ASSUME ReachInv, UNCHANGED vars PROVE ReachInv'
    BY <2>1 DEF vars, ReachInv
  <2>2. ASSUME FreshInv, ReachInv, Notepad \/ Widgets \/ SnippetCommands PROVE ReachInv'
    <3>1. db \in Database /\ frame.cmd # "LibraryNewLang"
      BY <2>2, CreationGoesOn DEF FreshInv, IInv, TypeOK
    <3>2. db'.Library = db.Library /\ db'.LibraryLang = db.LibraryLang
      BY <2>2, <3>1, LibrariesStay
    <3>3. QED
      BY <2>2, <3>1, <3>2 DEF ReachInv
  <2>3. QED
    BY <2>1, <2>2, LibraryCommandsReach DEF Next
<1>3. ReachInv => LibraryIsReachable
  BY DEF ReachInv, LibraryIsReachable, HasLanguages
<1>4. QED
  BY <1>1, <1>2, <1>3, FreshInvHolds, PTL DEF Spec

-----------------------------------------------------------------------------
(* The order of the snippets. *)

(* Without notifications during dialogs nothing that the dialogs of         *)
(* OnSnippetAdd and OnLibraryDelete are about changes while they are open.  *)
LEMMA DialogWaits ==
  ASSUME FreshInv, Next, ~Reentrant, frame'.cmd \in {"SnippetAdd", "LibraryDelete"}
  PROVE  OnSnippetAdd \/ OnLibraryDelete \/ UNCHANGED <<db, combo, cur, filter, frame, unsaved>>
<1>1. ASSUME NEW kind, Fault(kind), UNCHANGED frame PROVE UNCHANGED <<db, combo, cur, filter, frame, unsaved>>
  BY <1>1 DEF Fault, widgets
<1>2. frame' # NoFrame
  BY DEF NoFrame
<1>3. ASSUME NEW cmd, NEW item, NEW target, NEW sort, Suspend(cmd, item, target, sort),
             cmd \notin {"SnippetAdd", "LibraryDelete"}
      PROVE  FALSE
  BY <1>3 DEF Suspend
<1>4. ASSUME NEW d, DoneAndRefresh(d) PROVE FALSE
  BY <1>2, <1>4 DEF DoneAndRefresh
<1>5. CASE Notepad
  <2>1. ASSUME NEW l \in Langs, BeNotified(l) PROVE FALSE
    <3>1. frame \in Frame /\ frame.cmd \in {"none", "SnippetInsert"}
      BY <2>1 DEF FreshInv, IInv, TypeOK, BeNotified
    <3>2. frame'.cmd = frame.cmd
      BY <2>1, <3>1 DEF BeNotified, ObjectsFreed, Frame
    <3>3. QED
      BY <3>1, <3>2
  <2>2. ~ShowConsole /\ ~HideConsole /\ ~OnClose /\ ~Restart
    <3>1. OnClose => frame'.cmd = "none"
      BY DEF FreshInv, IInv, TypeOK, OnClose, ObjectsFreed, Frame
    <3>2. QED
      BY <1>2, <3>1 DEF ShowConsole, HideConsole, Restart, Idle
  <2>3. Undefined => UNCHANGED <<db, combo, cur, filter, frame, unsaved>>
    BY DEF Undefined, vars
  <2>4. QED
    BY <1>5, <2>1, <2>2, <2>3 DEF Notepad
<1>6. CASE Widgets
  BY <1>1, <1>2, <1>3, <1>6
     DEF Widgets, OnChange_Filter, OnSelChange_Combo, OnSelChange_Combo_Refused,
         OnSelChange_Combo_SameLibrary, OnSelChange_Store, OnSelChange_Store_Refused, Abandoned,
         OnContextMenu, OnCancel, Ready, Idle
<1>7. CASE SnippetCommands
  <2>1. ASSUME NEW item \in DOMAIN list,
               \/ OnSnippetInsert(item)
               \/ OnSnippetEdit(item) \/ OnSnippetDelete(item) \/ OnSnippetDuplicate(item)
               \/ OnSnippetMoveUp(item) \/ OnSnippetMoveDown(item)
               \/ \E to : MoveTo_Refused(item, to)
        PROVE  FALSE
    BY <1>2, <1>3, <2>1
       DEF OnSnippetInsert, OnSnippetEdit, OnSnippetDelete, OnSnippetDuplicate, PointAt,
           OnSnippetMoveUp, OnSnippetMoveDown, MoveTo, MoveTo_Refused, SnippetMenu, Ready, Idle
  <2>2. ASSUME NEW name \in SnipNames, OnSnippetAdd_OK(name) PROVE FALSE
    BY <1>4, <2>2 DEF OnSnippetAdd_OK
  <2>3. ASSUME NEW name \in SnipNames, OnSnippetEdit_OK(name)
        PROVE  UNCHANGED <<db, combo, cur, filter, frame, unsaved>>
    BY <1>1, <1>2, <2>3 DEF OnSnippetEdit_OK, Dangling
  <2>4. OnSnippetInsert_Done \/ OnSnippetDelete_Yes \/ OnSnippetDuplicate_Yes =>
          UNCHANGED <<db, combo, cur, filter, frame, unsaved>>
    BY <1>1, <1>2, <1>4 DEF OnSnippetInsert_Done, OnSnippetDelete_Yes, OnSnippetDuplicate_Yes, Dangling
  <2>5. ~OnSnippetAdd_Refused /\ ~OnSnippetDelete_Refused /\ ~OnSnippetDuplicate_Refused
    BY <1>2, <1>4 DEF OnSnippetAdd_Refused, OnSnippetDelete_Refused, OnSnippetDuplicate_Refused,
                      Abandoned
  <2>6. ASSUME NEW name \in SnipNames, OnSnippetEdit_Refused(name) PROVE FALSE
    BY <1>2, <2>6 DEF OnSnippetEdit_Refused
  <2>7. QED
    BY <1>7, <2>1, <2>2, <2>3, <2>4, <2>5, <2>6 DEF SnippetCommands
<1>8. CASE LibraryCommands
  <2>1. ~OnLibraryNew /\ ~OnLibraryEdit /\ ~OnLibraryLanguages
    BY <1>3 DEF OnLibraryNew, OnLibraryEdit, OnLibraryLanguages
  <2>2. ASSUME NEW name \in LibNames, NEW alphabetic \in Sortings,
               OnLibraryNew_OK(name, alphabetic) \/ OnLibraryEdit_OK(name, alphabetic)
        PROVE  UNCHANGED <<db, combo, cur, filter, frame, unsaved>>
    BY <1>1, <1>3, <1>4, <2>2 DEF OnLibraryNew_OK, OnLibraryEdit_OK, Dangling
  <2>3. ~OnLibraryNew_AddLanguage
    BY <1>2 DEF OnLibraryNew_AddLanguage
  <2>4. ASSUME NEW langs \in SUBSET LangIDs, OnLibraryLanguages_OK(langs)
        PROVE  UNCHANGED <<db, combo, cur, filter, frame, unsaved>>
    BY <1>1, <1>4, <2>4 DEF OnLibraryLanguages_OK, Dangling
  <2>5. OnLibraryDelete_Yes => UNCHANGED <<db, combo, cur, filter, frame, unsaved>>
    BY <1>1, <1>4 DEF OnLibraryDelete_Yes
  <2>6. ASSUME NEW name \in LibNames, NEW alphabetic \in Sortings,
               OnLibraryNew_Refused(name, alphabetic)
        PROVE  FALSE
    BY <1>3, <2>6 DEF OnLibraryNew_Refused
  <2>7. /\ ~OnLibraryNew_AddLanguage_Refused /\ ~OnLibraryEdit_Refused
        /\ ~OnLibraryLanguages_Refused /\ ~OnLibraryDelete_Refused
    BY <1>2, <1>4 DEF OnLibraryNew_AddLanguage_Refused, OnLibraryEdit_Refused,
                      OnLibraryLanguages_Refused, OnLibraryDelete_Refused, Abandoned
  <2>8. QED
    BY <1>8, <2>1, <2>2, <2>3, <2>4, <2>5, <2>6, <2>7 DEF LibraryCommands
<1>9. QED
  BY <1>5, <1>6, <1>7, <1>8 DEF Next

(* The list is the whole library when nothing is filtered, so that the      *)
(* highest sort number of the list is the highest of the library.           *)
LEMMA AddSortsLast ==
  ASSUME FreshInv, OnSnippetAdd
  PROVE  NewSnippetSortsLast'
<1>1. /\ cur # 0
      /\ Suspend("SnippetAdd", 0, combo[cur].LibraryID, GetMaxSort + 1)
      /\ db' = db /\ filter' = filter /\ unsaved' = unsaved
  BY DEF OnSnippetAdd, SnippetMenu, Ready, Idle, widgets
<1>2. frame'.target = combo[cur].LibraryID /\ frame'.sort = GetMaxSort + 1
  BY <1>1 DEF Suspend
<1>3. ListHolds /\ IInv /\ Consistent(db) /\ db \in Database
  BY WidgetsParts, InvariantIsConsistent DEF FreshInv, Consistent
<1>4. ASSUME filter = NoFilter, ~unsaved, NEW s \in db.Snippets, s.LibraryID = combo[cur].LibraryID
      PROVE  s.Sort < GetMaxSort + 1
  <2> DEFINE sorts == {0} \cup {list[i].Sort : i \in DOMAIN list}
  <2>1. s \in SnippetRow
    BY <1>3 DEF Database
  <2>2. s \in SnippetsLike(db, combo[cur], filter)
    BY <1>4, <2>1 DEF SnippetsLike, NoFilter, SnippetRow
  <2>3. PICK i \in DOMAIN list : list[i] = s
    <3>1. PICK i \in DOMAIN list : list[i].SnippetID = s.SnippetID
      BY <1>1, <1>3, <2>2 DEF ListHolds, ListShows
    <3>2. list[i] \in db.Snippets
      BY <1>3, <1>4 DEF ListHolds, ListCopies
    <3>3. QED
      BY <1>3, <3>1, <3>2 DEF Consistent, KeysUnique
  <2>4. \A j \in DOMAIN list : list[j].Sort \in 0..MaxSort
    BY <1>3, ItemOf DEF SnippetRow
  <2>5. sorts \in SUBSET (0..MaxSort) /\ sorts # {} /\ s.Sort \in sorts
    BY <2>3, <2>4, TablesAssumption
  <2>6. Max(sorts) \in sorts /\ s.Sort <= Max(sorts)
    BY <2>5, TablesAssumption, MaxOf
  <2>7. GetMaxSort = Max(sorts)
    BY Zenon DEF GetMaxSort
  <2>8. s.Sort \in Nat /\ Max(sorts) \in Nat
    BY <2>5, <2>6, TablesAssumption
  <2> HIDE DEF sorts
  <2>9. QED
    BY <2>6, <2>7, <2>8
<1>5. QED
  BY <1>1, <1>2, <1>4 DEF NewSnippetSortsLast

(* The number chosen when the dialog opens is still the highest when it is  *)
(* answered, as long as nothing else writes meanwhile.                      *)
THEOREM NewSnippetSortsLastHolds == Spec => []NewSnippetSortsLast
<1>1. Init => NewSnippetSortsLast
  BY DEF Init, NewSnippetSortsLast, NoFrame
<1>2. FreshInv /\ NewSnippetSortsLast /\ [Next]_vars => NewSnippetSortsLast'
  <2>1. SUFFICES ASSUME FreshInv, NewSnippetSortsLast, Next \/ UNCHANGED vars,
                        frame'.cmd = "SnippetAdd", ~Reentrant
                 PROVE  NewSnippetSortsLast'
    BY DEF NewSnippetSortsLast
  <2>2. CASE UNCHANGED <<db, filter, frame, unsaved>>
    BY <2>1, <2>2 DEF NewSnippetSortsLast
  <2>3. CASE OnSnippetAdd
    BY <2>1, <2>3, AddSortsLast
  <2>4. QED
    <3>1. ~OnLibraryDelete
      BY <2>1 DEF OnLibraryDelete, Suspend
    <3>2. QED
      BY <2>1, <2>2, <2>3, <3>1, DialogWaits DEF vars
<1>3. QED
  BY <1>1, <1>2, FreshInvHolds, PTL DEF Spec

(* A move in a list that shows the whole library.                           *)
LEMMA MoveKeepsOrder ==
  ASSUME FreshInv, NEW item \in DOMAIN list, NEW to, MoveTo(item, to), filter = NoFilter,
         ~unsaved, FreshInv'
  PROVE  OthersKeepOrder(item)
<1> DEFINE n == Len(list)
<1> DEFINE From(k) == Source(item, to, k)
<1>1. cur # 0 /\ unsaved' = unsaved
  BY DEF MoveTo, SnippetMenu
<1>2. ListShows /\ ListCopies /\ ListShows' /\ ListCopies' /\ IInv /\ Consistent(db)
  BY <1>1, InvariantIsConsistent DEF FreshInv, WidgetsFresh
<1>3. ~combo[cur].Alphabetic
  BY DEF MoveTo
<1>4. /\ n \in Nat /\ DOMAIN list = 1..n /\ item \in 1..n /\ to \in 1..n
      /\ DOMAIN list' = 1..n
      /\ \A k \in 1..n : list'[k] = [list[From(k)] EXCEPT !.Sort = k]
      /\ db' = UpdateSorts(db, list')
  BY <1>2, MoveEffect
<1>5. /\ \A k \in 1..n : From(k) \in 1..n
      /\ \A j \in 1..n : \E k \in 1..n : From(k) = j
      /\ \A k, m \in 1..n : (k # to /\ m # to /\ From(k) < From(m)) => k < m
      /\ From(to) = item
  <2>1. From(to) = item
    BY DEF Source
  <2>2. n \in Nat /\ item \in 1..n /\ to \in 1..n
    BY <1>4
  <2> HIDE DEF n
  <2>3. /\ \A k \in 1..n : Source(item, to, k) \in 1..n
        /\ \A j \in 1..n : \E k \in 1..n : Source(item, to, k) = j
        /\ \A k, m \in 1..n :
             (k # to /\ m # to /\ Source(item, to, k) < Source(item, to, m)) => k < m
    BY <2>2, SourceIsPermutation
  <2>4. QED
    BY <2>1, <2>3, Zenon
<1> HIDE DEF n, From
<1>6. \A k \in 1..n : /\ list'[k].SnippetID = list[From(k)].SnippetID
                      /\ list'[k].Sort = k /\ list'[k] \in db'.Snippets
  <2>1. SUFFICES ASSUME NEW k \in 1..n
                 PROVE  /\ list'[k].SnippetID = list[From(k)].SnippetID
                        /\ list'[k].Sort = k /\ list'[k] \in db'.Snippets
    OBVIOUS
  <2>2. list'[k] = [list[From(k)] EXCEPT !.Sort = k] /\ list[From(k)] \in SnippetRow
    BY <1>2, <1>4, <1>5, ItemOf
  <2>3. list'[k] \in db'.Snippets
    BY <1>2, <1>4 DEF ListCopies
  <2>4. QED
    BY <2>2, <2>3 DEF SnippetRow
<1>7. SUFFICES ASSUME NEW s \in db.Snippets, NEW t \in db.Snippets,
                      s.LibraryID = t.LibraryID, s.Sort < t.Sort,
                      list[item].SnippetID \notin {s.SnippetID, t.SnippetID}
               PROVE  \E s2, t2 \in db'.Snippets :
                        /\ s2.SnippetID = s.SnippetID /\ t2.SnippetID = t.SnippetID
                        /\ s2.Sort < t2.Sort
  BY DEF OthersKeepOrder
<1>8. s \in SnippetRow /\ t \in SnippetRow
  BY DEF FreshInv, IInv, TypeOK, Database
<1>9. CASE s.LibraryID = combo[cur].LibraryID
  <2>1. s \in SnippetsLike(db, combo[cur], filter) /\ t \in SnippetsLike(db, combo[cur], filter)
    BY <1>7, <1>8, <1>9 DEF SnippetsLike, NoFilter, SnippetRow
  <2> DEFINE Shown(r) == \E a \in 1..n : list[a] = r
  <2>0. ASSUME NEW r \in db.Snippets, r \in SnippetsLike(db, combo[cur], filter) PROVE Shown(r)
    <3>1. PICK a \in 1..n : list[a].SnippetID = r.SnippetID
      BY <1>1, <1>2, <1>4, <2>0 DEF ListShows
    <3>2. list[a] \in db.Snippets
      BY <1>2, <1>4 DEF ListCopies
    <3>3. QED
      BY <1>2, <3>1, <3>2 DEF Consistent, KeysUnique
  <2>2. PICK a \in 1..n : list[a] = s
    BY <2>0, <2>1
  <2>3. PICK b \in 1..n : list[b] = t
    BY <2>0, <2>1
  <2> HIDE DEF Shown
  <2>4. a < b
    <3>1. s.Sort \in Nat /\ t.Sort \in Nat /\ a \in Nat /\ b \in Nat
      BY <1>4, <1>8, TablesAssumption DEF SnippetRow
    <3>2. b < a => t.Sort <= s.Sort
      BY <1>1, <1>2, <1>3, <1>4, <2>2, <2>3 DEF ListCopies
    <3>3. a # b
      BY <1>7, <2>2, <2>3, <3>1
    <3>4. QED
      BY <1>7, <3>1, <3>2, <3>3
  <2>5. PICK k \in 1..n : From(k) = a
    BY <1>5
  <2>6. PICK m \in 1..n : From(m) = b
    BY <1>5
  <2>7. k # to /\ m # to
    BY <1>5, <1>7, <2>2, <2>3, <2>5, <2>6
  <2>8. k < m
    BY <1>5, <2>4, <2>5, <2>6, <2>7
  <2>9. /\ list'[k] \in db'.Snippets /\ list'[k].SnippetID = s.SnippetID /\ list'[k].Sort = k
        /\ list'[m] \in db'.Snippets /\ list'[m].SnippetID = t.SnippetID /\ list'[m].Sort = m
    BY <1>6, <2>2, <2>3, <2>5, <2>6
  <2>10. QED
    BY <2>8, <2>9
<1>10. CASE s.LibraryID # combo[cur].LibraryID
  <2>1. ASSUME NEW r \in db.Snippets, r.LibraryID # combo[cur].LibraryID
        PROVE  r \in db'.Snippets
    <3>1. \A j \in 1..n : list[j].SnippetID # r.SnippetID
      BY <1>2, <1>4, <2>1 DEF ListShows, ListCopies, Consistent, KeysUnique
    <3>2. ASSUME NEW k \in DOMAIN list' PROVE list'[k].SnippetID # r.SnippetID
      <4>1. k \in 1..n /\ From(k) \in 1..n
        BY <1>4, <1>5
      <4>2. QED
        BY <1>6, <3>1, <4>1
    <3>3. \A k, m \in DOMAIN list' : list'[k].SnippetID = list'[m].SnippetID => k = m
      BY <1>2 DEF ListShows
    <3>4. QED
      BY <1>2, <1>4, <3>2, <3>3, UpdateSortsEffect
  <2>2. s \in db'.Snippets /\ t \in db'.Snippets
    BY <1>7, <1>10, <2>1
  <2>3. QED
    BY <1>7, <2>2
<1>11. QED
  BY <1>9, <1>10

(* Without a filter a move changes the place of the snippet moved and keeps *)
(* all others of every library in their order (UpdateSortInDB).             *)
THEOREM UnfilteredMoveKeepsOrderHolds == Spec => UnfilteredMoveKeepsOrder
<1> DEFINE A == \A item \in DOMAIN list :
                  filter = NoFilter /\ ~unsaved /\ (OnSnippetMoveUp(item) \/ OnSnippetMoveDown(item)) =>
                    OthersKeepOrder(item)
<1>1. FreshInv /\ FreshInv' /\ [Next]_vars => [A]_vars
  BY MoveKeepsOrder DEF OnSnippetMoveUp, OnSnippetMoveDown
<1>2. QED
  BY <1>1, FreshInvHolds, PTL DEF Spec, UnfilteredMoveKeepsOrder

(* The sort numbers a move stores are the places in the list, also of rows  *)
(* that an object of the list was ahead of.                                 *)
LEMMA MoveReadsAs ==
  ASSUME FreshInv, NEW item \in DOMAIN list, NEW to, MoveTo(item, to), FreshInv',
         NEW rows, rows \in SnippetRows(db', combo[cur], filter)
  PROVE  ReadsAs(rows, list', db')
<1> DEFINE lib == combo[cur]
<1>1. cur # 0 /\ ~lib.Alphabetic /\ cur' = cur /\ combo' = combo /\ filter' = filter
  BY DEF MoveTo, SnippetMenu
<1>2. ListShows /\ ListShows' /\ IInv /\ Consistent(db')
  BY StepIsConsistent DEF FreshInv, WidgetsFresh
<1> HIDE DEF lib
<1>3. /\ \A i \in DOMAIN rows : rows[i] \in SnippetsLike(db', lib, filter)
      /\ \A i, j \in DOMAIN rows : rows[i].SnippetID = rows[j].SnippetID => i = j
      /\ \A s \in SnippetsLike(db', lib, filter) : \E i \in DOMAIN rows : rows[i] = s
      /\ \A i, j \in DOMAIN rows : i < j => rows[i].Sort <= rows[j].Sort
  BY <1>1, <1>2, SnippetRowsOf DEF lib
<1>4. /\ \A k \in DOMAIN list' : list'[k].Sort = k /\ k \in Nat
      /\ \A t \in db'.Snippets : \A k \in DOMAIN list' :
           list'[k].SnippetID = t.SnippetID => t.Sort = k
  <2>1. /\ \A t \in db'.Snippets : \E s \in db.Snippets :
             /\ t.SnippetID = s.SnippetID
             /\ \A k \in DOMAIN list' :
                  list'[k].SnippetID = s.SnippetID => t = [s EXCEPT !.Sort = list'[k].Sort]
        /\ \A k \in DOMAIN list' : list'[k].Sort = k
    BY <1>2, MoveRows
  <2>2. DOMAIN list' = 1..Len(list) /\ Len(list) \in Nat
    BY <1>2, MoveEffect
  <2>3. \A s \in db.Snippets : s \in SnippetRow
    BY <1>2 DEF IInv, TypeOK, Database
  <2>4. ASSUME NEW t \in db'.Snippets, NEW k \in DOMAIN list', list'[k].SnippetID = t.SnippetID
        PROVE  t.Sort = k
    <3>1. PICK s \in db.Snippets : t = [s EXCEPT !.Sort = k]
      BY <2>1, <2>4
    <3>2. QED
      BY <2>3, <3>1 DEF SnippetRow
  <2>5. QED
    BY <2>1, <2>2, <2>4
<1>5. ASSUME NEW s \in SnippetsLike(db', lib, filter)
      PROVE  /\ s \in db'.Snippets /\ s.Name \in filter
             /\ \E k \in DOMAIN list' : list'[k].SnippetID = s.SnippetID
  <2>1. s \in db'.Snippets /\ s.Name \in filter
    BY DEF SnippetsLike
  <2>2. s \in SnippetsLike(db', combo'[cur'], filter')
    BY <1>1 DEF lib
  <2>3. \E k \in DOMAIN list' : list'[k].SnippetID = s.SnippetID
    BY <1>1, <1>2, <2>2 DEF ListShows
  <2>4. QED
    BY <2>1, <2>3
<1>6. ASSUME NEW s \in db'.Snippets, s.Name \in filter,
             NEW k \in DOMAIN list', list'[k].SnippetID = s.SnippetID
      PROVE  s \in SnippetsLike(db', lib, filter)
  <2>1. list'[k].LibraryID = lib.LibraryID
    BY <1>1, <1>2 DEF ListShows, lib
  <2>2. PICK t \in db'.Snippets : t.SnippetID = list'[k].SnippetID /\ t.LibraryID = list'[k].LibraryID
    BY <1>2 DEF ListShows
  <2>3. t = s
    BY <1>2, <1>6, <2>2 DEF Consistent, KeysUnique
  <2>4. QED
    BY <1>6, <2>1, <2>2, <2>3 DEF SnippetsLike
<1> DEFINE ids == {list'[k].SnippetID : k \in DOMAIN list'}
<1>7. {rows[i] : i \in DOMAIN rows} = {s \in db'.Snippets : s.SnippetID \in ids /\ s.Name \in filter}
  <2>1. ASSUME NEW i \in DOMAIN rows
        PROVE  rows[i] \in db'.Snippets /\ rows[i].SnippetID \in ids /\ rows[i].Name \in filter
    BY <1>3, <1>5
  <2>2. ASSUME NEW s \in db'.Snippets, s.SnippetID \in ids, s.Name \in filter
        PROVE  \E i \in DOMAIN rows : rows[i] = s
    BY <1>3, <1>6, <2>2
  <2> HIDE DEF ids
  <2>3. QED
    BY <2>1, <2>2
<1>8. ASSUME NEW i \in DOMAIN rows, NEW j \in DOMAIN rows,
             NEW k \in DOMAIN list', NEW l \in DOMAIN list', i < j,
             rows[i].SnippetID = list'[k].SnippetID, rows[j].SnippetID = list'[l].SnippetID
      PROVE  k < l
  <2>1. rows[i].Sort = k /\ rows[j].Sort = l
    BY <1>3, <1>4, <1>5, <1>8
  <2>2. k <= l
    BY <1>3, <1>8, <2>1
  <2>3. i # j
    <3>1. DOMAIN rows \subseteq Nat
      BY <1>2, SnippetRowsTyped
    <3>2. QED
      BY <1>8, <3>1
  <2>4. k # l
    BY <1>3, <1>8, <2>3
  <2>5. QED
    BY <1>4, <2>2, <2>4
<1>9. QED
  BY <1>7, <1>8 DEF ReadsAs

(* After a move that was stored the list shows what reading the library     *)
(* again would give, with or without a filter, also after a move or an edit *)
(* that was refused (UpdateSortInDB).                                       *)
THEOREM MoveSurvivesReloadHolds == Spec => MoveSurvivesReload
<1> DEFINE A == \A item \in DOMAIN list :
                  OnSnippetMoveUp(item) \/ OnSnippetMoveDown(item) =>
                    \A rows \in SnippetRows(db', combo[cur], filter) : ReadsAs(rows, list', db')
<1>1. FreshInv /\ FreshInv' /\ [Next]_vars => [A]_vars
  BY MoveReadsAs DEF OnSnippetMoveUp, OnSnippetMoveDown
<1>2. QED
  BY <1>1, FreshInvHolds, PTL DEF Spec, MoveSurvivesReload

-----------------------------------------------------------------------------
(* The collection. *)

(* What the user knows of a snippet, and of the open dialog.                *)
Brief(s) == [SnippetID |-> s.SnippetID, LibraryID |-> s.LibraryID, Name |-> s.Name]
Briefs(d) == {Brief(s) : s \in d.Snippets}
Request == IF frame.cmd \in Modal
             THEN [command |-> frame.cmd, target |-> frame.target]
             ELSE [command |-> "none", target |-> 0]

(* A step of the console is a step of the collection, or none.              *)
Kept == Briefs(db') = Briefs(db) /\ LibraryIDsOf(db') = LibraryIDsOf(db)

(* A step that the collection does not see.                                 *)
LEMMA Stutter ==
  ASSUME Kept, Request' = Request
  PROVE  UNCHANGED Contract!vars
  BY DEF Kept, Briefs, Brief, Request, Contract!vars

(* A step that opens a dialog.                                              *)
LEMMA Asks ==
  ASSUME frame = NoFrame, db' = db,
         NEW cmd \in Modal, NEW target \in {0} \cup LibraryIDs \cup SnippetIDs,
         NEW item, NEW sort, Suspend(cmd, item, target, sort)
  PROVE  Contract!Next
<1>1. Request = [command |-> "none", target |-> 0]
  BY DEF Request, NoFrame, Modal
<1>2. Request' = [command |-> cmd, target |-> target]
  BY DEF Request, Suspend
<1>3. Contract!Ask
  BY <1>1, <1>2 DEF Contract!Ask, Request
<1>4. QED
  BY <1>3 DEF Contract!Next

(* A step that closes a dialog without an effect on the collection.         *)
LEMMA Withdraws ==
  ASSUME Kept, frame.cmd \in Modal, frame'.cmd \notin Modal
  PROVE  Contract!Next
<1>1. Request.command # "none"
  BY DEF Request, Modal
<1>2. Request' = [command |-> "none", target |-> 0]
  BY DEF Request
<1>3. Contract!Withdraw
  BY <1>1, <1>2 DEF Contract!Withdraw, Request, Kept, Briefs, Brief
<1>4. QED
  BY <1>3 DEF Contract!Next

(* A step that closes a dialog and carries out what it was about.           *)
LEMMA CarriesOut ==
  ASSUME frame.cmd \in Modal, frame'.cmd \notin Modal,
         \/ Contract!AddSnippet \/ Contract!DuplicateSnippet
         \/ Contract!EditSnippet \/ Contract!DeleteSnippet
         \/ Contract!NewLibrary \/ Contract!DeleteLibrary
  PROVE  Contract!Next
<1>1. Request' = [command |-> "none", target |-> 0]
  BY DEF Request
<1>2. Contract!CarryOut
  BY <1>1 DEF Contract!CarryOut, Request
<1>3. QED
  BY <1>2 DEF Contract!Next

(* The dialog the collection speaks of is the one that is open.             *)
LEMMA AskedFor ==
  ASSUME NEW cmd \in Modal, frame.cmd = cmd
  PROVE  Contract!Asked(cmd) /\ Request.target = frame.target
<1>1. Request = [command |-> cmd, target |-> frame.target] /\ cmd # "none"
  BY DEF Request, Modal
<1>2. QED
  BY <1>1 DEF Contract!Asked, Request

(* Notepad++ and the process never change the collection.                   *)
LEMMA NotepadImplements ==
  ASSUME FreshInv, Notepad
  PROVE  Contract!Next \/ UNCHANGED Contract!vars
<1>1. db' = db /\ Kept
  BY DEF Notepad, BeNotified, ShowConsole, HideConsole, OnClose, Restart, Undefined, vars, Kept
<1>2. CASE frame'.cmd = frame.cmd /\ frame'.target = frame.target
  BY <1>1, <1>2, Stutter DEF Request
<1>3. (\E l \in Langs : BeNotified(l)) \/ OnClose =>
        frame'.cmd = frame.cmd /\ frame'.target = frame.target
  <2>1. frame \in Frame
    BY DEF FreshInv, IInv, TypeOK
  <2>2. ObjectsFreed => frame'.cmd = frame.cmd /\ frame'.target = frame.target
    BY <2>1 DEF ObjectsFreed, Frame
  <2>3. QED
    BY <2>2 DEF BeNotified, OnClose
<1>4. CASE Restart
  <2>1. frame' = NoFrame
    BY <1>4 DEF Restart
  <2>2. CASE frame.cmd \in Modal
    BY <1>1, <2>1, <2>2, Withdraws DEF NoFrame, Modal
  <2>3. CASE frame.cmd \notin Modal
    BY <1>1, <2>1, <2>3, Stutter DEF Request, NoFrame, Modal
  <2>4. QED
    BY <2>2, <2>3
<1>5. ShowConsole \/ HideConsole \/ Undefined => frame' = frame
  BY DEF ShowConsole, HideConsole, Undefined, vars
<1>6. QED
  BY <1>2, <1>3, <1>4, <1>5 DEF Notepad

(* Nor do the filter and the combobox.                                      *)
LEMMA WidgetsImplement ==
  ASSUME FreshInv, Widgets
  PROVE  Contract!Next \/ UNCHANGED Contract!vars
<1>1. db \in Database
  BY DEF FreshInv, IInv, TypeOK
<1>2. Kept
  <2>1. \A l, id : /\ ForgetLastUsed(db, l).Library = db.Library
                   /\ ForgetLastUsed(db, l).Snippets = db.Snippets
                   /\ InsertLastUsed(db, l, id).Library = db.Library
                   /\ InsertLastUsed(db, l, id).Snippets = db.Snippets
    BY <1>1 DEF ForgetLastUsed, InsertLastUsed, Database
  <2>2. \/ db' = db \/ db' = ForgetLastUsed(db, curLang)
        \/ db' = InsertLastUsed(db, curLang, frame.target)
    BY DEF Widgets, OnChange_Filter, OnSelChange_Combo, OnSelChange_Combo_Refused,
           OnSelChange_Combo_SameLibrary, OnSelChange_Store, OnSelChange_Store_Refused, Abandoned,
           OnContextMenu, OnCancel, Fault
  <2>3. db'.Library = db.Library /\ db'.Snippets = db.Snippets
    BY <2>1, <2>2
  <2>4. QED
    BY <2>3 DEF Kept, Briefs, LibraryIDsOf
<1>3. CASE frame.cmd \notin Modal /\ frame'.cmd \notin Modal
  BY <1>2, <1>3, Stutter DEF Request
<1>4. CASE OnCancel
  BY <1>2, <1>4, Withdraws DEF OnCancel, NoFrame, Modal
<1>5. ASSUME NEW names \in Filters, OnChange_Filter(names)
      PROVE  frame.cmd \notin Modal /\ frame'.cmd \notin Modal
  BY <1>5 DEF OnChange_Filter, Ready, Idle, NoFrame, Modal
<1>6. ASSUME NEW i \in DOMAIN combo, OnSelChange_Combo(i)
      PROVE  frame.cmd \notin Modal /\ frame'.cmd \notin Modal
  <2>1. frame = NoFrame
    BY <1>6 DEF OnSelChange_Combo, Ready, Idle
  <2>2. \E target : Suspend("SelChange", 0, target, 0)
    BY <1>6, Zenon DEF OnSelChange_Combo
  <2>3. QED
    BY <2>1, <2>2 DEF Suspend, NoFrame, Modal
<1>7. OnSelChange_Store \/ OnSelChange_Store_Refused =>
        frame.cmd \notin Modal /\ frame'.cmd \notin Modal
  BY DEF OnSelChange_Store, OnSelChange_Store_Refused, Abandoned, Waiting, NoFrame, Modal
<1>8. OnContextMenu => frame.cmd \notin Modal /\ frame'.cmd \notin Modal
  BY DEF OnContextMenu, Ready, Idle, NoFrame, Modal
<1>9. ASSUME NEW i \in DOMAIN combo,
             OnSelChange_Combo_Refused(i) \/ OnSelChange_Combo_SameLibrary(i)
      PROVE  frame.cmd \notin Modal /\ frame'.cmd \notin Modal
  BY <1>9 DEF OnSelChange_Combo_Refused, OnSelChange_Combo_SameLibrary, Ready, Idle, NoFrame, Modal
<1>10. QED
  BY <1>3, <1>4, <1>5, <1>6, <1>7, <1>8, <1>9 DEF Widgets

(* The object a snippet dialog points to is of the stored snippet it was    *)
(* opened for, though its contents may be ahead of it.                      *)
LEMMA PointedTo ==
  ASSUME FreshInv, frame.live, frame.cmd \in {"SnippetEdit", "SnippetDelete", "SnippetDuplicate"}
  PROVE  /\ frame.item \in DOMAIN list /\ list[frame.item] \in SnippetRow
         /\ list[frame.item].SnippetID = frame.target
         /\ \E s \in db.Snippets : /\ s.SnippetID = list[frame.item].SnippetID
                                  /\ s.LibraryID = list[frame.item].LibraryID
<1>1. ListShows /\ IInv
  BY DEF FreshInv, WidgetsFresh
<1>2. frame.item \in DOMAIN list /\ list[frame.item].SnippetID = frame.target
  BY DEF FreshInv, FrameKnows, IInv, FrameHolds
<1>3. QED
  BY <1>1, <1>2, ItemOf, ItemIsStored

(* A new snippet is one more of the library it was asked for.               *)
LEMMA AddImplements ==
  ASSUME FreshInv, NEW name \in SnipNames, OnSnippetAdd_OK(name)
  PROVE  Contract!Next
<1> DEFINE id == NextID(SnippetIDsOf(db))
<1> DEFINE snip == [SnippetID |-> id, LibraryID |-> frame.target, Name |-> name,
                    Sort |-> frame.sort]
<1>1. /\ frame.cmd = "SnippetAdd" /\ fault = "none" /\ id <= MaxSnippetID
      /\ db' = InsertSnippet(db, snip) /\ frame' = NoFrame
  BY DEF OnSnippetAdd_OK, Waiting, DoneAndRefresh
<1>2. IInv /\ db \in Database
  BY DEF FreshInv, IInv, TypeOK
<1>3. id \in SnippetIDs \ SnippetIDsOf(db)
  BY <1>1, <1>2, NewSnippetID
<1>4. Contract!Asked("SnippetAdd") /\ Request.target = frame.target
  BY <1>1, AskedFor DEF Modal
<1>5. Request.target \in LibraryIDsOf(db)
  BY <1>4 DEF OnSnippetAdd_OK, HasRow
<1> HIDE DEF id
<1>6. snip.SnippetID = id /\ snip.LibraryID = Request.target /\ snip.Name = name
  BY <1>4
<1> HIDE DEF snip
<1>7. /\ db'.Snippets = db.Snippets \cup {snip}
      /\ LibraryIDsOf(db') = LibraryIDsOf(db)
  BY <1>1, <1>2 DEF InsertSnippet, Database, LibraryIDsOf
<1>8. Briefs(db') = Briefs(db) \cup {[SnippetID |-> id, LibraryID |-> Request.target, Name |-> name]}
  BY <1>6, <1>7 DEF Briefs, Brief
<1>9. id \in SnippetIDs /\ \A b \in Briefs(db) : b.SnippetID # id
  BY <1>3 DEF Briefs, Brief, SnippetIDsOf
<1>10. Contract!AddSnippet
  BY <1>4, <1>5, <1>7, <1>8, <1>9, Zenon
     DEF Contract!AddSnippet, Contract!AddTo, Contract!Unused, Request, Briefs, Brief
<1>11. QED
  BY <1>1, <1>10, CarriesOut DEF Modal, NoFrame

(* The duplicate is one more of the library of the snippet named.           *)
LEMMA DuplicateImplements ==
  ASSUME FreshInv, OnSnippetDuplicate_Yes, ~Dangling
  PROVE  Contract!Next
<1> DEFINE id == NextID(SnippetIDsOf(db))
<1> DEFINE old == list[frame.item]
<1> DEFINE name == DupName[old.Name]
<1> DEFINE snip == [old EXCEPT !.SnippetID = id, !.Name = name]
<1>1. /\ frame.cmd = "SnippetDuplicate" /\ fault = "none" /\ id <= MaxSnippetID /\ frame.live
      /\ db' = InsertSnippet(db, snip) /\ frame' = NoFrame
  BY DEF OnSnippetDuplicate_Yes, Waiting, DoneAndRefresh
<1>2. IInv /\ db \in Database
  BY DEF FreshInv, IInv, TypeOK
<1>3. id \in SnippetIDs \ SnippetIDsOf(db)
  BY <1>1, <1>2, NewSnippetID
<1>4. /\ old \in SnippetRow /\ old.SnippetID = frame.target
      /\ \E s \in db.Snippets : s.SnippetID = old.SnippetID /\ s.LibraryID = old.LibraryID
  BY <1>1, PointedTo
<1>5. name \in SnipNames
  BY <1>4, ConsoleAssumption DEF SnippetRow
<1> HIDE DEF id, old, name
<1>0. PICK row \in db.Snippets : row.SnippetID = frame.target /\ row.LibraryID = old.LibraryID
  BY <1>4
<1>6. snip.SnippetID = id /\ snip.LibraryID = old.LibraryID /\ snip.Name = name
  BY <1>4 DEF SnippetRow
<1> HIDE DEF snip
<1>7. /\ db'.Snippets = db.Snippets \cup {snip}
      /\ LibraryIDsOf(db') = LibraryIDsOf(db)
  BY <1>1, <1>2 DEF InsertSnippet, Database, LibraryIDsOf
<1>8. Briefs(db') =
        Briefs(db) \cup {[SnippetID |-> id, LibraryID |-> Brief(row).LibraryID, Name |-> name]}
  BY <1>0, <1>6, <1>7 DEF Briefs, Brief
<1>9. id \in SnippetIDs /\ \A b \in Briefs(db) : b.SnippetID # id
  BY <1>3 DEF Briefs, Brief, SnippetIDsOf
<1>10. Contract!Asked("SnippetDuplicate") /\ Request.target = frame.target
  BY <1>1, AskedFor DEF Modal
<1>11. Brief(row) \in Briefs(db) /\ Brief(row).SnippetID = Request.target
  BY <1>0, <1>10 DEF Briefs, Brief
<1>12. \E b \in Briefs(db) :
         /\ b.SnippetID = Request.target
         /\ \E i \in SnippetIDs, n \in SnipNames :
              /\ \A c \in Briefs(db) : c.SnippetID # i
              /\ Briefs(db') = Briefs(db) \cup {[SnippetID |-> i, LibraryID |-> b.LibraryID, Name |-> n]}
  BY <1>5, <1>8, <1>9, <1>11, Zenon
<1>13. Contract!DuplicateSnippet
  BY <1>7, <1>10, <1>12, Zenon
     DEF Contract!DuplicateSnippet, Contract!AddTo, Contract!Unused, Request, Briefs, Brief
<1>14. QED
  BY <1>1, <1>13, CarriesOut DEF Modal, NoFrame

(* The edited snippet keeps its id and its library.                         *)
LEMMA EditImplements ==
  ASSUME FreshInv, NEW name \in SnipNames, OnSnippetEdit_OK(name), ~Dangling
  PROVE  Contract!Next
<1> DEFINE old == list[frame.item]
<1> DEFINE snip == [old EXCEPT !.Name = name]
<1>1. /\ frame.cmd = "SnippetEdit" /\ fault = "none" /\ frame.live
      /\ db' = UpdateSnippet(db, snip) /\ frame' = NoFrame
  BY DEF OnSnippetEdit_OK, Waiting
<1>2. Consistent(db)
  BY InvariantIsConsistent DEF FreshInv
<1>3. /\ old \in SnippetRow /\ old.SnippetID = frame.target
      /\ \E s \in db.Snippets : s.SnippetID = old.SnippetID /\ s.LibraryID = old.LibraryID
  BY <1>1, PointedTo
<1> HIDE DEF old
<1>4. PICK row \in db.Snippets : row.SnippetID = frame.target /\ row.LibraryID = old.LibraryID
  BY <1>3
<1>5. /\ snip \in SnippetRow /\ snip.SnippetID = row.SnippetID
      /\ snip.LibraryID = row.LibraryID /\ snip.Name = name
  BY <1>3, <1>4 DEF SnippetRow
<1> HIDE DEF snip
<1>6. /\ db'.Library = db.Library
      /\ db'.Snippets = (db.Snippets \ {row}) \cup {snip}
  <2>1. /\ db'.Library = db.Library
        /\ db'.Snippets = {IF s.SnippetID = snip.SnippetID THEN snip ELSE s : s \in db.Snippets}
    BY <1>1, <1>2, <1>5, UpdateSnippetEffect
  <2>2. QED
    BY <1>2, <1>5, <2>1 DEF Consistent, KeysUnique
<1>7. \A s \in db.Snippets : Brief(s) = Brief(row) => s = row
  BY <1>2 DEF Brief, Consistent, KeysUnique
<1>8. Brief(snip) = [Brief(row) EXCEPT !.Name = name]
  BY <1>5 DEF Brief
<1>9. Briefs(db') = (Briefs(db) \ {Brief(row)}) \cup {[Brief(row) EXCEPT !.Name = name]}
  BY <1>6, <1>7, <1>8 DEF Briefs
<1>10. Contract!Asked("SnippetEdit") /\ Request.target = frame.target
  BY <1>1, AskedFor DEF Modal
<1>11. Brief(row) \in Briefs(db) /\ Brief(row).SnippetID = Request.target
  BY <1>4, <1>10 DEF Briefs, Brief
<1>12. LibraryIDsOf(db') = LibraryIDsOf(db)
  BY <1>6 DEF LibraryIDsOf
<1>13. Contract!EditSnippet
  BY <1>9, <1>10, <1>11, <1>12, Zenon DEF Contract!EditSnippet, Request, Briefs, Brief
<1>14. QED
  BY <1>1, <1>13, CarriesOut DEF Modal, NoFrame

(* Of the snippets only the one named is deleted.                           *)
LEMMA DeleteImplements ==
  ASSUME FreshInv, OnSnippetDelete_Yes, ~Dangling
  PROVE  Contract!Next
<1>1. /\ frame.cmd = "SnippetDelete" /\ fault = "none" /\ frame.live /\ frame' = NoFrame
      /\ db' = DeleteSnippet(db, list[frame.item].SnippetID)
  BY DEF OnSnippetDelete_Yes, Waiting
<1>2. db' = DeleteSnippet(db, frame.target) /\ db \in Database
  BY <1>1, PointedTo DEF FreshInv, IInv, TypeOK
<1>3. /\ db'.Snippets = {s \in db.Snippets : s.SnippetID # frame.target}
      /\ LibraryIDsOf(db') = LibraryIDsOf(db)
  BY <1>2 DEF DeleteSnippet, Database, LibraryIDsOf
<1>4. Contract!Asked("SnippetDelete") /\ Request.target = frame.target
  BY <1>1, AskedFor DEF Modal
<1>5. Briefs(db') = {b \in Briefs(db) : b.SnippetID # Request.target}
  BY <1>3, <1>4 DEF Briefs, Brief
<1>6. Contract!DeleteSnippet
  BY <1>3, <1>4, <1>5, Zenon DEF Contract!DeleteSnippet, Request, Briefs, Brief
<1>7. QED
  BY <1>1, <1>6, CarriesOut DEF Modal, NoFrame

(* Sort numbers are no part of the collection.                              *)
LEMMA MoveImplements ==
  ASSUME FreshInv, NEW item \in DOMAIN list, NEW to, MoveTo(item, to)
  PROVE  UNCHANGED Contract!vars
<1>1. frame' = frame
  BY DEF MoveTo
<1>2. ListShows /\ IInv /\ Consistent(db)
  BY InvariantIsConsistent DEF FreshInv, WidgetsFresh
<1>3. /\ db'.Library = db.Library
      /\ \A s \in db.Snippets : \A i \in DOMAIN list' :
           list'[i].SnippetID = s.SnippetID => [s EXCEPT !.Sort = list'[i].Sort] \in db'.Snippets
      /\ \A s \in db.Snippets : \E t \in db'.Snippets :
           t.SnippetID = s.SnippetID /\ t.LibraryID = s.LibraryID
      /\ \A t \in db'.Snippets : \E s \in db.Snippets :
           t.SnippetID = s.SnippetID /\ t.LibraryID = s.LibraryID /\ t.Name = s.Name
  BY <1>2, MoveRows
<1>4. \A t \in db'.Snippets : Brief(t) \in Briefs(db)
  BY <1>3 DEF Brief, Briefs
<1>5. ASSUME NEW s \in db.Snippets PROVE \E t \in db'.Snippets : Brief(t) = Brief(s)
  <2>1. PICK t \in db'.Snippets : t.SnippetID = s.SnippetID
    BY <1>3
  <2>2. PICK r \in db.Snippets :
          t.SnippetID = r.SnippetID /\ t.LibraryID = r.LibraryID /\ t.Name = r.Name
    BY <1>3
  <2>3. r = s
    BY <1>2, <2>1, <2>2 DEF Consistent, KeysUnique
  <2>4. QED
    BY <2>2, <2>3 DEF Brief
<1>6. Briefs(db') = Briefs(db)
  BY <1>4, <1>5 DEF Briefs
<1>7. Kept
  BY <1>3, <1>6 DEF Kept, LibraryIDsOf
<1>8. QED
  BY <1>1, <1>7, Stutter DEF Request

(* The snippet menu carries out what its dialogs named.                     *)
LEMMA SnippetCommandsImplement ==
  ASSUME FreshInv, SnippetCommands
  PROVE  Contract!Next \/ UNCHANGED Contract!vars
<1>1. CASE UNCHANGED <<db, frame>>
  BY <1>1, Stutter DEF Kept, Request
<1>2. ASSUME NEW item \in DOMAIN list, OnSnippetInsert(item)
      PROVE  UNCHANGED Contract!vars
  <2>1. db' = db /\ frame = NoFrame /\ frame'.cmd = "SnippetInsert"
    BY <1>2 DEF OnSnippetInsert, Suspend, Ready, Idle
  <2>2. QED
    BY <2>1, Stutter DEF Kept, Request, NoFrame, Modal
<1>3. ASSUME NEW item \in DOMAIN list,
             NEW cmd \in {"SnippetEdit", "SnippetDelete", "SnippetDuplicate"}, PointAt(cmd, item)
      PROVE  Contract!Next
  <2>1. /\ db' = db /\ frame = NoFrame /\ cmd \in Modal
        /\ Suspend(cmd, item, list[item].SnippetID, 0)
    BY <1>3 DEF PointAt, SnippetMenu, Ready, Idle, Modal
  <2>2. list[item].SnippetID \in SnippetIDs
    BY ItemOf DEF FreshInv
  <2>3. QED
    BY <2>1, <2>2, Asks
<1>4. ASSUME NEW item \in DOMAIN list, OnSnippetMoveUp(item) \/ OnSnippetMoveDown(item)
      PROVE  UNCHANGED Contract!vars
  BY <1>4, MoveImplements DEF OnSnippetMoveUp, OnSnippetMoveDown
<1>5. CASE OnSnippetInsert_Done
  <2>1. frame.cmd = "SnippetInsert" /\ db' = db /\ (frame' = NoFrame \/ frame' = frame)
    BY <1>5 DEF OnSnippetInsert_Done, Waiting, Fault
  <2>2. QED
    BY <2>1, Stutter DEF Kept, Request, NoFrame, Modal
<1>6. CASE OnSnippetAdd
  <2>1. /\ db' = db /\ frame = NoFrame /\ cur # 0 /\ "SnippetAdd" \in Modal
        /\ Suspend("SnippetAdd", 0, combo[cur].LibraryID, GetMaxSort + 1)
    BY <1>6 DEF OnSnippetAdd, SnippetMenu, Ready, Idle, Modal
  <2>2. combo[cur].LibraryID \in LibraryIDs
    BY <2>1, CurrentOf DEF FreshInv
  <2>3. QED
    BY <2>1, <2>2, Asks
<1>7. CASE Dangling
  BY <1>1, <1>7 DEF Dangling, Fault
<1>8. ASSUME NEW name \in SnipNames, OnSnippetAdd_OK(name) PROVE Contract!Next
  BY <1>8, AddImplements
<1>9. ASSUME NEW name \in SnipNames, OnSnippetEdit_OK(name), ~Dangling PROVE Contract!Next
  BY <1>9, EditImplements
<1>10. OnSnippetDelete_Yes /\ ~Dangling => Contract!Next
  BY DeleteImplements
<1>11. OnSnippetDuplicate_Yes /\ ~Dangling => Contract!Next
  BY DuplicateImplements
<1>12. ASSUME NEW item \in DOMAIN list, NEW to, MoveTo_Refused(item, to)
       PROVE  Contract!Next \/ UNCHANGED Contract!vars
  <2>1. UNCHANGED <<db, frame>>
    BY <1>12 DEF MoveTo_Refused
  <2>2. QED
    BY <1>1, <2>1
<1>13. CASE db' = db /\ frame.cmd \in Modal /\ frame' = NoFrame
  BY <1>13, Withdraws DEF Kept, NoFrame, Modal
<1>14. OnSnippetAdd_Refused \/ OnSnippetDelete_Refused \/ OnSnippetDuplicate_Refused =>
         db' = db /\ frame.cmd \in Modal /\ frame' = NoFrame
  BY DEF OnSnippetAdd_Refused, OnSnippetDelete_Refused, OnSnippetDuplicate_Refused,
         DoneAndRefresh, Abandoned, Waiting, Modal
<1>15. ASSUME NEW name \in SnipNames, OnSnippetEdit_Refused(name)
       PROVE  db' = db /\ frame.cmd \in Modal /\ frame' = NoFrame
  BY <1>15 DEF OnSnippetEdit_Refused, Waiting, Modal
<1>16. QED
  BY <1>2, <1>3, <1>4, <1>5, <1>6, <1>7, <1>8, <1>9, <1>10, <1>11, <1>12, <1>13, <1>14, <1>15
     DEF SnippetCommands, OnSnippetEdit, OnSnippetDelete, OnSnippetDuplicate

(* While the question is on screen the library it names stays the current   *)
(* one, as long as no notification arrives.                                 *)
DeletesNamed == frame.cmd = "LibraryDelete" => frame.target = CurrentID

(* The library menu carries out what its dialogs named.                     *)
LEMMA LibraryCommandsImplement ==
  ASSUME FreshInv, DeletesNamed, LibraryCommands
  PROVE  Contract!Next \/ UNCHANGED Contract!vars
<1>1. IInv /\ Consistent(db) /\ db \in Database
  BY InvariantIsConsistent DEF FreshInv, Consistent
<1>2. CASE UNCHANGED <<db, frame>>
  BY <1>2, Stutter DEF Kept, Request
<1>3. ASSUME NEW kind, Fault(kind), UNCHANGED frame PROVE UNCHANGED <<db, frame>>
  BY <1>3 DEF Fault
<1>4. CASE Dangling
  BY <1>2, <1>4 DEF Dangling, Fault
<1>5. CASE OnLibraryNew \/ OnLibraryEdit \/ OnLibraryLanguages \/ OnLibraryDelete
  <2>1. CurrentID \in {0} \cup LibraryIDs
    BY <1>1, CurrentOf DEF CurrentID
  <2>2. PICK cmd \in Modal, target \in {0, CurrentID} : Suspend(cmd, 0, target, 0)
    BY <1>5 DEF OnLibraryNew, OnLibraryEdit, OnLibraryLanguages, OnLibraryDelete, Modal
  <2>3. db' = db /\ frame = NoFrame
    BY <1>5 DEF OnLibraryNew, OnLibraryEdit, OnLibraryLanguages, OnLibraryDelete, Fault, Ready, Idle
  <2>4. QED
    BY <2>1, <2>2, <2>3, Asks
<1>6. ASSUME NEW name \in LibNames, NEW alphabetic \in Sortings, OnLibraryNew_OK(name, alphabetic)
      PROVE  Contract!Next
  <2> DEFINE id == NextID(LibraryIDsOf(db))
  <2> DEFINE lib == [LibraryID |-> id, Name |-> name, Alphabetic |-> alphabetic]
  <2>1. /\ frame.cmd = "LibraryNew" /\ id <= MaxLibraryID /\ db' = InsertLibrary(db, lib)
        /\ Suspend("LibraryNewLang", 0, id, 0)
    BY <1>6 DEF OnLibraryNew_OK, NewObject, Waiting
  <2>2. id \in LibraryIDs /\ id \notin LibraryIDsOf(db)
    <3>1. LibraryIDsOf(db) \in SUBSET (1..MaxLibraryID) /\ MaxLibraryID \in Nat
      BY <1>1, RowsOf, TablesAssumption DEF LibraryIDs
    <3>2. id \in Nat \ {0} /\ id \notin LibraryIDsOf(db)
      BY <3>1, NextIDIsNew
    <3>3. QED
      BY <2>1, <3>1, <3>2 DEF LibraryIDs
  <2>3. lib.LibraryID = id
    OBVIOUS
  <2> HIDE DEF id, lib
  <2>4. /\ LibraryIDsOf(db') = LibraryIDsOf(db) \cup {id}
        /\ Briefs(db') = Briefs(db)
    BY <1>1, <2>1, <2>3 DEF InsertLibrary, Database, LibraryIDsOf, Briefs
  <2>5. Contract!Asked("LibraryNew") /\ frame.cmd \in Modal
    BY <2>1, AskedFor DEF Modal
  <2>6. Contract!NewLibrary
    BY <2>2, <2>4, <2>5, Zenon DEF Contract!NewLibrary, Briefs, Brief
  <2>7. frame'.cmd \notin Modal
    BY <2>1 DEF Suspend, Modal
  <2>8. QED
    BY <2>5, <2>6, <2>7, CarriesOut
<1>7. CASE OnLibraryNew_AddLanguage
  <2>1. /\ frame.cmd = "LibraryNewLang" /\ frame' = NoFrame
        /\ db' = AddLanguage(db, frame.target, curLang)
    BY <1>7 DEF OnLibraryNew_AddLanguage, Waiting
  <2>2. Kept
    BY <1>1, <2>1 DEF AddLanguage, Database, Kept, Briefs, LibraryIDsOf
  <2>3. QED
    BY <2>1, <2>2, Stutter DEF Request, NoFrame, Modal
<1>8. ASSUME NEW name \in LibNames, NEW alphabetic \in Sortings, OnLibraryEdit_OK(name, alphabetic)
      PROVE  Contract!Next \/ UNCHANGED Contract!vars
  <2> DEFINE lib == [combo[cur] EXCEPT !.Name = name, !.Alphabetic = alphabetic]
  <2>1. CASE Fault("null") /\ UNCHANGED frame
    BY <1>2, <1>3, <2>1
  <2>2. CASE frame.live /\ frame.target # 0 /\ DoneAndRefresh(UpdateLibrary(db, lib))
    <3>1. db' = UpdateLibrary(db, lib) /\ frame' = NoFrame /\ frame.cmd = "LibraryEdit" /\ cur # 0
      BY <1>1, <1>8, <2>2 DEF DoneAndRefresh, OnLibraryEdit_OK, Waiting, IInv, FrameHolds
    <3> HIDE DEF lib
    <3>3. LibraryIDsOf(db') = LibraryIDsOf(db)
      <4>1. db'.Library = {IF l.LibraryID = lib.LibraryID THEN lib ELSE l : l \in db.Library}
        BY <1>1, <3>1 DEF UpdateLibrary, Database
      <4>2. \A l \in db.Library :
              (IF l.LibraryID = lib.LibraryID THEN lib ELSE l).LibraryID = l.LibraryID
        OBVIOUS
      <4>3. QED
        BY <4>1, <4>2 DEF LibraryIDsOf
    <3>4. db'.Snippets = db.Snippets
      BY <1>1, <3>1 DEF UpdateLibrary, Database
    <3>5. Kept
      BY <3>3, <3>4 DEF Kept, Briefs
    <3>6. QED
      BY <3>1, <3>5, Withdraws DEF NoFrame, Modal
  <2>3. QED
    BY <1>4, <1>8, <2>1, <2>2 DEF OnLibraryEdit_OK
<1>9. ASSUME NEW langs \in SUBSET LangIDs, OnLibraryLanguages_OK(langs), ~Dangling
      PROVE  Contract!Next
  <2>1. PICK id : db' = SaveLanguages(db, id, langs)
    BY <1>9 DEF OnLibraryLanguages_OK, DoneAndRefresh
  <2>2. frame' = NoFrame /\ frame.cmd = "LibraryLanguages"
    BY <1>9 DEF OnLibraryLanguages_OK, DoneAndRefresh, Waiting
  <2>3. Kept
    BY <1>1, <2>1 DEF SaveLanguages, Database, Kept, Briefs, LibraryIDsOf
  <2>4. QED
    BY <2>2, <2>3, Withdraws DEF NoFrame, Modal
<1>10. CASE OnLibraryDelete_Yes
  <2>1. CASE cur = 0
    BY <1>2, <1>3, <1>10, <2>1 DEF OnLibraryDelete_Yes
  <2>2. CASE cur # 0
    <3>1. /\ db' = DeleteLibrary(db, combo[cur].LibraryID) /\ frame' = NoFrame
          /\ frame.cmd = "LibraryDelete"
      BY <1>10, <2>2 DEF OnLibraryDelete_Yes, DoneAndRefresh, Waiting
    <3>2. frame.target = combo[cur].LibraryID
      BY <2>2, <3>1 DEF DeletesNamed, CurrentID
    <3>3. Contract!Asked("LibraryDelete") /\ Request.target = frame.target
      BY <3>1, AskedFor DEF Modal
    <3>4. /\ db'.Library = {l \in db.Library : l.LibraryID # Request.target}
          /\ db'.Snippets = {s \in db.Snippets : s.LibraryID # Request.target}
      BY <3>1, <3>2, <3>3 DEF DeleteLibrary
    <3>5. LibraryIDsOf(db') = LibraryIDsOf(db) \ {Request.target}
      BY <3>4 DEF LibraryIDsOf
    <3>6. Briefs(db') = {b \in Briefs(db) : b.LibraryID # Request.target}
      BY <3>4 DEF Briefs, Brief
    <3>7. Contract!DeleteLibrary
      BY <3>3, <3>5, <3>6, Zenon DEF Contract!DeleteLibrary, Request, Briefs, Brief
    <3>8. QED
      BY <3>1, <3>7, CarriesOut DEF Modal, NoFrame
  <2>3. QED
    BY <2>1, <2>2
<1>11. ASSUME NEW name \in LibNames, NEW alphabetic \in Sortings,
              OnLibraryNew_Refused(name, alphabetic)
       PROVE  Contract!Next
  <2>1. db' = db /\ frame.cmd \in Modal /\ frame'.cmd \notin Modal
    BY <1>11 DEF OnLibraryNew_Refused, Waiting, Suspend, Modal
  <2>2. QED
    BY <2>1, Withdraws DEF Kept
<1>12. CASE OnLibraryNew_AddLanguage_Refused
  <2>1. db' = db /\ frame.cmd = "LibraryNewLang" /\ frame' = NoFrame
    BY <1>12 DEF OnLibraryNew_AddLanguage_Refused, Waiting
  <2>2. QED
    BY <2>1, Stutter DEF Kept, Request, NoFrame, Modal
<1>13. CASE OnLibraryEdit_Refused \/ OnLibraryLanguages_Refused \/ OnLibraryDelete_Refused
  <2>1. db' = db /\ frame.cmd \in Modal /\ frame' = NoFrame
    BY <1>13 DEF OnLibraryEdit_Refused, OnLibraryLanguages_Refused, OnLibraryDelete_Refused,
                 DoneAndRefresh, Abandoned, Waiting, Modal
  <2>2. QED
    BY <2>1, Withdraws DEF Kept, NoFrame, Modal
<1>14. QED
  BY <1>4, <1>5, <1>6, <1>7, <1>8, <1>9, <1>10, <1>11, <1>12, <1>13 DEF LibraryCommands

(* The console starts as a collection without a dialog.                     *)
LEMMA InitImplements ==
  ASSUME Init
  PROVE  Contract!Init
<1>1. Consistent(db) /\ frame = NoFrame
  BY ConsoleAssumption DEF Init
<1>2. LibraryIDsOf(db) \subseteq LibraryIDs
  BY <1>1, RowsOf
<1>3. Request = [command |-> "none", target |-> 0]
  BY <1>1 DEF Request, NoFrame, Modal
<1>4. Briefs(db) \subseteq [SnippetID : SnippetIDs, LibraryID : LibraryIDsOf(db), Name : SnipNames]
  <2>1. \A s \in db.Snippets : s \in SnippetRow /\ s.LibraryID \in LibraryIDsOf(db)
    BY <1>1 DEF Consistent, Database, ReferencesHold
  <2>2. QED
    BY <2>1 DEF Briefs, Brief, SnippetRow
<1>5. QED
  BY <1>2, <1>3, <1>4 DEF Contract!Init, Request, Briefs, Brief

(* Every step of the console is one of the collection, or none.             *)
LEMMA StepImplements ==
  ASSUME FreshInv, DeletesNamed, [Next]_vars
  PROVE  [Contract!Next]_(Contract!vars)
<1>1. CASE UNCHANGED vars
  BY <1>1, Stutter DEF vars, Kept, Request
<1>2. CASE Next
  BY <1>2, NotepadImplements, WidgetsImplement, SnippetCommandsImplement,
     LibraryCommandsImplement DEF Next
<1>3. QED
  BY <1>1, <1>2

(* As long as no notification arrives during a dialog the console is the    *)
(* collection its user knows: whatever the filter, the language, the order, *)
(* the crashes and the refused writes, a change is the request of the dialog*)
(* it answers, carried out on the thing that dialog named.                  *)
THEOREM ImplementsCollectionHolds ==
  ASSUME ~Reentrant
  PROVE  Spec => ImplementsCollection
<1>1. Init => DeletesNamed
  BY DEF Init, DeletesNamed, NoFrame
<1>2. FreshInv /\ DeletesNamed /\ [Next]_vars => DeletesNamed'
  <2>1. SUFFICES ASSUME FreshInv, DeletesNamed, Next \/ UNCHANGED vars,
                        frame'.cmd = "LibraryDelete"
                 PROVE  frame'.target = CurrentID'
    BY DEF DeletesNamed
  <2>2. CASE UNCHANGED <<db, combo, cur, filter, frame, unsaved>>
    BY <2>1, <2>2 DEF DeletesNamed, CurrentID
  <2>3. CASE OnLibraryDelete
    BY <2>3 DEF OnLibraryDelete, Suspend, Fault, CurrentID, widgets
  <2>4. ~OnSnippetAdd
    BY <2>1 DEF OnSnippetAdd, Suspend
  <2>5. QED
    BY <2>1, <2>2, <2>3, <2>4, DialogWaits DEF vars
<1>3. FreshInv /\ DeletesNamed /\ [Next]_vars => [Contract!Next]_(Contract!vars)
  BY StepImplements
<1>4. Init => Contract!Init
  BY InitImplements
<1>5. QED
  BY <1>1, <1>2, <1>3, <1>4, FreshInvHolds, PTL DEF Spec, ImplementsCollection, Contract!Spec
=============================================================================
