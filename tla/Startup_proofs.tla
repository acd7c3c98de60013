--------------------------- MODULE Startup_proofs ---------------------------
(***************************************************************************)
(* Sessions of the plug-in, for any number of changes other processes make *)
(* and any templates: no database is replaced, none is opened without a    *)
(* reason, and the option remembers what the user sees.                    *)
(***************************************************************************)
EXTENDS Startup, FiniteSetTheorems, TLAPS

(* The search only ever returns a place that passes the test. *)
LEMMA SearchFinds ==
  ASSUME TypeOK, SelectInSeq(SearchOrder, IsThere) # 0
  PROVE  /\ SearchOrder[SelectInSeq(SearchOrder, IsThere)] \in Places
         /\ IsThere(SearchOrder[SelectInSeq(SearchOrder, IsThere)])
<1> DEFINE I == {i \in 1..Len(SearchOrder) : IsThere(SearchOrder[i])}
           Least(x) == \A y \in I : x <= y
<1>1. SelectInSeq(SearchOrder, IsThere) = IF I # {} THEN Min(I) ELSE 0
  BY DEF SelectInSeq
<1>2. I # {} /\ SelectInSeq(SearchOrder, IsThere) = Min(I)
  BY <1>1
<1>3. I \in SUBSET (1..3) /\ Len(SearchOrder) = 3
  BY DEF SearchOrder
<1>4. \E x \in I : Least(x)
  BY <1>2, <1>3
<1>5. Min(I) = CHOOSE x \in I : Least(x)
  BY Zenon DEF Min
<1>6. Min(I) \in I
  BY <1>4, <1>5, Zenon
<1>7. QED
  BY <1>2, <1>3, <1>6 DEF SearchOrder, Places

(* The search passes over no place that passes the test.                    *)
LEMMA SearchMisses ==
  ASSUME SelectInSeq(SearchOrder, IsThere) = 0
  PROVE  \A place \in Places : ~IsThere(place)
<1> DEFINE I == {i \in 1..Len(SearchOrder) : IsThere(SearchOrder[i])}
           Least(x) == \A y \in I : x <= y
<1>1. SelectInSeq(SearchOrder, IsThere) = IF I # {} THEN Min(I) ELSE 0
  BY DEF SelectInSeq
<1>2. I \in SUBSET (1..3) /\ Len(SearchOrder) = 3
  BY DEF SearchOrder
<1>3. I = {}
  <2> SUFFICES ASSUME I # {} PROVE FALSE
    OBVIOUS
  <2>1. \E x \in I : Least(x)
    BY <1>2
  <2>2. Min(I) = CHOOSE x \in I : Least(x)
    BY Zenon DEF Min
  <2>3. 0 \notin I
    BY <1>2
  <2>4. Min(I) \in I
    BY <2>1, <2>2, Zenon
  <2>5. Min(I) = 0
    BY <1>1, Zenon
  <2>6. QED
    BY <2>3, <2>4, <2>5, Zenon
<1>4. \A place \in Places : \E i \in 1..3 : SearchOrder[i] = place
  BY DEF SearchOrder, Places
<1>5. QED
  BY <1>2, <1>3, <1>4

(* Opening a database that is not there creates an empty one, or fails.     *)
LEMMA CreatedIsTyped ==
  ASSUME NEW files \in [Places -> {"none", "user", "template", "empty"}], NEW Q, NEW d,
         d \in {files} \cup {[files EXCEPT ![p] = "empty"] : p \in Q}
  PROVE  d \in [Places -> {"none", "user", "template", "empty"}]
  OBVIOUS

(* Showing keeps the invariant, whether the file has its tables or opening  *)
(* it throws; files is what is on disk by then.                             *)
LEMMA ShowKeeps ==
  ASSUME IInv,
         NEW place \in Places, NEW files \in [Places -> {"none", "user", "template", "empty"}],
         \A p \in Places : files[p] # db[p] => db[p] = "none" /\ files[p] = "template",
         ~lost => files[place] # "none",
         filename = "" \/ place = filename,
         Show(place, files), phase' = "ready", UNCHANGED <<others, ini>>
  PROVE  IInv'
<1> USE DEF IInv, TypeOK
<1>1. UNCHANGED <<templates, lost, changes, ini>> /\ filename' = place /\ copying' = "none"
  BY DEF Show, others
<1>2. place # "" /\ (~lost => ~broken /\ HasTables(files[place]))
  BY DEF FilesHold, Places, HasTables
<1>3. CASE HasTables(files[place]) /\ ~broken
  <2>1. /\ console' = [[BecomeVisible EXCEPT !.initialized = TRUE, !.hasHome = TRUE] EXCEPT !.shown = TRUE]
        /\ options' = [options EXCEPT !.show = TRUE]
        /\ told' = told \ {"closed"} /\ db' = files /\ broken' = broken
    BY <1>3 DEF Show
  <2>2. /\ console' \in [visible : BOOLEAN, initialized : BOOLEAN, hasHome : BOOLEAN, shown : BOOLEAN]
        /\ console'.initialized /\ console'.shown /\ options' \in Options /\ options'.show = TRUE
    BY <2>1 DEF BecomeVisible, Options
  <2>3. TypeOK'
    <3>1. broken' \in BOOLEAN /\ lost' \in BOOLEAN
      BY <1>1, <2>1, Zenon
    <3>2. db' \in [Places -> {"none", "user", "template", "empty"}]
      BY <2>1
    <3>3. told' \subseteq {"missed", "closed", "thrown"}
      BY <2>1
    <3>4. filename' \in Places \cup {""} /\ changes' \in 0..MaxChanges
      BY <1>1
    <3>5. templates' \subseteq {"home", "shipped"} /\ {ini', options'} \subseteq Options
      BY <1>1, <2>2
    <3>6. QED
      BY <1>1, <2>2, <3>1, <3>2, <3>3, <3>4, <3>5
  <2>4. FilesHold'
    BY <1>1, <1>2, <2>1 DEF FilesHold, HasTables
  <2>5. FlagsHold'
    BY <1>1, <1>2, <2>1, <2>2 DEF FlagsHold
  <2>6. ThrowsForAReason'
    BY <1>1, <2>1 DEF ThrowsForAReason
  <2>7. QED
    BY <2>3, <2>4, <2>5, <2>6
<1>4. CASE ~HasTables(files[place]) \/ broken
  <2>1. lost
    BY <1>2, <1>4
  <2>2. /\ console' = [BecomeVisible EXCEPT !.initialized = TRUE, !.hasHome = TRUE]
        /\ options' = options /\ OpenThrows(place, files)
    BY <1>4 DEF Show
  <2>3. /\ console' \in [visible : BOOLEAN, initialized : BOOLEAN, hasHome : BOOLEAN, shown : BOOLEAN]
        /\ console'.initialized
    BY <2>2 DEF BecomeVisible
  <2>4. db' \in [Places -> {"none", "user", "template", "empty"}] /\ broken' = TRUE
        /\ told' = told \cup {"thrown"}
    <3>1. /\ db' \in {files} \cup
                 {[files EXCEPT ![p] = "empty"] : p \in {q \in {place} : files[q] = "none" /\ ~broken}}
          /\ broken' = TRUE /\ told' = told \cup {"thrown"}
      BY <2>2, Zenon DEF OpenThrows
    <3>2. db' \in [Places -> {"none", "user", "template", "empty"}]
      BY <3>1, CreatedIsTyped, Zenon
    <3>3. QED
      BY <3>1, <3>2, Zenon
  <2>5. TypeOK'
    <3>1. broken' \in BOOLEAN /\ lost' \in BOOLEAN
      BY <1>1, <2>4, Zenon
    <3>2. told' \subseteq {"missed", "closed", "thrown"}
      BY <2>4
    <3>3. filename' \in Places \cup {""} /\ changes' \in 0..MaxChanges
      BY <1>1
    <3>4. templates' \subseteq {"home", "shipped"} /\ {ini', options'} \subseteq Options
      BY <1>1, <2>2
    <3>5. QED
      BY <1>1, <2>3, <2>4, <3>1, <3>2, <3>3, <3>4
  <2>6. QED
    BY <1>1, <1>2, <2>1, <2>2, <2>3, <2>4, <2>5 DEF FilesHold, FlagsHold, ThrowsForAReason
<1>5. QED
  BY <1>3, <1>4

(* When there is nothing to show, the user has been told. *)
LEMMA NotFoundKeeps ==
  ASSUME IInv, filename = "", NotFound, phase' = "ready", UNCHANGED <<others, ini>>
  PROVE  IInv'
<1> USE DEF IInv, TypeOK
<1>1. /\ UNCHANGED <<templates, lost, changes, ini, db, options, filename, broken>>
      /\ copying' = "none" /\ told' = told \cup {"missed"}
  BY DEF NotFound, others
<1>2. /\ console' \in [visible : BOOLEAN, initialized : BOOLEAN, hasHome : BOOLEAN, shown : BOOLEAN]
      /\ console'.initialized = console.initialized
  BY DEF NotFound, BecomeVisible
<1>3. QED
  BY <1>1, <1>2 DEF FilesHold, FlagsHold, ThrowsForAReason

(* A search for a template ends with a copy to make or nothing to show.     *)
LEMMA TryTemplateKeeps ==
  ASSUME IInv, filename = "", NEW from \in SUBSET {"home", "shipped"}, TryTemplate(from),
         phase' = "ready", UNCHANGED <<others, ini>>
  PROVE  IInv'
<1> USE DEF IInv, TypeOK
<1>1. CASE from \cap templates = {}
  BY <1>1, NotFoundKeeps DEF TryTemplate
<1>2. CASE from \cap templates # {}
  <2>1. PICK template \in {"home", "shipped"} : AboutToCopy(template)
    BY <1>2 DEF TryTemplate
  <2>2. /\ UNCHANGED <<templates, lost, changes, ini, db, options, filename, broken, told>>
        /\ copying' = template
    BY <2>1 DEF AboutToCopy, others
  <2>3. /\ console' \in [visible : BOOLEAN, initialized : BOOLEAN, hasHome : BOOLEAN, shown : BOOLEAN]
        /\ console'.initialized = console.initialized
    BY <2>1 DEF AboutToCopy, BecomeVisible
  <2>4. QED
    BY <2>2, <2>3 DEF FilesHold, FlagsHold, ThrowsForAReason
<1>3. QED
  BY <1>1, <1>2

(* The menu entry, whichever way it goes. *)
LEMMA ToggleKeeps ==
  ASSUME IInv, phase \in {"options", "ready"}, copying = "none", Toggle, phase' = "ready",
         UNCHANGED <<others, ini>>
  PROVE  IInv'
<1> USE DEF IInv, TypeOK
<1>1. CASE console.visible
  <2>1. HideConsole
    BY <1>1 DEF Toggle
  <2>2. /\ UNCHANGED <<templates, lost, changes, ini, db, filename, broken, copying>>
        /\ told' = told \ {"closed"} /\ options' = [options EXCEPT !.show = FALSE]
        /\ console' = [console EXCEPT !.visible = FALSE, !.shown = FALSE]
    BY <2>1 DEF HideConsole, others
  <2>3. /\ console' \in [visible : BOOLEAN, initialized : BOOLEAN, hasHome : BOOLEAN, shown : BOOLEAN]
        /\ console'.initialized = console.initialized /\ console'.visible = FALSE
        /\ console'.shown = FALSE /\ options' \in Options /\ options'.show = FALSE
    BY <2>2 DEF Options
  <2>4. QED
    BY <2>2, <2>3 DEF FilesHold, FlagsHold, ThrowsForAReason
<1>2. CASE ~console.visible /\ console.initialized
  <2>1. Show(filename, db)
    BY <1>2 DEF Toggle, ShowConsole
  <2>2. filename # "" /\ filename \in Places
    BY <1>2 DEF FlagsHold
  <2>3. ~lost => db[filename] # "none"
    BY <2>2 DEF FilesHold
  <2>4. QED
    BY <2>1, <2>2, <2>3, ShowKeeps
<1>3. CASE ~console.visible /\ ~console.initialized
  <2>1. GetDatabaseFile /\ filename = ""
    BY <1>3 DEF Toggle, ShowConsole, FlagsHold
  <2> DEFINE place == SelectInSeq(SearchOrder, IsThere)
  <2>2. CASE place # 0
    <3>1. SearchOrder[place] \in Places /\ IsThere(SearchOrder[place])
      BY <2>2, SearchFinds
    <3>2. Show(SearchOrder[place], db)
      BY <2>1, <2>2 DEF GetDatabaseFile
    <3>3. db[SearchOrder[place]] # "none"
      BY <3>1 DEF IsThere
    <3> HIDE DEF place
    <3>4. QED
      BY <2>1, <3>1, <3>2, <3>3, ShowKeeps
  <2>3. CASE place = 0
    <3>1. TryTemplate(FirstTemplates)
      BY <2>1, <2>3 DEF GetDatabaseFile
    <3>2. FirstTemplates \in SUBSET {"home", "shipped"}
      BY DEF FirstTemplates
    <3>3. QED
      BY <2>1, <3>1, <3>2, TryTemplateKeeps
  <2>4. QED
    BY <2>2, <2>3
<1>4. QED
  BY <1>1, <1>2, <1>3

(* One step keeps the invariant. *)
LEMMA StepKeeps ==
  ASSUME IInv, [Next]_vars
  PROVE  IInv'
<1> USE DEF IInv, TypeOK
<1>1. CASE Load
  BY <1>1 DEF Load, others, session, FilesHold, FlagsHold, ThrowsForAReason
<1>2. CASE ReadOptions
  BY <1>2 DEF ReadOptions, others, session, FilesHold, FlagsHold, ThrowsForAReason
<1>3. CASE Ready
  <2>1. phase = "options" /\ phase' = "ready" /\ UNCHANGED <<others, ini>>
    BY <1>3 DEF Ready
  <2>2. copying = "none" /\ filename = "" /\ console = NoConsole
    BY <2>1 DEF FlagsHold
  <2>3. CASE options.show
    BY <1>3, <2>1, <2>2, <2>3, ToggleKeeps DEF Ready
  <2>4. CASE ~options.show
    <3>1. UNCHANGED <<db, options, console, filename, broken, copying, told>>
      BY <1>3, <2>4 DEF Ready, session
    <3>2. TypeOK'
      BY <2>1, <3>1 DEF others
    <3>3. options'.show = FALSE /\ console'.shown = FALSE
      BY <2>2, <2>4, <3>1 DEF NoConsole, Options
    <3>4. QED
      BY <2>1, <2>2, <3>1, <3>2, <3>3 DEF others, FilesHold, FlagsHold, ThrowsForAReason
  <2>5. QED
    BY <2>3, <2>4
<1>4. CASE LangChanged
  <2>1. /\ UNCHANGED <<templates, lost, changes, ini, options, phase, console, filename, copying>>
        /\ phase = "ready" /\ copying = "none" /\ console.visible /\ Refresh
    BY <1>4 DEF LangChanged, others, Waiting
  <2>2. CASE UNCHANGED <<db, broken, told>>
    BY <2>1, <2>2 DEF FilesHold, FlagsHold, ThrowsForAReason
  <2>3. CASE filename # "" /\ (~HasTables(db[filename]) \/ broken) /\ OpenThrows(filename, db)
    <3>1. lost /\ filename \in Places
      BY <2>3 DEF FilesHold, HasTables
    <3>2. db' \in [Places -> {"none", "user", "template", "empty"}] /\ broken' = TRUE
          /\ told' = told \cup {"thrown"}
      BY <2>3 DEF OpenThrows
    <3>3. QED
      BY <2>1, <3>1, <3>2 DEF FilesHold, FlagsHold, ThrowsForAReason
  <2>4. CASE filename = "" /\ told' = told \cup {"thrown"} /\ UNCHANGED <<db, broken>>
    BY <2>1, <2>4 DEF FilesHold, FlagsHold, ThrowsForAReason
  <2>5. QED
    BY <2>1, <2>2, <2>3, <2>4 DEF Refresh
<1>5. CASE Unload \/ Crash
  <2>1. /\ UNCHANGED <<db, templates, lost, changes>> /\ Unloaded
        /\ ini' = options \/ ini' = ini
    BY <1>5 DEF Unload, Crash, others
  <2>2. /\ console' \in [visible : BOOLEAN, initialized : BOOLEAN, hasHome : BOOLEAN, shown : BOOLEAN]
        /\ options' \in Options
        /\ ~console'.initialized /\ ~console'.visible
    BY <2>1 DEF Unloaded, NoConsole, Defaults, Options
  <2>3. QED
    BY <2>1, <2>2 DEF Unloaded, FilesHold, FlagsHold, ThrowsForAReason
<1>6. CASE SnippetsConsole
  BY <1>6, ToggleKeeps DEF SnippetsConsole, Waiting
<1>7. CASE CopyTemplate
  <2>1. /\ copying # "none" /\ phase' = phase /\ UNCHANGED <<others, ini>>
    BY <1>7 DEF CopyTemplate
  <2>2. phase' = "ready" /\ filename = ""
    BY <2>1 DEF FilesHold, FlagsHold
  <2> DEFINE files == [db EXCEPT !["config"] = "template"]
  <2>3. CASE db["config"] = "none" /\ Show("config", files)
    <3>1. /\ "config" \in Places
          /\ files \in [Places -> {"none", "user", "template", "empty"}]
          /\ \A p \in Places : files[p] # db[p] => db[p] = "none" /\ files[p] = "template"
          /\ files["config"] # "none"
      BY <2>3 DEF Places
    <3> HIDE DEF files
    <3>2. QED
      BY <2>1, <2>2, <2>3, <3>1, ShowKeeps
  <2>4. CASE TryTemplate({"shipped"})
    BY <2>1, <2>2, <2>4, TryTemplateKeeps
  <2>5. CASE NotFound
    BY <2>1, <2>2, <2>5, NotFoundKeeps
  <2>6. QED
    BY <1>7, <2>3, <2>4, <2>5 DEF CopyTemplate
<1>8. CASE OnClose
  <2>1. /\ UNCHANGED <<db, templates, lost, changes, ini, phase, filename, broken, copying>>
        /\ told' = told \cup {"closed"} /\ options' = [options EXCEPT !.show = console.visible]
        /\ console' = [console EXCEPT !.shown = FALSE]
        /\ phase = "ready"
    BY <1>8 DEF OnClose, others, Waiting
  <2>2. /\ console' \in [visible : BOOLEAN, initialized : BOOLEAN, hasHome : BOOLEAN, shown : BOOLEAN]
        /\ console'.initialized = console.initialized /\ console'.visible = console.visible
        /\ console'.shown = FALSE
    BY <2>1
  <2>3. console.visible \in BOOLEAN
    OBVIOUS
  <2>4. options' \in Options
    <3>1. options \in Options
      OBVIOUS
    <3> HIDE DEF IInv, TypeOK
    <3>2. QED
      BY <2>1, <2>3, <3>1 DEF Options
  <2>5. QED
    BY <2>1, <2>2, <2>4 DEF FilesHold, FlagsHold, ThrowsForAReason
<1>9. ASSUME NEW dbFile \in BOOLEAN, OptionsDlg_OK(dbFile)
      PROVE  IInv'
  <2>1. /\ UNCHANGED <<db, templates, lost, changes, ini, phase, console, filename, broken, copying, told>>
        /\ options' = [options EXCEPT !.dbFile = dbFile]
    BY <1>9 DEF OptionsDlg_OK, others, session
  <2>2. options' \in Options /\ options'.show = options.show
    BY <2>1 DEF Options
  <2>3. QED
    BY <2>1, <2>2 DEF FilesHold, FlagsHold, ThrowsForAReason
<1>10. ASSUME NEW place \in Places, NEW what \in {"none", "user", "template"},
              OthersChange(place, what)
       PROVE  IInv'
  <2>1. /\ UNCHANGED <<templates, ini, options, phase, console, filename, broken, copying, told>>
        /\ changes > 0 /\ changes' = changes - 1
        /\ db' = [db EXCEPT ![place] = what]
        /\ what = "none" => lost' = TRUE
        /\ what # "none" => lost' = lost
    BY <1>10 DEF OthersChange, session
  <2>2. lost' \in BOOLEAN
    BY <2>1, Zenon
  <2>3. changes' \in 0..MaxChanges /\ db' \in [Places -> {"none", "user", "template", "empty"}]
    <3>1. changes \in 0..MaxChanges /\ db \in [Places -> {"none", "user", "template", "empty"}]
      OBVIOUS
    <3> HIDE DEF IInv, TypeOK
    <3>2. changes' \in 0..MaxChanges
      BY <2>1, <3>1, StartupAssumption
    <3>3. QED
      BY <2>1, <3>1, <3>2
  <2>4. ~lost' => ~lost /\ what # "none"
    BY <2>1
  <2>5. \A p \in Places : db'[p] = IF p = place THEN what ELSE db[p]
    BY <2>1
  <2>6. filename \in Places \cup {""}
    OBVIOUS
  <2> HIDE DEF IInv, TypeOK
  <2>7. FilesHold
    BY DEF IInv
  <2>8. ~lost' => ~broken' /\ \A p \in Places : db'[p] # "empty"
    BY <2>1, <2>4, <2>5, <2>7 DEF FilesHold
  <2>9. ~lost' /\ filename' # "" => db'[filename'] # "none"
    BY <2>1, <2>4, <2>5, <2>6, <2>7 DEF FilesHold
  <2>10. FilesHold'
    BY <2>1, <2>7, <2>8, <2>9 DEF FilesHold
  <2>11. TypeOK'
    BY <2>1, <2>2, <2>3 DEF IInv, TypeOK
  <2>12. FlagsHold' /\ ThrowsForAReason'
    BY <2>1, <2>4 DEF IInv, FlagsHold, ThrowsForAReason
  <2>13. QED
    BY <2>10, <2>11, <2>12 DEF IInv
<1>11. CASE UNCHANGED vars
  BY <1>11 DEF vars, FilesHold, FlagsHold, ThrowsForAReason
<1>12. QED
  BY <1>1, <1>2, <1>3, <1>4, <1>5, <1>6, <1>7, <1>8, <1>9, <1>10, <1>11 DEF Next

(* What holds at every state of every session, for any changes others make. *)
THEOREM InvariantHolds == Spec => []IInv
<1>1. Init => IInv
  <2> SUFFICES ASSUME Init PROVE IInv
    OBVIOUS
  <2>1. Defaults \in Options
    BY DEF Defaults, Options
  <2>2. NoConsole \in [visible : BOOLEAN, initialized : BOOLEAN, hasHome : BOOLEAN, shown : BOOLEAN]
        /\ ~NoConsole.initialized /\ ~NoConsole.visible
    BY DEF NoConsole
  <2>3. templates \subseteq {"home", "shipped"} /\ changes \in 0..MaxChanges
    <3>1. templates \in TemplateSets /\ changes = MaxChanges
      BY DEF Init
    <3>2. changes \in 0..MaxChanges
      BY <3>1, StartupAssumption
    <3>3. templates \subseteq {"home", "shipped"}
      BY <3>1, StartupAssumption, Zenon
    <3>4. QED
      BY <3>2, <3>3
  <2>4. db \in [Places -> {"none", "user", "template", "empty"}]
    BY DEF Init
  <2>5. TypeOK
    <3>1. broken \in BOOLEAN /\ lost \in BOOLEAN /\ told = {}
      BY DEF Init
    <3>2. ini = Defaults /\ options = Defaults /\ phase = "off" /\ console = NoConsole
          /\ filename = "" /\ copying = "none"
      BY DEF Init
    <3>3. {ini, options} \subseteq Options
      BY <2>1, <3>2
    <3>4. QED
      BY <2>2, <2>3, <2>4, <3>1, <3>2, <3>3 DEF TypeOK
  <2>6. FilesHold /\ FlagsHold /\ ThrowsForAReason
    BY <2>2, <2>4 DEF Init, FilesHold, FlagsHold, ThrowsForAReason
  <2>7. QED
    BY <2>5, <2>6 DEF IInv
<1>2. IInv /\ [Next]_vars => IInv'
  BY StepKeeps
<1>3. QED
  BY <1>1, <1>2, PTL DEF Spec

(* As long as no database is taken away, Open only throws after the user    *)
(* was told that there is none.                                             *)
THEOREM ThrowsForAReasonHolds == Spec => []ThrowsForAReason
<1>1. IInv => ThrowsForAReason
  BY DEF IInv
<1>2. QED
  BY <1>1, InvariantHolds, PTL

(* No step of the plug-in replaces a database of the user.                  *)
THEOREM DatabaseIsNeverReplacedHolds == Spec => DatabaseIsNeverReplaced
<1> DEFINE Kept == \A place \in Places : db[place] = "user" => db'[place] \in {"user", "none"}
<1>1. IInv /\ [Next]_vars => [Kept]_vars
  <2> SUFFICES ASSUME IInv, Next, NEW place \in Places, db[place] = "user"
               PROVE  db'[place] \in {"user", "none"}
    BY DEF vars
  <2> USE DEF IInv, TypeOK
  <2>1. CASE db' = db
    BY <2>1
  <2>2. ASSUME NEW p \in Places, NEW files \in [Places -> {"none", "user", "template", "empty"}],
               files[place] = "user", db' = files \/ OpenThrows(p, files)
        PROVE  db'[place] = "user"
    BY <2>2 DEF OpenThrows
  <2>3. ASSUME Toggle, copying = "none"
        PROVE  db'[place] = "user"
    <3>1. CASE HideConsole \/ NotFound \/ \E t \in {"home", "shipped"} : AboutToCopy(t)
      BY <3>1 DEF HideConsole, NotFound, AboutToCopy
    <3>2. ASSUME NEW p \in Places, Show(p, db)
          PROVE  db'[place] = "user"
      BY <2>2, <3>2 DEF Show
    <3>3. CASE console.initialized /\ Show(filename, db)
      BY <3>2, <3>3 DEF FlagsHold
    <3>4. CASE SelectInSeq(SearchOrder, IsThere) # 0
                 /\ Show(SearchOrder[SelectInSeq(SearchOrder, IsThere)], db)
      BY <3>2, <3>4, SearchFinds
    <3>5. CASE TryTemplate(FirstTemplates)
      BY <3>1, <3>5 DEF TryTemplate, FirstTemplates
    <3>6. QED
      BY <2>3, <3>1, <3>3, <3>4, <3>5 DEF Toggle, ShowConsole, GetDatabaseFile
  <2>4. CASE Ready
    BY <2>1, <2>3, <2>4 DEF Ready, FlagsHold
  <2>5. CASE SnippetsConsole
    BY <2>3, <2>5 DEF SnippetsConsole, Waiting
  <2>6. CASE CopyTemplate
    <3>1. CASE db["config"] = "none" /\ Show("config", [db EXCEPT !["config"] = "template"])
      <4> DEFINE files == [db EXCEPT !["config"] = "template"]
      <4>1. "config" \in Places /\ files \in [Places -> {"none", "user", "template", "empty"}]
            /\ files[place] = "user"
        BY <3>1 DEF Places
      <4> HIDE DEF files
      <4>2. db' = files \/ OpenThrows("config", files)
        BY <3>1 DEF Show, files
      <4>3. QED
        BY <2>2, <4>1, <4>2
    <3>2. CASE NotFound \/ \E t \in {"home", "shipped"} : AboutToCopy(t)
      BY <3>2 DEF NotFound, AboutToCopy
    <3>3. QED
      BY <2>6, <3>1, <3>2 DEF CopyTemplate, TryTemplate
  <2>7. CASE LangChanged
    <3>1. CASE filename # "" /\ OpenThrows(filename, db)
      BY <2>2, <3>1
    <3>2. QED
      BY <2>7, <3>1 DEF LangChanged, Refresh
  <2>8. ASSUME NEW p \in Places, NEW what \in {"none", "user", "template"}, OthersChange(p, what)
        PROVE  db'[place] \in {"user", "none"}
    BY <2>8 DEF OthersChange
  <2>9. QED
    BY <2>1, <2>4, <2>5, <2>6, <2>7, <2>8
    DEF Next, Load, ReadOptions, Unload, Crash, OnClose, OptionsDlg_OK
<1>2. QED
  BY <1>1, InvariantHolds, PTL DEF Spec, DatabaseIsNeverReplaced

(* The next start shows the console if and only if the user left it so.     *)
THEOREM ShowIsRememberedHolds == Spec => ShowIsRemembered
<1>1. IInv /\ [Next]_vars => [Unload => ini'.show = console.shown \/ told # {}]_vars
  BY DEF IInv, FlagsHold, Unload, Waiting
<1>2. QED
  BY <1>1, InvariantHolds, PTL DEF Spec, ShowIsRemembered

(* Once a session has found its file nothing but its end changes it: the    *)
(* file is only looked for while there is none.                             *)
THEOREM StaysOnItsFileHolds == Spec => StaysOnItsFile
<1>1. IInv /\ [Next]_vars => [filename # "" /\ phase' # "off" => filename' = filename]_vars
  <2> SUFFICES ASSUME IInv, Next, filename # "", phase' # "off"
               PROVE  filename' = filename
    BY DEF vars
  <2>1. console.initialized /\ copying = "none" /\ phase = "ready"
    BY DEF IInv, FilesHold, FlagsHold
  <2>2. Toggle => filename' = filename
    BY <2>1 DEF Toggle, HideConsole, ShowConsole, Show
  <2>3. CASE SnippetsConsole
    BY <2>2, <2>3 DEF SnippetsConsole
  <2>4. CASE Load \/ ReadOptions \/ Ready \/ CopyTemplate
    BY <2>1, <2>4 DEF Load, ReadOptions, Ready, CopyTemplate
  <2>5. CASE Unload \/ Crash
    BY <2>5 DEF Unload, Crash, Unloaded
  <2>6. ASSUME NEW p \in Places, NEW what \in {"none", "user", "template"}, OthersChange(p, what)
        PROVE  filename' = filename
    BY <2>6 DEF OthersChange, session
  <2>7. ASSUME NEW dbFile \in BOOLEAN, OptionsDlg_OK(dbFile)
        PROVE  filename' = filename
    BY <2>7 DEF OptionsDlg_OK, session
  <2>8. QED
    BY <2>3, <2>4, <2>5, <2>6, <2>7 DEF Next, LangChanged, OnClose
<1>2. QED
  BY <1>1, InvariantHolds, PTL DEF Spec, StaysOnItsFile

(* The user is told that there is no database only when the search found    *)
(* none at any place and the installation has no template to copy           *)
(* (GetDatabaseFile; changelog.rst on the template database).               *)
THEOREM FoundIfThereHolds == Spec => FoundIfThere
<1> DEFINE Told == "missed" \in told' \ told /\ copying = "none"
           Nowhere == (\A place \in Places : ~IsThere(place)) /\ "shipped" \notin templates
<1>1. IInv /\ [Next]_vars => [Told => Nowhere]_vars
  <2> SUFFICES ASSUME IInv, Next, Told
               PROVE  Nowhere
    BY DEF vars
  <2>1. ~(told' \subseteq told \cup {"thrown"})
    OBVIOUS
  <2>2. ASSUME Toggle PROVE Nowhere
    <3>1. ~HideConsole
      BY <2>1 DEF HideConsole
    <3>2. \A place, files : ~Show(place, files)
      BY <2>1 DEF Show, OpenThrows
    <3>3. GetDatabaseFile
      BY <2>2, <3>1, <3>2 DEF Toggle, ShowConsole
    <3>4. SelectInSeq(SearchOrder, IsThere) = 0 /\ TryTemplate(FirstTemplates)
      BY <3>2, <3>3 DEF GetDatabaseFile
    <3>5. \A place \in Places : ~IsThere(place)
      BY <3>4, SearchMisses
    <3>6. \A template : ~AboutToCopy(template)
      BY DEF AboutToCopy
    <3>7. FirstTemplates \cap templates = {}
      BY <3>4, <3>6 DEF TryTemplate
    <3>8. QED
      BY <3>5, <3>7 DEF FirstTemplates
  <2>3. CASE Ready
    BY <2>1, <2>2, <2>3 DEF Ready, session
  <2>4. CASE SnippetsConsole
    BY <2>2, <2>4 DEF SnippetsConsole
  <2>5. CASE LangChanged
    BY <2>1, <2>5 DEF LangChanged, Refresh, OpenThrows
  <2>6. ASSUME NEW p \in Places, NEW what \in {"none", "user", "template"}, OthersChange(p, what)
        PROVE  FALSE
    BY <2>6 DEF OthersChange, session
  <2>7. ASSUME NEW dbFile \in BOOLEAN, OptionsDlg_OK(dbFile)
        PROVE  FALSE
    BY <2>7 DEF OptionsDlg_OK, session
  <2>8. CASE Load \/ ReadOptions \/ CopyTemplate \/ OnClose
    BY <2>1, <2>8 DEF Load, ReadOptions, CopyTemplate, OnClose, session
  <2>9. CASE Unload \/ Crash
    BY <2>1, <2>9 DEF Unload, Crash, Unloaded
  <2>10. QED
    BY <2>3, <2>4, <2>5, <2>6, <2>7, <2>8, <2>9 DEF Next
<1>2. QED
  BY <1>1, InvariantHolds, PTL DEF Spec, FoundIfThere
=============================================================================
