----------------------------- MODULE Insertion -----------------------------
(***************************************************************************)
(* A snippet's text on its way from the editor or the clipboard into the   *)
(* database and back into a document: OnSnippetAddSelection,               *)
(* OnSnippetAddClipboard and OnSnippetInsert (DlgConsole.cpp), with        *)
(* ConvertLineEnding (NppSnippets.cpp) and Snippet::GuessName.             *)
(*                                                                         *)
(* A text is a sequence of characters; the database keeps texts with CR LF *)
(* at the end of lines, a document uses whichever it uses.  The handlers   *)
(* are not interrupted.  The option to indent what is inserted is off.     *)
(***************************************************************************)
EXTENDS Integers, FiniteSets, Sequences, SequencesExt

CONSTANTS
  Visible,     \* characters that are no space
  Documents,   \* texts the documents may have, and in which line endings;
               \*   bound: other texts, that insertions make, are not edited on
  Clips,       \* texts the clipboard may hold
  AfterTexts,  \* what the user enters in the dialog to go after the selection
  MaxName      \* length of a name, 50 in the program

CR == "CR"
LF == "LF"
Blank == " "
Spaces == {Blank, CR, LF}        \* isspace
Chars == Visible \cup Spaces

EolModes == {"CRLF", "CR", "LF"}   \* SC_EOL_CRLF, SC_EOL_CR, SC_EOL_LF

LineEnd(mode) == CASE mode = "CRLF" -> <<CR, LF>>
                   [] mode = "CR" -> <<CR>>
                   [] mode = "LF" -> <<LF>>

ASSUME InsertionAssumption ==
  /\ Visible \cap Spaces = {}
  /\ Documents \subseteq [text : Seq(Chars), eol : EolModes]
  /\ Clips \subseteq Seq(Chars) /\ AfterTexts \subseteq Seq(Chars)
  /\ MaxName \in Nat \ {0}

VARIABLES
  doc,      \* text of the document
  eol,      \* its SCI_GETEOLMODE
  start,    \* SCI_GETSELECTIONSTART: characters before the selection
  end,      \* SCI_GETSELECTIONEND
  dialog,   \* the Snippet object the edit dialog shows, or NoSnippet
  snip,     \* the snippet as stored, one at a time, or NoSnippet
  origin    \* the text it was made of; never read by the program

vars == <<doc, eol, start, end, dialog, snip, origin>>

NoSnippet == [before |-> <<>>, after |-> <<>>, replace |-> FALSE, newdoc |-> FALSE,
              name |-> <<>>]

-----------------------------------------------------------------------------
(* The text from character i on, for every i. *)
ConvertLineEnding_EveryCR(from, mode) ==
  LET to[i \in 1..Len(from) + 1] ==
        CASE i > Len(from) -> <<>>
          [] i <= Len(from) /\ from[i] \in {CR, LF} -> LineEnd(mode) \o to[i + 1]
          [] OTHER -> <<from[i]>> \o to[i + 1]
  IN  to[1]

(* A carriage return that is the last character is copied as it is. *)
ConvertedFrom(from, mode) ==
  LET to[i \in 1..Len(from) + 1] ==
        CASE i > Len(from) -> <<>>
          [] i < Len(from) /\ from[i] = CR ->
               LineEnd(mode) \o to[IF from[i + 1] = LF THEN i + 2 ELSE i + 1]
          [] i <= Len(from) /\ from[i] = LF -> LineEnd(mode) \o to[i + 1]
          [] OTHER -> <<from[i]>> \o to[i + 1]
  IN  to

ConvertLineEnding(from, mode) == ConvertedFrom(from, mode)[1]

GuessName_WholeText(text) == SubSeq(text, 1, MaxName)

(* From the first character that is no space to the end of its line. *)
GuessName(text) ==
  LET from == SelectInSeq(text, LAMBDA c : c \notin Spaces)
      rest == SubSeq(text, from, Len(text))
      stop == SelectInSeq(rest, LAMBDA c : c \in {CR, LF})
      line == IF stop = 0 THEN rest ELSE SubSeq(rest, 1, stop - 1)
  IN  IF from = 0 THEN <<>> ELSE SubSeq(line, 1, IF Len(line) > MaxName THEN MaxName ELSE Len(line))

Selected == SubSeq(doc, start + 1, end)

-----------------------------------------------------------------------------
(* What the user does in the editor.  A position is never within a CR LF.   *)
Positions(text) ==
  {p \in 0..Len(text) : ~(0 < p /\ p < Len(text) /\ text[p] = CR /\ text[p + 1] = LF)}

Init ==
  /\ \E d \in Documents : doc = d.text /\ eol = d.eol
  /\ start = 0 /\ end = 0
  /\ dialog = NoSnippet /\ snip = NoSnippet /\ origin = <<>>

Editing == dialog = NoSnippet /\ [text |-> doc, eol |-> eol] \in Documents

SetSelection(from, to) ==
  /\ Editing
  /\ from <= to /\ start' = from /\ end' = to
  /\ UNCHANGED <<doc, eol, dialog, snip, origin>>

SwitchDocument(d) ==
  /\ dialog = NoSnippet
  /\ doc' = d.text /\ eol' = d.eol
  /\ start' = 0 /\ end' = 0
  /\ UNCHANGED <<dialog, snip, origin>>

-----------------------------------------------------------------------------
(* A new snippet from a text, which the dialog then shows. *)
AddFrom_Unconverted(text) ==
  /\ dialog = NoSnippet /\ snip = NoSnippet
  /\ dialog' = [NoSnippet EXCEPT !.before = text, !.name = GuessName(text)]
  /\ origin' = text
  /\ UNCHANGED <<doc, eol, start, end, snip>>

AddFrom(text) ==
  LET before == ConvertLineEnding(text, "CRLF")
  IN  /\ dialog = NoSnippet /\ snip = NoSnippet
      /\ dialog' = [NoSnippet EXCEPT !.before = before, !.name = GuessName(before)]
      /\ origin' = text
      /\ UNCHANGED <<doc, eol, start, end, snip>>

OnSnippetAddClipboard(text) == AddFrom(text)

OnSnippetAddSelection == Editing /\ Selected # <<>> /\ AddFrom(Selected)

(* Name and text are required.  The user confirms them as proposed: what is *)
(* typed into the dialog instead is not modelled.                           *)
EditSnippet_OK(after, replace, newdoc) ==
  /\ dialog # NoSnippet
  /\ dialog.before # <<>> /\ dialog.name # <<>>
  /\ snip' = [dialog EXCEPT !.after = after, !.replace = replace, !.newdoc = newdoc]
  /\ dialog' = NoSnippet
  /\ UNCHANGED <<doc, eol, start, end, origin>>

EditSnippet_Cancel ==
  /\ dialog # NoSnippet
  /\ dialog' = NoSnippet /\ origin' = <<>>
  /\ UNCHANGED <<doc, eol, start, end, snip>>

OnSnippetDelete ==
  /\ dialog = NoSnippet /\ snip # NoSnippet
  /\ snip' = NoSnippet /\ origin' = <<>>
  /\ UNCHANGED <<doc, eol, start, end, dialog>>

-----------------------------------------------------------------------------
(* Inserting. *)

(* SCI_REPLACESEL: the selection becomes the text, the caret comes after it.*)
ReplaceSel(e, text) ==
  LET caret == e.start + Len(text)
  IN  [doc |-> SubSeq(e.doc, 1, e.start) \o text \o SubSeq(e.doc, e.end + 1, Len(e.doc)),
       start |-> caret, end |-> caret]

Around_CaretAfter(e, before, after) ==
  LET first == ReplaceSel(e, before)
      putBack == IF snip.replace THEN first
                 ELSE ReplaceSel(first, SubSeq(e.doc, e.start + 1, e.end))
      whole == ReplaceSel(putBack, after)
  IN  [doc |-> whole.doc, start |-> first.end, end |-> whole.end]

Around_SelectionSize(e, before, after) ==
  LET first == ReplaceSel(e, before)
      putBack == IF snip.replace THEN first
                 ELSE ReplaceSel(first, SubSeq(e.doc, e.start + 1, e.end))
      whole == ReplaceSel(putBack, after)
  IN  [doc |-> whole.doc, start |-> first.end, end |-> first.end + e.end - e.start]

(* The selection is replaced by the part before it, put back unless it is   *)
(* to be replaced, followed by the part after it, and selected again.       *)
Around(e, before, after) ==
  LET first == ReplaceSel(e, before)
      putBack == IF snip.replace THEN first
                 ELSE ReplaceSel(first, SubSeq(e.doc, e.start + 1, e.end))
      whole == ReplaceSel(putBack, after)
  IN  [doc |-> whole.doc, start |-> first.end, end |-> putBack.end]

(* A new document is not started if the current one is empty.               *)
StartsNew == snip.newdoc /\ doc # <<>>

StartNewDocument == IF StartsNew THEN [doc |-> <<>>, start |-> 0, end |-> 0]
                    ELSE [doc |-> doc, start |-> start, end |-> end]

Insert(e) ==
  /\ Editing /\ snip # NoSnippet
  /\ doc' = e.doc /\ start' = e.start /\ end' = e.end
  /\ UNCHANGED <<dialog, snip, origin>>

OnSnippetInsert_StoredEnds(newEol) ==
  /\ eol' = IF StartsNew THEN newEol ELSE eol
  /\ Insert(Around(StartNewDocument, snip.before, snip.after))

(* The line endings of a new document are those of the settings. *)
OnSnippetInsert(newEol) ==
  LET mode == IF StartsNew THEN newEol ELSE eol
  IN  /\ eol' = mode
      /\ Insert(Around(StartNewDocument, ConvertLineEnding(snip.before, mode),
                                         ConvertLineEnding(snip.after, mode)))

-----------------------------------------------------------------------------
Next ==
  \/ \E from, to \in Positions(doc) : SetSelection(from, to)
  \/ \E d \in Documents : SwitchDocument(d)
  \/ \E text \in Clips : OnSnippetAddClipboard(text)
  \/ OnSnippetAddSelection
  \/ \E after \in AfterTexts, replace, newdoc \in BOOLEAN :
       EditSnippet_OK(after, replace, newdoc)
  \/ EditSnippet_Cancel \/ OnSnippetDelete
  \/ \E mode \in EolModes : OnSnippetInsert(mode)

Spec == Init /\ [][Next]_vars

-----------------------------------------------------------------------------
TypeOK ==
  /\ doc \in Seq(Chars) /\ eol \in EolModes
  /\ start \in 0..end /\ end \in 0..Len(doc)
  /\ {dialog, snip} \subseteq
       [before : Seq(Chars), after : Seq(Chars), replace : BOOLEAN, newdoc : BOOLEAN,
        name : Seq(Chars)]
  /\ origin \in Seq(Chars)

(* A snippet is in the dialog or stored, not both, and is what the code made*)
(* of the text it comes from.                                               *)
IInv ==
  /\ TypeOK
  /\ dialog = NoSnippet \/ snip = NoSnippet
  /\ \A s \in {dialog, snip} :
       s # NoSnippet => s.before = ConvertLineEnding(origin, "CRLF")
  /\ dialog # NoSnippet => dialog.name = GuessName(dialog.before)

(* A text as lines, whatever ends them: every CR LF, CR and LF is one LF.   *)
LinesFrom(text) ==
  LET lines[i \in 1..Len(text) + 1] ==
        CASE i > Len(text) -> <<>>
          [] i \in 2..Len(text) /\ text[i] = LF /\ text[i - 1] = CR -> lines[i + 1]
          [] OTHER -> <<IF text[i] = CR THEN LF ELSE text[i]>> \o lines[i + 1]
  IN  lines

Lines(text) == LinesFrom(text)[1]

(* Every line ends as the mode says. *)
EndsIn(mode, text) ==
  \A i \in DOMAIN text :
    /\ text[i] = CR => CASE mode = "CRLF" -> i < Len(text) /\ text[i + 1] = LF
                         [] mode = "CR" -> TRUE
                         [] mode = "LF" -> FALSE
    /\ text[i] = LF => CASE mode = "CRLF" -> i > 1 /\ text[i - 1] = CR
                         [] mode = "CR" -> FALSE
                         [] mode = "LF" -> TRUE

(* A text that ends in a CR without LF, which the conversion leaves. *)
LoneCR(text) == text # <<>> /\ Last(text) = CR

(* A stored snippet has proper line endings, whatever it was made of, but   *)
(* for a CR at its very end (changelog 1.5.1: "Make sure to use the proper  *)
(* line endings when creating a snippet from selection or clipboard").      *)
StoredEndsAreProper ==
  \A s \in {dialog, snip} :
    EndsIn("CRLF", IF LoneCR(s.before) THEN Front(s.before) ELSE s.before)

(* A snippet says what it was made of: from the editor or the clipboard and *)
(* through both conversions no line is lost, split or joined.               *)
LinesSurvive ==
  [][OnSnippetInsert(eol') =>
       LET from == IF snip.newdoc THEN 0 ELSE start
       IN  Lines(SubSeq(doc', from + 1, start')) = Lines(origin)]_vars

(* A document with its own line endings only keeps them so when a snippet   *)
(* is inserted, but for a CR at the very end of a part of the snippet, and  *)
(* as long as the caret is not within a CR LF, where only such a CR puts it.*)
DocumentKeepsEnds ==
  [][( /\ OnSnippetInsert(eol')
       /\ StartsNew \/ (EndsIn(eol, doc) /\ {start, end} \subseteq Positions(doc))
       /\ ~LoneCR(snip.before) /\ ~LoneCR(snip.after))
     => EndsIn(eol', doc')]_vars

(* What was selected is selected again, or nothing if it was replaced, and  *)
(* all else of the document is still around it.                             *)
SelectionIsKept ==
  [][OnSnippetInsert(eol') /\ ~snip.newdoc =>
       /\ SubSeq(doc', start' + 1, end') = IF snip.replace THEN <<>> ELSE Selected
       /\ IsPrefix(SubSeq(doc, 1, start), doc')
       /\ IsSuffix(SubSeq(doc, end + 1, Len(doc)), doc')
       /\ start' >= start /\ Len(doc') - end' >= Len(doc) - end]_vars

(* The name proposed is on one line of the text, has something visible, and *)
(* is there whenever the text has (Snippet::GuessName).                     *)
NameIsALine ==
  dialog # NoSnippet =>
    /\ \A i \in DOMAIN dialog.name : dialog.name[i] \notin {CR, LF}
    /\ (\E i \in DOMAIN origin : origin[i] \in Visible) =>
         dialog.name # <<>> /\ dialog.name[1] \in Visible
    /\ \E i \in 0..Len(origin) : IsPrefix(dialog.name, SubSeq(origin, i + 1, Len(origin)))
=============================================================================
