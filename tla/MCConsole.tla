----------------------------- MODULE MCConsole -----------------------------
(* Small databases for the console: what the template ships (one library   *)
(* without a language of its own), and one with a choice of libraries.     *)
EXTENDS Console

Lib(id, name, alphabetic) == [LibraryID |-> id, Name |-> name, Alphabetic |-> alphabetic]
Snip(id, lib, name, sort) == [SnippetID |-> id, LibraryID |-> lib, Name |-> name, Sort |-> sort]
For(id, l) == [LibraryID |-> id, Lang |-> l]

(* misc/NppSnippets.sql *)
General ==
  [Library |-> {Lib(1, 1, TRUE)}, LibraryLang |-> {For(1, -1)},
   Snippets |-> {Snip(1, 1, 1, 0)}, LangLastUsed |-> {}]

(* A library for language 0 and one for all, as the provided ones are. *)
TwoLibraries ==
  [Library |-> {Lib(1, 1, FALSE), Lib(2, 1, TRUE)},
   LibraryLang |-> {For(1, 0), For(2, -2)},
   Snippets |-> {Snip(1, 1, 1, 1)}, LangLastUsed |-> {}]

(* One library ordered by the user. *)
OneLibrary ==
  [Library |-> {Lib(1, 1, FALSE)}, LibraryLang |-> {For(1, -2)},
   Snippets |-> {Snip(1, 1, 1, 1), Snip(2, 1, 2, 2)}, LangLastUsed |-> {}]

Templates_Any == {General, TwoLibraries}
Templates_Two == {TwoLibraries}
Templates_One == {OneLibrary}

NextName == [n \in SnipNames |-> IF n + 1 \in SnipNames THEN n + 1 ELSE n]

(* What may be refused where.  With CanCrash the process also ends between  *)
(* two writes; without it OnLibraryNew adds the language it has to add.     *)
LibraryWrites == {"SelChange", "SnippetEdit", "LibraryNew", "LibraryNewLang",
                  "LibraryEdit", "LibraryDelete", "LibraryLanguages"}
SnippetWrites == {"SnippetAdd", "SnippetDelete", "SnippetDuplicate", "SnippetMove"}

AllNames == {SnipNames}
NamesAndAll == {SnipNames, {1}}
=============================================================================
