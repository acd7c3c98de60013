--------------------------- MODULE MCImportExport ---------------------------
(* A database with a library of two snippets, and another file that is not *)
(* there, of schema 1, or another database.                                *)
EXTENDS ImportExport

Empty == [Library |-> {}, LibraryLang |-> {}, Snippets |-> {}, LangLastUsed |-> {}]

Lib(id) == [LibraryID |-> id, Name |-> 1, Alphabetic |-> FALSE]
Snip(id, lib, name) == [SnippetID |-> id, LibraryID |-> lib, Name |-> name, Sort |-> 1]

Own ==
  [Library |-> {Lib(1)},
   LibraryLang |-> {[LibraryID |-> 1, Lang |-> 0], [LibraryID |-> 1, Lang |-> 1]},
   Snippets |-> {Snip(1, 1, 3), Snip(2, 1, 2)},
   LangLastUsed |-> {[Lang |-> 0, LibraryID |-> 1]}]

(* Ids with a gap below them. *)
Other ==
  [Library |-> {Lib(2)}, LibraryLang |-> {[LibraryID |-> 2, Lang |-> -2]},
   Snippets |-> {Snip(2, 2, 1)}, LangLastUsed |-> {}]

Old == [Other EXCEPT !.LibraryLang = {}]

Disk(version, schema, db) ==
  [f \in Files |-> IF f = "own" THEN [version |-> 3, schema |-> "new", db |-> Own]
                   ELSE [version |-> version, schema |-> schema, db |-> db]]

MCDisks == {Disk(0, "none", Empty), Disk(1, "old", Old), Disk(3, "new", Other)}

(* Content 2 says what content 1 says, but "Use default" for the language of*)
(* the new document.                                                        *)
MCNormalText == [n \in {2} |-> 1]
=============================================================================
