----------------------------- MODULE MCUpgrade -----------------------------
(* Every file of schema 1 and 2 with two libraries, up to two languages and *)
(* up to two snippets, and a file of schema 3, a newer and an empty one.    *)
EXTENDS Upgrade

MCLangs == {0, 1}

(* A language has at most one last used library. *)
OnePerLang(rows) == \A a, b \in rows : a.Lang = b.Lang /\ a.LastUsed /\ b.LastUsed => a = b

(* Two rows may hold the same snippet; rowids have gaps. *)
MCSnippets ==
  {{}, {[row |-> 2, LibraryID |-> 1, Name |-> 1]}} \cup
  {{[row |-> 1, LibraryID |-> 1, Name |-> 1], [row |-> 3, LibraryID |-> l, Name |-> 1]} : l \in {1, 2}}

Used(lib) == {[LibraryID |-> lib, Lang |-> l, LastUsed |-> u] : l \in MCLangs, u \in BOOLEAN}

Version1 ==
  {[version |-> 1, schema |-> Schema1, Library |-> {a, b}, LibraryLang |-> {},
    Snippets |-> s, LangLastUsed |-> {}] :
     <<a, b, s>> \in {<<a, b, s>> \in Used(1) \X Used(2) \X MCSnippets : OnePerLang({a, b})}}

Version2 ==
  {[version |-> 2, schema |-> Schema2, Library |-> {[LibraryID |-> 1], [LibraryID |-> 2]},
    LibraryLang |-> ll, Snippets |-> {}, LangLastUsed |-> {}] :
     ll \in {r \in SUBSET (Used(1) \cup Used(2)) :
               /\ OnePerLang(r)
               /\ \A a, b \in r : a.LibraryID = b.LibraryID /\ a.Lang = b.Lang => a = b}}

Version(v, schema) ==
  [version |-> v, schema |-> schema, Library |-> {}, LibraryLang |-> {}, Snippets |-> {},
   LangLastUsed |-> {}]

MCFiles == Version1 \cup Version2 \cup
           {Version(0, {}), Version(3, Schema3), Version(4, Schema3)}
=============================================================================
