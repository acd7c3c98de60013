---------------------------- MODULE MCInsertion ----------------------------
(* Every text of up to three characters on the clipboard, and documents    *)
(* with line endings of their own, of another kind, and of mixed kinds.    *)
EXTENDS Insertion

TextsUpTo(n) == UNION {[1..k -> {"a", CR, LF}] : k \in 0..n}

MCClips == (TextsUpTo(3) \cup {<<Blank, LF, "a", Blank, "a">>}) \ {<<>>}
MCAfterTexts == {<<>>, <<CR, LF, "a">>}

MCDocuments ==
  {[text |-> <<>>, eol |-> "LF"],
   [text |-> <<"a", CR, LF, "a">>, eol |-> "CRLF"],
   [text |-> <<"a", CR, "a", CR>>, eol |-> "CR"],
   [text |-> <<LF, "a">>, eol |-> "LF"],
   [text |-> <<CR, "a", LF>>, eol |-> "CRLF"]}
=============================================================================
