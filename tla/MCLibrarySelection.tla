------------------------ MODULE MCLibrarySelection ------------------------
(* Queries of up to three rows: every mix of own languages and "All", every *)
(* order, and every library, or none, as the last used one.                 *)
EXTENDS LibrarySelection

MCLibrary == [id \in LibraryIDs |->
                [LibraryID |-> id, Name |-> 1, Alphabetic |-> TRUE]]

(* A library appears once per language the query asks for; Lang 0 is the   *)
(* document's language, or -1 in the query for the libraries without one.  *)
MCRows == {[lib |-> MCLibrary[id], Lang |-> l] : id \in LibraryIDs, l \in {0, -1, -2}}

MCQueries ==
  {q \in UNION {[1..n -> MCRows] : n \in 0..4} :
     /\ \A i, j \in DOMAIN q : i # j => q[i] # q[j]
     /\ \A i, j \in DOMAIN q : q[i].Lang + q[j].Lang # -1}

MCLastUsedIDs == LibraryIDs \cup {-1}
=============================================================================
