----------------------------- MODULE Collection -----------------------------
(***************************************************************************)
(* What the snippets console promises its user, whatever it does with      *)
(* windows, objects and tables: the libraries and snippets change only     *)
(* when a request is carried out, a request changes the one thing its      *)
(* dialog named, and a snippet is always in a library that exists.         *)
(***************************************************************************)
EXTENDS Naturals

CONSTANTS
  LibraryIDs,
  SnippetIDs,
  SnipNames,
  Commands,     \* the commands that put a question to the user
  NoRequest

VARIABLES
  libraries,    \* ids of the libraries
  snippets,     \* the snippets, each with its id, its library and its name
  request       \* the open dialog: its command and the id of what it is about

vars == <<libraries, snippets, request>>

Init ==
  /\ libraries \subseteq LibraryIDs
  /\ snippets \subseteq [SnippetID : SnippetIDs, LibraryID : libraries, Name : SnipNames]
  /\ request = NoRequest

Asked(command) == request # NoRequest /\ request.command = command

Ask ==
  /\ request = NoRequest
  /\ request' \in [command : Commands, target : {0} \cup LibraryIDs \cup SnippetIDs]
  /\ UNCHANGED <<libraries, snippets>>

(* Cancelled, or carried out without an effect on the collection. *)
Withdraw ==
  /\ request # NoRequest
  /\ request' = NoRequest
  /\ UNCHANGED <<libraries, snippets>>

Unused(id) == \A s \in snippets : s.SnippetID # id

AddTo(library) ==
  \E id \in SnippetIDs, n \in SnipNames :
    /\ Unused(id)
    /\ snippets' = snippets \cup {[SnippetID |-> id, LibraryID |-> library, Name |-> n]}

AddSnippet ==
  /\ Asked("SnippetAdd")
  /\ request.target \in libraries
  /\ AddTo(request.target)
  /\ UNCHANGED libraries

DuplicateSnippet ==
  /\ Asked("SnippetDuplicate")
  /\ \E s \in snippets : s.SnippetID = request.target /\ AddTo(s.LibraryID)
  /\ UNCHANGED libraries

EditSnippet ==
  /\ Asked("SnippetEdit")
  /\ \E s \in snippets, n \in SnipNames :
       /\ s.SnippetID = request.target
       /\ snippets' = (snippets \ {s}) \cup {[s EXCEPT !.Name = n]}
  /\ UNCHANGED libraries

DeleteSnippet ==
  /\ Asked("SnippetDelete")
  /\ snippets' = {s \in snippets : s.SnippetID # request.target}
  /\ UNCHANGED libraries

NewLibrary ==
  /\ Asked("LibraryNew")
  /\ \E id \in LibraryIDs \ libraries : libraries' = libraries \cup {id}
  /\ UNCHANGED snippets

DeleteLibrary ==
  /\ Asked("LibraryDelete")
  /\ libraries' = libraries \ {request.target}
  /\ snippets' = {s \in snippets : s.LibraryID # request.target}

CarryOut ==
  /\ \/ AddSnippet \/ DuplicateSnippet \/ EditSnippet \/ DeleteSnippet
     \/ NewLibrary \/ DeleteLibrary
  /\ request' = NoRequest

Next == Ask \/ Withdraw \/ CarryOut

Spec == Init /\ [][Next]_vars
=============================================================================
