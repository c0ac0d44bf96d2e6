-------------------------------- MODULE Lsp --------------------------------
(***************************************************************************)
(* The messages on the Helix <-> Lean pipe as far as lean-helix-view tells *)
(* them apart (lhv-lsp/src/envelope.rs), and the ids it injects            *)
(* (lhv-proxy/src/query.rs).  Bodies are abstracted to the fields the      *)
(* proxy reads.  Every message carries the number n its sender gave it, a  *)
(* name for its bytes: the proxy copies messages and never rewrites one.   *)
(***************************************************************************)
EXTENDS Naturals, Sequences

CONSTANTS Uri,        \* documents
          Position,   \* cursor positions
          Line,       \* the line of each
          None        \* an absent field

Kinds == {"goal", "term"}

\* The id "lhv-q<generation><tag>" of an injected query.
InjectedId == [gen : Nat, kind : Kinds]

\* Ids of Helix's and Lean's own messages: a number, or a string of theirs.
ForeignId == [gen : {0}, kind : {"num", "str"}]
Foreign(kind) == [gen |-> 0, kind |-> kind]

Id == InjectedId \cup ForeignId
IsStr(id) == id.kind # "num"

ClientMethods == {"initialize", "initialized", "didOpen", "didClose",
                  "didChange", "hover", "other"}

\* A message of Helix.  A position is always one in a document.
ClientFrame == {f \in [from     : {"helix"},
                       n        : Nat \ {0},
                       method   : ClientMethods,
                       uri      : Uri \cup {None},
                       version  : Nat \cup {None},
                       position : Position \cup {None}] :
                  f.position # None => f.uri \in Uri}

\* An injected $/lean/plainGoal or $/lean/plainTermGoal request.  cause is the
\* number of the client message whose cursor it asks about.
QueryFrame == [from     : {"proxy"},
               id       : InjectedId,
               uri      : Uri,
               position : Position,
               cause    : Nat \ {0}]

Answers == {"text", "empty", "null", "error"}

Notices == {"diagnostics", "progress"}

ASSUME NoneIsNoValue ==
  None \notin Uri \cup Position \cup Nat \cup Id \cup Answers \cup Notices

ASSUME LineAssumption == Line \in [Position -> Nat]

\* A range, by its first and its last line.
LineRange == [start : Nat, end : Nat]

\* The document state a goal text was computed from.
Text == [uri : Uri, version : Nat, position : Position]

ServerFrame == [n      : Nat \ {0},
                id     : Id \cup {None},
                method : Notices \cup {"request", None},
                uri    : Uri \cup {None},
                ranges : SUBSET LineRange,              \* progress: what is processing
                answer : Answers \cup {None},
                text   : Text \cup {None}]

ASSUME NoneIsNoFrame == None \notin ClientFrame \cup ServerFrame

\* Envelope::is_response: an id and no method.
IsResponse(f) == f.id # None /\ f.method = None
============================================================================
