------------------------------- MODULE Query -------------------------------
(***************************************************************************)
(* The goal querier (lhv-proxy/src/query.rs): the registry of injected     *)
(* ids, the focus generation, and the two queries of a focus, put on the   *)
(* one queue toward Lean's stdin with try_send.                            *)
(***************************************************************************)
EXTENDS State, Integers

CONSTANT SinkCapacity     \* slots of the queue toward Lean, and toward Helix
ASSUME SinkAssumption == SinkCapacity \in Nat \ {0}

VARIABLES toLean,         \* frames queued for the Lean-stdin writer
          generation,     \* Outstanding.generation
          outstanding     \* Outstanding.map: the Pending of every issued id

Focus == [uri : Uri, version : Nat, position : Position, cause : Nat \ {0}]
ASSUME NoneIsNoFocus == None \notin Focus \cup DocRef

Pending == [id : InjectedId, doc : DocRef, position : Position]

QueryInit == /\ toLean = <<>>
             /\ generation = 0
             /\ outstanding = {}

IdOf(gen, kind) == [gen |-> gen, kind |-> kind]

PendingOf(focus, gen, kind) ==
  [id |-> IdOf(gen, kind),
   doc |-> [uri |-> focus.uri, version |-> focus.version],
   position |-> focus.position]

QueryFor(focus, gen, kind) ==
  [from |-> "proxy", id |-> IdOf(gen, kind), uri |-> focus.uri,
   position |-> focus.position, cause |-> focus.cause]

\* request tries PlainGoal first: with one free slot only that one gets in.
Queries(focus, gen, room) ==
  CASE room <= 0 -> <<>>
    [] room = 1  -> <<QueryFor(focus, gen, "goal")>>
    [] OTHER     -> <<QueryFor(focus, gen, "goal"), QueryFor(focus, gen, "term")>>
AcceptedKinds(room) == {k \in Kinds : room > 1 \/ (room = 1 /\ k = "goal")}

\* Slips: a refused query stays registered; a refusal unregisters both.
RegisteredForGood(focus, gen, room) ==
  outstanding \cup {PendingOf(focus, gen, k) : k \in Kinds}
RegisteredBothOrNone(focus, gen, room) ==
  outstanding \cup {PendingOf(focus, gen, k) :
                       k \in {j \in Kinds : AcceptedKinds(room) = Kinds}}

\* What is left of the registry when both queries of a generation have been
\* registered and the refused ones taken out again.
Registered(focus, gen, room) ==
  (outstanding \cup {PendingOf(focus, gen, k) : k \in Kinds})
    \ {PendingOf(focus, gen, k) : k \in Kinds \ AcceptedKinds(room)}

\* Querier::request, with room free slots in the queue.  No await separates
\* its steps, so it is one action.
Request(focus, room) ==
  LET gen == generation + 1 IN
  /\ generation' = gen
  /\ outstanding' = Registered(focus, gen, room)
  /\ toLean' = toLean \o Queries(focus, gen, room)

\* The registry's entries under an id: one or none.
Matches(id) == {p \in outstanding : p.id = id}

\* handle_injected_response: an error object has no result, and is folded in
\* like the null result of a position outside tactic blocks.
HandleInjectedResponse(p, f) ==
  LET at == [snapshot EXCEPT !.doc = p.doc, !.position = p.position] IN
  \/ /\ p.id.kind = "goal"
     /\ Update([at EXCEPT !.inTactic = f.answer \in {"text", "empty"},
                          !.goals = IF f.answer = "text" THEN f.text ELSE None])
  \/ /\ p.id.kind = "term"
     /\ Update([at EXCEPT !.termGoal = IF f.answer = "text" THEN f.text ELSE None])
============================================================================
