------------------------------ MODULE Forward ------------------------------
(***************************************************************************)
(* The forwarder (lhv-proxy/src/forward.rs) between an LSP client and Lean:*)
(* two pumps, two writers, the snoop task with its querier, the registry   *)
(* of injected ids and the snapshot.  Helix and Lean are environments.  An *)
(* OS pipe is merged with the step that reads it: a process emits a        *)
(* message when the proxy reads it, and reads one when the proxy writes it.*)
(***************************************************************************)
EXTENDS Snoop, SequencesExt

CONSTANTS MaxClient,      \* messages Helix writes
          MaxLean,        \* messages Lean writes of its own accord
          ClientSays,     \* methods Helix uses once the session is open
          LeanSays,       \* methods of Lean's own messages
          LeanRanges,     \* the ranges a progress may report, as sets
          LeanReplies,    \* client methods Lean replies to
          LeanAnswers     \* outcomes of an injected query

ASSUME ForwardAssumption ==
  /\ MaxClient \in Nat /\ MaxLean \in Nat
  /\ ClientSays \subseteq {"didOpen", "didClose", "didChange", "hover", "other"}
  /\ LeanSays \subseteq {"diagnostics", "progress", "request"}
  /\ LeanRanges \subseteq SUBSET LineRange
  /\ LeanReplies \subseteq {"initialize", "hover", "other"}
  /\ LeanAnswers \subseteq Answers

VARIABLES
  editor,       \* Helix: handshake phase and open documents
  sent,         \* number of messages Helix has written
  c2s,          \* the frame pump_c2s holds, or None
  s2c,          \* the frame pump_s2c holds, or None
  toHelix,      \* frames queued for the Helix-stdout writer
  helixGot,     \* history: the frames Helix has received
  leanDocs,     \* Lean: open documents
  leanReqs,     \* Lean: client requests it has not replied to
  leanQueries,  \* Lean: injected queries it has not answered
  leanGot,      \* history: the client frames Lean has received
  leanCount,    \* number of messages Lean has written
  asked,        \* history: focus and accepted kinds of the newest generation
  filled,       \* history: generation of the last answer shown, per kind
  consumed,     \* history: numbers of Lean's frames kept from Helix
  missed        \* history: numbers of Helix's frames the snoop did not see

helixVars == <<editor, sent>>
leanVars  == <<leanDocs, leanReqs, leanQueries, leanGot, leanCount>>
snoopVars == <<snoopQ, snoop, pending, rootSent>>
queryVars == <<toLean, generation, outstanding>>
vars == <<snapshot, queryVars, snoopVars, helixVars, leanVars, c2s, s2c,
          toHelix, helixGot, asked, filled, consumed, missed>>

Init ==
  /\ StateInit /\ QueryInit /\ SnoopInit
  /\ editor = [phase |-> "start", docs |-> [u \in Uri |-> None]]
  /\ sent = 0
  /\ c2s = None /\ s2c = None
  /\ toHelix = <<>> /\ helixGot = <<>>
  /\ leanDocs = [u \in Uri |-> None]
  /\ leanReqs = {} /\ leanQueries = {}
  /\ leanGot = <<>> /\ leanCount = 0
  /\ asked = [focus |-> None, kinds |-> {}]
  /\ filled = [k \in Kinds |-> 0]
  /\ consumed = {} /\ missed = {}

----------------------------------------------------------------------------
(* Client to server. *)

\* The handshake, and the messages a client may send in an open session.
Legal(m, u, p) ==
  CASE m = "initialize"  -> editor.phase = "start" /\ u = None /\ p = None
    [] m = "initialized" -> editor.phase = "answered" /\ u = None /\ p = None
    [] OTHER -> /\ editor.phase = "open" /\ m \in ClientSays
                /\ \/ m = "didOpen" /\ u \in Uri /\ editor.docs[u] = None /\ p = None
                   \/ m = "didClose" /\ u \in Uri /\ editor.docs[u] # None /\ p = None
                   \/ m = "didChange" /\ u \in Uri /\ editor.docs[u] # None
                   \/ m = "hover" /\ u \in Uri /\ editor.docs[u] # None /\ p # None
                   \/ m = "other" /\ u = None /\ p = None

EditorAfter(m, u) ==
  CASE m = "initialize"  -> [editor EXCEPT !.phase = "waiting"]
    [] m = "initialized" -> [editor EXCEPT !.phase = "open"]
    [] m = "didOpen"     -> [editor EXCEPT !.docs[u] = 0]
    [] m = "didChange"   -> [editor EXCEPT !.docs[u] = @ + 1]
    [] m = "didClose"    -> [editor EXCEPT !.docs[u] = None]
    [] OTHER             -> editor

Read(m, u, p) ==
  [from |-> "helix", n |-> sent + 1, method |-> m, uri |-> u,
   version |-> IF m \in {"didOpen", "didChange"} THEN EditorAfter(m, u).docs[u]
               ELSE None,
   position |-> p]

\* A slip: the snoop gets the copy before the message is forwarded.
C2sReadCopies(m, u, p) ==
  /\ c2s = None /\ sent < MaxClient /\ Legal(m, u, p)
  /\ editor' = EditorAfter(m, u) /\ sent' = sent + 1
  /\ c2s' = Read(m, u, p)
  /\ snoopQ' = Append(snoopQ, Read(m, u, p))
  /\ UNCHANGED <<snapshot, queryVars, snoop, pending, rootSent, leanVars, s2c,
                 toHelix, helixGot, asked, filled, consumed, missed>>

\* pump_c2s reads a message Helix wrote.
C2sRead(m, u, p) ==
  /\ c2s = None
  /\ sent < MaxClient
  /\ Legal(m, u, p)
  /\ editor' = EditorAfter(m, u)
  /\ sent' = sent + 1
  /\ c2s' = Read(m, u, p)
  /\ UNCHANGED <<snapshot, queryVars, snoopVars, leanVars, s2c, toHelix,
                 helixGot, asked, filled, consumed, missed>>

\* What C2sForward leaves alone.
c2sFrame == <<snapshot, generation, outstanding, snoop, pending, rootSent,
              helixVars, leanVars, s2c, toHelix, helixGot, asked, filled, consumed>>

\* Slips: a full queue drops the message; a slow snoop holds it up; the copies
\* are not bounded.
C2sForwardTries ==
  /\ c2s # None /\ c2s' = None
  /\ IF Len(toLean) < SinkCapacity THEN toLean' = Append(toLean, c2s)
                                   ELSE UNCHANGED toLean
  /\ UNCHANGED <<snoopQ, missed, c2sFrame>>
C2sForwardWaits ==
  /\ c2s # None /\ c2s' = None
  /\ Len(toLean) < SinkCapacity /\ toLean' = Append(toLean, c2s)
  /\ Len(snoopQ) < SnoopCapacity /\ snoopQ' = Append(snoopQ, c2s)
  /\ UNCHANGED <<missed, c2sFrame>>
C2sForwardUnbounded ==
  /\ c2s # None /\ c2s' = None
  /\ Len(toLean) < SinkCapacity /\ toLean' = Append(toLean, c2s)
  /\ snoopQ' = Append(snoopQ, c2s)
  /\ UNCHANGED <<missed, c2sFrame>>

\* Then it queues it for Lean, once there is room, and tries to queue a copy
\* for the snoop, which is dropped when the snoop is behind.
C2sForward ==
  /\ c2s # None
  /\ Len(toLean) < SinkCapacity
  /\ toLean' = Append(toLean, c2s)
  /\ IF Len(snoopQ) < SnoopCapacity
     THEN snoopQ' = Append(snoopQ, c2s) /\ UNCHANGED missed
     ELSE missed' = missed \cup {c2s.n} /\ UNCHANGED snoopQ
  /\ c2s' = None
  /\ UNCHANGED c2sFrame

SnoopObserve ==
  /\ SnoopRecv
  /\ UNCHANGED <<snapshot, queryVars, helixVars, leanVars, c2s, s2c, toHelix,
                 helixGot, asked, filled, consumed, missed>>

\* The slots try_send may use: when pump_c2s waits in send, the queue hands it
\* the next free slot before it runs.
Rooms == LET free == SinkCapacity - Len(toLean)
         IN  IF c2s = None THEN {free} ELSE {free, free - 1}

DebounceFires ==
  /\ \E room \in Rooms :
       /\ SnoopFire(room)
       /\ asked' = [focus |-> pending, kinds |-> AcceptedKinds(room)]
  /\ UNCHANGED <<snapshot, helixVars, leanVars, c2s, s2c, toHelix, helixGot,
                 filled, consumed, missed>>

\* What Lean makes of a client message.
LeanReads(f) ==
  /\ leanGot' = Append(leanGot, f)
  /\ leanDocs' = CASE f.method \in {"didOpen", "didChange"} ->
                        [leanDocs EXCEPT ![f.uri] = f.version]
                   [] f.method = "didClose" -> [leanDocs EXCEPT ![f.uri] = None]
                   [] OTHER -> leanDocs
  /\ leanReqs' = IF f.method \in LeanReplies THEN leanReqs \cup {f} ELSE leanReqs
  /\ UNCHANGED leanQueries

\* It computes an injected query from the document as it stands on arrival.
LeanReadsQuery(q) ==
  /\ leanQueries' = leanQueries \cup
       {[id |-> q.id, uri |-> q.uri, position |-> q.position,
         cause |-> q.cause, version |-> leanDocs[q.uri]]}
  /\ UNCHANGED <<leanGot, leanDocs, leanReqs>>

LeanWriter ==
  /\ toLean # <<>>
  /\ LET f == Head(toLean) IN
       \/ f.from = "helix" /\ LeanReads(f)
       \/ f.from = "proxy" /\ LeanReadsQuery(f)
  /\ toLean' = Tail(toLean)
  /\ UNCHANGED <<snapshot, generation, outstanding, snoopVars, helixVars,
                 leanCount, c2s, s2c, toHelix, helixGot, asked, filled,
                 consumed, missed>>

----------------------------------------------------------------------------
(* Server to client. *)

\* A slip: the generation is not checked.
S2cConsumeUnchecked(f, p) ==
  /\ outstanding' = outstanding \ {p}
  /\ HandleInjectedResponse(p, f)
  /\ filled' = [filled EXCEPT ![p.id.kind] = p.id.gen]
  /\ consumed' = consumed \cup {f.n}
  /\ UNCHANGED s2c

\* A response to a registered id is consumed: shown when its generation is the
\* latest, dropped otherwise.
S2cConsume(f, p) ==
  /\ outstanding' = outstanding \ {p}
  /\ IF p.id.gen = generation
     THEN /\ HandleInjectedResponse(p, f)
          /\ filled' = [filled EXCEPT ![p.id.kind] = p.id.gen]
     ELSE UNCHANGED <<snapshot, filled>>
  /\ consumed' = consumed \cup {f.n}
  /\ UNCHANGED s2c

\* Every other frame is held until there is room toward Helix.
S2cHold(f) ==
  /\ s2c' = f
  /\ UNCHANGED <<outstanding, snapshot, filled, consumed>>

\* A slip: only current answers count as ours.
OursIfCurrent(f) ==
  IF IsResponse(f) /\ IsStr(f.id)
  THEN {p \in Matches(f.id) : p.id.gen = generation} ELSE {}

Ours(f) == IF IsResponse(f) /\ IsStr(f.id) THEN Matches(f.id) ELSE {}

\* pump_s2c reads a message Lean wrote.
S2cRead(f) ==
  /\ s2c = None
  /\ leanCount' = leanCount + 1
  /\ \/ \E p \in Ours(f) : S2cConsume(f, p)
     \/ Ours(f) = {} /\ S2cHold(f)
  /\ UNCHANGED <<toLean, generation, snoopVars, helixVars, leanDocs, leanGot,
                 c2s, toHelix, helixGot, asked, missed>>

Message(id, method, uri, ranges) ==
  [n |-> leanCount + 1, id |-> id, method |-> method, uri |-> uri,
   ranges |-> ranges, answer |-> None, text |-> None]

\* Lean answers an injected query: with an error, always, when the document
\* was not open.
LeanAnswersQuery(q, answer) ==
  /\ answer \in LeanAnswers \cup {"error"}
  /\ q.version = None => answer = "error"
  /\ answer = "empty" => q.id.kind = "goal"
  /\ leanQueries' = leanQueries \ {q}
  /\ S2cRead([Message(q.id, None, None, {}) EXCEPT
       !.answer = answer,
       !.text = IF answer = "text"
                THEN [uri |-> q.uri, version |-> q.version, position |-> q.position]
                ELSE None])
  /\ UNCHANGED leanReqs

\* Helix numbers its requests; another client may name them by strings.
LeanRepliesTo(r, idKind) ==
  /\ leanReqs' = leanReqs \ {r}
  /\ S2cRead(Message(Foreign(idKind), None, None, {}))
  /\ UNCHANGED leanQueries

LeanNotifies(method, u, ranges) ==
  /\ leanCount < MaxLean
  /\ leanDocs[u] # None
  /\ ranges # {} => method = "progress"
  /\ S2cRead(Message(None, method, u, ranges))
  /\ UNCHANGED <<leanQueries, leanReqs>>

\* A request of Lean's own (registering a watcher), once it is initialized.
LeanRequests ==
  /\ leanCount < MaxLean
  /\ "request" \in LeanSays
  /\ \E i \in DOMAIN leanGot : leanGot[i].method = "initialized"
  /\ S2cRead(Message(Foreign("str"), "request", None, {}))
  /\ UNCHANGED <<leanQueries, leanReqs>>

\* A slip: a full queue drops the frame.
S2cForwardTries ==
  /\ s2c # None /\ s2c' = None
  /\ IF Len(toHelix) < SinkCapacity THEN toHelix' = Append(toHelix, s2c)
                                    ELSE UNCHANGED toHelix
  /\ TeeTarget(s2c)
  /\ UNCHANGED <<queryVars, snoopVars, helixVars, leanVars, c2s, helixGot,
                 asked, filled, consumed, missed>>

\* The held frame is queued, and only then is its copy folded into the state.
S2cForward ==
  /\ s2c # None
  /\ Len(toHelix) < SinkCapacity
  /\ toHelix' = Append(toHelix, s2c)
  /\ TeeTarget(s2c)
  /\ s2c' = None
  /\ UNCHANGED <<queryVars, snoopVars, helixVars, leanVars, c2s, helixGot,
                 asked, filled, consumed, missed>>

\* Helix gets a frame; a reply during the handshake is the one it waits for.
HelixWriter ==
  /\ toHelix # <<>>
  /\ helixGot' = Append(helixGot, Head(toHelix))
  /\ toHelix' = Tail(toHelix)
  /\ editor' = IF editor.phase = "waiting" /\ IsResponse(Head(toHelix))
               THEN [editor EXCEPT !.phase = "answered"] ELSE editor
  /\ UNCHANGED <<snapshot, queryVars, snoopVars, sent, leanVars, c2s, s2c,
                 asked, filled, consumed, missed>>

----------------------------------------------------------------------------
HelixSpeaks == \E m \in ClientMethods, u \in Uri \cup {None},
                  p \in Position \cup {None} : C2sRead(m, u, p)
QueryAnswered == \E q \in leanQueries, a \in Answers : LeanAnswersQuery(q, a)
RequestReplied == \E r \in leanReqs, k \in {"num", "str"} : LeanRepliesTo(r, k)
LeanSpeaks == \/ \E m \in LeanSays \ {"request"}, u \in Uri, r \in LeanRanges \cup {{}} :
                    LeanNotifies(m, u, r)
              \/ LeanRequests

Next == \/ HelixSpeaks \/ C2sForward \/ SnoopObserve \/ DebounceFires
        \/ LeanWriter \/ QueryAnswered \/ RequestReplied \/ LeanSpeaks
        \/ S2cForward \/ HelixWriter

Spec == Init /\ [][Next]_vars
============================================================================
