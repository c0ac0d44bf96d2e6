------------------------- MODULE ForwardProperties -------------------------
(***************************************************************************)
(* What is checked, and partly proved, of Forward.                         *)
(***************************************************************************)
EXTENDS Forward, Render

\* Each variable has its type: the channels hold frames within their
\* capacity, the registry Pendings, the snapshot its fields.
LeanQuery == [id : InjectedId, uri : Uri, position : Position,
              cause : Nat \ {0}, version : Nat \cup {None}]

TypeOK ==
  /\ snapshot \in Snapshot
  /\ toLean \in Seq(ClientFrame \cup QueryFrame) /\ Len(toLean) <= SinkCapacity
  /\ generation \in Nat
  /\ outstanding \subseteq Pending
  /\ snoopQ \in Seq(ClientFrame) /\ Len(snoopQ) <= SnoopCapacity
  /\ snoop \in SnoopState
  /\ pending \in Focus \cup {None}
  /\ rootSent \in BOOLEAN
  /\ editor \in [phase : {"start", "waiting", "answered", "open"},
                 docs : [Uri -> Nat \cup {None}]]
  /\ sent \in Nat
  /\ c2s \in ClientFrame \cup {None}
  /\ s2c \in ServerFrame \cup {None}
  /\ toHelix \in Seq(ServerFrame) /\ Len(toHelix) <= SinkCapacity
  /\ helixGot \in Seq(ServerFrame)
  /\ leanDocs \in [Uri -> Nat \cup {None}]
  /\ leanReqs \subseteq ClientFrame
  /\ leanQueries \subseteq LeanQuery
  /\ leanGot \in Seq(ClientFrame)
  /\ leanCount \in Nat
  /\ asked \in [focus : Focus \cup {None}, kinds : SUBSET Kinds]
  /\ filled \in [Kinds -> Nat]
  /\ consumed \subseteq Nat
  /\ missed \subseteq Nat

----------------------------------------------------------------------------
(* The transparent pipe. *)

NumbersOf(frames) == [i \in DOMAIN frames |-> frames[i].n]

ToLean == INSTANCE Pipe WITH written <- sent, withheld <- {},
                             got <- NumbersOf(leanGot)
ToHelix == INSTANCE Pipe WITH written <- leanCount, withheld <- consumed,
                              got <- NumbersOf(helixGot)

\* Every message of Helix reaches Lean once, in order, whatever is injected
\* between them (forward.rs, invariants 1 to 3).
ToLeanIsAPipe == ToLean!Spec

\* Every message of Lean reaches Helix once, in order, unless consumed.
ToHelixIsAPipe == ToHelix!Spec

\* Lean's answers to injected queries are consumed, current or superseded, and
\* no other message of Lean is (forward.rs, the headline invariant).
WithholdsExactlyAnswers ==
  [][(leanQueries \ leanQueries' # {}) <=> (consumed' # consumed)]_vars

\* The registry holds exactly the ids on their way to Lean or in Lean's hands:
\* none is forgotten while its answer may come, none lingers once refused or
\* answered (query.rs, request and Outstanding).
Injected == {f \in ToSet(toLean) : f.from = "proxy"}
InFlight == {f.id : f \in Injected} \cup {q.id : q \in leanQueries}
RegistryExact == {p.id : p \in outstanding} = InFlight

\* Why: an id is in one place only, belongs to a generation already opened,
\* and what is registered for the newest one has not been shown yet.
IdsOnce ==
  /\ \A i, j \in DOMAIN toLean :
       /\ toLean[i].from = "proxy" /\ toLean[j].from = "proxy"
       /\ toLean[i].id = toLean[j].id
       => i = j
  /\ \A i \in DOMAIN toLean, q \in leanQueries :
       toLean[i].from = "proxy" => toLean[i].id # q.id
  /\ \A q, r \in leanQueries : q.id = r.id => q = r
  /\ \A p, r \in outstanding : p.id = r.id => p = r
NotShownYet ==
  /\ \A k \in Kinds : filled[k] <= generation
  /\ \A p \in outstanding :
       /\ p.id.gen <= generation
       /\ p.id.gen = generation => filled[p.id.kind] < generation
ConsumeInv == /\ RegistryExact /\ IdsOnce /\ NotShownYet
              /\ \A n \in consumed : n <= leanCount

----------------------------------------------------------------------------
(* The goals shown. *)

Goals == INSTANCE GoalView WITH Kind <- Kinds, latest <- generation, shown <- filled

\* Only the most recent focus renders: an answer is shown only if no focus was
\* asked about after its own (query.rs, supersession).
OnlyLatestRenders == Goals!Spec

\* What Helix has written, as far as the queue toward Lean.
ClientFrames == ToSet(leanGot) \cup {f \in ToSet(toLean) : f.from = "helix"}

\* Once both queries of the newest focus are accepted and answered, every pane
\* of the viewer speaks of that focus and of no earlier one, and of no older
\* text than the cursor was in, unless a document was reopened with its
\* versions starting anew (query.rs, handle_injected_response).
Settled == asked.kinds = Kinds /\ \A p \in outstanding : p.id.gen # generation
NeverClosed == \A f \in ClientFrames : f.method # "didClose"
SettledCoherent ==
  LET focus == asked.focus
      goals == GoalsPane(snapshot, "waiting")
  IN  Settled =>
        /\ StatusLine(snapshot) = [uri |-> focus.uri, position |-> focus.position]
        /\ snapshot.doc.version = focus.version
        /\ goals.says \notin {"help", "waiting for goals"}
        /\ \A text \in {goals.text, ExpectedPane(snapshot)} \ {None} :
             /\ text.uri = focus.uri /\ text.position = focus.position
             /\ NeverClosed => text.version >= focus.version

\* Debouncing loses no cursor for good: when no copy was dropped and the snoop
\* has caught up, the last focus asked about is Helix's last cursor.
IsCursor(f) == f.position # None /\ f.method \in Triggers \cup {"didChange"}
Cursors == {f.n : f \in {g \in ClientFrames : IsCursor(g)}}
CaughtUp == missed = {} /\ c2s = None /\ snoopQ = <<>>
LastCursorAsked ==
  CaughtUp /\ pending = None /\ Cursors # {} =>
    /\ asked.focus # None
    /\ asked.focus.cause \in Cursors
    /\ \A n \in Cursors : n <= asked.focus.cause

\* When no copy was dropped and the snoop has caught up, its session is the
\* editor's: handshake, open documents and versions.
SnoopTracksEditor ==
  CaughtUp => /\ snoop.docs = editor.docs
              /\ snoop.initialized <=> editor.phase = "open"

\* Lean never sees an injected query before the message whose cursor it asks
\* about, so it never computes goals in a text older than the cursor: the
\* forward comes before the copy (forward.rs, pump_c2s).
QueryAfterCause == \A q \in leanQueries : q.cause <= Len(leanGot)

----------------------------------------------------------------------------
(* The copied notifications. *)

Forwarded == helixGot \o toHelix
Newest(method, u) ==
  LET ns == {f.n : f \in {g \in ToSet(Forwarded) : g.method = method /\ g.uri = u}}
  IN  IF ns = {} THEN 0 ELSE CHOOSE n \in ns : \A m \in ns : m <= n

\* The viewer's diagnostics of a document are the last ones queued to Helix:
\* never ahead of the editor, never behind it (tee.rs and pump_s2c).
DiagnosticsAgree == \A u \in Uri : snapshot.diagnostics[u] = Newest("diagnostics", u)

\* The ranges of the last progress queued to Helix.
LastProgress ==
  LET at == {i \in DOMAIN Forwarded : Forwarded[i].method = "progress"}
  IN  IF at = {} THEN {} ELSE Forwarded[CHOOSE i \in at : \A j \in at : j <= i].ranges

\* Lean is still at work on the line of the focus shown, as far as these say.
AtWorkOnFocus(ranges) ==
  snapshot.doc # None /\ \E r \in ranges : Line[snapshot.position] \in r.start .. r.end

\* The viewer says "elaborating" exactly while the last progress queued to Helix
\* has ranges left, and marks the goals as maybe stale exactly while one of them
\* holds the line of the focus, through whatever answers come in between
\* (apply_progress, focus_is_elaborating).  It is the last progress of any
\* document: of two that elaborate only the one reported last counts.
StaleMarked ==
  /\ ProgressPane(snapshot) = IF LastProgress = {} THEN "idle" ELSE "elaborating"
  /\ GoalsPane(snapshot, "connected").stale <=> AtWorkOnFocus(LastProgress)

----------------------------------------------------------------------------
(* Liveness.  The pipe's fairness asks nothing of the snoop task. *)

PipeFairness == /\ WF_vars(C2sForward) /\ WF_vars(LeanWriter)
                /\ WF_vars(S2cForward) /\ WF_vars(HelixWriter)
PipeSpec == Spec /\ PipeFairness

\* A message Helix wrote reaches Lean though the snoop may have stopped.
HelixReachesLean == \A n \in 1 .. MaxClient : sent >= n ~> Len(leanGot) >= n

\* A message Lean wrote reaches Helix, unless consumed, though the snoop may
\* have stopped.
LeanReachesHelix ==
  \A n \in 1 .. MaxLean :
    leanCount >= n ~> n \in consumed \/ n \in ToSet(NumbersOf(helixGot))

\* The snoop task is scheduled, its timer goes off, and Lean answers.
SnoopFairness == WF_vars(SnoopObserve) /\ WF_vars(DebounceFires)
LeanFairness == WF_vars(QueryAnswered) /\ WF_vars(RequestReplied)

\* Whatever was asked last is in the end shown, as far as the queue took it.
CursorShown ==
  SnoopFairness /\ LeanFairness =>
    <>[](pending = None /\ \A k \in asked.kinds : filled[k] = generation)

\* The workspace root is signalled once Helix has spoken, though copies may be
\* dropped: the socket gets to be bound (snoop.rs, run_snoop_task).
RootSignalled == WF_vars(SnoopObserve) => (sent >= 1 ~> rootSent)
============================================================================
