--------------------------- MODULE ForwardProofs ---------------------------
(***************************************************************************)
(* Proofs about Forward, for every value of its constants: its types, the  *)
(* transparent pipe each way, and the copied notifications.                *)
(***************************************************************************)
EXTENDS ForwardProperties, SequenceTheorems, TLAPS

----------------------------------------------------------------------------
(* Lemmas about the operators. *)

\* A message yields a focus typed as such, or none.
LEMMA FocusOfType ==
  ASSUME NEW s \in SnoopState, NEW f \in ClientFrame
  PROVE  FocusOf(s, f) \in Focus \cup {None}
BY DEF FocusOf, LegalFocus, Focus, ClientFrame, SnoopState

\* Observing a message leaves a session.
LEMMA ObserveType ==
  ASSUME NEW s \in SnoopState, NEW f \in ClientFrame
  PROVE  Observe(s, f) \in SnoopState
BY DEF Observe, SnoopState, ClientFrame

\* The queries of a focus are at most two frames, no more than there is room
\* for; each has an id of the new generation, the first one's kind is goal and
\* the second one's term.
LEMMA QueriesType ==
  ASSUME NEW focus \in Focus, NEW gen \in Nat, NEW room \in Int
  PROVE  /\ Queries(focus, gen, room) \in Seq(QueryFrame)
         /\ Len(Queries(focus, gen, room)) = IF room <= 0 THEN 0
                                             ELSE IF room = 1 THEN 1 ELSE 2
         /\ Len(Queries(focus, gen, room)) >= 1 =>
              Queries(focus, gen, room)[1] = QueryFor(focus, gen, "goal")
         /\ Len(Queries(focus, gen, room)) = 2 =>
              Queries(focus, gen, room)[2] = QueryFor(focus, gen, "term")
<1>1. \A k \in Kinds : QueryFor(focus, gen, k) \in QueryFrame
  BY DEF QueryFor, QueryFrame, IdOf, InjectedId, Focus
<1>2. "goal" \in Kinds /\ "term" \in Kinds
  BY DEF Kinds
<1>3. CASE room <= 0
  BY <1>3 DEF Queries
<1>4. CASE room = 1
  BY <1>1, <1>2, <1>4 DEF Queries
<1>5. CASE room > 1
  BY <1>1, <1>2, <1>5 DEF Queries
<1> QED
  BY <1>3, <1>4, <1>5

\* What a query registers is typed.
LEMMA PendingOfType ==
  ASSUME NEW focus \in Focus, NEW gen \in Nat, NEW k \in Kinds
  PROVE  PendingOf(focus, gen, k) \in Pending
BY DEF PendingOf, Pending, IdOf, InjectedId, DocRef, Focus

\* Publishing a snapshot bumps its seq and leaves a snapshot.
LEMMA UpdateType ==
  ASSUME NEW s \in Snapshot, Update(s)
  PROVE  snapshot' \in Snapshot
BY DEF Update, Snapshot

\* Folding in an answer leaves a snapshot.
LEMMA HandleType ==
  ASSUME snapshot \in Snapshot, NEW p \in Pending, NEW f \in ServerFrame,
         HandleInjectedResponse(p, f), f.answer = "text" => f.text \in Text
  PROVE  snapshot' \in Snapshot
<1> DEFINE at == [snapshot EXCEPT !.doc = p.doc, !.position = p.position]
           shown == IF f.answer = "text" THEN f.text ELSE None
           tactic == f.answer \in {"text", "empty"}
<1>1. at \in Snapshot
  BY DEF Snapshot, Pending
<1>2. shown \in Text \cup {None} /\ tactic \in BOOLEAN
  OBVIOUS
<1>3. CASE p.id.kind = "goal" /\ Update([at EXCEPT !.inTactic = tactic, !.goals = shown])
  <2> HIDE DEF at, shown, tactic
  <2>1. [at EXCEPT !.inTactic = tactic, !.goals = shown] \in Snapshot
    BY <1>1, <1>2 DEF Snapshot
  <2> QED
    BY <1>3, <2>1, UpdateType
<1>4. CASE p.id.kind = "term" /\ Update([at EXCEPT !.termGoal = shown])
  <2> HIDE DEF at, shown
  <2>1. [at EXCEPT !.termGoal = shown] \in Snapshot
    BY <1>1, <1>2 DEF Snapshot
  <2> QED
    BY <1>4, <2>1, UpdateType
<1> QED
  BY <1>3, <1>4 DEF HandleInjectedResponse

\* Folding in the copy of a notification leaves a snapshot.
LEMMA TeeType ==
  ASSUME snapshot \in Snapshot, NEW f \in ServerFrame, TeeTarget(f)
  PROVE  snapshot' \in Snapshot
<1>1. f.uri \in Uri \cup {None} /\ f.ranges \in SUBSET LineRange /\ f.n \in Nat
  BY DEF ServerFrame
<1>2. CASE ApplyDiagnostics(f)
  <2>1. [snapshot EXCEPT !.diagnostics[f.uri] = f.n] \in Snapshot
    BY <1>1 DEF Snapshot
  <2> QED
    BY <1>2, <2>1, UpdateType DEF ApplyDiagnostics
<1>3. CASE ApplyProgress(f)
  <2>1. [snapshot EXCEPT !.progress = f.ranges, !.elaborating = f.ranges # {}]
          \in Snapshot
    BY <1>1 DEF Snapshot
  <2> QED
    BY <1>3, <2>1, UpdateType DEF ApplyProgress
<1>4. CASE UNCHANGED snapshot
  BY <1>4
<1>5. ApplyDiagnostics(f) \/ ApplyProgress(f) \/ UNCHANGED snapshot
  BY DEF TeeTarget
<1> QED
  BY <1>2, <1>3, <1>4, <1>5

----------------------------------------------------------------------------
(* Type correctness. *)

\* The initial values are typed.
LEMMA InitType == Init => TypeOK
<1> SUFFICES ASSUME Init PROVE TypeOK
  OBVIOUS
<1>1. snapshot \in Snapshot
  BY DEF Init, StateInit, Snapshot
<1>2. /\ toLean \in Seq(ClientFrame \cup QueryFrame) /\ Len(toLean) <= SinkCapacity
      /\ toHelix \in Seq(ServerFrame) /\ Len(toHelix) <= SinkCapacity
  BY SinkAssumption DEF Init, QueryInit
<1>3. snoopQ \in Seq(ClientFrame) /\ Len(snoopQ) <= SnoopCapacity
  BY SnoopAssumption DEF Init, SnoopInit
<1>4. helixGot \in Seq(ServerFrame) /\ leanGot \in Seq(ClientFrame)
  BY DEF Init
<1>5. snoop \in SnoopState /\ pending \in Focus \cup {None} /\ rootSent \in BOOLEAN
  BY DEF Init, SnoopInit, SnoopState
<1>6. asked \in [focus : Focus \cup {None}, kinds : SUBSET Kinds]
  BY DEF Init
<1> QED
  BY <1>1, <1>2, <1>3, <1>4, <1>5, <1>6 DEF Init, QueryInit, TypeOK

\* Helix's next message is typed; it has a version when it opens or changes a
\* document.
LEMMA ReadType ==
  ASSUME TypeOK, NEW m \in ClientMethods, NEW u \in Uri \cup {None},
         NEW p \in Position \cup {None}, C2sRead(m, u, p)
  PROVE  /\ Read(m, u, p) \in ClientFrame
         /\ m \in {"didOpen", "didChange"} => u \in Uri /\ Read(m, u, p).version \in Nat
<1>1. m \in {"didOpen", "didChange"} =>
        u \in Uri /\ EditorAfter(m, u).docs[u] \in Nat
  BY DEF TypeOK, C2sRead, Legal, EditorAfter
<1>2. p # None => u \in Uri
  BY DEF C2sRead, Legal, ClientMethods
<1> QED
  BY <1>1, <1>2 DEF TypeOK, Read, ClientFrame

\* It keeps the editor's state typed.
LEMMA C2sReadType ==
  ASSUME TypeOK, NEW m \in ClientMethods, NEW u \in Uri \cup {None},
         NEW p \in Position \cup {None}, C2sRead(m, u, p)
  PROVE  TypeOK'
<1> DEFINE Editor == [phase : {"start", "waiting", "answered", "open"},
                      docs : [Uri -> Nat \cup {None}]]
<1>1. EditorAfter(m, u) \in Editor
  <2>1. editor \in Editor
    BY DEF TypeOK
  <2>2. CASE m = "didChange"
    <3>1. u \in Uri /\ editor.docs[u] \in Nat
      BY <2>1, <2>2 DEF C2sRead, Legal
    <3> QED
      BY <2>1, <2>2, <3>1 DEF EditorAfter
  <2>3. CASE m # "didChange"
    BY <2>1, <2>3 DEF EditorAfter
  <2> QED
    BY <2>2, <2>3
<1>2. Read(m, u, p) \in ClientFrame
  BY ReadType
<1> QED
  BY <1>1, <1>2 DEF TypeOK, C2sRead, queryVars, snoopVars, leanVars

\* Forwarding keeps both queues typed and within their capacity.
LEMMA C2sForwardType ==
  ASSUME TypeOK, C2sForward
  PROVE  TypeOK'
<1>1. c2s \in ClientFrame
  BY DEF TypeOK, C2sForward
<1>2. toLean' \in Seq(ClientFrame \cup QueryFrame) /\ Len(toLean') <= SinkCapacity
  BY <1>1, SinkAssumption DEF TypeOK, C2sForward
<1>3. /\ snoopQ' \in Seq(ClientFrame) /\ Len(snoopQ') <= SnoopCapacity
      /\ missed' \subseteq Nat
  <2>1. CASE Len(snoopQ) < SnoopCapacity
    <3>1. snoopQ' = Append(snoopQ, c2s) /\ missed' = missed
      BY <2>1 DEF C2sForward
    <3>2. snoopQ \in Seq(ClientFrame) /\ missed \subseteq Nat
      BY DEF TypeOK
    <3> QED
      BY <1>1, <2>1, <3>1, <3>2, SnoopAssumption
  <2>2. CASE ~(Len(snoopQ) < SnoopCapacity)
    BY <1>1, <2>2 DEF TypeOK, C2sForward, ClientFrame
  <2> QED
    BY <2>1, <2>2
<1> QED
  BY <1>2, <1>3 DEF TypeOK, C2sForward, c2sFrame, helixVars, leanVars

\* The snoop's session and focus stay typed.
LEMMA SnoopObserveType ==
  ASSUME TypeOK, SnoopObserve
  PROVE  TypeOK'
<1>1. /\ Head(snoopQ) \in ClientFrame
      /\ snoopQ' \in Seq(ClientFrame) /\ Len(snoopQ') <= SnoopCapacity
  BY HeadTailProperties, SnoopAssumption DEF TypeOK, SnoopObserve, SnoopRecv
<1>2. snoop' \in SnoopState /\ pending' \in Focus \cup {None} /\ rootSent' \in BOOLEAN
  BY <1>1, ObserveType, FocusOfType DEF TypeOK, SnoopObserve, SnoopRecv
<1> QED
  BY <1>1, <1>2 DEF TypeOK, SnoopObserve, queryVars, helixVars, leanVars

\* The queries of a debounced focus fit into the queue.
LEMMA DebounceFiresType ==
  ASSUME TypeOK, DebounceFires
  PROVE  TypeOK'
<1>1. PICK room \in Rooms :
        /\ SnoopFire(room)
        /\ asked' = [focus |-> pending, kinds |-> AcceptedKinds(room)]
  BY DEF DebounceFires
<1> DEFINE gen == generation + 1
           queries == Queries(pending, gen, room)
<1>2. pending \in Focus /\ gen \in Nat
  BY <1>1 DEF TypeOK, SnoopFire
<1>3. room \in Int /\ room <= SinkCapacity - Len(toLean)
  BY SinkAssumption DEF TypeOK, Rooms
<1>4. queries \in Seq(QueryFrame) /\ Len(queries) <= SinkCapacity - Len(toLean)
  <2>1. /\ queries \in Seq(QueryFrame)
        /\ Len(queries) = IF room <= 0 THEN 0 ELSE IF room = 1 THEN 1 ELSE 2
    BY <1>2, <1>3, QueriesType
  <2>2. Len(toLean) \in Nat /\ Len(toLean) <= SinkCapacity
    BY DEF TypeOK
  <2> HIDE DEF queries
  <2> QED
    BY <1>3, <2>1, <2>2, SinkAssumption
<1>5. toLean' = toLean \o queries
  BY <1>1 DEF SnoopFire, Request
<1>6. toLean' \in Seq(ClientFrame \cup QueryFrame) /\ Len(toLean') <= SinkCapacity
  <2> HIDE DEF queries
  <2>1. queries \in Seq(ClientFrame \cup QueryFrame)
    BY <1>4
  <2> QED
    BY <2>1, <1>4, <1>5, ConcatProperties, SinkAssumption DEF TypeOK
<1>7. outstanding' \subseteq Pending
  BY <1>1, <1>2, PendingOfType DEF TypeOK, SnoopFire, Request, Registered
<1>8. asked' \in [focus : Focus \cup {None}, kinds : SUBSET Kinds]
  BY <1>1, <1>2 DEF AcceptedKinds
<1>9. generation' \in Nat /\ pending' = None
  BY <1>1, <1>2 DEF SnoopFire, Request
<1> QED
  BY <1>1, <1>6, <1>7, <1>8, <1>9
  DEF TypeOK, DebounceFires, SnoopFire, helixVars, leanVars

\* What Lean reads is typed.
LEMMA LeanWriterType ==
  ASSUME TypeOK, LeanWriter
  PROVE  TypeOK'
<1> DEFINE f == Head(toLean)
<1>1. /\ f \in ClientFrame \cup QueryFrame
      /\ toLean' \in Seq(ClientFrame \cup QueryFrame) /\ Len(toLean') <= SinkCapacity
  BY HeadTailProperties, SinkAssumption DEF TypeOK, LeanWriter
<1>2. CASE f.from = "helix" /\ LeanReads(f)
  <2>1. f \in ClientFrame
    BY <1>1, <1>2 DEF QueryFrame
  <2>2. leanDocs' \in [Uri -> Nat \cup {None}]
    BY <1>2, <2>1 DEF TypeOK, LeanReads, ClientFrame
  <2>3. leanGot' \in Seq(ClientFrame) /\ leanReqs' \subseteq ClientFrame
    BY <1>2, <2>1 DEF TypeOK, LeanReads
  <2> QED
    BY <1>1, <1>2, <2>2, <2>3 DEF TypeOK, LeanWriter, LeanReads, snoopVars, helixVars
<1>3. CASE f.from = "proxy" /\ LeanReadsQuery(f)
  <2>1. f \in QueryFrame
    BY <1>1, <1>3 DEF ClientFrame
  <2>2. leanQueries' \subseteq LeanQuery
    BY <1>3, <2>1 DEF TypeOK, LeanReadsQuery, QueryFrame, LeanQuery
  <2> QED
    BY <1>1, <1>3, <2>2 DEF TypeOK, LeanWriter, LeanReadsQuery, snoopVars, helixVars
<1> QED
  BY <1>2, <1>3 DEF LeanWriter

\* Reading a typed message of Lean's, consumed or held, keeps the types.
LEMMA S2cReadType ==
  ASSUME TypeOK, NEW f \in ServerFrame, f.answer = "text" => f.text \in Text,
         S2cRead(f), leanReqs' \subseteq leanReqs, leanQueries' \subseteq leanQueries
  PROVE  TypeOK'
<1>1. leanCount' \in Nat
  BY DEF TypeOK, S2cRead
<1>2. ASSUME NEW p \in Ours(f), S2cConsume(f, p)
      PROVE  TypeOK'
  <2>1. p \in Pending
    BY <1>2 DEF TypeOK, Ours, Matches
  <2>2. snapshot' \in Snapshot /\ filled' \in [Kinds -> Nat]
    BY <1>2, <2>1, HandleType DEF TypeOK, S2cConsume, Pending, InjectedId
  <2>3. outstanding' \subseteq Pending /\ consumed' \subseteq Nat
    BY <1>2 DEF TypeOK, S2cConsume, ServerFrame
  <2> QED
    BY <1>1, <1>2, <2>2, <2>3 DEF TypeOK, S2cRead, S2cConsume, snoopVars, helixVars
<1>3. CASE S2cHold(f)
  BY <1>1, <1>3 DEF TypeOK, S2cRead, S2cHold, snoopVars, helixVars
<1> QED
  BY <1>2, <1>3 DEF S2cRead

\* Each message Lean writes is typed.
LEMMA MessageType ==
  ASSUME leanCount \in Nat, NEW id \in Id \cup {None},
         NEW method \in {"diagnostics", "progress", "request", None},
         NEW u \in Uri \cup {None}, NEW ranges \in SUBSET LineRange
  PROVE  Message(id, method, u, ranges) \in ServerFrame
BY DEF Message, ServerFrame, Notices

\* The answer to an injected query is a typed message.
LEMMA QueryAnsweredType ==
  ASSUME TypeOK, QueryAnswered
  PROVE  TypeOK'
<1>1. PICK q \in leanQueries, a \in Answers : LeanAnswersQuery(q, a)
  BY DEF QueryAnswered
<1> DEFINE text == IF a = "text"
                   THEN [uri |-> q.uri, version |-> q.version, position |-> q.position]
                   ELSE None
           f == [Message(q.id, None, None, {}) EXCEPT !.answer = a, !.text = text]
<1>2. q \in LeanQuery
  BY <1>1 DEF TypeOK
<1>3. Message(q.id, None, None, {}) \in ServerFrame
  BY <1>2, MessageType DEF TypeOK, LeanQuery, Id
<1>4. text \in Text \cup {None} /\ (a = "text" => text \in Text)
  BY <1>1, <1>2 DEF LeanAnswersQuery, LeanQuery, Text
<1>5. f \in ServerFrame /\ f.answer = a /\ f.text = text
  <2> HIDE DEF text
  <2> QED
    BY <1>3, <1>4 DEF ServerFrame
<1>6. S2cRead(f) /\ leanReqs' = leanReqs /\ leanQueries' \subseteq leanQueries
  BY <1>1 DEF LeanAnswersQuery
<1> QED
  <2> HIDE DEF f, text
  <2> QED
    BY <1>4, <1>5, <1>6, S2cReadType

\* So is a reply to a request of Helix.
LEMMA RequestRepliedType ==
  ASSUME TypeOK, RequestReplied
  PROVE  TypeOK'
<1>1. PICK r \in leanReqs, k \in {"num", "str"} : LeanRepliesTo(r, k)
  BY DEF RequestReplied
<1> DEFINE f == Message(Foreign(k), None, None, {})
<1>2. f \in ServerFrame
  BY MessageType DEF TypeOK, Id, ForeignId, Foreign
<1>3. f.answer = None
  BY DEF Message
<1>4. None # "text"
  BY NoneIsNoValue DEF Answers
<1> QED
  BY <1>1, <1>2, <1>3, <1>4, S2cReadType DEF LeanRepliesTo

\* And so are Lean's notifications and requests.
LEMMA LeanSpeaksType ==
  ASSUME TypeOK, LeanSpeaks
  PROVE  TypeOK'
<1>1. None # "text"
  BY NoneIsNoValue DEF Answers
<1>2. ASSUME NEW m \in LeanSays \ {"request"}, NEW u \in Uri, NEW r \in LeanRanges \cup {{}},
             LeanNotifies(m, u, r)
      PROVE  TypeOK'
  <2> DEFINE f == Message(None, m, u, r)
  <2>1. f \in ServerFrame /\ f.answer = None
    BY MessageType, ForwardAssumption DEF TypeOK, Message
  <2> HIDE DEF f
  <2>2. S2cRead(f) /\ leanReqs' = leanReqs /\ leanQueries' = leanQueries
    BY <1>2 DEF LeanNotifies, f
  <2> QED
    BY <1>1, <2>1, <2>2, S2cReadType
<1>3. CASE LeanRequests
  <2> DEFINE f == Message(Foreign("str"), "request", None, {})
  <2>1. f \in ServerFrame /\ f.answer = None
    BY MessageType DEF TypeOK, Message, Foreign, Id, ForeignId
  <2> HIDE DEF f
  <2>2. S2cRead(f) /\ leanReqs' = leanReqs /\ leanQueries' = leanQueries
    BY <1>3 DEF LeanRequests, f
  <2> QED
    BY <1>1, <2>1, <2>2, S2cReadType
<1> QED
  BY <1>2, <1>3 DEF LeanSpeaks

\* Forwarding to Helix keeps the queue typed and within its capacity.
LEMMA S2cForwardType ==
  ASSUME TypeOK, S2cForward
  PROVE  TypeOK'
<1>1. s2c \in ServerFrame
  BY DEF TypeOK, S2cForward
<1>2. toHelix' \in Seq(ServerFrame) /\ Len(toHelix') <= SinkCapacity
  BY <1>1, SinkAssumption DEF TypeOK, S2cForward
<1>3. snapshot' \in Snapshot
  BY <1>1, TeeType DEF TypeOK, S2cForward
<1> QED
  BY <1>2, <1>3 DEF TypeOK, S2cForward, queryVars, snoopVars, helixVars, leanVars

\* What Helix reads is typed.
LEMMA HelixWriterType ==
  ASSUME TypeOK, HelixWriter
  PROVE  TypeOK'
<1>1. /\ Head(toHelix) \in ServerFrame
      /\ toHelix' \in Seq(ServerFrame) /\ Len(toHelix') <= SinkCapacity
  BY HeadTailProperties, SinkAssumption DEF TypeOK, HelixWriter
<1>2. helixGot' \in Seq(ServerFrame)
  BY <1>1 DEF TypeOK, HelixWriter
<1>3. editor' \in [phase : {"start", "waiting", "answered", "open"},
                   docs : [Uri -> Nat \cup {None}]]
  BY DEF TypeOK, HelixWriter
<1> QED
  BY <1>1, <1>2, <1>3 DEF TypeOK, HelixWriter, queryVars, snoopVars, leanVars

\* Every step keeps the types.
LEMMA NextType ==
  ASSUME TypeOK, [Next]_vars
  PROVE  TypeOK'
<1>1. CASE HelixSpeaks
  BY <1>1, C2sReadType DEF HelixSpeaks
<1>2. CASE UNCHANGED vars
  BY <1>2 DEF vars, queryVars, snoopVars, helixVars, leanVars, TypeOK
<1> QED
  BY <1>1, <1>2, C2sForwardType, SnoopObserveType, DebounceFiresType,
     LeanWriterType, QueryAnsweredType, RequestRepliedType, LeanSpeaksType,
     S2cForwardType, HelixWriterType
  DEF Next

\* The types hold in every reachable state, whatever the documents, positions,
\* queue capacities and bounds.
THEOREM TypeCorrect == Spec => []TypeOK
BY InitType, NextType, PTL DEF Spec

----------------------------------------------------------------------------
(* What the steps do to the queues, index by index. *)

\* A queue with one more frame.
LEMMA AppendParts ==
  ASSUME NEW S, NEW s \in Seq(S), NEW e \in S
  PROVE  /\ Append(s, e) \in Seq(S) /\ Len(s) \in Nat
         /\ DOMAIN s = 1 .. Len(s) /\ DOMAIN Append(s, e) = 1 .. Len(s) + 1
         /\ \A i \in DOMAIN s : Append(s, e)[i] = s[i]
         /\ Append(s, e)[Len(s) + 1] = e
OBVIOUS

\* A queue without its head.
LEMMA TailParts ==
  ASSUME NEW S, NEW s \in Seq(S), s # <<>>
  PROVE  /\ Tail(s) \in Seq(S) /\ Head(s) = s[1] /\ s[1] \in S
         /\ Len(s) \in Nat /\ 1 <= Len(s)
         /\ DOMAIN s = 1 .. Len(s) /\ DOMAIN Tail(s) = 1 .. Len(s) - 1
         /\ \A i \in DOMAIN Tail(s) : Tail(s)[i] = s[i + 1]
         /\ \A i \in DOMAIN s : i # 1 => i - 1 \in DOMAIN Tail(s) /\ Tail(s)[i - 1] = s[i]
<1>1. /\ Tail(s) \in Seq(S) /\ Head(s) = s[1] /\ s[1] \in S
      /\ Len(s) \in Nat /\ 1 <= Len(s)
      /\ DOMAIN s = 1 .. Len(s) /\ DOMAIN Tail(s) = 1 .. Len(s) - 1
      /\ \A i \in DOMAIN Tail(s) : Tail(s)[i] = s[i + 1]
  BY HeadTailProperties
<1>2. \A i \in DOMAIN s : i # 1 => i - 1 \in DOMAIN Tail(s) /\ Tail(s)[i - 1] = s[i]
  <2> TAKE i \in DOMAIN s
  <2> HAVE i # 1
  <2>1. i \in Nat /\ i - 1 \in 1 .. Len(s) - 1 /\ (i - 1) + 1 = i
    BY <1>1
  <2> QED
    BY <1>1, <2>1
<1> QED
  BY <1>1, <1>2

\* The timer appends queries of the pending focus, and nothing else.
LEMMA FireAppends ==
  ASSUME TypeOK, DebounceFires
  PROVE  /\ Len(toLean) \in Nat /\ Len(toLean') \in Nat /\ Len(toLean) <= Len(toLean')
         /\ DOMAIN toLean = 1 .. Len(toLean) /\ DOMAIN toLean' = 1 .. Len(toLean')
         /\ \A i \in DOMAIN toLean : toLean'[i] = toLean[i]
         /\ \A i \in Len(toLean) + 1 .. Len(toLean') :
              toLean'[i].from = "proxy" /\ toLean'[i].cause = pending.cause
<1>1. PICK room \in Rooms : SnoopFire(room)
  BY DEF DebounceFires
<1> DEFINE gen == generation + 1
           queries == Queries(pending, gen, room)
           L == Len(toLean)
<1>2. pending \in Focus /\ gen \in Nat /\ room \in Int /\ L \in Nat
      /\ toLean \in Seq(ClientFrame \cup QueryFrame)
  BY <1>1, SinkAssumption DEF TypeOK, SnoopFire, Rooms
<1>3. /\ queries \in Seq(QueryFrame) /\ Len(queries) \in 0 .. 2
      /\ \A i \in 1 .. Len(queries) : queries[i] = QueryFor(pending, gen, "goal")
                                      \/ queries[i] = QueryFor(pending, gen, "term")
  BY <1>2, QueriesType
<1>4. toLean' = toLean \o queries
  BY <1>1 DEF SnoopFire, Request
<1> HIDE DEF queries
<1>5. /\ DOMAIN toLean = 1 .. L /\ Len(toLean') = L + Len(queries)
      /\ DOMAIN toLean' = 1 .. L + Len(queries)
      /\ \A i \in 1 .. L : toLean'[i] = toLean[i]
      /\ \A i \in L + 1 .. L + Len(queries) : toLean'[i] = queries[i - L]
  <2>1. queries \in Seq(ClientFrame \cup QueryFrame)
    BY <1>3
  <2> QED
    BY <1>2, <1>4, <2>1, ConcatProperties, LenProperties
<1>6. \A k : QueryFor(pending, gen, k).from = "proxy"
             /\ QueryFor(pending, gen, k).cause = pending.cause
  BY DEF QueryFor
<1>7. \A i \in L + 1 .. L + Len(queries) :
        toLean'[i].from = "proxy" /\ toLean'[i].cause = pending.cause
  <2> TAKE i \in L + 1 .. L + Len(queries)
  <2>1. i - L \in 1 .. Len(queries)
    BY <1>2, <1>3
  <2> QED
    BY <2>1, <1>3, <1>5, <1>6
<1> HIDE DEF L
<1>8. L \in Nat /\ Len(queries) \in Nat
  BY <1>2, <1>3
<1> QED
  BY <1>5, <1>7, <1>8 DEF L

\* Whatever Lean writes next is a frame with the next number; its diagnostics
\* and its progress are about a document.
LEMMA LeanWrites ==
  ASSUME TypeOK, QueryAnswered \/ RequestReplied \/ LeanSpeaks
  PROVE  \E f \in ServerFrame :
           /\ S2cRead(f) /\ f.n = leanCount + 1
           /\ f.method \in Notices => f.uri \in Uri
<1>1. CASE QueryAnswered
  <2>1. PICK q \in leanQueries, a \in Answers : LeanAnswersQuery(q, a)
    BY <1>1 DEF QueryAnswered
  <2> DEFINE text == IF a = "text"
                     THEN [uri |-> q.uri, version |-> q.version, position |-> q.position]
                     ELSE None
             f == [Message(q.id, None, None, {}) EXCEPT !.answer = a, !.text = text]
  <2>2. q \in LeanQuery
    BY <2>1 DEF TypeOK
  <2>3. Message(q.id, None, None, {}) \in ServerFrame
        /\ Message(q.id, None, None, {}).n = leanCount + 1
        /\ Message(q.id, None, None, {}).method = None
    BY <2>2, MessageType DEF TypeOK, LeanQuery, Id, Message
  <2>4. text \in Text \cup {None}
    BY <2>1, <2>2 DEF LeanAnswersQuery, LeanQuery, Text
  <2>5. f \in ServerFrame /\ f.n = leanCount + 1 /\ f.method = None
    <3> HIDE DEF text
    <3> QED
      BY <2>3, <2>4 DEF ServerFrame
  <2>6. S2cRead(f)
    BY <2>1 DEF LeanAnswersQuery
  <2> HIDE DEF f
  <2>7. f.method \in Notices => f.uri \in Uri
    BY <2>5, NoneIsNoValue
  <2> QED
    BY <2>5, <2>6, <2>7
<1>2. CASE RequestReplied
  <2>1. PICK r \in leanReqs, k \in {"num", "str"} : LeanRepliesTo(r, k)
    BY <1>2 DEF RequestReplied
  <2> DEFINE f == Message(Foreign(k), None, None, {})
  <2>2. f \in ServerFrame
    BY MessageType DEF TypeOK, Id, ForeignId, Foreign
  <2>3. f.n = leanCount + 1 /\ f.method = None
    BY DEF Message
  <2>4. S2cRead(f)
    BY <2>1 DEF LeanRepliesTo
  <2> HIDE DEF f
  <2> QED
    BY <2>2, <2>3, <2>4, NoneIsNoValue
<1>3. ASSUME NEW m \in LeanSays \ {"request"}, NEW u \in Uri, NEW r \in LeanRanges \cup {{}},
             LeanNotifies(m, u, r)
      PROVE  \E f \in ServerFrame :
               /\ S2cRead(f) /\ f.n = leanCount + 1
               /\ f.method \in Notices => f.uri \in Uri
  <2> DEFINE f == Message(None, m, u, r)
  <2>1. f \in ServerFrame
    BY MessageType, ForwardAssumption DEF TypeOK
  <2>2. f.n = leanCount + 1 /\ f.uri = u
    BY DEF Message
  <2>3. S2cRead(f)
    BY <1>3 DEF LeanNotifies
  <2> HIDE DEF f
  <2> QED
    BY <2>1, <2>2, <2>3
<1>4. CASE LeanRequests
  <2> DEFINE f == Message(Foreign("str"), "request", None, {})
  <2>1. f \in ServerFrame
    BY MessageType DEF TypeOK, Foreign, Id, ForeignId
  <2>2. f.n = leanCount + 1 /\ f.method = "request"
    BY DEF Message
  <2>3. S2cRead(f)
    BY <1>4 DEF LeanRequests
  <2> HIDE DEF f
  <2> QED
    BY <2>1, <2>2, <2>3 DEF Notices
<1> QED
  BY <1>1, <1>2, <1>3, <1>4 DEF LeanSpeaks

----------------------------------------------------------------------------
(* Helix's messages to Lean. *)

\* Number of messages pump_c2s has passed on.
PassedOn == IF c2s = None THEN sent ELSE sent - 1

\* Lean has the first messages in order, and the queue toward it holds exactly
\* the others passed on, in order.
ToLeanInv ==
  /\ Len(leanGot) <= PassedOn
  /\ \A i \in DOMAIN leanGot : leanGot[i].n = i
  /\ \A i \in DOMAIN toLean : toLean[i].from = "helix" =>
       Len(leanGot) < toLean[i].n /\ toLean[i].n <= PassedOn
  /\ \A i, j \in DOMAIN toLean :
       toLean[i].from = "helix" /\ toLean[j].from = "helix" /\ i < j =>
         toLean[i].n < toLean[j].n
  /\ \A n \in Len(leanGot) + 1 .. PassedOn :
       \E i \in DOMAIN toLean : toLean[i].from = "helix" /\ toLean[i].n = n
  /\ c2s # None => c2s.n = sent

LEMMA InitToLean == Init => ToLeanInv
BY DEF Init, QueryInit, ToLeanInv, PassedOn

\* What the other actions leave alone.
LEMMA ToLeanUnchanged ==
  ASSUME ToLeanInv, UNCHANGED <<sent, c2s, toLean, leanGot>>
  PROVE  ToLeanInv'
BY DEF ToLeanInv, PassedOn

\* The next message is held, not yet passed on.
LEMMA C2sReadToLean ==
  ASSUME TypeOK, ToLeanInv, HelixSpeaks
  PROVE  ToLeanInv' /\ UNCHANGED <<toLean, leanGot, PassedOn>> /\ sent' = sent + 1
<1>1. PICK m \in ClientMethods, u \in Uri \cup {None}, p \in Position \cup {None} :
        C2sRead(m, u, p)
  BY DEF HelixSpeaks
<1>2. Read(m, u, p) \in ClientFrame
  BY <1>1, ReadType
<1>3. c2s' # None
  BY <1>1, <1>2, NoneIsNoFrame DEF C2sRead
<1>4. c2s'.n = sent + 1 /\ sent' = sent + 1 /\ c2s = None
  BY <1>1 DEF C2sRead, Read
<1>5. sent \in Nat
  BY DEF TypeOK
<1>6. PassedOn' = PassedOn
  BY <1>3, <1>4, <1>5 DEF PassedOn
<1>7. toLean' = toLean /\ leanGot' = leanGot
  BY <1>1 DEF C2sRead, queryVars, leanVars
<1> QED
  BY <1>3, <1>4, <1>6, <1>7 DEF ToLeanInv

\* Passing the held message on: it is the one after all those queued.
LEMMA C2sForwardToLean ==
  ASSUME TypeOK, ToLeanInv, C2sForward
  PROVE  /\ ToLeanInv' /\ UNCHANGED <<leanGot, sent>>
         /\ PassedOn = sent - 1 /\ PassedOn' = sent /\ c2s.n = sent
<1> DEFINE L == Len(toLean)
           G == Len(leanGot)
<1>1. c2s \in ClientFrame /\ toLean \in Seq(ClientFrame \cup QueryFrame)
  BY DEF TypeOK, C2sForward
<1>2. /\ L \in Nat /\ DOMAIN toLean = 1 .. L /\ DOMAIN toLean' = 1 .. L + 1
      /\ \A i \in 1 .. L : toLean'[i] = toLean[i]
      /\ toLean'[L + 1] = c2s
  BY <1>1, AppendParts DEF C2sForward
<1>3. c2s.from = "helix" /\ c2s.n = sent
  BY <1>1, NoneIsNoFrame DEF ClientFrame, ToLeanInv
<1>4. c2s' = None /\ leanGot' = leanGot /\ sent' = sent
  BY DEF C2sForward, c2sFrame, leanVars, helixVars
<1>num. sent \in Nat /\ G \in Nat /\ PassedOn = sent - 1 /\ PassedOn' = sent
  BY <1>1, <1>4, NoneIsNoFrame DEF PassedOn, TypeOK
<1>5. /\ G <= sent - 1
      /\ \A i \in 1 .. L : toLean[i].from = "helix" =>
           G < toLean[i].n /\ toLean[i].n <= sent - 1
      /\ \A i, j \in 1 .. L :
           toLean[i].from = "helix" /\ toLean[j].from = "helix" /\ i < j =>
             toLean[i].n < toLean[j].n
      /\ \A n \in G + 1 .. sent - 1 :
           \E i \in 1 .. L : toLean[i].from = "helix" /\ toLean[i].n = n
  BY <1>2, <1>num DEF ToLeanInv
<1>nat. \A i \in 1 .. L : toLean[i].from = "helix" => toLean[i].n \in Nat
  BY <1>1, <1>2 DEF ClientFrame, QueryFrame
<1> HIDE DEF L, G
<1>6. \A i \in DOMAIN toLean' : toLean'[i].from = "helix" =>
        G < toLean'[i].n /\ toLean'[i].n <= sent
  BY <1>2, <1>3, <1>num, <1>5, <1>nat
<1>7. \A i, j \in DOMAIN toLean' :
        toLean'[i].from = "helix" /\ toLean'[j].from = "helix" /\ i < j =>
          toLean'[i].n < toLean'[j].n
  BY <1>2, <1>3, <1>num, <1>5, <1>nat
<1>8. \A n \in G + 1 .. sent :
        \E i \in DOMAIN toLean' : toLean'[i].from = "helix" /\ toLean'[i].n = n
  <2> TAKE n \in G + 1 .. sent
  <2>1. n = sent \/ n \in G + 1 .. sent - 1
    BY <1>num
  <2>2. CASE n = sent
    BY <2>2, <1>2, <1>3
  <2>3. CASE n \in G + 1 .. sent - 1
    BY <2>3, <1>2, <1>5
  <2> QED
    BY <2>1, <2>2, <2>3
<1>9. G <= sent
  BY <1>num, <1>5
<1> QED
  BY <1>3, <1>4, <1>6, <1>7, <1>8, <1>9, <1>num DEF ToLeanInv, G

\* The timer's queries stand between Helix's messages.
LEMMA DebounceFiresToLean ==
  ASSUME TypeOK, ToLeanInv, DebounceFires
  PROVE  ToLeanInv' /\ UNCHANGED <<leanGot, sent>>
<1>1. UNCHANGED <<leanGot, sent, c2s>>
  BY DEF DebounceFires, leanVars, helixVars
<1>2. \A i \in DOMAIN toLean' : toLean'[i].from = "helix" =>
        i \in DOMAIN toLean /\ toLean'[i] = toLean[i]
  BY FireAppends
<1>3. \A i \in DOMAIN toLean : i \in DOMAIN toLean' /\ toLean'[i] = toLean[i]
  BY FireAppends
<1> QED
  BY <1>1, <1>2, <1>3 DEF ToLeanInv, PassedOn

\* The first of Helix's messages in the queue is the next one Lean lacks.
LEMMA NextForLean ==
  ASSUME TypeOK, ToLeanInv, toLean # <<>>, Head(toLean).from = "helix"
  PROVE  Head(toLean).n = Len(leanGot) + 1
<1>1. /\ toLean \in Seq(ClientFrame \cup QueryFrame) /\ Len(leanGot) \in Nat
      /\ PassedOn \in Int
  BY DEF TypeOK, PassedOn
<1>2. /\ Head(toLean) = toLean[1] /\ 1 \in DOMAIN toLean
      /\ DOMAIN toLean \subseteq Nat \ {0}
  BY <1>1, TailParts
<1>3. toLean[1].n \in Nat
  BY <1>1, <1>2 DEF ClientFrame, QueryFrame
<1>4. Len(leanGot) < toLean[1].n /\ toLean[1].n <= PassedOn
  BY <1>2 DEF ToLeanInv
<1>5. Len(leanGot) + 1 \in Len(leanGot) + 1 .. PassedOn
  BY <1>1, <1>3, <1>4
<1>6. PICK i \in DOMAIN toLean : toLean[i].from = "helix" /\ toLean[i].n = Len(leanGot) + 1
  BY <1>5 DEF ToLeanInv
<1>7. 1 < i => toLean[1].n < toLean[i].n
  BY <1>2, <1>6 DEF ToLeanInv
<1>8. i = 1 \/ 1 < i
  BY <1>2
<1> QED
  BY <1>1, <1>2, <1>3, <1>4, <1>6, <1>7, <1>8

\* Lean reads the head of the queue: its next message, or a query.
LEMMA LeanWriterToLean ==
  ASSUME TypeOK, ToLeanInv, LeanWriter
  PROVE  /\ ToLeanInv' /\ UNCHANGED sent
         /\ \/ UNCHANGED leanGot
            \/ \E f \in ClientFrame : /\ leanGot' = Append(leanGot, f)
                                      /\ f.n = Len(leanGot) + 1 /\ f.n <= sent
<1> DEFINE f == Head(toLean)
           L == Len(toLean)
           G == Len(leanGot)
           P == PassedOn
<1>1. toLean \in Seq(ClientFrame \cup QueryFrame) /\ toLean # <<>> /\ toLean' = Tail(toLean)
  BY DEF TypeOK, LeanWriter
<1>2. /\ L \in Nat /\ 1 <= L /\ DOMAIN toLean = 1 .. L /\ DOMAIN toLean' = 1 .. L - 1
      /\ f = toLean[1] /\ f \in ClientFrame \cup QueryFrame
      /\ \A i \in DOMAIN toLean' : toLean'[i] = toLean[i + 1]
      /\ \A i \in DOMAIN toLean : i # 1 => i - 1 \in DOMAIN toLean' /\ toLean'[i - 1] = toLean[i]
  BY <1>1, TailParts
<1>3. UNCHANGED <<sent, c2s>> /\ P' = P
  BY DEF LeanWriter, helixVars, PassedOn
<1>num. G \in Nat /\ P \in Int /\ sent \in Nat /\ P <= sent
  BY DEF TypeOK, PassedOn
<1>4. /\ G <= P
      /\ \A i \in 1 .. L : toLean[i].from = "helix" =>
           G < toLean[i].n /\ toLean[i].n <= P
      /\ \A i, j \in 1 .. L :
           toLean[i].from = "helix" /\ toLean[j].from = "helix" /\ i < j =>
             toLean[i].n < toLean[j].n
      /\ \A n \in G + 1 .. P :
           \E i \in 1 .. L : toLean[i].from = "helix" /\ toLean[i].n = n
  BY <1>2 DEF ToLeanInv
<1>nat. \A i \in 1 .. L : toLean[i].from = "helix" => toLean[i].n \in Nat
  BY <1>1, <1>2 DEF ClientFrame, QueryFrame
<1>5. \A i \in DOMAIN toLean' : i \in 1 .. L /\ i + 1 \in 1 .. L
  BY <1>2
<1>6. \A i, j \in DOMAIN toLean' :
        toLean'[i].from = "helix" /\ toLean'[j].from = "helix" /\ i < j =>
          toLean'[i].n < toLean'[j].n
  <2> TAKE i, j \in DOMAIN toLean'
  <2>1. i < j => i + 1 < j + 1
    BY <1>2
  <2> QED
    BY <2>1, <1>2, <1>4, <1>5
<1>7. CASE f.from = "helix" /\ LeanReads(f)
  <2>1. f.n = G + 1 /\ f \in ClientFrame /\ f.n <= P
    BY <1>1, <1>2, <1>4, <1>7, NextForLean DEF QueryFrame
  <2>2. leanGot' = Append(leanGot, f) /\ leanGot \in Seq(ClientFrame)
    BY <1>7 DEF LeanReads, TypeOK
  <2>3. /\ Len(leanGot') = G + 1 /\ DOMAIN leanGot' = 1 .. G + 1 /\ DOMAIN leanGot = 1 .. G
        /\ \A i \in 1 .. G : leanGot'[i] = leanGot[i]
        /\ leanGot'[G + 1] = f
    BY <2>1, <2>2, AppendParts
  <2> HIDE DEF f, L, G, P
  <2>4. \A i \in DOMAIN leanGot' : leanGot'[i].n = i
    BY <2>1, <2>3, <1>num DEF ToLeanInv
  <2>5. \A i \in DOMAIN toLean' : toLean'[i].from = "helix" =>
          G + 1 < toLean'[i].n /\ toLean'[i].n <= P
    <3> TAKE i \in DOMAIN toLean'
    <3>1. 1 < i + 1 /\ i + 1 \in 1 .. L /\ 1 \in 1 .. L /\ toLean'[i] = toLean[i + 1]
      BY <1>2, <1>5
    <3> QED
      BY <3>1, <1>2, <1>4, <1>7, <2>1
  <2>6. \A n \in G + 2 .. P :
          \E i \in DOMAIN toLean' : toLean'[i].from = "helix" /\ toLean'[i].n = n
    <3> TAKE n \in G + 2 .. P
    <3>1. n \in G + 1 .. P /\ n # G + 1
      BY <1>num
    <3>2. PICK i \in 1 .. L : toLean[i].from = "helix" /\ toLean[i].n = n
      BY <3>1, <1>4
    <3>3. i # 1
      BY <3>1, <3>2, <1>2, <2>1
    <3> QED
      BY <3>2, <3>3, <1>2
  <2>7. ToLeanInv'
    <3>1. G' = G + 1 /\ G + 1 + 1 = G + 2 /\ G + 1 <= P
      BY <2>1, <2>3, <1>num DEF G
    <3>2. (c2s # None => c2s.n = sent)'
      BY <1>3 DEF ToLeanInv
    <3> QED
      BY <3>1, <3>2, <2>4, <2>5, <2>6, <1>3, <1>6 DEF ToLeanInv, G, P
  <2>8. f.n <= sent
    BY <2>1, <1>num
  <2> QED
    BY <2>1, <2>2, <2>7, <2>8, <1>3 DEF G
<1>8. CASE f.from = "proxy" /\ LeanReadsQuery(f)
  <2>1. leanGot' = leanGot /\ G' = G
    BY <1>8 DEF LeanReadsQuery
  <2> HIDE DEF f, L, G, P
  <2>2. \A i \in DOMAIN toLean' : toLean'[i].from = "helix" =>
          G < toLean'[i].n /\ toLean'[i].n <= P
    BY <1>2, <1>4, <1>5
  <2>3. \A n \in G + 1 .. P :
          \E i \in DOMAIN toLean' : toLean'[i].from = "helix" /\ toLean'[i].n = n
    <3> TAKE n \in G + 1 .. P
    <3>1. PICK i \in 1 .. L : toLean[i].from = "helix" /\ toLean[i].n = n
      BY <1>4
    <3>2. i # 1
      BY <3>1, <1>2, <1>8
    <3> QED
      BY <3>1, <3>2, <1>2
  <2>4. (c2s # None => c2s.n = sent)' /\ (\A i \in DOMAIN leanGot : leanGot[i].n = i)'
    BY <1>3, <2>1 DEF ToLeanInv
  <2> QED
    BY <2>1, <2>2, <2>3, <2>4, <1>3, <1>4, <1>6 DEF ToLeanInv, G, P
<1> QED
  BY <1>7, <1>8 DEF LeanWriter

\* No other action touches them.
LEMMA ToLeanNext ==
  ASSUME TypeOK, ToLeanInv, [Next]_vars
  PROVE  /\ ToLeanInv'
         /\ \/ UNCHANGED leanGot /\ sent' \in {sent, sent + 1}
            \/ /\ sent' = sent
               /\ \E f \in ClientFrame : /\ leanGot' = Append(leanGot, f)
                                         /\ f.n = Len(leanGot) + 1 /\ f.n <= sent
<1>1. CASE SnoopObserve
  BY <1>1, ToLeanUnchanged DEF SnoopObserve, queryVars, helixVars, leanVars
<1>2. CASE QueryAnswered \/ RequestReplied \/ LeanSpeaks
  <2>1. UNCHANGED <<sent, c2s, toLean, leanGot>>
    BY <1>2, LeanWrites DEF S2cRead, helixVars
  <2> QED
    BY <2>1, ToLeanUnchanged
<1>3. CASE S2cForward
  BY <1>3, ToLeanUnchanged DEF S2cForward, queryVars, helixVars, leanVars
<1>4. CASE HelixWriter
  BY <1>4, ToLeanUnchanged DEF HelixWriter, queryVars, leanVars
<1>5. CASE UNCHANGED vars
  BY <1>5, ToLeanUnchanged DEF vars, queryVars, helixVars, leanVars
<1> QED
  BY <1>1, <1>2, <1>3, <1>4, <1>5, C2sReadToLean, C2sForwardToLean,
     DebounceFiresToLean, LeanWriterToLean
  DEF Next

\* In every reachable state.
LEMMA AlwaysToLean == Spec => []ToLeanInv
BY TypeCorrect, InitToLean, ToLeanNext, PTL DEF Spec

\* The numbers of a history with one more frame.
LEMMA NumbersOfAppend ==
  ASSUME NEW S, NEW s \in Seq(S), NEW e \in S
  PROVE  NumbersOf(Append(s, e)) = Append(NumbersOf(s), e.n)
<1>1. \A t : NumbersOf(t) = [i \in DOMAIN t |-> t[i].n]
  BY DEF NumbersOf
<1> DEFINE N == {x.n : x \in S}
           a == NumbersOf(Append(s, e))
           b == Append(NumbersOf(s), e.n)
<1>2. NumbersOf(s) = [i \in 1 .. Len(s) |-> s[i].n] /\ Len(s) \in Nat
  BY <1>1
<1>3. NumbersOf(s) \in Seq(N) /\ Len(NumbersOf(s)) = Len(s) /\ e.n \in N
  BY <1>2
<1>4. a = [i \in 1 .. Len(s) + 1 |-> Append(s, e)[i].n]
  <2>1. DOMAIN Append(s, e) = 1 .. Len(s) + 1
    BY AppendParts
  <2> QED
    BY <1>1, <2>1
<1>5. \A i \in 1 .. Len(s) + 1 : a[i] = IF i = Len(s) + 1 THEN e.n ELSE s[i].n
  BY <1>2, <1>4, AppendParts
<1>6. \A i \in 1 .. Len(s) + 1 : a[i] \in N
  BY <1>2, <1>5
<1>7. a \in Seq(N) /\ Len(a) = Len(s) + 1
  BY <1>2, <1>4, <1>6
<1>8. b \in Seq(N) /\ Len(b) = Len(s) + 1
      /\ \A i \in 1 .. Len(s) + 1 : b[i] = IF i = Len(s) + 1 THEN e.n ELSE s[i].n
  BY <1>2, <1>3, AppendProperties
<1> HIDE DEF a, b, N
<1>9. a = b
  BY <1>5, <1>7, <1>8, SeqEqual
<1> QED
  BY <1>9 DEF a, b

\* One message read is one step of the pipe.
LEMMA ToLeanStep ==
  ASSUME TypeOK, ToLeanInv, [Next]_vars
  PROVE  [ToLean!Write \/ ToLean!Read]_<<sent, {}, NumbersOf(leanGot)>>
<1>1. CASE UNCHANGED leanGot /\ sent' = sent
  BY <1>1
<1>2. CASE UNCHANGED leanGot /\ sent' = sent + 1
  BY <1>2 DEF ToLean!Write
<1>3. ASSUME sent' = sent, NEW f \in ClientFrame, leanGot' = Append(leanGot, f),
             f.n = Len(leanGot) + 1, f.n <= sent
      PROVE  ToLean!Read
  <2>1. leanGot \in Seq(ClientFrame) /\ DOMAIN leanGot = 1 .. Len(leanGot)
        /\ Len(leanGot) \in Nat /\ sent \in Nat
    BY DEF TypeOK
  <2>2. NumbersOf(leanGot)' = Append(NumbersOf(leanGot), f.n)
    <3>1. NumbersOf(leanGot)' = NumbersOf(leanGot')
      BY DEF NumbersOf
    <3> QED
      BY <3>1, <1>3, <2>1, NumbersOfAppend
  <2>3. /\ DOMAIN NumbersOf(leanGot) = 1 .. Len(leanGot)
        /\ \A i \in 1 .. Len(leanGot) : NumbersOf(leanGot)[i] = i
    BY <2>1 DEF NumbersOf, ToLeanInv
  <2> DEFINE n == Len(leanGot) + 1
  <2>4. n \in (1 .. sent) \ {} /\ f.n = n
    BY <2>1, <1>3
  <2>5. \A i \in DOMAIN NumbersOf(leanGot) : NumbersOf(leanGot)[i] # n
    BY <2>1, <2>3
  <2>6. \A m \in 1 .. n - 1 :
          m \in {} \/ \E i \in DOMAIN NumbersOf(leanGot) : NumbersOf(leanGot)[i] = m
    BY <2>1, <2>3
  <2> HIDE DEF n
  <2> QED
    BY <1>3, <2>2, <2>4, <2>5, <2>6 DEF ToLean!Read
<1> QED
  BY <1>1, <1>2, <1>3, ToLeanNext

\* Every message of Helix reaches Lean once and in order, whatever the proxy
\* injects between them, however full its queues are.
THEOREM ToLeanPipe == Spec => ToLeanIsAPipe
<1>1. Init => ToLean!Init
  BY DEF Init, ToLean!Init, NumbersOf
<1> QED
  BY <1>1, TypeCorrect, AlwaysToLean, ToLeanStep, PTL DEF Spec, ToLeanIsAPipe, ToLean!Spec

----------------------------------------------------------------------------
(* Lean's messages to Helix. *)

\* The frames received and queued, in one sequence.
LEMMA ForwardedParts ==
  ASSUME TypeOK
  PROVE  /\ Forwarded \in Seq(ServerFrame)
         /\ Len(helixGot) \in Nat /\ Len(toHelix) \in Nat
         /\ DOMAIN helixGot = 1 .. Len(helixGot)
         /\ Len(Forwarded) = Len(helixGot) + Len(toHelix)
         /\ DOMAIN Forwarded = 1 .. Len(helixGot) + Len(toHelix)
         /\ \A i \in DOMAIN helixGot : Forwarded[i] = helixGot[i]
         /\ toHelix # <<>> => /\ Len(helixGot) + 1 \in DOMAIN Forwarded
                              /\ Forwarded[Len(helixGot) + 1] = Head(toHelix)
                              /\ Head(toHelix) \in ServerFrame
<1>1. helixGot \in Seq(ServerFrame) /\ toHelix \in Seq(ServerFrame)
  BY DEF TypeOK
<1>2. /\ Forwarded \in Seq(ServerFrame)
      /\ Len(Forwarded) = Len(helixGot) + Len(toHelix)
      /\ \A i \in 1 .. Len(helixGot) : Forwarded[i] = helixGot[i]
      /\ \A i \in Len(helixGot) + 1 .. Len(helixGot) + Len(toHelix) :
           Forwarded[i] = toHelix[i - Len(helixGot)]
  BY <1>1, ConcatProperties DEF Forwarded
<1>3. /\ Len(helixGot) \in Nat /\ Len(toHelix) \in Nat
      /\ DOMAIN helixGot = 1 .. Len(helixGot)
      /\ DOMAIN Forwarded = 1 .. Len(helixGot) + Len(toHelix)
  BY <1>1, <1>2
<1>4. ASSUME toHelix # <<>>
      PROVE  /\ Len(helixGot) + 1 \in DOMAIN Forwarded
             /\ Forwarded[Len(helixGot) + 1] = Head(toHelix)
             /\ Head(toHelix) \in ServerFrame
  <2>1. Head(toHelix) = toHelix[1] /\ toHelix[1] \in ServerFrame /\ 1 <= Len(toHelix)
    BY <1>1, <1>4, TailParts
  <2>2. /\ Len(helixGot) + 1 \in Len(helixGot) + 1 .. Len(helixGot) + Len(toHelix)
        /\ Len(helixGot) + 1 \in 1 .. Len(helixGot) + Len(toHelix)
        /\ (Len(helixGot) + 1) - Len(helixGot) = 1
    BY <1>3, <2>1
  <2> QED
    BY <2>1, <2>2, <1>2, <1>3
<1> QED
  BY <1>2, <1>3, <1>4

\* Forwarding adds the held frame at the end.
LEMMA S2cForwardAppends ==
  ASSUME TypeOK, S2cForward
  PROVE  s2c \in ServerFrame /\ Forwarded' = Append(Forwarded, s2c)
<1>1. /\ helixGot \in Seq(ServerFrame) /\ toHelix \in Seq(ServerFrame)
      /\ s2c \in ServerFrame
      /\ helixGot' = helixGot /\ toHelix' = Append(toHelix, s2c)
  BY DEF TypeOK, S2cForward
<1>2. toHelix' = toHelix \o <<s2c>> /\ <<s2c>> \in Seq(ServerFrame)
  BY <1>1, AppendIsConcat
<1>3. Forwarded' = helixGot \o (toHelix \o <<s2c>>)
  BY <1>1, <1>2 DEF Forwarded
<1>4. Forwarded' = Forwarded \o <<s2c>>
  BY <1>1, <1>2, <1>3, ConcatAssociative DEF Forwarded
<1>5. Forwarded \in Seq(ServerFrame)
  BY ForwardedParts
<1> QED
  BY <1>1, <1>4, <1>5, AppendIsConcat

\* A frame Helix receives stays in its place.
LEMMA HelixWriterKeeps ==
  ASSUME TypeOK, HelixWriter
  PROVE  Forwarded' = Forwarded
<1> DEFINE h == Head(toHelix)
           t == Tail(toHelix)
<1>1. /\ helixGot \in Seq(ServerFrame) /\ toHelix \in Seq(ServerFrame) /\ toHelix # <<>>
      /\ helixGot' = Append(helixGot, h) /\ toHelix' = t
  BY DEF TypeOK, HelixWriter
<1>2. h \in ServerFrame /\ t \in Seq(ServerFrame) /\ toHelix = <<h>> \o t
  BY <1>1, HeadTailProperties, ConcatSimplifications
<1>3. helixGot' = helixGot \o <<h>> /\ <<h>> \in Seq(ServerFrame)
  BY <1>1, <1>2, AppendIsConcat
<1> HIDE DEF h, t
<1>4. Forwarded' = (helixGot \o <<h>>) \o t
  BY <1>1, <1>3 DEF Forwarded
<1>5. (helixGot \o <<h>>) \o t = helixGot \o (<<h>> \o t)
  BY <1>1, <1>2, <1>3, ConcatAssociative
<1> QED
  BY <1>2, <1>4, <1>5 DEF Forwarded

\* The frames received or queued are Lean's messages but for those consumed, in
\* order and without a gap, up to the one pump_s2c holds.
ToHelixInv ==
  /\ consumed \subseteq 1 .. leanCount
  /\ \A i \in DOMAIN Forwarded : Forwarded[i].n \in (1 .. leanCount) \ consumed
  /\ \A i, j \in DOMAIN Forwarded : i < j => Forwarded[i].n < Forwarded[j].n
  /\ s2c # None => /\ s2c.n \in (1 .. leanCount) \ consumed
                   /\ \A i \in DOMAIN Forwarded : Forwarded[i].n < s2c.n
  /\ \A n \in (1 .. leanCount) \ consumed :
       \/ s2c # None /\ s2c.n = n
       \/ \E i \in DOMAIN Forwarded : Forwarded[i].n = n

LEMMA InitToHelix == Init => ToHelixInv
<1> SUFFICES ASSUME Init PROVE ToHelixInv
  OBVIOUS
<1>1. Forwarded = <<>> /\ leanCount = 0 /\ consumed = {} /\ s2c = None
  BY DEF Init, Forwarded
<1> QED
  BY <1>1 DEF ToHelixInv

LEMMA ToHelixUnchanged ==
  ASSUME ToHelixInv, UNCHANGED <<leanCount, consumed, s2c, Forwarded>>
  PROVE  ToHelixInv'
BY DEF ToHelixInv

\* A message read is consumed or held; its number is the next one.
LEMMA S2cReadToHelix ==
  ASSUME TypeOK, ToHelixInv, NEW f \in ServerFrame, f.n = leanCount + 1, S2cRead(f)
  PROVE  /\ ToHelixInv' /\ UNCHANGED helixGot
         /\ leanCount' = leanCount + 1
         /\ consumed' \in {consumed, consumed \cup {leanCount + 1}}
<1>1. leanCount \in Nat /\ s2c = None /\ leanCount' = leanCount + 1
      /\ toHelix' = toHelix /\ helixGot' = helixGot /\ Forwarded' = Forwarded
  BY DEF TypeOK, S2cRead, Forwarded
<1>2. /\ consumed \subseteq 1 .. leanCount
      /\ \A i \in DOMAIN Forwarded : Forwarded[i].n \in (1 .. leanCount) \ consumed
      /\ \A i, j \in DOMAIN Forwarded : i < j => Forwarded[i].n < Forwarded[j].n
      /\ \A n \in (1 .. leanCount) \ consumed :
           \E i \in DOMAIN Forwarded : Forwarded[i].n = n
  BY <1>1 DEF ToHelixInv
<1>3. \A n \in 1 .. leanCount + 1 : n = leanCount + 1 \/ n \in 1 .. leanCount
  BY <1>1
<1>4. \A n \in 1 .. leanCount : n # leanCount + 1 /\ n < leanCount + 1
                                /\ n \in 1 .. leanCount + 1
  BY <1>1
<1>5. leanCount + 1 \in 1 .. leanCount + 1
  BY <1>1
<1>6. ASSUME NEW p \in Ours(f), S2cConsume(f, p)
      PROVE  ToHelixInv' /\ consumed' = consumed \cup {leanCount + 1}
  <2>1. consumed' = consumed \cup {leanCount + 1} /\ s2c' = None
    BY <1>1, <1>6 DEF S2cConsume
  <2> QED
    BY <2>1, <1>1, <1>2, <1>3, <1>4, <1>5 DEF ToHelixInv
<1>7. CASE S2cHold(f)
  <2>1. consumed' = consumed /\ s2c' = f /\ f # None /\ f.n = leanCount + 1
    BY <1>7, NoneIsNoFrame DEF S2cHold
  <2>2. leanCount + 1 \notin consumed
    BY <1>2, <1>4
  <2> QED
    BY <2>1, <2>2, <1>1, <1>2, <1>3, <1>4, <1>5 DEF ToHelixInv
<1> QED
  BY <1>1, <1>6, <1>7 DEF S2cRead, S2cHold

\* The held frame joins the queue: its number is above all those before it.
LEMMA S2cForwardToHelix ==
  ASSUME TypeOK, ToHelixInv, S2cForward
  PROVE  ToHelixInv' /\ UNCHANGED <<helixGot, leanCount, consumed>>
<1> DEFINE L == Len(Forwarded)
<1>1. s2c \in ServerFrame /\ Forwarded \in Seq(ServerFrame)
      /\ Forwarded' = Append(Forwarded, s2c)
  BY S2cForwardAppends, ForwardedParts
<1>2. /\ L \in Nat /\ DOMAIN Forwarded = 1 .. L /\ DOMAIN Forwarded' = 1 .. L + 1
      /\ \A i \in 1 .. L : Forwarded'[i] = Forwarded[i]
      /\ Forwarded'[L + 1] = s2c
  BY <1>1, AppendParts
<1>3. UNCHANGED <<leanCount, consumed, helixGot>> /\ s2c' = None /\ s2c # None
  BY DEF S2cForward, leanVars
<1> HIDE DEF L
<1>4. \A i \in DOMAIN Forwarded' : Forwarded'[i].n \in (1 .. leanCount) \ consumed
  BY <1>2, <1>3 DEF ToHelixInv
<1>5. \A i, j \in DOMAIN Forwarded' : i < j => Forwarded'[i].n < Forwarded'[j].n
  <2> TAKE i, j \in DOMAIN Forwarded'
  <2> HAVE i < j
  <2>1. i \in 1 .. L /\ (j \in 1 .. L \/ j = L + 1)
    BY <1>2
  <2> QED
    BY <2>1, <1>2, <1>3 DEF ToHelixInv
<1>6. \A n \in (1 .. leanCount) \ consumed :
        \E i \in DOMAIN Forwarded' : Forwarded'[i].n = n
  <2> TAKE n \in (1 .. leanCount) \ consumed
  <2>1. CASE s2c.n = n
    BY <2>1, <1>2
  <2>2. ASSUME NEW i \in DOMAIN Forwarded, Forwarded[i].n = n
        PROVE  \E j \in DOMAIN Forwarded' : Forwarded'[j].n = n
    BY <2>2, <1>2
  <2> QED
    BY <2>1, <2>2 DEF ToHelixInv
<1> QED
  BY <1>3, <1>4, <1>5, <1>6 DEF ToHelixInv

\* Helix receives the oldest frame of the queue.
LEMMA HelixWriterToHelix ==
  ASSUME TypeOK, ToHelixInv, HelixWriter
  PROVE  /\ ToHelixInv' /\ UNCHANGED <<leanCount, consumed>>
         /\ toHelix # <<>> /\ helixGot' = Append(helixGot, Head(toHelix))
<1>1. UNCHANGED <<leanCount, consumed, s2c>>
  BY DEF HelixWriter, leanVars
<1>2. Forwarded' = Forwarded
  BY HelixWriterKeeps
<1> QED
  BY <1>1, <1>2, ToHelixUnchanged DEF HelixWriter

\* No other action touches them.
LEMMA ToHelixNext ==
  ASSUME TypeOK, ToHelixInv, [Next]_vars
  PROVE  /\ ToHelixInv'
         /\ \/ UNCHANGED <<helixGot, leanCount, consumed>>
            \/ /\ UNCHANGED helixGot /\ leanCount' = leanCount + 1
               /\ consumed' \in {consumed, consumed \cup {leanCount + 1}}
            \/ /\ UNCHANGED <<leanCount, consumed>>
               /\ toHelix # <<>> /\ helixGot' = Append(helixGot, Head(toHelix))
<1> DEFINE quiet == <<helixGot, toHelix, s2c, leanCount, consumed>>
<1>1. CASE UNCHANGED quiet
  BY <1>1, ToHelixUnchanged DEF Forwarded
<1>2. CASE HelixSpeaks
  BY <1>1, <1>2 DEF HelixSpeaks, C2sRead, leanVars
<1>3. CASE C2sForward \/ SnoopObserve \/ DebounceFires
  BY <1>1, <1>3 DEF C2sForward, c2sFrame, SnoopObserve, DebounceFires, leanVars
<1>4. CASE LeanWriter
  BY <1>1, <1>4 DEF LeanWriter
<1>5. CASE UNCHANGED vars
  BY <1>1, <1>5 DEF vars, leanVars
<1>6. CASE QueryAnswered \/ RequestReplied \/ LeanSpeaks
  BY <1>6, LeanWrites, S2cReadToHelix
<1> QED
  BY <1>2, <1>3, <1>4, <1>5, <1>6, S2cForwardToHelix, HelixWriterToHelix DEF Next

\* In every reachable state.
LEMMA AlwaysToHelix == Spec => []ToHelixInv
BY TypeCorrect, InitToHelix, ToHelixNext, PTL DEF Spec

\* One frame received is one step of the pipe.
LEMMA ToHelixStep ==
  ASSUME TypeOK, ToHelixInv, [Next]_vars
  PROVE  [ToHelix!Write \/ ToHelix!Read]_<<leanCount, consumed, NumbersOf(helixGot)>>
<1>1. CASE UNCHANGED <<helixGot, leanCount, consumed>>
  BY <1>1
<1>2. CASE /\ UNCHANGED helixGot /\ leanCount' = leanCount + 1
           /\ consumed' \in {consumed, consumed \cup {leanCount + 1}}
  BY <1>2 DEF ToHelix!Write
<1>3. CASE /\ UNCHANGED <<leanCount, consumed>>
           /\ toHelix # <<>> /\ helixGot' = Append(helixGot, Head(toHelix))
  <2> DEFINE G == Len(helixGot)
             f == Head(toHelix)
  <2>1. /\ helixGot \in Seq(ServerFrame) /\ f \in ServerFrame
        /\ G \in Nat /\ DOMAIN helixGot = 1 .. G
        /\ DOMAIN Forwarded \subseteq Nat
        /\ \A i \in 1 .. G : i \in DOMAIN Forwarded /\ Forwarded[i] = helixGot[i]
        /\ G + 1 \in DOMAIN Forwarded /\ Forwarded[G + 1] = f
    BY <1>3, ForwardedParts DEF TypeOK
  <2>2. NumbersOf(helixGot)' = Append(NumbersOf(helixGot), f.n)
    <3>1. NumbersOf(helixGot)' = NumbersOf(helixGot')
      BY DEF NumbersOf
    <3> QED
      BY <3>1, <1>3, <2>1, NumbersOfAppend
  <2>3. /\ DOMAIN NumbersOf(helixGot) = 1 .. G
        /\ \A i \in 1 .. G : NumbersOf(helixGot)[i] = helixGot[i].n
    BY <2>1 DEF NumbersOf
  <2> HIDE DEF f, G
  <2>4. /\ f.n \in (1 .. leanCount) \ consumed
        /\ \A i \in DOMAIN Forwarded : Forwarded[i].n \in Nat
        /\ leanCount \in Nat
    BY <2>1 DEF ToHelixInv, TypeOK
  <2>5. \A i \in DOMAIN Forwarded : i < G + 1 => Forwarded[i].n < f.n
    BY <2>1 DEF ToHelixInv
  <2>6. \A i \in DOMAIN NumbersOf(helixGot) : NumbersOf(helixGot)[i] # f.n
    <3> TAKE i \in DOMAIN NumbersOf(helixGot)
    <3>1. i \in 1 .. G /\ i < G + 1
      BY <2>1, <2>3
    <3>2. i \in DOMAIN Forwarded /\ NumbersOf(helixGot)[i] = Forwarded[i].n
      BY <3>1, <2>1, <2>3
    <3>3. Forwarded[i].n < f.n /\ Forwarded[i].n \in Nat
      BY <3>1, <3>2, <2>4, <2>5
    <3> QED
      BY <3>2, <3>3
  <2>7. \A m \in 1 .. f.n - 1 :
          m \in consumed \/ \E i \in DOMAIN NumbersOf(helixGot) : NumbersOf(helixGot)[i] = m
    <3> SUFFICES ASSUME NEW m \in 1 .. f.n - 1, m \notin consumed
                 PROVE  \E i \in DOMAIN NumbersOf(helixGot) : NumbersOf(helixGot)[i] = m
      OBVIOUS
    <3>1. m \in (1 .. leanCount) \ consumed /\ m < f.n
      BY <2>4
    <3>2. ~(s2c # None /\ s2c.n = m)
      <4>1. s2c # None => f.n < s2c.n
        BY <2>1 DEF ToHelixInv
      <4>2. s2c # None => s2c.n \in Nat
        BY DEF ToHelixInv
      <4> QED
        BY <3>1, <4>1, <4>2, <2>4
    <3>3. PICK i \in DOMAIN Forwarded : Forwarded[i].n = m
      BY <3>1, <3>2 DEF ToHelixInv
    <3>4. i # G + 1 /\ ~(G + 1 < i)
      <4>1. G + 1 < i => f.n < Forwarded[i].n
        BY <2>1 DEF ToHelixInv
      <4> QED
        BY <3>1, <3>3, <4>1, <2>1, <2>4
    <3>5. i \in 1 .. G
      <4>1. i \in Nat /\ i # 0
        BY <2>1, ForwardedParts
      <4> QED
        BY <4>1, <3>4, <2>1
    <3> QED
      BY <3>3, <3>5, <2>1, <2>3
  <2> QED
    BY <1>3, <2>2, <2>4, <2>6, <2>7 DEF ToHelix!Read
<1> QED
  BY <1>1, <1>2, <1>3, ToHelixNext

\* Every message of Lean reaches Helix once and in order, unless it is consumed.
THEOREM ToHelixPipe == Spec => ToHelixIsAPipe
<1>1. Init => ToHelix!Init
  BY DEF Init, ToHelix!Init, NumbersOf
<1> QED
  BY <1>1, TypeCorrect, AlwaysToHelix, ToHelixStep, PTL DEF Spec, ToHelixIsAPipe, ToHelix!Spec

----------------------------------------------------------------------------
(* The copied notifications. *)

ProgressAt == {i \in DOMAIN Forwarded : Forwarded[i].method = "progress"}

\* The snapshot repeats the notifications forwarded: of each document the last
\* diagnostics, of the progress the last, whosever it was.
NoticesInv ==
  /\ s2c # None /\ s2c.method \in Notices => s2c.uri \in Uri
  /\ DiagnosticsAgree
  /\ IF ProgressAt = {} THEN snapshot.progress = {}
     ELSE \E i \in ProgressAt : /\ \A j \in ProgressAt : j <= i
                                /\ snapshot.progress = Forwarded[i].ranges
  /\ snapshot.elaborating <=> snapshot.progress # {}
  /\ snapshot.doc # None <=> snapshot.position # None

\* The greatest member of a set of numbers is the one chosen.
LEMMA GreatestChosen ==
  ASSUME NEW ns, ns \subseteq Nat, NEW k \in ns, \A m \in ns : m <= k
  PROVE  (CHOOSE n \in ns : \A m \in ns : m <= n) = k
<1> DEFINE c == CHOOSE n \in ns : \A m \in ns : m <= n
<1>1. c \in ns /\ \A m \in ns : m <= c
  OBVIOUS
<1> HIDE DEF c
<1>2. c \in Nat /\ k \in Nat /\ c <= k /\ k <= c
  BY <1>1
<1>3. c = k
  BY <1>2
<1> QED
  BY <1>3 DEF c

LEMMA InitNotices == Init => NoticesInv
<1> SUFFICES ASSUME Init PROVE NoticesInv
  OBVIOUS
<1>1. Forwarded = <<>> /\ s2c = None
  BY DEF Init, Forwarded
<1>2. /\ snapshot.doc = None /\ snapshot.position = None
      /\ snapshot.progress = {} /\ snapshot.elaborating = FALSE
      /\ \A u \in Uri : snapshot.diagnostics[u] = 0
  BY DEF Init, StateInit
<1>3. \A u \in Uri : Newest("diagnostics", u) = 0
  BY <1>1 DEF Newest, ToSet
<1> QED
  BY <1>1, <1>2, <1>3 DEF NoticesInv, DiagnosticsAgree, ProgressAt

\* An answer folded in leaves the notifications alone and names a place.
LEMMA HandleKeeps ==
  ASSUME snapshot \in Snapshot, NEW p \in Pending, NEW f, HandleInjectedResponse(p, f)
  PROVE  /\ snapshot'.diagnostics = snapshot.diagnostics
         /\ snapshot'.progress = snapshot.progress
         /\ snapshot'.elaborating = snapshot.elaborating
         /\ snapshot'.doc # None /\ snapshot'.position # None
<1>1. p.doc # None /\ p.position # None
  BY NoneIsNoFocus, NoneIsNoValue DEF Pending
<1> QED
  BY <1>1 DEF HandleInjectedResponse, Update, Snapshot

\* Nothing is forwarded and the snapshot's notifications stay.
LEMMA NoticesKept ==
  ASSUME NoticesInv, Forwarded' = Forwarded,
         s2c' # None /\ s2c'.method \in Notices => s2c'.uri \in Uri,
         snapshot'.diagnostics = snapshot.diagnostics,
         snapshot'.progress = snapshot.progress,
         snapshot'.elaborating = snapshot.elaborating,
         snapshot'.doc # None <=> snapshot'.position # None
  PROVE  NoticesInv'
<1>1. ProgressAt' = ProgressAt
  BY DEF ProgressAt
<1>2. \A u \in Uri : Newest("diagnostics", u)' = Newest("diagnostics", u)
  BY DEF Newest
<1> QED
  BY <1>1, <1>2 DEF NoticesInv, DiagnosticsAgree

LEMMA S2cReadNotices ==
  ASSUME TypeOK, NoticesInv, NEW f \in ServerFrame, S2cRead(f),
         f.method \in Notices => f.uri \in Uri
  PROVE  NoticesInv'
<1>1. Forwarded' = Forwarded /\ s2c = None
  BY DEF S2cRead, Forwarded
<1>2. ASSUME NEW p \in Ours(f), S2cConsume(f, p)
      PROVE  NoticesInv'
  <2>1. p \in Pending /\ snapshot \in Snapshot /\ s2c' = None
    BY <1>1, <1>2 DEF TypeOK, Ours, Matches, S2cConsume
  <2>2. CASE HandleInjectedResponse(p, f)
    BY <1>1, <2>1, <2>2, HandleKeeps, NoticesKept
  <2>3. CASE UNCHANGED snapshot
    BY <1>1, <2>1, <2>3, NoticesKept DEF NoticesInv
  <2> QED
    BY <1>2, <2>2, <2>3 DEF S2cConsume
<1>3. CASE S2cHold(f)
  BY <1>1, <1>3, NoticesKept DEF S2cHold, NoticesInv
<1> QED
  BY <1>2, <1>3 DEF S2cRead

\* The copy of the frame forwarded last is folded in: its number is above those
\* of all earlier frames, so it is the newest of its kind.
LEMMA S2cForwardNotices ==
  ASSUME TypeOK, ToHelixInv, NoticesInv, S2cForward
  PROVE  NoticesInv'
<1> DEFINE L == Len(Forwarded)
<1>1. s2c \in ServerFrame /\ Forwarded \in Seq(ServerFrame)
      /\ Forwarded' = Append(Forwarded, s2c)
  BY S2cForwardAppends, ForwardedParts
<1>2. /\ L \in Nat /\ DOMAIN Forwarded = 1 .. L /\ DOMAIN Forwarded' = 1 .. L + 1
      /\ \A i \in 1 .. L : Forwarded'[i] = Forwarded[i]
      /\ Forwarded'[L + 1] = s2c
  BY <1>1, AppendParts
<1>3. /\ s2c' = None /\ s2c # None
      /\ s2c.method \in Notices => s2c.uri \in Uri
      /\ snapshot \in Snapshot
  BY DEF S2cForward, NoticesInv, TypeOK
<1>4. s2c.n \in Nat /\ \A i \in 1 .. L : Forwarded[i].n \in Nat
  <2>1. \A i \in 1 .. L : Forwarded[i] \in ServerFrame
    BY <1>1, <1>2
  <2>2. \A f \in ServerFrame : f.n \in Nat
    BY DEF ServerFrame
  <2> QED
    BY <1>1, <2>1, <2>2
<1>5. \A i \in 1 .. L : Forwarded[i].n <= s2c.n
  <2> TAKE i \in 1 .. L
  <2>1. Forwarded[i].n < s2c.n
    BY <1>2, <1>3 DEF ToHelixInv
  <2> QED
    BY <2>1, <1>4
<1> HIDE DEF L
<1> DEFINE Ns(u) == {f.n : f \in {g \in ToSet(Forwarded) : g.method = "diagnostics" /\ g.uri = u}}
           NsNew(u) == {f.n : f \in {g \in ToSet(Forwarded') : g.method = "diagnostics" /\ g.uri = u}}
<1>6. /\ \A u \in Uri : Newest("diagnostics", u)
           = IF Ns(u) = {} THEN 0 ELSE CHOOSE n \in Ns(u) : \A m \in Ns(u) : m <= n
      /\ \A u \in Uri : Newest("diagnostics", u)'
           = IF NsNew(u) = {} THEN 0 ELSE CHOOSE n \in NsNew(u) : \A m \in NsNew(u) : m <= n
  BY DEF Newest
<1>7. \A f : f \in ToSet(Forwarded') <=> f \in ToSet(Forwarded) \/ f = s2c
  <2>1. \A f : f \in ToSet(Forwarded) <=> \E i \in 1 .. L : f = Forwarded[i]
    BY <1>2 DEF ToSet
  <2>2. \A f : f \in ToSet(Forwarded') <=> \E i \in 1 .. L + 1 : f = Forwarded'[i]
    BY <1>2 DEF ToSet
  <2>3. \A i : i \in 1 .. L + 1 <=> i \in 1 .. L \/ i = L + 1
    BY <1>2
  <2> QED
    BY <2>1, <2>2, <2>3, <1>2
<1>8. \A f \in ToSet(Forwarded) : f.n \in Nat /\ f.n <= s2c.n
  BY <1>2, <1>4, <1>5 DEF ToSet
<1>9. DiagnosticsAgree'
  <2> SUFFICES ASSUME NEW u \in Uri
               PROVE  snapshot'.diagnostics[u] = Newest("diagnostics", u)'
    BY DEF DiagnosticsAgree
  <2>1. snapshot.diagnostics[u] = Newest("diagnostics", u)
    BY DEF NoticesInv, DiagnosticsAgree
  <2>2. CASE s2c.method = "diagnostics" /\ s2c.uri = u
    <3>1. snapshot'.diagnostics[u] = s2c.n
      <4>1. ApplyDiagnostics(s2c)
        BY <2>2 DEF S2cForward, TeeTarget
      <4> QED
        BY <1>3, <2>2, <4>1 DEF ApplyDiagnostics, Update, Snapshot
    <3>2. NsNew(u) \subseteq Nat /\ s2c.n \in NsNew(u) /\ \A m \in NsNew(u) : m <= s2c.n
      BY <1>4, <1>7, <1>8, <2>2
    <3> HIDE DEF NsNew
    <3> QED
      BY <1>6, <3>1, <3>2, GreatestChosen
  <2>3. CASE ~(s2c.method = "diagnostics" /\ s2c.uri = u)
    <3>1. NsNew(u) = Ns(u)
      BY <1>7, <2>3
    <3>2. snapshot'.diagnostics[u] = snapshot.diagnostics[u]
      <4>1. CASE s2c.method = "diagnostics"
        <5>1. s2c.uri # u /\ s2c.uri \in Uri /\ snapshot.diagnostics \in [Uri -> Nat]
          BY <1>3, <2>3, <4>1 DEF Notices, Snapshot
        <5>2. snapshot'.diagnostics = [snapshot.diagnostics EXCEPT ![s2c.uri] = s2c.n]
          BY <1>3, <4>1 DEF S2cForward, TeeTarget, ApplyDiagnostics, Update, Snapshot
        <5> QED
          BY <5>1, <5>2
      <4>2. CASE s2c.method # "diagnostics"
        BY <1>3, <4>2 DEF S2cForward, TeeTarget, ApplyProgress, Update, Snapshot
      <4> QED
        BY <4>1, <4>2
    <3> HIDE DEF Ns, NsNew
    <3> QED
      BY <1>6, <2>1, <3>1, <3>2
  <2> QED
    BY <2>2, <2>3
<1>10. snapshot'.doc = snapshot.doc /\ snapshot'.position = snapshot.position
  BY <1>3 DEF S2cForward, TeeTarget, ApplyDiagnostics, ApplyProgress, Update, Snapshot
<1>11. CASE s2c.method = "progress"
  <2>1. snapshot'.progress = s2c.ranges /\ snapshot'.elaborating = (s2c.ranges # {})
    BY <1>3, <1>11 DEF S2cForward, TeeTarget, ApplyProgress, Update, Snapshot
  <2>2. L + 1 \in ProgressAt' /\ \A j \in ProgressAt' : j <= L + 1
    BY <1>2, <1>3, <1>11 DEF ProgressAt, Notices
  <2>3. snapshot'.elaborating <=> snapshot'.progress # {}
    BY <2>1
  <2>4. snapshot'.doc # None <=> snapshot'.position # None
    BY <1>10 DEF NoticesInv
  <2> QED
    BY <1>2, <1>3, <1>9, <2>1, <2>2, <2>3, <2>4 DEF NoticesInv
<1>12. CASE s2c.method # "progress"
  <2>1. snapshot'.elaborating = snapshot.elaborating /\ snapshot'.progress = snapshot.progress
    BY <1>3, <1>12 DEF S2cForward, TeeTarget, ApplyDiagnostics, Update, Snapshot
  <2>2. ProgressAt' = ProgressAt /\ \A i \in ProgressAt : Forwarded'[i] = Forwarded[i]
    BY <1>2, <1>12 DEF ProgressAt
  <2> QED
    BY <1>3, <1>9, <1>10, <2>1, <2>2 DEF NoticesInv
<1> QED
  BY <1>11, <1>12

LEMMA NoticesNext ==
  ASSUME TypeOK, ToHelixInv, NoticesInv, [Next]_vars
  PROVE  NoticesInv'
<1>1. CASE UNCHANGED <<snapshot, helixGot, toHelix, s2c>>
  <2>1. Forwarded' = Forwarded
    BY <1>1 DEF Forwarded
  <2> QED
    BY <1>1, <2>1, NoticesKept DEF NoticesInv
<1>2. CASE HelixSpeaks
  BY <1>1, <1>2 DEF HelixSpeaks, C2sRead
<1>3. CASE C2sForward \/ SnoopObserve \/ DebounceFires
  BY <1>1, <1>3 DEF C2sForward, c2sFrame, SnoopObserve, DebounceFires
<1>4. CASE LeanWriter
  BY <1>1, <1>4 DEF LeanWriter
<1>5. CASE UNCHANGED vars
  BY <1>1, <1>5 DEF vars
<1>6. CASE QueryAnswered \/ RequestReplied \/ LeanSpeaks
  BY <1>6, LeanWrites, S2cReadNotices
<1>7. CASE HelixWriter
  <2>1. Forwarded' = Forwarded /\ UNCHANGED <<snapshot, s2c>>
    BY <1>7, HelixWriterKeeps DEF HelixWriter
  <2> QED
    BY <2>1, NoticesKept DEF NoticesInv
<1> QED
  BY <1>2, <1>3, <1>4, <1>5, <1>6, <1>7, S2cForwardNotices DEF Next

\* In every reachable state.
LEMMA AlwaysNotices == Spec => []NoticesInv
BY TypeCorrect, AlwaysToHelix, InitNotices, NoticesNext, PTL DEF Spec

\* The viewer's diagnostics of a document are always the last queued to Helix.
THEOREM DiagnosticsCurrent == Spec => []DiagnosticsAgree
<1>1. NoticesInv => DiagnosticsAgree
  BY DEF NoticesInv
<1> QED
  BY <1>1, AlwaysNotices, PTL

\* The snapshot's ranges are those of the last progress queued to Helix.
LEMMA ProgressIsLast == TypeOK /\ NoticesInv => snapshot.progress = LastProgress
<1> SUFFICES ASSUME TypeOK, NoticesInv PROVE snapshot.progress = LastProgress
  OBVIOUS
<1>1. ProgressAt \subseteq Nat
  BY ForwardedParts DEF ProgressAt
<1>2. LastProgress =
        IF ProgressAt = {} THEN {}
        ELSE Forwarded[CHOOSE i \in ProgressAt : \A j \in ProgressAt : j <= i].ranges
  BY DEF LastProgress, ProgressAt
<1>3. CASE ProgressAt = {}
  BY <1>2, <1>3 DEF NoticesInv
<1>4. CASE ProgressAt # {}
  <2>1. PICK i \in ProgressAt : /\ \A j \in ProgressAt : j <= i
                                /\ snapshot.progress = Forwarded[i].ranges
    BY <1>4 DEF NoticesInv
  <2>2. (CHOOSE k \in ProgressAt : \A j \in ProgressAt : j <= k) = i
    BY <1>1, <2>1, GreatestChosen
  <2> QED
    BY <1>2, <1>4, <2>1, <2>2
<1> QED
  BY <1>3, <1>4

\* The panes say of those ranges what they should: a range of the snapshot holds
\* the focus's line for the viewer exactly when Lean is at work there.
LEMMA NoticesMarkStale == TypeOK /\ NoticesInv => StaleMarked
<1> SUFFICES ASSUME TypeOK, NoticesInv PROVE StaleMarked
  OBVIOUS
<1>1. snapshot.progress = LastProgress
  BY ProgressIsLast
<1>2. snapshot.progress \in SUBSET LineRange /\ snapshot.position \in Position \cup {None}
  BY DEF TypeOK, Snapshot
<1>3. ProgressPane(snapshot) = IF LastProgress = {} THEN "idle" ELSE "elaborating"
  BY <1>1 DEF ProgressPane, NoticesInv
<1>4. GoalsPane(snapshot, "connected").stale = FocusIsElaborating(snapshot)
  BY DEF GoalsPane
<1>5. FocusIsElaborating(snapshot) <=> AtWorkOnFocus(snapshot.progress)
  <2>1. CASE snapshot.position = None
    BY <2>1 DEF FocusIsElaborating, AtWorkOnFocus, NoticesInv
  <2>2. CASE snapshot.position # None
    <3>1. Line[snapshot.position] \in Nat
      BY <1>2, <2>2, LineAssumption
    <3>2. \A r \in snapshot.progress :
            Line[snapshot.position] \in r.start .. r.end
              <=> r.start <= Line[snapshot.position] /\ Line[snapshot.position] <= r.end
      BY <1>2, <3>1 DEF LineRange
    <3> QED
      BY <2>2, <3>2 DEF FocusIsElaborating, AtWorkOnFocus, NoticesInv
  <2> QED
    BY <2>1, <2>2
<1>6. GoalsPane(snapshot, "connected").stale <=> AtWorkOnFocus(LastProgress)
  BY <1>1, <1>4, <1>5, Zenon
<1> QED
  BY <1>3, <1>6, Zenon DEF StaleMarked

\* The viewer marks the goals it shows as maybe stale exactly while a range of the
\* last progress Lean reported holds the line of their cursor, and says that Lean
\* is elaborating exactly while that progress has ranges (tee.rs, apply_progress,
\* focus_is_elaborating).
THEOREM StaleIsMarked == Spec => []StaleMarked
BY TypeCorrect, AlwaysNotices, NoticesMarkStale, PTL
============================================================================
