---------------------------- MODULE QueryProofs ----------------------------
(***************************************************************************)
(* Proofs about the snoop and the injected queries in Forward.  No query   *)
(* overtakes the message whose cursor it asks about; a snoop that missed   *)
(* nothing and has caught up knows the editor's session and has asked about*)
(* its last cursor.  Exactly the queries' answers are kept from Helix, only*)
(* those of the newest focus are shown (both rest on ConsumeInv: the       *)
(* registry holds the ids in flight, and an id is in flight once), and once*)
(* both are, every pane speaks of it.                                      *)
(***************************************************************************)
EXTENDS ForwardProofs

----------------------------------------------------------------------------
(* No query overtakes its cause. *)

\* A focus is caused by the message it was read from.
LEMMA FocusIsCaused ==
  ASSUME NEW s, NEW f, FocusOf(s, f) # None
  PROVE  /\ FocusOf(s, f).cause = f.n /\ IsCursor(f)
         /\ s.initialized /\ s.docs[f.uri] # None
BY DEF FocusOf, LegalFocus, IsCursor

LEMMA CursorIsCaused ==
  ASSUME NEW s \in SnoopState, NEW f \in ClientFrame, IsCursor(f),
         s.initialized, s.docs[f.uri] # None
  PROVE  FocusOf(s, f) # None
BY FocusOfType, NoneIsNoFocus
   DEF FocusOf, LegalFocus, IsCursor, Focus, ClientFrame, SnoopState

\* What the snoop holds was passed on before, and a query waits behind its cause.
CausesInv ==
  /\ \A i \in DOMAIN snoopQ : snoopQ[i].n <= PassedOn
  /\ pending # None => pending.cause <= PassedOn
  /\ \A i \in DOMAIN toLean : toLean[i].from = "proxy" =>
       /\ toLean[i].cause <= PassedOn
       /\ \A j \in DOMAIN toLean : toLean[j].from = "helix" /\ i < j =>
            toLean[i].cause < toLean[j].n
  /\ QueryAfterCause

LEMMA InitCauses == Init => CausesInv
BY DEF Init, QueryInit, SnoopInit, CausesInv, QueryAfterCause

LEMMA CausesUnchanged ==
  ASSUME CausesInv, UNCHANGED <<PassedOn, snoopQ, pending, toLean, leanGot>>,
         leanQueries' \subseteq leanQueries
  PROVE  CausesInv'
BY DEF CausesInv, QueryAfterCause

LEMMA C2sForwardCauses ==
  ASSUME TypeOK, ToLeanInv, CausesInv, C2sForward
  PROVE  CausesInv'
<1> DEFINE L == Len(toLean)
           S == Len(snoopQ)
<1>1. c2s \in ClientFrame /\ toLean \in Seq(ClientFrame \cup QueryFrame)
      /\ snoopQ \in Seq(ClientFrame)
  BY DEF TypeOK, C2sForward
<1>2. /\ L \in Nat /\ DOMAIN toLean = 1 .. L /\ DOMAIN toLean' = 1 .. L + 1
      /\ \A i \in 1 .. L : toLean'[i] = toLean[i]
      /\ toLean'[L + 1] = c2s /\ c2s.from = "helix"
  BY <1>1, AppendParts DEF C2sForward, ClientFrame
<1>3. PassedOn = sent - 1 /\ PassedOn' = sent /\ c2s.n = sent /\ sent \in Nat
  BY C2sForwardToLean DEF TypeOK
<1>4. UNCHANGED <<pending, leanQueries, leanGot>>
  BY DEF C2sForward, c2sFrame, leanVars
<1>nat. /\ \A i \in 1 .. S : snoopQ[i].n \in Nat
        /\ \A i \in 1 .. L : toLean[i].from = "proxy" => toLean[i].cause \in Nat
        /\ pending # None => pending.cause \in Nat
  <2>1. /\ \A i \in 1 .. S : snoopQ[i] \in ClientFrame
        /\ \A i \in 1 .. L : toLean[i] \in ClientFrame \cup QueryFrame
        /\ pending \in Focus \cup {None}
    BY <1>1, <1>2 DEF TypeOK
  <2> HIDE DEF S, L
  <2> QED
    BY <2>1 DEF ClientFrame, QueryFrame, Focus
<1>5. \A i \in DOMAIN snoopQ' : snoopQ'[i].n <= sent
  <2>1. \A i \in 1 .. S : snoopQ[i].n <= sent
    <3> TAKE i \in 1 .. S
    <3>1. snoopQ[i].n <= sent - 1 /\ snoopQ[i].n \in Nat
      BY <1>1, <1>3, <1>nat DEF CausesInv
    <3> QED
      BY <3>1, <1>3
  <2>2. CASE snoopQ' = Append(snoopQ, c2s)
    <3>1. /\ S \in Nat /\ DOMAIN snoopQ' = 1 .. S + 1
          /\ \A i \in 1 .. S : snoopQ'[i] = snoopQ[i]
          /\ snoopQ'[S + 1] = c2s
      BY <1>1, <2>2, AppendParts
    <3> HIDE DEF S
    <3> QED
      BY <1>3, <2>1, <3>1
  <2>3. CASE snoopQ' = snoopQ
    BY <1>1, <2>1, <2>3
  <2> QED
    BY <2>2, <2>3 DEF C2sForward
<1> HIDE DEF L, S
<1>6. \A i \in DOMAIN toLean' : toLean'[i].from = "proxy" =>
        /\ toLean'[i].cause <= sent
        /\ \A j \in DOMAIN toLean' : toLean'[j].from = "helix" /\ i < j =>
             toLean'[i].cause < toLean'[j].n
  <2> SUFFICES ASSUME NEW i \in DOMAIN toLean', toLean'[i].from = "proxy"
               PROVE  /\ toLean'[i].cause <= sent
                      /\ \A j \in DOMAIN toLean' : toLean'[j].from = "helix" /\ i < j =>
                           toLean'[i].cause < toLean'[j].n
    OBVIOUS
  <2>1. i \in 1 .. L /\ toLean'[i] = toLean[i]
    BY <1>2
  <2>2. toLean[i].cause \in Nat /\ toLean[i].cause <= sent - 1
    BY <1>2, <1>3, <1>nat, <2>1 DEF CausesInv
  <2>3. toLean[i].cause < sent /\ toLean[i].cause <= sent
    BY <1>3, <2>2
  <2>4. ASSUME NEW j \in DOMAIN toLean', toLean'[j].from = "helix", i < j
        PROVE  toLean'[i].cause < toLean'[j].n
    <3>1. CASE j = L + 1
      BY <3>1, <1>2, <1>3, <2>1, <2>3
    <3>2. CASE j \in 1 .. L
      BY <3>2, <1>2, <2>1, <2>4 DEF CausesInv
    <3> QED
      BY <3>1, <3>2, <1>2
  <2> QED
    BY <2>1, <2>3, <2>4
<1>7. pending # None => pending.cause <= sent
  BY <1>3, <1>nat DEF CausesInv
<1> QED
  BY <1>3, <1>4, <1>5, <1>6, <1>7 DEF CausesInv, QueryAfterCause

LEMMA SnoopObserveCauses ==
  ASSUME TypeOK, CausesInv, SnoopObserve
  PROVE  CausesInv'
<1>1. snoopQ \in Seq(ClientFrame) /\ snoopQ # <<>> /\ snoopQ' = Tail(snoopQ)
  BY DEF TypeOK, SnoopObserve, SnoopRecv
<1>2. /\ Head(snoopQ) = snoopQ[1] /\ 1 \in DOMAIN snoopQ
      /\ \A i \in DOMAIN snoopQ' : i + 1 \in DOMAIN snoopQ /\ snoopQ'[i] = snoopQ[i + 1]
  BY <1>1, TailParts
<1>3. UNCHANGED <<PassedOn, toLean, leanGot, leanQueries>>
  BY DEF SnoopObserve, queryVars, helixVars, leanVars, PassedOn
<1>4. pending' # None => pending'.cause <= PassedOn
  <2>1. PICK s : pending' = IF FocusOf(s, Head(snoopQ)) # None
                            THEN FocusOf(s, Head(snoopQ)) ELSE pending
    BY DEF SnoopObserve, SnoopRecv
  <2> QED
    BY <1>2, <2>1, FocusIsCaused DEF CausesInv
<1>5. \A i \in DOMAIN snoopQ' : snoopQ'[i].n <= PassedOn
  BY <1>2 DEF CausesInv
<1> QED
  BY <1>3, <1>4, <1>5 DEF CausesInv, QueryAfterCause

LEMMA DebounceFiresCauses ==
  ASSUME TypeOK, CausesInv, DebounceFires
  PROVE  CausesInv'
<1>1. /\ UNCHANGED <<PassedOn, snoopQ, leanGot, leanQueries>>
      /\ pending # None /\ pending' = None
  BY DEF DebounceFires, SnoopFire, leanVars, helixVars, PassedOn
<1>2. \A i \in DOMAIN toLean' :
        \/ i \in DOMAIN toLean /\ toLean'[i] = toLean[i]
        \/ /\ toLean'[i].from = "proxy" /\ toLean'[i].cause = pending.cause
           /\ \A j \in DOMAIN toLean' : i < j => toLean'[j].from = "proxy"
  BY FireAppends
<1>3. \A i \in DOMAIN toLean' : toLean'[i].from = "proxy" =>
        /\ toLean'[i].cause <= PassedOn
        /\ \A j \in DOMAIN toLean' : toLean'[j].from = "helix" /\ i < j =>
             toLean'[i].cause < toLean'[j].n
  BY <1>1, <1>2 DEF CausesInv
<1> QED
  BY <1>1, <1>3 DEF CausesInv, QueryAfterCause

\* When a query comes to the head of the queue its cause has left it.
LEMMA LeanWriterCauses ==
  ASSUME TypeOK, ToLeanInv, CausesInv, LeanWriter
  PROVE  CausesInv'
<1> DEFINE f == Head(toLean)
<1>1. toLean \in Seq(ClientFrame \cup QueryFrame) /\ toLean # <<>> /\ toLean' = Tail(toLean)
  BY DEF TypeOK, LeanWriter
<1>2. /\ f = toLean[1] /\ 1 \in DOMAIN toLean /\ DOMAIN toLean \subseteq Nat \ {0}
      /\ f \in ClientFrame \cup QueryFrame
      /\ \A i \in DOMAIN toLean' : i + 1 \in DOMAIN toLean /\ toLean'[i] = toLean[i + 1]
      /\ DOMAIN toLean' \subseteq Nat
  BY <1>1, TailParts
<1>3. UNCHANGED <<PassedOn, snoopQ, pending>>
  BY DEF LeanWriter, helixVars, snoopVars, PassedOn
<1>4. \A i \in DOMAIN toLean' : toLean'[i].from = "proxy" =>
        /\ toLean'[i].cause <= PassedOn
        /\ \A j \in DOMAIN toLean' : toLean'[j].from = "helix" /\ i < j =>
             toLean'[i].cause < toLean'[j].n
  <2>1. \A i, j \in DOMAIN toLean' : i < j => i + 1 < j + 1
    BY <1>2
  <2> QED
    BY <1>2, <2>1 DEF CausesInv
<1>num. Len(leanGot) \in Nat /\ PassedOn \in Int
        /\ \A q \in leanQueries : q.cause \in Nat
  BY DEF TypeOK, PassedOn, LeanQuery
<1>5. CASE f.from = "helix" /\ LeanReads(f)
  <2>1. leanQueries' = leanQueries /\ Len(leanGot') = Len(leanGot) + 1
    <3>1. f \in ClientFrame
      BY <1>2, <1>5 DEF QueryFrame
    <3> QED
      BY <3>1, <1>5 DEF LeanReads, TypeOK
  <2>2. \A q \in leanQueries : q.cause <= Len(leanGot) + 1
    BY <1>num DEF CausesInv, QueryAfterCause
  <2> QED
    BY <1>3, <1>4, <2>1, <2>2 DEF CausesInv, QueryAfterCause
<1>6. CASE f.from = "proxy" /\ LeanReadsQuery(f)
  <2>1. leanGot' = leanGot /\ \A q \in leanQueries' : q \in leanQueries \/ q.cause = f.cause
    BY <1>6 DEF LeanReadsQuery
  <2>2. f.cause \in Nat /\ f.cause <= PassedOn
    BY <1>2, <1>6 DEF QueryFrame, ClientFrame, CausesInv
  <2> HIDE DEF f
  <2>3. f.cause <= Len(leanGot)
    <3> SUFFICES ASSUME ~(f.cause <= Len(leanGot)) PROVE FALSE
      OBVIOUS
    <3>1. f.cause \in Len(leanGot) + 1 .. PassedOn
      BY <1>num, <2>2
    <3>2. PICK i \in DOMAIN toLean : toLean[i].from = "helix" /\ toLean[i].n = f.cause
      BY <3>1 DEF ToLeanInv
    <3>3. 1 < i
      BY <1>2, <1>6, <3>2
    <3>4. f.cause < toLean[i].n
      BY <1>2, <1>6, <3>2, <3>3 DEF CausesInv
    <3> QED
      BY <2>2, <3>2, <3>4
  <2> QED
    BY <1>3, <1>4, <2>1, <2>3 DEF CausesInv, QueryAfterCause
<1> QED
  BY <1>5, <1>6 DEF LeanWriter

\* No other action touches them, but that Lean's answers end queries.
LEMMA CausesNext ==
  ASSUME TypeOK, ToLeanInv, CausesInv, [Next]_vars
  PROVE  CausesInv'
<1>1. CASE HelixSpeaks
  <2>1. UNCHANGED <<toLean, leanGot, PassedOn>>
    BY <1>1, C2sReadToLean
  <2>2. UNCHANGED <<snoopQ, pending, leanQueries>>
    BY <1>1 DEF HelixSpeaks, C2sRead, snoopVars, leanVars
  <2> QED
    BY <2>1, <2>2, CausesUnchanged
<1>2. CASE QueryAnswered \/ RequestReplied \/ LeanSpeaks
  <2>1. UNCHANGED <<PassedOn, snoopQ, pending, toLean, leanGot>>
    BY <1>2, LeanWrites DEF S2cRead, helixVars, snoopVars, PassedOn
  <2>2. leanQueries' \subseteq leanQueries
    BY <1>2 DEF QueryAnswered, LeanAnswersQuery, RequestReplied, LeanRepliesTo,
                LeanSpeaks, LeanNotifies, LeanRequests
  <2> QED
    BY <2>1, <2>2, CausesUnchanged
<1>3. CASE S2cForward \/ HelixWriter \/ UNCHANGED vars
  <2>1. UNCHANGED <<PassedOn, snoopQ, pending, toLean, leanGot, leanQueries>>
    BY <1>3 DEF S2cForward, HelixWriter, vars, queryVars, snoopVars, helixVars,
                leanVars, PassedOn
  <2> QED
    BY <2>1, CausesUnchanged
<1> QED
  BY <1>1, <1>2, <1>3, C2sForwardCauses, SnoopObserveCauses,
     DebounceFiresCauses, LeanWriterCauses
  DEF Next

\* In every reachable state.
LEMMA AlwaysCauses == Spec => []CausesInv
BY TypeCorrect, AlwaysToLean, InitCauses, CausesNext, PTL DEF Spec

\* Lean never holds a query whose cause it has not read.
THEOREM QueriesFollowTheirCause == Spec => []QueryAfterCause
<1>1. CausesInv => QueryAfterCause
  BY DEF CausesInv
<1> QED
  BY <1>1, AlwaysCauses, PTL

----------------------------------------------------------------------------
(* The snoop's session is the editor's, but for what it has yet to observe. *)

\* The messages passed to the snoop or about to be, oldest first.
Trail == IF c2s = None THEN snoopQ ELSE Append(snoopQ, c2s)

\* f opens, changes or closes u; it leaves u with a version, or closed.
Touches(f, u) == f.method \in {"didOpen", "didChange", "didClose"} /\ f.uri = u
Leaves(f) == IF f.method = "didClose" THEN None ELSE f.version

\* Of the first i messages of t the k-th is the last to touch u.
LastTouch(t, u, i, k) == Touches(t[k], u) /\ \A j \in k + 1 .. i : ~Touches(t[j], u)

\* The editor's session is the snoop's with the trail played on it, and the
\* trail's cursors lie in documents open at their time.
DocsFollow ==
  \A u \in Uri :
    /\ \A k \in DOMAIN Trail : LastTouch(Trail, u, Len(Trail), k) => editor.docs[u] = Leaves(Trail[k])
    /\ (\A k \in DOMAIN Trail : ~Touches(Trail[k], u)) => editor.docs[u] = snoop.docs[u]
PhaseFollows ==
  editor.phase = "open" <=>
    snoop.initialized \/ \E k \in DOMAIN Trail : Trail[k].method = "initialized"
CursorLegal(i) ==
  LET u == Trail[i].uri IN
  /\ u \in Uri
  /\ \A k \in 1 .. i : LastTouch(Trail, u, i, k) => Leaves(Trail[k]) # None
  /\ (\A k \in 1 .. i : ~Touches(Trail[k], u)) => snoop.docs[u] # None
  /\ snoop.initialized \/ \E k \in 1 .. i : Trail[k].method = "initialized"
TrailInv ==
  missed = {} =>
    /\ DocsFollow /\ PhaseFollows
    /\ \A i \in DOMAIN Trail : IsCursor(Trail[i]) => CursorLegal(i)
    /\ \A i \in DOMAIN Trail : Trail[i].n = sent - Len(Trail) + i

\* What a message does to the editor's session when Helix writes it.
LEMMA ReadEffect ==
  ASSUME TypeOK, NEW m \in ClientMethods, NEW u \in Uri \cup {None},
         NEW p \in Position \cup {None}, C2sRead(m, u, p)
  PROVE  LET r == Read(m, u, p) IN
         /\ \A v \in Uri : editor'.docs[v] = IF Touches(r, v) THEN Leaves(r) ELSE editor.docs[v]
         /\ editor'.phase = "open" <=> editor.phase = "open" \/ r.method = "initialized"
         /\ IsCursor(r) => /\ editor.phase = "open" /\ r.uri \in Uri
                           /\ editor.docs[r.uri] # None
                           /\ Touches(r, r.uri) => Leaves(r) # None
<1> DEFINE r == Read(m, u, p)
<1>1. /\ r.method = m /\ r.uri = u /\ r.position = p
      /\ r.version = IF m \in {"didOpen", "didChange"} THEN EditorAfter(m, u).docs[u] ELSE None
  BY DEF Read
<1>2. /\ Legal(m, u, p) /\ editor' = EditorAfter(m, u)
      /\ editor \in [phase : {"start", "waiting", "answered", "open"},
                     docs : [Uri -> Nat \cup {None}]]
  BY DEF C2sRead, TypeOK
<1> HIDE DEF r
<1>3. \A v \in Uri : editor'.docs[v] = IF Touches(r, v) THEN Leaves(r) ELSE editor.docs[v]
  <2> TAKE v \in Uri
  <2>1. CASE m \in {"didOpen", "didChange"}
    BY <1>1, <1>2, <2>1 DEF EditorAfter, Touches, Leaves, Legal
  <2>2. CASE m = "didClose"
    BY <1>1, <1>2, <2>2 DEF EditorAfter, Touches, Leaves
  <2>3. CASE m \notin {"didOpen", "didChange", "didClose"}
    BY <1>1, <1>2, <2>3 DEF EditorAfter, Touches
  <2> QED
    BY <2>1, <2>2, <2>3
<1>4. editor'.phase = "open" <=> editor.phase = "open" \/ r.method = "initialized"
  BY <1>1, <1>2 DEF EditorAfter, Legal
<1>5. ASSUME IsCursor(r)
      PROVE  /\ editor.phase = "open" /\ u \in Uri /\ editor.docs[u] # None
             /\ Touches(r, u) => Leaves(r) # None
  <2>1. m \in {"hover", "didChange"}
    BY <1>1, <1>2, <1>5, SnoopAssumption DEF IsCursor, Legal
  <2>2. editor.phase = "open" /\ u \in Uri /\ editor.docs[u] # None
    BY <1>2, <2>1 DEF Legal
  <2>3. m = "didChange" => r.version \in Nat
    BY <1>1, <1>2, <2>2 DEF EditorAfter
  <2> QED
    BY <1>1, <2>1, <2>2, <2>3, NoneIsNoValue DEF Touches, Leaves
<1> QED
  BY <1>1, <1>3, <1>4, <1>5 DEF r

\* What it does to the snoop's when it is observed.
LEMMA ObserveEffect ==
  ASSUME NEW s \in SnoopState, NEW f \in ClientFrame
  PROVE  /\ \A v \in Uri : Observe(s, f).docs[v] = IF Touches(f, v) THEN Leaves(f) ELSE s.docs[v]
         /\ Observe(s, f).initialized <=> s.initialized \/ f.method = "initialized"
<1>1. s.docs \in [Uri -> Nat \cup {None}] /\ s = [initialized |-> s.initialized, docs |-> s.docs]
  BY DEF SnoopState
<1>2. CASE f.method \in {"didOpen", "didChange"}
  BY <1>1, <1>2 DEF Observe, Touches, Leaves
<1>3. CASE f.method = "didClose"
  BY <1>1, <1>3 DEF Observe, Touches, Leaves
<1>4. CASE f.method \notin {"didOpen", "didChange", "didClose"}
  BY <1>1, <1>4 DEF Observe, Touches, Leaves
<1> QED
  BY <1>2, <1>3, <1>4

LEMMA TrailType == TypeOK => Trail \in Seq(ClientFrame) /\ sent \in Nat
BY DEF TypeOK, Trail

LEMMA InitTrail == Init => TrailInv
<1> SUFFICES ASSUME Init PROVE TrailInv
  OBVIOUS
<1>1. Trail = <<>> /\ DOMAIN Trail = {}
  BY DEF Init, SnoopInit, Trail
<1>2. DocsFollow /\ PhaseFollows
  BY <1>1 DEF Init, SnoopInit, DocsFollow, PhaseFollows
<1> QED
  BY <1>1, <1>2 DEF TrailInv

\* What the other actions leave alone.
LEMMA TrailKept ==
  ASSUME TrailInv, missed' = {} => missed = {} /\ Trail' = Trail,
         UNCHANGED <<snoop, sent>>, editor'.docs = editor.docs,
         editor'.phase = "open" <=> editor.phase = "open"
  PROVE  TrailInv'
<1> SUFFICES ASSUME missed' = {} PROVE TrailInv'
  BY DEF TrailInv
<1>1. missed = {} /\ Trail' = Trail
  OBVIOUS
<1>2. \A u, i, k : LastTouch(Trail', u, i, k) = LastTouch(Trail, u, i, k)
  BY <1>1 DEF LastTouch
<1>3. \A i : CursorLegal(i)' <=> CursorLegal(i)
  BY <1>1, <1>2 DEF CursorLegal
<1>4. DocsFollow' /\ PhaseFollows'
  BY <1>1, <1>2 DEF TrailInv, DocsFollow, PhaseFollows
<1> QED
  BY <1>1, <1>3, <1>4 DEF TrailInv

\* Helix's next message joins the trail.
LEMMA ReadTrail ==
  ASSUME TypeOK, TrailInv, NEW m \in ClientMethods, NEW u \in Uri \cup {None},
         NEW p \in Position \cup {None}, C2sRead(m, u, p)
  PROVE  TrailInv'
<1> DEFINE r == Read(m, u, p)
           L == Len(Trail)
<1>1. r \in ClientFrame
  BY ReadType
<1>2. /\ \A v \in Uri : editor'.docs[v] = IF Touches(r, v) THEN Leaves(r) ELSE editor.docs[v]
      /\ editor'.phase = "open" <=> editor.phase = "open" \/ r.method = "initialized"
      /\ IsCursor(r) => /\ editor.phase = "open" /\ r.uri \in Uri
                        /\ editor.docs[r.uri] # None
                        /\ Touches(r, r.uri) => Leaves(r) # None
  BY ReadEffect
<1>3. r.n = sent + 1 /\ sent' = sent + 1 /\ UNCHANGED <<snoop, missed>>
  BY DEF C2sRead, snoopVars, Read
<1>4. Trail' = Append(Trail, r)
  <2>1. c2s = None /\ c2s' = r /\ snoopQ' = snoopQ
    BY DEF C2sRead, snoopVars
  <2> QED
    BY <2>1, <1>1, NoneIsNoFrame DEF Trail
<1> HIDE DEF r
<1>5. /\ L \in Nat /\ sent \in Nat /\ DOMAIN Trail = 1 .. L /\ DOMAIN Trail' = 1 .. L + 1
      /\ Len(Trail') = L + 1
      /\ \A i \in 1 .. L : Trail'[i] = Trail[i]
      /\ Trail'[L + 1] = r
  BY <1>1, <1>4, AppendParts, TrailType
<1> SUFFICES ASSUME missed = {} PROVE TrailInv'
  BY <1>3 DEF TrailInv
<1>6. /\ DocsFollow /\ PhaseFollows
      /\ \A i \in 1 .. L : IsCursor(Trail[i]) => CursorLegal(i)
      /\ \A i \in 1 .. L : Trail[i].n = sent - L + i
  BY <1>5 DEF TrailInv
<1> HIDE DEF L
<1>7. \A i, k \in 1 .. L : \A v :
        LastTouch(Trail', v, i, k) <=> LastTouch(Trail, v, i, k)
  <2> TAKE i, k \in 1 .. L
  <2> TAKE v
  <2>1. \A j \in k + 1 .. i : j \in 1 .. L
    BY <1>5
  <2> QED
    BY <1>5, <2>1 DEF LastTouch
<1>8. \A k \in 1 .. L : \A v :
        LastTouch(Trail', v, L + 1, k) => LastTouch(Trail, v, L, k) /\ ~Touches(r, v)
  <2> TAKE k \in 1 .. L
  <2> TAKE v
  <2>1. /\ L + 1 \in k + 1 .. L + 1
        /\ \A j \in k + 1 .. L : j \in 1 .. L /\ j \in k + 1 .. L + 1
    BY <1>5
  <2> QED
    BY <1>5, <2>1 DEF LastTouch
<1>9. \A k \in DOMAIN Trail' : k \in 1 .. L \/ k = L + 1
  BY <1>5
<1>10. \A v : LastTouch(Trail', v, L + 1, L + 1) => Touches(r, v)
  BY <1>5 DEF LastTouch
<1>in. L + 1 \in DOMAIN Trail' /\ \A k \in 1 .. L : k \in DOMAIN Trail'
  BY <1>5
<1>11. DocsFollow'
  <2> SUFFICES ASSUME NEW v \in Uri
               PROVE  /\ \A k \in DOMAIN Trail' :
                           LastTouch(Trail', v, Len(Trail'), k) => editor'.docs[v] = Leaves(Trail'[k])
                      /\ (\A k \in DOMAIN Trail' : ~Touches(Trail'[k], v)) =>
                           editor'.docs[v] = snoop'.docs[v]
    BY DEF DocsFollow
  <2>1. ASSUME NEW k \in DOMAIN Trail', LastTouch(Trail', v, L + 1, k)
        PROVE  editor'.docs[v] = Leaves(Trail'[k])
    <3>1. CASE k = L + 1
      BY <3>1, <2>1, <1>2, <1>5, <1>10
    <3>2. CASE k \in 1 .. L
      <4>1. LastTouch(Trail, v, L, k) /\ ~Touches(r, v)
        BY <3>2, <2>1, <1>8
      <4>2. editor.docs[v] = Leaves(Trail[k])
        BY <3>2, <4>1, <1>5, <1>6 DEF DocsFollow, L
      <4> QED
        BY <3>2, <4>1, <4>2, <1>2, <1>5
    <3> QED
      BY <3>1, <3>2, <1>9
  <2>2. ASSUME \A k \in DOMAIN Trail' : ~Touches(Trail'[k], v)
        PROVE  editor'.docs[v] = snoop'.docs[v]
    <3>1. ~Touches(r, v) /\ \A k \in DOMAIN Trail : ~Touches(Trail[k], v)
      BY <2>2, <1>5, <1>in
    <3> QED
      BY <3>1, <1>2, <1>3, <1>6 DEF DocsFollow
  <2>3. \A k : LastTouch(Trail', v, Len(Trail'), k) <=> LastTouch(Trail', v, L + 1, k)
    BY <1>5 DEF LastTouch
  <2> QED
    BY <2>1, <2>2, <2>3
<1>12. PhaseFollows'
  BY <1>2, <1>3, <1>5, <1>6, <1>9, <1>in DEF PhaseFollows
<1>13. \A i \in DOMAIN Trail' : IsCursor(Trail'[i]) => CursorLegal(i)'
  <2> SUFFICES ASSUME NEW i \in DOMAIN Trail', IsCursor(Trail'[i])
               PROVE  CursorLegal(i)'
    OBVIOUS
  <2>1. CASE i \in 1 .. L
    <3>1. \A k \in 1 .. i : k \in 1 .. L /\ Trail'[k] = Trail[k]
      BY <2>1, <1>5
    <3>2. CursorLegal(i) /\ Trail'[i] = Trail[i]
      BY <2>1, <1>5, <1>6
    <3> QED
      BY <2>1, <3>1, <3>2, <1>3, <1>7 DEF CursorLegal
  <2>2. CASE i = L + 1
    <3>1. /\ editor.phase = "open" /\ r.uri \in Uri /\ editor.docs[r.uri] # None
          /\ Touches(r, r.uri) => Leaves(r) # None
          /\ Trail'[i] = r
      BY <2>2, <1>2, <1>5
    <3>2. \A k \in 1 .. i : LastTouch(Trail', r.uri, i, k) => Leaves(Trail'[k]) # None
      <4> SUFFICES ASSUME NEW k \in 1 .. L + 1, LastTouch(Trail', r.uri, L + 1, k)
                   PROVE  Leaves(Trail'[k]) # None
        BY <2>2
      <4>1. CASE k = L + 1
        BY <4>1, <1>5, <1>10, <3>1
      <4>2. CASE k \in 1 .. L
        <5>1. LastTouch(Trail, r.uri, L, k)
          BY <4>2, <1>8
        <5>2. editor.docs[r.uri] = Leaves(Trail[k])
          BY <4>2, <5>1, <3>1, <1>5, <1>6 DEF DocsFollow, L
        <5> QED
          BY <4>2, <5>2, <3>1, <1>5
      <4> QED
        BY <4>1, <4>2, <1>5
    <3>3. (\A k \in 1 .. i : ~Touches(Trail'[k], r.uri)) => snoop'.docs[r.uri] # None
      <4> SUFFICES ASSUME \A k \in 1 .. L + 1 : ~Touches(Trail'[k], r.uri)
                   PROVE  snoop'.docs[r.uri] # None
        BY <2>2
      <4>1. \A k \in DOMAIN Trail : ~Touches(Trail[k], r.uri)
        BY <1>5
      <4> QED
        BY <4>1, <3>1, <1>3, <1>6 DEF DocsFollow
    <3>4. snoop'.initialized \/ \E k \in 1 .. i : Trail'[k].method = "initialized"
      BY <2>2, <3>1, <1>3, <1>5, <1>6 DEF PhaseFollows
    <3> QED
      BY <3>1, <3>2, <3>3, <3>4 DEF CursorLegal
  <2> QED
    BY <2>1, <2>2, <1>9
<1>14. \A i \in DOMAIN Trail' : Trail'[i].n = sent' - Len(Trail') + i
  <2> TAKE i \in DOMAIN Trail'
  <2>1. CASE i = L + 1
    BY <2>1, <1>3, <1>5
  <2>2. CASE i \in 1 .. L
    BY <2>2, <1>3, <1>5, <1>6
  <2> QED
    BY <2>1, <2>2, <1>9
<1> QED
  BY <1>11, <1>12, <1>13, <1>14 DEF TrailInv

\* The snoop observes the oldest message of the trail.
LEMMA ObserveTrail ==
  ASSUME TypeOK, SnoopObserve
  PROVE  /\ Trail # <<>> /\ Trail' = Tail(Trail) /\ Head(Trail) = Head(snoopQ)
         /\ Head(Trail) \in ClientFrame
         /\ snoop' = Observe(snoop, Head(Trail))
         /\ UNCHANGED <<sent, missed, editor>>
<1>1. /\ snoopQ \in Seq(ClientFrame) /\ snoopQ # <<>> /\ snoopQ' = Tail(snoopQ)
      /\ snoop' = Observe(snoop, Head(snoopQ))
      /\ UNCHANGED <<c2s, sent, missed, editor>>
  BY DEF TypeOK, SnoopObserve, SnoopRecv, helixVars
<1>2. Head(snoopQ) \in ClientFrame
  BY <1>1, HeadTailProperties
<1>3. CASE c2s = None
  BY <1>1, <1>2, <1>3 DEF Trail
<1>4. CASE c2s # None
  <2>1. c2s \in ClientFrame
    BY <1>4 DEF TypeOK
  <2>2. /\ Append(snoopQ, c2s) # <<>>
        /\ Head(Append(snoopQ, c2s)) = Head(snoopQ)
        /\ Tail(Append(snoopQ, c2s)) = Append(Tail(snoopQ), c2s)
    BY <1>1, <2>1, HeadTailAppend, AppendProperties
  <2> QED
    BY <1>1, <1>2, <1>4, <2>2 DEF Trail
<1> QED
  BY <1>3, <1>4

LEMMA SnoopObserveTrail ==
  ASSUME TypeOK, TrailInv, SnoopObserve
  PROVE  TrailInv'
<1> DEFINE h == Head(Trail)
           L == Len(Trail)
<1>1. /\ Trail \in Seq(ClientFrame) /\ Trail # <<>> /\ Trail' = Tail(Trail)
      /\ h \in ClientFrame /\ snoop \in SnoopState /\ snoop' = Observe(snoop, h)
      /\ UNCHANGED <<sent, missed, editor>>
  BY ObserveTrail, TrailType DEF TypeOK
<1>2. /\ \A v \in Uri : snoop'.docs[v] = IF Touches(h, v) THEN Leaves(h) ELSE snoop.docs[v]
      /\ snoop'.initialized <=> snoop.initialized \/ h.method = "initialized"
  BY <1>1, ObserveEffect
<1>3. /\ L \in Nat /\ 1 <= L /\ sent \in Nat
      /\ DOMAIN Trail = 1 .. L /\ DOMAIN Trail' = 1 .. L - 1 /\ Len(Trail') = L - 1
      /\ h = Trail[1]
      /\ \A i \in 1 .. L - 1 : Trail'[i] = Trail[i + 1]
  BY <1>1, TailParts, TrailType
<1> HIDE DEF h
<1>4. SUFFICES ASSUME missed = {} PROVE TrailInv'
  BY <1>1 DEF TrailInv
<1>5. /\ DocsFollow /\ PhaseFollows
      /\ \A i \in 1 .. L : IsCursor(Trail[i]) => CursorLegal(i)
      /\ \A i \in 1 .. L : Trail[i].n = sent - L + i
  BY <1>3, <1>4 DEF TrailInv
<1>6. \A i \in 1 .. L - 1 : i \in Nat /\ i + 1 \in 1 .. L
  BY <1>3
<1>7. \A i \in 1 .. L : i = 1 \/ (i - 1 \in 1 .. L - 1 /\ (i - 1) + 1 = i)
  BY <1>3
<1>8. ASSUME NEW v, NEW i \in 0 .. L - 1, NEW k \in 1 .. i, LastTouch(Trail', v, i, k)
      PROVE  LastTouch(Trail, v, i + 1, k + 1)
  <2>1. k \in 1 .. L - 1 /\ Trail'[k] = Trail[k + 1]
    BY <1>3, <1>8
  <2>2. ASSUME NEW j \in (k + 1) + 1 .. i + 1 PROVE ~Touches(Trail[j], v)
    <3>1. j - 1 \in k + 1 .. i /\ j - 1 \in 1 .. L - 1 /\ (j - 1) + 1 = j
      BY <1>3
    <3> QED
      BY <3>1, <1>3, <1>8 DEF LastTouch
  <2> QED
    BY <2>1, <2>2, <1>8 DEF LastTouch
<1>9. ASSUME NEW v, NEW i \in 0 .. L - 1, \A k \in 1 .. i : ~Touches(Trail'[k], v)
      PROVE  /\ Touches(h, v) => LastTouch(Trail, v, i + 1, 1)
             /\ ~Touches(h, v) => \A k \in 1 .. i + 1 : ~Touches(Trail[k], v)
  <2>1. ASSUME NEW j \in 1 + 1 .. i + 1 PROVE ~Touches(Trail[j], v)
    <3>1. j - 1 \in 1 .. i /\ j - 1 \in 1 .. L - 1 /\ (j - 1) + 1 = j
      BY <1>3
    <3> QED
      BY <3>1, <1>3, <1>9
  <2>2. \A k \in 1 .. i + 1 : k = 1 \/ k \in 1 + 1 .. i + 1
    OBVIOUS
  <2> QED
    BY <2>1, <2>2, <1>3 DEF LastTouch
<1> HIDE DEF L
<1>10. DocsFollow'
  <2> SUFFICES ASSUME NEW v \in Uri
               PROVE  /\ \A k \in DOMAIN Trail' :
                           LastTouch(Trail', v, Len(Trail'), k) => editor'.docs[v] = Leaves(Trail'[k])
                      /\ (\A k \in DOMAIN Trail' : ~Touches(Trail'[k], v)) =>
                           editor'.docs[v] = snoop'.docs[v]
    BY DEF DocsFollow
  <2>1. L - 1 \in 0 .. L - 1 /\ (L - 1) + 1 = L /\ 1 \in 1 .. L
    BY <1>3
  <2>2. ASSUME NEW k \in DOMAIN Trail', LastTouch(Trail', v, L - 1, k)
        PROVE  editor'.docs[v] = Leaves(Trail'[k])
    <3>1. LastTouch(Trail, v, L, k + 1) /\ k + 1 \in 1 .. L
      BY <1>3, <1>6, <1>8, <2>1, <2>2
    <3> QED
      BY <3>1, <1>1, <1>3, <1>5 DEF DocsFollow, L
  <2>3. ASSUME \A k \in DOMAIN Trail' : ~Touches(Trail'[k], v)
        PROVE  editor'.docs[v] = snoop'.docs[v]
    <3>1. CASE Touches(h, v)
      <4>1. LastTouch(Trail, v, L, 1)
        BY <3>1, <1>3, <1>9, <2>1, <2>3
      <4>2. editor.docs[v] = Leaves(h)
        BY <4>1, <2>1, <1>3, <1>5 DEF DocsFollow, L
      <4> QED
        BY <3>1, <4>2, <1>1, <1>2
    <3>2. CASE ~Touches(h, v)
      <4>1. \A k \in 1 .. L : ~Touches(Trail[k], v)
        BY <3>2, <1>3, <1>9, <2>1, <2>3
      <4> QED
        BY <3>2, <4>1, <1>1, <1>2, <1>3, <1>5 DEF DocsFollow
    <3> QED
      BY <3>1, <3>2
  <2> QED
    BY <2>2, <2>3, <1>3
<1>11. PhaseFollows'
  <2>1. (\E k \in 1 .. L : Trail[k].method = "initialized")
          <=> h.method = "initialized" \/ \E k \in 1 .. L - 1 : Trail'[k].method = "initialized"
    <3>1. 1 \in 1 .. L /\ Trail[1] = h
      BY <1>3
    <3>2. \A k \in 1 .. L : k = 1 \/ (k - 1 \in 1 .. L - 1 /\ Trail'[k - 1] = Trail[k])
      BY <1>3, <1>7
    <3>3. \A k \in 1 .. L - 1 : k + 1 \in 1 .. L /\ Trail'[k] = Trail[k + 1]
      BY <1>3, <1>6
    <3>4. ASSUME NEW k \in 1 .. L, Trail[k].method = "initialized", k # 1
          PROVE  \E j \in 1 .. L - 1 : Trail'[j].method = "initialized"
      BY <3>2, <3>4
    <3>5. ASSUME NEW k \in 1 .. L - 1, Trail'[k].method = "initialized"
          PROVE  \E j \in 1 .. L : Trail[j].method = "initialized"
      BY <3>3, <3>5
    <3> QED
      BY <3>1, <3>4, <3>5
  <2> QED
    BY <2>1, <1>1, <1>2, <1>3, <1>5 DEF PhaseFollows
<1>12. \A i \in DOMAIN Trail' : IsCursor(Trail'[i]) => CursorLegal(i)'
  <2> SUFFICES ASSUME NEW i \in 1 .. L - 1, IsCursor(Trail'[i])
               PROVE  CursorLegal(i)'
    BY <1>3
  <2> DEFINE v == Trail'[i].uri
  <2>1. CursorLegal(i + 1) /\ Trail'[i] = Trail[i + 1]
        /\ i \in 0 .. L - 1 /\ 1 \in 1 .. i + 1
    BY <1>3, <1>5, <1>6
  <2>2. /\ v \in Uri
        /\ \A k \in 1 .. i + 1 : LastTouch(Trail, v, i + 1, k) => Leaves(Trail[k]) # None
        /\ (\A k \in 1 .. i + 1 : ~Touches(Trail[k], v)) => snoop.docs[v] # None
        /\ snoop.initialized \/ \E k \in 1 .. i + 1 : Trail[k].method = "initialized"
    BY <2>1 DEF CursorLegal
  <2> HIDE DEF v
  <2>3. ASSUME NEW k \in 1 .. i, LastTouch(Trail', v, i, k)
        PROVE  Leaves(Trail'[k]) # None
    <3>1. LastTouch(Trail, v, i + 1, k + 1)
      BY <1>8, <2>1, <2>3
    <3>2. k + 1 \in 1 .. i + 1 /\ Trail'[k] = Trail[k + 1]
      BY <1>3
    <3> QED
      BY <3>1, <3>2, <2>2
  <2>4. ASSUME \A k \in 1 .. i : ~Touches(Trail'[k], v)
        PROVE  snoop'.docs[v] # None
    <3>1. CASE Touches(h, v)
      <4>1. LastTouch(Trail, v, i + 1, 1)
        BY <3>1, <1>9, <2>1, <2>4
      <4> QED
        BY <3>1, <4>1, <2>1, <2>2, <1>2, <1>3
    <3>2. CASE ~Touches(h, v)
      BY <3>2, <1>2, <1>9, <2>1, <2>2, <2>4
    <3> QED
      BY <3>1, <3>2
  <2>5. snoop'.initialized \/ \E k \in 1 .. i : Trail'[k].method = "initialized"
    <3>1. ASSUME NEW k \in 1 .. i + 1, Trail[k].method = "initialized", k # 1
          PROVE  \E j \in 1 .. i : Trail'[j].method = "initialized"
      <4>1. k - 1 \in 1 .. i /\ k - 1 \in 1 .. L - 1 /\ (k - 1) + 1 = k
        BY <1>3, <3>1
      <4> QED
        BY <4>1, <3>1, <1>3
    <3> QED
      BY <3>1, <2>2, <1>2, <1>3
  <2> QED
    BY <2>2, <2>3, <2>4, <2>5 DEF CursorLegal, v
<1>13. \A i \in DOMAIN Trail' : Trail'[i].n = sent' - Len(Trail') + i
  <2> SUFFICES ASSUME NEW i \in 1 .. L - 1 PROVE Trail'[i].n = sent - (L - 1) + i
    BY <1>1, <1>3
  <2>1. Trail'[i].n = sent - L + (i + 1)
    BY <1>3, <1>5, <1>6
  <2> QED
    BY <2>1, <1>3, <1>6
<1> QED
  BY <1>10, <1>11, <1>12, <1>13 DEF TrailInv

\* A message passed on stays in the trail, unless the snoop misses it.
LEMMA C2sForwardTrail ==
  ASSUME TypeOK, C2sForward
  PROVE  /\ missed' = {} => missed = {} /\ Trail' = Trail
         /\ UNCHANGED <<snoop, sent, editor>>
<1>1. UNCHANGED <<snoop, sent, editor>>
  BY DEF C2sForward, c2sFrame, helixVars
<1>2. ASSUME missed' = {} PROVE missed = {} /\ Trail' = Trail
  <2>1. missed' # missed \cup {c2s.n}
    BY <1>2
  <2>2. snoopQ' = Append(snoopQ, c2s) /\ missed' = missed
    BY <2>1 DEF C2sForward
  <2> QED
    BY <1>2, <2>2 DEF C2sForward, Trail
<1> QED
  BY <1>1, <1>2

\* No other action touches it, but that Helix's handshake goes on.
LEMMA TrailNext ==
  ASSUME TypeOK, TrailInv, [Next]_vars
  PROVE  TrailInv'
<1>1. CASE HelixSpeaks
  BY <1>1, ReadTrail DEF HelixSpeaks
<1>2. CASE C2sForward
  BY <1>2, C2sForwardTrail, TrailKept
<1>3. CASE QueryAnswered \/ RequestReplied \/ LeanSpeaks
  <2>1. UNCHANGED <<missed, snoopQ, c2s, snoop, sent, editor>>
    BY <1>3, LeanWrites DEF S2cRead, helixVars, snoopVars
  <2>2. Trail' = Trail
    BY <2>1 DEF Trail
  <2> QED
    BY <2>1, <2>2, TrailKept
<1>4. CASE DebounceFires \/ LeanWriter \/ S2cForward \/ UNCHANGED vars
  <2>1. UNCHANGED <<missed, snoopQ, c2s, snoop, sent, editor>>
    BY <1>4 DEF DebounceFires, SnoopFire, LeanWriter, S2cForward, vars, helixVars, snoopVars
  <2>2. Trail' = Trail
    BY <2>1 DEF Trail
  <2> QED
    BY <2>1, <2>2, TrailKept
<1>5. CASE HelixWriter
  <2>1. UNCHANGED <<missed, snoopQ, c2s, snoop, sent>>
    BY <1>5 DEF HelixWriter, snoopVars
  <2>2. editor'.docs = editor.docs /\ (editor'.phase = "open" <=> editor.phase = "open")
    BY <1>5 DEF HelixWriter, TypeOK
  <2>3. Trail' = Trail
    BY <2>1 DEF Trail
  <2> QED
    BY <2>1, <2>2, <2>3, TrailKept
<1> QED
  BY <1>1, <1>2, <1>3, <1>4, <1>5, SnoopObserveTrail DEF Next

\* In every reachable state.
LEMMA AlwaysTrail == Spec => []TrailInv
BY TypeCorrect, InitTrail, TrailNext, PTL DEF Spec

\* With nothing missed and nothing left to observe the sessions are the same.
LEMMA TrailTracks == TypeOK /\ TrailInv => SnoopTracksEditor
<1> SUFFICES ASSUME TypeOK, TrailInv, CaughtUp
             PROVE  /\ snoop.docs = editor.docs
                    /\ snoop.initialized <=> editor.phase = "open"
  BY DEF SnoopTracksEditor
<1>1. Trail = <<>> /\ DOMAIN Trail = {} /\ missed = {}
  BY DEF CaughtUp, Trail
<1>2. \A u \in Uri : editor.docs[u] = snoop.docs[u]
  BY <1>1 DEF TrailInv, DocsFollow
<1>3. snoop.docs \in [Uri -> Nat \cup {None}] /\ editor.docs \in [Uri -> Nat \cup {None}]
  BY DEF TypeOK, SnoopState
<1> QED
  BY <1>1, <1>2, <1>3 DEF TrailInv, PhaseFollows

\* A snoop that missed nothing and has caught up knows the editor's session:
\* its handshake, and the version of every open document.
THEOREM SnoopTracks == Spec => []SnoopTracksEditor
BY TypeCorrect, AlwaysTrail, TrailTracks, PTL

----------------------------------------------------------------------------
(* No cursor is lost. *)

\* How many messages the snoop is past, and the focus it read last.
Observed == sent - Len(Trail)
Latest == IF pending # None THEN pending ELSE asked.focus

\* The focus read last is that of the last cursor observed.
CursorInv ==
  /\ \A i \in DOMAIN snoopQ : snoopQ[i] \in ClientFrames
  /\ missed = {} =>
       /\ \A i \in DOMAIN Trail : \A f \in ClientFrames : f.n = Trail[i].n => f = Trail[i]
       /\ \A f \in ClientFrames : IsCursor(f) /\ f.n <= Observed =>
            Latest # None /\ f.n <= Latest.cause
       /\ Latest # None => \E f \in ClientFrames : IsCursor(f) /\ f.n = Latest.cause

\* The messages Lean has and those queued for it, one by one.
LEMMA ClientFramesAre ==
  \A f : f \in ClientFrames <=>
           \/ \E i \in DOMAIN leanGot : f = leanGot[i]
           \/ \E i \in DOMAIN toLean : toLean[i].from = "helix" /\ f = toLean[i]
BY DEF ClientFrames, ToSet
LEMMA ClientFramesNext ==
  \A f : f \in ClientFrames' <=>
           \/ \E i \in DOMAIN leanGot' : f = leanGot'[i]
           \/ \E i \in DOMAIN toLean' : toLean'[i].from = "helix" /\ f = toLean'[i]
BY DEF ClientFrames, ToSet

\* They have been passed on.
LEMMA ClientFramesBounded ==
  ASSUME TypeOK, ToLeanInv, NEW f \in ClientFrames
  PROVE  f.n \in Nat /\ f.n <= PassedOn
<1>1. /\ leanGot \in Seq(ClientFrame) /\ DOMAIN leanGot = 1 .. Len(leanGot)
      /\ Len(leanGot) \in Nat /\ PassedOn \in Int
      /\ toLean \in Seq(ClientFrame \cup QueryFrame)
  BY DEF TypeOK, PassedOn
<1>2. ASSUME NEW i \in DOMAIN leanGot, f = leanGot[i]
      PROVE  f.n \in Nat /\ f.n <= PassedOn
  <2>1. f.n = i /\ Len(leanGot) <= PassedOn
    BY <1>2 DEF ToLeanInv
  <2>2. i \in Nat /\ i <= Len(leanGot)
    BY <1>1
  <2>num. Len(leanGot) \in Nat /\ PassedOn \in Int
    BY <1>1
  <2> QED
    BY <2>1, <2>2, <2>num
<1>3. ASSUME NEW i \in DOMAIN toLean, toLean[i].from = "helix", f = toLean[i]
      PROVE  f.n \in Nat /\ f.n <= PassedOn
  <2>1. f \in ClientFrame
    BY <1>1, <1>3 DEF QueryFrame
  <2> QED
    BY <2>1, <1>3 DEF ClientFrame, ToLeanInv
<1> QED
  BY <1>2, <1>3, ClientFramesAre

\* The message passed on joins them.
LEMMA C2sForwardFrames ==
  ASSUME TypeOK, C2sForward
  PROVE  \A f : f \in ClientFrames' <=> f \in ClientFrames \/ f = c2s
<1>1. /\ c2s \in ClientFrame /\ toLean \in Seq(ClientFrame \cup QueryFrame)
      /\ leanGot' = leanGot
  BY DEF TypeOK, C2sForward, c2sFrame, leanVars
<1>2. /\ Len(toLean) \in Nat /\ DOMAIN toLean = 1 .. Len(toLean)
      /\ DOMAIN toLean' = 1 .. Len(toLean) + 1
      /\ \A i \in 1 .. Len(toLean) : toLean'[i] = toLean[i]
      /\ toLean'[Len(toLean) + 1] = c2s /\ c2s.from = "helix"
  BY <1>1, AppendParts DEF C2sForward, ClientFrame
<1>3. \A i : i \in 1 .. Len(toLean) + 1 <=> i \in 1 .. Len(toLean) \/ i = Len(toLean) + 1
  BY <1>2
<1> QED
  BY <1>1, <1>2, <1>3, ClientFramesAre, ClientFramesNext

\* A query is none of them.
LEMMA DebounceFiresFrames ==
  ASSUME TypeOK, DebounceFires
  PROVE  ClientFrames' = ClientFrames
<1>1. leanGot' = leanGot
  BY DEF DebounceFires, leanVars
<1>2. \A i \in DOMAIN toLean' : toLean'[i].from = "helix" =>
        i \in DOMAIN toLean /\ toLean'[i] = toLean[i]
  BY FireAppends
<1>3. \A i \in DOMAIN toLean : i \in DOMAIN toLean' /\ toLean'[i] = toLean[i]
  BY FireAppends
<1>4. \A f : f \in ClientFrames' <=> f \in ClientFrames
  BY <1>1, <1>2, <1>3, ClientFramesAre, ClientFramesNext
<1> QED
  BY <1>4

\* A message Lean reads leaves the queue for its history.
LEMMA LeanWriterFrames ==
  ASSUME TypeOK, LeanWriter
  PROVE  ClientFrames' = ClientFrames
<1> DEFINE f == Head(toLean)
<1>1. /\ toLean \in Seq(ClientFrame \cup QueryFrame) /\ toLean # <<>> /\ toLean' = Tail(toLean)
      /\ leanGot \in Seq(ClientFrame)
  BY DEF TypeOK, LeanWriter
<1>2. /\ f = toLean[1] /\ 1 \in DOMAIN toLean /\ f \in ClientFrame \cup QueryFrame
      /\ \A i \in DOMAIN toLean' : i + 1 \in DOMAIN toLean /\ toLean'[i] = toLean[i + 1]
      /\ \A i \in DOMAIN toLean : i # 1 => i - 1 \in DOMAIN toLean' /\ toLean'[i - 1] = toLean[i]
  BY <1>1, TailParts
<1> HIDE DEF f
<1>3. CASE f.from = "helix" /\ LeanReads(f)
  <2>1. /\ Len(leanGot) \in Nat /\ DOMAIN leanGot = 1 .. Len(leanGot)
        /\ DOMAIN leanGot' = 1 .. Len(leanGot) + 1
        /\ \A i \in DOMAIN leanGot : leanGot'[i] = leanGot[i]
        /\ leanGot'[Len(leanGot) + 1] = f
    <3>1. f \in ClientFrame
      BY <1>2, <1>3 DEF QueryFrame
    <3> QED
      BY <3>1, <1>1, <1>3, AppendParts DEF LeanReads
  <2>2. \A i : i \in DOMAIN leanGot' <=> i \in DOMAIN leanGot \/ i = Len(leanGot) + 1
    BY <2>1
  <2>3. \A g : (\E i \in DOMAIN toLean : toLean[i].from = "helix" /\ g = toLean[i])
          <=> g = f \/ \E i \in DOMAIN toLean' : toLean'[i].from = "helix" /\ g = toLean'[i]
    BY <1>2, <1>3
  <2>4. \A g : (\E i \in DOMAIN leanGot' : g = leanGot'[i])
          <=> g = f \/ \E i \in DOMAIN leanGot : g = leanGot[i]
    <3> TAKE g
    <3>1. ASSUME NEW i \in DOMAIN leanGot', g = leanGot'[i], g # f
          PROVE  \E j \in DOMAIN leanGot : g = leanGot[j]
      BY <2>1, <2>2, <3>1
    <3>2. ASSUME NEW i \in DOMAIN leanGot, g = leanGot[i]
          PROVE  \E j \in DOMAIN leanGot' : g = leanGot'[j]
      BY <2>1, <2>2, <3>2
    <3>3. Len(leanGot) + 1 \in DOMAIN leanGot'
      BY <2>2
    <3> QED
      BY <3>1, <3>2, <3>3, <2>1
  <2>5. \A g : g \in ClientFrames' <=> g \in ClientFrames
    BY <2>3, <2>4, ClientFramesAre, ClientFramesNext
  <2> QED
    BY <2>5
<1>4. CASE f.from = "proxy" /\ LeanReadsQuery(f)
  <2>1. leanGot' = leanGot
    BY <1>4 DEF LeanReadsQuery
  <2>2. \A g : (\E i \in DOMAIN toLean : toLean[i].from = "helix" /\ g = toLean[i])
          <=> \E i \in DOMAIN toLean' : toLean'[i].from = "helix" /\ g = toLean'[i]
    BY <1>2, <1>4
  <2>3. \A g : g \in ClientFrames' <=> g \in ClientFrames
    BY <2>1, <2>2, ClientFramesAre, ClientFramesNext
  <2> QED
    BY <2>3
<1> QED
  BY <1>3, <1>4 DEF LeanWriter, f

LEMMA InitCursor == Init => CursorInv
<1> SUFFICES ASSUME Init PROVE CursorInv
  OBVIOUS
<1>1. leanGot = <<>> /\ toLean = <<>> /\ snoopQ = <<>> /\ Latest = None /\ Trail = <<>>
  BY DEF Init, QueryInit, SnoopInit, Latest, Trail
<1>2. ClientFrames = {}
  BY <1>1, ClientFramesAre
<1> QED
  BY <1>1, <1>2 DEF CursorInv

\* What the other actions leave alone.
LEMMA CursorKept ==
  ASSUME CursorInv, UNCHANGED <<ClientFrames, snoopQ, Trail, sent, missed, Latest>>
  PROVE  CursorInv'
BY DEF CursorInv, Observed

LEMMA HelixSpeaksCursor ==
  ASSUME TypeOK, ToLeanInv, TrailInv, TrailInv', CursorInv, HelixSpeaks
  PROVE  CursorInv'
<1>1. PICK m \in ClientMethods, u \in Uri \cup {None}, p \in Position \cup {None} :
        C2sRead(m, u, p)
  BY DEF HelixSpeaks
<1> DEFINE r == Read(m, u, p)
           L == Len(Trail)
<1>2. r \in ClientFrame /\ r.n = sent + 1 /\ sent' = sent + 1
      /\ UNCHANGED <<snoopQ, missed>>
  BY <1>1, ReadType DEF C2sRead, snoopVars, Read
<1>3. Trail' = Append(Trail, r) /\ PassedOn = sent
  BY <1>1, <1>2, NoneIsNoFrame DEF Trail, C2sRead, PassedOn
<1>4. ClientFrames' = ClientFrames /\ Latest' = Latest
  BY <1>1, C2sReadToLean DEF C2sRead, ClientFrames, Latest, snoopVars
<1> HIDE DEF r
<1>5. /\ L \in Nat /\ sent \in Nat /\ DOMAIN Trail = 1 .. L /\ DOMAIN Trail' = 1 .. L + 1
      /\ Len(Trail') = L + 1
      /\ \A i \in 1 .. L : Trail'[i] = Trail[i]
      /\ Trail'[L + 1] = r
  BY <1>2, <1>3, AppendParts, TrailType
<1>6. Observed' = Observed
  BY <1>2, <1>5 DEF Observed
<1>7. ASSUME missed = {}, NEW i \in DOMAIN Trail', NEW f \in ClientFrames, f.n = Trail'[i].n
      PROVE  f = Trail'[i]
  <2>1. f.n \in Nat /\ f.n <= sent
    BY <1>3, ClientFramesBounded
  <2>2. i # L + 1
    BY <2>1, <1>2, <1>5, <1>7
  <2>3. i \in 1 .. L
    BY <2>2, <1>5
  <2> QED
    BY <2>3, <1>5, <1>7 DEF CursorInv
<1> QED
  BY <1>2, <1>4, <1>6, <1>7 DEF CursorInv

\* A message passed on is not observed yet.
LEMMA C2sForwardCursor ==
  ASSUME TypeOK, ToLeanInv, TrailInv, CursorInv, C2sForward
  PROVE  CursorInv'
<1> DEFINE L == Len(Trail)
           S == Len(snoopQ)
<1>1. /\ c2s \in ClientFrame /\ c2s # None /\ toLean \in Seq(ClientFrame \cup QueryFrame)
      /\ snoopQ \in Seq(ClientFrame)
  BY DEF TypeOK, C2sForward
<1>3. leanGot' = leanGot /\ sent' = sent /\ Latest' = Latest /\ c2s.n = sent
  BY C2sForwardToLean DEF C2sForward, c2sFrame, Latest
<1>4. \A f : f \in ClientFrames' <=> f \in ClientFrames \/ f = c2s
  BY C2sForwardFrames
<1>5. \A i \in DOMAIN snoopQ' : snoopQ'[i] \in ClientFrames'
  <2>1. CASE snoopQ' = Append(snoopQ, c2s)
    <3>1. /\ S \in Nat /\ DOMAIN snoopQ = 1 .. S /\ DOMAIN snoopQ' = 1 .. S + 1
          /\ \A i \in 1 .. S : snoopQ'[i] = snoopQ[i]
          /\ snoopQ'[S + 1] = c2s
      BY <1>1, <2>1, AppendParts
    <3> HIDE DEF S
    <3>2. \A i \in DOMAIN snoopQ' : i \in 1 .. S \/ i = S + 1
      BY <3>1
    <3> QED
      BY <3>1, <3>2, <1>4 DEF CursorInv
  <2>2. CASE snoopQ' = snoopQ
    BY <2>2, <1>4 DEF CursorInv
  <2> QED
    BY <2>1, <2>2 DEF C2sForward
<1>6. ASSUME missed' = {}
      PROVE  /\ \A i \in DOMAIN Trail' : \A f \in ClientFrames' : f.n = Trail'[i].n => f = Trail'[i]
             /\ \A f \in ClientFrames' : IsCursor(f) /\ f.n <= Observed' =>
                  Latest' # None /\ f.n <= Latest'.cause
             /\ Latest' # None => \E f \in ClientFrames' : IsCursor(f) /\ f.n = Latest'.cause
  <2>1. missed = {} /\ Trail' = Trail
    BY <1>6, C2sForwardTrail
  <2>2. /\ S \in Nat /\ L = S + 1 /\ sent \in Nat /\ DOMAIN Trail = 1 .. L
        /\ Trail[L] = c2s
    BY <1>1, AppendParts, TrailType DEF Trail
  <2>3. \A i \in 1 .. L : Trail[i].n = sent - L + i
    BY <2>1, <2>2 DEF TrailInv
  <2> HIDE DEF L, S
  <2>4. ASSUME NEW i \in 1 .. L, c2s.n = Trail[i].n PROVE c2s = Trail[i]
    <3>1. i = L
      BY <1>3, <2>2, <2>3, <2>4
    <3> QED
      BY <3>1, <2>2
  <2>5. Observed' = Observed /\ ~(c2s.n <= Observed)
    <3>1. Observed = sent - L /\ Observed' = Observed
      BY <1>3, <2>1 DEF Observed, L
    <3> QED
      BY <3>1, <1>3, <2>2
  <2> QED
    BY <1>3, <1>4, <2>1, <2>2, <2>4, <2>5 DEF CursorInv
<1> QED
  BY <1>5, <1>6 DEF CursorInv

\* The message observed is the next cursor, or none: its document was open
\* when Helix wrote it, so the snoop takes it as a focus.
LEMMA SnoopObserveCursor ==
  ASSUME TypeOK, ToLeanInv, TrailInv, CursorInv, SnoopObserve
  PROVE  CursorInv'
<1> DEFINE h == Head(Trail)
           L == Len(Trail)
           focus == FocusOf(Observe(snoop, h), h)
<1>1. /\ Trail \in Seq(ClientFrame) /\ Trail # <<>> /\ Trail' = Tail(Trail)
      /\ h = Head(snoopQ) /\ h \in ClientFrame /\ snoop \in SnoopState
      /\ UNCHANGED <<sent, missed, editor>>
  BY ObserveTrail, TrailType DEF TypeOK
<1>2. /\ L \in Nat /\ 1 <= L /\ sent \in Nat
      /\ DOMAIN Trail = 1 .. L /\ Len(Trail') = L - 1
      /\ h = Trail[1] /\ 1 \in 1 .. L
      /\ \A i \in DOMAIN Trail' : i + 1 \in 1 .. L /\ Trail'[i] = Trail[i + 1]
  BY <1>1, TailParts, TrailType
<1>3. /\ snoopQ \in Seq(ClientFrame) /\ snoopQ # <<>> /\ snoopQ' = Tail(snoopQ)
      /\ pending' = IF focus # None THEN focus ELSE pending
      /\ UNCHANGED <<asked, toLean, leanGot>>
  BY <1>1 DEF TypeOK, SnoopObserve, SnoopRecv, queryVars, leanVars
<1>4. ClientFrames' = ClientFrames
  BY <1>3 DEF ClientFrames
<1>5. h = snoopQ[1] /\ h \in ClientFrames
      /\ \A i \in DOMAIN snoopQ' : snoopQ'[i] \in ClientFrames
  BY <1>1, <1>3, TailParts DEF CursorInv
<1> SUFFICES ASSUME missed = {} PROVE CursorInv'
  BY <1>1, <1>4, <1>5 DEF CursorInv
<1>6. Observed' = h.n /\ Observed = h.n - 1 /\ h.n \in Nat
  <2>1. h.n = sent - L + 1
    BY <1>2 DEF TrailInv
  <2>2. Observed = sent - L /\ Observed' = sent - (L - 1)
    BY <1>1, <1>2 DEF Observed
  <2>3. h.n \in Nat
    BY <1>1 DEF ClientFrame
  <2> HIDE DEF h
  <2> QED
    BY <2>1, <2>2, <2>3, <1>2
<1>7. \A i \in DOMAIN Trail' : \A f \in ClientFrames : f.n = Trail'[i].n => f = Trail'[i]
  BY <1>2 DEF CursorInv
<1>8. IsCursor(h) => focus # None
  <2> SUFFICES ASSUME IsCursor(h) PROVE focus # None
    OBVIOUS
  <2> DEFINE s == Observe(snoop, h)
  <2>1. CursorLegal(1)
    BY <1>2 DEF TrailInv
  <2>2. \A k \in 1 .. 1 : k = 1
    OBVIOUS
  <2>3. /\ h.uri \in Uri
        /\ Touches(h, h.uri) => Leaves(h) # None
        /\ ~Touches(h, h.uri) => snoop.docs[h.uri] # None
        /\ snoop.initialized \/ h.method = "initialized"
    <3> HIDE DEF h
    <3>1. \A j \in 1 + 1 .. 1 : FALSE
      OBVIOUS
    <3> QED
      BY <2>1, <2>2, <3>1, <1>2 DEF CursorLegal, LastTouch
  <2>4. s \in SnoopState /\ s.initialized /\ s.docs[h.uri] # None
    BY <1>1, <2>3, ObserveType, ObserveEffect
  <2> QED
    BY <1>1, <2>4, CursorIsCaused
<1>9. CASE focus # None
  <2>1. Latest' = focus /\ focus.cause = h.n /\ IsCursor(h)
    BY <1>3, <1>9, FocusIsCaused DEF Latest
  <2> HIDE DEF focus, h
  <2> QED
    BY <1>1, <1>4, <1>5, <1>6, <1>7, <1>9, <2>1 DEF CursorInv
<1>10. CASE focus = None
  <2>1. Latest' = Latest /\ ~IsCursor(h)
    BY <1>3, <1>8, <1>10 DEF Latest
  <2>2. \A f \in ClientFrames : f.n \in Nat
    BY ClientFramesBounded
  <2>3. \A f \in ClientFrames : f.n = h.n => f = h
    BY <1>2 DEF CursorInv
  <2> HIDE DEF focus, h
  <2>4. \A f \in ClientFrames : IsCursor(f) /\ f.n <= Observed' => f.n <= Observed
    BY <1>6, <2>1, <2>2, <2>3
  <2> QED
    BY <1>1, <1>4, <1>5, <1>7, <2>1, <2>4 DEF CursorInv
<1> QED
  BY <1>9, <1>10

\* The timer asks about the focus read last.
LEMMA DebounceFiresCursor ==
  ASSUME TypeOK, CursorInv, DebounceFires
  PROVE  CursorInv'
<1>1. /\ UNCHANGED <<snoopQ, c2s, sent, missed>>
      /\ pending # None /\ pending' = None /\ asked'.focus = pending
  BY DEF DebounceFires, SnoopFire, helixVars
<1>2. ClientFrames' = ClientFrames /\ Trail' = Trail /\ Latest' = Latest
  BY <1>1, DebounceFiresFrames DEF Trail, Latest
<1> QED
  BY <1>1, <1>2, CursorKept

LEMMA LeanWriterCursor ==
  ASSUME TypeOK, CursorInv, LeanWriter
  PROVE  CursorInv'
<1>1. UNCHANGED <<snoopQ, c2s, sent, missed, Latest, Trail>>
  BY DEF LeanWriter, snoopVars, helixVars, Latest, Trail
<1> QED
  BY <1>1, LeanWriterFrames, CursorKept

\* No other action touches them.
LEMMA CursorNext ==
  ASSUME TypeOK, ToLeanInv, TrailInv, CursorInv, TrailInv', [Next]_vars
  PROVE  CursorInv'
<1> DEFINE quiet == <<toLean, leanGot, snoopQ, c2s, sent, missed, pending, asked>>
<1>1. CASE UNCHANGED quiet
  BY <1>1, CursorKept DEF ClientFrames, Trail, Latest
<1>2. CASE QueryAnswered \/ RequestReplied \/ LeanSpeaks
  <2>1. UNCHANGED quiet
    BY <1>2, LeanWrites DEF S2cRead, helixVars, snoopVars
  <2> QED
    BY <2>1, <1>1
<1>3. CASE S2cForward \/ HelixWriter \/ UNCHANGED vars
  <2>1. UNCHANGED quiet
    BY <1>3 DEF S2cForward, HelixWriter, vars, queryVars, snoopVars, helixVars, leanVars
  <2> QED
    BY <2>1, <1>1
<1> QED
  BY <1>2, <1>3, HelixSpeaksCursor, C2sForwardCursor, SnoopObserveCursor,
     DebounceFiresCursor, LeanWriterCursor
  DEF Next

\* In every reachable state.
LEMMA AlwaysCursor == Spec => []CursorInv
BY TypeCorrect, AlwaysToLean, AlwaysTrail, InitCursor, CursorNext, PTL DEF Spec

\* With nothing missed or left to observe, and no timer running, that cursor is
\* Helix's last.
LEMMA CursorAsks == TypeOK /\ ToLeanInv /\ CursorInv => LastCursorAsked
<1> SUFFICES ASSUME TypeOK, ToLeanInv, CursorInv, CaughtUp, pending = None, Cursors # {}
             PROVE  /\ asked.focus # None /\ asked.focus.cause \in Cursors
                    /\ \A n \in Cursors : n <= asked.focus.cause
  BY DEF LastCursorAsked
<1>1. Trail = <<>> /\ missed = {} /\ Latest = asked.focus /\ PassedOn = sent
  BY DEF CaughtUp, Trail, Latest, PassedOn
<1>2. Observed = sent
  BY <1>1 DEF Observed, TypeOK
<1>3. \A n \in Cursors : \E f \in ClientFrames : IsCursor(f) /\ f.n = n /\ f.n <= Observed
  BY <1>1, <1>2, ClientFramesBounded DEF Cursors
<1>4. asked.focus # None /\ \A n \in Cursors : n <= asked.focus.cause
  BY <1>1, <1>3 DEF CursorInv
<1>5. asked.focus.cause \in Cursors
  BY <1>1, <1>4 DEF CursorInv, Cursors
<1> QED
  BY <1>4, <1>5

\* Debouncing loses no cursor for good: the focus asked about in the end is that
\* of Helix's last cursor.
THEOREM NoCursorIsLost == Spec => []LastCursorAsked
BY TypeCorrect, AlwaysToLean, AlwaysCursor, CursorAsks, PTL

----------------------------------------------------------------------------
(* The registry of the injected queries. *)

Queued(id) == \E i \in DOMAIN toLean : toLean[i].from = "proxy" /\ toLean[i].id = id
AtLean(id) == \E q \in leanQueries : q.id = id
Known(id)  == \E p \in outstanding : p.id = id

\* The registry in terms of single ids.
LEMMA RegistryForm == RegistryExact <=> \A id : Known(id) <=> Queued(id) \/ AtLean(id)
<1>1. \A id : id \in {p.id : p \in outstanding} <=> Known(id)
  BY DEF Known
<1>2. \A id : id \in InFlight <=> Queued(id) \/ AtLean(id)
  BY DEF InFlight, Injected, ToSet, Queued, AtLean
<1> QED
  BY <1>1, <1>2 DEF RegistryExact

\* The same of the next state.
LEMMA RegistryFormNext ==
  RegistryExact' <=> \A id : Known(id)' <=> Queued(id)' \/ AtLean(id)'
<1>1. \A id : id \in {p.id : p \in outstanding'} <=> Known(id)'
  BY DEF Known
<1>2. \A id : id \in InFlight' <=> Queued(id)' \/ AtLean(id)'
  BY DEF InFlight, Injected, ToSet, Queued, AtLean
<1> QED
  BY <1>1, <1>2 DEF RegistryExact

----------------------------------------------------------------------------
(* ConsumeInv is inductive, relative to TypeOK. *)

\* Initially nothing is in flight, registered or consumed.
LEMMA InitConsume == Init => ConsumeInv
<1> SUFFICES ASSUME Init PROVE ConsumeInv
  OBVIOUS
<1>1. toLean = <<>> /\ outstanding = {} /\ leanQueries = {} /\ consumed = {}
      /\ generation = 0 /\ filled = [k \in Kinds |-> 0]
  BY DEF Init, QueryInit
<1>2. DOMAIN toLean = {}
  BY <1>1
<1>3. RegistryExact
  BY <1>1, <1>2, RegistryForm DEF Known, Queued, AtLean
<1> QED
  BY <1>1, <1>2, <1>3 DEF ConsumeInv, IdsOnce, NotShownYet

\* Steps that touch none of the variables concerned.
LEMMA ConsumeUnchanged ==
  ASSUME ConsumeInv, leanCount \in Nat, consumed \subseteq Nat,
         UNCHANGED <<toLean, generation, outstanding, leanQueries, filled, consumed>>,
         leanCount' \in {leanCount, leanCount + 1}
  PROVE  ConsumeInv'
<1>1. RegistryExact'
  <2>1. Injected' = Injected
    BY DEF Injected, ToSet
  <2>2. InFlight' = InFlight
    BY <2>1 DEF InFlight
  <2> QED
    BY <2>2 DEF ConsumeInv, RegistryExact
<1>2. IdsOnce'
  BY DEF ConsumeInv, IdsOnce
<1>3. NotShownYet'
  BY DEF ConsumeInv, NotShownYet
<1>4. \A n \in consumed' : n <= leanCount'
  BY DEF ConsumeInv
<1> QED
  BY <1>1, <1>2, <1>3, <1>4 DEF ConsumeInv

\* A message of Helix joins the queue: no id does.
LEMMA C2sForwardConsume ==
  ASSUME TypeOK, ConsumeInv, C2sForward
  PROVE  ConsumeInv'
<1>1. c2s.from = "helix"
  BY DEF TypeOK, C2sForward, ClientFrame
<1>2. toLean \in Seq(ClientFrame \cup QueryFrame) /\ c2s \in ClientFrame
  BY DEF TypeOK, C2sForward
<1>3. toLean' = Append(toLean, c2s)
      /\ UNCHANGED <<generation, outstanding, leanQueries, filled, consumed, leanCount>>
  BY DEF C2sForward, c2sFrame, leanVars
<1>4. /\ DOMAIN toLean' = 1 .. Len(toLean) + 1 /\ DOMAIN toLean = 1 .. Len(toLean)
      /\ Len(toLean) \in Nat
      /\ \A i \in DOMAIN toLean : toLean'[i] = toLean[i]
      /\ toLean'[Len(toLean) + 1] = c2s
  BY <1>2, <1>3
<1>5. \A i \in DOMAIN toLean' : toLean'[i].from = "proxy" =>
        i \in DOMAIN toLean /\ toLean'[i] = toLean[i]
  BY <1>1, <1>4
<1>6. \A id : Queued(id)' <=> Queued(id)
  BY <1>4, <1>5 DEF Queued
<1>7. RegistryExact'
  BY <1>3, <1>6, RegistryForm, RegistryFormNext DEF ConsumeInv, Known, AtLean
<1>8. IdsOnce'
  BY <1>3, <1>5 DEF ConsumeInv, IdsOnce
<1> QED
  BY <1>3, <1>7, <1>8 DEF ConsumeInv, NotShownYet

\* The accepted queries of a new generation join queue and registry together;
\* their ids are new, since every registered one is of an older generation.
LEMMA DebounceFiresConsume ==
  ASSUME TypeOK, ConsumeInv, DebounceFires
  PROVE  ConsumeInv'
<1>1. PICK room \in Rooms : SnoopFire(room)
  BY DEF DebounceFires
<1> DEFINE gen == generation + 1
           queries == Queries(pending, gen, room)
           L == Len(toLean)
<1>2. pending \in Focus /\ generation \in Nat /\ room \in Int /\ L \in Nat
      /\ toLean \in Seq(ClientFrame \cup QueryFrame)
  BY <1>1, SinkAssumption DEF TypeOK, SnoopFire, Rooms
<1>gen. gen \in Nat /\ gen = generation + 1
  BY <1>2
<1> HIDE DEF gen
<1>3. /\ queries \in Seq(QueryFrame)
      /\ Len(queries) = IF room <= 0 THEN 0 ELSE IF room = 1 THEN 1 ELSE 2
      /\ Len(queries) >= 1 => queries[1] = QueryFor(pending, gen, "goal")
      /\ Len(queries) = 2 => queries[2] = QueryFor(pending, gen, "term")
  BY <1>2, <1>gen, QueriesType
<1>4. /\ toLean' = toLean \o queries /\ generation' = gen
      /\ outstanding' = Registered(pending, gen, room)
      /\ UNCHANGED <<leanQueries, filled, consumed, leanCount>>
  BY <1>1 DEF DebounceFires, SnoopFire, Request, leanVars, gen
<1>5. \A k : k \in AcceptedKinds(room) <=> \/ k = "goal" /\ Len(queries) >= 1
                                           \/ k = "term" /\ Len(queries) = 2
  <2> HIDE DEF queries
  <2> QED
    BY <1>2, <1>3 DEF AcceptedKinds, Kinds
<1> HIDE DEF queries
<1>6. /\ DOMAIN toLean = 1 .. L /\ DOMAIN toLean' = 1 .. L + Len(queries)
      /\ \A i \in 1 .. L : toLean'[i] = toLean[i]
      /\ \A i \in L + 1 .. L + Len(queries) : toLean'[i] = queries[i - L]
  <2>1. queries \in Seq(ClientFrame \cup QueryFrame)
    BY <1>3
  <2> QED
    BY <1>2, <1>4, <2>1, ConcatProperties, LenProperties
<1>7. \A k \in Kinds : /\ PendingOf(pending, gen, k).id = [gen |-> gen, kind |-> k]
                       /\ QueryFor(pending, gen, k).id = [gen |-> gen, kind |-> k]
                       /\ QueryFor(pending, gen, k).from = "proxy"
  BY DEF PendingOf, QueryFor, IdOf
<1>8. \A p \in outstanding : p.id.gen <= generation /\ p.id.gen \in Nat
  BY DEF ConsumeInv, NotShownYet, TypeOK, Pending, InjectedId
<1>9. outstanding' = outstanding \cup {PendingOf(pending, gen, k) : k \in AcceptedKinds(room)}
  <2>1. \A k \in Kinds : PendingOf(pending, gen, k) \notin outstanding
    <3> TAKE k \in Kinds
    <3>1. PendingOf(pending, gen, k).id.gen = gen
      BY DEF PendingOf, IdOf
    <3> QED
      BY <3>1, <1>2, <1>gen, <1>8
  <2>2. \A j, k \in Kinds : PendingOf(pending, gen, j) = PendingOf(pending, gen, k) => j = k
    <3> TAKE j, k \in Kinds
    <3>1. PendingOf(pending, gen, j).id.kind = j /\ PendingOf(pending, gen, k).id.kind = k
      BY DEF PendingOf, IdOf
    <3> QED
      BY <3>1
  <2> QED
    BY <1>4, <2>1, <2>2 DEF Registered, AcceptedKinds
<1>10. \A i \in L + 1 .. L + Len(queries) :
         /\ toLean'[i].from = "proxy"
         /\ \/ i = L + 1 /\ toLean'[i].id = [gen |-> gen, kind |-> "goal"]
            \/ i = L + 2 /\ Len(queries) = 2
               /\ toLean'[i].id = [gen |-> gen, kind |-> "term"]
  <2> TAKE i \in L + 1 .. L + Len(queries)
  <2>1. i = L + 1 \/ (i = L + 2 /\ Len(queries) = 2)
    BY <1>2, <1>3
  <2> QED
    BY <2>1, <1>2, <1>3, <1>6, <1>7 DEF Kinds
<1>11. \A i \in 1 .. L : toLean[i].from = "proxy" => toLean[i].id.gen <= generation
  <2> TAKE i \in 1 .. L
  <2>1. toLean[i].from = "proxy" => Known(toLean[i].id)
    BY <1>6, RegistryForm DEF Queued, ConsumeInv
  <2> QED
    BY <2>1, <1>8 DEF Known
<1>12. \A q \in leanQueries : q.id.gen <= generation
  <2> TAKE q \in leanQueries
  <2>1. Known(q.id)
    BY RegistryForm DEF AtLean, ConsumeInv
  <2> QED
    BY <2>1, <1>8 DEF Known
<1> DEFINE New(id) == \E k \in AcceptedKinds(room) : id = [gen |-> gen, kind |-> k]
<1>13. \A id : Known(id)' <=> Known(id) \/ New(id)
  <2>1. \A k \in AcceptedKinds(room) : PendingOf(pending, gen, k).id = [gen |-> gen, kind |-> k]
    BY <1>7 DEF AcceptedKinds
  <2>2. \A p : p \in outstanding' <=>
               p \in outstanding \/ \E k \in AcceptedKinds(room) : p = PendingOf(pending, gen, k)
    BY <1>9
  <2>3. ASSUME NEW id, Known(id)' PROVE Known(id) \/ New(id)
    <3>1. PICK p \in outstanding' : p.id = id
      BY <2>3 DEF Known
    <3>2. CASE p \in outstanding
      BY <3>1, <3>2 DEF Known
    <3>3. ASSUME NEW k \in AcceptedKinds(room), p = PendingOf(pending, gen, k)
          PROVE  New(id)
      <4>1. id = [gen |-> gen, kind |-> k]
        BY <2>1, <3>1, <3>3
      <4> QED
        BY <4>1
    <3> QED
      BY <2>2, <3>2, <3>3
  <2>4. ASSUME NEW id, Known(id) PROVE Known(id)'
    BY <2>2, <2>4 DEF Known
  <2>5. ASSUME NEW id, NEW k \in AcceptedKinds(room), id = [gen |-> gen, kind |-> k]
        PROVE  Known(id)'
    <3>1. PICK p : p = PendingOf(pending, gen, k)
      OBVIOUS
    <3>2. p \in outstanding' /\ p.id = id
      BY <2>1, <2>2, <2>5, <3>1
    <3> QED
      BY <3>2 DEF Known
  <2>6. \A id : New(id) => Known(id)'
    BY <2>5
  <2> QED
    BY <2>3, <2>4, <2>6
<1>14. \A id : Queued(id)' <=> Queued(id) \/ New(id)
  <2>1. ASSUME NEW id, Queued(id)' PROVE Queued(id) \/ New(id)
    <3>1. PICK i \in DOMAIN toLean' : toLean'[i].from = "proxy" /\ toLean'[i].id = id
      BY <2>1 DEF Queued
    <3>2. CASE i \in 1 .. L
      BY <3>1, <3>2, <1>6 DEF Queued
    <3>3. CASE i \in L + 1 .. L + Len(queries)
      BY <3>1, <3>3, <1>2, <1>3, <1>5, <1>10 DEF Kinds
    <3> QED
      BY <3>1, <3>2, <3>3, <1>2, <1>3, <1>6
  <2>2. ASSUME NEW id, Queued(id) PROVE Queued(id)'
    BY <2>2, <1>2, <1>3, <1>6 DEF Queued
  <2>3. ASSUME NEW id, NEW k \in AcceptedKinds(room), id = [gen |-> gen, kind |-> k]
        PROVE  Queued(id)'
    <3> DEFINE n == IF k = "goal" THEN L + 1 ELSE L + 2
    <3>0. PICK i : i = n
      OBVIOUS
    <3>1. i \in L + 1 .. L + Len(queries)
      BY <2>3, <3>0, <1>2, <1>3, <1>5
    <3>2. i \in DOMAIN toLean' /\ toLean'[i].from = "proxy" /\ toLean'[i].id = id
      BY <3>0, <3>1, <2>3, <1>2, <1>3, <1>5, <1>6, <1>10
    <3> QED
      BY <3>2 DEF Queued
  <2>4. \A id : New(id) => Queued(id)'
    BY <2>3
  <2> HIDE DEF New
  <2> QED
    BY <2>1, <2>2, <2>4
<1>15. RegistryExact'
  <2>1. \A id : AtLean(id)' <=> AtLean(id)
    BY <1>4 DEF AtLean
  <2> HIDE DEF New
  <2> QED
    BY <2>1, <1>13, <1>14, RegistryForm, RegistryFormNext DEF ConsumeInv
<1>16. IdsOnce'
  <2>1. ASSUME NEW i \in DOMAIN toLean', NEW j \in DOMAIN toLean',
               toLean'[i].from = "proxy", toLean'[j].from = "proxy",
               toLean'[i].id = toLean'[j].id
        PROVE  i = j
    <3>1. CASE i \in 1 .. L /\ j \in 1 .. L
      BY <2>1, <3>1, <1>6 DEF ConsumeInv, IdsOnce
    <3>2. CASE i \notin 1 .. L /\ j \notin 1 .. L
      <4>1. i \in L + 1 .. L + Len(queries) /\ j \in L + 1 .. L + Len(queries)
        BY <2>1, <3>2, <1>2, <1>3, <1>6
      <4>2. i # j => toLean'[i].id.kind # toLean'[j].id.kind
        BY <4>1, <1>10
      <4> QED
        BY <2>1, <4>2
    <3>3. CASE i \in 1 .. L /\ j \notin 1 .. L
      <4>1. toLean'[j].id.gen = gen
        <5>1. j \in L + 1 .. L + Len(queries)
          BY <2>1, <3>3, <1>2, <1>3, <1>6
        <5> QED
          BY <5>1, <1>10
      <4>2. toLean'[i].id.gen <= generation
        BY <2>1, <3>3, <1>6, <1>11
      <4> QED
        BY <2>1, <4>1, <4>2, <1>2, <1>gen
    <3>4. CASE i \notin 1 .. L /\ j \in 1 .. L
      <4>1. toLean'[i].id.gen = gen
        <5>1. i \in L + 1 .. L + Len(queries)
          BY <2>1, <3>4, <1>2, <1>3, <1>6
        <5> QED
          BY <5>1, <1>10
      <4>2. toLean'[j].id.gen <= generation
        BY <2>1, <3>4, <1>6, <1>11
      <4> QED
        BY <2>1, <4>1, <4>2, <1>2, <1>gen
    <3> QED
      BY <3>1, <3>2, <3>3, <3>4
  <2>2. ASSUME NEW i \in DOMAIN toLean', NEW q \in leanQueries', toLean'[i].from = "proxy"
        PROVE  toLean'[i].id # q.id
    <3>1. CASE i \in 1 .. L
      BY <2>2, <3>1, <1>4, <1>6 DEF ConsumeInv, IdsOnce
    <3>2. CASE i \notin 1 .. L
      <4>1. i \in L + 1 .. L + Len(queries)
        BY <2>2, <3>2, <1>2, <1>3, <1>6
      <4>2. toLean'[i].id.gen = gen
        BY <4>1, <1>10
      <4>3. q.id.gen <= generation
        BY <2>2, <1>4, <1>12
      <4> QED
        BY <4>2, <4>3, <1>2, <1>gen
    <3> QED
      BY <3>1, <3>2
  <2>3. ASSUME NEW p \in outstanding', NEW r \in outstanding', p.id = r.id
        PROVE  p = r
    <3>1. \A x \in outstanding' : \/ x \in outstanding /\ x.id.gen # gen
                                  \/ x = PendingOf(pending, gen, x.id.kind) /\ x.id.gen = gen
      <4> TAKE x \in outstanding'
      <4>1. CASE x \in outstanding
        BY <4>1, <1>2, <1>gen, <1>8
      <4>2. ASSUME NEW k \in AcceptedKinds(room), x = PendingOf(pending, gen, k)
            PROVE  x = PendingOf(pending, gen, x.id.kind) /\ x.id.gen = gen
        <5>1. x.id = [gen |-> gen, kind |-> k]
          BY <4>2, <1>7 DEF AcceptedKinds
        <5> QED
          BY <4>2, <5>1
      <4> QED
        BY <4>1, <4>2, <1>9
    <3> QED
      BY <2>3, <3>1 DEF ConsumeInv, IdsOnce
  <2>4. \A q, r \in leanQueries' : q.id = r.id => q = r
    BY <1>4 DEF ConsumeInv, IdsOnce
  <2> QED
    BY <2>1, <2>2, <2>3, <2>4 DEF IdsOnce
<1>17. NotShownYet'
  <2>1. \A k \in Kinds : filled[k] \in Nat /\ filled[k] <= generation
    BY DEF TypeOK, ConsumeInv, NotShownYet
  <2>2. \A k \in Kinds : filled'[k] < generation'
    BY <2>1, <1>2, <1>gen, <1>4
  <2>3. \A p \in outstanding' : p.id.gen <= generation' /\ p.id.kind \in Kinds
    <3> TAKE p \in outstanding'
    <3>1. CASE p \in outstanding
      BY <3>1, <1>2, <1>gen, <1>4, <1>8 DEF TypeOK, Pending, InjectedId
    <3>2. ASSUME NEW k \in Kinds, p = PendingOf(pending, gen, k)
          PROVE  p.id.gen <= generation' /\ p.id.kind \in Kinds
      <4>1. p.id = [gen |-> gen, kind |-> k]
        BY <3>2, <1>7
      <4> QED
        BY <4>1, <1>gen, <1>4
    <3> QED
      BY <3>1, <3>2, <1>9 DEF AcceptedKinds
  <2>4. \A k \in Kinds : filled'[k] \in Nat /\ generation' \in Nat
    BY <2>1, <1>2, <1>gen, <1>4
  <2> QED
    BY <2>2, <2>3, <2>4 DEF NotShownYet
<1> QED
  BY <1>4, <1>15, <1>16, <1>17 DEF ConsumeInv

\* An injected query leaves the queue for Lean's hands, its id with it.
LEMMA LeanWriterConsume ==
  ASSUME TypeOK, ConsumeInv, LeanWriter
  PROVE  ConsumeInv'
<1> DEFINE f == Head(toLean)
           L == Len(toLean)
<1>1. /\ toLean \in Seq(ClientFrame \cup QueryFrame) /\ toLean # <<>>
      /\ L \in Nat \ {0} /\ DOMAIN toLean = 1 .. L /\ f = toLean[1]
  BY DEF TypeOK, LeanWriter
<1>2. /\ toLean' = Tail(toLean) /\ DOMAIN toLean' = 1 .. L - 1
      /\ \A i \in 1 .. L - 1 : toLean'[i] = toLean[i + 1]
  <2>1. toLean' = Tail(toLean)
    BY DEF LeanWriter
  <2> QED
    BY <1>1, <2>1, HeadTailProperties, LenProperties
<1>3. UNCHANGED <<generation, outstanding, filled, consumed, leanCount>>
  BY DEF LeanWriter
<1>4. NotShownYet' /\ \A n \in consumed' : n <= leanCount'
  BY <1>3 DEF ConsumeInv, NotShownYet
<1>5. \A i, j \in DOMAIN toLean' :
        /\ toLean'[i].from = "proxy" /\ toLean'[j].from = "proxy"
        /\ toLean'[i].id = toLean'[j].id
        => i = j
  <2> TAKE i, j \in DOMAIN toLean'
  <2>1. /\ i + 1 \in DOMAIN toLean /\ j + 1 \in DOMAIN toLean
        /\ toLean'[i] = toLean[i + 1] /\ toLean'[j] = toLean[j + 1]
    BY <1>1, <1>2
  <2>2. /\ toLean[i + 1].from = "proxy" /\ toLean[j + 1].from = "proxy"
        /\ toLean[i + 1].id = toLean[j + 1].id
        => i + 1 = j + 1
    BY <2>1 DEF ConsumeInv, IdsOnce
  <2> QED
    BY <2>1, <2>2, <1>1, <1>2
<1>6. \A id : Queued(id) <=> Queued(id)' \/ (f.from = "proxy" /\ f.id = id)
  <2>1. ASSUME NEW id, Queued(id) PROVE Queued(id)' \/ (f.from = "proxy" /\ f.id = id)
    <3>1. PICK i \in DOMAIN toLean : toLean[i].from = "proxy" /\ toLean[i].id = id
      BY <2>1 DEF Queued
    <3>2. CASE i = 1
      BY <3>1, <3>2, <1>1
    <3>3. CASE i # 1
      <4>1. i - 1 \in DOMAIN toLean' /\ toLean'[i - 1] = toLean[i]
        BY <3>3, <1>1, <1>2
      <4> QED
        BY <3>1, <4>1 DEF Queued
    <3> QED
      BY <3>2, <3>3
  <2>2. ASSUME NEW id, Queued(id)' PROVE Queued(id)
    <3>1. PICK i \in DOMAIN toLean' : toLean'[i].from = "proxy" /\ toLean'[i].id = id
      BY <2>2 DEF Queued
    <3>2. i + 1 \in DOMAIN toLean /\ toLean'[i] = toLean[i + 1]
      BY <1>1, <1>2
    <3> QED
      BY <3>1, <3>2 DEF Queued
  <2>3. f.from = "proxy" => Queued(f.id)
    BY <1>1 DEF Queued
  <2> QED
    BY <2>1, <2>2, <2>3
<1>7. CASE f.from = "helix" /\ LeanReads(f)
  <2>1. leanQueries' = leanQueries
    BY <1>7 DEF LeanReads
  <2>2. \A id : Queued(id) <=> Queued(id)'
    BY <1>6, <1>7
  <2>3. RegistryExact'
    BY <1>3, <2>1, <2>2, RegistryForm, RegistryFormNext DEF ConsumeInv, Known, AtLean
  <2>4. IdsOnce'
    <3>1. ASSUME NEW i \in DOMAIN toLean', NEW q \in leanQueries, toLean'[i].from = "proxy"
          PROVE  toLean'[i].id # q.id
      <4>1. i + 1 \in DOMAIN toLean /\ toLean'[i] = toLean[i + 1]
        BY <1>1, <1>2
      <4> QED
        BY <3>1, <4>1 DEF ConsumeInv, IdsOnce
    <3> QED
      BY <1>3, <1>5, <2>1, <3>1 DEF ConsumeInv, IdsOnce
  <2> QED
    BY <1>4, <2>3, <2>4 DEF ConsumeInv
<1>8. CASE f.from = "proxy" /\ LeanReadsQuery(f)
  <2>1. PICK x : x.id = f.id /\ leanQueries' = leanQueries \cup {x}
    BY <1>8 DEF LeanReadsQuery
  <2>2. \A id : AtLean(id)' <=> AtLean(id) \/ id = f.id
    BY <2>1 DEF AtLean
  <2>3. RegistryExact'
    <3>1. \A id : Known(id)' <=> Known(id)
      BY <1>3 DEF Known
    <3> QED
      BY <1>6, <1>8, <2>2, <3>1, RegistryForm, RegistryFormNext DEF ConsumeInv
  <2>4. \A q \in leanQueries : q.id # f.id
    BY <1>1, <1>8 DEF ConsumeInv, IdsOnce
  <2>5. ASSUME NEW i \in DOMAIN toLean', NEW q \in leanQueries', toLean'[i].from = "proxy"
        PROVE  toLean'[i].id # q.id
    <3>1. i + 1 \in DOMAIN toLean /\ toLean'[i] = toLean[i + 1] /\ i + 1 # 1
      BY <1>1, <1>2
    <3>2. toLean[i + 1].id # f.id
      BY <1>1, <1>8, <2>5, <3>1 DEF ConsumeInv, IdsOnce
    <3>3. \A r \in leanQueries : toLean[i + 1].id # r.id
      BY <2>5, <3>1 DEF ConsumeInv, IdsOnce
    <3> QED
      BY <2>1, <3>1, <3>2, <3>3
  <2>6. \A q, r \in leanQueries' : q.id = r.id => q = r
    BY <2>1, <2>4 DEF ConsumeInv, IdsOnce
  <2>7. IdsOnce'
    BY <1>3, <1>5, <2>5, <2>6 DEF ConsumeInv, IdsOnce
  <2> QED
    BY <1>4, <2>3, <2>7 DEF ConsumeInv
<1> QED
  BY <1>7, <1>8 DEF LeanWriter

\* A message with an id of Helix's or Lean's own, or with none, is not ours.
LEMMA ForeignIsHeld ==
  ASSUME TypeOK, NEW f, f.id \in ForeignId \cup {None}, S2cRead(f)
  PROVE  S2cHold(f) /\ leanCount' = leanCount + 1
<1>1. \A p \in outstanding : p.id.kind \in Kinds
  BY DEF TypeOK, Pending, InjectedId
<1>2. f.id # None => f.id.kind \notin Kinds
  BY DEF ForeignId, Kinds
<1>3. Ours(f) = {}
  BY <1>1, <1>2 DEF Ours, Matches, IsResponse
<1> QED
  BY <1>3 DEF S2cRead

\* So Lean's own messages and replies disturb nothing here.
LEMMA HoldConsume ==
  ASSUME TypeOK, ConsumeInv, NEW f, S2cRead(f), S2cHold(f), leanQueries' = leanQueries
  PROVE  ConsumeInv'
<1>1. leanCount \in Nat /\ consumed \subseteq Nat /\ leanCount' = leanCount + 1
      /\ UNCHANGED <<toLean, generation, outstanding, leanQueries, filled, consumed>>
  BY DEF TypeOK, S2cRead, S2cHold
<1> QED
  BY <1>1, ConsumeUnchanged

\* The answer to an injected query finds its registered Pending, and the two
\* go together.
LEMMA AnswerIsConsumed ==
  ASSUME TypeOK, ConsumeInv, NEW q \in leanQueries, NEW f, f.id = q.id,
         f.method = None, S2cRead(f)
  PROVE  \E p \in outstanding : p.id = q.id /\ S2cConsume(f, p)
<1>1. q.id \in InjectedId /\ q.id # None
  BY NoneIsNoValue DEF TypeOK, LeanQuery, Id
<1>2. Known(q.id)
  BY RegistryForm DEF AtLean, ConsumeInv
<1>3. Ours(f) = Matches(q.id)
  BY <1>1 DEF Ours, IsResponse, IsStr, InjectedId, Kinds
<1>4. Matches(q.id) # {}
  BY <1>2 DEF Known, Matches
<1> QED
  BY <1>3, <1>4 DEF S2cRead, Matches

\* An answered query leaves Lean and the registry together; its answer is kept,
\* and shown only when it belongs to the newest generation and was not shown yet.
LEMMA QueryAnsweredConsume ==
  ASSUME TypeOK, ConsumeInv, NEW q \in leanQueries, NEW a \in Answers,
         LeanAnswersQuery(q, a)
  PROVE  /\ ConsumeInv'
         /\ consumed' = consumed \cup {leanCount + 1}
         /\ leanQueries' = leanQueries \ {q}
         /\ UNCHANGED generation
         /\ \/ UNCHANGED filled
            \/ \E k \in Kinds : /\ filled[k] < generation
                                /\ filled' = [filled EXCEPT ![k] = generation]
<1>1. PICK f : /\ f.id = q.id /\ f.method = None /\ f.n = leanCount + 1
               /\ S2cRead(f)
  BY DEF LeanAnswersQuery, Message
<1>2. PICK p \in outstanding : p.id = q.id /\ S2cConsume(f, p)
  BY <1>1, AnswerIsConsumed
<1>3. /\ leanQueries' = leanQueries \ {q} /\ outstanding' = outstanding \ {p}
      /\ leanCount' = leanCount + 1 /\ consumed' = consumed \cup {leanCount + 1}
      /\ UNCHANGED <<toLean, generation>>
  BY <1>1, <1>2 DEF LeanAnswersQuery, S2cRead, S2cConsume
<1>4. /\ filled \in [Kinds -> Nat] /\ generation \in Nat /\ p.id.kind \in Kinds
      /\ leanCount \in Nat /\ consumed \subseteq Nat
      /\ \A r \in outstanding : r.id \in InjectedId
  BY DEF TypeOK, Pending, InjectedId
<1>5. \/ UNCHANGED filled
      \/ /\ p.id.gen = generation
         /\ filled' = [filled EXCEPT ![p.id.kind] = generation]
  BY <1>2 DEF S2cConsume
<1>6. \A r \in outstanding' : r \in outstanding /\ r.id # p.id
  BY <1>3 DEF ConsumeInv, IdsOnce
<1>7. RegistryExact'
  <2>1. \A id : Known(id)' <=> Known(id) /\ id # q.id
    BY <1>2, <1>3, <1>6 DEF Known
  <2>2. \A id : AtLean(id)' <=> AtLean(id) /\ id # q.id
    BY <1>3 DEF AtLean, ConsumeInv, IdsOnce
  <2>3. \A id : Queued(id)' <=> Queued(id)
    BY <1>3 DEF Queued
  <2>4. ~Queued(q.id)
    BY DEF Queued, ConsumeInv, IdsOnce
  <2> QED
    BY <2>1, <2>2, <2>3, <2>4, RegistryForm, RegistryFormNext DEF ConsumeInv
<1>8. IdsOnce'
  BY <1>3 DEF ConsumeInv, IdsOnce
<1>9. NotShownYet'
  <2>1. \A k \in Kinds : filled'[k] <= generation'
    BY <1>3, <1>4, <1>5 DEF ConsumeInv, NotShownYet
  <2>2. ASSUME NEW r \in outstanding', r.id.gen = generation
        PROVE  filled'[r.id.kind] < generation
    <3>1. r \in outstanding /\ r.id # p.id /\ filled[r.id.kind] < generation
      BY <1>6, <2>2 DEF ConsumeInv, NotShownYet
    <3>2. p.id.gen = generation => r.id.kind # p.id.kind
      BY <1>4, <2>2, <3>1 DEF InjectedId
    <3>3. CASE UNCHANGED filled
      BY <3>1, <3>3
    <3>4. CASE p.id.gen = generation /\ filled' = [filled EXCEPT ![p.id.kind] = generation]
      <4>1. r.id.kind \in Kinds /\ r.id.kind # p.id.kind
        BY <1>4, <3>1, <3>2, <3>4 DEF InjectedId
      <4>2. filled'[r.id.kind] = filled[r.id.kind]
        BY <1>4, <3>4, <4>1
      <4> QED
        BY <3>1, <4>2
    <3> QED
      BY <1>5, <3>3, <3>4
  <2> QED
    BY <1>3, <1>6, <2>1, <2>2 DEF ConsumeInv, NotShownYet
<1>10. \A n \in consumed' : n <= leanCount'
  BY <1>3, <1>4 DEF ConsumeInv
<1>11. p.id.gen = generation => filled[p.id.kind] < generation
  BY DEF ConsumeInv, NotShownYet
<1> QED
  BY <1>3, <1>4, <1>5, <1>7, <1>8, <1>9, <1>10, <1>11 DEF ConsumeInv

\* What else changes nothing ConsumeInv speaks of.
LEMMA BystanderConsume ==
  ASSUME TypeOK, ConsumeInv,
         HelixSpeaks \/ SnoopObserve \/ S2cForward \/ HelixWriter \/ UNCHANGED vars
  PROVE  /\ ConsumeInv'
         /\ UNCHANGED <<generation, leanQueries, filled, consumed>>
<1>1. UNCHANGED <<toLean, generation, outstanding, leanQueries, filled, consumed, leanCount>>
  <2>1. CASE HelixSpeaks
    BY <2>1 DEF HelixSpeaks, C2sRead, queryVars, leanVars
  <2>2. CASE SnoopObserve
    BY <2>2 DEF SnoopObserve, queryVars, leanVars
  <2>3. CASE S2cForward
    BY <2>3 DEF S2cForward, queryVars, leanVars
  <2>4. CASE HelixWriter
    BY <2>4 DEF HelixWriter, queryVars, leanVars
  <2>5. CASE UNCHANGED vars
    BY <2>5 DEF vars, queryVars, leanVars
  <2> QED
    BY <2>1, <2>2, <2>3, <2>4, <2>5
<1>2. leanCount \in Nat /\ consumed \subseteq Nat
  BY DEF TypeOK
<1> QED
  BY <1>1, <1>2, ConsumeUnchanged

\* Lean's own messages and its replies to Helix are held for Helix.
LEMMA ForeignConsume ==
  ASSUME TypeOK, ConsumeInv, RequestReplied \/ LeanSpeaks
  PROVE  /\ ConsumeInv'
         /\ UNCHANGED <<snapshot, outstanding, generation, leanQueries, filled, consumed>>
<1>1. leanQueries' = leanQueries
      /\ \E f : f.id \in ForeignId \cup {None} /\ S2cRead(f)
  <2>1. ASSUME NEW r \in leanReqs, NEW k \in {"num", "str"}, LeanRepliesTo(r, k)
        PROVE  leanQueries' = leanQueries
               /\ \E f : f.id \in ForeignId \cup {None} /\ S2cRead(f)
    <3>1. PICK f : f = Message(Foreign(k), None, None, {})
      OBVIOUS
    <3>2. f.id \in ForeignId
      BY <3>1 DEF Message, Foreign, ForeignId
    <3>3. S2cRead(f) /\ leanQueries' = leanQueries
      BY <2>1, <3>1 DEF LeanRepliesTo
    <3> QED
      BY <3>2, <3>3
  <2>2. ASSUME NEW m \in LeanSays \ {"request"}, NEW u \in Uri, NEW r \in LeanRanges \cup {{}},
               LeanNotifies(m, u, r)
        PROVE  leanQueries' = leanQueries
               /\ \E f : f.id \in ForeignId \cup {None} /\ S2cRead(f)
    <3>1. PICK f : f = Message(None, m, u, r)
      OBVIOUS
    <3>2. f.id = None
      BY <3>1 DEF Message
    <3>3. S2cRead(f) /\ leanQueries' = leanQueries
      BY <2>2, <3>1 DEF LeanNotifies
    <3> QED
      BY <3>2, <3>3
  <2>3. ASSUME LeanRequests
        PROVE  leanQueries' = leanQueries
               /\ \E f : f.id \in ForeignId \cup {None} /\ S2cRead(f)
    <3>1. PICK f : f = Message(Foreign("str"), "request", None, {})
      OBVIOUS
    <3>2. f.id \in ForeignId
      BY <3>1 DEF Message, Foreign, ForeignId
    <3>3. S2cRead(f) /\ leanQueries' = leanQueries
      BY <2>3, <3>1 DEF LeanRequests
    <3> QED
      BY <3>2, <3>3
  <2> QED
    BY <2>1, <2>2, <2>3 DEF RequestReplied, LeanSpeaks
<1>2. PICK f : f.id \in ForeignId \cup {None} /\ S2cRead(f)
  BY <1>1
<1>3. S2cHold(f)
  BY <1>2, ForeignIsHeld
<1> QED
  BY <1>1, <1>2, <1>3, HoldConsume DEF S2cRead, S2cHold

\* ConsumeInv is inductive.
LEMMA NextConsume == TypeOK /\ ConsumeInv /\ [Next]_vars => ConsumeInv'
<1> SUFFICES ASSUME TypeOK, ConsumeInv, [Next]_vars PROVE ConsumeInv'
  OBVIOUS
<1>1. CASE C2sForward
  BY <1>1, C2sForwardConsume
<1>2. CASE DebounceFires
  BY <1>2, DebounceFiresConsume
<1>3. CASE LeanWriter
  BY <1>3, LeanWriterConsume
<1>4. CASE QueryAnswered
  BY <1>4, QueryAnsweredConsume DEF QueryAnswered
<1>5. CASE RequestReplied \/ LeanSpeaks
  BY <1>5, ForeignConsume
<1>6. CASE HelixSpeaks \/ SnoopObserve \/ S2cForward \/ HelixWriter \/ UNCHANGED vars
  BY <1>6, BystanderConsume
<1> QED
  BY <1>1, <1>2, <1>3, <1>4, <1>5, <1>6 DEF Next

\* ConsumeInv holds throughout: the fact the theorems below rest on.
THEOREM ConsumeAlways == Spec => []ConsumeInv
<1>1. Init => ConsumeInv
  BY InitConsume
<1>2. TypeOK /\ ConsumeInv /\ [Next]_vars => ConsumeInv'
  BY NextConsume
<1> QED
  BY <1>1, <1>2, TypeCorrect, PTL DEF Spec

\* The registry holds exactly the ids in flight (query.rs, Outstanding): no
\* answer can come for an id forgotten, no id lingers.
THEOREM RegistryCorrect == Spec => []RegistryExact
<1>1. ConsumeInv => RegistryExact
  BY DEF ConsumeInv
<1> QED
  BY <1>1, ConsumeAlways, PTL

----------------------------------------------------------------------------
(* Two properties of steps. *)

\* What a step does to the answers outstanding and to the messages kept.
LEMMA StepWithholds ==
  ASSUME TypeOK, ConsumeInv, [Next]_vars
  PROVE  (leanQueries \ leanQueries' # {}) <=> (consumed' # consumed)
<1>1. ASSUME leanQueries \subseteq leanQueries', consumed' = consumed
      PROVE  (leanQueries \ leanQueries' # {}) <=> (consumed' # consumed)
  BY <1>1
<1>2. CASE C2sForward
  BY <1>1, <1>2 DEF C2sForward, c2sFrame, leanVars
<1>3. CASE DebounceFires
  BY <1>1, <1>3 DEF DebounceFires, leanVars
<1>4. CASE LeanWriter
  BY <1>1, <1>4 DEF LeanWriter, LeanReads, LeanReadsQuery
<1>5. CASE QueryAnswered
  <2>1. PICK q \in leanQueries, a \in Answers : LeanAnswersQuery(q, a)
    BY <1>5 DEF QueryAnswered
  <2>2. leanQueries' = leanQueries \ {q} /\ consumed' = consumed \cup {leanCount + 1}
    BY <2>1, QueryAnsweredConsume
  <2>3. leanCount + 1 \notin consumed
    BY DEF TypeOK, ConsumeInv
  <2> QED
    BY <2>2, <2>3
<1>6. CASE RequestReplied \/ LeanSpeaks
  BY <1>1, <1>6, ForeignConsume
<1>7. CASE HelixSpeaks \/ SnoopObserve \/ S2cForward \/ HelixWriter \/ UNCHANGED vars
  BY <1>1, <1>7, BystanderConsume
<1> QED
  BY <1>2, <1>3, <1>4, <1>5, <1>6, <1>7 DEF Next

\* The proxy keeps from Helix exactly the answers to its own queries
\* (forward.rs, the headline invariant).
THEOREM WithholdsAnswers == Spec => WithholdsExactlyAnswers
<1>1. TypeOK /\ ConsumeInv /\ [Next]_vars
      => [(leanQueries \ leanQueries' # {}) <=> (consumed' # consumed)]_vars
  BY StepWithholds
<1> QED
  BY <1>1, TypeCorrect, ConsumeAlways, PTL DEF Spec, WithholdsExactlyAnswers

\* What a step does to the generation and to what is shown.
LEMMA StepShows ==
  ASSUME TypeOK, ConsumeInv, [Next]_vars
  PROVE  [Goals!Ask \/ \E k \in Kinds : Goals!Show(k)]_<<generation, filled>>
<1>1. CASE UNCHANGED <<generation, filled>>
  BY <1>1
<1>2. CASE C2sForward
  BY <1>1, <1>2 DEF C2sForward, c2sFrame
<1>3. CASE DebounceFires
  <2>1. generation' = generation + 1 /\ UNCHANGED filled
    BY <1>3 DEF DebounceFires, SnoopFire, Request
  <2> QED
    BY <2>1 DEF Goals!Ask
<1>4. CASE LeanWriter
  BY <1>1, <1>4 DEF LeanWriter
<1>5. CASE QueryAnswered
  <2>1. PICK q \in leanQueries, a \in Answers : LeanAnswersQuery(q, a)
    BY <1>5 DEF QueryAnswered
  <2>2. /\ UNCHANGED generation
        /\ \/ UNCHANGED filled
           \/ \E k \in Kinds : /\ filled[k] < generation
                               /\ filled' = [filled EXCEPT ![k] = generation]
    BY <2>1, QueryAnsweredConsume
  <2> QED
    BY <2>2 DEF Goals!Show
<1>6. CASE RequestReplied \/ LeanSpeaks
  BY <1>1, <1>6, ForeignConsume
<1>7. CASE HelixSpeaks \/ SnoopObserve \/ S2cForward \/ HelixWriter \/ UNCHANGED vars
  BY <1>1, <1>7, BystanderConsume
<1> QED
  BY <1>2, <1>3, <1>4, <1>5, <1>6, <1>7 DEF Next

\* The forwarder implements GoalView: only the most recent focus renders
\* (query.rs, supersession).
THEOREM LatestRenders == Spec => OnlyLatestRenders
<1>1. Init => Goals!Init
  BY DEF Init, QueryInit, Goals!Init
<1>2. TypeOK /\ ConsumeInv /\ [Next]_vars
      => [Goals!Ask \/ \E k \in Kinds : Goals!Show(k)]_<<generation, filled>>
  BY StepShows
<1> QED
  BY <1>1, <1>2, TypeCorrect, ConsumeAlways, PTL DEF Spec, OnlyLatestRenders, Goals!Spec

----------------------------------------------------------------------------
(* Versions grow along the pipe. *)

\* f gives u a new version.
Opens(f, u) == f.method \in {"didOpen", "didChange"} /\ f.uri = u

\* Helix's messages as far as the pump has read them.
Written == IF c2s = None THEN ClientFrames ELSE ClientFrames \cup {c2s}

\* As long as no document was closed the versions of each only grow, from Helix
\* to Lean: the editor's is the newest, and Lean's no older than any it has read.
VersionsInv ==
  /\ \A f \in Written : f.method \in {"didOpen", "didChange"} => f.version \in Nat
  /\ (\A f \in Written : f.method # "didClose") =>
       \A f \in Written, u \in Uri : Opens(f, u) =>
         editor.docs[u] # None /\ f.version <= editor.docs[u]
  /\ NeverClosed =>
       /\ \A f \in ClientFrames, g \in Written, u \in Uri :
            Opens(f, u) /\ Opens(g, u) /\ f.n <= g.n => f.version <= g.version
       /\ \A i \in DOMAIN leanGot, u \in Uri : Opens(leanGot[i], u) =>
            leanDocs[u] # None /\ leanGot[i].version <= leanDocs[u]

LEMMA InitVersions == Init => VersionsInv
<1> SUFFICES ASSUME Init PROVE VersionsInv
  OBVIOUS
<1>1. ClientFrames = {} /\ c2s = None /\ DOMAIN leanGot = {}
  BY ClientFramesAre DEF Init, QueryInit
<1> QED
  BY <1>1 DEF VersionsInv, Written

LEMMA VersionsKept ==
  ASSUME VersionsInv, UNCHANGED <<ClientFrames, Written, leanGot, leanDocs>>,
         editor'.docs = editor.docs
  PROVE  VersionsInv'
BY DEF VersionsInv, NeverClosed

\* What Helix's next message does to the versions.
LEMMA ReadVersion ==
  ASSUME TypeOK, NEW m \in ClientMethods, NEW u \in Uri \cup {None},
         NEW p \in Position \cup {None}, C2sRead(m, u, p), NEW v \in Uri
  PROVE  LET r == Read(m, u, p) IN
         \/ /\ Opens(r, v) /\ editor'.docs[v] = r.version
            /\ \/ editor.docs[v] = None
               \/ editor.docs[v] \in Nat /\ r.version = editor.docs[v] + 1
         \/ ~Opens(r, v) /\ editor'.docs[v] = editor.docs[v]
         \/ r.method = "didClose"
<1>1. /\ Read(m, u, p).method = m /\ Read(m, u, p).uri = u
      /\ Read(m, u, p).version
           = IF m \in {"didOpen", "didChange"} THEN EditorAfter(m, u).docs[u] ELSE None
  BY DEF Read
<1>2. /\ Legal(m, u, p) /\ editor' = EditorAfter(m, u)
      /\ editor \in [phase : {"start", "waiting", "answered", "open"},
                     docs : [Uri -> Nat \cup {None}]]
  BY DEF C2sRead, TypeOK
<1>3. CASE m = "didOpen"
  BY <1>1, <1>2, <1>3 DEF EditorAfter, Legal, Opens
<1>4. CASE m = "didChange"
  <2>1. u \in Uri /\ editor.docs[u] \in Nat
    BY <1>2, <1>4 DEF Legal
  <2> QED
    BY <1>1, <1>2, <1>4, <2>1 DEF EditorAfter, Opens
<1>5. CASE m \notin {"didOpen", "didChange", "didClose"}
  BY <1>1, <1>2, <1>5 DEF EditorAfter, Opens
<1> QED
  BY <1>1, <1>3, <1>4, <1>5

LEMMA HelixSpeaksVersions ==
  ASSUME TypeOK, ToLeanInv, VersionsInv, HelixSpeaks
  PROVE  VersionsInv'
<1>1. PICK m \in ClientMethods, u \in Uri \cup {None}, p \in Position \cup {None} :
        C2sRead(m, u, p)
  BY DEF HelixSpeaks
<1> DEFINE r == Read(m, u, p)
<1>2. /\ r \in ClientFrame
      /\ r.method \in {"didOpen", "didChange"} => r.version \in Nat
  BY <1>1, ReadType DEF Read
<1>3. \A v \in Uri :
        \/ /\ Opens(r, v) /\ editor'.docs[v] = r.version
           /\ \/ editor.docs[v] = None
              \/ editor.docs[v] \in Nat /\ r.version = editor.docs[v] + 1
        \/ ~Opens(r, v) /\ editor'.docs[v] = editor.docs[v]
        \/ r.method = "didClose"
  BY <1>1, ReadVersion
<1>4. c2s = None /\ c2s' = r
  BY <1>1 DEF C2sRead
<1>5. ClientFrames' = ClientFrames /\ UNCHANGED <<leanGot, leanDocs>>
  BY <1>1, C2sReadToLean DEF C2sRead, ClientFrames, leanVars
<1> HIDE DEF r
<1>6. Written = ClientFrames /\ Written' = ClientFrames \cup {r}
  BY <1>2, <1>4, <1>5, NoneIsNoFrame DEF Written
<1>7. \A f \in ClientFrames : f.method \in {"didOpen", "didChange"} => f.version \in Nat
  BY <1>6 DEF VersionsInv
<1>8. NeverClosed =>
        \A f \in ClientFrames, v \in Uri : Opens(f, v) =>
          editor.docs[v] # None /\ f.version <= editor.docs[v]
  BY <1>6 DEF VersionsInv, NeverClosed
<1>9. ASSUME NeverClosed, NEW f \in ClientFrames, NEW v \in Uri, Opens(f, v), Opens(r, v)
      PROVE  f.version <= r.version
  <2>1. editor.docs[v] # None /\ f.version <= editor.docs[v] /\ f.version \in Nat
    BY <1>7, <1>8, <1>9 DEF Opens
  <2>2. r.method # "didClose"
    BY <1>9 DEF Opens
  <2>3. editor.docs[v] \in Nat /\ r.version = editor.docs[v] + 1
    BY <1>3, <1>9, <2>1, <2>2
  <2> QED
    BY <2>1, <2>3
<1>10. (\A f \in Written : f.method # "didClose")' =>
         (\A f \in Written, v \in Uri : Opens(f, v) =>
            editor.docs[v] # None /\ f.version <= editor.docs[v])'
  <2> SUFFICES ASSUME \A f \in Written' : f.method # "didClose",
                      NEW f \in Written', NEW v \in Uri, Opens(f, v)
               PROVE  editor'.docs[v] # None /\ f.version <= editor'.docs[v]
    OBVIOUS
  <2>1. NeverClosed /\ r.method # "didClose"
    BY <1>6 DEF NeverClosed
  <2>2. CASE Opens(r, v)
    <3>1. editor'.docs[v] = r.version /\ r.version \in Nat
      BY <1>2, <1>3, <2>1, <2>2 DEF Opens
    <3>2. f.version <= r.version
      BY <1>6, <1>9, <2>1, <2>2, <3>1
    <3> QED
      BY <3>1, <3>2, NoneIsNoValue
  <2>3. CASE ~Opens(r, v)
    BY <1>3, <1>6, <1>8, <2>1, <2>3
  <2> QED
    BY <2>2, <2>3
<1>11. NeverClosed' =>
         \A f \in ClientFrames, g \in Written', v \in Uri :
           Opens(f, v) /\ Opens(g, v) /\ f.n <= g.n => f.version <= g.version
  <2>1. NeverClosed' <=> NeverClosed
    BY <1>5 DEF NeverClosed
  <2> QED
    BY <1>6, <1>9, <2>1 DEF VersionsInv
<1>12. \A f \in Written' : f.method \in {"didOpen", "didChange"} => f.version \in Nat
  BY <1>2, <1>6, <1>7
<1>13. NeverClosed' => \A i \in DOMAIN leanGot', v \in Uri : Opens(leanGot'[i], v) =>
                         leanDocs'[v] # None /\ leanGot'[i].version <= leanDocs'[v]
  BY <1>5 DEF VersionsInv, NeverClosed
<1> QED
  BY <1>5, <1>10, <1>11, <1>12, <1>13 DEF VersionsInv

\* The message passed on is newer than those before it.
LEMMA C2sForwardVersions ==
  ASSUME TypeOK, ToLeanInv, VersionsInv, C2sForward
  PROVE  VersionsInv'
<1>1. \A f : f \in ClientFrames' <=> f \in ClientFrames \/ f = c2s
  BY C2sForwardFrames
<1>2. c2s # None /\ c2s' = None
  BY DEF C2sForward
<1>3. Written' = Written /\ Written = ClientFrames'
  BY <1>1, <1>2 DEF Written
<1>4. UNCHANGED <<editor, leanGot, leanDocs>>
  BY DEF C2sForward, c2sFrame, helixVars, leanVars
<1>5. NeverClosed' => NeverClosed
  BY <1>1 DEF NeverClosed
<1>6. \A f \in ClientFrames : f.n \in Nat /\ ~(c2s.n <= f.n)
  <2> TAKE f \in ClientFrames
  <2>1. f.n \in Nat /\ f.n <= PassedOn
    BY ClientFramesBounded
  <2>2. PassedOn = sent - 1 /\ c2s.n = sent /\ sent \in Nat
    BY C2sForwardToLean DEF TypeOK
  <2> QED
    BY <2>1, <2>2
<1>7. \A f \in Written : \A u : Opens(f, u) => f.version \in Nat
  BY DEF VersionsInv, Opens
<1>8. NeverClosed' =>
        \A f \in ClientFrames', g \in Written', u \in Uri :
          Opens(f, u) /\ Opens(g, u) /\ f.n <= g.n => f.version <= g.version
  <2> SUFFICES ASSUME NeverClosed', NEW f \in ClientFrames', NEW g \in ClientFrames',
                      NEW u \in Uri, Opens(f, u), Opens(g, u), f.n <= g.n
               PROVE  f.version <= g.version
    BY <1>3
  <2>1. CASE f \in ClientFrames
    BY <1>3, <1>5, <2>1 DEF VersionsInv
  <2>2. CASE f = c2s
    <3>1. g = c2s
      BY <1>1, <1>6, <2>2
    <3>2. f.version \in Nat
      BY <1>3, <1>7
    <3> QED
      BY <2>2, <3>1, <3>2
  <2> QED
    BY <1>1, <2>1, <2>2
<1> QED
  BY <1>3, <1>4, <1>5, <1>8 DEF VersionsInv

\* What Lean reads next is no older than what it has read.
LEMMA LeanWriterVersions ==
  ASSUME TypeOK, ToLeanInv, VersionsInv, LeanWriter
  PROVE  VersionsInv'
<1> DEFINE f == Head(toLean)
<1>1. UNCHANGED <<ClientFrames, c2s, editor>> /\ Written' = Written
  BY LeanWriterFrames DEF LeanWriter, Written, helixVars
<1>2. CASE f.from = "proxy" /\ LeanReadsQuery(f)
  BY <1>1, <1>2, VersionsKept DEF LeanReadsQuery
<1>3. CASE f.from = "helix" /\ LeanReads(f)
  <2>1. toLean \in Seq(ClientFrame \cup QueryFrame) /\ toLean # <<>>
        /\ leanGot \in Seq(ClientFrame) /\ leanDocs \in [Uri -> Nat \cup {None}]
    BY DEF TypeOK, LeanWriter
  <2>2. f = toLean[1] /\ 1 \in DOMAIN toLean /\ f \in ClientFrame
    BY <1>3, <2>1, TailParts DEF QueryFrame
  <2>3. f \in ClientFrames /\ f.n = Len(leanGot) + 1
    BY <1>3, <2>1, <2>2, ClientFramesAre, NextForLean
  <2>4. /\ Len(leanGot) \in Nat /\ DOMAIN leanGot = 1 .. Len(leanGot)
        /\ DOMAIN leanGot' = 1 .. Len(leanGot) + 1
        /\ \A i \in DOMAIN leanGot : leanGot'[i] = leanGot[i]
        /\ leanGot'[Len(leanGot) + 1] = f
        /\ leanDocs' = CASE f.method \in {"didOpen", "didChange"} ->
                              [leanDocs EXCEPT ![f.uri] = f.version]
                         [] f.method = "didClose" -> [leanDocs EXCEPT ![f.uri] = None]
                         [] OTHER -> leanDocs
    BY <1>3, <2>1, <2>2, AppendParts DEF LeanReads
  <2> HIDE DEF f
  <2>5. SUFFICES ASSUME NeverClosed, NEW i \in DOMAIN leanGot', NEW u \in Uri,
                        Opens(leanGot'[i], u)
                 PROVE  leanDocs'[u] # None /\ leanGot'[i].version <= leanDocs'[u]
    BY <1>1 DEF VersionsInv, NeverClosed
  <2>6. f.method # "didClose"
    BY <2>3, <2>5 DEF NeverClosed
  <2>7. i \in DOMAIN leanGot \/ leanGot'[i] = f
    BY <2>4
  <2>8. CASE Opens(f, u)
    <3>1. leanDocs'[u] = f.version
      BY <2>1, <2>4, <2>8 DEF Opens
    <3>2. f.version \in Nat
      BY <2>3, <2>8 DEF VersionsInv, Written, Opens
    <3>3. CASE leanGot'[i] = f
      BY <3>1, <3>2, <3>3, NoneIsNoValue
    <3>4. CASE i \in DOMAIN leanGot
      <4>1. leanGot'[i] = leanGot[i] /\ leanGot[i] \in ClientFrames
        BY <2>4, <3>4, ClientFramesAre
      <4>2. leanGot[i].n <= f.n
        <5>1. leanGot[i].n = i /\ i \in Nat /\ i <= Len(leanGot)
          BY <2>4, <3>4 DEF ToLeanInv
        <5>2. Len(leanGot) \in Nat
          BY <2>4
        <5> QED
          BY <5>1, <5>2, <2>3
      <4>3. f \in Written
        BY <2>3 DEF Written
      <4>4. leanGot[i].version <= f.version
        BY <2>5, <2>8, <4>1, <4>2, <4>3 DEF VersionsInv
      <4> QED
        BY <3>1, <3>2, <4>1, <4>4, NoneIsNoValue
    <3> QED
      BY <2>7, <3>3, <3>4
  <2>9. CASE ~Opens(f, u)
    <3>1. i \in DOMAIN leanGot /\ leanGot'[i] = leanGot[i]
      BY <2>4, <2>5, <2>7, <2>9
    <3>2. leanDocs'[u] = leanDocs[u]
      BY <2>1, <2>4, <2>6, <2>9 DEF Opens
    <3> QED
      BY <2>5, <3>1, <3>2 DEF VersionsInv
  <2> QED
    BY <2>8, <2>9
<1> QED
  BY <1>2, <1>3 DEF LeanWriter

LEMMA VersionsNext ==
  ASSUME TypeOK, ToLeanInv, VersionsInv, [Next]_vars
  PROVE  VersionsInv'
<1> DEFINE quiet == <<toLean, leanGot, leanDocs, c2s, editor>>
<1>1. CASE UNCHANGED quiet
  BY <1>1, VersionsKept DEF ClientFrames, Written
<1>2. CASE QueryAnswered \/ RequestReplied \/ LeanSpeaks
  <2>1. UNCHANGED quiet
    BY <1>2, LeanWrites DEF S2cRead, helixVars
  <2> QED
    BY <2>1, <1>1
<1>3. CASE SnoopObserve \/ S2cForward \/ UNCHANGED vars
  <2>1. UNCHANGED quiet
    BY <1>3 DEF SnoopObserve, S2cForward, vars, queryVars, helixVars, leanVars
  <2> QED
    BY <2>1, <1>1
<1>4. CASE DebounceFires
  BY <1>4, DebounceFiresFrames, VersionsKept DEF DebounceFires, Written, helixVars, leanVars
<1>5. CASE HelixWriter
  <2>1. UNCHANGED <<toLean, leanGot, leanDocs, c2s>> /\ editor'.docs = editor.docs
    BY <1>5 DEF HelixWriter, queryVars, leanVars, TypeOK
  <2> QED
    BY <2>1, VersionsKept DEF ClientFrames, Written
<1> QED
  BY <1>2, <1>3, <1>4, <1>5, HelixSpeaksVersions, C2sForwardVersions, LeanWriterVersions
  DEF Next

\* In every reachable state.
LEMMA AlwaysVersions == Spec => []VersionsInv
BY TypeCorrect, AlwaysToLean, InitVersions, VersionsNext, PTL DEF Spec

\* The messages on the pipe are typed.
LEMMA ClientFramesTyped == TypeOK => \A f \in ClientFrames : f \in ClientFrame /\ f.n \in Nat
<1> SUFFICES ASSUME TypeOK, NEW f \in ClientFrames PROVE f \in ClientFrame /\ f.n \in Nat
  OBVIOUS
<1>1. leanGot \in Seq(ClientFrame) /\ toLean \in Seq(ClientFrame \cup QueryFrame)
  BY DEF TypeOK
<1>2. f \in ClientFrame
  BY <1>1, ClientFramesAre DEF QueryFrame
<1> QED
  BY <1>2 DEF ClientFrame

----------------------------------------------------------------------------
(* A focus is of a version Helix had written by then. *)

HasRead(u, v, n) == \E f \in ClientFrames : Opens(f, u) /\ f.version = v /\ f.n <= n

\* The snoop's versions come from messages it has observed, and so do those of
\* the foci read from its session.
SeenInv ==
  /\ \A i, j \in DOMAIN snoopQ : i < j => snoopQ[i].n < snoopQ[j].n
  /\ \A u \in Uri : snoop.docs[u] # None =>
       \E f \in ClientFrames : /\ Opens(f, u) /\ f.version = snoop.docs[u]
                               /\ \A i \in DOMAIN snoopQ : f.n < snoopQ[i].n
  /\ \A focus \in {pending, asked.focus} : focus # None =>
       HasRead(focus.uri, focus.version, focus.cause)

LEMMA InitSeen == Init => SeenInv
BY DEF Init, SnoopInit, SeenInv

LEMMA SeenKept ==
  ASSUME SeenInv, UNCHANGED <<ClientFrames, snoopQ, snoop>>,
         {pending', asked'.focus} \subseteq {pending, asked.focus, None}
  PROVE  SeenInv'
BY DEF SeenInv, HasRead

\* A message passed on is newer than all the snoop has seen or will see.
LEMMA C2sForwardSeen ==
  ASSUME TypeOK, ToLeanInv, CausesInv, SeenInv, C2sForward
  PROVE  SeenInv'
<1> DEFINE S == Len(snoopQ)
<1>1. c2s \in ClientFrame /\ snoopQ \in Seq(ClientFrame) /\ DOMAIN snoopQ = 1 .. S /\ S \in Nat
  BY DEF TypeOK, C2sForward
<1>2. PassedOn = sent - 1 /\ c2s.n = sent /\ sent \in Nat
  BY C2sForwardToLean DEF TypeOK
<1>3. UNCHANGED <<snoop, pending, asked>>
  BY DEF C2sForward, c2sFrame
<1>4. \A f : f \in ClientFrames' <=> f \in ClientFrames \/ f = c2s
  BY C2sForwardFrames
<1>5. \A i \in DOMAIN snoopQ' : \/ i \in DOMAIN snoopQ /\ snoopQ'[i] = snoopQ[i]
                                \/ /\ snoopQ'[i] = c2s
                                   /\ \A j \in DOMAIN snoopQ' : ~(i < j)
  <2>1. CASE snoopQ' = Append(snoopQ, c2s)
    <3>1. /\ DOMAIN snoopQ' = 1 .. S + 1 /\ snoopQ'[S + 1] = c2s
          /\ \A i \in 1 .. S : snoopQ'[i] = snoopQ[i]
      BY <1>1, <2>1, AppendParts
    <3>2. S \in Nat /\ DOMAIN snoopQ = 1 .. S
      BY <1>1
    <3> HIDE DEF S
    <3> QED
      BY <3>1, <3>2
  <2>2. CASE snoopQ' = snoopQ
    BY <2>2
  <2> QED
    BY <2>1, <2>2 DEF C2sForward
<1>6. \A i \in DOMAIN snoopQ : snoopQ[i].n < sent
  <2> TAKE i \in DOMAIN snoopQ
  <2>1. snoopQ[i] \in ClientFrame /\ snoopQ[i].n <= PassedOn
    BY <1>1 DEF CausesInv
  <2>2. snoopQ[i].n \in Nat
    BY <2>1 DEF ClientFrame
  <2>3. snoopQ[i].n <= PassedOn
    BY <2>1
  <2> QED
    BY <2>2, <2>3, <1>2
<1>7. \A f \in ClientFrames : f.n < sent
  <2> TAKE f \in ClientFrames
  <2>1. f.n \in Nat /\ f.n <= PassedOn
    BY ClientFramesBounded
  <2> QED
    BY <2>1, <1>2
<1>8. \A i, j \in DOMAIN snoopQ' : i < j => snoopQ'[i].n < snoopQ'[j].n
  BY <1>2, <1>5, <1>6 DEF SeenInv
<1>9. \A f \in ClientFrames : (\A i \in DOMAIN snoopQ : f.n < snoopQ[i].n) =>
        \A i \in DOMAIN snoopQ' : f.n < snoopQ'[i].n
  BY <1>2, <1>5, <1>7
<1>10. \A u, v, n : HasRead(u, v, n) => HasRead(u, v, n)'
  BY <1>4 DEF HasRead
<1> QED
  BY <1>3, <1>4, <1>8, <1>9, <1>10 DEF SeenInv

\* The session after a message is that of the messages up to it.
LEMMA SnoopObserveSeen ==
  ASSUME TypeOK, CursorInv, SeenInv, SnoopObserve
  PROVE  SeenInv'
<1> DEFINE h == Head(snoopQ)
           s == Observe(snoop, h)
<1>1. snoopQ \in Seq(ClientFrame) /\ snoopQ # <<>> /\ snoop \in SnoopState
      /\ snoopQ' = Tail(snoopQ) /\ snoop' = s
      /\ pending' \in {pending, FocusOf(s, h)}
      /\ UNCHANGED <<asked, toLean, leanGot>>
  BY DEF TypeOK, SnoopObserve, SnoopRecv, queryVars, leanVars
<1>2. /\ h = snoopQ[1] /\ 1 \in DOMAIN snoopQ /\ DOMAIN snoopQ \subseteq Nat \ {0}
      /\ h \in ClientFrame
      /\ \A i \in DOMAIN snoopQ' : i + 1 \in DOMAIN snoopQ /\ snoopQ'[i] = snoopQ[i + 1]
      /\ DOMAIN snoopQ' \subseteq Nat \ {0}
  BY <1>1, TailParts
<1>3. h \in ClientFrames /\ ClientFrames' = ClientFrames /\ h.n \in Nat
  BY <1>1, <1>2 DEF CursorInv, ClientFrames, ClientFrame
<1>4. \A i \in DOMAIN snoopQ' : h.n < snoopQ'[i].n /\ snoopQ'[i].n \in Nat
  <2> TAKE i \in DOMAIN snoopQ'
  <2>1. 1 < i + 1
    BY <1>2
  <2>2. snoopQ'[i] \in ClientFrame
    BY <1>1, <1>2
  <2> QED
    BY <1>2, <2>1, <2>2 DEF SeenInv, ClientFrame
<1>5. \A i, j \in DOMAIN snoopQ' : i < j => snoopQ'[i].n < snoopQ'[j].n
  <2>1. \A i, j \in DOMAIN snoopQ' : i < j => i + 1 < j + 1
    BY <1>2
  <2> QED
    BY <1>2, <2>1 DEF SeenInv
<1>6. \A u \in Uri : s.docs[u] = IF Touches(h, u) THEN Leaves(h) ELSE snoop.docs[u]
  BY <1>1, <1>2, ObserveEffect
<1> HIDE DEF h, s
<1>7. \A u \in Uri : s.docs[u] # None =>
        \E f \in ClientFrames : Opens(f, u) /\ f.version = s.docs[u] /\ f.n <= h.n
  <2> SUFFICES ASSUME NEW u \in Uri, s.docs[u] # None
               PROVE  \E f \in ClientFrames :
                        Opens(f, u) /\ f.version = s.docs[u] /\ f.n <= h.n
    OBVIOUS
  <2>1. CASE Touches(h, u)
    <3>1. Opens(h, u) /\ h.version = s.docs[u]
      BY <1>6, <2>1 DEF Touches, Leaves, Opens
    <3> QED
      BY <1>3, <3>1
  <2>2. CASE ~Touches(h, u)
    <3>1. PICK f \in ClientFrames : Opens(f, u) /\ f.version = snoop.docs[u] /\ f.n < h.n
      BY <1>2, <1>6, <2>2 DEF SeenInv
    <3>2. f.n <= h.n
      <4>1. f.n \in Nat
        BY ClientFramesTyped
      <4> QED
        BY <1>3, <3>1, <4>1
    <3> QED
      BY <1>6, <2>2, <3>1, <3>2
  <2> QED
    BY <2>1, <2>2
<1>8. \A u \in Uri : snoop'.docs[u] # None =>
        \E f \in ClientFrames : /\ Opens(f, u) /\ f.version = snoop'.docs[u]
                                /\ \A i \in DOMAIN snoopQ' : f.n < snoopQ'[i].n
  <2> SUFFICES ASSUME NEW u \in Uri, s.docs[u] # None
               PROVE  \E f \in ClientFrames : /\ Opens(f, u) /\ f.version = s.docs[u]
                                              /\ \A i \in DOMAIN snoopQ' : f.n < snoopQ'[i].n
    BY <1>1
  <2>1. PICK f \in ClientFrames : Opens(f, u) /\ f.version = s.docs[u] /\ f.n <= h.n
    BY <1>7
  <2>2. f.n \in Nat
    BY ClientFramesTyped
  <2>3. \A i \in DOMAIN snoopQ' : f.n < snoopQ'[i].n
    BY <1>3, <1>4, <2>1, <2>2
  <2> QED
    BY <2>1, <2>3
<1>9. ASSUME FocusOf(s, h) # None
      PROVE  HasRead(FocusOf(s, h).uri, FocusOf(s, h).version, FocusOf(s, h).cause)
  <2>1. /\ h.uri \in Uri /\ s.docs[h.uri] # None
        /\ FocusOf(s, h) = [uri |-> h.uri, version |-> s.docs[h.uri],
                            position |-> h.position, cause |-> h.n]
    BY <1>2, <1>9 DEF FocusOf, LegalFocus, ClientFrame
  <2> QED
    BY <1>7, <2>1 DEF HasRead
<1>10. \A u, v, n : HasRead(u, v, n)' <=> HasRead(u, v, n)
  BY <1>3 DEF HasRead
<1> QED
  BY <1>1, <1>3, <1>5, <1>8, <1>9, <1>10 DEF SeenInv

LEMMA SeenNext ==
  ASSUME TypeOK, ToLeanInv, CausesInv, CursorInv, SeenInv, [Next]_vars
  PROVE  SeenInv'
<1> DEFINE quiet == <<ClientFrames, snoopQ, snoop, pending, asked>>
<1>1. CASE UNCHANGED quiet
  BY <1>1, SeenKept
<1>2. CASE HelixSpeaks \/ QueryAnswered \/ RequestReplied \/ LeanSpeaks
  <2>1. UNCHANGED <<toLean, leanGot, snoopQ, snoop, pending, asked>>
    BY <1>2, LeanWrites DEF S2cRead, snoopVars, HelixSpeaks, C2sRead, queryVars, leanVars
  <2> QED
    BY <2>1, <1>1 DEF ClientFrames
<1>3. CASE S2cForward \/ HelixWriter \/ UNCHANGED vars
  <2>1. UNCHANGED <<toLean, leanGot, snoopQ, snoop, pending, asked>>
    BY <1>3 DEF S2cForward, HelixWriter, vars, queryVars, snoopVars, leanVars
  <2> QED
    BY <2>1, <1>1 DEF ClientFrames
<1>4. CASE LeanWriter
  <2>1. UNCHANGED <<snoopQ, snoop, pending, asked>>
    BY <1>4 DEF LeanWriter, snoopVars
  <2> QED
    BY <2>1, <1>1, <1>4, LeanWriterFrames
<1>5. CASE DebounceFires
  <2>1. /\ UNCHANGED <<snoopQ, snoop>> /\ pending' = None /\ asked'.focus = pending
    BY <1>5 DEF DebounceFires, SnoopFire
  <2> QED
    BY <2>1, <1>5, DebounceFiresFrames, SeenKept
<1> QED
  BY <1>2, <1>3, <1>4, <1>5, C2sForwardSeen, SnoopObserveSeen DEF Next

\* In every reachable state.
LEMMA AlwaysSeen == Spec => []SeenInv
BY TypeCorrect, AlwaysToLean, AlwaysCauses, AlwaysCursor, InitSeen, SeenNext, PTL DEF Spec

----------------------------------------------------------------------------
(* What is asked, and what is shown, speaks of the newest focus. *)

Asks(q, focus) ==
  q.uri = focus.uri /\ q.position = focus.position /\ q.cause = focus.cause
Speaks(text, focus) ==
  /\ text.uri = focus.uri /\ text.position = focus.position
  /\ NeverClosed => focus.version <= text.version
TextOf(kind) == IF kind = "goal" THEN snapshot.goals ELSE snapshot.termGoal
ShowsPlace(focus) == /\ snapshot.doc = [uri |-> focus.uri, version |-> focus.version]
                     /\ snapshot.position = focus.position

\* The queries of the newest generation are of its focus, in the registry, in
\* the queue and in Lean's hands, where they have met a text no older; those
\* accepted are registered until shown, and what is shown is theirs.
AnswersInv ==
  LET focus == asked.focus IN
  /\ generation = 0 => asked.kinds = {} /\ outstanding = {}
  /\ generation # 0 => focus # None
  /\ \A p \in outstanding : p.id.gen = generation =>
       /\ p.doc = [uri |-> focus.uri, version |-> focus.version]
       /\ p.position = focus.position
  /\ \A i \in DOMAIN toLean : toLean[i].from = "proxy" /\ toLean[i].id.gen = generation =>
       Asks(toLean[i], focus)
  /\ \A q \in leanQueries : q.id.gen = generation =>
       /\ Asks(q, focus)
       /\ NeverClosed => q.version # None /\ focus.version <= q.version
  /\ \A k \in asked.kinds :
       filled[k] = generation \/ \E p \in outstanding : p.id = IdOf(generation, k)
  /\ generation # 0 => \A k \in Kinds : filled[k] = generation =>
       ShowsPlace(focus) /\ (TextOf(k) # None => Speaks(TextOf(k), focus))

LEMMA InitAnswers == Init => AnswersInv
<1> SUFFICES ASSUME Init PROVE AnswersInv
  OBVIOUS
<1>1. generation = 0 /\ outstanding = {} /\ asked.kinds = {} /\ leanQueries = {}
      /\ DOMAIN toLean = {}
  BY DEF Init, QueryInit
<1> QED
  BY <1>1 DEF AnswersInv

\* Steps that ask and show nothing.
LEMMA AnswersKept ==
  ASSUME AnswersInv, UNCHANGED <<generation, outstanding, asked, filled, leanQueries>>,
         UNCHANGED <<snapshot.doc, snapshot.position, snapshot.goals, snapshot.termGoal>>,
         NeverClosed' => NeverClosed,
         \A i \in DOMAIN toLean' : toLean'[i].from = "proxy" =>
           \E j \in DOMAIN toLean : toLean'[i] = toLean[j]
  PROVE  AnswersInv'
<1>1. UNCHANGED <<TextOf("goal"), TextOf("term")>>
      /\ \A focus : ShowsPlace(focus)' <=> ShowsPlace(focus)
  BY DEF TextOf, ShowsPlace
<1>2. \A k \in Kinds : TextOf(k)' = TextOf(k)
  BY <1>1 DEF Kinds
<1>3. \A text, focus : Speaks(text, focus) => Speaks(text, focus)'
  BY DEF Speaks
<1> QED
  BY <1>1, <1>2, <1>3 DEF AnswersInv, Asks

\* The timer opens a generation with the pending focus: what is in flight is of
\* older ones, and what is shown as well.
LEMMA DebounceFiresAnswers ==
  ASSUME TypeOK, ConsumeInv, AnswersInv, DebounceFires
  PROVE  AnswersInv'
<1>1. PICK room \in Rooms :
        SnoopFire(room) /\ asked' = [focus |-> pending, kinds |-> AcceptedKinds(room)]
  BY DEF DebounceFires
<1> DEFINE gen == generation + 1
           queries == Queries(pending, gen, room)
<1>2. /\ pending # None /\ pending \in Focus /\ room \in Int
      /\ generation \in Nat /\ gen \in Nat /\ gen # 0 /\ gen # generation
      /\ \A n \in Nat : n <= generation => n # gen
  BY <1>1, SinkAssumption DEF TypeOK, SnoopFire, Rooms
<1>3. /\ generation' = gen /\ UNCHANGED <<filled, leanQueries, snapshot>>
      /\ outstanding' = Registered(pending, gen, room)
      /\ toLean' = toLean \o queries
  BY <1>1 DEF DebounceFires, SnoopFire, Request, leanVars
<1>4. asked'.focus = pending /\ asked'.kinds = AcceptedKinds(room)
  BY <1>1
<1>old. /\ \A p \in outstanding : p.id.gen # gen
        /\ \A q \in leanQueries : q.id.gen # gen
        /\ \A i \in DOMAIN toLean : toLean[i].from = "proxy" => toLean[i].id.gen # gen
        /\ \A k \in Kinds : filled[k] # gen
  <2> HIDE DEF gen
  <2>1. \A p \in outstanding : p.id.gen # gen
    BY <1>2 DEF ConsumeInv, NotShownYet, TypeOK, Pending, InjectedId
  <2>2. \A id : Queued(id) \/ AtLean(id) => id.gen # gen
    BY <2>1, RegistryForm DEF ConsumeInv, Known
  <2>3. \A k \in Kinds : filled[k] # gen
    BY <1>2 DEF ConsumeInv, NotShownYet, TypeOK
  <2> QED
    BY <2>1, <2>2, <2>3 DEF Queued, AtLean
<1>5. \A k : /\ PendingOf(pending, gen, k).id = IdOf(gen, k)
             /\ PendingOf(pending, gen, k).doc = [uri |-> pending.uri, version |-> pending.version]
             /\ PendingOf(pending, gen, k).position = pending.position
             /\ Asks(QueryFor(pending, gen, k), pending)
  BY DEF PendingOf, QueryFor, Asks
<1>6. \A i \in DOMAIN toLean' : \/ i \in DOMAIN toLean /\ toLean'[i] = toLean[i]
                                \/ \E k : toLean'[i] = QueryFor(pending, gen, k)
  <2>1. /\ queries \in Seq(QueryFrame) /\ Len(queries) \in 0 .. 2
        /\ \A j \in 1 .. Len(queries) : \E k : queries[j] = QueryFor(pending, gen, k)
    BY <1>2, QueriesType
  <2>2. queries \in Seq(ClientFrame \cup QueryFrame)
        /\ toLean \in Seq(ClientFrame \cup QueryFrame) /\ Len(toLean) \in Nat
    BY <2>1 DEF TypeOK
  <2> HIDE DEF queries
  <2>3. /\ DOMAIN toLean = 1 .. Len(toLean)
        /\ DOMAIN toLean' = 1 .. Len(toLean) + Len(queries)
        /\ \A i \in 1 .. Len(toLean) : toLean'[i] = toLean[i]
        /\ \A i \in Len(toLean) + 1 .. Len(toLean) + Len(queries) :
             toLean'[i] = queries[i - Len(toLean)]
    BY <1>3, <2>2, ConcatProperties, LenProperties
  <2>num. Len(toLean) \in Nat /\ Len(queries) \in Nat
    BY <2>1, <2>2
  <2>4. \A n, m \in Nat : \A i \in 1 .. n + m :
          i \in 1 .. n \/ (i \in n + 1 .. n + m /\ i - n \in 1 .. m)
    OBVIOUS
  <2>5. \A i \in DOMAIN toLean' :
          \/ i \in DOMAIN toLean
          \/ /\ i \in Len(toLean) + 1 .. Len(toLean) + Len(queries)
             /\ i - Len(toLean) \in 1 .. Len(queries)
    BY <2>3, <2>4, <2>num
  <2> QED
    BY <2>1, <2>3, <2>5
<1>7. \A k \in AcceptedKinds(room) : PendingOf(pending, gen, k) \in outstanding'
  <2> TAKE k \in AcceptedKinds(room)
  <2>1. \A j \in Kinds \ AcceptedKinds(room) : PendingOf(pending, gen, j) # PendingOf(pending, gen, k)
    <3> TAKE j \in Kinds \ AcceptedKinds(room)
    <3>1. IdOf(gen, j) # IdOf(gen, k)
      BY DEF IdOf
    <3> QED
      BY <1>5, <3>1
  <2> QED
    BY <1>3, <2>1 DEF Registered, AcceptedKinds
<1>8. \A p \in outstanding' : p.id.gen = gen => \E k : p = PendingOf(pending, gen, k)
  BY <1>3, <1>old DEF Registered
<1> HIDE DEF gen, queries
<1>9. \A k \in asked'.kinds : \E p \in outstanding' : p.id = IdOf(gen, k)
  BY <1>4, <1>5, <1>7
<1>10. \A p \in outstanding' : p.id.gen = gen =>
         /\ p.doc = [uri |-> pending.uri, version |-> pending.version]
         /\ p.position = pending.position
  BY <1>5, <1>8
<1>11. \A i \in DOMAIN toLean' : toLean'[i].from = "proxy" /\ toLean'[i].id.gen = gen =>
         Asks(toLean'[i], pending)
  BY <1>5, <1>6, <1>old
<1> QED
  BY <1>2, <1>3, <1>4, <1>old, <1>9, <1>10, <1>11 DEF AnswersInv, Asks

\* A query meets a text no older than its cursor: Lean has read the message its
\* version comes from.
LEMMA LeanWriterAnswers ==
  ASSUME TypeOK, ToLeanInv, ConsumeInv, VersionsInv, SeenInv, QueryAfterCause', AnswersInv,
         LeanWriter
  PROVE  AnswersInv'
<1> DEFINE f == Head(toLean)
<1>1. /\ f = toLean[1] /\ 1 \in DOMAIN toLean /\ f \in ClientFrame \cup QueryFrame
      /\ \A i \in DOMAIN toLean' : i + 1 \in DOMAIN toLean /\ toLean'[i] = toLean[i + 1]
  BY TailParts DEF TypeOK, LeanWriter
<1>2. ClientFrames' = ClientFrames /\ (NeverClosed' <=> NeverClosed)
  BY LeanWriterFrames DEF NeverClosed
<1>3. /\ UNCHANGED <<generation, outstanding, asked, filled, snapshot>>
      /\ \A i \in DOMAIN toLean' : \E j \in DOMAIN toLean : toLean'[i] = toLean[j]
  BY <1>1 DEF LeanWriter
<1>4. CASE f.from = "helix" /\ LeanReads(f)
  BY <1>2, <1>3, <1>4, AnswersKept DEF LeanReads
<1>5. CASE f.from = "proxy" /\ LeanReadsQuery(f)
  <2> DEFINE x == [id |-> f.id, uri |-> f.uri, position |-> f.position,
                   cause |-> f.cause, version |-> leanDocs[f.uri]]
  <2>1. leanQueries' = leanQueries \cup {x} /\ UNCHANGED leanGot /\ x.cause = f.cause
    BY <1>5 DEF LeanReadsQuery
  <2> HIDE DEF f
  <2>2. ASSUME x.id.gen = generation
        PROVE  /\ Asks(x, asked.focus)
               /\ NeverClosed => x.version # None /\ asked.focus.version <= x.version
    <3>1. Asks(f, asked.focus)
      BY <1>1, <1>5, <2>2 DEF AnswersInv
    <3>2. Asks(x, asked.focus)
      BY <3>1 DEF Asks
    <3>3. ASSUME NeverClosed
          PROVE  x.version # None /\ asked.focus.version <= x.version
      <4>1. f \in QueryFrame /\ f.uri \in Uri /\ f.uri = asked.focus.uri
        BY <1>1, <1>5, <3>1 DEF ClientFrame, QueryFrame, Asks
      <4>2. asked.focus # None
        <5>1. generation # 0
          BY <1>1, <1>5, RegistryForm DEF ConsumeInv, AnswersInv, Queued, Known
        <5> QED
          BY <5>1 DEF AnswersInv
      <4>3. PICK g \in ClientFrames : /\ Opens(g, f.uri) /\ g.version = asked.focus.version
                                      /\ g.n <= f.cause
        BY <3>1, <4>1, <4>2 DEF SeenInv, HasRead, Asks
      <4>4. f.cause <= Len(leanGot)
        <5>1. \A q \in leanQueries' : q.cause <= Len(leanGot)
          BY <2>1 DEF QueryAfterCause
        <5>2. x \in leanQueries'
          BY <2>1
        <5> HIDE DEF x
        <5> QED
          BY <2>1, <5>1, <5>2
      <4>5. g.n \in Nat /\ f.cause \in Nat /\ Len(leanGot) \in Nat
        BY <4>1, ClientFramesTyped DEF QueryFrame, TypeOK
      <4>6. ~(Len(leanGot) < g.n)
        BY <4>3, <4>4, <4>5
      <4>7. PICK i \in DOMAIN leanGot : g = leanGot[i]
        BY <4>6, ClientFramesAre DEF ToLeanInv
      <4> QED
        BY <3>3, <4>1, <4>3, <4>7 DEF VersionsInv
    <3> QED
      BY <3>2, <3>3
  <2> HIDE DEF x
  <2>3. \A q \in leanQueries' : q.id.gen = generation =>
          /\ Asks(q, asked.focus)
          /\ NeverClosed => q.version # None /\ asked.focus.version <= q.version
    BY <2>1, <2>2 DEF AnswersInv
  <2>4. \A text, focus : Speaks(text, focus)' <=> Speaks(text, focus)
    BY <1>2 DEF Speaks
  <2>5. \A focus, k : /\ ShowsPlace(focus)' <=> ShowsPlace(focus)
                      /\ TextOf(k)' = TextOf(k)
    BY <1>3 DEF ShowsPlace, TextOf
  <2> QED
    BY <1>2, <1>3, <2>3, <2>4, <2>5 DEF AnswersInv, Asks
<1> QED
  BY <1>4, <1>5 DEF LeanWriter

\* An answer of the newest generation is shown with the place it was asked at;
\* any other is dropped.
LEMMA QueryAnsweredAnswers ==
  ASSUME TypeOK, ConsumeInv, AnswersInv, QueryAnswered
  PROVE  AnswersInv'
<1>1. PICK q \in leanQueries, a \in Answers : LeanAnswersQuery(q, a)
  BY DEF QueryAnswered
<1> DEFINE text == IF a = "text"
                   THEN [uri |-> q.uri, version |-> q.version, position |-> q.position]
                   ELSE None
           m == [Message(q.id, None, None, {}) EXCEPT !.answer = a, !.text = text]
<1>2. PICK f : /\ f.id = q.id /\ f.method = None /\ f.answer = a /\ f.text = text
               /\ S2cRead(f)
  <2>1. m.id = q.id /\ m.method = None /\ m.answer = a /\ m.text = text
    <3> HIDE DEF text
    <3> QED
      BY DEF Message
  <2>2. S2cRead(m)
    BY <1>1 DEF LeanAnswersQuery
  <2> QED
    BY <2>1, <2>2
<1>3. PICK p \in outstanding : p.id = q.id /\ S2cConsume(f, p)
  BY <1>2, AnswerIsConsumed
<1>4. /\ UNCHANGED <<generation, asked, toLean, leanGot>>
      /\ outstanding' = outstanding \ {p} /\ leanQueries' \subseteq leanQueries
  BY <1>1, <1>2, <1>3 DEF LeanAnswersQuery, S2cRead, S2cConsume
<1>5. NeverClosed' <=> NeverClosed
  BY <1>4 DEF NeverClosed, ClientFrames
<1>6. ASSUME NEW k \in asked'.kinds
      PROVE  \/ filled[k] = generation \/ p.id = IdOf(generation, k)
             \/ \E r \in outstanding' : r.id = IdOf(generation, k)
  BY <1>4, <1>6 DEF AnswersInv
<1>7. \A t, focus : Speaks(t, focus)' <=> Speaks(t, focus)
  BY <1>5 DEF Speaks
<1>8. CASE p.id.gen # generation
  <2>1. UNCHANGED <<snapshot, filled>>
    BY <1>3, <1>8 DEF S2cConsume
  <2>2. \A k : p.id # IdOf(generation, k)
    BY <1>8 DEF IdOf
  <2>3. \A focus, k : (ShowsPlace(focus)' <=> ShowsPlace(focus)) /\ TextOf(k)' = TextOf(k)
    BY <2>1 DEF ShowsPlace, TextOf
  <2> QED
    BY <1>4, <1>5, <1>6, <1>7, <2>1, <2>2, <2>3 DEF AnswersInv, Asks
<1>9. CASE p.id.gen = generation
  <2> DEFINE kind == p.id.kind
             focus == asked.focus
  <2>1. /\ kind \in Kinds /\ filled \in [Kinds -> Nat] /\ snapshot \in Snapshot
        /\ p \in Pending /\ q \in LeanQuery
    BY DEF TypeOK, Pending, InjectedId
  <2>2. HandleInjectedResponse(p, f) /\ filled' = [filled EXCEPT ![kind] = generation]
    BY <1>3, <1>9 DEF S2cConsume
  <2>3. /\ snapshot'.doc = p.doc /\ snapshot'.position = p.position
        /\ TextOf(kind)' = text
        /\ \A k \in Kinds \ {kind} : TextOf(k)' = TextOf(k)
    <3> HIDE DEF text
    <3>1. \/ /\ kind = "goal" /\ snapshot'.goals = IF a = "text" THEN text ELSE None
             /\ UNCHANGED snapshot.termGoal
          \/ /\ kind = "term" /\ snapshot'.termGoal = IF a = "text" THEN text ELSE None
             /\ UNCHANGED snapshot.goals
      BY <1>2, <2>1, <2>2 DEF HandleInjectedResponse, Update, Snapshot
    <3>2. snapshot'.doc = p.doc /\ snapshot'.position = p.position
      BY <2>1, <2>2 DEF HandleInjectedResponse, Update, Snapshot
    <3>3. a # "text" => text = None
      BY DEF text
    <3> QED
      BY <3>1, <3>2, <3>3 DEF TextOf, Kinds
  <2>4. generation # 0
    BY DEF AnswersInv
  <2>5. ShowsPlace(focus)'
    BY <1>4, <1>9, <2>3 DEF AnswersInv, ShowsPlace
  <2>6. text # None => Speaks(text, focus)'
    BY <1>3, <1>4, <1>7, <1>9 DEF AnswersInv, Asks, Speaks
  <2> HIDE DEF text
  <2>7. \A k \in Kinds : filled'[k] = generation =>
          (TextOf(k) # None => Speaks(TextOf(k), focus))'
    <3> SUFFICES ASSUME NEW k \in Kinds, filled'[k] = generation, TextOf(k)' # None
                 PROVE  Speaks(TextOf(k), focus)'
      OBVIOUS
    <3>1. CASE k = kind
      BY <2>3, <2>6, <3>1
    <3>2. CASE k # kind
      BY <1>4, <1>7, <2>1, <2>2, <2>3, <2>4, <3>2 DEF AnswersInv
    <3> QED
      BY <3>1, <3>2
  <2>8. \A k \in asked'.kinds :
          filled'[k] = generation \/ \E r \in outstanding' : r.id = IdOf(generation, k)
    <3> TAKE k \in asked'.kinds
    <3>1. k \in Kinds
      BY <1>4 DEF TypeOK
    <3>2. p.id = IdOf(generation, k) => k = kind
      BY DEF IdOf
    <3> QED
      BY <1>6, <2>1, <2>2, <3>1, <3>2
  <2> QED
    BY <1>4, <1>5, <2>4, <2>5, <2>7, <2>8 DEF AnswersInv, Asks
<1> QED
  BY <1>8, <1>9

\* The tee leaves the focus and the goals alone.
LEMMA TeeKeepsGoals ==
  ASSUME NEW f, snapshot \in Snapshot, TeeTarget(f)
  PROVE  UNCHANGED <<snapshot.doc, snapshot.position, snapshot.goals, snapshot.termGoal>>
<1>2. CASE f.method = "diagnostics"
  BY <1>2 DEF TeeTarget, ApplyDiagnostics, Update, Snapshot
<1>3. CASE f.method = "progress"
  BY <1>3 DEF TeeTarget, ApplyProgress, Update, Snapshot
<1>4. CASE f.method \notin {"diagnostics", "progress"}
  BY <1>4 DEF TeeTarget
<1> QED
  BY <1>2, <1>3, <1>4

LEMMA AnswersNext ==
  ASSUME TypeOK, ToLeanInv, ConsumeInv, VersionsInv, SeenInv, CausesInv', AnswersInv,
         [Next]_vars
  PROVE  AnswersInv'
<1>1. CASE C2sForward
  <2>1. UNCHANGED <<generation, outstanding, asked, filled, leanQueries, snapshot>>
    BY <1>1 DEF C2sForward, c2sFrame, leanVars
  <2>2. NeverClosed' => NeverClosed
    BY <1>1, C2sForwardFrames DEF NeverClosed
  <2>3. \A i \in DOMAIN toLean' : toLean'[i].from = "proxy" =>
          \E j \in DOMAIN toLean : toLean'[i] = toLean[j]
    <3>1. /\ DOMAIN toLean = 1 .. Len(toLean) /\ DOMAIN toLean' = 1 .. Len(toLean) + 1
          /\ \A i \in DOMAIN toLean : toLean'[i] = toLean[i]
          /\ toLean'[Len(toLean) + 1] = c2s /\ c2s.from = "helix" /\ Len(toLean) \in Nat
      <4>1. c2s \in ClientFrame /\ toLean \in Seq(ClientFrame \cup QueryFrame)
        BY <1>1 DEF TypeOK, C2sForward
      <4> QED
        BY <4>1, <1>1, AppendParts DEF C2sForward, ClientFrame
    <3>2. \A i \in DOMAIN toLean' : i \in DOMAIN toLean \/ i = Len(toLean) + 1
      BY <3>1
    <3> QED
      BY <3>1, <3>2
  <2> QED
    BY <2>1, <2>2, <2>3, AnswersKept
<1>2. CASE RequestReplied \/ LeanSpeaks
  <2>1. UNCHANGED <<snapshot, outstanding, generation, leanQueries, filled>>
    BY <1>2, ForeignConsume
  <2>2. UNCHANGED <<toLean, leanGot, asked>>
    BY <1>2, LeanWrites DEF S2cRead
  <2> QED
    BY <2>1, <2>2, AnswersKept DEF NeverClosed, ClientFrames
<1>3. CASE HelixSpeaks \/ SnoopObserve \/ HelixWriter \/ UNCHANGED vars
  <2>1. UNCHANGED <<snapshot, outstanding, generation, leanQueries, filled, toLean, leanGot, asked>>
    BY <1>3 DEF HelixSpeaks, C2sRead, SnoopObserve, HelixWriter, vars, queryVars, leanVars
  <2> QED
    BY <2>1, AnswersKept DEF NeverClosed, ClientFrames
<1>4. CASE S2cForward
  <2>1. UNCHANGED <<outstanding, generation, leanQueries, filled, toLean, leanGot, asked>>
        /\ TeeTarget(s2c)
    BY <1>4 DEF S2cForward, queryVars, leanVars
  <2>2. UNCHANGED <<snapshot.doc, snapshot.position, snapshot.goals, snapshot.termGoal>>
    BY <2>1, TeeKeepsGoals DEF TypeOK
  <2> QED
    BY <2>1, <2>2, AnswersKept DEF NeverClosed, ClientFrames
<1> QED
  BY <1>1, <1>2, <1>3, <1>4, DebounceFiresAnswers, LeanWriterAnswers, QueryAnsweredAnswers
  DEF Next, CausesInv

\* In every reachable state.
LEMMA AlwaysAnswers == Spec => []AnswersInv
BY TypeCorrect, AlwaysToLean, ConsumeAlways, AlwaysVersions, AlwaysSeen, AlwaysCauses,
   InitAnswers, AnswersNext, PTL DEF Spec

\* With both queries accepted and none outstanding, both have been shown.
LEMMA AnswersSettle == TypeOK /\ AnswersInv => SettledCoherent
<1> SUFFICES ASSUME TypeOK, AnswersInv, Settled PROVE SettledCoherent
  BY DEF SettledCoherent
<1> DEFINE focus == asked.focus
<1>1. generation # 0 /\ focus # None /\ focus \in Focus
  BY DEF Settled, AnswersInv, Kinds, TypeOK
<1>2. \A k \in Kinds : filled[k] = generation
  <2>1. \A k : IdOf(generation, k).gen = generation
    BY DEF IdOf
  <2>2. \A k \in Kinds :
          filled[k] = generation \/ \E p \in outstanding : p.id = IdOf(generation, k)
    BY DEF Settled, AnswersInv
  <2> QED
    BY <2>1, <2>2 DEF Settled
<1>3. ShowsPlace(focus) /\ \A k \in Kinds : TextOf(k) # None => Speaks(TextOf(k), focus)
  BY <1>1, <1>2 DEF AnswersInv, Kinds
<1>4. /\ snapshot.doc \in DocRef /\ snapshot.doc # None
      /\ snapshot.position = focus.position /\ snapshot.position # None
      /\ snapshot.doc.uri = focus.uri /\ snapshot.doc.version = focus.version
  BY <1>1, <1>3, NoneIsNoFocus, NoneIsNoValue DEF ShowsPlace, Focus, DocRef
<1>5. StatusLine(snapshot) = [uri |-> focus.uri, position |-> focus.position]
  BY <1>4 DEF StatusLine
<1>6. GoalsPane(snapshot, "waiting").says \notin {"help", "waiting for goals"}
  BY <1>4 DEF GoalsPane, TypeOK, Snapshot
<1>7. \A text \in {GoalsPane(snapshot, "waiting").text, ExpectedPane(snapshot)} \ {None} :
        Speaks(text, focus)
  <2>1. /\ snapshot.goals # None => Speaks(snapshot.goals, focus)
        /\ snapshot.termGoal # None => Speaks(snapshot.termGoal, focus)
    BY <1>3 DEF TextOf, Kinds
  <2> QED
    BY <2>1 DEF GoalsPane, ExpectedPane
<1>8. \A text \in {GoalsPane(snapshot, "waiting").text, ExpectedPane(snapshot)} \ {None} :
        NeverClosed => text.version >= focus.version
  BY <1>7 DEF Speaks
<1> QED
  BY <1>4, <1>5, <1>6, <1>7, <1>8 DEF SettledCoherent, Speaks

\* A settled screen is coherent: status line, goals and expected type speak of
\* the newest focus, and of no text older than its cursor unless a document was
\* closed (query.rs, handle_injected_response).
THEOREM SettledScreen == Spec => []SettledCoherent
BY TypeCorrect, AlwaysAnswers, AnswersSettle, PTL
============================================================================
