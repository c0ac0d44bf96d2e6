--------------------------- MODULE PublishProofs ---------------------------
(***************************************************************************)
(* Proofs about Publish, for any viewers and capacities.                   *)
(***************************************************************************)
EXTENDS Publish, SequenceTheorems, TLAPS

----------------------------------------------------------------------------
(* What a viewer shows, the frames in its socket, the one its task is about *)
(* to write and the channel's value are in this order, oldest first.        *)

PublishType == /\ seq \in Nat
               /\ task \in [Viewer -> {"absent", "borrow", "write", "changed"}]
               /\ held \in [Viewer -> Nat] /\ shown \in [Viewer -> Nat]
               /\ wire \in [Viewer -> Seq(Nat)]

Ordered(v) ==
  /\ shown[v] <= seq
  /\ \A i \in DOMAIN wire[v] : shown[v] <= wire[v][i] /\ wire[v][i] <= seq
  /\ \A i, j \in DOMAIN wire[v] : i <= j => wire[v][i] <= wire[v][j]
  /\ task[v] = "write" => /\ shown[v] <= held[v] /\ held[v] <= seq
                          /\ \A i \in DOMAIN wire[v] : wire[v][i] <= held[v]

PublishInv == PublishType /\ \A v \in Viewer : Ordered(v)
----------------------------------------------------------------------------
(* The invariant is inductive. *)

LEMMA InitPublish == Init => PublishInv
BY DEF Init, Each, PublishInv, PublishType, Ordered

\* The steps of viewer v and of its task.
ViewerStep(v) == Accept(v) \/ Borrow(v) \/ Write(v) \/ Changed(v) \/ Show(v) \/ Disconnect(v)

LEMMA StepType ==
  ASSUME PublishType, NEW v \in Viewer, ViewerStep(v)
  PROVE  PublishType'
<1>1. CASE Accept(v) \/ Changed(v)
  BY <1>1 DEF PublishType, Accept, Changed
<1>2. CASE Borrow(v)
  BY <1>2 DEF PublishType, Borrow
<1>3. CASE Write(v)
  BY <1>3 DEF PublishType, Write
<1>4. CASE Show(v)
  <2>1. Head(wire[v]) \in Nat /\ Tail(wire[v]) \in Seq(Nat)
    BY <1>4, HeadTailProperties DEF PublishType, Show
  <2> QED
    BY <1>4, <2>1 DEF PublishType, Show
<1>5. CASE Disconnect(v)
  BY <1>5 DEF PublishType, Disconnect
<1> QED
  BY <1>1, <1>2, <1>3, <1>4, <1>5 DEF ViewerStep

\* A step of one viewer leaves the others' in order,
LEMMA OthersOrdered ==
  ASSUME PublishType, NEW v \in Viewer, ViewerStep(v),
         NEW w \in Viewer \ {v}, Ordered(w)
  PROVE  Ordered(w)' /\ shown'[w] = shown[w]
<1>1. /\ seq' = seq /\ shown'[w] = shown[w] /\ wire'[w] = wire[w]
      /\ task'[w] = task[w] /\ held'[w] = held[w]
  BY DEF PublishType, ViewerStep, Accept, Borrow, Write, Changed, Show, Disconnect
<1> QED
  BY <1>1 DEF Ordered

\* and its own, with nothing older shown than before.
LEMMA StepOrdered ==
  ASSUME PublishType, NEW v \in Viewer, ViewerStep(v), Ordered(v)
  PROVE  Ordered(v)' /\ shown'[v] >= shown[v]
<1> DEFINE old == wire[v]
<1>1. /\ seq \in Nat /\ held[v] \in Nat /\ shown[v] \in Nat /\ old \in Seq(Nat)
      /\ DOMAIN old = 1 .. Len(old) /\ Len(old) \in Nat
      /\ \A i \in DOMAIN old : old[i] \in Nat
  BY LenProperties, ElementOfSeq DEF PublishType
<1>num. /\ seq \in Nat /\ held[v] \in Nat /\ shown[v] \in Nat
        /\ \A i \in DOMAIN old : old[i] \in Nat
  BY <1>1
<1>2. CASE Accept(v) \/ Changed(v)
  <2>1. /\ seq' = seq /\ shown'[v] = shown[v] /\ wire'[v] = old /\ task'[v] = "borrow"
    BY <1>2 DEF PublishType, Accept, Changed
  <2> QED
    BY <1>num, <2>1 DEF Ordered
<1>3. CASE Borrow(v)
  <2>1. /\ seq' = seq /\ shown'[v] = shown[v] /\ wire'[v] = old /\ held'[v] = seq
    BY <1>3 DEF PublishType, Borrow
  <2> QED
    BY <1>num, <2>1 DEF Ordered
<1>4. CASE Write(v)
  <2>1. /\ seq' = seq /\ shown'[v] = shown[v] /\ wire'[v] = Append(old, held[v])
        /\ task[v] = "write" /\ task'[v] = "changed"
    BY <1>4 DEF PublishType, Write
  <2>2. /\ DOMAIN wire'[v] = 1 .. Len(old) + 1
        /\ \A i \in 1 .. Len(old) : wire'[v][i] = old[i]
        /\ wire'[v][Len(old) + 1] = held[v]
    BY <1>1, <2>1, AppendProperties, LenProperties
  <2>3. /\ shown[v] <= held[v] /\ held[v] <= seq /\ shown[v] <= seq
        /\ \A i \in 1 .. Len(old) : /\ shown[v] <= old[i] /\ old[i] <= seq
                                   /\ old[i] <= held[v]
        /\ \A i, j \in 1 .. Len(old) : i <= j => old[i] <= old[j]
    BY <1>1, <2>1 DEF Ordered
  <2>4. /\ \A i \in DOMAIN wire'[v] : shown'[v] <= wire'[v][i] /\ wire'[v][i] <= seq'
        /\ \A i, j \in DOMAIN wire'[v] : i <= j => wire'[v][i] <= wire'[v][j]
    <3>1. Len(old) \in Nat /\ held[v] \in Nat
      BY <1>1, <1>num, LenProperties
    <3>2. \A i \in DOMAIN wire'[v] : i \in 1 .. Len(old) \/ i = Len(old) + 1
      BY <2>2, <3>1
    <3> QED
      BY <2>1, <2>2, <2>3, <3>1, <3>2
  <2>5. shown'[v] <= seq' /\ task'[v] # "write" /\ shown'[v] >= shown[v]
    BY <1>1, <2>1, <2>3
  <2> QED
    BY <2>4, <2>5 DEF Ordered
<1>5. CASE Show(v)
  <2>1. /\ seq' = seq /\ shown'[v] = old[1] /\ wire'[v] = Tail(old)
        /\ task'[v] = task[v] /\ held'[v] = held[v] /\ old # <<>>
    BY <1>1, <1>5 DEF PublishType, Show
  <2>2. /\ Len(old) >= 1 /\ DOMAIN wire'[v] = 1 .. Len(old) - 1
        /\ \A i \in 1 .. Len(old) - 1 : wire'[v][i] = old[i + 1]
    BY <1>1, <2>1, HeadTailProperties, LenProperties, EmptySeq
  <2>3. DOMAIN old = 1 .. Len(old) /\ Len(old) \in Nat
    BY <1>1
  <2>4. /\ 1 \in DOMAIN old
        /\ \A i \in DOMAIN wire'[v] : i + 1 \in DOMAIN old /\ 1 <= i + 1
                                     /\ wire'[v][i] = old[i + 1]
        /\ \A i, j \in DOMAIN wire'[v] : i <= j => i + 1 <= j + 1
    BY <2>2, <2>3
  <2> HIDE DEF old
  <2>5. /\ shown[v] <= old[1] /\ old[1] <= seq
        /\ \A i \in DOMAIN wire'[v] : old[1] <= wire'[v][i] /\ wire'[v][i] <= seq
        /\ \A i, j \in DOMAIN wire'[v] : i <= j => wire'[v][i] <= wire'[v][j]
    BY <2>4 DEF Ordered, old
  <2>6. task[v] = "write" => /\ old[1] <= held[v] /\ held[v] <= seq
                             /\ \A i \in DOMAIN wire'[v] : wire'[v][i] <= held[v]
    BY <2>4 DEF Ordered, old
  <2> QED
    BY <2>1, <2>5, <2>6 DEF Ordered
<1>6. CASE Disconnect(v)
  <2>1. /\ seq' = seq /\ shown'[v] = shown[v] /\ wire'[v] = <<>> /\ task'[v] = "absent"
    BY <1>6 DEF PublishType, Disconnect
  <2> QED
    BY <1>num, <2>1 DEF Ordered
<1> QED
  BY <1>2, <1>3, <1>4, <1>5, <1>6 DEF ViewerStep

\* No step breaks the order or takes a viewer back.
LEMMA NextPublish ==
  PublishInv /\ [Next]_vars => PublishInv' /\ \A v \in Viewer : shown'[v] >= shown[v]
<1> SUFFICES ASSUME PublishInv, [Next]_vars
             PROVE  PublishInv' /\ \A v \in Viewer : shown'[v] >= shown[v]
  OBVIOUS
<1>1. CASE Update
  <2>1. seq' = seq + 1 /\ UNCHANGED <<task, held, wire, shown>>
    BY <1>1 DEF Update, viewerVars
  <2>2. \A v \in Viewer : shown[v] \in Nat /\ \A i \in DOMAIN wire[v] : wire[v][i] \in Nat
    BY DEF PublishInv, PublishType
  <2> QED
    BY <2>1, <2>2 DEF PublishInv, PublishType, Ordered
<1>2. CASE SinkSkips \/ SinkChanged \/ SinkWritten \/ UNCHANGED vars
  <2>1. UNCHANGED <<seq, task, held, wire, shown>>
    BY <1>2 DEF SinkSkips, SinkChanged, SinkWritten, vars, viewerVars
  <2> QED
    BY <2>1 DEF PublishInv, PublishType, Ordered
<1>3. ASSUME NEW v \in Viewer, ViewerStep(v)
      PROVE  PublishInv' /\ \A w \in Viewer : shown'[w] >= shown[w]
  <2>1. PublishType /\ \A w \in Viewer : Ordered(w) /\ shown[w] \in Nat
    BY DEF PublishInv, PublishType
  <2>2. PublishType'
    BY <1>3, <2>1, StepType
  <2>3. Ordered(v)' /\ shown'[v] >= shown[v]
    BY <1>3, <2>1, StepOrdered
  <2>4. \A w \in Viewer \ {v} : Ordered(w)' /\ shown'[w] >= shown[w]
    BY <1>3, <2>1, OthersOrdered
  <2> QED
    BY <2>2, <2>3, <2>4 DEF PublishInv
<1> QED
  BY <1>1, <1>2, <1>3 DEF Next, ViewerStep

\* A viewer never goes back to an older snapshot, not even by reconnecting to
\* its proxy (server.rs, publish_to: each connection starts from the newest).
THEOREM ViewersNeverGoBack == FairSpec => NeverBack
<1>1. Init => PublishInv
  BY InitPublish
<1>2. PublishInv /\ [Next]_vars => PublishInv'
  BY NextPublish
<1>3. PublishInv /\ [Next]_vars => [\A v \in Viewer : shown'[v] >= shown[v]]_vars
  BY NextPublish
<1> QED
  BY <1>1, <1>2, <1>3, PTL DEF FairSpec, Spec, NeverBack
----------------------------------------------------------------------------
(* What a task marked as seen is what it sent last. *)

\* No wake-up is lost: a task that would sleep, having seen the channel's value,
\* has sent that value on and no other after it, whatever came while it wrote
\* (publish_to and run_goal_sink: borrow_and_update marks what is sent, and only
\* that).  The sink's first value is skipped.
LastSent(v) == IF wire[v] = <<>> THEN shown[v] ELSE wire[v][Len(wire[v])]
SleepsUpToDate ==
  /\ \A v \in Viewer : task[v] = "changed" /\ seen[v] = seq => LastSent(v) = seq
  /\ sink = "changed" /\ sinkSeen = seq /\ lines # <<>> => lines[Len(lines)] = seq

SeenType == /\ task \in [Viewer -> {"absent", "borrow", "write", "changed"}]
            /\ seen \in [Viewer -> Nat] /\ held \in [Viewer -> Nat]
            /\ shown \in [Viewer -> Nat] /\ wire \in [Viewer -> Seq(Nat)]
            /\ seq \in Nat /\ lines \in Seq(Nat) /\ sinkSeen \in Nat

SentAsSeen(v) ==
  /\ task[v] = "write" => held[v] = seen[v]
  /\ task[v] = "changed" => LastSent(v) = seen[v]

SinkSent ==
  /\ sink = "open" => lines = <<>>
  /\ lines # <<>> => lines[Len(lines)] = sinkSeen

SentInv == SeenType /\ SinkSent /\ \A v \in Viewer : SentAsSeen(v)

\* The end of a sequence, after a step at either end.
LEMMA Ends ==
  ASSUME NEW w \in Seq(Nat), NEW n \in Nat
  PROVE  /\ Append(w, n) \in Seq(Nat) /\ Append(w, n) # <<>>
         /\ Append(w, n)[Len(Append(w, n))] = n
         /\ w # <<>> => /\ Tail(w) \in Seq(Nat) /\ Head(w) \in Nat
                        /\ Tail(w) = <<>> => w[Len(w)] = Head(w)
                        /\ Tail(w) # <<>> => Tail(w)[Len(Tail(w))] = w[Len(w)]
<1>1. PICK l \in Nat : l = Len(w)
  OBVIOUS
<1>2. PICK a : a = Append(w, n)
  OBVIOUS
<1>3. a \in Seq(Nat) /\ Len(a) = l + 1 /\ a[l + 1] = n /\ a # <<>>
  BY <1>1, <1>2
<1>4. ASSUME w # <<>>
      PROVE  /\ Tail(w) \in Seq(Nat) /\ Head(w) \in Nat
             /\ Tail(w) = <<>> => w[l] = Head(w)
             /\ Tail(w) # <<>> => Tail(w)[Len(Tail(w))] = w[l]
  <2>1. PICK t : t = Tail(w)
    OBVIOUS
  <2>2. /\ t \in Seq(Nat) /\ Len(t) = l - 1 /\ Head(w) = w[1] /\ w[1] \in Nat /\ l >= 1
        /\ \A i \in 1..(l - 1) : t[i] = w[i + 1]
    BY <1>1, <1>4, <2>1, HeadTailProperties
  <2>3. t = <<>> => l = 1
    <3>1. t = <<>> => Len(t) = 0
      OBVIOUS
    <3>2. \A k \in Nat : k - 1 = 0 => k = 1
      OBVIOUS
    <3> QED
      BY <1>1, <2>2, <3>1, <3>2
  <2>4. t # <<>> => l - 1 \in 1..(l - 1) /\ (l - 1) + 1 = l
    BY <1>1, <2>2
  <2> QED
    BY <2>1, <2>2, <2>3, <2>4
<1> QED
  BY <1>1, <1>2, <1>3, <1>4

\* The steps of the sink.
LEMMA SinkSends ==
  ASSUME SentInv, SinkSkips \/ SinkChanged \/ SinkWritten
  PROVE  SentInv'
<1>1. UNCHANGED <<seq, task, seen, held, wire, shown>>
  BY DEF SinkSkips, SinkChanged, SinkWritten, viewerVars
<1>2. \A v \in Viewer : SentAsSeen(v)'
  BY <1>1 DEF SentInv, SentAsSeen, LastSent
<1>3. SinkSent' /\ lines' \in Seq(Nat) /\ sinkSeen' \in Nat
  <2>1. CASE SinkSkips \/ SinkWritten
    BY <2>1 DEF SinkSkips, SinkWritten, SentInv, SeenType, SinkSent
  <2>2. CASE SinkChanged
    <3>1. lines' = Append(lines, seq) /\ sinkSeen' = seq /\ sink' = "write"
      BY <2>2 DEF SinkChanged
    <3>2. /\ lines' \in Seq(Nat) /\ lines'[Len(lines')] = seq /\ seq \in Nat
      BY <3>1, Ends DEF SentInv, SeenType
    <3> QED
      BY <3>1, <3>2 DEF SinkSent
  <2> QED
    BY <2>1, <2>2
<1> QED
  BY <1>1, <1>2, <1>3 DEF SentInv, SeenType

\* The steps of a viewer and its task.
LEMMA ViewerSends ==
  ASSUME SentInv, NEW v \in Viewer, ViewerStep(v)
  PROVE  SentInv'
<1>1. UNCHANGED <<seq, sink, sinkSeen, lines>> /\ SeenType /\ SentAsSeen(v)
  BY DEF SentInv, ViewerStep, Accept, Borrow, Write, Changed, Show, Disconnect, sinkVars
<1>2. SinkSent'
  BY <1>1 DEF SentInv, SinkSent
<1>3. ASSUME NEW w \in Viewer \ {v} PROVE SentAsSeen(w)'
  <2>1. /\ shown'[w] = shown[w] /\ wire'[w] = wire[w] /\ task'[w] = task[w]
        /\ held'[w] = held[w] /\ seen'[w] = seen[w]
    BY <1>1 DEF SeenType, ViewerStep, Accept, Borrow, Write, Changed, Show, Disconnect
  <2> QED
    BY <2>1 DEF SentInv, SentAsSeen, LastSent
<1>4. SeenType' /\ SentAsSeen(v)'
  <2>1. CASE Accept(v) \/ Changed(v)
    BY <1>1, <2>1 DEF Accept, Changed, SeenType, SentAsSeen
  <2>2. CASE Borrow(v)
    BY <1>1, <2>2 DEF Borrow, SeenType, SentAsSeen
  <2>3. CASE Write(v)
    <3>1. /\ wire' = [wire EXCEPT ![v] = Append(wire[v], held[v])]
          /\ task' = [task EXCEPT ![v] = "changed"] /\ task[v] = "write"
          /\ UNCHANGED <<seen, held, shown>>
      BY <2>3 DEF Write
    <3>2. wire[v] \in Seq(Nat) /\ held[v] \in Nat
      BY <1>1 DEF SeenType
    <3>3. PICK a : a = Append(wire[v], held[v])
      OBVIOUS
    <3>4. a \in Seq(Nat) /\ a # <<>> /\ a[Len(a)] = held[v]
      BY <3>2, <3>3, Ends
    <3>5. wire'[v] = a /\ wire' \in [Viewer -> Seq(Nat)] /\ task'[v] = "changed"
      BY <1>1, <3>1, <3>3, <3>4 DEF SeenType
    <3>6. SeenType'
      BY <1>1, <3>1, <3>5 DEF SeenType
    <3>7. LastSent(v)' = held[v] /\ held[v] = seen[v]
      BY <1>1, <3>1, <3>4, <3>5 DEF LastSent, SentAsSeen
    <3> QED
      BY <3>1, <3>5, <3>6, <3>7 DEF SentAsSeen
  <2>4. CASE Show(v)
    <3>1. /\ wire' = [wire EXCEPT ![v] = Tail(wire[v])] /\ wire[v] # <<>>
          /\ shown' = [shown EXCEPT ![v] = Head(wire[v])]
          /\ UNCHANGED <<task, seen, held>>
      BY <2>4 DEF Show
    <3>2. wire[v] \in Seq(Nat) /\ 0 \in Nat
      BY <1>1 DEF SeenType
    <3>3. PICK t, n : t = Tail(wire[v]) /\ n = Head(wire[v])
      OBVIOUS
    <3>4. /\ t \in Seq(Nat) /\ n \in Nat
          /\ t = <<>> => LastSent(v) = n
          /\ t # <<>> => LastSent(v) = t[Len(t)]
      BY <3>1, <3>2, <3>3, Ends DEF LastSent
    <3>5. /\ wire'[v] = t /\ wire' \in [Viewer -> Seq(Nat)]
          /\ shown'[v] = n /\ shown' \in [Viewer -> Nat]
      BY <1>1, <3>1, <3>3, <3>4 DEF SeenType
    <3>6. LastSent(v)' = LastSent(v)
      BY <3>4, <3>5 DEF LastSent
    <3> QED
      BY <1>1, <3>1, <3>5, <3>6 DEF SeenType, SentAsSeen
  <2>5. CASE Disconnect(v)
    BY <1>1, <2>5 DEF Disconnect, SeenType, SentAsSeen
  <2> QED
    BY <2>1, <2>2, <2>3, <2>4, <2>5 DEF ViewerStep
<1> QED
  BY <1>2, <1>3, <1>4 DEF SentInv

\* No wake-up is lost, for any viewers, however slow, and the sink: a task that
\* waits for a change has sent the value it takes for seen, and no other after it
\* (server.rs, publish_to; sink.rs, run_goal_sink).
THEOREM NoWakeUpIsLost == FairSpec => []SleepsUpToDate
<1>1. Init => SentInv
  BY DEF Init, Each, SentInv, SeenType, SentAsSeen, SinkSent
<1>2. SentInv /\ [Next]_vars => SentInv'
  <2> SUFFICES ASSUME SentInv, [Next]_vars PROVE SentInv'
    OBVIOUS
  <2>1. CASE Update \/ UNCHANGED vars
    BY <2>1 DEF Update, vars, viewerVars, sinkVars, SentInv, SeenType, SinkSent, SentAsSeen,
                LastSent
  <2> QED
    BY <2>1, SinkSends, ViewerSends DEF Next, ViewerStep
<1>3. SentInv => SleepsUpToDate
  BY DEF SentInv, SentAsSeen, SinkSent, SleepsUpToDate
<1> QED
  BY <1>1, <1>2, <1>3, PTL DEF FairSpec, Spec
============================================================================
