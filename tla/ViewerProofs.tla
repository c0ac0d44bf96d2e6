---------------------------- MODULE ViewerProofs ----------------------------
(***************************************************************************)
(* Proofs about Viewer, for any bounds and events.                         *)
(***************************************************************************)
EXTENDS Viewer, SequenceTheorems, TLAPS

----------------------------------------------------------------------------
(* The screen, the state behind it, the frames in the socket and what the  *)
(* running proxy has published last are in this order, oldest first.       *)

Now == [session |-> session, seq |-> seq]

LinkType == /\ session \in Nat /\ seq \in Nat
            /\ snapshot \in Snapshot /\ wire \in Seq(Snapshot)
            /\ status \in Status /\ scroll \in Nat
            /\ screen \in Screen \cup {None}

Ordered == /\ NotAfter(snapshot, Now)
           /\ screen # None => NotAfter(screen.snapshot, snapshot)
           /\ \A i \in DOMAIN wire : NotAfter(snapshot, wire[i]) /\ NotAfter(wire[i], Now)
           /\ \A i, j \in DOMAIN wire : i <= j => NotAfter(wire[i], wire[j])

ViewerInv == LinkType /\ Ordered
----------------------------------------------------------------------------
(* Lemmas about the order. *)

LEMMA NotAfterReflexive ==
  ASSUME NEW s \in Snapshot
  PROVE  NotAfter(s, s)
BY DEF Snapshot, NotAfter

LEMMA NotAfterTransitive ==
  ASSUME NEW s \in Snapshot, NEW t \in Snapshot, NEW u \in Snapshot,
         NotAfter(s, t), NotAfter(t, u)
  PROVE  NotAfter(s, u)
BY DEF Snapshot, NotAfter

\* A sequence of snapshots, its members and its domain.
LEMMA Members ==
  ASSUME NEW w \in Seq(Snapshot)
  PROVE  /\ Len(w) \in Nat /\ DOMAIN w = 1 .. Len(w)
         /\ \A i \in DOMAIN w : w[i] \in Snapshot
BY LenProperties, ElementOfSeq

----------------------------------------------------------------------------
(* The invariant is inductive. *)

LEMMA InitViewer == Init => ViewerInv
<1> SUFFICES ASSUME Init PROVE ViewerInv
  OBVIOUS
<1>1. LinkType /\ snapshot = Now
  BY DEF Init, LinkType, Snapshot, Default, Status, Now
<1> QED
  BY <1>1, NotAfterReflexive DEF Init, LinkType, ViewerInv, Ordered

\* The proxies only get ahead of what the viewer has.
LEMMA ProxiesOrdered ==
  ASSUME ViewerInv, Proxies
  PROVE  ViewerInv' /\ UNCHANGED screen
<1>1. Now \in Snapshot /\ Now' \in Snapshot /\ NotAfter(Now, Now')
  <2>1. session \in Nat /\ seq \in Nat
    BY DEF ViewerInv, LinkType
  <2>2. \/ session' = session + 1 /\ seq' = 0
        \/ session' = session /\ seq' \in {seq, seq + 1}
    BY DEF Proxies, ProxyStarts, ProxyEnds, ProxyUpdates, ProxySends, proxyVars
  <2> QED
    BY <2>1, <2>2 DEF Now, Snapshot, NotAfter
<1>2. UNCHANGED <<snapshot, status, scroll, screen>>
  BY DEF Proxies, ProxyStarts, ProxyEnds, ProxyUpdates, ProxySends, netVars, uiVars
<1>3. \A s \in Snapshot : NotAfter(s, Now) => NotAfter(s, Now')
  BY <1>1, NotAfterTransitive
<1>4. CASE UNCHANGED wire
  BY <1>1, <1>2, <1>3, <1>4, Members DEF ViewerInv, LinkType, Ordered, Now, Snapshot
<1>5. CASE ProxySends
  <2>1. wire' = Append(wire, Now) /\ Now' = Now
    BY <1>5 DEF ProxySends, Now, proxyVars
  <2>2. /\ wire' \in Seq(Snapshot) /\ DOMAIN wire' = 1 .. Len(wire) + 1
        /\ \A i \in 1 .. Len(wire) : wire'[i] = wire[i]
        /\ wire'[Len(wire) + 1] = Now
    BY <1>1, <2>1, AppendProperties, LenProperties DEF ViewerInv, LinkType
  <2>3. DOMAIN wire = 1 .. Len(wire) /\ Len(wire) \in Nat
    BY Members DEF ViewerInv, LinkType
  <2>4. \A i \in DOMAIN wire' :
          \/ i \in DOMAIN wire /\ wire'[i] = wire[i]
          \/ i = Len(wire) + 1 /\ wire'[i] = Now
    BY <2>2, <2>3
  <2>5. \A i, j \in DOMAIN wire' : i <= j => i \in DOMAIN wire \/ j = Len(wire) + 1
    BY <2>2, <2>3
  <2>6. Ordered'
    BY <1>1, <1>2, <2>1, <2>4, <2>5, NotAfterReflexive DEF ViewerInv, Ordered
  <2> QED
    BY <1>1, <1>2, <2>2, <2>6 DEF ViewerInv, LinkType, Now, Snapshot
<1> QED
  BY <1>2, <1>4, <1>5 DEF Proxies, ProxyStarts, ProxyEnds, ProxyUpdates, linkVars

\* The network side moves the oldest frame to the snapshot, or forgets frames.
LEMMA NetworkOrdered ==
  ASSUME ViewerInv, Network
  PROVE  ViewerInv' /\ UNCHANGED screen
<1>1. UNCHANGED <<session, seq, scroll, screen>> /\ Now' = Now
  BY DEF Network, Dial, ReadFrame, ReadEnds, BackoffOver, proxyVars, uiVars, Now
<1>2. status' \in Status
  BY DEF Network, Dial, ReadFrame, ReadEnds, BackoffOver, Status, ViewerInv, LinkType
<1>3. CASE UNCHANGED <<snapshot, wire>>
  BY <1>1, <1>2, <1>3 DEF ViewerInv, LinkType, Ordered
<1>4. CASE UNCHANGED snapshot /\ wire' = <<>>
  BY <1>1, <1>2, <1>4 DEF ViewerInv, LinkType, Ordered
<1>5. CASE ReadFrame
  <2>1. /\ snapshot' = wire[1] /\ wire' = Tail(wire) /\ wire # <<>>
        /\ wire \in Seq(Snapshot)
    BY <1>5 DEF ReadFrame, ViewerInv, LinkType
  <2>2. /\ wire' \in Seq(Snapshot) /\ snapshot' \in Snapshot
        /\ 1 \in DOMAIN wire
        /\ \A i \in DOMAIN wire' : i + 1 \in DOMAIN wire /\ 1 <= i + 1
                                 /\ wire'[i] = wire[i + 1]
        /\ \A i, j \in DOMAIN wire' : i <= j => i + 1 <= j + 1
    <3>1. Len(wire) \in Nat /\ DOMAIN wire = 1 .. Len(wire) /\ Len(wire) >= 1
      BY <2>1, EmptySeq, LenProperties
    <3>2. /\ wire' \in Seq(Snapshot) /\ DOMAIN wire' = 1 .. Len(wire) - 1
          /\ \A i \in 1 .. Len(wire) - 1 : wire'[i] = wire[i + 1]
      BY <2>1, HeadTailProperties, LenProperties
    <3> QED
      BY <2>1, <3>1, <3>2, Members
  <2>3. /\ NotAfter(snapshot, snapshot') /\ NotAfter(snapshot', Now)
        /\ \A i \in DOMAIN wire' : NotAfter(snapshot', wire'[i]) /\ NotAfter(wire'[i], Now)
        /\ \A i, j \in DOMAIN wire' : i <= j => NotAfter(wire'[i], wire'[j])
    BY <2>1, <2>2 DEF ViewerInv, Ordered
  <2>4. screen # None => NotAfter(screen.snapshot, snapshot')
    BY <2>2, <2>3, NotAfterTransitive DEF ViewerInv, LinkType, Screen, Ordered
  <2> QED
    BY <1>1, <1>2, <2>2, <2>3, <2>4 DEF ViewerInv, LinkType, Ordered
<1> QED
  BY <1>1, <1>3, <1>4, <1>5 DEF Network, Dial, ReadEnds, BackoffOver, linkVars

\* The terminal side draws the snapshot as it is, or nothing.
LEMMA UiOrdered ==
  ASSUME ViewerInv, Ui
  PROVE  /\ ViewerInv'
         /\ screen # None => screen' # None /\ NotAfter(screen.snapshot, screen'.snapshot)
<1>1. UNCHANGED <<session, seq, snapshot, status, wire>> /\ Now' = Now
  BY DEF Ui, SetUp, Tick, TickFails, TakeEvent, InputGone, Leave, proxyVars, linkVars, netVars, Now
<1>2. scroll' \in Nat
  BY ViewerAssumption
  DEF Ui, SetUp, Tick, TickFails, TakeEvent, Scrolled, InputGone, Leave, ViewerInv, LinkType
<1>3. CASE UNCHANGED screen
  <2>1. screen # None => NotAfter(screen.snapshot, screen.snapshot)
    BY NotAfterReflexive DEF ViewerInv, LinkType, Screen
  <2> QED
    BY <1>1, <1>2, <1>3, <2>1 DEF ViewerInv, LinkType, Ordered
<1>4. ASSUME NEW position \in Nat,
             screen' = [snapshot |-> snapshot, status |-> status, scroll |-> position]
      PROVE  /\ ViewerInv'
             /\ screen # None => screen' # None /\ NotAfter(screen.snapshot, screen'.snapshot)
  <2>1. screen' \in Screen /\ screen' # None /\ screen'.snapshot = snapshot
    BY <1>4, NoneIsNoScreen DEF ViewerInv, LinkType, Screen
  <2>2. NotAfter(snapshot, snapshot)
    BY NotAfterReflexive DEF ViewerInv, LinkType
  <2> QED
    BY <1>1, <1>2, <2>1, <2>2 DEF ViewerInv, LinkType, Ordered
<1>5. \/ UNCHANGED screen
      \/ \E position \in Nat :
           screen' = [snapshot |-> snapshot, status |-> status, scroll |-> position]
  BY <1>2 DEF Ui, SetUp, Tick, TickFails, TakeEvent, InputGone, Leave, Draw, DrawFails,
              ViewerInv, LinkType
<1> QED
  BY <1>3, <1>4, <1>5

\* No step breaks the order or takes the screen back.
LEMMA NextViewer ==
  ViewerInv /\ [Next]_vars =>
    /\ ViewerInv'
    /\ screen # None => screen' # None /\ NotAfter(screen.snapshot, screen'.snapshot)
<1> SUFFICES ASSUME ViewerInv, [Next]_vars
             PROVE  /\ ViewerInv'
                    /\ screen # None => /\ screen' # None
                                        /\ NotAfter(screen.snapshot, screen'.snapshot)
  OBVIOUS
<1>1. screen # None => NotAfter(screen.snapshot, screen.snapshot)
  BY NotAfterReflexive DEF ViewerInv, LinkType, Screen
<1>2. CASE Proxies
  BY <1>1, <1>2, ProxiesOrdered
<1>3. CASE Network
  BY <1>1, <1>3, NetworkOrdered
<1>4. CASE Ui
  BY <1>4, UiOrdered
<1>5. CASE Input \/ UNCHANGED vars
  <2>1. UNCHANGED <<session, seq, snapshot, status, wire, scroll, screen>>
    BY <1>5 DEF Input, InputFails, InputReads, vars, proxyVars, linkVars, netVars, uiVars
  <2> QED
    BY <1>1, <2>1 DEF ViewerInv, LinkType, Ordered, Now
<1> QED
  BY <1>2, <1>3, <1>4, <1>5 DEF Next, Over

\* What is on the screen never goes back: not to an older snapshot, nor to a
\* session that was replaced, nor to nothing (lhv-viewer, network_loop).
THEOREM ScreensNeverGoBack == Spec => ScreenNeverBack
<1>1. Init => ViewerInv
  BY InitViewer
<1>2. ViewerInv /\ [Next]_vars => ViewerInv'
  BY NextViewer
<1>3. ViewerInv /\ [Next]_vars =>
        [screen # None => screen' # None /\ NotAfter(screen.snapshot, screen'.snapshot)]_vars
  BY NextViewer
<1> QED
  BY <1>1, <1>2, <1>3, PTL DEF Spec, ScreenNeverBack
----------------------------------------------------------------------------
(* The last frame on its way is the running proxy's newest snapshot, unless *)
(* that is yet to be sent.                                                 *)

\* What the next tick draws is stale only while something is under way: with the
\* connection open and nothing left to send or to read it is the running proxy's
\* newest snapshot and says so, and without a connection it does not say that
\* there is one (network_loop and ViewerState).
StaleOnlyUnderWay ==
  /\ conn = "open" /\ ~unsent /\ wire = <<>> =>
       up /\ status = "connected" /\ snapshot = [session |-> session, seq |-> seq]
  /\ conn = "none" => status # "connected"

LastFrame == IF wire = <<>> THEN snapshot ELSE wire[Len(wire)]

ConnectionInv ==
  /\ unsent \in BOOLEAN /\ wire \in Seq(Snapshot)
  /\ net = "read" <=> conn # "none"
  /\ net = "read" <=> status = "connected"
  /\ conn = "open" => up
  /\ conn = "open" /\ ~unsent => LastFrame = Now

\* The end of a sequence, after a step at either end.
LEMMA Ends ==
  ASSUME NEW w \in Seq(Snapshot), NEW s \in Snapshot
  PROVE  /\ Append(w, s) \in Seq(Snapshot) /\ Append(w, s) # <<>>
         /\ Append(w, s)[Len(Append(w, s))] = s
         /\ w # <<>> => /\ Tail(w) \in Seq(Snapshot)
                        /\ Tail(w) = <<>> => w[Len(w)] = Head(w)
                        /\ Tail(w) # <<>> => Tail(w)[Len(Tail(w))] = w[Len(w)]
<1>1. PICK l \in Nat : l = Len(w)
  OBVIOUS
<1>2. PICK a : a = Append(w, s)
  OBVIOUS
<1>3. a \in Seq(Snapshot) /\ Len(a) = l + 1 /\ a[l + 1] = s /\ a # <<>>
  BY <1>1, <1>2
<1>4. ASSUME w # <<>>
      PROVE  /\ Tail(w) \in Seq(Snapshot)
             /\ Tail(w) = <<>> => w[l] = Head(w)
             /\ Tail(w) # <<>> => Tail(w)[Len(Tail(w))] = w[l]
  <2>1. PICK t : t = Tail(w)
    OBVIOUS
  <2>2. /\ t \in Seq(Snapshot) /\ Len(t) = l - 1 /\ Head(w) = w[1] /\ l >= 1
        /\ \A i \in 1..(l - 1) : t[i] = w[i + 1]
    BY <1>1, <1>4, <2>1, HeadTailProperties
  <2>3. t = <<>> => l = 1
    <3>1. t = <<>> => Len(t) = 0
      OBVIOUS
    <3>2. \A k \in Nat : k - 1 = 0 => k = 1
      OBVIOUS
    <3> QED
      BY <1>1, <2>2, <3>1, <3>2
  <2>4. t # <<>> => l - 1 \in 1..(l - 1) /\ (l - 1) + 1 = l
    BY <1>1, <2>2
  <2> QED
    BY <2>1, <2>2, <2>3, <2>4
<1> QED
  BY <1>1, <1>2, <1>3, <1>4

\* The proxies.
LEMMA ProxiesConnection ==
  ASSUME ViewerInv, ConnectionInv, Proxies
  PROVE  ConnectionInv'
<1>1. UNCHANGED <<net, status, snapshot>>
  BY DEF Proxies, ProxyStarts, ProxyEnds, ProxyUpdates, ProxySends, netVars
<1>2. CASE ProxyStarts
  <2>1. conn # "open" /\ UNCHANGED <<conn, wire, unsent>>
    BY <1>2 DEF ProxyStarts, ConnectionInv, linkVars
  <2> QED
    BY <1>1, <2>1 DEF ConnectionInv
<1>3. CASE ProxyEnds
  <2>1. conn' # "open" /\ (conn' = "none" <=> conn = "none") /\ UNCHANGED <<wire, unsent>>
    BY <1>3 DEF ProxyEnds
  <2> QED
    BY <1>1, <2>1 DEF ConnectionInv
<1>4. CASE ProxyUpdates
  <2>1. (conn = "open" => unsent') /\ unsent' \in BOOLEAN /\ UNCHANGED <<up, conn, wire>>
    BY <1>4 DEF ProxyUpdates
  <2> QED
    BY <1>1, <2>1 DEF ConnectionInv
<1>5. CASE ProxySends
  <2>1. wire' = Append(wire, Now) /\ unsent' = FALSE /\ UNCHANGED <<up, conn, session, seq>>
    BY <1>5 DEF ProxySends, Now, proxyVars
  <2>2. wire \in Seq(Snapshot) /\ Now \in Snapshot /\ Now' = Now
    BY <2>1 DEF ViewerInv, LinkType, Now, Snapshot
  <2>3. wire' \in Seq(Snapshot) /\ LastFrame' = Now
    BY <2>1, <2>2, Ends DEF LastFrame
  <2> QED
    BY <1>1, <2>1, <2>2, <2>3 DEF ConnectionInv
<1> QED
  BY <1>2, <1>3, <1>4, <1>5 DEF Proxies

\* The network side.
LEMMA NetworkConnection ==
  ASSUME ViewerInv, ConnectionInv, Network
  PROVE  ConnectionInv'
<1>1. UNCHANGED up /\ Now' = Now /\ Now \in Snapshot
  BY DEF Network, Dial, ReadFrame, ReadEnds, BackoffOver, proxyVars, Now, Snapshot,
         ViewerInv, LinkType
<1>2. CASE Dial
  <2>1. CASE up
    <3>1. /\ conn' = "open" /\ wire' = <<>> /\ unsent' = TRUE /\ status' = "connected"
          /\ net' = "read"
      BY <1>2, <2>1 DEF Dial
    <3> QED
      BY <1>1, <2>1, <3>1 DEF ConnectionInv
  <2>2. CASE ~up
    <3>1. /\ net = "dial" /\ status' = "waiting" /\ net' = "sleep"
          /\ UNCHANGED <<conn, wire, unsent, snapshot>>
      BY <1>2, <2>2 DEF Dial, linkVars
    <3> QED
      BY <1>1, <3>1 DEF ConnectionInv
  <2> QED
    BY <2>1, <2>2
<1>3. CASE ReadFrame
  <2>1. /\ wire' = Tail(wire) /\ snapshot' = Head(wire) /\ wire # <<>>
        /\ UNCHANGED <<conn, unsent, net, status>>
    BY <1>3 DEF ReadFrame
  <2>2. wire \in Seq(Snapshot)
    BY DEF ViewerInv, LinkType
  <2>3. wire' \in Seq(Snapshot) /\ LastFrame' = LastFrame
    BY <1>1, <2>1, <2>2, Ends DEF LastFrame
  <2> QED
    BY <1>1, <2>1, <2>3 DEF ConnectionInv
<1>4. CASE ReadEnds
  <2>1. /\ conn' = "none" /\ unsent' = FALSE /\ status' = "disconnected" /\ net' = "sleep"
        /\ UNCHANGED wire
    BY <1>4 DEF ReadEnds
  <2> QED
    BY <1>1, <2>1 DEF ConnectionInv
<1>5. CASE BackoffOver
  <2>1. net = "sleep" /\ net' = "dial" /\ UNCHANGED <<conn, wire, unsent, snapshot, status>>
    BY <1>5 DEF BackoffOver, linkVars
  <2> QED
    BY <1>1, <2>1 DEF ConnectionInv, LastFrame
<1> QED
  BY <1>2, <1>3, <1>4, <1>5 DEF Network

\* What the screen is drawn from is stale only while something is under way, for
\* any proxies that come and go and however much a socket holds (network_loop).
THEOREM StaleOnlyMeanwhile == Spec => []StaleOnlyUnderWay
<1>1. Init => ViewerInv /\ ConnectionInv
  <2>1. Init => ConnectionInv
    <3>1. <<>> \in Seq(Snapshot)
      OBVIOUS
    <3> QED
      BY <3>1 DEF Init, ConnectionInv
  <2> QED
    BY <2>1, InitViewer
<1>2. ViewerInv /\ ConnectionInv /\ [Next]_vars => (ViewerInv /\ ConnectionInv)'
  <2> SUFFICES ASSUME ViewerInv, ConnectionInv, [Next]_vars PROVE ConnectionInv'
    BY NextViewer
  <2>1. CASE Ui \/ Input \/ UNCHANGED vars
    <3>1. UNCHANGED <<up, session, seq, conn, wire, unsent, net, snapshot, status>>
      BY <2>1 DEF Ui, SetUp, Tick, TickFails, TakeEvent, InputGone, Leave, Input, InputFails,
                  InputReads, vars, proxyVars, linkVars, netVars
    <3> QED
      BY <3>1 DEF ConnectionInv, LastFrame, Now
  <2> QED
    BY <2>1, ProxiesConnection, NetworkConnection DEF Next, Over
<1>3. ViewerInv /\ ConnectionInv => StaleOnlyUnderWay
  BY DEF ConnectionInv, StaleOnlyUnderWay, LastFrame, Now
<1> QED
  BY <1>1, <1>2, <1>3, PTL DEF Spec
============================================================================
