------------------------------- MODULE Viewer -------------------------------
(***************************************************************************)
(* The viewer process (lhv-viewer/src/lib.rs): network_loop, the input     *)
(* thread and the event loop around ViewerState and the terminal.  Network *)
(* and event loop share one runtime thread, so a step of theirs is what    *)
(* they do between two awaits.  A snapshot is the session of the proxy that*)
(* sent it and its seq; the proxies at the other end are an environment.   *)
(***************************************************************************)
EXTENDS Naturals, Sequences

CONSTANTS MaxSessions,    \* proxies that start, one after the other
          MaxSeq,         \* updates of each
          MaxEvents,      \* terminal events
          MaxScroll,      \* u16::MAX
          WireCapacity,   \* frames the socket holds
          Events,         \* the terminal events that occur
          None            \* nothing on the screen yet

ASSUME ViewerAssumption ==
  {MaxSessions, MaxSeq, MaxEvents, MaxScroll, WireCapacity} \subseteq Nat

Snapshot == [session : Nat, seq : Nat]
Default == [session |-> 0, seq |-> 0]

Status == {"waiting", "connected", "disconnected"}

\* What draw gets to see of ViewerState.
Screen == [snapshot : Snapshot, status : Status, scroll : Nat]

\* Key events as handle_event tells them apart, and any other event.
Event == [key : {"quit", "down", "up", "home"}, kind : {"press", "repeat", "release"}]
         \cup [key : {"other"}, kind : {"press"}]

ASSUME EventsAssumption == Events \subseteq Event
ASSUME NoneIsNoScreen == None \notin Screen

VARIABLES
  up, session, seq,   \* proxies: one runs, which, its newest snapshot
  conn, wire, unsent, \* the connection, its frames, a snapshot yet to be sent
  net,                \* network_loop: dialling, reading or sleeping
  snapshot, status, scroll,    \* ViewerState
  input, keys, typed, \* the input thread, its channel, events so far
  app,                \* run: setting up, looping, leaving, over
  terminal,           \* the modes the terminal is in
  screen              \* what was drawn last

proxyVars == <<up, session, seq>>
linkVars == <<conn, wire, unsent>>
netVars == <<net, snapshot, status>>
inputVars == <<input, keys, typed>>
uiVars == <<scroll, app, terminal, screen>>
vars == <<proxyVars, linkVars, netVars, inputVars, uiVars>>

Init ==
  /\ up = FALSE /\ session = 0 /\ seq = 0
  /\ conn = "none" /\ wire = <<>> /\ unsent = FALSE
  /\ net = "dial" /\ snapshot = Default /\ status = "waiting" /\ scroll = 0
  /\ input = "running" /\ keys = <<>> /\ typed = 0
  /\ app = "start" /\ terminal = {} /\ screen = None

----------------------------------------------------------------------------
(* The proxies.  publish_to replays the newest snapshot to a connection and *)
(* then sends it whenever it has changed.                                  *)

ProxyStarts ==
  /\ ~up /\ session < MaxSessions
  /\ up' = TRUE /\ session' = session + 1 /\ seq' = 0
  /\ UNCHANGED <<linkVars, netVars, inputVars, uiVars>>

ProxyEnds ==
  /\ up /\ up' = FALSE
  /\ conn' = IF conn = "open" THEN "ended" ELSE conn
  /\ UNCHANGED <<session, seq, wire, unsent, netVars, inputVars, uiVars>>

ProxyUpdates ==
  /\ up /\ seq < MaxSeq
  /\ seq' = seq + 1
  /\ unsent' = (conn = "open")
  /\ UNCHANGED <<up, session, conn, wire, netVars, inputVars, uiVars>>

ProxySends ==
  /\ conn = "open" /\ unsent /\ Len(wire) < WireCapacity
  /\ wire' = Append(wire, [session |-> session, seq |-> seq])
  /\ unsent' = FALSE
  /\ UNCHANGED <<proxyVars, conn, netVars, inputVars, uiVars>>

----------------------------------------------------------------------------
(* network_loop *)

Dial ==
  /\ net = "dial"
  /\ \/ /\ up
        /\ conn' = "open" /\ wire' = <<>> /\ unsent' = TRUE
        /\ status' = "connected" /\ net' = "read"
     \/ /\ ~up
        /\ status' = "waiting" /\ net' = "sleep"
        /\ UNCHANGED linkVars
  /\ UNCHANGED <<proxyVars, snapshot, inputVars, uiVars>>

ReadFrame ==
  /\ net = "read" /\ wire # <<>>
  /\ snapshot' = Head(wire) /\ wire' = Tail(wire)
  /\ UNCHANGED <<proxyVars, conn, unsent, net, status, inputVars, uiVars>>

\* A slip: the snapshot is cleared when the stream ends.
ReadEndsClears ==
  /\ net = "read" /\ wire = <<>> /\ conn = "ended"
  /\ conn' = "none" /\ unsent' = FALSE
  /\ status' = "disconnected" /\ net' = "sleep" /\ snapshot' = Default
  /\ UNCHANGED <<proxyVars, wire, inputVars, uiVars>>

\* A clean end, or a frame cut short: what was shown stays.
ReadEnds ==
  /\ net = "read" /\ wire = <<>> /\ conn = "ended"
  /\ conn' = "none" /\ unsent' = FALSE
  /\ status' = "disconnected" /\ net' = "sleep"
  /\ UNCHANGED <<proxyVars, wire, snapshot, inputVars, uiVars>>

BackoffOver ==
  /\ net = "sleep" /\ net' = "dial"
  /\ UNCHANGED <<proxyVars, linkVars, snapshot, status, inputVars, uiVars>>

----------------------------------------------------------------------------
(* The input thread: it ends on an error only. *)

InputReads(e) ==
  /\ input = "running" /\ typed < MaxEvents
  /\ keys' = Append(keys, e) /\ typed' = typed + 1
  /\ UNCHANGED <<proxyVars, linkVars, netVars, input, uiVars>>

InputFails ==
  /\ input = "running" /\ input' = "gone"
  /\ UNCHANGED <<proxyVars, linkVars, netVars, keys, typed, uiVars>>

----------------------------------------------------------------------------
(* run *)

\* setup_terminal: raw mode, then the alternate screen.  A failure in between
\* comes before there is a guard.
SetUp ==
  /\ app = "start"
  /\ \/ app' = "loop" /\ terminal' = {"raw", "alternate"}
     \/ app' = "failed" /\ terminal' \in {{}, {"raw"}, {"raw", "alternate"}}
  /\ UNCHANGED <<proxyVars, linkVars, netVars, inputVars, scroll, screen>>

\* draw copies ViewerState under its lock.
Draw(position) ==
  /\ app' = "loop"
  /\ screen' = [snapshot |-> snapshot, status |-> status, scroll |-> position]
\* Its error ends the loop.
DrawFails == app' = "leaving" /\ UNCHANGED screen

\* A slip: the ticker only drives the spinner.
TickSpins == app = "loop" /\ UNCHANGED vars

Tick ==
  /\ app = "loop" /\ Draw(scroll)
  /\ UNCHANGED <<proxyVars, linkVars, netVars, inputVars, scroll, terminal>>

TickFails ==
  /\ app = "loop" /\ DrawFails
  /\ UNCHANGED <<proxyVars, linkVars, netVars, inputVars, scroll, terminal>>

\* A slip: a held key does not quit.
QuitsOnPress(e) == e.key = "quit" /\ e.kind = "press"

\* handle_event
Quits(e) == e.key = "quit" /\ e.kind # "release"
Scrolled(e) ==
  CASE e.kind = "release" -> scroll
    [] e.key = "down" -> IF scroll < MaxScroll THEN scroll + 1 ELSE scroll
    [] e.key = "up"   -> IF scroll > 0 THEN scroll - 1 ELSE 0
    [] e.key = "home" -> 0
    [] OTHER -> scroll

TakeEvent ==
  /\ app = "loop" /\ keys # <<>>
  /\ keys' = Tail(keys)
  /\ \/ /\ Quits(Head(keys)) /\ app' = "leaving"
        /\ UNCHANGED <<scroll, screen>>
     \/ /\ ~Quits(Head(keys))
        /\ scroll' = Scrolled(Head(keys))
        /\ Draw(scroll') \/ DrawFails
  /\ UNCHANGED <<proxyVars, linkVars, netVars, input, typed, terminal>>

\* recv returns None: the input thread is gone and its events are handled.
InputGone ==
  /\ app = "loop" /\ input = "gone" /\ keys = <<>>
  /\ app' = "leaving"
  /\ UNCHANGED <<proxyVars, linkVars, netVars, inputVars, scroll, terminal, screen>>

\* TerminalGuard is dropped, whatever ended the loop.
Leave ==
  /\ app = "leaving" /\ app' = "over" /\ terminal' = {}
  /\ UNCHANGED <<proxyVars, linkVars, netVars, inputVars, scroll, screen>>

Running == app \notin {"over", "failed"}

\* With the process gone, what the others do is no matter.
Over == ~Running /\ UNCHANGED vars

Proxies == ProxyStarts \/ ProxyEnds \/ ProxyUpdates \/ ProxySends
Network == Dial \/ ReadFrame \/ ReadEnds \/ BackoffOver
Input == InputFails \/ \E e \in Events : InputReads(e)
Ui == SetUp \/ Tick \/ TickFails \/ TakeEvent \/ InputGone \/ Leave

Next == \/ Running /\ (Proxies \/ Network \/ Input \/ Ui)
        \/ Over

\* The event loop polls its branches in random order and the ticker is due
\* only now and then, so neither branch keeps the other from running.
UiFairness == /\ WF_vars(SetUp) /\ WF_vars(Tick) /\ WF_vars(TakeEvent)
              /\ WF_vars(InputGone) /\ WF_vars(Leave)

Spec == Init /\ [][Next]_vars /\ UiFairness
----------------------------------------------------------------------------
(* Properties *)

\* What is on the screen never goes back: not to an older snapshot, not to the
\* session of a proxy that was replaced, and not to the empty pane because a
\* proxy went away (network_loop, "survives the proxy being absent or
\* restarting").
NotAfter(s, t) == \/ s.session < t.session
                  \/ s.session = t.session /\ s.seq <= t.seq
ScreenNeverBack ==
  [][screen # None => screen' # None /\ NotAfter(screen.snapshot, screen'.snapshot)]_vars

\* A quit key ends the loop and gives the terminal back, whatever the network
\* side, the proxies or a failing draw do (run, handle_event, TerminalGuard).
QuitLeaves ==
  app = "loop" /\ (\E i \in DOMAIN keys : keys[i].key = "quit" /\ keys[i].kind # "release")
    ~> app = "over" /\ terminal = {}

\* Without a key being touched the screen ends up with what the running proxy
\* published last, and says that it is connected; or that it is not when no
\* proxy runs (network_loop and the ticker).
NetworkFairness == WF_vars(ProxySends) /\ WF_vars(Network)
Current == [snapshot |-> [session |-> session, seq |-> seq],
            status |-> "connected", scroll |-> scroll]
ScreenCatchesUp ==
  NetworkFairness =>
    <>[](app = "loop" => IF up THEN screen = Current
                         ELSE screen # None /\ screen.status # "connected")
============================================================================
