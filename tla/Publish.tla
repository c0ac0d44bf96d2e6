------------------------------ MODULE Publish ------------------------------
(***************************************************************************)
(* How the snapshot gets out of a proxy: the watch channel of StateHandle  *)
(* (lhv-proxy/src/state.rs), a publish_to task for each connected viewer   *)
(* (server.rs), and the debug sink (sink.rs).  A snapshot is its seq.  The *)
(* task of a viewer that left may live until its next write; it has no     *)
(* effect any more, and is left out.                                       *)
(***************************************************************************)
EXTENDS Naturals, Sequences

CONSTANTS Viewer,     \* viewers
          Stuck,      \* those that connect and may never read
          WireCapacity,   \* frames a socket holds
          MaxSeq          \* updates
ASSUME PublishAssumption == /\ Stuck \subseteq Viewer
                            /\ WireCapacity \in Nat \ {0} /\ MaxSeq \in Nat

VARIABLES
  seq,        \* the watch channel's value
  task,       \* publish_to of each viewer: absent, or what it does next
  seen,       \* its receiver: the value last marked as seen
  held,       \* the snapshot it has borrowed
  wire,       \* frames in its socket
  shown,      \* the viewer: the snapshot on its screen
  sink,       \* run_goal_sink: opening its file, waiting, or writing
  sinkSeen,   \* its receiver
  lines       \* the snapshots in its file

viewerVars == <<task, seen, held, wire, shown>>
sinkVars == <<sink, sinkSeen, lines>>
vars == <<seq, viewerVars, sinkVars>>

Each(x) == [v \in Viewer |-> x]

Init ==
  /\ seq = 0
  /\ task = Each("absent") /\ seen = Each(0) /\ held = Each(0)
  /\ wire = Each(<<>>) /\ shown = Each(0)
  /\ sink = "open" /\ sinkSeen = 0 /\ lines = <<>>

\* StateHandle::update waits for nobody.
Update ==
  /\ seq < MaxSeq
  /\ seq' = seq + 1
  /\ UNCHANGED <<viewerVars, sinkVars>>

----------------------------------------------------------------------------
(* publish_to *)

\* serve accepts, and the new task subscribes.
Accept(v) ==
  /\ task[v] = "absent"
  /\ task' = [task EXCEPT ![v] = "borrow"]
  /\ seen' = [seen EXCEPT ![v] = seq]
  /\ UNCHANGED <<seq, held, wire, shown, sinkVars>>

\* Slips: a new connection starts from the empty snapshot; the value is marked
\* as seen only when it is written.
BorrowEmptyFirst(v) ==
  /\ task[v] = "borrow"
  /\ task' = [task EXCEPT ![v] = "write"]
  /\ held' = [held EXCEPT ![v] = IF seen[v] = seq THEN 0 ELSE seq]
  /\ seen' = [seen EXCEPT ![v] = seq]
  /\ UNCHANGED <<seq, wire, shown, sinkVars>>
WriteMarksSeen(v) ==
  /\ task[v] = "write"
  /\ Len(wire[v]) < WireCapacity
  /\ wire' = [wire EXCEPT ![v] = Append(@, held[v])]
  /\ task' = [task EXCEPT ![v] = "changed"]
  /\ seen' = [seen EXCEPT ![v] = seq]
  /\ UNCHANGED <<seq, held, shown, sinkVars>>

\* borrow_and_update: the newest value, marked as seen.
Borrow(v) ==
  /\ task[v] = "borrow"
  /\ task' = [task EXCEPT ![v] = "write"]
  /\ held' = [held EXCEPT ![v] = seq]
  /\ seen' = [seen EXCEPT ![v] = seq]
  /\ UNCHANGED <<seq, wire, shown, sinkVars>>

\* write_frame waits for room in the socket.
Write(v) ==
  /\ task[v] = "write"
  /\ Len(wire[v]) < WireCapacity
  /\ wire' = [wire EXCEPT ![v] = Append(@, held[v])]
  /\ task' = [task EXCEPT ![v] = "changed"]
  /\ UNCHANGED <<seq, seen, held, shown, sinkVars>>

Changed(v) ==
  /\ task[v] = "changed" /\ seen[v] # seq
  /\ task' = [task EXCEPT ![v] = "borrow"]
  /\ UNCHANGED <<seq, seen, held, wire, shown, sinkVars>>

\* The viewer: it shows what it reads, and keeps showing it when it is cut off.
Show(v) ==
  /\ wire[v] # <<>>
  /\ shown' = [shown EXCEPT ![v] = Head(wire[v])]
  /\ wire' = [wire EXCEPT ![v] = Tail(@)]
  /\ UNCHANGED <<seq, task, seen, held, sinkVars>>

Disconnect(v) ==
  /\ task[v] # "absent"
  /\ task' = [task EXCEPT ![v] = "absent"]
  /\ wire' = [wire EXCEPT ![v] = <<>>]
  /\ UNCHANGED <<seq, seen, held, shown, sinkVars>>

----------------------------------------------------------------------------
(* run_goal_sink.  It subscribed before the first update could come. *)

\* The file is open; the value as it is by now is skipped.
SinkSkips ==
  /\ sink = "open"
  /\ sink' = "changed" /\ sinkSeen' = seq
  /\ UNCHANGED <<seq, viewerVars, lines>>

\* changed, then borrow_and_update: no await between them.
SinkChanged ==
  /\ sink = "changed" /\ sinkSeen # seq
  /\ sink' = "write" /\ sinkSeen' = seq
  /\ lines' = Append(lines, seq)
  /\ UNCHANGED <<seq, viewerVars>>

\* A slip: whatever came during the write is marked as seen.
SinkWrittenMarksSeen ==
  /\ sink = "write"
  /\ sink' = "changed" /\ sinkSeen' = seq
  /\ UNCHANGED <<seq, viewerVars, lines>>

\* The line is written and flushed.
SinkWritten ==
  /\ sink = "write"
  /\ sink' = "changed"
  /\ UNCHANGED <<seq, viewerVars, sinkSeen, lines>>

Next == \/ Update \/ SinkSkips \/ SinkChanged \/ SinkWritten
        \/ \E v \in Viewer : \/ Accept(v) \/ Borrow(v) \/ Write(v) \/ Changed(v)
                             \/ Show(v) \/ Disconnect(v)

\* The proxy's tasks run; the viewers read that are not stuck.
Fairness ==
  /\ WF_vars(SinkSkips) /\ WF_vars(SinkChanged) /\ WF_vars(SinkWritten)
  /\ \A v \in Viewer : WF_vars(Borrow(v)) /\ WF_vars(Write(v)) /\ WF_vars(Changed(v))
  /\ \A v \in Viewer \ Stuck : WF_vars(Show(v))

Spec == Init /\ [][Next]_vars
FairSpec == Spec /\ Fairness

----------------------------------------------------------------------------
\* A viewer never goes back to an older snapshot, not even by reconnecting
\* (lhv-wire, Snapshot.seq: the viewer itself does not compare it).
NeverBack == [][\A v \in Viewer : shown'[v] >= shown[v]]_vars

\* A viewer that stays connected and reads comes to show the newest snapshot,
\* whatever bursts it missed and though others are stuck (server.rs, publish_to).
Converges ==
  \A v \in Viewer \ Stuck :
    <>[](task[v] # "absent") => <>[](shown[v] = seq)

\* The newest snapshot gets into the file, unless it is the one skipped.
SinkConverges ==
  <>[](IF lines = <<>> THEN sinkSeen = seq ELSE lines[Len(lines)] = seq)
============================================================================
