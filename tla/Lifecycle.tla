----------------------------- MODULE Lifecycle -----------------------------
(***************************************************************************)
(* The life of a proxy (lean-helix-view/src/main.rs, lhv-proxy/src/run.rs, *)
(* and the ends of the tasks of forward.rs): Lean is spawned or cannot be; *)
(* Helix closes, Lean dies, or a signal arrives, in any state of the       *)
(* pumps, the writers and the snoop task.  Both queues are FIFO, so a      *)
(* stage of the pipe is the number of frames in it; order and content are  *)
(* Forward's subject, and frames kept from Helix are left out.             *)
(***************************************************************************)
EXTENDS Integers

CONSTANTS SinkCapacity,   \* slots of the queue toward Lean, and toward Helix
          SnoopCapacity,  \* slots of the copy channel
          PipeCapacity,   \* frames an OS pipe holds
          MaxClient,      \* frames Helix writes
          MaxLean         \* frames Lean writes

ASSUME CapacitiesPositive ==
  /\ SinkCapacity \in Nat \ {0} /\ SnoopCapacity \in Nat \ {0}
  /\ PipeCapacity \in Nat \ {0} /\ MaxClient \in Nat /\ MaxLean \in Nat

VARIABLES
  helix,        \* Helix: does it hold its end of our stdin, of our stdout?
  sent,         \* frames Helix has written
  stdin,        \* frames in our stdin
  c2s,          \* pump_c2s: reading, holding a frame to send, or done
  snoop,        \* run_snoop_task: running or done
  copies,       \* frames in the copy channel
  pending,      \* the snoop's timer holds a focus
  injected,     \* queries the queue has accepted
  toLean,       \* frames queued for the Lean-stdin writer
  leanWriter,   \* that writer: running or done, Lean's stdin closed
  leanIn,       \* frames in Lean's stdin
  lean,         \* the child: none, up, ended at end of input, left before, or killed
  leanGot,      \* frames Lean has read
  leanWrote,    \* frames Lean has written
  garbled,      \* Lean has written what is no frame
  leanOut,      \* frames in Lean's stdout
  s2c,          \* pump_s2c: reading, holding a frame to send, or done
  spoke,        \* Forwarder.spoke
  toHelix,      \* frames queued for the stdout writer
  helixWriter,  \* that writer: running or done
  helixGot,     \* frames Helix has read
  main,         \* main: what run is at, or that it returned, or exited
  first,        \* its first: Client, Server, or a signal
  diagnosed     \* stderr says why Lean did not start

clientVars == <<helix, sent, stdin>>
snoopVars  == <<snoop, copies, pending, injected>>
leanVars   == <<lean, leanIn, leanGot, leanWrote, garbled>>
backVars   == <<leanOut, s2c, spoke, toHelix, helixWriter, helixGot>>
mainVars   == <<main, first, diagnosed>>
vars == <<clientVars, c2s, snoopVars, toLean, leanWriter, leanVars, backVars, mainVars>>

Init ==
  /\ helix = [writes |-> TRUE, reads |-> TRUE]
  /\ sent = 0 /\ stdin = 0 /\ toLean = 0 /\ leanIn = 0 /\ leanGot = 0
  /\ leanWrote = 0 /\ leanOut = 0 /\ toHelix = 0 /\ helixGot = 0
  /\ copies = 0 /\ injected = 0
  /\ c2s = "read" /\ s2c = "read"
  /\ snoop = "run" /\ leanWriter = "run" /\ helixWriter = "run"
  /\ lean = "none"
  /\ pending = FALSE /\ garbled = FALSE /\ spoke = FALSE /\ diagnosed = FALSE
  /\ main = "spawn" /\ first = "none"

----------------------------------------------------------------------------
(* Helix: it says nothing after initialize before Lean has spoken. *)

HelixSpeaks ==
  /\ helix.writes /\ sent < MaxClient /\ stdin < PipeCapacity
  /\ sent = 0 \/ helixGot > 0
  /\ sent' = sent + 1 /\ stdin' = stdin + 1
  /\ UNCHANGED <<helix, c2s, snoopVars, toLean, leanWriter, leanVars, backVars, mainVars>>

\* Helix closes our stdin, or writes what is no frame, which the pump takes for
\* the end as well; or it ends and so closes our stdout too.
HelixCloses(reads) ==
  /\ helix' = [writes |-> FALSE, reads |-> reads /\ helix.reads]
  /\ helix' # helix
  /\ UNCHANGED <<sent, stdin, c2s, snoopVars, toLean, leanWriter, leanVars, backVars, mainVars>>

----------------------------------------------------------------------------
(* Client to server. *)

C2sRead ==
  /\ c2s = "read" /\ stdin > 0
  /\ c2s' = "send" /\ stdin' = stdin - 1
  /\ UNCHANGED <<helix, sent, snoopVars, toLean, leanWriter, leanVars, backVars, mainVars>>

\* End of stream, or a read error.
C2sEnds ==
  /\ c2s = "read" /\ stdin = 0 /\ ~helix.writes
  /\ c2s' = "done"
  /\ UNCHANGED <<clientVars, snoopVars, toLean, leanWriter, leanVars, backVars, mainVars>>

\* A slip: the queue is not bounded.
C2sForwardUnbounded ==
  /\ c2s = "send" /\ leanWriter = "run"
  /\ c2s' = "read" /\ toLean' = toLean + 1
  /\ copies' = IF copies < SnoopCapacity THEN copies + 1 ELSE copies
  /\ UNCHANGED <<clientVars, snoop, pending, injected, leanWriter, leanVars,
                 backVars, mainVars>>

C2sForward ==
  /\ c2s = "send" /\ leanWriter = "run" /\ toLean < SinkCapacity
  /\ c2s' = "read" /\ toLean' = toLean + 1
  /\ copies' = IF copies < SnoopCapacity THEN copies + 1 ELSE copies
  /\ UNCHANGED <<clientVars, snoop, pending, injected, leanWriter, leanVars,
                 backVars, mainVars>>

\* A slip: the pump watches the queue and not only its sends.
C2sRefusedAtOnce ==
  /\ c2s # "done" /\ leanWriter = "done"
  /\ c2s' = "done"
  /\ UNCHANGED <<clientVars, snoopVars, toLean, leanWriter, leanVars, backVars, mainVars>>

\* The writer is gone: the send fails and the frame is lost.
C2sRefused ==
  /\ c2s = "send" /\ leanWriter = "done"
  /\ c2s' = "done"
  /\ UNCHANGED <<clientVars, snoopVars, toLean, leanWriter, leanVars, backVars, mainVars>>

SnoopObserves ==
  /\ snoop = "run" /\ copies > 0
  /\ copies' = copies - 1 /\ (pending' = pending \/ pending' = TRUE)
  /\ UNCHANGED <<clientVars, c2s, snoop, injected, toLean, leanWriter, leanVars,
                 backVars, mainVars>>

\* Two try_sends; a slot handed to the waiting pump is not free for them.
Accepted == LET free  == SinkCapacity - toLean
                rooms == IF c2s = "send" THEN {free, free - 1} ELSE {free}
            IN  IF leanWriter = "done" THEN {0}
                ELSE {IF room <= 0 THEN 0 ELSE IF room = 1 THEN 1 ELSE 2 : room \in rooms}

SnoopFires ==
  /\ snoop = "run" /\ pending
  /\ pending' = FALSE
  /\ \E n \in Accepted : toLean' = toLean + n /\ injected' = injected + n
  /\ UNCHANGED <<clientVars, c2s, snoop, copies, leanWriter, leanVars, backVars, mainVars>>

\* A slip: the task ends when its queue's writer does, and the other way round.
SnoopEndsInACycle ==
  /\ snoop = "run" /\ leanWriter = "done"
  /\ snoop' = "done"
  /\ UNCHANGED <<clientVars, c2s, copies, pending, injected, toLean, leanWriter,
                 leanVars, backVars, mainVars>>

\* The copy channel is empty and pump_c2s, its sender, gone: the querier and
\* its sender toward Lean are dropped.
SnoopEnds ==
  /\ snoop = "run" /\ copies = 0 /\ c2s = "done"
  /\ snoop' = "done"
  /\ UNCHANGED <<clientVars, c2s, copies, pending, injected, toLean, leanWriter,
                 leanVars, backVars, mainVars>>

LeanWriter ==
  /\ leanWriter = "run" /\ toLean > 0 /\ lean = "up" /\ leanIn < PipeCapacity
  /\ toLean' = toLean - 1 /\ leanIn' = leanIn + 1
  /\ UNCHANGED <<clientVars, c2s, snoopVars, leanWriter, lean, leanGot, leanWrote,
                 garbled, backVars, mainVars>>

\* A write to a dead child fails: the writer stops, what is queued is lost.
LeanWriterFails ==
  /\ leanWriter = "run" /\ toLean > 0 /\ lean # "up"
  /\ leanWriter' = "done" /\ toLean' = 0
  /\ UNCHANGED <<clientVars, c2s, snoopVars, leanVars, backVars, mainVars>>

\* A slip: the writer stops with its producers, whatever is queued.
LeanWriterEndsEarly ==
  /\ leanWriter = "run" /\ c2s = "done" /\ snoop = "done"
  /\ leanWriter' = "done" /\ toLean' = 0
  /\ UNCHANGED <<clientVars, c2s, snoopVars, leanVars, backVars, mainVars>>

\* Every sender is dropped and the queue is empty: Lean's stdin is closed.
LeanWriterEnds ==
  /\ leanWriter = "run" /\ toLean = 0 /\ c2s = "done" /\ snoop = "done"
  /\ leanWriter' = "done"
  /\ UNCHANGED <<clientVars, c2s, snoopVars, toLean, leanVars, backVars, mainVars>>

----------------------------------------------------------------------------
(* Lean. *)

LeanReads ==
  /\ lean = "up" /\ leanIn > 0
  /\ leanIn' = leanIn - 1 /\ leanGot' = leanGot + 1
  /\ UNCHANGED <<clientVars, c2s, snoopVars, toLean, leanWriter, lean, leanWrote,
                 garbled, backVars, mainVars>>

LeanSpeaks ==
  /\ lean = "up" /\ ~garbled /\ leanWrote < MaxLean /\ leanOut < PipeCapacity
  /\ leanWrote' = leanWrote + 1 /\ leanOut' = leanOut + 1
  /\ UNCHANGED <<clientVars, c2s, snoopVars, toLean, leanWriter, lean, leanIn, leanGot,
                 garbled, s2c, spoke, toHelix, helixWriter, helixGot, mainVars>>

\* A line of the build tool on stdout, or a frame cut short.
LeanGarbles ==
  /\ lean = "up" /\ ~garbled
  /\ garbled' = TRUE
  /\ UNCHANGED <<clientVars, c2s, snoopVars, toLean, leanWriter, lean, leanIn, leanGot,
                 leanWrote, backVars, mainVars>>

\* It ends at the end of its input, or leaves before: it was told to exit, or
\* it crashed.  What it wrote stays in its stdout.
LeanStops(how) ==
  /\ lean = "up"
  /\ how = "ended" => leanWriter = "done" /\ leanIn = 0
  /\ lean' = how /\ leanIn' = 0
  /\ UNCHANGED <<clientVars, c2s, snoopVars, toLean, leanWriter, leanGot, leanWrote,
                 garbled, backVars, mainVars>>

----------------------------------------------------------------------------
(* Server to client. *)

S2cRead ==
  /\ s2c = "read" /\ leanOut > 0
  /\ s2c' = "send" /\ leanOut' = leanOut - 1 /\ spoke' = TRUE
  /\ UNCHANGED <<clientVars, c2s, snoopVars, toLean, leanWriter, leanVars,
                 toHelix, helixWriter, helixGot, mainVars>>

\* End of stream, or a read error.
S2cEnds ==
  /\ s2c = "read" /\ leanOut = 0 /\ (lean # "up" \/ garbled)
  /\ s2c' = "done"
  /\ UNCHANGED <<clientVars, c2s, snoopVars, toLean, leanWriter, leanVars, leanOut,
                 spoke, toHelix, helixWriter, helixGot, mainVars>>

S2cForward ==
  /\ s2c = "send" /\ helixWriter = "run" /\ toHelix < SinkCapacity
  /\ s2c' = "read" /\ toHelix' = toHelix + 1
  /\ UNCHANGED <<clientVars, c2s, snoopVars, toLean, leanWriter, leanVars, leanOut,
                 spoke, helixWriter, helixGot, mainVars>>

S2cRefused ==
  /\ s2c = "send" /\ helixWriter = "done"
  /\ s2c' = "done"
  /\ UNCHANGED <<clientVars, c2s, snoopVars, toLean, leanWriter, leanVars, leanOut,
                 spoke, toHelix, helixWriter, helixGot, mainVars>>

HelixWriter ==
  /\ helixWriter = "run" /\ toHelix > 0 /\ helix.reads
  /\ toHelix' = toHelix - 1 /\ helixGot' = helixGot + 1
  /\ UNCHANGED <<clientVars, c2s, snoopVars, toLean, leanWriter, leanVars, leanOut,
                 s2c, spoke, helixWriter, mainVars>>

HelixWriterFails ==
  /\ helixWriter = "run" /\ toHelix > 0 /\ ~helix.reads
  /\ helixWriter' = "done" /\ toHelix' = 0
  /\ UNCHANGED <<clientVars, c2s, snoopVars, toLean, leanWriter, leanVars, leanOut,
                 s2c, spoke, helixGot, mainVars>>

HelixWriterEnds ==
  /\ helixWriter = "run" /\ toHelix = 0 /\ s2c = "done"
  /\ helixWriter' = "done"
  /\ UNCHANGED <<clientVars, c2s, snoopVars, toLean, leanWriter, leanVars, leanOut,
                 s2c, spoke, toHelix, helixGot, mainVars>>

----------------------------------------------------------------------------
(* run, and main around it *)

\* Everything up to the first await of run's select.
Spawn ==
  /\ main = "spawn"
  /\ lean' = "up" /\ main' = "wait"
  /\ UNCHANGED <<clientVars, c2s, snoopVars, toLean, leanWriter, leanIn, leanGot,
                 leanWrote, garbled, backVars, first, diagnosed>>

\* run returns the error before there is any task.
SpawnFails ==
  /\ main = "spawn"
  /\ main' = "returned"
  /\ UNCHANGED <<clientVars, c2s, snoopVars, toLean, leanWriter, leanVars, backVars,
                 first, diagnosed>>

\* wait_first; with both pumps done either may be seen.
WaitFirst ==
  /\ main = "wait"
  /\ \/ c2s = "done" /\ first' = "Client"
     \/ s2c = "done" /\ first' = "Server"
  /\ main' = "reap"
  /\ UNCHANGED <<clientVars, c2s, snoopVars, toLean, leanWriter, leanVars, backVars, diagnosed>>

ShutdownSignal ==
  /\ main = "wait"
  /\ first' = "signal" /\ main' = "reap"
  /\ c2s' = "done"
  /\ UNCHANGED <<clientVars, snoopVars, toLean, leanWriter, leanVars, backVars, diagnosed>>

\* drain_writers begins by aborting the snoop task.
DrainFrom(point) ==
  /\ main = point /\ main' = "drainLean"
  /\ snoop' = "done" /\ UNCHANGED <<copies, pending, injected>>

\* A slip: pump_c2s is not aborted, and goes on reading.
AfterReapGoesOn ==
  IF first = "Client"
  THEN main = "reap" /\ main' = "join" /\ UNCHANGED <<c2s, snoopVars, diagnosed>>
  ELSE DrainFrom("reap") /\ UNCHANGED c2s
       /\ diagnosed' = (diagnosed \/ (first = "Server" /\ ~spoke))

\* What run does once the child is reaped.
AfterReap ==
  IF first = "Client"
  THEN main = "reap" /\ main' = "join" /\ UNCHANGED <<c2s, snoopVars, diagnosed>>
  ELSE DrainFrom("reap") /\ c2s' = "done"
       /\ diagnosed' = (diagnosed \/ (first = "Server" /\ ~spoke))

ReapExited ==
  /\ lean # "up" /\ AfterReap
  /\ UNCHANGED <<clientVars, toLean, leanWriter, leanVars, backVars, first>>

\* The grace period ends first.
ReapKills ==
  /\ lean = "up" /\ AfterReap
  /\ lean' = "killed" /\ leanIn' = 0
  /\ UNCHANGED <<clientVars, toLean, leanWriter, leanGot, leanWrote, garbled, backVars, first>>

JoinS2c ==
  /\ s2c = "done" /\ DrainFrom("join")
  /\ UNCHANGED <<clientVars, c2s, toLean, leanWriter, leanVars, backVars, first, diagnosed>>

DrainLean ==
  /\ main = "drainLean" /\ leanWriter = "done" /\ main' = "drainHelix"
  /\ UNCHANGED <<clientVars, c2s, snoopVars, toLean, leanWriter, leanVars, backVars,
                 first, diagnosed>>

\* A slip: the stdout writer is not waited for.
DrainHelixNot ==
  /\ main = "drainHelix" /\ main' = "returned"
  /\ UNCHANGED <<clientVars, c2s, snoopVars, toLean, leanWriter, leanVars, backVars,
                 first, diagnosed>>

DrainHelix ==
  /\ main = "drainHelix" /\ helixWriter = "done" /\ main' = "returned"
  /\ UNCHANGED <<clientVars, c2s, snoopVars, toLean, leanWriter, leanVars, backVars,
                 first, diagnosed>>

\* A slip: the runtime is just dropped, and waits for the read of stdin that
\* a blocking thread is in.
ShutdownWaits ==
  /\ main = "returned" /\ main' = "exited"
  /\ stdin > 0 \/ ~helix.writes
  /\ diagnosed' = (diagnosed \/ lean = "none")
  /\ UNCHANGED <<clientVars, c2s, snoopVars, toLean, leanWriter, leanVars, backVars, first>>

\* The runtime is shut down in bounded time, whatever its threads wait for;
\* then an error of run is printed.
Shutdown ==
  /\ main = "returned" /\ main' = "exited"
  /\ diagnosed' = (diagnosed \/ lean = "none")
  /\ UNCHANGED <<clientVars, c2s, snoopVars, toLean, leanWriter, leanVars, backVars, first>>

----------------------------------------------------------------------------
\* Tasks are polled only while run is: they are spawned by it, and dropped
\* with the runtime once it has returned.
Running == main \notin {"spawn", "returned", "exited"}

Task == \/ C2sRead \/ C2sEnds \/ C2sForward \/ C2sRefused
        \/ SnoopObserves \/ SnoopFires \/ SnoopEnds
        \/ LeanWriter \/ LeanWriterFails \/ LeanWriterEnds
        \/ S2cRead \/ S2cEnds \/ S2cForward \/ S2cRefused
        \/ HelixWriter \/ HelixWriterFails \/ HelixWriterEnds
Run == \/ Spawn \/ SpawnFails \/ WaitFirst \/ ReapExited \/ ReapKills
       \/ JoinS2c \/ DrainLean \/ DrainHelix \/ Shutdown

Environment == \/ HelixSpeaks \/ \E reads \in BOOLEAN : HelixCloses(reads)
               \/ LeanReads \/ LeanSpeaks \/ LeanGarbles
               \/ \E how \in {"ended", "left"} : LeanStops(how)
               \/ ShutdownSignal

Next == \/ Running /\ Task
        \/ Run
        \/ main # "exited" /\ Environment

Spec == Init /\ [][Next]_vars
============================================================================
