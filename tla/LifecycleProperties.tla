------------------------ MODULE LifecycleProperties ------------------------
(***************************************************************************)
(* What is checked of Lifecycle.                                           *)
(***************************************************************************)
EXTENDS Lifecycle

\* Each variable has its type, and each queue and pipe its capacity.
Busy == {"read", "send", "done"}
TypeOK ==
  /\ helix \in [writes : BOOLEAN, reads : BOOLEAN]
  /\ sent \in Nat /\ injected \in Nat
  /\ leanGot \in Nat /\ leanWrote \in Nat /\ helixGot \in Nat
  /\ stdin \in 0 .. PipeCapacity /\ leanIn \in 0 .. PipeCapacity
  /\ leanOut \in 0 .. PipeCapacity /\ copies \in 0 .. SnoopCapacity
  /\ toLean \in 0 .. SinkCapacity /\ toHelix \in 0 .. SinkCapacity
  /\ c2s \in Busy /\ s2c \in Busy
  /\ snoop \in {"run", "done"} /\ leanWriter \in {"run", "done"}
  /\ helixWriter \in {"run", "done"}
  /\ lean \in {"none", "up", "ended", "left", "killed"}
  /\ pending \in BOOLEAN /\ garbled \in BOOLEAN
  /\ spoke \in BOOLEAN /\ diagnosed \in BOOLEAN
  /\ main \in {"spawn", "wait", "reap", "join", "drainLean", "drainHelix",
               "returned", "exited"}
  /\ first \in {"none", "Client", "Server", "signal"}

\* A Lean that reads its input to the end has read every frame Helix wrote and
\* every query the queue accepted: its stdin is closed only after the last one
\* (forward.rs, writer and spawn).
EndIsComplete ==
  lean = "ended" /\ first # "signal" => leanGot = sent + injected

\* When the proxy exits, Helix has every frame Lean wrote, though Lean was
\* killed or left: run waits for the pump and both writers.
NothingOfLeanLost ==
  main = "exited" /\ helix.reads /\ ~garbled => helixGot = leanWrote

\* A Lean that never spoke LSP, or could not be spawned, is diagnosed when Helix
\* did not close first (run.rs, report_startup_failure; main.rs), although its
\* death also breaks the writer and so could end pump_c2s first.
StartupFailureDiagnosed ==
  main = "exited" /\ first # "signal" /\ helix.writes /\ leanWrote = 0 => diagnosed

----------------------------------------------------------------------------
(* Liveness.  The proxy's tasks are scheduled and Helix reads what it is    *)
(* sent while it lives.  Nothing is asked of Lean, of the grace timer, nor  *)
(* of the snoop task, which may be held up by its capture file, but where a *)
(* property says so.                                                        *)

Alive(A) == Running /\ A
TaskFairness ==
  /\ WF_vars(Alive(C2sRead)) /\ WF_vars(Alive(C2sEnds))
  /\ WF_vars(Alive(C2sForward)) /\ WF_vars(Alive(C2sRefused))
  /\ WF_vars(Alive(LeanWriter)) /\ WF_vars(Alive(LeanWriterFails))
  /\ WF_vars(Alive(LeanWriterEnds))
  /\ WF_vars(Alive(S2cRead)) /\ WF_vars(Alive(S2cEnds))
  /\ WF_vars(Alive(S2cForward)) /\ WF_vars(Alive(S2cRefused))
  /\ WF_vars(Alive(HelixWriter)) /\ WF_vars(Alive(HelixWriterFails))
  /\ WF_vars(Alive(HelixWriterEnds))
  /\ WF_vars(Spawn \/ SpawnFails) /\ WF_vars(Shutdown)
  /\ WF_vars(WaitFirst) /\ WF_vars(ReapExited) /\ WF_vars(JoinS2c)
  /\ WF_vars(DrainLean) /\ WF_vars(DrainHelix)
TaskSpec == Spec /\ TaskFairness
GraceEnds == WF_vars(ReapKills)
LeanGoesOnReading == WF_vars(Alive(LeanReads))
SnoopGoesOn == WF_vars(Alive(SnoopObserves)) /\ WF_vars(Alive(SnoopEnds))

\* Once Lean is dead or could not be started, a pump has ended or a signal has
\* come, the proxy exits and leaves no child behind, if the grace period has an
\* end (run.rs, reap and drain_writers; main.rs, shutdown_timeout): even when
\* Helix holds our stdin open and says nothing, or the snoop task hangs.
MustEnd == lean \in {"ended", "left", "killed"} \/ first # "none" \/ main = "returned"
Exits == GraceEnds => (MustEnd ~> main = "exited" /\ lean # "up")

\* When Helix closes, a Lean that reads its input gets the end of it, with no
\* need of the kill: every sender toward its stdin is dropped.
LeanSeesTheEnd ==
  LeanGoesOnReading /\ SnoopGoesOn => (~helix.writes ~> leanWriter = "done" \/ lean # "up")

\* "map every shutdown path so no orphaned Lean server is left behind": when
\* Helix is gone, the proxy ends.
HelixGoneEnds == GraceEnds => (~helix.writes /\ ~helix.reads ~> main = "exited")
============================================================================
