-------------------------- MODULE LifecycleProofs --------------------------
(***************************************************************************)
(* Whatever the capacities and the traffic: what the end of a proxy may    *)
(* lose, that nothing is left to wait for, and when it explains that Lean  *)
(* did not start.  Fairness plays no part: each theorem says what holds if *)
(* the proxy gets that far.                                                *)
(***************************************************************************)
EXTENDS LifecycleProperties, TLAPS

Held(pump) == IF pump = "send" THEN 1 ELSE 0

\* While Helix reads, nothing of Lean's is lost on the way back, and no task
\* ends before the one that feeds it.
BackInv ==
  /\ helix.reads =>
       /\ leanWrote = leanOut + Held(s2c) + toHelix + helixGot
       /\ helixWriter = "done" => toHelix = 0 /\ s2c = "done"
       /\ s2c = "done" => leanOut = 0 /\ (lean # "up" \/ garbled)
  /\ main \in {"returned", "exited"} /\ lean # "none" => helixWriter = "done"
  /\ lean = "none" =>
       /\ ~Running /\ first = "none"
       /\ leanWrote = 0 /\ leanOut = 0 /\ s2c = "read" /\ toHelix = 0 /\ helixGot = 0
  /\ main = "spawn" => lean = "none"

\* The same of the way to Lean while it is up; and what it leaves when it ends.
ThereInv ==
  /\ lean \in {"none", "up"} /\ first # "signal" =>
       /\ sent + injected = stdin + Held(c2s) + toLean + leanIn + leanGot
       /\ c2s = "done" => stdin = 0 /\ ~helix.writes
       /\ leanWriter = "done" => toLean = 0 /\ c2s = "done" /\ snoop = "done"
  /\ lean = "ended" /\ first # "signal" =>
       leanGot = sent + injected /\ ~helix.writes /\ snoop = "done"
  /\ main \notin {"wait", "reap"} => lean # "up"
  /\ main \in {"spawn", "wait"} => first = "none"

\* Before Lean speaks, Helix has written one frame at most; until pump_c2s has
\* passed it on, no writer can have failed, so pump_c2s does not end.
SilentInv ==
  /\ spoke \/ leanOut > 0 \/ s2c = "send" \/ toHelix > 0 \/ helixGot > 0
     => leanWrote > 0
  /\ main \in {"spawn", "wait"} \/ lean = "none" <=> first = "none"
  /\ leanWrote = 0 /\ c2s # "done" =>
       /\ stdin + Held(c2s) <= sent /\ sent <= 1
       /\ stdin + Held(c2s) = sent =>
            copies = 0 /\ ~pending /\ toLean = 0 /\ leanWriter = "run"
  /\ leanWrote = 0 /\ helix.writes /\ first # "signal" =>
       /\ first # "Client" /\ main # "join"
       /\ c2s = "done" => main \in {"drainLean", "drainHelix", "returned", "exited"}
       /\ main \in {"drainLean", "drainHelix", "returned", "exited"} =>
            diagnosed \/ (lean = "none" /\ main = "returned")

\* What run waits for after the reap can come: no child is left to be waited
\* for, and before a writer is waited for every sender toward Lean is dropped,
\* whichever side closed first and though pump_c2s may be inside a read of our
\* stdin (run.rs, the arms after wait_first; drain_writers).  None of these
\* tasks is left when run returns.
SendersDropped ==
  /\ main \notin {"wait", "reap"} => lean # "up"
  /\ main \in {"join", "drainLean", "drainHelix"} => c2s = "done"
  /\ main \in {"drainLean", "drainHelix"} => snoop = "done"
  /\ main \in {"drainHelix", "returned", "exited"} /\ lean # "none" =>
       c2s = "done" /\ snoop = "done" /\ leanWriter = "done"

\* When Helix closed first, pump_c2s is what ended; else it is aborted.  A run
\* that returns without a child never had one.
SendersInv ==
  /\ SendersDropped
  /\ main = "spawn" => lean = "none"
  /\ first = "Client" => c2s = "done"
  /\ main = "join" => first = "Client"

----------------------------------------------------------------------------
\* The initial values are typed.
LEMMA InitType == Init => TypeOK
<1> SUFFICES ASSUME Init PROVE TypeOK
  OBVIOUS
<1>1. pending \in BOOLEAN /\ garbled \in BOOLEAN /\ spoke \in BOOLEAN /\ diagnosed \in BOOLEAN
  BY Zenon DEF Init
<1> QED
  BY <1>1, CapacitiesPositive DEF Init, TypeOK, Busy

\* Every step keeps the types and the capacities.
LEMMA NextType == TypeOK /\ [Next]_vars => TypeOK'
<1> SUFFICES ASSUME TypeOK, [Next]_vars PROVE TypeOK'
  OBVIOUS
<1>1. CASE Running /\ Task
  <2>1. CASE C2sRead
    BY <2>1, CapacitiesPositive DEF C2sRead, snoopVars, leanVars, backVars,
       mainVars, TypeOK, Busy
  <2>2. CASE C2sEnds
    BY <2>2, CapacitiesPositive DEF C2sEnds, clientVars, snoopVars, leanVars,
       backVars, mainVars, TypeOK, Busy
  <2>3. CASE C2sForward
    BY <2>3, CapacitiesPositive DEF C2sForward, clientVars, leanVars, backVars,
       mainVars, TypeOK, Busy
  <2>4. CASE C2sRefused
    BY <2>4, CapacitiesPositive DEF C2sRefused, clientVars, snoopVars, leanVars,
       backVars, mainVars, TypeOK, Busy
  <2>5. CASE SnoopObserves
    <3>1. pending' \in BOOLEAN
      BY <2>5, Zenon DEF SnoopObserves, TypeOK
    <3> QED
      BY <2>5, <3>1, CapacitiesPositive DEF SnoopObserves, clientVars, leanVars,
         backVars, mainVars, TypeOK, Busy
  <2>6. CASE SnoopFires
    <3>1. pending' \in BOOLEAN
      BY <2>6, Zenon DEF SnoopFires, TypeOK
    <3> QED
      BY <2>6, <3>1, CapacitiesPositive DEF SnoopFires, Accepted, clientVars,
         leanVars, backVars, mainVars, TypeOK, Busy
  <2>7. CASE SnoopEnds
    BY <2>7, CapacitiesPositive DEF SnoopEnds, clientVars, leanVars, backVars,
       mainVars, TypeOK, Busy
  <2>8. CASE LeanWriter
    BY <2>8, CapacitiesPositive DEF LeanWriter, clientVars, snoopVars, backVars,
       mainVars, TypeOK, Busy
  <2>9. CASE LeanWriterFails
    BY <2>9, CapacitiesPositive DEF LeanWriterFails, clientVars, snoopVars,
       leanVars, backVars, mainVars, TypeOK, Busy
  <2>10. CASE LeanWriterEnds
    BY <2>10, CapacitiesPositive DEF LeanWriterEnds, clientVars, snoopVars,
       leanVars, backVars, mainVars, TypeOK, Busy
  <2>11. CASE S2cRead
    BY <2>11, CapacitiesPositive DEF S2cRead, clientVars, snoopVars, leanVars,
       mainVars, TypeOK, Busy
  <2>12. CASE S2cEnds
    BY <2>12, CapacitiesPositive DEF S2cEnds, clientVars, snoopVars, leanVars,
       mainVars, TypeOK, Busy
  <2>13. CASE S2cForward
    BY <2>13, CapacitiesPositive DEF S2cForward, clientVars, snoopVars,
       leanVars, mainVars, TypeOK, Busy
  <2>14. CASE S2cRefused
    BY <2>14, CapacitiesPositive DEF S2cRefused, clientVars, snoopVars,
       leanVars, mainVars, TypeOK, Busy
  <2>15. CASE HelixWriter
    BY <2>15, CapacitiesPositive DEF HelixWriter, clientVars, snoopVars,
       leanVars, mainVars, TypeOK, Busy
  <2>16. CASE HelixWriterFails
    BY <2>16, CapacitiesPositive DEF HelixWriterFails, clientVars, snoopVars,
       leanVars, mainVars, TypeOK, Busy
  <2>17. CASE HelixWriterEnds
    BY <2>17, CapacitiesPositive DEF HelixWriterEnds, clientVars, snoopVars,
       leanVars, mainVars, TypeOK, Busy
  <2> QED
    BY <1>1, <2>1, <2>2, <2>3, <2>4, <2>5, <2>6, <2>7, <2>8, <2>9, <2>10, <2>11,
       <2>12, <2>13, <2>14, <2>15, <2>16, <2>17 DEF Task
<1>2. CASE Run
  <2>1. CASE WaitFirst
    BY <2>1, CapacitiesPositive DEF WaitFirst, clientVars, snoopVars, leanVars,
       backVars, TypeOK, Busy
  <2>2. CASE ReapExited
    <3>1. diagnosed' \in BOOLEAN
      BY <2>2, Zenon DEF ReapExited, AfterReap, TypeOK
    <3> QED
      BY <2>2, <3>1, CapacitiesPositive DEF ReapExited, AfterReap, DrainFrom,
         clientVars, snoopVars, leanVars, backVars, TypeOK, Busy
  <2>3. CASE ReapKills
    <3>1. diagnosed' \in BOOLEAN
      BY <2>3, Zenon DEF ReapKills, AfterReap, TypeOK
    <3> QED
      BY <2>3, <3>1, CapacitiesPositive DEF ReapKills, AfterReap, DrainFrom,
         clientVars, snoopVars, backVars, TypeOK, Busy
  <2>4. CASE JoinS2c
    BY <2>4, CapacitiesPositive DEF JoinS2c, DrainFrom, clientVars, leanVars,
       backVars, TypeOK, Busy
  <2>5. CASE DrainLean
    BY <2>5, CapacitiesPositive DEF DrainLean, clientVars, snoopVars, leanVars,
       backVars, TypeOK, Busy
  <2>6. CASE DrainHelix
    BY <2>6, CapacitiesPositive DEF DrainHelix, clientVars, snoopVars, leanVars,
       backVars, TypeOK, Busy
  <2>7. CASE Spawn
    BY <2>7 DEF Spawn, clientVars, snoopVars, backVars,
       TypeOK, Busy
  <2>8. CASE SpawnFails
    BY <2>8 DEF SpawnFails, clientVars, snoopVars, leanVars, backVars,
       TypeOK, Busy
  <2>9. CASE Shutdown
    <3>1. diagnosed' \in BOOLEAN
      BY <2>9, Zenon DEF Shutdown, TypeOK
    <3> QED
      BY <2>9, <3>1 DEF Shutdown, clientVars, snoopVars, leanVars, backVars, TypeOK,
         Busy
  <2> QED
    BY <1>2, <2>1, <2>2, <2>3, <2>4, <2>5, <2>6, <2>7, <2>8, <2>9 DEF Run
<1>3. CASE Environment
  <2>1. CASE HelixSpeaks
    BY <2>1, CapacitiesPositive DEF HelixSpeaks, snoopVars, leanVars, backVars,
       mainVars, TypeOK, Busy
  <2>2. ASSUME NEW reads \in BOOLEAN, HelixCloses(reads) PROVE TypeOK'
    BY <2>2, CapacitiesPositive DEF HelixCloses, snoopVars, leanVars, backVars,
       mainVars, TypeOK, Busy
  <2>3. CASE LeanReads
    BY <2>3, CapacitiesPositive DEF LeanReads, clientVars, snoopVars, backVars,
       mainVars, TypeOK, Busy
  <2>4. CASE LeanSpeaks
    BY <2>4, CapacitiesPositive DEF LeanSpeaks, clientVars, snoopVars, mainVars,
       TypeOK, Busy
  <2>5. CASE LeanGarbles
    BY <2>5, CapacitiesPositive DEF LeanGarbles, clientVars, snoopVars,
       backVars, mainVars, TypeOK, Busy
  <2>6. ASSUME NEW how \in {"ended", "left"}, LeanStops(how) PROVE TypeOK'
    BY <2>6, CapacitiesPositive DEF LeanStops, clientVars, snoopVars, backVars,
       mainVars, TypeOK, Busy
  <2>7. CASE ShutdownSignal
    BY <2>7, CapacitiesPositive DEF ShutdownSignal, clientVars, snoopVars,
       leanVars, backVars, TypeOK, Busy
  <2> QED
    BY <1>3, <2>1, <2>2, <2>3, <2>4, <2>5, <2>6, <2>7 DEF Environment
<1>4. CASE UNCHANGED vars
  BY <1>4 DEF vars, clientVars, snoopVars, leanVars, backVars, mainVars, TypeOK,
     Busy
<1> QED
  BY <1>1, <1>2, <1>3, <1>4 DEF Next

\* The types and capacities hold in every reachable state.
THEOREM TypeCorrect == Spec => []TypeOK
<1> QED
  BY InitType, NextType, PTL DEF Spec

\* No step loses a frame on the way back to Helix while Helix reads.
LEMMA NextBack == TypeOK /\ BackInv /\ [Next]_vars => BackInv'
<1> SUFFICES ASSUME TypeOK, BackInv, [Next]_vars PROVE BackInv'
  OBVIOUS
<1>1. CASE Running /\ Task
  <2>1. CASE C2sRead
    BY <1>1, <2>1 DEF C2sRead, snoopVars, leanVars, backVars, mainVars, TypeOK, Busy,
       BackInv, Held, Running
  <2>2. CASE C2sEnds
    BY <1>1, <2>2 DEF C2sEnds, clientVars, snoopVars, leanVars, backVars, mainVars,
       TypeOK, Busy, BackInv, Held, Running
  <2>3. CASE C2sForward
    BY <1>1, <2>3 DEF C2sForward, clientVars, leanVars, backVars, mainVars, TypeOK,
       Busy, BackInv, Held, Running
  <2>4. CASE C2sRefused
    BY <1>1, <2>4 DEF C2sRefused, clientVars, snoopVars, leanVars, backVars, mainVars,
       TypeOK, Busy, BackInv, Held, Running
  <2>5. CASE SnoopObserves
    BY <1>1, <2>5 DEF SnoopObserves, clientVars, leanVars, backVars, mainVars, TypeOK,
       Busy, BackInv, Held, Running
  <2>6. CASE SnoopFires
    BY <1>1, <2>6 DEF SnoopFires, Accepted, clientVars, leanVars, backVars, mainVars,
       TypeOK, Busy, BackInv, Held, Running
  <2>7. CASE SnoopEnds
    BY <1>1, <2>7 DEF SnoopEnds, clientVars, leanVars, backVars, mainVars, TypeOK,
       Busy, BackInv, Held, Running
  <2>8. CASE LeanWriter
    BY <1>1, <2>8 DEF LeanWriter, clientVars, snoopVars, backVars, mainVars, TypeOK,
       Busy, BackInv, Held, Running
  <2>9. CASE LeanWriterFails
    BY <1>1, <2>9 DEF LeanWriterFails, clientVars, snoopVars, leanVars, backVars,
       mainVars, TypeOK, Busy, BackInv, Held, Running
  <2>10. CASE LeanWriterEnds
    BY <1>1, <2>10 DEF LeanWriterEnds, clientVars, snoopVars, leanVars, backVars,
       mainVars, TypeOK, Busy, BackInv, Held, Running
  <2>11. CASE S2cRead
    BY <1>1, <2>11 DEF S2cRead, clientVars, snoopVars, leanVars, mainVars, TypeOK,
       Busy, BackInv, Held, Running
  <2>12. CASE S2cEnds
    BY <1>1, <2>12 DEF S2cEnds, clientVars, snoopVars, leanVars, mainVars, TypeOK,
       Busy, BackInv, Held, Running
  <2>13. CASE S2cForward
    BY <1>1, <2>13 DEF S2cForward, clientVars, snoopVars, leanVars, mainVars, TypeOK,
       Busy, BackInv, Held, Running
  <2>14. CASE S2cRefused
    BY <1>1, <2>14 DEF S2cRefused, clientVars, snoopVars, leanVars, mainVars, TypeOK,
       Busy, BackInv, Held, Running
  <2>15. CASE HelixWriter
    BY <1>1, <2>15 DEF HelixWriter, clientVars, snoopVars, leanVars, mainVars, TypeOK,
       Busy, BackInv, Held, Running
  <2>16. CASE HelixWriterFails
    BY <1>1, <2>16 DEF HelixWriterFails, clientVars, snoopVars, leanVars, mainVars,
       TypeOK, Busy, BackInv, Held, Running
  <2>17. CASE HelixWriterEnds
    BY <1>1, <2>17 DEF HelixWriterEnds, clientVars, snoopVars, leanVars, mainVars,
       TypeOK, Busy, BackInv, Held, Running
  <2> QED
    BY <1>1, <2>1, <2>2, <2>3, <2>4, <2>5, <2>6, <2>7, <2>8, <2>9, <2>10, <2>11,
       <2>12, <2>13, <2>14, <2>15, <2>16, <2>17 DEF Task
<1>2. CASE Run
  <2>1. CASE WaitFirst
    BY <2>1 DEF WaitFirst, clientVars, snoopVars, leanVars, backVars, TypeOK,
       Busy, BackInv, Held, Running
  <2>2. CASE ReapExited
    BY <2>2 DEF ReapExited, AfterReap, DrainFrom, clientVars, snoopVars,
       leanVars, backVars, TypeOK, Busy, BackInv, Held, Running
  <2>3. CASE ReapKills
    BY <2>3 DEF ReapKills, AfterReap, DrainFrom, clientVars, snoopVars,
       backVars, TypeOK, Busy, BackInv, Held, Running
  <2>4. CASE JoinS2c
    BY <2>4 DEF JoinS2c, DrainFrom, clientVars, leanVars, backVars, TypeOK,
       Busy, BackInv, Held, Running
  <2>5. CASE DrainLean
    BY <2>5 DEF DrainLean, clientVars, snoopVars, leanVars, backVars, TypeOK,
       Busy, BackInv, Held, Running
  <2>6. CASE DrainHelix
    BY <2>6 DEF DrainHelix, clientVars, snoopVars, leanVars, backVars, TypeOK,
       Busy, BackInv, Held, Running
  <2>7. CASE Spawn
    BY <2>7 DEF Spawn, clientVars, snoopVars, backVars,
       TypeOK, Busy, BackInv, Held, Running, Running
  <2>8. CASE SpawnFails
    BY <2>8 DEF SpawnFails, clientVars, snoopVars, leanVars, backVars,
       TypeOK, Busy, BackInv, Held, Running, Running
  <2>9. CASE Shutdown
    BY <2>9 DEF Shutdown, clientVars, snoopVars, leanVars, backVars,
       TypeOK, Busy, BackInv, Held, Running, Running
  <2> QED
    BY <1>2, <2>1, <2>2, <2>3, <2>4, <2>5, <2>6, <2>7, <2>8, <2>9 DEF Run
<1>3. CASE Environment
  <2>1. CASE HelixSpeaks
    BY <2>1 DEF HelixSpeaks, snoopVars, leanVars, backVars, mainVars, TypeOK,
       Busy, BackInv, Held, Running
  <2>2. ASSUME NEW reads \in BOOLEAN, HelixCloses(reads) PROVE BackInv'
    BY <2>2 DEF HelixCloses, snoopVars, leanVars, backVars, mainVars, TypeOK,
       Busy, BackInv, Held, Running
  <2>3. CASE LeanReads
    BY <2>3 DEF LeanReads, clientVars, snoopVars, backVars, mainVars, TypeOK,
       Busy, BackInv, Held, Running
  <2>4. CASE LeanSpeaks
    BY <2>4 DEF LeanSpeaks, clientVars, snoopVars, mainVars, TypeOK, Busy,
       BackInv, Held, Running
  <2>5. CASE LeanGarbles
    BY <2>5 DEF LeanGarbles, clientVars, snoopVars, backVars, mainVars, TypeOK,
       Busy, BackInv, Held, Running
  <2>6. ASSUME NEW how \in {"ended", "left"}, LeanStops(how) PROVE BackInv'
    BY <2>6 DEF LeanStops, clientVars, snoopVars, backVars, mainVars, TypeOK,
       Busy, BackInv, Held, Running
  <2>7. CASE ShutdownSignal
    BY <2>7 DEF ShutdownSignal, clientVars, snoopVars, leanVars, backVars,
       TypeOK, Busy, BackInv, Held, Running
  <2> QED
    BY <1>3, <2>1, <2>2, <2>3, <2>4, <2>5, <2>6, <2>7 DEF Environment
<1>4. CASE UNCHANGED vars
  BY <1>4 DEF vars, clientVars, snoopVars, leanVars, backVars, mainVars, TypeOK,
     Busy, BackInv, Held, Running
<1> QED
  BY <1>1, <1>2, <1>3, <1>4 DEF Next

\* When the proxy exits Helix has all that Lean wrote (run.rs, join_s2c and
\* drain_writers).
THEOREM KeepsLeansOutput == Spec => []NothingOfLeanLost
<1>1. Init => BackInv
  BY DEF Init, BackInv, Running, Held
<1>2. TypeOK /\ BackInv => NothingOfLeanLost
  BY DEF TypeOK, BackInv, NothingOfLeanLost, Held
<1> QED
  BY <1>1, <1>2, NextBack, TypeCorrect, PTL DEF Spec

\* No step loses a frame on the way to Lean while it is up and no signal came.
LEMMA NextThere == TypeOK /\ BackInv /\ ThereInv /\ [Next]_vars => ThereInv'
<1> SUFFICES ASSUME TypeOK, BackInv, ThereInv, [Next]_vars PROVE ThereInv'
  OBVIOUS
<1>1. CASE Running /\ Task
  <2>1. CASE C2sRead
    BY <1>1, <2>1 DEF C2sRead, snoopVars, leanVars, backVars, mainVars, TypeOK, Busy,
       BackInv, ThereInv, Held, Running
  <2>2. CASE C2sEnds
    BY <1>1, <2>2 DEF C2sEnds, clientVars, snoopVars, leanVars, backVars, mainVars,
       TypeOK, Busy, BackInv, ThereInv, Held, Running
  <2>3. CASE C2sForward
    BY <1>1, <2>3 DEF C2sForward, clientVars, leanVars, backVars, mainVars, TypeOK,
       Busy, BackInv, ThereInv, Held, Running
  <2>4. CASE C2sRefused
    BY <1>1, <2>4 DEF C2sRefused, clientVars, snoopVars, leanVars, backVars, mainVars,
       TypeOK, Busy, BackInv, ThereInv, Held, Running
  <2>5. CASE SnoopObserves
    BY <1>1, <2>5 DEF SnoopObserves, clientVars, leanVars, backVars, mainVars, TypeOK,
       Busy, BackInv, ThereInv, Held, Running
  <2>6. CASE SnoopFires
    BY <1>1, <2>6 DEF SnoopFires, Accepted, clientVars, leanVars, backVars, mainVars,
       TypeOK, Busy, BackInv, ThereInv, Held, Running
  <2>7. CASE SnoopEnds
    BY <1>1, <2>7 DEF SnoopEnds, clientVars, leanVars, backVars, mainVars, TypeOK,
       Busy, BackInv, ThereInv, Held, Running
  <2>8. CASE LeanWriter
    BY <1>1, <2>8 DEF LeanWriter, clientVars, snoopVars, backVars, mainVars, TypeOK,
       Busy, BackInv, ThereInv, Held, Running
  <2>9. CASE LeanWriterFails
    BY <1>1, <2>9 DEF LeanWriterFails, clientVars, snoopVars, leanVars, backVars,
       mainVars, TypeOK, Busy, BackInv, ThereInv, Held, Running
  <2>10. CASE LeanWriterEnds
    BY <1>1, <2>10 DEF LeanWriterEnds, clientVars, snoopVars, leanVars, backVars,
       mainVars, TypeOK, Busy, BackInv, ThereInv, Held, Running
  <2>11. CASE S2cRead
    BY <1>1, <2>11 DEF S2cRead, clientVars, snoopVars, leanVars, mainVars, TypeOK,
       Busy, BackInv, ThereInv, Held, Running
  <2>12. CASE S2cEnds
    BY <1>1, <2>12 DEF S2cEnds, clientVars, snoopVars, leanVars, mainVars, TypeOK,
       Busy, BackInv, ThereInv, Held, Running
  <2>13. CASE S2cForward
    BY <1>1, <2>13 DEF S2cForward, clientVars, snoopVars, leanVars, mainVars, TypeOK,
       Busy, BackInv, ThereInv, Held, Running
  <2>14. CASE S2cRefused
    BY <1>1, <2>14 DEF S2cRefused, clientVars, snoopVars, leanVars, mainVars, TypeOK,
       Busy, BackInv, ThereInv, Held, Running
  <2>15. CASE HelixWriter
    BY <1>1, <2>15 DEF HelixWriter, clientVars, snoopVars, leanVars, mainVars, TypeOK,
       Busy, BackInv, ThereInv, Held, Running
  <2>16. CASE HelixWriterFails
    BY <1>1, <2>16 DEF HelixWriterFails, clientVars, snoopVars, leanVars, mainVars,
       TypeOK, Busy, BackInv, ThereInv, Held, Running
  <2>17. CASE HelixWriterEnds
    BY <1>1, <2>17 DEF HelixWriterEnds, clientVars, snoopVars, leanVars, mainVars,
       TypeOK, Busy, BackInv, ThereInv, Held, Running
  <2> QED
    BY <1>1, <2>1, <2>2, <2>3, <2>4, <2>5, <2>6, <2>7, <2>8, <2>9, <2>10, <2>11,
       <2>12, <2>13, <2>14, <2>15, <2>16, <2>17 DEF Task
<1>2. CASE Run
  <2>1. CASE WaitFirst
    BY <2>1 DEF WaitFirst, clientVars, snoopVars, leanVars, backVars, TypeOK,
       Busy, BackInv, ThereInv, Held, Running
  <2>2. CASE ReapExited
    BY <2>2 DEF ReapExited, AfterReap, DrainFrom, clientVars, snoopVars,
       leanVars, backVars, TypeOK, Busy, BackInv, ThereInv, Held, Running
  <2>3. CASE ReapKills
    BY <2>3 DEF ReapKills, AfterReap, DrainFrom, clientVars, snoopVars,
       backVars, TypeOK, Busy, BackInv, ThereInv, Held, Running
  <2>4. CASE JoinS2c
    BY <2>4 DEF JoinS2c, DrainFrom, clientVars, leanVars, backVars, TypeOK,
       Busy, BackInv, ThereInv, Held, Running
  <2>5. CASE DrainLean
    BY <2>5 DEF DrainLean, clientVars, snoopVars, leanVars, backVars, TypeOK,
       Busy, BackInv, ThereInv, Held, Running
  <2>6. CASE DrainHelix
    BY <2>6 DEF DrainHelix, clientVars, snoopVars, leanVars, backVars, TypeOK,
       Busy, BackInv, ThereInv, Held, Running
  <2>7. CASE Spawn
    BY <2>7 DEF Spawn, clientVars, snoopVars, backVars,
       TypeOK, Busy, BackInv, ThereInv, Held, Running
  <2>8. CASE SpawnFails
    BY <2>8 DEF SpawnFails, clientVars, snoopVars, leanVars, backVars,
       TypeOK, Busy, BackInv, ThereInv, Held, Running
  <2>9. CASE Shutdown
    BY <2>9 DEF Shutdown, clientVars, snoopVars, leanVars, backVars,
       TypeOK, Busy, BackInv, ThereInv, Held, Running
  <2> QED
    BY <1>2, <2>1, <2>2, <2>3, <2>4, <2>5, <2>6, <2>7, <2>8, <2>9 DEF Run
<1>3. CASE Environment
  <2>1. CASE HelixSpeaks
    BY <2>1 DEF HelixSpeaks, snoopVars, leanVars, backVars, mainVars, TypeOK,
       Busy, BackInv, ThereInv, Held, Running
  <2>2. ASSUME NEW reads \in BOOLEAN, HelixCloses(reads) PROVE ThereInv'
    BY <2>2 DEF HelixCloses, snoopVars, leanVars, backVars, mainVars, TypeOK,
       Busy, BackInv, ThereInv, Held, Running
  <2>3. CASE LeanReads
    BY <2>3 DEF LeanReads, clientVars, snoopVars, backVars, mainVars, TypeOK,
       Busy, BackInv, ThereInv, Held, Running
  <2>4. CASE LeanSpeaks
    BY <2>4 DEF LeanSpeaks, clientVars, snoopVars, mainVars, TypeOK, Busy,
       BackInv, ThereInv, Held, Running
  <2>5. CASE LeanGarbles
    BY <2>5 DEF LeanGarbles, clientVars, snoopVars, backVars, mainVars, TypeOK,
       Busy, BackInv, ThereInv, Held, Running
  <2>6. ASSUME NEW how \in {"ended", "left"}, LeanStops(how) PROVE ThereInv'
    BY <2>6 DEF LeanStops, clientVars, snoopVars, backVars, mainVars, TypeOK,
       Busy, BackInv, ThereInv, Held, Running
  <2>7. CASE ShutdownSignal
    BY <2>7 DEF ShutdownSignal, clientVars, snoopVars, leanVars, backVars,
       TypeOK, Busy, BackInv, ThereInv, Held, Running
  <2> QED
    BY <1>3, <2>1, <2>2, <2>3, <2>4, <2>5, <2>6, <2>7 DEF Environment
<1>4. CASE UNCHANGED vars
  BY <1>4 DEF vars, clientVars, snoopVars, leanVars, backVars, mainVars, TypeOK,
     Busy, BackInv, ThereInv, Held, Running
<1> QED
  BY <1>1, <1>2, <1>3, <1>4 DEF Next

\* A Lean that reads its input to the end has read everything (forward.rs,
\* writer: the half-close comes after the last frame).
THEOREM EndsComplete == Spec => []EndIsComplete
<1>1. Init => ThereInv /\ BackInv
  BY DEF Init, ThereInv, BackInv, Running, Held
<1>2. ThereInv => EndIsComplete
  BY DEF ThereInv, EndIsComplete
<1> QED
  BY <1>1, <1>2, NextBack, NextThere, TypeCorrect, PTL DEF Spec

\* While Lean is silent pump_c2s only ends by Helix, a signal or run's abort.
LEMMA NextSilent == TypeOK /\ BackInv /\ SilentInv /\ [Next]_vars => SilentInv'
<1> SUFFICES ASSUME TypeOK, BackInv, SilentInv, [Next]_vars PROVE SilentInv'
  OBVIOUS
<1>1. CASE Running /\ Task
  <2>1. CASE C2sRead
    BY <1>1, <2>1 DEF C2sRead, snoopVars, leanVars, backVars, mainVars, TypeOK, Busy,
       BackInv, SilentInv, Held, Running
  <2>2. CASE C2sEnds
    BY <1>1, <2>2 DEF C2sEnds, clientVars, snoopVars, leanVars, backVars, mainVars,
       TypeOK, Busy, BackInv, SilentInv, Held, Running
  <2>3. CASE C2sForward
    BY <1>1, <2>3 DEF C2sForward, clientVars, leanVars, backVars, mainVars, TypeOK,
       Busy, BackInv, SilentInv, Held, Running
  <2>4. CASE C2sRefused
    BY <1>1, <2>4 DEF C2sRefused, clientVars, snoopVars, leanVars, backVars, mainVars,
       TypeOK, Busy, BackInv, SilentInv, Held, Running
  <2>5. CASE SnoopObserves
    BY <1>1, <2>5 DEF SnoopObserves, clientVars, leanVars, backVars, mainVars, TypeOK,
       Busy, BackInv, SilentInv, Held, Running
  <2>6. CASE SnoopFires
    BY <1>1, <2>6 DEF SnoopFires, Accepted, clientVars, leanVars, backVars, mainVars,
       TypeOK, Busy, BackInv, SilentInv, Held, Running
  <2>7. CASE SnoopEnds
    BY <1>1, <2>7 DEF SnoopEnds, clientVars, leanVars, backVars, mainVars, TypeOK,
       Busy, BackInv, SilentInv, Held, Running
  <2>8. CASE LeanWriter
    BY <1>1, <2>8 DEF LeanWriter, clientVars, snoopVars, backVars, mainVars, TypeOK,
       Busy, BackInv, SilentInv, Held, Running
  <2>9. CASE LeanWriterFails
    BY <1>1, <2>9 DEF LeanWriterFails, clientVars, snoopVars, leanVars, backVars,
       mainVars, TypeOK, Busy, BackInv, SilentInv, Held, Running
  <2>10. CASE LeanWriterEnds
    BY <1>1, <2>10 DEF LeanWriterEnds, clientVars, snoopVars, leanVars, backVars,
       mainVars, TypeOK, Busy, BackInv, SilentInv, Held, Running
  <2>11. CASE S2cRead
    BY <1>1, <2>11 DEF S2cRead, clientVars, snoopVars, leanVars, mainVars, TypeOK,
       Busy, BackInv, SilentInv, Held, Running
  <2>12. CASE S2cEnds
    BY <1>1, <2>12 DEF S2cEnds, clientVars, snoopVars, leanVars, mainVars, TypeOK,
       Busy, BackInv, SilentInv, Held, Running
  <2>13. CASE S2cForward
    BY <1>1, <2>13 DEF S2cForward, clientVars, snoopVars, leanVars, mainVars, TypeOK,
       Busy, BackInv, SilentInv, Held, Running
  <2>14. CASE S2cRefused
    BY <1>1, <2>14 DEF S2cRefused, clientVars, snoopVars, leanVars, mainVars, TypeOK,
       Busy, BackInv, SilentInv, Held, Running
  <2>15. CASE HelixWriter
    BY <1>1, <2>15 DEF HelixWriter, clientVars, snoopVars, leanVars, mainVars, TypeOK,
       Busy, BackInv, SilentInv, Held, Running
  <2>16. CASE HelixWriterFails
    BY <1>1, <2>16 DEF HelixWriterFails, clientVars, snoopVars, leanVars, mainVars,
       TypeOK, Busy, BackInv, SilentInv, Held, Running
  <2>17. CASE HelixWriterEnds
    BY <1>1, <2>17 DEF HelixWriterEnds, clientVars, snoopVars, leanVars, mainVars,
       TypeOK, Busy, BackInv, SilentInv, Held, Running
  <2> QED
    BY <1>1, <2>1, <2>2, <2>3, <2>4, <2>5, <2>6, <2>7, <2>8, <2>9, <2>10, <2>11,
       <2>12, <2>13, <2>14, <2>15, <2>16, <2>17 DEF Task
<1>2. CASE Run
  <2>1. CASE WaitFirst
    BY <2>1 DEF WaitFirst, clientVars, snoopVars, leanVars, backVars, TypeOK,
       Busy, BackInv, SilentInv, Held, Running
  <2>2. CASE ReapExited
    BY <2>2 DEF ReapExited, AfterReap, DrainFrom, clientVars, snoopVars,
       leanVars, backVars, TypeOK, Busy, BackInv, SilentInv, Held, Running
  <2>3. CASE ReapKills
    BY <2>3 DEF ReapKills, AfterReap, DrainFrom, clientVars, snoopVars,
       backVars, TypeOK, Busy, BackInv, SilentInv, Held, Running
  <2>4. CASE JoinS2c
    BY <2>4 DEF JoinS2c, DrainFrom, clientVars, leanVars, backVars, TypeOK,
       Busy, BackInv, SilentInv, Held, Running
  <2>5. CASE DrainLean
    BY <2>5 DEF DrainLean, clientVars, snoopVars, leanVars, backVars, TypeOK,
       Busy, BackInv, SilentInv, Held, Running
  <2>6. CASE DrainHelix
    BY <2>6 DEF DrainHelix, clientVars, snoopVars, leanVars, backVars, TypeOK,
       Busy, BackInv, SilentInv, Held, Running
  <2>7. CASE Spawn
    BY <2>7 DEF Spawn, clientVars, snoopVars, backVars,
       TypeOK, Busy, BackInv, SilentInv, Held, Running
  <2>8. CASE SpawnFails
    BY <2>8 DEF SpawnFails, clientVars, snoopVars, leanVars, backVars,
       TypeOK, Busy, BackInv, SilentInv, Held, Running
  <2>9. CASE Shutdown
    BY <2>9 DEF Shutdown, clientVars, snoopVars, leanVars, backVars,
       TypeOK, Busy, BackInv, SilentInv, Held, Running
  <2> QED
    BY <1>2, <2>1, <2>2, <2>3, <2>4, <2>5, <2>6, <2>7, <2>8, <2>9 DEF Run
<1>3. CASE Environment
  <2>1. CASE HelixSpeaks
    BY <2>1 DEF HelixSpeaks, snoopVars, leanVars, backVars, mainVars, TypeOK,
       Busy, BackInv, SilentInv, Held, Running
  <2>2. ASSUME NEW reads \in BOOLEAN, HelixCloses(reads) PROVE SilentInv'
    BY <2>2 DEF HelixCloses, snoopVars, leanVars, backVars, mainVars, TypeOK,
       Busy, BackInv, SilentInv, Held, Running
  <2>3. CASE LeanReads
    BY <2>3 DEF LeanReads, clientVars, snoopVars, backVars, mainVars, TypeOK,
       Busy, BackInv, SilentInv, Held, Running
  <2>4. CASE LeanSpeaks
    BY <2>4 DEF LeanSpeaks, clientVars, snoopVars, mainVars, TypeOK, Busy,
       BackInv, SilentInv, Held, Running
  <2>5. CASE LeanGarbles
    BY <2>5 DEF LeanGarbles, clientVars, snoopVars, backVars, mainVars, TypeOK,
       Busy, BackInv, SilentInv, Held, Running
  <2>6. ASSUME NEW how \in {"ended", "left"}, LeanStops(how) PROVE SilentInv'
    BY <2>6 DEF LeanStops, clientVars, snoopVars, backVars, mainVars, TypeOK,
       Busy, BackInv, SilentInv, Held, Running
  <2>7. CASE ShutdownSignal
    BY <2>7 DEF ShutdownSignal, clientVars, snoopVars, leanVars, backVars,
       TypeOK, Busy, BackInv, SilentInv, Held, Running
  <2> QED
    BY <1>3, <2>1, <2>2, <2>3, <2>4, <2>5, <2>6, <2>7 DEF Environment
<1>4. CASE UNCHANGED vars
  BY <1>4 DEF vars, clientVars, snoopVars, leanVars, backVars, mainVars, TypeOK,
     Busy, BackInv, SilentInv, Held, Running
<1> QED
  BY <1>1, <1>2, <1>3, <1>4 DEF Next

\* A start-up failure is diagnosed (run.rs, report_startup_failure).
THEOREM DiagnosesStartup == Spec => []StartupFailureDiagnosed
<1>1. Init => SilentInv /\ BackInv
  BY DEF Init, SilentInv, BackInv, Running, Held
<1>2. SilentInv => StartupFailureDiagnosed
  BY DEF SilentInv, StartupFailureDiagnosed
<1> QED
  BY <1>1, <1>2, NextSilent, NextBack, TypeCorrect, PTL DEF Spec

\* No sender that was dropped comes back, and none is forgotten.
LEMMA NextSenders == TypeOK /\ SendersInv /\ [Next]_vars => SendersInv'
<1> SUFFICES ASSUME TypeOK, SendersInv, [Next]_vars PROVE SendersInv'
  OBVIOUS
<1>1. CASE Running /\ Task
  <2>1. CASE C2sRead
    BY <1>1, <2>1 DEF C2sRead, snoopVars, leanVars, backVars, mainVars, TypeOK, Busy,
       SendersInv, SendersDropped, Running
  <2>2. CASE C2sEnds
    BY <1>1, <2>2 DEF C2sEnds, clientVars, snoopVars, leanVars, backVars, mainVars,
       TypeOK, Busy, SendersInv, SendersDropped, Running
  <2>3. CASE C2sForward
    BY <1>1, <2>3 DEF C2sForward, clientVars, leanVars, backVars, mainVars, TypeOK,
       Busy, SendersInv, SendersDropped, Running
  <2>4. CASE C2sRefused
    BY <1>1, <2>4 DEF C2sRefused, clientVars, snoopVars, leanVars, backVars, mainVars,
       TypeOK, Busy, SendersInv, SendersDropped, Running
  <2>5. CASE SnoopObserves
    BY <1>1, <2>5 DEF SnoopObserves, clientVars, leanVars, backVars, mainVars, TypeOK,
       Busy, SendersInv, SendersDropped, Running
  <2>6. CASE SnoopFires
    BY <1>1, <2>6 DEF SnoopFires, Accepted, clientVars, leanVars, backVars, mainVars,
       TypeOK, Busy, SendersInv, SendersDropped, Running
  <2>7. CASE SnoopEnds
    BY <1>1, <2>7 DEF SnoopEnds, clientVars, leanVars, backVars, mainVars, TypeOK,
       Busy, SendersInv, SendersDropped, Running
  <2>8. CASE LeanWriter
    BY <1>1, <2>8 DEF LeanWriter, clientVars, snoopVars, backVars, mainVars, TypeOK,
       Busy, SendersInv, SendersDropped, Running
  <2>9. CASE LeanWriterFails
    BY <1>1, <2>9 DEF LeanWriterFails, clientVars, snoopVars, leanVars, backVars,
       mainVars, TypeOK, Busy, SendersInv, SendersDropped, Running
  <2>10. CASE LeanWriterEnds
    BY <1>1, <2>10 DEF LeanWriterEnds, clientVars, snoopVars, leanVars, backVars,
       mainVars, TypeOK, Busy, SendersInv, SendersDropped, Running
  <2>11. CASE S2cRead
    BY <1>1, <2>11 DEF S2cRead, clientVars, snoopVars, leanVars, mainVars, TypeOK,
       Busy, SendersInv, SendersDropped, Running
  <2>12. CASE S2cEnds
    BY <1>1, <2>12 DEF S2cEnds, clientVars, snoopVars, leanVars, mainVars, TypeOK,
       Busy, SendersInv, SendersDropped, Running
  <2>13. CASE S2cForward
    BY <1>1, <2>13 DEF S2cForward, clientVars, snoopVars, leanVars, mainVars, TypeOK,
       Busy, SendersInv, SendersDropped, Running
  <2>14. CASE S2cRefused
    BY <1>1, <2>14 DEF S2cRefused, clientVars, snoopVars, leanVars, mainVars, TypeOK,
       Busy, SendersInv, SendersDropped, Running
  <2>15. CASE HelixWriter
    BY <1>1, <2>15 DEF HelixWriter, clientVars, snoopVars, leanVars, mainVars, TypeOK,
       Busy, SendersInv, SendersDropped, Running
  <2>16. CASE HelixWriterFails
    BY <1>1, <2>16 DEF HelixWriterFails, clientVars, snoopVars, leanVars, mainVars,
       TypeOK, Busy, SendersInv, SendersDropped, Running
  <2>17. CASE HelixWriterEnds
    BY <1>1, <2>17 DEF HelixWriterEnds, clientVars, snoopVars, leanVars, mainVars,
       TypeOK, Busy, SendersInv, SendersDropped, Running
  <2> QED
    BY <1>1, <2>1, <2>2, <2>3, <2>4, <2>5, <2>6, <2>7, <2>8, <2>9, <2>10, <2>11,
       <2>12, <2>13, <2>14, <2>15, <2>16, <2>17 DEF Task
<1>2. CASE Run
  <2>1. CASE WaitFirst
    BY <2>1 DEF WaitFirst, clientVars, snoopVars, leanVars, backVars, TypeOK,
       Busy, SendersInv, SendersDropped, Running
  <2>2. CASE ReapExited
    BY <2>2 DEF ReapExited, AfterReap, DrainFrom, clientVars, snoopVars,
       leanVars, backVars, TypeOK, Busy, SendersInv, SendersDropped, Running
  <2>3. CASE ReapKills
    BY <2>3 DEF ReapKills, AfterReap, DrainFrom, clientVars, snoopVars,
       backVars, TypeOK, Busy, SendersInv, SendersDropped, Running
  <2>4. CASE JoinS2c
    BY <2>4 DEF JoinS2c, DrainFrom, clientVars, leanVars, backVars, TypeOK,
       Busy, SendersInv, SendersDropped, Running
  <2>5. CASE DrainLean
    BY <2>5 DEF DrainLean, clientVars, snoopVars, leanVars, backVars, TypeOK,
       Busy, SendersInv, SendersDropped, Running
  <2>6. CASE DrainHelix
    BY <2>6 DEF DrainHelix, clientVars, snoopVars, leanVars, backVars, TypeOK,
       Busy, SendersInv, SendersDropped, Running
  <2>7. CASE Spawn
    BY <2>7 DEF Spawn, clientVars, snoopVars, backVars,
       TypeOK, Busy, SendersInv, SendersDropped, Running
  <2>8. CASE SpawnFails
    BY <2>8 DEF SpawnFails, clientVars, snoopVars, leanVars, backVars,
       TypeOK, Busy, SendersInv, SendersDropped, Running
  <2>9. CASE Shutdown
    BY <2>9 DEF Shutdown, clientVars, snoopVars, leanVars, backVars,
       TypeOK, Busy, SendersInv, SendersDropped, Running
  <2> QED
    BY <1>2, <2>1, <2>2, <2>3, <2>4, <2>5, <2>6, <2>7, <2>8, <2>9 DEF Run
<1>3. CASE Environment
  <2>1. CASE HelixSpeaks
    BY <2>1 DEF HelixSpeaks, snoopVars, leanVars, backVars, mainVars, TypeOK,
       Busy, SendersInv, SendersDropped, Running
  <2>2. ASSUME NEW reads \in BOOLEAN, HelixCloses(reads) PROVE SendersInv'
    BY <2>2 DEF HelixCloses, snoopVars, leanVars, backVars, mainVars, TypeOK,
       Busy, SendersInv, SendersDropped, Running
  <2>3. CASE LeanReads
    BY <2>3 DEF LeanReads, clientVars, snoopVars, backVars, mainVars, TypeOK,
       Busy, SendersInv, SendersDropped, Running
  <2>4. CASE LeanSpeaks
    BY <2>4 DEF LeanSpeaks, clientVars, snoopVars, mainVars, TypeOK, Busy,
       SendersInv, SendersDropped, Running
  <2>5. CASE LeanGarbles
    BY <2>5 DEF LeanGarbles, clientVars, snoopVars, backVars, mainVars, TypeOK,
       Busy, SendersInv, SendersDropped, Running
  <2>6. ASSUME NEW how \in {"ended", "left"}, LeanStops(how) PROVE SendersInv'
    BY <2>6 DEF LeanStops, clientVars, snoopVars, backVars, mainVars, TypeOK,
       Busy, SendersInv, SendersDropped, Running
  <2>7. CASE ShutdownSignal
    BY <2>7 DEF ShutdownSignal, clientVars, snoopVars, leanVars, backVars,
       TypeOK, Busy, SendersInv, SendersDropped, Running
  <2> QED
    BY <1>3, <2>1, <2>2, <2>3, <2>4, <2>5, <2>6, <2>7 DEF Environment
<1>4. CASE UNCHANGED vars
  BY <1>4 DEF vars, clientVars, snoopVars, leanVars, backVars, mainVars, TypeOK,
     Busy, SendersInv, SendersDropped, Running
<1> QED
  BY <1>1, <1>2, <1>3, <1>4 DEF Next

\* After the reap every wait of run can end (run.rs, abort_c2s and the abort of
\* the snoop task in drain_writers).
THEOREM DropsTheSenders == Spec => []SendersDropped
<1>1. Init => SendersInv
  BY DEF Init, SendersInv, SendersDropped
<1>2. SendersInv => SendersDropped
  BY DEF SendersInv
<1> QED
  BY <1>1, <1>2, NextSenders, TypeCorrect, PTL DEF Spec
============================================================================
