--------------------------- MODULE TakeoverProofs ---------------------------
(***************************************************************************)
(* Proofs about SocketServer and Takeover, for any set of proxies.         *)
(***************************************************************************)
EXTENDS Takeover, TLAPS

----------------------------------------------------------------------------
(* What the theorems rest on. *)

Stages == {"start", "remove", "rebind", "stat", "serving", "unlink",
           "gone", "failed", "crashed"}

PathType == /\ path \in File
            /\ pc \in [Proxy -> Stages]
            /\ guard \in [Proxy -> File]
            /\ newest \in Proxy \cup {None}
            /\ disturbed \in BOOLEAN

\* As long as no two proxies were at the path at a time, each step finds the
\* path as the proxy's previous one left it, and the guard is the proxy's own
\* inode.  The newest loses the path only to one that is about to bind.
Undisturbed ==
  /\ \A p, q \in Proxy : Busy(p) /\ Busy(q) => p = q
  /\ \A p \in Proxy : pc[p] = "rebind" => path = None
  /\ \A p \in Proxy : pc[p] \in {"stat", "unlink"} => path = p
  /\ \A p \in Proxy : pc[p] \in {"serving", "unlink"} => guard[p] = p
  /\ newest # None /\ Listening(newest)
       => path = newest \/ \E q \in Proxy : pc[q] = "rebind"
  /\ path \in Proxy => Listening(path) \/ pc[path] = "crashed"
OrderlyInv == ~disturbed => Undisturbed

\* Before anyone ends, a path without a listening owner is the business of a
\* proxy that has yet to bind it, or of nobody who has started.
OnlyStarts == \A p \in Proxy : pc[p] \in {"start", "remove", "rebind", "stat", "serving", "failed"}
StartsInv ==
  OnlyStarts =>
    /\ path = None => \/ \A p \in Proxy : pc[p] = "start"
                      \/ \E p \in Proxy : pc[p] = "rebind"
    /\ path = Leftover => \A p \in Proxy : pc[p] \in {"start", "remove"}
    /\ path \in Proxy => pc[path] \in {"stat", "serving"}

ServerInv == PathType /\ OrderlyInv /\ StartsInv
----------------------------------------------------------------------------
(* The invariant is inductive. *)

LEMMA InitServer == ServerInit => ServerInv
BY PathAssumption
DEF ServerInit, ServerInv, PathType, OrderlyInv, Undisturbed, StartsInv, OnlyStarts,
    File, Stages, Busy, Listening

\* Each step keeps the types.
LEMMA StepType ==
  ASSUME PathType, NEW p \in Proxy,
         \/ Bind(p) \/ RemoveOld(p) \/ Rebind(p) \/ Stat(p) \/ Drop(p) \/ Unlink(p) \/ Crash(p)
  PROVE  PathType'
<1>1. \A from, to : Step(p, from, to) /\ to \in Stages =>
        pc' \in [Proxy -> Stages] /\ disturbed' \in BOOLEAN
  BY DEF PathType, Step
<1>2. None \in File /\ Proxy \subseteq File
  BY DEF File
<1>3. CASE Bind(p) \/ RemoveOld(p) \/ Rebind(p)
  BY <1>1, <1>2, <1>3 DEF PathType, Bind, RemoveOld, Rebind, Stages
<1>4. CASE Stat(p)
  BY <1>1, <1>2, <1>4 DEF PathType, Stat, Stages
<1>5. CASE Drop(p) \/ Unlink(p)
  BY <1>1, <1>2, <1>5 DEF PathType, Drop, Unlink, Stages
<1>6. CASE Crash(p)
  BY <1>6 DEF PathType, Crash, Stages
<1> QED
  BY <1>3, <1>4, <1>5, <1>6

\* A step that leaves the proxies undisturbed found no other between two calls.
LEMMA Alone ==
  ASSUME PathType, NEW p \in Proxy, NEW from, NEW to, Step(p, from, to), ~disturbed'
  PROVE  /\ ~disturbed /\ pc[p] = from
         /\ pc'[p] = to /\ \A q \in Proxy \ {p} : pc'[q] = pc[q] /\ ~Busy(q)
BY DEF PathType, Step

\* Each step keeps an undisturbed path in order.
LEMMA StepOrderly ==
  ASSUME PathType, OrderlyInv, NEW p \in Proxy,
         \/ Bind(p) \/ RemoveOld(p) \/ Rebind(p) \/ Stat(p) \/ Drop(p) \/ Unlink(p) \/ Crash(p)
  PROVE  OrderlyInv'
<1> SUFFICES ASSUME ~disturbed' PROVE Undisturbed'
  BY DEF OrderlyInv
<1> USE PathAssumption DEF Busy, Listening
<1>1. CASE Bind(p)
  <2>1. PICK to \in {"stat", "remove"} : Step(p, "start", to)
    BY <1>1 DEF Bind
  <2>2. /\ ~disturbed /\ pc[p] = "start" /\ pc'[p] = to
        /\ \A q \in Proxy \ {p} : pc'[q] = pc[q] /\ ~Busy(q)
    BY <2>1, Alone
  <2>3. CASE path = None /\ path' = p /\ newest' = p /\ to = "stat" /\ UNCHANGED guard
    BY <2>2, <2>3 DEF OrderlyInv, Undisturbed, PathType
  <2>4. CASE UNCHANGED <<path, guard, newest>> /\ to = "remove"
    BY <2>2, <2>4 DEF OrderlyInv, Undisturbed, PathType
  <2> QED
    BY <1>1, <2>2, <2>3, <2>4 DEF Bind, Step, PathType
<1>2. CASE RemoveOld(p)
  <2>1. /\ ~disturbed /\ pc[p] = "remove" /\ pc'[p] = "rebind"
        /\ \A q \in Proxy \ {p} : pc'[q] = pc[q] /\ ~Busy(q)
    BY <1>2, Alone DEF RemoveOld
  <2> QED
    BY <1>2, <2>1 DEF RemoveOld, OrderlyInv, Undisturbed, PathType
<1>3. CASE Rebind(p)
  <2>1. ~disturbed /\ pc[p] = "rebind"
    BY <1>3, Alone DEF Rebind
  <2>2. path = None
    BY <2>1 DEF OrderlyInv, Undisturbed
  <2>3. /\ pc'[p] = "stat" /\ \A q \in Proxy \ {p} : pc'[q] = pc[q] /\ ~Busy(q)
    BY <1>3, <2>2, Alone DEF Rebind
  <2> QED
    BY <1>3, <2>1, <2>2, <2>3 DEF Rebind, OrderlyInv, Undisturbed, PathType
<1>4. CASE Stat(p)
  <2>1. /\ ~disturbed /\ pc[p] = "stat" /\ pc'[p] = "serving"
        /\ \A q \in Proxy \ {p} : pc'[q] = pc[q] /\ ~Busy(q)
    BY <1>4, Alone DEF Stat
  <2> QED
    BY <1>4, <2>1 DEF Stat, OrderlyInv, Undisturbed, PathType
<1>5. CASE Drop(p)
  <2>1. /\ ~disturbed /\ pc[p] = "serving"
        /\ pc'[p] = IF path = guard[p] THEN "unlink" ELSE "gone"
        /\ \A q \in Proxy \ {p} : pc'[q] = pc[q] /\ ~Busy(q)
    BY <1>5, Alone DEF Drop
  <2> QED
    BY <1>5, <2>1 DEF Drop, OrderlyInv, Undisturbed, PathType
<1>6. CASE Unlink(p)
  <2>1. /\ ~disturbed /\ pc[p] = "unlink" /\ pc'[p] = "gone"
        /\ \A q \in Proxy \ {p} : pc'[q] = pc[q] /\ ~Busy(q)
    BY <1>6, Alone DEF Unlink
  <2> QED
    BY <1>6, <2>1 DEF Unlink, OrderlyInv, Undisturbed, PathType
<1>7. CASE Crash(p)
  <2>1. /\ ~disturbed /\ ~Busy(p) /\ pc'[p] = "crashed"
        /\ \A q \in Proxy \ {p} : pc'[q] = pc[q]
    BY <1>7 DEF Crash, PathType
  <2> QED
    BY <1>7, <2>1 DEF Crash, OrderlyInv, Undisturbed, PathType
<1> QED
  BY <1>1, <1>2, <1>3, <1>4, <1>5, <1>6, <1>7

\* And each keeps what is said of starts alone.
LEMMA StepStarts ==
  ASSUME PathType, StartsInv, NEW p \in Proxy,
         \/ Bind(p) \/ RemoveOld(p) \/ Rebind(p) \/ Stat(p) \/ Drop(p) \/ Unlink(p) \/ Crash(p)
  PROVE  StartsInv'
<1> SUFFICES ASSUME OnlyStarts' PROVE StartsInv'
  BY DEF StartsInv
<1> USE PathAssumption
<1>1. ~Drop(p) /\ ~Unlink(p) /\ ~Crash(p)
  BY DEF OnlyStarts, Drop, Unlink, Crash, Step, PathType
<1>2. OnlyStarts
  BY <1>1 DEF OnlyStarts, PathType, Bind, RemoveOld, Rebind, Stat, Step
<1>3. CASE Bind(p)
  BY <1>2, <1>3 DEF StartsInv, PathType, Bind, Step
<1>4. CASE RemoveOld(p)
  BY <1>2, <1>4 DEF StartsInv, PathType, RemoveOld, Step
<1>5. CASE Rebind(p)
  BY <1>2, <1>5 DEF StartsInv, PathType, Rebind, Step
<1>6. CASE Stat(p)
  BY <1>2, <1>6 DEF StartsInv, PathType, Stat, Step
<1> QED
  BY <1>1, <1>3, <1>4, <1>5, <1>6

\* The viewer's steps leave the path alone.
LEMMA NextServer == ServerInv /\ [Next]_vars => ServerInv'
<1> SUFFICES ASSUME ServerInv, [Next]_vars PROVE ServerInv'
  OBVIOUS
<1>1. CASE ServerNext
  BY <1>1, StepType, StepOrderly, StepStarts DEF ServerNext, ServerInv
<1>2. CASE UNCHANGED serverVars
  BY <1>2 DEF serverVars, ServerInv, PathType, OrderlyInv, Undisturbed, StartsInv, OnlyStarts,
              Busy, Listening
<1> QED
  BY <1>1, <1>2 DEF Next, vars, Connect, Retry, StreamEnds

LEMMA ServerAlways == Spec => []ServerInv
<1>1. Init => ServerInv
  BY InitServer DEF Init
<1> QED
  BY <1>1, NextServer, PTL DEF Spec

----------------------------------------------------------------------------
(* The theorems. *)

\* The newest proxy has the path for as long as it serves (server.rs,
\* SocketCleanup), whatever the displaced ones do when they end.
THEOREM NewestKeepsThePath == Spec => []NewestServes
<1>1. ServerInv => NewestServes
  BY DEF ServerInv, PathType, OrderlyInv, Undisturbed, NewestServes, Busy, Listening
<1> QED
  BY <1>1, ServerAlways, PTL

\* Proxies that ended in order have left no socket file (server.rs, drop).
THEOREM NothingLeftBehind == Spec => []LeavesNoFile
<1>1. ServerInv => LeavesNoFile
  BY DEF ServerInv, OrderlyInv, Undisturbed, LeavesNoFile, Listening
<1> QED
  BY <1>1, ServerAlways, PTL

\* Overlapping starts leave the path to a proxy that serves (server.rs,
\* reclaim_and_bind).
THEOREM SomeoneServes == Spec => []StartsLeaveAServer
<1>1. ServerInv => StartsLeaveAServer
  BY DEF ServerInv, PathType, File, StartsInv, OnlyStarts, StartsLeaveAServer
<1> QED
  BY <1>1, ServerAlways, PTL
============================================================================
