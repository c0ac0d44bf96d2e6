---------------------------- MODULE SocketServer ----------------------------
(***************************************************************************)
(* Several proxies on one workspace socket path (lhv-proxy/src/server.rs). *)
(* A step is one system call on the path: within a process nothing awaits  *)
(* between them, but other processes run.  A socket file is named by the   *)
(* proxy that bound it, as by its inode: a process removes its file while  *)
(* its listener still holds the inode, so the number is not in use again.  *)
(***************************************************************************)
EXTENDS Naturals

CONSTANTS Proxy,      \* processes
          Leftover,   \* a file no process of these has bound
          None        \* no file
ASSUME PathAssumption == None # Leftover /\ {None, Leftover} \cap Proxy = {}

VARIABLES path,       \* the file at the path
          pc,         \* of each process: where serve is
          guard,      \* SocketCleanup.inode
          newest,     \* history: the last to bind
          disturbed   \* history: two were at the path at a time, or one was killed there

serverVars == <<path, pc, guard, newest, disturbed>>

File == Proxy \cup {Leftover, None}

ServerInit ==
  /\ path \in {None, Leftover}
  /\ pc = [p \in Proxy |-> "start"]
  /\ guard = [p \in Proxy |-> None]
  /\ newest = None
  /\ disturbed = FALSE

\* Between two system calls of a start or an end.
Busy(p) == pc[p] \in {"remove", "rebind", "stat", "unlink"}

\* The step of p among the files, and where it leads.
Step(p, from, to) ==
  /\ pc[p] = from
  /\ pc' = [pc EXCEPT ![p] = to]
  /\ disturbed' = (disturbed \/ \E q \in Proxy \ {p} : Busy(q))

\* reclaim_and_bind: the first bind, ...
Bind(p) ==
  \/ /\ path = None
     /\ Step(p, "start", "stat")
     /\ path' = p /\ newest' = p
     /\ UNCHANGED guard
  \/ /\ path # None
     /\ Step(p, "start", "remove")
     /\ UNCHANGED <<path, guard, newest>>

\* ... the removal of whatever is there, ...
RemoveOld(p) ==
  /\ Step(p, "remove", "rebind")
  /\ path' = None
  /\ UNCHANGED <<guard, newest>>

\* A slip: the guard is there before the bind, and cleans up after a failure.
RebindCleansUp(p) ==
  \/ /\ path = None
     /\ Step(p, "rebind", "stat")
     /\ path' = p /\ newest' = p
     /\ UNCHANGED guard
  \/ /\ path # None
     /\ Step(p, "rebind", "failed")
     /\ path' = None
     /\ UNCHANGED <<guard, newest>>

\* ... and the second bind: serve fails when another was faster.
Rebind(p) ==
  \/ /\ path = None
     /\ Step(p, "rebind", "stat")
     /\ path' = p /\ newest' = p
     /\ UNCHANGED guard
  \/ /\ path # None
     /\ Step(p, "rebind", "failed")
     /\ UNCHANGED <<path, guard, newest>>

\* A slip: the inode is not read.
StatNothing(p) ==
  /\ Step(p, "stat", "serving")
  /\ UNCHANGED <<path, guard, newest>>

\* SocketCleanup::of, after the bind.
Stat(p) ==
  /\ Step(p, "stat", "serving")
  /\ guard' = [guard EXCEPT ![p] = path]
  /\ UNCHANGED <<path, newest>>

\* A slip: the file is removed whoever's it is.
DropUnguarded(p) ==
  /\ Step(p, "serving", "unlink")
  /\ UNCHANGED <<path, guard, newest>>

\* SocketCleanup::drop compares, ...
Drop(p) ==
  /\ Step(p, "serving", IF path = guard[p] THEN "unlink" ELSE "gone")
  /\ UNCHANGED <<path, guard, newest>>

\* ... and then removes what is there by now.
Unlink(p) ==
  /\ Step(p, "unlink", "gone")
  /\ path' = None
  /\ UNCHANGED <<guard, newest>>

\* A process may be killed anywhere: its file stays.
Crash(p) ==
  /\ pc[p] \notin {"gone", "failed", "crashed"}
  /\ pc' = [pc EXCEPT ![p] = "crashed"]
  /\ disturbed' = (disturbed \/ Busy(p))
  /\ UNCHANGED <<path, guard, newest>>

ServerNext ==
  \E p \in Proxy : \/ Bind(p) \/ RemoveOld(p) \/ Rebind(p) \/ Stat(p)
                   \/ Drop(p) \/ Unlink(p) \/ Crash(p)

ServerSpec == ServerInit /\ [][ServerNext]_serverVars
============================================================================
