------------------------------ MODULE Takeover ------------------------------
(***************************************************************************)
(* A viewer among the proxies of SocketServer: network_loop, the connect   *)
(* and reconnect loop of lhv-viewer/src/lib.rs.                            *)
(***************************************************************************)
EXTENDS SocketServer

VARIABLES conn,       \* the proxy whose connection the viewer reads, or None
          status,     \* ViewerState.status
          backoff     \* the last delay, in ms; 0 after a successful connect

viewerVars == <<conn, status, backoff>>
vars == <<serverVars, viewerVars>>

Init == ServerInit /\ conn = None /\ status = "Waiting" /\ backoff = 0

Listening(p) == pc[p] \in {"stat", "serving", "unlink"}
Reachable == path \in Proxy /\ Listening(path)

NextBackoff(d) == IF d = 0 THEN 250 ELSE IF 2 * d > 3000 THEN 3000 ELSE 2 * d

\* Every attempt comes after the delay, the first one at once.
Connect ==
  /\ conn = None /\ Reachable
  /\ conn' = path /\ status' = "Connected" /\ backoff' = 0
  /\ UNCHANGED serverVars

Retry ==
  /\ conn = None /\ ~Reachable
  /\ status' = "Waiting" /\ backoff' = NextBackoff(backoff)
  /\ UNCHANGED <<conn, serverVars>>

\* A slip: the ended connection is kept, and read again.
StreamEndsKept ==
  /\ conn # None /\ ~Listening(conn)
  /\ status' = "Disconnected" /\ backoff' = NextBackoff(backoff)
  /\ UNCHANGED <<conn, serverVars>>

\* The stream ends with the process at its other end.
StreamEnds ==
  /\ conn # None /\ ~Listening(conn)
  /\ conn' = None /\ status' = "Disconnected" /\ backoff' = NextBackoff(backoff)
  /\ UNCHANGED serverVars

Next == (ServerNext /\ UNCHANGED viewerVars) \/ Connect \/ Retry \/ StreamEnds

\* The viewer goes on trying; nothing is asked of the proxies.
Spec == Init /\ [][Next]_vars
             /\ WF_vars(Connect) /\ WF_vars(Retry) /\ WF_vars(StreamEnds)

----------------------------------------------------------------------------
\* The newest proxy has the path for as long as it serves, whatever the older
\* ones it displaced do when they end; it is taken that no two are at the path at
\* the same instant, and none is killed there (server.rs, reclaim_and_bind and
\* SocketCleanup).
NewestServes ==
  ~disturbed /\ (\A p \in Proxy : ~Busy(p)) /\ newest # None /\ pc[newest] = "serving" => path = newest

\* Nor is a socket file left behind by proxies that ended in order, however
\* many took the path over from each other.
LeavesNoFile ==
  ~disturbed /\ (\A p \in Proxy : pc[p] \in {"start", "gone"}) => path \notin Proxy

\* Starts that do overlap, in any interleaving of their system calls, leave the
\* path to one that serves, though some may fail.
StartsLeaveAServer ==
  /\ \A p \in Proxy : pc[p] \in {"start", "serving", "failed"}
  /\ \E p \in Proxy : pc[p] # "start"
  => path \in Proxy /\ pc[path] = "serving"

\* The viewer finds the proxy that stays, however often it was displaced,
\* restarted or absent before (README, "The viewer reconnects on its own").
FindsTheProxy ==
  \A p \in Proxy :
    <>[](path = p /\ pc[p] = "serving" /\ \A q \in Proxy \ {p} : ~Listening(q))
    => <>[](conn = p)

----------------------------------------------------------------------------
(* What the documentation says and the code does not do. *)

\* "The previous owner's SocketCleanup is inode-guarded, so it will not delete
\* the socket we bind here" (server.rs:65-66).
CleanupSparesOthers == [][\A p \in Proxy : Unlink(p) => path \in {p, None}]_vars

\* "Newest-proxy-wins is the point: the Helix you just started is the one
\* you're looking at" (server.rs:62-63).
NewestIsShown ==
  \A p \in Proxy : <>[](newest = p /\ path = p /\ pc[p] = "serving") => <>[](conn = p)
============================================================================
