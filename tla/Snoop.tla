------------------------------- MODULE Snoop -------------------------------
(***************************************************************************)
(* The snoop (lhv-proxy/src/snoop.rs): from copies of Helix's messages it  *)
(* tracks the session and the cursor.  The debounce timer is abstracted:   *)
(* it may go off at any moment while a focus is pending.                   *)
(***************************************************************************)
EXTENDS Query

CONSTANTS SnoopCapacity,  \* slots of the copy channel
          Triggers        \* methods whose position is an explicit cursor
ASSUME SnoopAssumption == /\ SnoopCapacity \in Nat \ {0}
                          /\ Triggers \subseteq {"hover", "other"}

VARIABLES snoopQ,         \* copies not yet observed
          snoop,          \* Snoop: initialized, and the open documents
          pending,        \* the focus the debounce timer holds, or None
          rootSent        \* the workspace root was signalled

SnoopState == [initialized : BOOLEAN, docs : [Uri -> Nat \cup {None}]]

SnoopInit == /\ snoopQ = <<>>
             /\ snoop = [initialized |-> FALSE, docs |-> [u \in Uri |-> None]]
             /\ pending = None
             /\ rootSent = FALSE

\* A slip: didClose is not observed.
ObserveNoClose(s, f) ==
  CASE f.method = "initialized" -> [s EXCEPT !.initialized = TRUE]
    [] f.method \in {"didOpen", "didChange"} -> [s EXCEPT !.docs[f.uri] = f.version]
    [] OTHER -> s

\* Snoop::observe, its effect on the session.  The protocol obliges a client
\* to send a version with didChange.
Observe(s, f) ==
  CASE f.method = "initialized" -> [s EXCEPT !.initialized = TRUE]
    [] f.method \in {"didOpen", "didChange"} -> [s EXCEPT !.docs[f.uri] = f.version]
    [] f.method = "didClose" -> [s EXCEPT !.docs[f.uri] = None]
    [] OTHER -> s

LegalFocus(s, f) ==
  IF s.initialized /\ s.docs[f.uri] # None
  THEN [uri |-> f.uri, version |-> s.docs[f.uri], position |-> f.position,
        cause |-> f.n]
  ELSE None

\* The focus a message yields in the session it leaves: an edit's start (none
\* when the whole text was replaced), or the position of a trigger.
FocusOf(s, f) ==
  IF f.method \in Triggers \cup {"didChange"} /\ f.position # None
  THEN LegalFocus(s, f)
  ELSE None

\* Slips: the first focus of a burst wins; the root is signalled late.
SnoopRecvKeepsFirst ==
  /\ snoopQ # <<>>
  /\ LET s     == Observe(snoop, Head(snoopQ))
         focus == FocusOf(s, Head(snoopQ))
     IN  snoop' = s /\ pending' = IF pending = None THEN focus ELSE pending
  /\ rootSent' = (rootSent \/ Head(snoopQ).method = "initialize")
  /\ snoopQ' = Tail(snoopQ)
SnoopRecvLateRoot ==
  /\ snoopQ # <<>>
  /\ LET s     == Observe(snoop, Head(snoopQ))
         focus == FocusOf(s, Head(snoopQ))
     IN  snoop' = s /\ pending' = IF focus # None THEN focus ELSE pending
  /\ rootSent' = (rootSent \/ Head(snoopQ).method = "initialized")
  /\ snoopQ' = Tail(snoopQ)

\* run_snoop_task, one message: the last focus wins.
SnoopRecv ==
  /\ snoopQ # <<>>
  /\ LET f     == Head(snoopQ)
         s     == Observe(snoop, f)
         focus == FocusOf(s, f)
     IN  /\ snoop' = s
         /\ pending' = IF focus # None THEN focus ELSE pending
         /\ rootSent' = (rootSent \/ f.method = "initialize")
  /\ snoopQ' = Tail(snoopQ)

\* run_snoop_task, the timer.
SnoopFire(room) ==
  /\ pending # None
  /\ pending' = None
  /\ Request(pending, room)
  /\ UNCHANGED <<snoopQ, snoop, rootSent>>
============================================================================
