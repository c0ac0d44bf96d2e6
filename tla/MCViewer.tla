------------------------------ MODULE MCViewer ------------------------------
(* Instance values for TLC. *)
EXTENDS Viewer

EventsSome == {[key |-> "quit", kind |-> k] : k \in {"repeat", "release"}}
              \cup {[key |-> k, kind |-> "press"] : k \in {"down", "up", "home"}}
============================================================================
