------------------------------- MODULE State -------------------------------
(***************************************************************************)
(* The single authoritative Snapshot (lhv-proxy/src/state.rs) and the      *)
(* copies of Lean's notifications folded into it (lhv-proxy/src/tee.rs).   *)
(* Goal texts and term goals are the document state they were computed     *)
(* from; `rendered' goes with `goals' and is left out; a list of           *)
(* diagnostics is the number of the message that carried it.               *)
(***************************************************************************)
EXTENDS Lsp

VARIABLE snapshot

DocRef == [uri : Uri, version : Nat]

Snapshot == [seq         : Nat,
             doc         : DocRef \cup {None},
             position    : Position \cup {None},
             inTactic    : BOOLEAN,
             goals       : Text \cup {None},
             termGoal    : Text \cup {None},
             diagnostics : [Uri -> Nat],
             progress    : SUBSET LineRange,
             elaborating : BOOLEAN]

StateInit ==
  snapshot = [seq |-> 0, doc |-> None, position |-> None, inTactic |-> FALSE,
              goals |-> None, termGoal |-> None,
              diagnostics |-> [u \in Uri |-> 0],
              progress |-> {}, elaborating |-> FALSE]

Update(s) == snapshot' = [s EXCEPT !.seq = @ + 1]

\* A slip: the new list replaces those of every document.
ApplyDiagnosticsToAll(f) ==
  Update([snapshot EXCEPT !.diagnostics = [u \in Uri |-> IF u = f.uri THEN f.n ELSE 0]])

ApplyDiagnostics(f) ==
  Update([snapshot EXCEPT !.diagnostics[f.uri] = f.n])

\* A slip: an empty list of ranges leaves the old ones.
ApplyProgressKeeps(f) ==
  Update([snapshot EXCEPT !.progress = IF f.ranges # {} THEN f.ranges ELSE @,
                          !.elaborating = f.ranges # {}])

\* The ranges of the message are all that is kept: not whose they are.
ApplyProgress(f) ==
  Update([snapshot EXCEPT !.progress = f.ranges, !.elaborating = f.ranges # {}])

\* pump_s2c folds in the copy of a message it has just forwarded.
TeeTarget(f) ==
  CASE f.method = "diagnostics" -> ApplyDiagnostics(f)
    [] f.method = "progress"    -> ApplyProgress(f)
    [] OTHER                    -> UNCHANGED snapshot
============================================================================
