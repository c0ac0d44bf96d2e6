------------------------------- MODULE Render -------------------------------
(***************************************************************************)
(* What the viewer's panes say of a snapshot (lhv-viewer/src/lib.rs, ui and*)
(* the render functions): which text, for which place, and with which      *)
(* warning.  Layout, colours and wording are left out.                     *)
(***************************************************************************)
EXTENDS State

\* render_status: the place shown beside the connection's state, if any.
StatusLine(s) ==
  IF s.doc # None /\ s.position # None
  THEN [uri |-> s.doc.uri, position |-> s.position] ELSE None

\* A slip: any range will do.
FocusIsElaboratingAnywhere(s) == s.position # None /\ s.progress # {}

\* focus_is_elaborating: some range holds the line of the focus.
FocusIsElaborating(s) ==
  /\ s.position # None
  /\ \E r \in s.progress : r.start <= Line[s.position] /\ Line[s.position] <= r.end

\* render_goals: what the pane says, and whether it is dimmed as maybe stale.
GoalsPane(s, status) ==
  [says  |-> CASE status # "connected" /\ s.doc = None -> "help"
               [] ~s.inTactic /\ s.doc # None -> "not in tactic mode"
               [] ~s.inTactic /\ s.doc = None /\ status = "connected" -> "waiting for goals"
               [] s.inTactic /\ s.goals = None -> "proof complete"
               [] OTHER -> "goals",
   text  |-> IF s.inTactic THEN s.goals ELSE None,
   stale |-> FocusIsElaborating(s)]

\* render_expected
ExpectedPane(s) == s.termGoal

\* render_diagnostics: those of the focus's document; 0 for none.
DiagnosticsPane(s) == IF s.doc = None THEN 0 ELSE s.diagnostics[s.doc.uri]

\* render_progress
ProgressPane(s) == IF s.elaborating THEN "elaborating" ELSE "idle"
============================================================================
