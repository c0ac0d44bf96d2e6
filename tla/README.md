# Verification of lean-helix-view

`lean-helix-view proxy` stands between the Helix editor and Lean's language
server (`lake serve`): it copies the LSP stream in both directions and, on the
side, asks Lean for the goals at the cursor and publishes them over a Unix
socket to `lean-helix-view view`, a terminal viewer. This directory holds TLA+
models of that program, their TLC configurations, and proofs checked by TLAPS.

## The system

| part | source | state it keeps | operations |
|---|---|---|---|
| envelope, ids | `lhv-lsp/src/envelope.rs` | none | classify a message: id (number or string), method, response or not |
| frame codec | `lhv-lsp/src/codec.rs` | read buffer | `read_frame`, `write_frame` |
| forwarder | `lhv-proxy/src/forward.rs` | the two bounded sinks, the frame each pump holds | `pump_c2s`, `pump_s2c`, two `writer`s, `spawn`, `wait_first`, `abort_c2s`, `join_s2c`, `drain_writers` |
| snoop | `lhv-proxy/src/snoop.rs` | `initialized`, open documents with versions, the debounced focus | `observe`, `legal_focus`, `run_snoop_task` |
| goal querier | `lhv-proxy/src/query.rs` | `Outstanding` (generation, registry of ids) | `request`, `take`, `handle_injected_response` |
| tee | `lhv-proxy/src/tee.rs` | none | `apply_diagnostics`, `apply_progress` |
| state store | `lhv-proxy/src/state.rs` | the authoritative `Snapshot` in a watch channel | `update`, `subscribe` |
| viewer socket | `lhv-proxy/src/server.rs` | the socket file, its inode | `serve`, `publish_to`, `reclaim_and_bind`, `SocketCleanup` |
| goal sink | `lhv-proxy/src/sink.rs` | its watch receiver | append each new snapshot to a file |
| life cycle | `lhv-proxy/src/run.rs`, `lean-helix-view/src/main.rs` | child process, which side closed first, the runtime | `main`, `run`, `reap`, `report_startup_failure`, `spawn_socket_server` |
| wire | `lhv-wire/src/lib.rs` | none | `Snapshot`, `Handshake`, socket discovery |
| viewer | `lhv-viewer/src/lib.rs` | connection, current snapshot, status, scroll position, the terminal's modes | `network_loop`, `input_thread`, `handle_event`, `draw` and the panes, `TerminalGuard` |
| highlighting | `lhv-viewer/src/lib.rs` | lines and spans of one text | `strip_outer_code_fence`, `highlighted_lean`, `push_source` |

How they interact. Helix's messages go `pump_c2s` -> sink toward Lean ->
`writer` -> Lean's stdin; Lean's go `pump_s2c` -> sink toward Helix -> `writer`
-> stdout. After it has forwarded a message `pump_c2s` offers the snoop a copy
(`try_send`: dropped when the snoop is behind). The snoop, after a debounce,
has the querier put two requests with ids `lhv-q<gen>{g,t}` on the sink toward
Lean (`try_send` again). `pump_s2c` recognises the answers by id in the shared
registry, keeps them from Helix and folds them into the snapshot; it folds the
copies of notifications in after forwarding them. Each update of the snapshot
wakes the socket's `publish_to` tasks. When a side closes, its pump ends, and with
it the senders it holds; `run` reaps Lean, waits for the pumps and writers that
are left, and exits. Proxies of one workspace share a socket path, nothing else.

What is hard: nothing may disturb the pipe, whatever the snoop, the querier or
Lean's timing do; answers come late, out of order, as errors, after their focus
was superseded; both sinks and the copy channel are bounded, one refuses and one
waits; legality and version are read when the cursor is seen and used after a
debounce; several proxies fight over one socket path; the drain at the end has to
deliver everything and still end. `PROJECT.json` lists the hazards line by line.

What makes each part correct:

* forwarder: both directions deliver every message once, in order, unaltered,
  except the answers to injected queries, which never reach Helix; neither
  direction depends on the snoop;
* querier: the registry is exactly what is in flight; only the latest
  focus renders; what is shown when all is answered is coherent;
* snoop: its session is the editor's as long as no copy was dropped; the last
  cursor of a burst is the one asked about; a query never overtakes its cause;
* tee: the viewer's diagnostics are those the editor was sent;
* life cycle: nothing read is lost in a close, the proxy always ends once it has a
  reason to, no child outlives it, a failed start is told from a finished session;
* socket server: the newest proxy keeps the path, nobody's file is left behind,
  overlapping starts do not end with no server;
* publication: every reader ends on the newest snapshot, and none goes back;
* codec: bytes pass as they came, in whole frames, none withheld; an end inside a
  frame is an error and no clean end;
* discovery: proxy and viewer of one workspace derive the same path, those of
  two workspaces never do;
* viewer: the screen follows the running proxy and never goes back; a quit key
  always ends it with the terminal restored;
* rendering: a pane says what it is about, and when it may be stale; highlighting
  neither loses nor adds a line.

## What is modelled

| module | models | remarks |
|---|---|---|
| `Lsp` | messages and ids | a message is its number plus the fields the proxy reads |
| `State` | `Snapshot`, `update`, tee | a text is the document state Lean computed it from |
| `Query` | `Outstanding`, `request`, `handle_injected_response` | extends `State`; owns the sink toward Lean |
| `Snoop` | `Snoop::observe`, `run_snoop_task` | extends `Query`; the timer may go off at any moment |
| `Render` | what the viewer's panes say of a snapshot | extends `State`; operators only |
| `Forward` | pumps, writers; Helix and Lean | composes all of the above |
| `Pipe` | abstract: one direction of the pipe | refined by `Forward`, twice |
| `GoalView` | abstract: what is shown | refined by `Forward` |
| `ForwardProperties` | every property of `Forward` | states what is shown over the panes of `Render` |
| `ForwardProofs`, `QueryProofs` | theorems about the pipe and the tee; about the snoop and the queries | the second extends the first |
| `MCForward` | symmetry, lines and ranges, for TLC | |
| `Lifecycle` | `main`, `run`, `reap`, `drain_writers`, the ends of all tasks | queues and pipes are numbers of frames |
| `LifecycleProperties`, `LifecycleProofs` | its properties, fairness and theorems | |
| `SocketServer` | `reclaim_and_bind`, `SocketCleanup`, several processes | a file is named by who bound it |
| `Takeover`, `TakeoverProofs` | the viewer's `network_loop` among those proxies, properties and theorems | extends `SocketServer` |
| `Publish`, `PublishProofs` | watch channel, `publish_to`, `run_goal_sink`, the viewer's reads; properties, theorem | a snapshot is its `seq` |
| `Codec` | `read_frame`, `from_body`, their callers' loop | bytes are runs that `read_frame` treats alike |
| `CodecProperties`, `CodecProofs`, `MCCodec` | properties with the reference splitting, theorems, values for TLC | |
| `Viewer`, `ViewerProofs`, `MCViewer` | the viewer's tasks and thread, the terminal; properties, theorem | proxies are an environment |
| `Discovery` | `root_path_from_uri`, `find_workspace_root` and who calls them; properties | paths are bytes; a socket path is the root it is hashed from |
| `Highlight` | fence removal and styled lines; properties | seven kinds of characters |
| `MCWatch`, `WatchProofs` | `Discovery` and `Highlight` side by side: values for TLC, theorems | they share no state |

State and actions against the code:

* `toLean`, `toHelix`, `snoopQ` are the three mpsc channels; `c2s`, `s2c` are the
  frame a pump holds between its `read_frame` and the end of its `send().await`.
  The await points of the code are the boundaries of the actions: `C2sRead` ends
  at `send`, `C2sForward` is the send that found room with the `try_send` of the
  copy, which no await separates from it. `S2cRead` is everything `pump_s2c`
  does with a frame before it waits for room: a response whose id is registered
  is consumed (`S2cConsume`), any other frame is held (`S2cHold`). `S2cForward`
  is that send with `tee_target`.
* `SnoopObserve` and `DebounceFires` are the two branches of the `select!` in
  `run_snoop_task`. `DebounceFires` includes the whole of `Querier::request`,
  which does not await: generation, registration of both ids, and the two
  `try_send`s, with the ids of refused frames taken out again.
* `Rooms`: tokio hands a freed slot to a sender waiting in `send` before that task
  runs, so the slots `try_send` sees are the free ones, or one less when
  `pump_c2s` holds a frame.
* `LeanWriter` and `HelixWriter` write one frame. The OS pipes are merged with
  the reads: a process emits a message when the proxy reads it and receives one
  when the proxy writes it. A pipe with a buffer of its own only delays these steps.
* Helix is an LSP client: handshake in order, `didOpen` before `didChange`,
  versions one up per edit and always present (as LSP obliges it). Lean may answer in any
  order, or not at all, with text, an empty goal list, null or an error, and
  computes goals from the document as it stands when the query arrives.
* History variables, which no guard reads: `helixGot`, `leanGot` (what arrived), `consumed`,
  `missed` (copies dropped), `asked` and `filled` (newest focus; generation
  shown per kind).

`Lifecycle`, against the same code at the moment it ends:

* the stages of the two pipes are counts: `stdin`, `toLean`, `leanIn` (Lean's stdin,
  an OS pipe), `leanOut`, `toHelix`. Each FIFO is `Forward`'s subject, so only
  what is still where it is matters here. `c2s` and `s2c` are reading,
  holding a frame in `send`, or done.
* a task ends as its code does: a pump at end of stream, at a read error (`garbled`:
  Lean, or the build tool before it, wrote what is no frame; for Helix the end of `helix.writes`
  stands for both, since `pump_c2s` returns on either and reads no more), or when its
  `send` is refused; the snoop when its channel is closed and empty; a writer when all
  senders are gone and its queue is empty, or when a write fails. The order `c2s`,
  snoop, `leanWriter` is the chain of dropped senders that `spawn`'s comment describes.
* `main` is where the process is: `spawn` (before the child), then where `run` waits: `wait`
  (the `select!`), `reap`, `join` (`join_s2c`), `drainLean` and `drainHelix` (the two
  awaits of `drain_writers`); `returned` (to `main`, with the tasks no longer polled) and `exited`.
  `SpawnFails` is the error of `spawn`, returned before there is a task; `Shutdown` is
  `shutdown_timeout` and the line printed for an error. A signal before the `select!` kills
  the proxy by its default action and is left out.
  `AfterReap` is what follows the reap in each arm of the `match`. The grace
  period may end at any time (`ReapKills`).
* Lean is one process whose ends of the pipes close with it; it may answer, fall
  silent, stop reading, exit at end of input, exit before, or be killed.

`SocketServer`: `pc` is a process's place between two system calls on the path
(`bind`, `remove_file`, `bind`, `stat`; `stat`, `remove_file` on drop). A file is
named by the process that bound it, because the inode of a bound socket is not
reused while its listener is open, and the drop of `SocketCleanup` comes before
the listener's. A process may be killed at any point, and a file of an earlier
one may be there at the start. Only `AddrInUse` makes a bind fail. `newest` and
`disturbed` are history.

`Takeover`: `Connect`, `Retry` and `StreamEnds` are the branches of one turn of
`network_loop`, each with the delay it ends in. A refused connection and a
missing file are one failure.

`Publish`: `Borrow` is `borrow_and_update`, `Write` the end of `write_frame` (a frame
is in the socket at once or not at all), `Changed` the await of `changed`. `SinkSkips`
is the end of the sink's `open` with the `borrow_and_update` after it; there is no
await between the sink's `changed` and its `borrow_and_update`, so both are one step.
The viewer keeps the last snapshot on its screen when it is cut off. A disconnected
viewer's task that has not noticed yet has no effect, and is left out.

`Codec`: `got` is what the other end has written, `wire` what `read_frame` has not
taken, `raw` and `length` its two locals, `state` the loop it is in or the result that ended
its caller's loop. `ReadLine` is one turn of the header loop, with each of its early
returns in `Malformed`; a `read_line` that has no line feed yet does not return
(`EndsLine`). `out` is what the caller writes: the frame's `raw`. A symbol stands for a
run of bytes the code treats alike: "Content-Length: n" with its value, another name
and value, text without a colon, the two line-end bytes, and what is not UTF-8; a length counts
symbols. A stream is either foreign (any symbols) or our own (frames of `from_body`).
The zeroed allocation of the declared length, before the body is there, is left out.

`Viewer`: `net` is where `network_loop` awaits (dial, read, sleep), `app` where `run` is.
`Dial`, `ReadFrame`, `ReadEnds` and `BackoffOver` end at the next await, `Tick` and
`TakeEvent` are the two branches of the `select!` with the `draw` that follows. The
input thread is a thread of its own and ends on an error only. `SetUp` has the outcomes of
`setup_terminal`'s three calls. A snapshot is the number of the proxy that sent it and its
`seq`, so that an older session is told from an older snapshot. `Proxy*` promise what
`Publish` shows of `publish_to`.

`Render`: one operator per pane. A progress is the set of the ranges Lean is at work on, by their
first and last lines (a range that cannot be parsed is dropped by the code, so it is as if not sent).
`Line` gives a position its line, and `FocusIsElaborating` asks whether a range holds that of the focus, as the code
does: ranges shrink from the top as Lean goes on, and goals above them are not marked.

`Discovery`: `ProxyBinds` is `spawn_socket_server` once the root is signalled, with
`extract_root_uri`; `ViewerDials` is `workspace_socket_path`. `params` is one way a
client can name its root and, as history, the directory it means.

`Highlight`: tree-sitter's events are an environment that cuts the text anywhere and
nests styles, the default one among them (`highlight_style` returns it for the names
it does not know); `SourceEvent` is `push_source`, `HighlightFails` each of the three
returns of `plain_text`.

Left out: the JSON of bodies, the rendered strings (they go with the goals), the content of the
cadence capture, the length of the debounce, layout and colours. The tasks of one process run
on one thread (`main.rs`, `new_current_thread`), so steps between awaits are atomic.

## What is checked

| run | bounds | shows |
|---|---|---|
| `forward_pipes` | 2 documents, 2 positions on 2 lines, sinks of 1, copies 1, 5 messages of Helix, 4 of Lean | `ToLeanIsAPipe`, `ToHelixIsAPipe` (refinements of `Pipe`), `WithholdsExactlyAnswers`, `OnlyLatestRenders` (refinement of `GoalView`), `DiagnosticsAgree`, `StaleMarked`, `TypeOK` |
| `forward_session` | 2 documents, 2 positions, sinks of 2, copies 2, 6 client messages | `RegistryExact`, `SettledCoherent`, `QueryAfterCause`, `LastCursorAsked`, `SnoopTracksEditor` |
| `forward_live` | 2 positions, sinks of 2, 4 messages of Lean | `HelixReachesLean`, `LeanReachesHelix`, `CursorShown`, `RootSignalled` |
| `lifecycle` | queues of 2, copies and pipes of 1, 2 frames of Helix, 2 of Lean | `TypeOK`, `EndIsComplete`, `NothingOfLeanLost`, `StartupFailureDiagnosed`, `Exits`, `LeanSeesTheEnd` |
| `takeover` | 3 proxies, one leftover file, crashes anywhere, the viewer | `NewestServes`, `LeavesNoFile`, `StartsLeaveAServer`, `FindsTheProxy` |
| `publish` | 2 viewers, one of which may never read, 2 frames in a socket, 3 updates | `NeverBack`, `Converges`, `SinkConverges` |
| `codec` | foreign streams of up to 6 symbols, lengths 0 and 1; up to 3 messages of our own | `Transparent`, `CleanEnd`, `SplitsAsReference`, `NeverHoldsAFrame`, `ReadsBack` |
| `viewer` | 2 proxies of 3 snapshots each, a socket of 1 frame, 2 events, scroll up to 1 | `ScreenNeverBack`, `QuitLeaves`, `ScreenCatchesUp` |
| `watch` | 5 directories from `/` down, a link, every marking; every text of up to 4 characters, fenced ones of up to 6 | `Meet`, `KeepsText`, `FenceGone` |
| `said_*` | as small as shows the case | three places where the code does not do what its comments say |

Bounds. A sink of one slot makes every refusal and every wait happen; with two,
a focus can also get in whole. Three cursors give a current, a superseded and a
twice superseded focus in flight at once; six client messages are the handshake, two opens
and two cursors, or an open, a close and a reopen around a cursor. Two documents are what a per-document
table can confuse. Each run's `MaxClient` is what its scenario needs beyond the
three messages of handshake and open; `MaxLean` bounds only what Lean says of
its own accord, never its answers. The runs set `CHECK_DEADLOCK FALSE` because
a bounded editor falls silent. Documents and positions are symmetric: nothing
orders them (no symmetry in liveness runs; none of positions where they are on different
lines). In `forward_pipes` the ranges of a progress are none, or two of which one ends before the
first line and one is the second, so that a cursor may be above, below and on both ends of a range;
no other run depends on lines.

In `Lifecycle` short queues and pipes are the hardest case: every sender can be
waiting, with the stages behind it full, when a side ends; a queue of two also
takes both queries of a focus. Three proxies are
a takeover of a takeover. Three updates with two frames in the socket let a
viewer be behind by its socket and by the frame its task holds.

Six symbols are two frames, or one with a second header line, cut anywhere; lengths of 0
and 1 put the end of a body on, before and after every symbol. A repeated quit key, a
released one and the scroll keys are the events `handle_event` tells apart, and two of them are a
quit key behind another. The directories of `watch` hold a space, an escape that is
meant literally, and a workspace in a workspace; a text of four characters has every
pair of neighbours at both its ends.

Fairness. `PipeSpec` asks only that the two pumps' sends and the two writers
proceed: what the runtime grants a task whose channel has room, and what a Helix
and a Lean that read their input grant. The snoop task gets none, so
`HelixReachesLean` and `LeanReachesHelix` show that the pipe does not need it. What more it takes
to show a goal is the premise of the property that needs it: `SnoopFairness`
(the task is scheduled, its timer goes off) and `LeanFairness` (Lean answers). Helix is
never assumed to speak.

`TaskSpec` schedules the proxy's tasks and has the writer toward Helix proceed while
Helix lives; nothing is asked of Lean. `Exits` has the grace timer run out as its
premise, `LeanSeesTheEnd` a Lean that reads, no kill, and a snoop task
that goes on: nothing else is asked of the snoop, which may wait for its capture file
(`snoop.rs:329`). The runs of `Lifecycle` set
`CHECK_DEADLOCK FALSE` because an exited process stops. `Takeover`'s
fairness is the viewer's own loop, and `Publish`'s the tasks of the proxy and the
viewers that are not in `Stuck`. In `Takeover` nothing is asked of the proxies:
`FindsTheProxy` begins with one that stays.

`Viewer`'s event loop is scheduled (`UiFairness`): `select!` polls its branches in random
order and the ticker is due ten times a second, so neither starves. `QuitLeaves` needs
no more. The network side and the proxy's sends (`NetworkFairness`) are the premise of
`ScreenCatchesUp`. The input thread and the proxies are asked nothing. `watch` sets
`CHECK_DEADLOCK FALSE` because its computations end.

`NewestServes` and `LeavesNoFile` are about takeovers that do not overlap
(`disturbed`): when two processes are between system calls on the path at a time they
fail, which the run `said_spares` shows. `StartsLeaveAServer` is about the overlap itself.

`CursorShown` speaks of the queries the sink accepted: a refused one is not retried
(`query.rs:136`), so nothing is shown for it. `SnoopTracksEditor`
and `LastCursorAsked` assume that no copy was dropped: the code cannot repair a
session it missed a message of.

## What the code does otherwise than it says

Each of these is a `said_*` run whose counterexample shows it; `PROJECT.json` quotes
the lines.

1. `said_no_orphan`: when Lean stops reading with the queue full, the proxy does not see
   Helix's end: the pump waits in `send` (`forward.rs:94`), the grace period never
   starts, and both processes stay, though `run.rs` maps every shutdown path so that
   none is orphaned.
2. `said_spares`: the inode guard of `SocketCleanup` is a check and a removal; a
   successor that binds in between loses its socket to the one it displaced (`server.rs:101`).
3. `said_newest_shown`: a viewer that is connected stays with the displaced proxy while
   that one runs, so the newest is not the one looked at (`lhv-viewer/src/lib.rs:99`).

Smaller ones are plain from a few lines, and have no run. The models behave as the code does
in each:

* `doc` and `position` change with the first of the two answers, the other pane's text still
  belongs to the previous focus, for good if the other query was refused
  (`query.rs:171`; `lhv-wire/src/lib.rs:43` calls them what the goal fields describe).
  `SettledCoherent` says that it is over once both are answered;
* `DocRef.version` is the snoop's at the cursor event, which may be older than the text Lean
  computed the goals in (`snoop.rs:196`; `lhv-wire/src/lib.rs:67` says the version the
  state was computed against), never newer: `SettledCoherent`;
* an error answer of the current generation clears the goals shown
  (`query.rs:150`); the comment above says an unexpected result is ignored;
* the ranges of a progress replace those of every other document: goals of one file are shown
  unmarked while Lean is at work on their line once another file's progress has come, and that
  one's ranges mark them (`tee.rs:51`; `lhv-viewer/src/lib.rs:523` says the focused position inside a
  region Lean is elaborating). `StaleMarked` says what does hold: the mark follows the last
  progress, whosever it was;
* a query can go out for a document the snoop has already seen closed: legality
  is checked before the debounce, not after (`snoop.rs:279`);
* the debug sink skips the value current when its file is open, which may no longer be the
  empty baseline, and that change is in the file only when there is another (`sink.rs:23`;
  `SinkConverges` allows for it);
* after `Content-Length: 0` a stream cut between the last CR and its LF is returned as a frame,
  where `codec.rs:51-53` says an end inside a frame is an error (`CutAtReturn`);
* a legacy `rootPath` is percent-decoded as if it were a URI, so a directory whose name has
  an escape in it is not found (`snoop.rs:222`, `PlainEscape`);
* in a workspace inside the session's root the viewer takes the inner one for the root and does
  not find the proxy: `Meet` has no other workspace in between, and `lhv-wire/src/lib.rs:124`
  offers `--socket`;
* when the terminal fails between raw mode and the guard, it stays raw
  (`lhv-viewer/src/lib.rs:64-65`);
* a carriage return that ends no line is trimmed where an event of the highlighter
  ends (`lhv-viewer/src/lib.rs:471`): `KeepsText` speaks of texts without.

## What is proved

Each theorem holds for all values of the constants that meet the module's assumptions, none of which
narrows the code: capacities are positive, the enumerated methods are client methods,
and `None` is none of the values it stands in for (`NoneIsNoValue`, `NoneIsNoFrame`,
`NoneIsNoFocus`, `NoneIsNoScreen`), and a position has a line (`LineAssumption`). Those of `Discovery` describe the file system and the client. Each invariant below is inductive together with the
types and with those it is said to need.

About `Forward`, for all documents, positions, capacities and bounds:

* `TypeCorrect`: `TypeOK`, with the bounds of the three channels. It is
  inductive; each action has its lemma.
* `ToLeanPipe`: the refinement of `Pipe` toward Lean. `ToLeanInv` says that Lean has
  the first messages of Helix and the sink toward it exactly the others that
  were passed on, in order: without the last part a step of the writer cannot be seen to
  deliver the next message. Queries in the sink between them are skipped.
* `ToHelixPipe`: the refinement toward Helix. `ToHelixInv` says that what was received or
  is queued is Lean's messages but for those consumed, increasing, without a gap up to the
  one `pump_s2c` holds.
* `DiagnosticsCurrent` and `StaleIsMarked`: `DiagnosticsAgree`, `StaleMarked`. `NoticesInv`
  says of which forwarded notification the snapshot's diagnostics and ranges are, and that a place has
  a document exactly when it has a position. With it the viewer's test of lines and the
  property's come to the same, for all lines and ranges (`LineAssumption`: a line is a number).
* `QueriesFollowTheirCause`: `QueryAfterCause`. `CausesInv` follows a cursor: what the snoop holds
  was passed on before, and a query in the sink stands behind the message that caused it.
* `SnoopTracks`: `SnoopTracksEditor`. While copies are under way the two sessions differ, so
  `TrailInv` says that the editor's is the snoop's with the *trail* played on it: the copies queued
  and the message the pump holds. It also says of each cursor in the trail that it
  will be legal when it is observed.
* `NoCursorIsLost`: `LastCursorAsked`. `CursorInv` says that the focus pending, or else
  the one asked about, is that of the last cursor observed. It needs `TrailInv`, for a
  cursor that were found illegal would be lost.
* `ConsumeAlways`: `ConsumeInv`, the invariant the theorems about queries stand on.
  `RegistryExact` alone is not inductive: that taking an answered id out of the registry
  leaves the others there needs every id to be in one place only (`IdsOnce`),
  which for new ids needs the registered generations to be past ones
  (`NotShownYet`). That in turn says that nothing registered for the newest
  generation has been shown, which makes a shown answer a new one.
* `RegistryCorrect`, `WithholdsAnswers` and `LatestRenders`: the registry is
  exact; a message is kept from Helix exactly when it answers an injected query;
  `Forward` implements `GoalView`. The last two are properties of steps, proved
  from `TypeOK` and `ConsumeInv` of the state the step starts in.
* `SettledScreen`: `SettledCoherent`, what the viewer shows once the newest focus is answered. It takes
  three more invariants. `VersionsInv`: while no document was closed, its versions only
  grow from Helix to Lean. `SeenInv`: a focus is of a version Helix had written by the time
  of its cursor. With `CausesInv` they say that Lean reads a query with a text no older than the
  focus. `AnswersInv`: everything registered, queued, in Lean's hands or shown
  for the newest generation is of its focus.

`LifecycleProofs`, from `CapacitiesPositive` alone (a Lean that was never spawned is part of each
invariant: no task runs, so nothing moves):

* `TypeCorrect`: `TypeOK`, with the capacities of queues and pipes.
* `EndsComplete`: `EndIsComplete`. What holds it up is a balance: frames
  Helix wrote plus queries accepted are those in the stages and those Lean read, as
  long as neither Lean's death nor a signal has broken the way there; and the writer toward Lean
  is done only after its producers and with an empty queue.
* `KeepsLeansOutput`: `NothingOfLeanLost`, from the same balance on the
  way back, and from `main` being past each await only with that task done.
* `DiagnosesStartup`: `StartupFailureDiagnosed`. A silent Lean means Helix has sent at
  most its `initialize`, which the pump has long passed on or still holds, so the pump cannot meet the broken writer
  and end first: `SilentInv` says this of every state before `wait_first`. It rests on Helix
  waiting for the answer to `initialize`, as LSP obliges it.
* `DropsTheSenders`: `SendersDropped`, the safety that `Exits` stands on. `SendersInv` adds why the arm that
  aborts no pump needs none aborted: `run` is in `join_s2c` only if `pump_c2s` is what ended.

`TakeoverProofs`, for any set of proxies, from `PathAssumption`. `ServerInv` has two parts. `OrderlyInv`
speaks of takeovers that never overlapped: each step finds the path as the same
proxy's previous step left it, a guard holds its proxy's own inode, and the newest loses the path only to one
that is about to bind; `NewestKeepsThePath` (`NewestServes`) and `NothingLeftBehind` (`LeavesNoFile`)
follow. `StartsInv` speaks of starts that do overlap, before anyone ends: a path that is free or stale is the
business of a proxy that has yet to bind it; `SomeoneServes` (`StartsLeaveAServer`) follows.

`PublishProofs`: `ViewersNeverGoBack` (`NeverBack`), for any number of viewers. `PublishInv` orders what a viewer
shows, the frames in its socket, the one its task holds and the newest snapshot. `NoWakeUpIsLost`
(`SleepsUpToDate`) is the safety that `Converges` and `SinkConverges` stand on: `SentInv` says that the version a task
has marked as seen is that of the last frame or line it wrote, or of the one it is writing; so when it sleeps with the
newest marked, there is nothing it owes.

`ViewerProofs`: `ScreensNeverGoBack` (`ScreenNeverBack`), for any number of sessions and snapshots.
`ViewerInv` orders the screen, the state behind it, the frames in the socket and the
newest snapshot of the proxy that runs. `StaleOnlyMeanwhile` (`StaleOnlyUnderWay`) is the safety that
`ScreenCatchesUp` stands on: `ConnectionInv` ties the status shown to the place of `network_loop` and the last frame
of an open connection to the newest snapshot.

`CodecProofs`, from `CodecAssumption` and `BodiesAssumption`, for streams and messages of any
length. The invariant is that nothing is lost or reordered between the ends:
`CodecInv`, that `got` is `out`, `raw` and `wire` joined. `TypeCorrect` and
it give `TransparentAlways` (what is written on is a prefix of what came) and
`CleanEndAlways` (a clean end leaves nothing behind in `raw` or `wire`).
`ReadsBackAlways` (`ReadsBack`) is about messages of our own: `OwnInv` says that there are
offsets at which they stand in the stream, that the reader is at the offset of as many as it has read, and how far
into the next header. The offsets are quantified and not computed, so no induction over
the stream is needed.
`SplitsAlways` (`SplitsAsReference`) is about streams of anyone's. `SplitInv` says that what was written
on ends at a boundary of the reference, that the frame under construction is so far header lines with the length the
reader keeps, or the header block it has, and that a failed reader stands where no frame begins. The argument:

* Lines, header blocks and frames are described by their positions in the whole stream (`LineIn`, `HeadAt`,
  `FrameAt`; `HeadIs` and `FrameIs` say that this is the reference), so that what arrives later changes none of
  them (`SameBoundary`).
* The reference is a recursive function: `BoundaryExists` finds one with its values by induction,
  `BoundaryIs` unfolds it.
* At most one header block begins at a position, with one length (`OneHead`), so no frame begins inside another
  (`FrameBetween`) and a reader that is stuck after whole frames means a stream that is not whole frames (`StuckEnds`).
* A line cut by the end of the stream is a case of its own: a last carriage return passes for a blank line
  (`CutAtBlank`), which is the exception the property names.

`HoldsNoFrame` says of `read_frame` what `NeverHoldsAFrame` does, without `ENABLED`: where the reader
waits for the rest of a line or of a body (`WaitsForLine`, `WaitsForBody`: no guard of it holds), no whole frame that
has arrived is beyond what was written on. It follows from `SplitInv` and `OneHead`.

`WatchProofs` is about `DiscoverySpec` and `HighlightSpec`, the halves of `MCWatch`.

* `TheyMeet`: `Meet`, for all directories, markers, links and texts of a path. `DirAssumption`: the
  directory above another has the longest path of those it is in. `LinkAssumption`: every other path resolves to a directory.
  `WrittenAssumption`: the client writes each byte as itself or as its escape, and a percent
  sign always as an escape; digits may be of either case, and it may escape more than it must.
  `ParamsAssumption`: the fields it gives spell one path of one directory, or there are none. The proof
  has two halves. Decoding undoes the client's writing (`DecodeEncoded`), since each of its pieces decodes to
  one byte wherever it stands (`DecodeAlong`), and a path without escapes decodes to itself
  (`DecodePlain`). The walk up finds the marked directory with the
  longest path (`RootOfSolves`, `RootOfUnique`, `AboveParent`), which is what the property speaks of.
* `OnlyTheFenceGoes`: `FenceGone`, for texts of any length. The code cuts twice, `trim_end`
  and then at the last newline; the property speaks of the lines of the whole text. `StripIsExact` says that
  they agree: positions in what is left after the cuts are shifted positions in the text
  (`PieceOfPiece`, `TrimmedRest`), and a line that closes the fence is the last one (`ClosesAt`).
* `TheTextIsKept`: `KeepsText`, for texts of any length and all ways to cut them into events. The invariant is
  `Kept`: the finished lines and the one under construction show the source up to the position the events have
  covered, each line trimmed. To compare lines put together from spans with lines cut from a text, both are described
  by the positions where they end (`Cuts`): `SplitIs` finds them for `Split` by the rank of each newline,
  `CutsUnique` says that a text has one list of them, `CutsJoin` what they are when a text is continued. An event
  continues the last line and ends one at each newline in it (`EventKeeps`); cutting a line into styled spans
  loses nothing (`SpansKeep`), and trimming the returns off each piece trims them off the whole
  (`TrimmedJoins`), where no return stands within a line.

What is least or greatest in a set of positions, and the values of `PercentDecode`, `FlattenSeq` and
`FindWorkspaceRoot` for every argument, come from the well-foundedness of the
numbers: `Induction` states it of sets, and needs no theorem with an operator for a parameter.

Only model-checked:

* liveness (`HelixReachesLean`, `LeanReachesHelix`, `CursorShown`, `RootSignalled`, `Exits`,
  `LeanSeesTheEnd`, `FindsTheProxy`, `Converges`, `SinkConverges`, `QuitLeaves`, `ScreenCatchesUp`):
  out of the prover's reach;
* `NeverHoldsAFrame` speaks of `ENABLED`, out of its reach as well; `HoldsNoFrame` has the guards written out.

`SendersDropped`, `SleepsUpToDate`, `StaleOnlyUnderWay` and `WaitsForMore` are stated beside their proofs, and no run
checks them: a run would see instances of what is proved of all, and the liveness they belong to has its own. They
do not replace it: they say that the system does not stop in a wrong state, not that it moves on from a good one.

## Not modelled

* JSON: the encoding and decoding of bodies and snapshots; an undecodable
  body is a message with no method, which the pumps pass on.
* The command line, log files, layout, palette, widget drawing: no state a property is about.
* The cadence capture's records: pure output. That its file may hang the snoop task is covered.
* FNV-1a collisions: two roots with one hash share a socket, which no check of the code prevents.
* The memory a declared `Content-Length` takes.

## Plan

1. The envelope's classification of messages against all shapes of an id.
2. Errors of `accept` in `serve`, and of `bind` other than `AddrInUse`.
