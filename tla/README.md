# plural-core in TLA+

plural-core is the library behind a terminal application that runs many Claude
CLI sessions side by side, each in a git worktree of its own. This directory
holds TLA+ models of its concurrent parts, the TLC configurations that check
them on small instances, and theorems about them that TLAPS checks for every
value of the constants. Paths below are relative to `src/`.

Checking:

    tlc -workers 2 -config pm_stop.cfg MCProcessManager.tla
    tlapm ProcessManagerProofs.tla

## 1. Inventory

How the parts call each other, from the user down:

    TUI / agent
      SessionManager ── SessionStateManager        manager/
        Runner (one per session)                   claude/claude.go
          ProcessManager (one per start)           claude/process_manager.go
            Claude CLI process: stdin, stdout, stderr
              MCP server subprocess                mcp/server.go
          SocketServer  <── socket ──┘             mcp/socket.go
        Config store (JSON file)                   config/
      SessionService (worktrees)                   session/
      GitService (merge, commit, PR)               git/

| Component | State | Operations | Hard behaviour | What makes it correct |
|---|---|---|---|---|
| ProcessManager | `running`, `cmd`, pipes, `ctx`/`cancel`, `restartAttempts`, `interrupted`, `containerReady`, the `WaitGroup` | `Start`, `Stop`, `Interrupt`, `SetInterrupted`, `MarkSessionStarted`, `ResetRestartAttempts`, `WriteMessage`; goroutines `readOutput`, `drainStderr`, `monitorExit`, `containerStartupWatchdog` | five goroutines on one mutex, crash and bounded restart, Stop during either, a startup timeout | one process at a time, Stop leaves nothing behind, the restart budget, nothing after `OnFatalError`, every exit handled |
| Runner | `streaming`, `responseChan`, `processManager`, `stopped`, message history, token counts | `SendContent`, the `ProcessCallbacks`, `Interrupt`, `Stop`, setters | channels used outside the lock, callbacks of a dying process beside the next request | each response ends once, with a word; no send on a closed channel |
| MCP permission relay | request and response channels of the Runner, the socket connection, `allowedTools` | `handleConnection`, `handlePermissionMessage`, `handleChannelMessage`, `sendSocketRequest`, `ForwardRequests`, `Close` | two 5 minute timeouts on one exchange, late answers, close against send | an answer goes to the request it was given for |
| SessionManager, SessionStateManager | runners by session, per-session state | `GetOrCreateRunner`, `DeleteSession`, `Select`, `StartWaiting`, `Shutdown` | check then act across two locks, deletion beside use | one runner per session, no cancel function lost |
| Config store | sessions, parent links, repositories, one JSON file | `AddSession`, `RemoveSession(s)`, `ClearOrphanedParentIDs`, `Mark...`, `Validate`, `Save`, `Load` | two critical sections for one deletion, a crash in `Save` | ids unique, no dangling parent, a saved file loads |
| SessionService | worktrees and branches on disk | `Create`, `CreateFromBranch`, `Delete`, `PruneOrphanedWorktrees`, `MigrateWorktrees` | worktree first and config later, pruning in between, a crash in a migration | no worktree of a live session is pruned |
| GitService | the checkout of a repository | `MergeToMain`, `MergeToParent`, `SquashMergeToMain`, `CreatePR`, `PushUpdates`, `AbortMerge` | several git commands each of which may fail, an unbuffered result channel | a failure leaves a state the caller can recover from; the last `Result` is `Done` |
| Pure code | token counts, argument lists, message trimming, tool rollup | | boundaries | agrees with a reference definition |
| Left out | GitHub and issue clients, executor, logger, paths, parsing and formatting, MCP server list, mock runner | | none: I/O or stateless | |

`PROJECT.json` lists every component with its status, and every hazard at its
line with the properties that would notice it.

## 2. Plan

Done, each with its proofs: the manager of one process and its refinement; the
Runner; the permission relay and the exchange it implements; the states and
Runners of sessions; sessions on disk; merges.

Next, in this order:

1. Message history and text of a response in `Runner`.
2. Pure algorithms against reference definitions: token totals per message id,
   trimming of messages, positions of tool use markers.

Modules that are proved about avoid RECURSIVE operators and state their
invariants as conjunctions of named parts.

## 3. Modules

| Module | What it is |
|---|---|
| `ManagedProcess` | Abstract: idle, up, down, retrying or over, and the number of restarts granted since the last result |
| `ProcessManager` | One manager: its fields, its goroutines, callers of Stop, the Claude process |
| `MCProcessManager` | Instances for TLC and the symmetry of the callers of Stop |
| `ProcessManagerProofs` | Inductive invariant and theorems |
| `ProcessManagerRefinement` | `ProcessManager` implements `ManagedProcess` |
| `Runner` | One Runner with its requests, channels, managers and processes |
| `MCRunner` | The instance for TLC |
| `RunnerProofs` | Inductive invariant, what a request's end needs beside it, and theorems |
| `PermissionExchange` | Abstract: calls, what the user says to them, and what a yes may be spent on |
| `PermissionRelay` | MCP server, forwarders, connections, handlers, channel pairs, the TUI, Stop |
| `PermissionRelayProofs` | Inductive invariant, the step simulation of `PermissionExchange`, the order of answers, and theorems |
| `SessionStates` | `SessionStateManager` and the fields of a `SessionState` that several goroutines write |
| `SessionManager` | Extends `SessionStates` by the map of Runners and the operations of the manager |
| `SessionStatesProofs` | The invariant of the states and every step of theirs |
| `SessionManagerProofs` | The invariant of states and Runners together, and theorems |
| `SessionStore` | Config in memory and on disk, worktrees, branches, files of messages; crash and restart |
| `SessionStoreProofs` | Inductive invariant and theorems |
| `GitMerge` | The merge, push and abort operations over branches, checkouts and their indexes |
| `GitMergeProofs` | Inductive invariant and theorems |
| `MCPermissionRelay`, `MCSessionManager`, `MCSessionStore`, `MCGitMerge` | The instances for TLC, with the symmetry of threads or branches |

### ProcessManager

Processes are numbered as `Start` launches them and a pointer field holds the
number of the process it belongs to. A critical section of `pm.mu` is one
action; what goroutines do between two of them is another. Each goroutine is a
program counter per process:

| Variable | Code | Actions |
|---|---|---|
| `reader` | `readOutput` | `ReaderChecks` (loop head, pipe lookup), `ReaderReads`, `OnInitLine`, `OnResultLine`, `ReaderEnds` |
| `drain` | `drainStderr` | `DrainStderr` |
| `monitor` | `monitorExit`, `handleExit` | `MonitorReaps`, `MonitorCancelled`, `HandleExit`, `CleanupLocked`, `ReportExit`, `ReportQuietExit`, `ReportContainerTimeout`, `Restart`, `RestartFails`, `GiveUp` |
| `watchdog` | `containerStartupWatchdog` | `TimeoutPasses`, `WatchdogTakesTimeout`, `WatchdogTicks`, `WatchdogLeaves`, `WatchdogMarksTimeout`, `WatchdogKills` |
| `stopper` | calls of `Stop` | `StopBegins`, `StopKills`, `StopReaped`, `StopWaits`, `StopFinishes` |

Choices worth knowing:

- A goroutine whose first statement reads a field reads it when it is launched.
- The owner calls `Start` once per manager, as `ensureProcessRunning` does.
- `docker rm -f` and the kill of a process both end it; a container that dies on
  its own is `ProcExits`.
- Concurrent reads of one pipe by two `bufio.Reader`s are line-atomic. The
  reader of the old process may take lines of the new one.
- `Launch` at the bound `MaxProcesses` can only fail, which the code allows at
  any time.
- `OnInitLine` uses `config.SessionStarted` for `r.sessionStarted`: the two are
  set in step.
- `streak`, the restarts granted since the last result, is history. It grows
  where `restartAttempts` is written.

### Runner

Requests, managers and processes are numbered; request *q* has the channel *q*.
A critical section of `r.mu` is one action, and so is each channel operation
made outside of it, which is where the interesting interleavings are: the
lookup of the channel in `handleProcessLine` (`LooksUpChannel`) and its use
(`SendsText`, `Finishes`), the failed start (`StartFails`, `TellsStartError`,
`CleansUp`), the failed write (`WriteFails`, `TellsWriteError`,
`ClosesDirectly`), and the two sections of a result line (`MarksComplete`,
`Finishes`). A send on, or a second close of, a closed channel panics; the
program ends there, so `Next` requires `panic = "none"`.

The managers are seen from outside: `HandleExit`, `ReportsExit`, `Restart`,
`RestartFails` call the Runner in the order `ProcessManager` establishes. Here
`restartAttempts` is read at `ReportsExit`; the window between its read and its
write is a matter of `ProcessManager`, as are init lines, pipes read by an
older goroutine, the watchdog and stderr. When `ensureProcessRunning` falls
back from a failed resume, the outcome is one manager, started or not.

The user sends request *q* when the channel of *q*-1 is closed, or after having
interrupted *q*-1. Four history variables name what properties must tell
apart: `missed` (below), `cut` (requests under way at an interrupt), `overlapped` (set up before
an earlier `SendContent` had returned) and `strayed` (requests that met the
result line of another one).

A channel has 100 slots. One line may be any number of chunks, so a channel is
modelled as `full` or not: the text of a line may fill it (`SendsText`), its
reader may make room (`Receives`), and a last chunk sent with `select` and
`default` is lost on a full one (`Tells`, with the history variable `missed`).
The errors `SendContent` sends itself wait for a slot (`SendError`).

Abstracted: text, tokens, MCP and the message history; lines not read when
`readOutput` ends are dropped. `json.Marshal` of the fixed message type and the
`pm == nil` branch cannot fail after a successful start.

### PermissionRelay

A call of Claude goes through the server loop, the channel pair of its kind in
the subprocess, a forwarder, the connection, its handler on the host, the channel
pair of the Runner and the TUI, and the answer comes back the same way. Each hop
is an action, each wait has a timeout that may fire whenever its select blocks,
and each channel holds one message. A connection is a generation of the
subprocess: a restart makes the next one, with the old handler still in place.
Between `killed`, `closing` and `done` of `stop` lie the steps of `Runner.Stop`.
No component looks at the ID of a response, and neither does the model; `source`
and `disturbed` are history. `ImplementsExchange` maps the relay to
`PermissionExchange`: which yes a call is allowed by is `Spent`.

Abstracted: the text of requests, the JSON on the wire (a malformed request is
one that is settled at once), the three supervisor and the three host tools as
one kind each, since they share their code.

### SessionStates and SessionManager

Every operation of `SessionStateManager` looks the state up under one lock and
writes it under another. `thread[t].ref` is the state in hand between the two;
`Delete` holds both. `SessionManager` adds the map of Runners: `Select` is
`GetRunnerFast`, the load of messages without a lock, the double-checked
publication, the set-up of the fork, `ConfigureRunnerDefaults` in two steps
(tools read, tools set), and the take-over of the session's state. A Runner is
what its callers see: the session it was made for, the number of messages it has, how it
began, its tools, whether it is stopped.

History: `orphaned` (states in hand when Delete removed them), `strayed` (a
result for a tool use that is in no rollup), `replaced`, `stale`, `early` and
`overwritten`. They name the windows the code leaves open, and the properties
say that there are no others.

### SessionStore

A thread's operation is as many actions as it has commands and critical
sections: `Create` makes a worktree, then the config gets the session, then
`Save`; `Delete` goes the other way; a prune reads the config and then the disk.
`Save` writes under the lock in two steps, so that a crash in between leaves a
torn file. `Crash` may come between any two steps and loses the memory; `Load`
and the steps of the migration follow.

Sessions are of the new layout or, for the first `Legacy` ones, of the old; the
directory a session's path names is all that is kept of names and paths.

### GitMerge

A job is the goroutine of one operation. It sends a `Result` before each
command and none is buffered, so each step needs a consumer that receives:
`heard`. Its last step is `Tell`. Branches hold sets of changes, and a checkout
has an index with what is staged, whether entries are unmerged, and whether a
MERGE_HEAD exists. What git does with these is modelled after git: a merge is
refused in the middle of another; with staged changes unless it fast-forwards;
an abort needs a MERGE_HEAD, which a squash does not make; a checkout carries
staged changes along and is refused with unmerged files.

Left out: a command killed half way when its context is cancelled (it has run or
not); a session's edits made while its operation runs; pull requests merged at
the remote; a worktree and the main checkout on one branch are not compared file
by file; reading the conflicted files cannot fail.

## 4. Runs

| Run | Instance | Question |
|---|---|---|
| `pm_stop` | container with watchdog, 1 Stop, a restart, stderr | one live process, quiet Stop, final fatal error, consistent fields, no context leak, stderr attributed |
| `pm_live` | 1 Stop, a restart, init and result lines, fairness | types, restart budget, refinement, exits handled, Stop returns unless overtaken, fair life cycle |
| `rn_safety` | 2 requests, 2 managers, 2 processes, 1 restart, 2 lines, 1 call of Interrupt or Stop | flags, no bare close, no silent end |
| `relay_safety` | 2 calls of 3 kinds, 2 generations of the subprocess | answers in order until a timeout, refinement of `PermissionExchange` |
| `relay_live` | the same in a container with other kinds, fairness | every call is answered, handlers end after Stop |
| `sm_states` | 2 threads, 1 session, 2 cancel functions, 2 tool uses, 1 queued message | nothing written to a session's state is lost, doubled or shown wrongly |
| `sm_runners` | 2 threads, 1 session with a parent, 2 Runners, 2 messages | one Runner per session, fork, tools and saved messages |
| `store_safety` | 3 threads, 2 sessions, one of the old layout, 2 crashes | config and disk agree, prunes keep what is used |
| `git_jobs` | 2 operations of 5 kinds, 2 branches, 2 pushes by others, 1 preview | a reported success is true, no conflict unreported, nothing staged lost, synced before a merge |
| `pm_v_watchdog`, `rn_v_panic`, `relay_v_match` | as small as shows it | findings, below |

Bounds. In `ProcessManager` a process, the one whose restart interferes, and one
more show the effect of any overlap; one Stop is checked, and the theorems cover
any number of Stops, processes and restarts. In `Runner` two managers and two
processes allow a restart in one manager, or an old manager that is about to
restart, or to give up, beside a start in the new one: a third process, launched
by the old manager, gets no prompt and can only end in another fatal error. Two
lines are the text that may fill a channel and the result. Two requests allow
every overlap except the one that needs a third (`CleansUp` closing the channel
of a request set up meanwhile), which the proof covers for any number.

In the relay a late answer needs one call to be late from and one to be taken
for; channels of one slot are what the code has; a second connection is the
subprocess after a restart. In `SessionStates` and `SessionManager` every race
of the code is between one thread between its two sections and another, so two
threads are enough. `sm_states` makes one state, so that a session once deleted
gets no second; `sm_states2.cfg`, which takes three minutes, makes two with one
cancel function and passes as well. In `SessionStore` the third thread is needed for a Save or a
prune beside a Create and a Delete; one crash in an operation and one in the
migration after it make two. In `GitMerge` two operations are one that
leaves something behind, or is in the middle, and one that meets it; the
theorems cover any number.

`CHECK_DEADLOCK FALSE` everywhere: after a Stop, a fatal error, a panic, or when
the bounds are used up, the system really has nothing left to do.

Fairness (`pm_live`, `relay_live`, `pm_v_watchdog`). Weak fairness of each
goroutine of the code: the Go scheduler runs what can run, timers fire, SIGKILL
is final, and no step of these goroutines waits for the user. Nothing is assumed
of the Claude process (it may run, hang or exit), of the user, of Stop being
called, or of interrupts; once Stop has begun it goes on. The abstract
`FairSpec` of `ManagedProcess` follows from it.

### What the runs show

Passing: the properties above hold in these instances. Each is a conjunct that a
small change in the code breaks: the mutants in `PROJECT.json` name one for each.

Where code and comments disagree, with a run:

- `pm_v_watchdog`: `break` in the first `select` of the startup watchdog leaves
  only the `select`; the one-shot timer channel is then empty and the watchdog
  never acts, unless the heartbeat tick happens to be picked together with it.
- `rn_v_panic`: `SendContent` closes the channel itself when `WriteMessage`
  fails. `Closed` stays unset, the crash that made the write fail is then
  reported on the closed channel, and the program panics.
- `relay_v_match`: after a timeout the answer to one permission request is taken
  for the answer to the next, and so on for every later one.

Properties that a comment claims and the models refute, without a run in
`PROJECT.json`; each has a configuration of its own, under which TLC shows the
counterexample:

| Configuration | Property | What happens |
|---|---|---|
| `pm_v_stop` | `NoRestartAfterStop` | Stop during the callbacks or the restart delay of `handleExit` finds `running` unset and returns at once; the process is started afterwards (process_manager.go:859) |
| `pm_v_stophang` | `StopReturns` | a Stop that took over before `cleanupLocked` waits for the goroutines of the process a restart has just launched (process_manager.go:447) |
| `rn_v_restart` | `NoRestartAfterResult` | `streaming.Reset` clears `Complete`, so the exit of a process that has answered is treated as a crash (claude.go:1258) |
| `rn_v_end` | `FinalChunk` | the last chunk is dropped when the channel is full, and the channel closed all the same (doc.go:43) |
| `relay_v_dial` | `SubprocessIsDialed` | the subprocess of a container that `handleExit` has restarted is not dialed (claude.go:1345) |
| `sm_v_shutdown` | `NoRunnerAfterShutdown` | a Select that loads messages while Shutdown runs publishes a Runner that nobody stops (session_manager.go:536) |
| `store_v_parent` | `NoDanglingParent` | a Save between `RemoveSession` and `ClearOrphanedParentIDs`, and a crash, leave a child whose parent does not exist (config/session.go:97) |
| `git_v_conflict` | `ConflictIsOwn` | an operation that meets the conflict another has left reports that one's files as its own (git/merge.go:141) |

(Run one with `tlc -config pm_v_stop.cfg MCProcessManager.tla`; `rn_` goes with
`MCRunner`, `relay_` with `MCPermissionRelay`, `sm_` with `MCSessionManager`,
`store_` with `MCSessionStore`, `git_` with `MCGitMerge`.)

Seen on the way, in the models but stated by no property:

- a process that exits after an interrupt leaves its request without Done and
  without a close, for good;
- `cmd.Wait` may close the stderr pipe under `drainStderr` and lose its text;
- lines are handled after `OnProcessExit`; after a restart two readers share a pipe;
- a resumed container session never closes `containerReady` on its init line;
- a late result line can mark the next request complete (`strayed`), which then
  hangs if its process exits;
- a `SendContent` that failed can close the channel of the next one (`overlapped`);
- session/doc.go:25-28 says that after a deletion the worktree remains;
  `SessionService.Delete` removes it with its branch, and cannot be repeated
  once the worktree is gone;
- the goroutine of a merge whose session is deleted waits for good at its next
  `Result`; a squash whose commit fails leaves its changes staged, and the next
  squash that fast-forwards commits them with its own; a squash in conflict has no
  MERGE_HEAD, so that `AbortMerge` fails on it; `EnsureCommitted` on a worktree
  with a conflict of a child in it commits the conflict markers.

## 5. Proofs

All theorems rest on the named assumptions on constants alone: natural numbers,
positive where an empty range would make the model meaningless, Booleans where
they are Booleans. TLC evaluates them in every run.

`ProcessManagerProofs` (any number of Stops, processes, lines and restarts,
container or not). `IInv` strengthens the checked invariants by:

- `Numbering`: only the latest process can be alive or unhandled. Without it
  `AtMostOneLiveProcess` is not inductive, since `Restart` launches a process
  while others exist.
- `Handling`: `monitorExit` passes `cmd.Wait` only when the process is dead, and
  `cleanupLocked` only when stderr is drained.
- `Running`, `Contexts`: what `pm.running` and `pm.cancel` vouch for.
- `Attempts`: the count `handleExit` holds on to is never below `streak`,
  although a result may reset `restartAttempts` meanwhile.
- `Stderr`, `Fatality`, `Stopped`: whose text `stderrContent` is, and that
  nothing is on its way to `Start` once the end has been announced or a Stop has
  waited.

From it: `TypeCorrectness`, `OneLiveProcess`, `RunningVouches`,
`ContextsReleased`, `StopLeavesQuiet`, `FatalErrorIsLast`, `RestartsAreBounded`,
`StderrAttributed`. `ProcessManagerRefinement` maps the state to `Phase` and
proves `Implementation`, one lemma per action.

`RunnerProofs` (any number of requests, managers, processes, lines and calls).
`IInv` is `TypeOK`, `Numbering` and the request side:

- `Sending`: a `SendContent` about to close has sent its error before.
- `Order`: requests are set up in turn, and the current channel is that of the
  last one set up. Hence `SetUp` always moves on to a later channel.
- `Overlaps`: a `SendContent` still under way when a later request is current
  has made that request `overlapped`. So when `CleansUp` closes a channel, it is
  its own and has been told the error, or it belongs to an overlapping request.
- `FlagsAreTrue` and `NoBareClose` themselves. `Finishes` closes either the
  channel it has just sent Done to, one that was full and becomes `missed`, or one
  that becomes `strayed`.

From it: `TypeCorrectness`, `FlagsTellTheTruth`, `ClosedMeansTold`. One lemma per
action; `RequestSideKept`, `SenderMoves` and `SenderTells` carry most of them.

`NobodyWaitsInVain` (`NoSilentEnd`) follows a request through every goroutine
that may still end it. Inductive together with `IInv` is `EndSide`:

- `Watched`: a live process is waited for, and a manager handles one exit at a
  time, so that what one exit does to the flags of its manager disturbs no other.
- `Vouched`: until Stop is called a manager counts as running while its process is
  waited for, and the Runner is not stopped. Hence `HandleExit` never passes over
  an exit without a word.
- `Uninterrupted`: neither the current manager nor the one the request at hand is
  written to is interrupted. So the write that ends a SendContent leaves a process
  behind whose exit will be told.
- `Turns`: a request is followed by another once it is closed or interrupted.
- `Completed`: while `complete` forbids a restart, a reader that has seen the
  result of the request at hand is about to finish it, or the result was a stray.
- `Kept`: the request at hand, once its SendContent is done, is closed, or such a
  reader (`Finishing`) or the exit handling of an uninterrupted manager (`Telling`)
  is left.

One lemma per group of actions; `EndSideStays`, `OutputStays` and `ExitStays` are
the frames.

`PermissionRelayProofs` (any number of calls, tools and generations of the
subprocess). `XInv` is:

- `Typed`: types, at most one value in each direction of a channel pair, and what
  a forwarder, a handler or a prompt has in hand is a call of its kind.
- `Asking`: the request of a call is in one place at most, in one of its two
  channel pairs, in the hand of one goroutine, on one connection or in the prompt,
  until the user has spoken.
- `Answering`: so is what the user has said, until a call has used it; on its way
  it remains what was said, under the kind of its call.

Without the places being apart a response could be spent twice, and the refinement
would fail. `ExchangeIsImplemented` rests on `XInv`, with a lemma for each group of
actions: the prompt and the server loop take steps of `PermissionExchange`, the
hops in between stutter.

`AnswersInOrder` (`InOrderUntilDisturbed`) adds `HandlersInTime` (a handler starts
with its connection and serves it while the subprocess lives) and
`TidyUntilDisturbed`: while nothing has timed out or been lost, the call at hand is
in exactly one of the places a call passes through and everything else is
empty. It says why IDs that nobody compares do no harm until then; the first
timeout breaks it, as `relay_v_match` shows.

`SessionStoreProofs` (any number of goroutines, sessions and crashes). `IInv` is:

- `Typed` and `Entered`: no application runs on a torn file, a path says whether
  a session exists, and one that is being migrated still has its old path.
- `FreshIsUnknown`: a session whose Create is before its `AddSession` is in
  neither the config, the file nor the files of messages, and has one Create.
- `ThreadsKnow`: what a Delete or a save of messages has in hand is not such a
  session. Hence a prune of messages, which lists the files before it reads the
  config, never holds one of a session in the config. A prune of worktrees, which
  reads the config first, may: its session was created since (`young`).
- `Fits`: an entry of the config, or of the file, names the place the worktree is
  in, except in the middle of its move.
- `FileFollows`: the file is the memory unless a thread that has changed it is on
  its way to `Save`. A crash loses that thread, which is why `Fits` speaks of the
  file as well.

From it: `TypeCorrectness`, `WorktreeIsWhereItSays`, `NothingUnsaved`, and the
action property `PruneIsSafe`.

`GitMergeProofs` (any number of operations, branches, changes of others and
previews). `IInv` is `TypeOK`, `ConflictIsReported`, `NothingIsLost` (a change is
still to be committed or in its branch) and, for each operation, `JobInv`:

- `Shape`: which steps each kind of operation has, and that an outcome is set
  exactly when the last `Result` is due. Without it nothing is known of an
  operation that is about to tell.
- `Committed`: past its commit an operation works with a branch that has the
  change. Hence what it merges or pushes is what the session made.
- `Synced`: what the fetch saw is tracked, then in the default branch. It does
  not matter that other operations fetch and pull in the same checkout, since
  branches only grow.
- `OnMain`: only the preview takes the main repository elsewhere, and `moved`
  says so. A merge goes into the branch that is checked out.
- `StagedOrMerged`: a squash about to commit still has its change staged, or
  another commit has taken it. A conflict cannot come in between: git refuses a
  merge that does not fast-forward while something is staged.
- `Delivered`: a success that is about to be told is true already.

`StillJob`, `StillRepo` and `OneJob` carry what a step leaves of the operations it
does not move; every action has a lemma of its own. From `IInv`:
`TypeCorrectness`, `SuccessIsTrue`, `MergesAreSynced`, `SquashesAreKept`,
`ConflictsAreReported`, `JobsTell`.

`SessionStatesProofs` and `SessionManagerProofs` (any number of goroutines, sessions,
states, Runners, messages, tool uses and tools). `IInv` is the conjunction of
`StatesInv`, about the states, and `RunnersInv`, about the Runners:

- `Shape`: a thread between the lookup of a state and its write holds a state
  that is in the map or in `orphaned`, and no state is in the map twice.
- `CancelIsNotLost` is inductive with it: a cancel function is on its way in a
  Start, or in a state.
- `Messages`: a message not yet handed out is in one place, in the hand of one
  `SetPendingMsg` or pending in one state. Hence a consuming get hands out a message that
  nobody else can still find.
- `Lines`: a tool use is in one `AddToolUse` or on one line; Flush and Select
  move whole sequences of lines, so that a line keeps its tool use and its mark.
- `Base`: a Runner in the map, or in a thread's hand, is of the session at hand.
- `Forks`: a Runner with a history to inherit has been set up to fork, or the
  one thread that made it is still to do that.
- `Allowed`: a tool of the config that the configured Runner lacks is in the hand
  of an `AddAllowedTool` that will find this Runner, or has found it.
- `Saved`: what has not been outrun, in a Runner or in a thread's hand, is no
  shorter than the file.

The states see of a step of the manager that it moves a thread that has no state
in its hand (`UntouchedInv`); the Runners see of a step of the states that nothing
of theirs changes (`StatesStayQuiet`). That is how the invariants compose. From
`IInv`: `TypeCorrectness`, `CancelsAreKept`, `MessagesAreTakenOnce`,
`ToolsAreDone`, `ToolsAreShownOnce`, `RunnersAreRegistered`, `ForksInherit`,
`AllowedToolsArrive`, and the action property `FilesNeverGoBack`.

Model-checked only: liveness and the fair refinement (`ExitHandled`,
`StopReturnsOrRestarted`, `ImplementsFairLifecycle`, `CallsAreAnswered`,
`HandlersEnd`), which need ENABLED.

## 6. Not modelled

GitHub, issue providers, executor, logger, paths and prerequisites are I/O
without a protocol, or single lookups. The mock runner is a test double. Parsing
and formatting of single lines are left out: a line is of the kind whose handling
differs. Numbers of tokens and the text of a response are data no property here
is about. Of the config, setters of one field under one mutex, repositories, MCP
servers and preferences have no interaction to speak of; of a session state, the
plain getters and setters. Of git, the making of diffs, summaries, commit
messages and branch names changes no branch.
