--------------------------- MODULE ProcessManager ---------------------------
(***************************************************************************)
(* One claude.ProcessManager (src/claude/process_manager.go): the mutex-   *)
(* protected fields, the goroutines Start launches for every process       *)
(* (readOutput, drainStderr, monitorExit with handleExit, and the          *)
(* container watchdog), any number of concurrent calls of Stop, and the    *)
(* Claude CLI process at the other end of the pipes.                       *)
(*                                                                         *)
(* Processes are numbered in the order Start launches them; a pointer      *)
(* field (pm.cmd, pm.stdin, ...) holds the number of the process it        *)
(* belongs to and 0 stands for nil.  Every critical section of pm.mu is    *)
(* one step.  pm.waitDone, pm.stderrDone, pm.stderr and pm.containerReady  *)
(* are set and read together with pm.cmd, so they need no pointer: the     *)
(* channels themselves are waitDone, drain = "done" and readyClosed.       *)
(***************************************************************************)
EXTENDS Naturals, Sequences

CONSTANTS
  Stoppers,                  \* concurrent callers of Stop()
  Containerized,             \* config.Containerized
  MaxProcessRestartAttempts, \* claude.go: 3
  MaxProcesses,              \* bound: later calls of Start can only fail
  MaxLines,                  \* bound: lines a process writes that matter here
  MayWriteStderr             \* bound: {FALSE}, or BOOLEAN when stderr matters

ASSUME ContainerizedAssumption == Containerized \in BOOLEAN
ASSUME RestartsAssumption == MaxProcessRestartAttempts \in Nat
ASSUME ProcessesAssumption == MaxProcesses \in Nat \ {0}
ASSUME LinesAssumption == MaxLines \in Nat
ASSUME StderrAssumption == MayWriteStderr \subseteq BOOLEAN

Procs == 1..MaxProcesses
NoProc == 0

\* The two lines whose handling touches the manager (Runner.handleProcessLine).
Lines == {"init", "result"}

VARIABLES
  \* Fields of the ProcessManager struct.
  running, interrupted, restartAttempts,
  cmd, stdin, stdout,
  ctxCancelled,     \* the processes whose context has been cancelled
  cancel,           \* pm.cancel # nil
  readyClosed,      \* the processes whose containerReady channel is closed
  containerTimeout,
  stderrContent,    \* pm.stderrContent # ""
  sessionStarted,   \* config.SessionStarted: --resume instead of --session-id
  authFile,         \* the container credentials file exists on the host
  \* The Claude processes and their pipes.
  started,          \* the owner has called Start
  launched,         \* the number of the latest process; pm.ctx is its context
  proc,             \* "none", "alive" or "dead"
  emitted,          \* number of lines written to stdout so far
  out,              \* lines in the stdout pipe and in the bufio.Reader
  noisy,            \* the process writes to stderr before it exits
  waitDone,         \* the processes whose waitDone channel is closed
  \* Goroutines, one of each kind per process.
  reader, readerSrc,                             \* readOutput
  drain,                                         \* drainStderr
  monitor, exitQuiet, exitAttempts, exitStderr,  \* monitorExit, handleExit
  watchdog, killTarget,                          \* containerStartupWatchdog
  stopper, stopTarget,                           \* calls of Stop
  \* What the owner has been told through the callbacks.
  reported,         \* the processes whose OnProcessExit has been called
  fatal,            \* OnFatalError has been called
  streak            \* restarts granted since the last result line

fields    == <<running, cmd, stdin, stdout>>
ctxVars   == <<ctxCancelled, cancel>>
procVars  == <<started, launched, proc, emitted, out, noisy, waitDone>>
readVars  == <<reader, readerSrc>>
exitVars  == <<exitQuiet, exitAttempts, exitStderr>>
dogVars   == <<watchdog, killTarget>>
stopVars  == <<stopper, stopTarget>>
toldVars  == <<reported, fatal, streak>>
vars == <<fields, ctxVars, interrupted, restartAttempts, readyClosed,
          containerTimeout, stderrContent, sessionStarted, authFile, procVars,
          readVars, drain, monitor, exitVars, dogVars, stopVars, toldVars>>

ReaderStates   == {"none", "top", "read", "init", "result", "done"}
DrainStates    == {"none", "draining", "done"}
MonitorStates  == {"none", "wait", "await", "exit", "drain", "quiet", "exited",
                   "sleep", "giveup", "done"}
WatchdogStates == {"none", "waiting", "due", "deaf", "fired", "kill", "done"}
StopperStates  == {"idle", "wait", "killed", "wg", "final", "stopped", "noop"}

FlagsOK ==
  /\ running \in BOOLEAN /\ interrupted \in BOOLEAN /\ cancel \in BOOLEAN
  /\ containerTimeout \in BOOLEAN /\ stderrContent \in BOOLEAN
  /\ sessionStarted \in BOOLEAN /\ authFile \in BOOLEAN
  /\ started \in BOOLEAN /\ fatal \in BOOLEAN

FieldsOK ==
  /\ restartAttempts \in 0..MaxProcessRestartAttempts
  /\ cmd \in Procs \cup {NoProc} /\ stdin \in Procs \cup {NoProc}
  /\ stdout \in Procs \cup {NoProc}
  /\ ctxCancelled \subseteq Procs /\ readyClosed \subseteq Procs
  /\ reported \subseteq Procs /\ streak \in Nat

ProcessesOK ==
  /\ launched \in 0..MaxProcesses
  /\ proc \in [Procs -> {"none", "alive", "dead"}]
  /\ emitted \in [Procs -> 0..MaxLines]
  /\ out \in [Procs -> Seq(Lines)]
  /\ noisy \in [Procs -> BOOLEAN]
  /\ waitDone \subseteq Procs

GoroutinesOK ==
  /\ reader \in [Procs -> ReaderStates]
  /\ readerSrc \in [Procs -> Procs \cup {NoProc}]
  /\ drain \in [Procs -> DrainStates]
  /\ monitor \in [Procs -> MonitorStates]
  /\ watchdog \in [Procs -> WatchdogStates]
  /\ killTarget \in [Procs -> Procs \cup {NoProc}]

ExitsOK ==
  /\ exitQuiet \in [Procs -> BOOLEAN]
  /\ exitAttempts \in [Procs -> 0..MaxProcessRestartAttempts]
  /\ exitStderr \in [Procs -> BOOLEAN]

StoppersOK ==
  /\ stopper \in [Stoppers -> StopperStates]
  /\ stopTarget \in [Stoppers -> Procs \cup {NoProc}]

TypeOK ==
  FlagsOK /\ FieldsOK /\ ProcessesOK /\ GoroutinesOK /\ ExitsOK /\ StoppersOK

Init ==
  /\ running = FALSE /\ interrupted = FALSE /\ restartAttempts = 0
  /\ cmd = NoProc /\ stdin = NoProc /\ stdout = NoProc
  /\ ctxCancelled = {} /\ cancel = FALSE
  /\ readyClosed = {} /\ containerTimeout = FALSE /\ stderrContent = FALSE
  /\ sessionStarted \in BOOLEAN
  /\ authFile = FALSE
  /\ started = FALSE /\ launched = 0
  /\ proc = [p \in Procs |-> "none"]
  /\ emitted = [p \in Procs |-> 0]
  /\ out = [p \in Procs |-> <<>>]
  /\ noisy = [p \in Procs |-> FALSE]
  /\ waitDone = {}
  /\ reader = [p \in Procs |-> "none"]
  /\ readerSrc = [p \in Procs |-> NoProc]
  /\ drain = [p \in Procs |-> "none"]
  /\ monitor = [p \in Procs |-> "none"]
  /\ exitQuiet = [p \in Procs |-> FALSE]
  /\ exitAttempts = [p \in Procs |-> 0]
  /\ exitStderr = [p \in Procs |-> FALSE]
  /\ watchdog = [p \in Procs |-> "none"]
  /\ killTarget = [p \in Procs |-> NoProc]
  /\ stopper = [s \in Stoppers |-> "idle"]
  /\ stopTarget = [s \in Stoppers |-> NoProc]
  /\ reported = {} /\ fatal = FALSE /\ streak = 0

-----------------------------------------------------------------------------
(* Start.  The owner (Runner.ensureProcessRunning) calls it once, on a     *)
(* fresh manager; handleExit calls it again to restart.                    *)

\* Mutants: the previous context is forgotten; the new one is cancelled instead.
CtxForgotten == ctxCancelled
CtxSwapped == ctxCancelled \cup {launched + 1}

\* pm.cancel(), if set: the current context becomes cancelled.
CtxAfterCancel == IF cancel THEN ctxCancelled \cup {launched} ELSE ctxCancelled

\* Everything Start assigns once cmd.Start has succeeded, except the pc of the
\* goroutine that called it: monitorPC is monitor with that pc already changed.
Launch(monitorPC) ==
  LET p == launched + 1 IN
  /\ ~running
  /\ launched < MaxProcesses
  /\ launched' = p
  /\ running' = TRUE /\ cmd' = p /\ stdin' = p /\ stdout' = p
  /\ ctxCancelled' = CtxAfterCancel
  /\ cancel' = TRUE
  /\ containerTimeout' = (containerTimeout /\ ~Containerized)
  /\ authFile' = (authFile \/ Containerized)
  /\ stderrContent' = FALSE
  /\ proc' = [proc EXCEPT ![p] = "alive"]
  /\ \E b \in MayWriteStderr : noisy' = [noisy EXCEPT ![p] = b]
  /\ reader' = [reader EXCEPT ![p] = "top"]
  /\ drain' = [drain EXCEPT ![p] = "draining"]
  /\ monitor' = [monitorPC EXCEPT ![p] = "wait"]
  /\ watchdog' = [watchdog EXCEPT ![p] = IF Containerized THEN "waiting" ELSE "none"]
  /\ UNCHANGED <<interrupted, restartAttempts, readyClosed, sessionStarted,
                 emitted, out, waitDone, readerSrc, exitVars,
                 killTarget, stopVars, toldVars>>

\* Start fails before it assigns a field: no credentials, a pipe that cannot be
\* opened, or cmd.Start itself; in the later cases the auth file is written.
LaunchFails ==
  /\ ~running
  /\ authFile' \in {authFile, authFile \/ Containerized}
  /\ UNCHANGED <<fields, ctxVars, interrupted, restartAttempts, readyClosed,
                 containerTimeout, stderrContent, sessionStarted, launched,
                 proc, emitted, out, noisy, waitDone, readVars, drain,
                 exitVars, dogVars, stopVars>>

Start ==
  /\ ~started
  /\ started' = TRUE
  /\ \/ Launch(monitor)
     \/ LaunchFails /\ UNCHANGED <<monitor, toldVars>>

-----------------------------------------------------------------------------
(* The Claude CLI process.  It may write, exit or stay silent as it likes; *)
(* it also exits at will after its stdin is closed, after SIGINT, or when  *)
(* `docker rm -f` removes its container.                                   *)

ProcWrites(p, line) ==
  /\ proc[p] = "alive" /\ emitted[p] < MaxLines
  /\ emitted' = [emitted EXCEPT ![p] = @ + 1]
  /\ out' = [out EXCEPT ![p] = Append(@, line)]
  /\ UNCHANGED <<fields, ctxVars, interrupted, restartAttempts, readyClosed,
                 containerTimeout, stderrContent, sessionStarted, authFile,
                 started, launched, proc, noisy, waitDone, readVars,
                 drain, monitor, exitVars, dogVars, stopVars, toldVars>>

ProcExits(p) ==
  /\ proc[p] = "alive"
  /\ proc' = [proc EXCEPT ![p] = "dead"]
  /\ UNCHANGED <<fields, ctxVars, interrupted, restartAttempts, readyClosed,
                 containerTimeout, stderrContent, sessionStarted, authFile,
                 started, launched, emitted, out, noisy, waitDone,
                 readVars, drain, monitor, exitVars, dogVars, stopVars, toldVars>>

\* Mutant: the kill is never sent.
NotKilled(p) == proc

\* The process table after os.Process.Kill; a process that has already exited
\* (or is not there) is left alone.
Killed(p) == [q \in Procs |-> IF q = p /\ proc[q] = "alive" THEN "dead" ELSE proc[q]]

-----------------------------------------------------------------------------
(* readOutput: one goroutine per process, but it reads whatever pm.stdout  *)
(* and pm.ctx are when it looks.                                           *)

readerUnchanged ==
  <<fields, ctxVars, interrupted, containerTimeout, stderrContent, authFile,
    started, launched, proc, emitted, noisy, waitDone, drain, monitor,
    exitVars, dogVars, stopVars, reported, fatal>>

\* The head of the loop: leave, or go and read from the current pm.stdout.
ReaderChecks(p) ==
  /\ reader[p] = "top"
  /\ IF launched \in ctxCancelled \/ ~running \/ stdout = NoProc
       THEN /\ reader' = [reader EXCEPT ![p] = "done"]
            /\ UNCHANGED readerSrc
       ELSE /\ reader' = [reader EXCEPT ![p] = "read"]
            /\ readerSrc' = [readerSrc EXCEPT ![p] = stdout]
  /\ UNCHANGED <<readerUnchanged, out, restartAttempts, readyClosed,
                 sessionStarted, streak>>

\* readLine returns a line, and OnLine is called with it.
ReaderReads(p) ==
  LET src == readerSrc[p] IN
  /\ reader[p] = "read"
  /\ out[src] # <<>>
  /\ reader' = [reader EXCEPT ![p] = Head(out[src])]
  /\ readerSrc' = [readerSrc EXCEPT ![p] = NoProc]
  /\ out' = [out EXCEPT ![src] = Tail(@)]
  /\ UNCHANGED <<readerUnchanged, restartAttempts, readyClosed,
                 sessionStarted, streak>>

\* readLine returns an error: end of file, a closed pipe, or a cancelled context.
ReaderEnds(p) ==
  LET src == readerSrc[p] IN
  /\ reader[p] = "read"
  /\ src \in ctxCancelled \/ (proc[src] = "dead" /\ out[src] = <<>>)
  /\ reader' = [reader EXCEPT ![p] = "done"]
  /\ readerSrc' = [readerSrc EXCEPT ![p] = NoProc]
  /\ UNCHANGED <<readerUnchanged, out, restartAttempts, readyClosed,
                 sessionStarted, streak>>

\* pm.MarkSessionStarted, which the owner calls while it handles a line.
MarkSessionStarted ==
  /\ sessionStarted' = TRUE
  /\ readyClosed' = IF Containerized /\ launched > 0
                      THEN readyClosed \cup {launched} ELSE readyClosed

\* OnLine for the init message marks the session only the first time ever.
OnInitLine(p) ==
  /\ reader[p] = "init"
  /\ reader' = [reader EXCEPT ![p] = "top"]
  /\ IF sessionStarted THEN UNCHANGED <<sessionStarted, readyClosed>>
                       ELSE MarkSessionStarted
  /\ UNCHANGED <<readerUnchanged, readerSrc, out, restartAttempts, streak>>

\* OnLine for a result message: MarkSessionStarted and ResetRestartAttempts.
OnResultLine(p) ==
  /\ reader[p] = "result"
  /\ reader' = [reader EXCEPT ![p] = "top"]
  /\ MarkSessionStarted
  /\ restartAttempts' = 0
  /\ streak' = 0
  /\ UNCHANGED <<readerUnchanged, readerSrc, out>>

-----------------------------------------------------------------------------
(* drainStderr reads to the end of stderr and stores what it got.  When    *)
(* cmd.Wait has closed the pipe under it, what was still unread is lost.   *)

\* Mutant: a read error returns before stderrDone is closed.
DrainStderrNoClose(p) ==
  /\ drain[p] = "draining" /\ proc[p] = "dead"
  /\ drain' = [drain EXCEPT ![p] = IF p \in waitDone THEN @ ELSE "done"]
  /\ \E got \in BOOLEAN :
       /\ p \notin waitDone => got
       /\ stderrContent' = (stderrContent \/ (noisy[p] /\ got))
  /\ UNCHANGED <<fields, ctxVars, interrupted, restartAttempts, readyClosed,
                 containerTimeout, sessionStarted, authFile, procVars, readVars,
                 monitor, exitVars, dogVars, stopVars, toldVars>>

DrainStderr(p) ==
  /\ drain[p] = "draining" /\ proc[p] = "dead"
  /\ drain' = [drain EXCEPT ![p] = "done"]
  /\ \E got \in BOOLEAN :
       /\ p \notin waitDone => got
       /\ stderrContent' = (stderrContent \/ (noisy[p] /\ got))
  /\ UNCHANGED <<fields, ctxVars, interrupted, restartAttempts, readyClosed,
                 containerTimeout, sessionStarted, authFile, procVars, readVars,
                 monitor, exitVars, dogVars, stopVars, toldVars>>

-----------------------------------------------------------------------------
(* monitorExit: the only caller of cmd.Wait.                               *)

monitorUnchanged ==
  <<started, emitted, noisy, readVars, drain, dogVars, stopVars>>

\* Its select sees the cancelled context first: only wait from now on.
MonitorCancelled(p) ==
  /\ monitor[p] = "wait" /\ p \in ctxCancelled
  /\ monitor' = [monitor EXCEPT ![p] = "await"]
  /\ UNCHANGED <<monitorUnchanged, fields, ctxVars, interrupted,
                 restartAttempts, readyClosed, containerTimeout, stderrContent,
                 sessionStarted, authFile, launched, proc, out, waitDone,
                 exitVars, toldVars>>

\* Mutant: the exit is handled without waiting for the process.
WaitSkipped(p) == p \in Procs

\* cmd.Wait can return.
WaitReturns(p) == proc[p] = "dead"

\* cmd.Wait returns: it has closed the stdout pipe, so of the lines not yet
\* delivered only the ones the bufio.Reader already holds survive.
MonitorReaps(p) ==
  /\ monitor[p] \in {"wait", "await"} /\ WaitReturns(p)
  /\ waitDone' = waitDone \cup {p}
  /\ \E n \in 0..Len(out[p]) : out' = [out EXCEPT ![p] = SubSeq(@, 1, n)]
  /\ monitor' = [monitor EXCEPT ![p] = IF @ = "wait" THEN "exit" ELSE "done"]
  /\ UNCHANGED <<monitorUnchanged, fields, ctxVars, interrupted,
                 restartAttempts, readyClosed, containerTimeout, stderrContent,
                 sessionStarted, authFile, launched, proc, exitVars, toldVars>>

\* handleExit up to its first Unlock.
HandleExit(p) ==
  /\ monitor[p] = "exit"
  /\ IF running
       THEN /\ exitQuiet' = [exitQuiet EXCEPT ![p] = interrupted \/ launched \in ctxCancelled]
            /\ exitAttempts' = [exitAttempts EXCEPT ![p] = restartAttempts]
            /\ interrupted' = FALSE
            /\ monitor' = [monitor EXCEPT ![p] = "drain"]
       ELSE /\ monitor' = [monitor EXCEPT ![p] = "done"]
            /\ UNCHANGED <<exitQuiet, exitAttempts, interrupted>>
  /\ UNCHANGED <<monitorUnchanged, fields, ctxVars, restartAttempts,
                 readyClosed, containerTimeout, stderrContent, sessionStarted,
                 authFile, launched, proc, out, waitDone, exitStderr, toldVars>>

\* Mutant: handleExit does not wait for stderrDone.
StderrAssumedDone(p) == p \in Procs

\* The stderrDone channel is closed.
StderrDone(p) == drain[p] = "done"

\* handleExit after <-stderrDone: take the captured stderr, then cleanupLocked.
CleanupLocked(p) ==
  /\ monitor[p] = "drain" /\ StderrDone(p)
  /\ exitStderr' = [exitStderr EXCEPT ![p] = stderrContent]
  /\ stdin' = NoProc /\ cmd' = NoProc /\ stdout' = NoProc
  /\ stderrContent' = FALSE
  /\ running' = FALSE
  /\ readyClosed' = IF Containerized THEN readyClosed \cup {launched} ELSE readyClosed
  /\ monitor' = [monitor EXCEPT ![p] = IF exitQuiet[p] THEN "quiet" ELSE "exited"]
  /\ UNCHANGED <<monitorUnchanged, ctxVars, interrupted, restartAttempts,
                 containerTimeout, sessionStarted, authFile, launched, proc,
                 out, waitDone, exitQuiet, exitAttempts, toldVars>>

\* The tail of handleExit touches few fields.
handleExitUnchanged ==
  <<monitorUnchanged, fields, ctxVars, interrupted, readyClosed,
    containerTimeout, stderrContent, sessionStarted, launched, proc, out,
    waitDone, exitVars>>

\* An interrupted process: OnProcessExit is told, its answer is not used.
ReportQuietExit(p) ==
  /\ monitor[p] = "quiet"
  /\ reported' = reported \cup {p}
  /\ monitor' = [monitor EXCEPT ![p] = "done"]
  /\ UNCHANGED <<handleExitUnchanged, restartAttempts, authFile, fatal, streak>>

\* The watchdog killed it: report, never restart.
ReportContainerTimeout(p) ==
  /\ monitor[p] = "exited" /\ containerTimeout
  /\ authFile' = (authFile /\ ~Containerized)
  /\ fatal' = TRUE
  /\ monitor' = [monitor EXCEPT ![p] = "done"]
  /\ UNCHANGED <<handleExitUnchanged, restartAttempts, reported, streak>>

\* Mutant: <= instead of <.
OneAttemptMore(p) == exitAttempts[p] <= MaxProcessRestartAttempts

AttemptsLeft(p) == exitAttempts[p] < MaxProcessRestartAttempts

\* Any other exit: OnProcessExit decides, then the attempts are counted.
ReportExit(p) ==
  /\ monitor[p] = "exited" /\ ~containerTimeout
  /\ reported' = reported \cup {p}
  /\ \/ /\ monitor' = [monitor EXCEPT ![p] = "done"]
        /\ UNCHANGED <<restartAttempts, streak>>
     \/ /\ ~AttemptsLeft(p)
        /\ monitor' = [monitor EXCEPT ![p] = "giveup"]
        /\ UNCHANGED <<restartAttempts, streak>>
     \/ /\ AttemptsLeft(p)
        /\ restartAttempts' = exitAttempts[p] + 1
        /\ streak' = streak + 1
        /\ monitor' = [monitor EXCEPT ![p] = "sleep"]
  /\ UNCHANGED <<handleExitUnchanged, authFile, fatal>>

\* Mutant: the restart does not wait for cmd.Wait, only for pm.running to be FALSE.
RestartEarly(p) ==
  /\ monitor[p] \in {"wait", "sleep"}
  /\ Launch([monitor EXCEPT ![p] = "done"])
  /\ UNCHANGED started

\* After ProcessRestartDelay, Start again; this goroutine ends either way.
Restart(p) ==
  /\ monitor[p] = "sleep"
  /\ Launch([monitor EXCEPT ![p] = "done"])
  /\ UNCHANGED started

\* Mutant: the goroutine goes on after the fatal error.
RestartFailsAndRetries(p) ==
  /\ monitor[p] = "sleep"
  /\ monitor' = monitor
  /\ authFile' = (authFile /\ ~Containerized)
  /\ fatal' = TRUE
  /\ UNCHANGED <<handleExitUnchanged, restartAttempts, reported, streak>>

RestartFails(p) ==
  /\ monitor[p] = "sleep"
  /\ monitor' = [monitor EXCEPT ![p] = "done"]
  /\ authFile' = (authFile /\ ~Containerized)
  /\ fatal' = TRUE
  /\ UNCHANGED <<handleExitUnchanged, restartAttempts, reported, streak>>

\* Max restarts exceeded.
GiveUp(p) ==
  /\ monitor[p] = "giveup"
  /\ monitor' = [monitor EXCEPT ![p] = "done"]
  /\ authFile' = (authFile /\ ~Containerized)
  /\ fatal' = TRUE
  /\ UNCHANGED <<handleExitUnchanged, restartAttempts, reported, streak>>

-----------------------------------------------------------------------------
(* containerStartupWatchdog.  It is "waiting" until the 60s have passed,   *)
(* "due" while the one-shot timeout channel holds its value, and "deaf"    *)
(* once it has received that value without acting on it.                   *)

dogUnchanged ==
  <<fields, ctxVars, interrupted, restartAttempts, readyClosed, stderrContent,
    sessionStarted, authFile, started, launched, emitted, out, noisy,
    waitDone, readVars, drain, monitor, exitVars, stopVars, toldVars>>

Waiting == {"waiting", "due", "deaf"}

DogMoves(p, from, to) ==
  /\ watchdog[p] \in from
  /\ watchdog' = [watchdog EXCEPT ![p] = to]

TimeoutPasses(p) ==
  /\ DogMoves(p, {"waiting"}, "due")
  /\ UNCHANGED <<dogUnchanged, containerTimeout, proc, killTarget>>

\* The first select picks <-timeout.  Its `break` leaves the select only, and
\* the second select finds the channel empty: `continue`.
WatchdogTakesTimeout(p) ==
  /\ DogMoves(p, {"due"}, "deaf")
  /\ UNCHANGED <<dogUnchanged, containerTimeout, proc, killTarget>>

\* The first select picks the heartbeat tick that is due at the same moment,
\* and the second select is the one to receive from timeout.
WatchdogTicks(p) ==
  /\ DogMoves(p, {"due"}, "fired")
  /\ UNCHANGED <<dogUnchanged, containerTimeout, proc, killTarget>>

\* The container is ready (or its process is gone), or the context is cancelled.
WatchdogLeaves(p) ==
  /\ p \in readyClosed \/ launched \in ctxCancelled
  /\ DogMoves(p, Waiting, "done")
  /\ UNCHANGED <<dogUnchanged, containerTimeout, proc, killTarget>>

\* After `docker logs`, under the lock: note the timeout and pick pm.cmd.
WatchdogMarksTimeout(p) ==
  /\ DogMoves(p, {"fired"}, "kill")
  /\ containerTimeout' = TRUE
  /\ killTarget' = [killTarget EXCEPT ![p] = cmd]
  /\ UNCHANGED <<dogUnchanged, proc>>

WatchdogKills(p) ==
  /\ DogMoves(p, {"kill"}, "done")
  /\ proc' = Killed(killTarget[p])
  /\ killTarget' = [killTarget EXCEPT ![p] = NoProc]
  /\ UNCHANGED <<dogUnchanged, containerTimeout>>

-----------------------------------------------------------------------------
(* Stop.                                                                   *)

stopUnchanged ==
  <<interrupted, restartAttempts, readyClosed, containerTimeout, stderrContent,
    sessionStarted, started, launched, emitted, out, noisy, waitDone,
    readVars, drain, monitor, exitVars, dogVars, toldVars>>

\* The first critical section: cancel the context, and unless the process is
\* not running, take over: running becomes false and stdin is closed.
StopBegins(s) ==
  /\ started
  /\ stopper[s] = "idle"
  /\ ctxCancelled' = CtxAfterCancel
  /\ cancel' = FALSE
  /\ IF running
       THEN /\ running' = FALSE
            /\ stdin' = NoProc
            /\ stopTarget' = [stopTarget EXCEPT ![s] = cmd]
            /\ stopper' = [stopper EXCEPT ![s] = "wait"]
       ELSE /\ stopper' = [stopper EXCEPT ![s] = "noop"]
            /\ UNCHANGED <<running, stdin, stopTarget>>
  /\ UNCHANGED <<stopUnchanged, cmd, stdout, authFile, proc>>

\* Two seconds without waitDone: kill.
StopKills(s) ==
  /\ stopper[s] = "wait"
  /\ stopTarget[s] \notin waitDone
  /\ proc' = Killed(stopTarget[s])
  /\ stopper' = [stopper EXCEPT ![s] = "killed"]
  /\ UNCHANGED <<stopUnchanged, fields, ctxVars, authFile, stopTarget>>

\* waitDone is closed; remove the container and its credentials file.
StopReaped(s) ==
  /\ stopper[s] \in {"wait", "killed"}
  /\ stopTarget[s] \in waitDone
  /\ authFile' = (authFile /\ ~Containerized)
  /\ stopper' = [stopper EXCEPT ![s] = "wg"]
  /\ UNCHANGED <<stopUnchanged, fields, ctxVars, proc, stopTarget>>

\* The goroutines pm.wg counts have all returned.
Idle(p) ==
  /\ reader[p] \in {"none", "done"} /\ drain[p] \in {"none", "done"}
  /\ monitor[p] \in {"none", "done"} /\ watchdog[p] \in {"none", "done"}

GoroutinesDone == \A p \in Procs : Idle(p)

\* Mutant: Stop returns without wg.Wait.
StopSkipsWait(s) ==
  /\ stopper[s] = "wg"
  /\ stopper' = [stopper EXCEPT ![s] = "final"]
  /\ UNCHANGED <<stopUnchanged, fields, ctxVars, authFile, proc, stopTarget>>

\* wg.Wait returns.
StopWaits(s) ==
  /\ stopper[s] = "wg" /\ GoroutinesDone
  /\ stopper' = [stopper EXCEPT ![s] = "final"]
  /\ UNCHANGED <<stopUnchanged, fields, ctxVars, authFile, proc, stopTarget>>

StopFinishes(s) ==
  /\ stopper[s] = "final"
  /\ cmd' = NoProc /\ stdout' = NoProc
  /\ stopper' = [stopper EXCEPT ![s] = "stopped"]
  /\ stopTarget' = [stopTarget EXCEPT ![s] = NoProc]
  /\ UNCHANGED <<stopUnchanged, running, stdin, ctxVars, authFile, proc>>

-----------------------------------------------------------------------------
(* Runner.Interrupt sets the flag and then sends SIGINT if a process runs  *)
(* (ProcExits says what that may do); SendContent resets the flag.         *)

SetInterrupted(b) ==
  /\ started /\ interrupted # b
  /\ interrupted' = b
  /\ UNCHANGED <<fields, ctxVars, restartAttempts, readyClosed,
                 containerTimeout, stderrContent, sessionStarted, authFile,
                 procVars, readVars, drain, monitor, exitVars, dogVars,
                 stopVars, toldVars>>

-----------------------------------------------------------------------------
ReaderStep(p) ==
  ReaderChecks(p) \/ ReaderReads(p) \/ ReaderEnds(p) \/ OnInitLine(p) \/ OnResultLine(p)

HandleExitStep(p) ==
  \/ HandleExit(p) \/ CleanupLocked(p) \/ ReportQuietExit(p)
  \/ ReportContainerTimeout(p) \/ ReportExit(p)
  \/ Restart(p) \/ RestartFails(p) \/ GiveUp(p)

MonitorStep(p) == MonitorCancelled(p) \/ MonitorReaps(p) \/ HandleExitStep(p)

WatchdogStep(p) ==
  \/ WatchdogTakesTimeout(p) \/ WatchdogTicks(p) \/ WatchdogLeaves(p)
  \/ WatchdogMarksTimeout(p) \/ WatchdogKills(p)

StopStep(s) == StopKills(s) \/ StopReaped(s) \/ StopWaits(s) \/ StopFinishes(s)

ProcStep(p) ==
  (\E line \in Lines : ProcWrites(p, line)) \/ ProcExits(p)

Next ==
  \/ Start
  \/ \E p \in Procs :
       \/ ProcStep(p) \/ ReaderStep(p) \/ DrainStderr(p) \/ MonitorStep(p)
       \/ TimeoutPasses(p) \/ WatchdogStep(p)
  \/ \E s \in Stoppers : StopBegins(s) \/ StopStep(s)
  \/ \E b \in BOOLEAN : SetInterrupted(b)

Spec == Init /\ [][Next]_vars

\* Goroutines that can run do run, clocks advance and SIGKILL is final.  Nothing
\* is assumed of the Claude process, of Stop being called, or of the user.
Fairness ==
  /\ \A p \in Procs :
       /\ WF_vars(ReaderStep(p)) /\ WF_vars(DrainStderr(p))
       /\ WF_vars(MonitorStep(p))
       /\ WF_vars(TimeoutPasses(p)) /\ WF_vars(WatchdogStep(p))
  /\ \A s \in Stoppers : WF_vars(StopStep(s))

FairSpec == Spec /\ Fairness

-----------------------------------------------------------------------------
(* Safety.                                                                 *)

\* One manager never has two Claude processes running, whatever restarts,
\* interrupts and Stops overlap: handleExit launches the next process only
\* after cmd.Wait has returned for the previous one.
AtMostOneLiveProcess ==
  \A p, q \in Procs : proc[p] = "alive" /\ proc[q] = "alive" => p = q

\* While pm.running is set, cmd, stdin and stdout all belong to the latest
\* process, its context is live and cancellable, and that process has not been
\* cleaned up: what WriteMessage, Interrupt and Stop rely on when they check
\* only pm.running.  It also says that handleExit's ctxCancelled is never true.
RunningIsConsistent ==
  running => /\ launched > 0
             /\ cmd = launched /\ stdin = launched /\ stdout = launched
             /\ cancel /\ launched \notin ctxCancelled
             /\ launched \notin reported

\* Start and Stop leave no context behind: every context is cancelled, except
\* possibly that of the latest process, which pm.cancel can still cancel.
NoContextLeaks ==
  \A p \in 1..launched : p \notin ctxCancelled => p = launched /\ cancel

\* A Stop that found the process running returns to a quiet manager: every
\* goroutine has ended, no process lives, pm.cmd and pm.stdout are nil; and
\* since this is an invariant, nothing comes back to life afterwards.
StopQuiesces ==
  \A s \in Stoppers : stopper[s] = "stopped" =>
    /\ GoroutinesDone
    /\ \A p \in Procs : proc[p] # "alive"
    /\ ~running /\ cmd = NoProc /\ stdin = NoProc /\ stdout = NoProc

\* "After this callback, the ProcessManager will not attempt further restarts":
\* once OnFatalError is called nothing runs and no handleExit is on its way to
\* Start.
FatalIsFinal ==
  fatal => /\ ~running
           /\ \A p \in Procs : proc[p] # "alive" /\ monitor[p] \in {"none", "done"}

\* At most MaxProcessRestartAttempts restarts are granted without a result
\* message in between, although handleExit writes back a count it read before
\* the callbacks ran and ResetRestartAttempts may have come in between.
RestartBudget == streak <= MaxProcessRestartAttempts

\* The stderr text handed to OnProcessExit was written by the process that
\* exited and not by an earlier one, whose drainStderr stores into the same field.
StderrIsOwn == \A p \in Procs : exitStderr[p] => noisy[p]

(* The manager implements ManagedProcess, the view its owner has of it.    *)

Phase ==
  IF ~started THEN "idle"
  ELSE IF launched = 0 THEN "over"
  ELSE IF proc[launched] = "alive" THEN "up"
  ELSE IF monitor[launched] = "done" THEN "over"
  ELSE IF monitor[launched] = "sleep" THEN "retrying"
  ELSE "down"

Lifecycle ==
  INSTANCE ManagedProcess WITH
    phase <- Phase, attempts <- streak, MaxAttempts <- MaxProcessRestartAttempts

\* Every step of the goroutines, of Stop and of the process is a step of the
\* life cycle or leaves it alone; in particular nothing follows "over".
ImplementsLifecycle == Lifecycle!Spec

(* Liveness, under Fairness.                                               *)

\* Every exit is handled to the end: monitorExit and handleExit never block for
\* good on cmd.Wait, on drainStderr or on the lock.
ExitHandled == \A p \in Procs : proc[p] = "dead" ~> monitor[p] = "done"

\* A Stop that found the process running returns, unless a restart that was
\* already under way gave the manager a new process.
StopReturnsOrRestarted ==
  \A s \in Stoppers :
    stopper[s] = "wait" ~> stopper[s] = "stopped" \/ launched # stopTarget[s]

\* With fair goroutines the life cycle is fair as well: no exit stays "down".
ImplementsFairLifecycle == Lifecycle!FairSpec

(* What the comments say and the code does not do.                         *)

\* handleExit: "If user interrupted or Stop() was called, don't attempt restart".
NoRestartAfterStop ==
  [][(\E s \in Stoppers : stopper[s] # "idle") => launched' = launched]_vars

\* Stop: "If the process doesn't exit gracefully within the timeout, it's
\* force-killed", so that Stop returns.
StopReturns == \A s \in Stoppers : stopper[s] = "wait" ~> stopper[s] = "stopped"

\* ContainerStartupTimeout: the watchdog kills a process that hangs during
\* startup "after this timeout instead of hanging forever".
WatchdogActs ==
  \A p \in Procs : watchdog[p] = "due" ~> watchdog[p] \notin Waiting

=============================================================================
