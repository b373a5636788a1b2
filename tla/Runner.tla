------------------------------- MODULE Runner -------------------------------
(***************************************************************************)
(* claude.Runner (src/claude/claude.go, runner_state.go): SendContent, the *)
(* process callbacks, Interrupt and Stop, with the response channels they  *)
(* share.  The ProcessManagers are seen as ProcessManager.tla shows them   *)
(* from outside: a running flag, an interrupted flag, and one goroutine    *)
(* per process that calls OnProcessExit, OnRestartAttempt, Start and       *)
(* OnFatalError in turn.  Every critical section of r.mu is one step, and  *)
(* every channel operation outside of r.mu is one.                         *)
(*                                                                         *)
(* Requests, managers and processes are numbered in the order they come to *)
(* be; 0 is nil.  A send on a closed channel and a second close panic,     *)
(* which ends the program.                                                 *)
(***************************************************************************)
EXTENDS Naturals, Sequences

CONSTANTS
  MaxProcessRestartAttempts, \* claude.go: 3
  MaxRequests,    \* bound: calls of SendContent
  MaxManagers,    \* bound: later ProcessManagers cannot start a process
  MaxProcesses,   \* bound: later calls of Start can only fail
  MaxLines,       \* bound: lines a process writes
  MaxCalls        \* bound: calls of Interrupt and Stop

ASSUME AttemptsAssumption == MaxProcessRestartAttempts \in Nat
ASSUME RequestsAssumption == MaxRequests \in Nat \ {0}
ASSUME ManagersAssumption == MaxManagers \in Nat \ {0}
ASSUME ProcessesAssumption == MaxProcesses \in Nat \ {0}
ASSUME LinesAssumption == MaxLines \in Nat
ASSUME CallsAssumption == MaxCalls \in Nat

Requests == 1..MaxRequests
Managers == 1..MaxManagers
Procs    == 1..MaxProcesses
Nil      == 0

VARIABLES
  \* Fields of the Runner struct.
  processManager,
  active, complete,   \* streaming.Active, streaming.Complete
  channel, closed,    \* responseChan.Channel, responseChan.Closed
  stopped,
  \* The channels SendContent returns, and what their readers have been told.
  chan,               \* "unmade", "open" or "closed"
  end,                \* the last Done chunk: "none", "done" or "error"
  full,               \* the channels with no slot left for another chunk
  \* ProcessManagers and processes.
  managers,           \* number of ProcessManagers made so far
  running, interrupted,
  attempts,           \* restartAttempts
  launched,           \* number of processes launched so far
  owner, proc,        \* the manager of a process, and whether it is alive
  prompts,            \* messages on stdin that are not answered yet
  emitted, out,       \* lines written, and those still in the stdout pipe
  \* Goroutines.
  sender, target,     \* SendContent
  reader, line, snap, \* handleProcessLine, in the readOutput of a process
  exit,               \* the exit handling of a process
  interrupter,        \* Interrupt: the manager it has looked up
  stopper, stopTarget,\* Stop
  \* History.
  calls,              \* number of calls of Interrupt and Stop
  cut,                \* the requests that were current when the user interrupted
  strayed,            \* the requests that met the result message of another one
  overlapped,         \* those set up before an earlier SendContent had returned
  missed,             \* those whose last chunk found no slot
  answered,           \* the current request has had its result message
  panic               \* "none", "send" or "close"

streamVars  == <<active, complete, answered, strayed>>
channelVars == <<channel, closed, chan, end, full, missed, panic>>
managerVars == <<processManager, managers, attempts>>
procVars    == <<launched, owner, proc, prompts, emitted, out>>
senderVars  == <<sender, target>>
readerVars  == <<reader, line, snap>>
stopVars    == <<stopped, stopper, stopTarget>>
userVars    == <<interrupter, calls, cut, overlapped>>
vars == <<streamVars, channelVars, managerVars, running, interrupted, procVars,
          senderVars, readerVars, exit, stopVars, userVars>>

Lines        == {"text", "result"}
SenderStates == {"idle", "setup", "ensure", "failed", "cleanup", "lookup",
                 "write", "refused", "close", "done"}
ReaderStates == {"none", "idle", "line", "send", "mark", "finish", "done"}
ExitStates   == {"none", "wait", "quiet", "report", "attempt", "sleep", "fatal", "done"}
StopStates   == {"idle", "kill", "wait", "mark", "done"}

RunnerOK ==
  /\ processManager \in 0..managers
  /\ active \in BOOLEAN /\ complete \in BOOLEAN /\ answered \in BOOLEAN
  /\ channel \in Requests \cup {Nil} /\ closed \in BOOLEAN
  /\ chan \in [Requests -> {"unmade", "open", "closed"}]
  /\ end \in [Requests -> {"none", "done", "error"}]
  /\ full \subseteq Requests /\ missed \subseteq Requests
  /\ panic \in {"none", "send", "close"}

ManagersOK ==
  /\ managers \in 0..MaxManagers
  /\ running \in [Managers -> BOOLEAN] /\ interrupted \in [Managers -> BOOLEAN]
  /\ attempts \in [Managers -> 0..MaxProcessRestartAttempts]

ProcessesOK ==
  /\ launched \in 0..MaxProcesses
  /\ owner \in [Procs -> 0..managers]
  /\ \A p \in 1..launched : owner[p] # Nil
  /\ proc \in [Procs -> {"none", "alive", "dead"}]
  /\ prompts \in [Procs -> Nat] /\ emitted \in [Procs -> 0..MaxLines]
  /\ out \in [Procs -> Seq(Lines)]

GoroutinesOK ==
  /\ sender \in [Requests -> SenderStates]
  /\ target \in [Requests -> Procs \cup {Nil}]
  /\ reader \in [Procs -> ReaderStates]
  /\ line \in [Procs -> Lines] /\ snap \in [Procs -> Requests \cup {Nil}]
  /\ exit \in [Procs -> ExitStates]
  /\ stopped \in BOOLEAN /\ stopper \in StopStates
  /\ stopTarget \in Managers \cup {Nil}
  /\ interrupter \in Managers \cup {Nil}
  /\ calls \in 0..MaxCalls
  /\ cut \subseteq Requests /\ strayed \subseteq Requests
  /\ overlapped \subseteq Requests

TypeOK == RunnerOK /\ ManagersOK /\ ProcessesOK /\ GoroutinesOK

Init ==
  /\ processManager = Nil /\ active = FALSE /\ complete = FALSE
  /\ channel = Nil /\ closed = FALSE /\ stopped = FALSE
  /\ chan = [q \in Requests |-> "unmade"]
  /\ end = [q \in Requests |-> "none"]
  /\ managers = 0
  /\ running = [m \in Managers |-> FALSE]
  /\ interrupted = [m \in Managers |-> FALSE]
  /\ attempts = [m \in Managers |-> 0]
  /\ launched = 0
  /\ owner = [p \in Procs |-> Nil]
  /\ proc = [p \in Procs |-> "none"]
  /\ prompts = [p \in Procs |-> 0]
  /\ emitted = [p \in Procs |-> 0]
  /\ out = [p \in Procs |-> <<>>]
  /\ sender = [q \in Requests |-> "idle"]
  /\ target = [q \in Requests |-> Nil]
  /\ reader = [p \in Procs |-> "none"]
  /\ line = [p \in Procs |-> "text"]
  /\ snap = [p \in Procs |-> Nil]
  /\ exit = [p \in Procs |-> "none"]
  /\ stopper = "idle" /\ stopTarget = Nil /\ interrupter = Nil
  /\ calls = 0 /\ cut = {} /\ strayed = {} /\ overlapped = {} /\ answered = FALSE
  /\ full = {} /\ missed = {} /\ panic = "none"

Moves(pc, i, from, to) == pc[i] = from /\ pc' = [pc EXCEPT ![i] = to]

-----------------------------------------------------------------------------
(* Channel operations.                                                     *)

\* The last chunk, sent without blocking: a full channel drops it.
Tells(c, last) ==
  IF c \in full
    THEN missed' = missed \cup {c} /\ UNCHANGED end
    ELSE end' = [end EXCEPT ![c] = last] /\ UNCHANGED missed

\* c <- ResponseChunk{Error: err, Done: true}, which waits for a slot.
SendError(c) ==
  IF chan[c] = "closed"
    THEN panic' = "send" /\ UNCHANGED end
    ELSE /\ c \notin full
         /\ end' = [end EXCEPT ![c] = "error"] /\ UNCHANGED panic

\* A chunk that is not the last one; whether it finds a slot makes no difference.
SendMore(c) == panic' = IF chan[c] = "closed" THEN "send" ELSE panic

\* close(c)
Close(c) ==
  IF chan[c] = "closed"
    THEN panic' = "close" /\ UNCHANGED chan
    ELSE chan' = [chan EXCEPT ![c] = "closed"] /\ UNCHANGED panic

\* responseChan.Channel != nil && !responseChan.Closed
ChannelOpen == channel # Nil /\ ~closed

\* responseChan.Close, on whatever the current channel is: sync.Once makes it
\* run once after each Setup.
CloseResponseChannel ==
  IF ChannelOpen
    THEN Close(channel) /\ closed' = (closed \/ chan[channel] # "closed")
    ELSE UNCHANGED <<chan, closed, panic>>

\* The chunk goes to channel c; what is closed is the current channel.
SendsLastAndCloses(c, last) ==
  IF chan[c] = "closed"
    THEN panic' = "send" /\ UNCHANGED <<chan, closed, end, missed>>
    ELSE Tells(c, last) /\ CloseResponseChannel

-----------------------------------------------------------------------------
(* SendContent.  The user sends a request when the previous one has ended  *)
(* or after having interrupted it.                                         *)

MaySend(q) ==
  /\ sender[q] = "idle"
  /\ q > 1 => chan[q - 1] = "closed" \/ q - 1 \in cut

\* ensureServerRunning fails: nobody else knows the channel yet.
SendFailsEarly(q) ==
  /\ MaySend(q)
  /\ sender' = [sender EXCEPT ![q] = "done"]
  /\ chan' = [chan EXCEPT ![q] = "closed"]
  /\ end' = [end EXCEPT ![q] = "error"]
  /\ UNCHANGED <<streamVars, channel, closed, full, missed, panic, managerVars, running, interrupted,
                 procVars, target, readerVars, exit, stopVars, userVars>>

SendBegins(q) ==
  /\ MaySend(q)
  /\ sender' = [sender EXCEPT ![q] = "setup"]
  /\ chan' = [chan EXCEPT ![q] = "open"]
  /\ UNCHANGED <<streamVars, channel, closed, end, full, missed, panic, managerVars, running,
                 interrupted, procVars, target, readerVars, exit, stopVars, userVars>>

\* Mutant: Setup leaves Closed as it was.
SetupKeepsClosed == closed

\* ResponseChannelState.Setup: Closed becomes false.
SetupClosed == FALSE

\* The response channel is set up before the process is started.
SetUp(q) ==
  /\ Moves(sender, q, "setup", "ensure")
  /\ active' = TRUE /\ complete' = FALSE /\ answered' = FALSE
  /\ channel' = q /\ closed' = SetupClosed
  /\ interrupted' = [m \in Managers |-> interrupted[m] /\ m # processManager]
  /\ overlapped' = IF \E r \in 1..q : r # q /\ sender[r] # "done"
                      THEN overlapped \cup {q} ELSE overlapped
  /\ UNCHANGED <<strayed, chan, end, full, missed, panic, managerVars, running, procVars, target,
                 readerVars, exit, stopVars, interrupter, calls, cut>>

\* Start has succeeded for manager m: process p and its goroutines.
Launch(m, p) ==
  /\ p \in Procs
  /\ launched' = p
  /\ owner' = [owner EXCEPT ![p] = m]
  /\ proc' = [proc EXCEPT ![p] = "alive"]
  /\ reader' = [reader EXCEPT ![p] = "idle"]
  /\ running' = [running EXCEPT ![m] = TRUE]
  /\ UNCHANGED <<prompts, emitted, out, line, snap>>

\* processManager is set and running.
IsRunning == processManager # Nil /\ running[processManager]

\* Mutant: the ProcessManager that has stopped running is reused.
SameManager == processManager

\* ensureProcessRunning always makes a fresh ProcessManager; when a resume fails
\* a second one is tried, so that the outcome is one manager, started or not.
FreshManager == managers + 1

ProcessIsRunning(q) ==
  /\ Moves(sender, q, "ensure", "lookup")
  /\ IsRunning
  /\ UNCHANGED <<streamVars, channelVars, managerVars, running, interrupted, procVars,
                 target, readerVars, exit, stopVars, userVars>>

StartsProcess(q) ==
  /\ Moves(sender, q, "ensure", "lookup")
  /\ ~IsRunning /\ managers < MaxManagers
  /\ managers' = managers + 1 /\ processManager' = FreshManager
  /\ Launch(FreshManager, launched + 1)
  /\ exit' = [exit EXCEPT ![launched + 1] = "wait"]
  /\ UNCHANGED <<attempts, streamVars, channelVars, interrupted, target, stopVars,
                 userVars>>

StartFails(q) ==
  /\ Moves(sender, q, "ensure", "failed")
  /\ ~IsRunning
  /\ IF managers < MaxManagers
       THEN managers' = managers + 1 /\ processManager' = managers + 1
       ELSE UNCHANGED <<managers, processManager>>
  /\ UNCHANGED <<attempts, streamVars, channelVars, running, interrupted, procVars, target,
                 readerVars, exit, stopVars, userVars>>

\* ch <- ResponseChunk{Error: err, Done: true}, without the lock.
TellsStartError(q) ==
  /\ Moves(sender, q, "failed", "cleanup")
  /\ SendError(q)
  /\ UNCHANGED <<streamVars, channel, closed, chan, full, missed, managerVars, running, interrupted,
                 procVars, target, readerVars, exit, stopVars, userVars>>

CleansUp(q) ==
  /\ Moves(sender, q, "cleanup", "done")
  /\ active' = FALSE
  /\ CloseResponseChannel
  /\ UNCHANGED <<complete, answered, strayed, channel, end, full, missed, managerVars, running, interrupted,
                 procVars, target, readerVars, exit, stopVars, userVars>>

\* The process pm.stdin belongs to: the latest one of its manager.
Latest(m, p) == owner[p] = m /\ \A o \in Procs : owner[o] = m => o <= p

\* WriteMessage takes pm.stdin under pm.mu if the manager is running ...
LooksUpStdin(q) ==
  /\ Moves(sender, q, "lookup", "write")
  /\ IsRunning
  /\ \E p \in Procs :
       Latest(processManager, p) /\ target' = [target EXCEPT ![q] = p]
  /\ UNCHANGED <<streamVars, channelVars, managerVars, running, interrupted, procVars,
                 readerVars, exit, stopVars, userVars>>

\* ... and fails if it is not.
NotRunning(q) ==
  /\ Moves(sender, q, "lookup", "refused")
  /\ ~IsRunning
  /\ UNCHANGED <<streamVars, channelVars, managerVars, running, interrupted, procVars,
                 target, readerVars, exit, stopVars, userVars>>

\* The write succeeds while the process lives and Stop has not closed its stdin.
Writes(q) ==
  LET p == target[q] IN
  /\ Moves(sender, q, "write", "done")
  /\ proc[p] = "alive" /\ running[owner[p]]
  /\ prompts' = [prompts EXCEPT ![p] = @ + 1]
  /\ target' = [target EXCEPT ![q] = Nil]
  /\ UNCHANGED <<streamVars, channelVars, managerVars, running, interrupted, launched,
                 owner, proc, emitted, out, readerVars, exit, stopVars, userVars>>

WriteFails(q) ==
  LET p == target[q] IN
  /\ Moves(sender, q, "write", "refused")
  /\ proc[p] = "dead" \/ ~running[owner[p]]
  /\ target' = [target EXCEPT ![q] = Nil]
  /\ UNCHANGED <<streamVars, channelVars, managerVars, running, interrupted, procVars,
                 readerVars, exit, stopVars, userVars>>

TellsWriteError(q) ==
  /\ Moves(sender, q, "refused", "close")
  /\ SendError(q)
  /\ UNCHANGED <<streamVars, channel, closed, chan, full, missed, managerVars, running, interrupted,
                 procVars, target, readerVars, exit, stopVars, userVars>>

\* close(ch), past ResponseChannelState and its sync.Once.
ClosesDirectly(q) ==
  /\ Moves(sender, q, "close", "done")
  /\ Close(q)
  /\ UNCHANGED <<streamVars, channel, closed, end, full, missed, managerVars, running, interrupted,
                 procVars, target, readerVars, exit, stopVars, userVars>>

-----------------------------------------------------------------------------
(* The Claude process: it writes lines while it has a prompt to answer,    *)
(* and may exit at any time.                                               *)

ProcWrites(p, l) ==
  /\ proc[p] = "alive" /\ prompts[p] > 0 /\ emitted[p] < MaxLines
  /\ emitted' = [emitted EXCEPT ![p] = @ + 1]
  /\ out' = [out EXCEPT ![p] = Append(@, l)]
  /\ prompts' = [prompts EXCEPT ![p] = IF l = "result" THEN @ - 1 ELSE @]
  /\ UNCHANGED <<streamVars, channelVars, managerVars, running, interrupted, launched,
                 owner, proc, senderVars, readerVars, exit, stopVars, userVars>>

ProcExits(p) ==
  /\ proc[p] = "alive"
  /\ proc' = [proc EXCEPT ![p] = "dead"]
  /\ prompts' = [prompts EXCEPT ![p] = 0] /\ emitted' = [emitted EXCEPT ![p] = 0]
  /\ UNCHANGED <<streamVars, channelVars, managerVars, running, interrupted, launched,
                 owner, out, senderVars, readerVars, exit, stopVars,
                 userVars>>

-----------------------------------------------------------------------------
(* handleProcessLine, called by the readOutput goroutine of process p.     *)

TakesLine(p) ==
  /\ Moves(reader, p, "idle", "line")
  /\ out[p] # <<>>
  /\ line' = [line EXCEPT ![p] = Head(out[p])]
  /\ out' = [out EXCEPT ![p] = Tail(@)]
  /\ UNCHANGED <<streamVars, channelVars, managerVars, running, interrupted, launched,
                 owner, proc, prompts, emitted, senderVars, snap, exit, stopVars, userVars>>

\* readOutput ends with its pipe or when it finds the manager not running.
ReaderEnds(p) ==
  /\ Moves(reader, p, "idle", "done")
  /\ ~running[owner[p]] \/ (proc[p] = "dead" /\ out[p] = <<>>)
  /\ out' = [out EXCEPT ![p] = <<>>]
  /\ UNCHANGED <<streamVars, channelVars, managerVars, running, interrupted, launched,
                 owner, proc, prompts, emitted, senderVars, line, snap, exit, stopVars, userVars>>

\* The channel is looked up once per line, under a lock released before its use.
LooksUpChannel(p) ==
  /\ reader[p] = "line"
  /\ snap' = [snap EXCEPT ![p] = IF ChannelOpen THEN channel ELSE Nil]
  /\ reader' = [reader EXCEPT ![p] = IF line[p] = "text" THEN "send" ELSE "mark"]
  /\ UNCHANGED <<streamVars, channelVars, managerVars, running, interrupted, procVars,
                 senderVars, line, exit, stopVars, userVars>>

\* sendChunkWithTimeout, without the lock, for every chunk of the line: they may
\* fill the channel, and what is left is dropped after a timeout.
SendsText(p) ==
  /\ Moves(reader, p, "send", "idle")
  /\ IF snap[p] # Nil
       THEN SendMore(snap[p]) /\ full' \in {full, full \cup {snap[p]}}
       ELSE UNCHANGED <<full, panic>>
  /\ snap' = [snap EXCEPT ![p] = Nil]
  /\ UNCHANGED <<streamVars, channel, closed, chan, end, missed, managerVars, running,
                 interrupted, procVars, senderVars, line, exit, stopVars, userVars>>

\* The reader of a channel makes room.
Receives(q) ==
  /\ q \in full
  /\ full' = full \ {q}
  /\ UNCHANGED <<streamVars, channel, closed, chan, end, missed, panic, managerVars,
                 running, interrupted, procVars, senderVars, readerVars, exit, stopVars,
                 userVars>>

\* The result message, first critical section, and ResetRestartAttempts of the
\* current manager, which need not be the one the line comes from.
MarksComplete(p) ==
  /\ Moves(reader, p, "mark", "finish")
  /\ complete' = TRUE
  /\ strayed' = strayed \cup {q \in Requests : q = channel /\ q # snap[p]}
  /\ attempts' = [m \in Managers |-> IF m = processManager THEN 0 ELSE attempts[m]]
  /\ UNCHANGED <<active, answered, channelVars, managers, processManager, running, interrupted,
                 procVars, senderVars, line, snap, exit, stopVars, userVars>>

\* Second critical section: Done, close, and StreamingState.Reset, which also
\* clears Complete.  Done goes to the channel looked up before; what is closed is
\* the channel that is current now.
Finishes(p) ==
  /\ Moves(reader, p, "finish", "idle")
  /\ active' = FALSE /\ complete' = FALSE /\ answered' = TRUE
  /\ strayed' = strayed \cup {q \in Requests : q = channel /\ q # snap[p]}
  /\ IF snap[p] = Nil \/ closed
       THEN UNCHANGED <<chan, closed, end, missed, panic>>
       ELSE SendsLastAndCloses(snap[p], "done")
  /\ line' = [line EXCEPT ![p] = "text"] /\ snap' = [snap EXCEPT ![p] = Nil]
  /\ UNCHANGED <<channel, full, managerVars, running, interrupted, procVars, senderVars,
                 exit, stopVars, userVars>>

-----------------------------------------------------------------------------
(* Exit handling of process p by its ProcessManager, and the callbacks.    *)

\* monitorExit and handleExit up to the first callback.  A manager Stop has
\* taken over says nothing; of the lines not yet read, cmd.Wait may lose some.
HandleExit(p) ==
  LET m == owner[p] IN
  /\ exit[p] = "wait" /\ proc[p] = "dead"
  /\ \E n \in 0..Len(out[p]) : out' = [out EXCEPT ![p] = SubSeq(@, 1, n)]
  /\ running' = [running EXCEPT ![m] = FALSE]
  /\ interrupted' = [interrupted EXCEPT ![m] = @ /\ ~running[m]]
  /\ exit' = [exit EXCEPT ![p] = IF ~running[m] THEN "done"
                                 ELSE IF interrupted[m] THEN "quiet" ELSE "report"]
  /\ UNCHANGED <<streamVars, channelVars, managerVars, launched, owner, proc, prompts,
                 emitted, senderVars, readerVars, stopVars, userVars>>

\* handleProcessExit returns true.
MayRestart == ~stopped /\ ~complete

\* Mutant: handleProcessExit closes the channel, for the listener to see an end.
HandleProcessExitCloses ==
  /\ active' = (active /\ ~MayRestart)
  /\ IF MayRestart THEN CloseResponseChannel ELSE UNCHANGED <<chan, closed, panic>>
  /\ UNCHANGED <<complete, answered, strayed, channel, end, full, missed>>

\* handleProcessExit does not close the channel.
HandleProcessExit ==
  /\ active' = (active /\ ~MayRestart)
  /\ UNCHANGED <<complete, answered, strayed, channelVars>>

exitUnchanged ==
  <<managers, processManager, interrupted, prompts, emitted, out, senderVars, line, snap,
    stopVars, userVars>>

\* After an interrupt the answer is not used.
ReportsQuietExit(p) ==
  /\ Moves(exit, p, "quiet", "done")
  /\ HandleProcessExit
  /\ UNCHANGED <<exitUnchanged, attempts, running, launched, owner, proc, reader>>

\* Otherwise it decides, and the number of attempts made so far.
ReportsExit(p) ==
  LET m == owner[p] IN
  /\ exit[p] = "report"
  /\ HandleProcessExit
  /\ IF ~MayRestart
       THEN exit' = [exit EXCEPT ![p] = "done"] /\ UNCHANGED attempts
     ELSE IF attempts[m] < MaxProcessRestartAttempts
       THEN /\ exit' = [exit EXCEPT ![p] = "attempt"]
            /\ attempts' = [attempts EXCEPT ![m] = @ + 1]
     ELSE exit' = [exit EXCEPT ![p] = "fatal"] /\ UNCHANGED attempts
  /\ UNCHANGED <<exitUnchanged, running, launched, owner, proc, reader>>

HandleRestartAttempt(p) ==
  /\ Moves(exit, p, "attempt", "sleep")
  /\ IF ChannelOpen THEN SendMore(channel) ELSE UNCHANGED panic
  /\ UNCHANGED <<exitUnchanged, attempts, streamVars, channel, closed, chan, end, full,
                 missed, running, launched, owner, proc, reader>>

Restart(p) ==
  /\ exit[p] = "sleep"
  /\ Launch(owner[p], launched + 1)
  /\ exit' = [exit EXCEPT ![p] = "done", ![launched + 1] = "wait"]
  /\ UNCHANGED <<streamVars, channelVars, managerVars, interrupted, senderVars,
                 stopVars, userVars>>

RestartFails(p) ==
  /\ Moves(exit, p, "sleep", "fatal")
  /\ UNCHANGED <<exitUnchanged, attempts, streamVars, channelVars, running, launched, owner,
                 proc, reader>>

fatalUnchanged ==
  <<exitUnchanged, attempts, complete, answered, strayed, channel, full, running,
    launched, owner, proc, reader>>

\* Mutant: the error is sent and the channel left open.
HandleFatalErrorNoClose(p) ==
  /\ Moves(exit, p, "fatal", "done")
  /\ active' = FALSE
  /\ IF ChannelOpen THEN Tells(channel, "error") /\ SendMore(channel)
                    ELSE UNCHANGED <<end, missed, panic>>
  /\ UNCHANGED <<fatalUnchanged, chan, closed>>

HandleFatalError(p) ==
  /\ Moves(exit, p, "fatal", "done")
  /\ active' = FALSE
  /\ IF ChannelOpen THEN SendsLastAndCloses(channel, "error")
                    ELSE UNCHANGED <<chan, closed, end, missed, panic>>
  /\ UNCHANGED fatalUnchanged

-----------------------------------------------------------------------------
(* Interrupt looks the manager up, then sets its flag; the SIGINT it sends *)
(* to a running process may make that process exit.                        *)

InterruptBegins ==
  /\ calls < MaxCalls /\ interrupter = Nil
  /\ processManager # Nil
  /\ calls' = calls + 1
  /\ interrupter' = processManager
  /\ cut' = cut \cup {q \in Requests : q = channel}
  /\ UNCHANGED <<overlapped, streamVars, channelVars, managerVars, running, interrupted, procVars,
                 senderVars, readerVars, exit, stopVars>>

InterruptSets ==
  /\ interrupter # Nil
  /\ interrupted' = [interrupted EXCEPT ![interrupter] = TRUE]
  /\ interrupter' = Nil
  /\ cut' = cut \cup {q \in Requests : q = channel}
  /\ UNCHANGED <<streamVars, channelVars, managerVars, running, procVars, senderVars,
                 readerVars, exit, stopVars, calls, overlapped>>

-----------------------------------------------------------------------------
(* Stop: ProcessManager.Stop first, then the rest under the lock.          *)

stopUnchanged ==
  <<streamVars, channelVars, managerVars, interrupted, launched, owner, prompts,
    emitted, out, senderVars, readerVars, exit, interrupter, cut, overlapped>>

StopBegins ==
  /\ calls < MaxCalls /\ calls' = calls + 1
  /\ stopper = "idle"
  /\ stopper' = IF IsRunning THEN "kill" ELSE "mark"
  /\ stopTarget' = IF IsRunning THEN processManager ELSE Nil
  /\ running' = [m \in Managers |-> running[m] /\ m # processManager]
  /\ UNCHANGED <<stopUnchanged, stopped, proc>>

\* The process exits when its stdin is closed, or is killed.
StopKills ==
  /\ stopper = "kill" /\ stopper' = "wait"
  /\ proc' = [p \in Procs |-> IF proc[p] = "alive" /\ Latest(stopTarget, p)
                                THEN "dead" ELSE proc[p]]
  /\ UNCHANGED <<stopUnchanged, calls, stopped, stopTarget, running>>

\* waitDone and wg.Wait: every goroutine of the manager has returned.
StopWaits ==
  /\ stopper = "wait" /\ stopper' = "mark"
  /\ \A p \in Procs : owner[p] = stopTarget => reader[p] = "done" /\ exit[p] = "done"
  /\ UNCHANGED <<stopUnchanged, calls, stopped, stopTarget, running, proc>>

StopMarks ==
  /\ stopper = "mark" /\ stopper' = "done"
  /\ stopped' = TRUE
  /\ UNCHANGED <<stopUnchanged, calls, stopTarget, running, proc>>

-----------------------------------------------------------------------------
SendContent(q) ==
  \/ SendFailsEarly(q) \/ SendBegins(q) \/ SetUp(q)
  \/ ProcessIsRunning(q) \/ StartsProcess(q) \/ StartFails(q)
  \/ TellsStartError(q) \/ CleansUp(q)
  \/ LooksUpStdin(q) \/ NotRunning(q) \/ Writes(q) \/ WriteFails(q)
  \/ TellsWriteError(q) \/ ClosesDirectly(q)

HandleProcessLine(p) ==
  \/ TakesLine(p) \/ ReaderEnds(p) \/ LooksUpChannel(p) \/ SendsText(p)
  \/ MarksComplete(p) \/ Finishes(p)

ExitStep(p) ==
  \/ HandleExit(p) \/ ReportsQuietExit(p) \/ ReportsExit(p)
  \/ HandleRestartAttempt(p) \/ Restart(p) \/ RestartFails(p) \/ HandleFatalError(p)

ProcStep(p) == (\E l \in Lines : ProcWrites(p, l)) \/ ProcExits(p)

Interrupt == InterruptBegins \/ InterruptSets

Stop == StopBegins \/ StopKills \/ StopWaits \/ StopMarks

\* A panic ends the program.
Next ==
  /\ panic = "none"
  /\ \/ \E q \in Requests : SendContent(q) \/ Receives(q)
     \/ \E p \in Procs : HandleProcessLine(p) \/ ExitStep(p) \/ ProcStep(p)
     \/ Interrupt
     \/ Stop

Spec == Init /\ [][Next]_vars

-----------------------------------------------------------------------------
(* Safety.                                                                 *)

\* The flags the callbacks go by: while IsStreaming says yes the current channel
\* counts as open, and a channel that counts as closed is closed, so that no
\* output is dropped while a reader still waits for it.
FlagsAreTrue ==
  /\ active => ChannelOpen
  /\ closed => channel # Nil /\ chan[channel] = "closed"

\* A channel is never closed without a word (handleProcessExit: "Closing the
\* channel prematurely causes the Bubble Tea listener to interpret the close as
\* a successful completion"), unless the channel was full, or requests overlap:
\* CleansUp and Finishes close whatever channel is current by then.
NoBareClose ==
  \A q \in Requests :
    chan[q] = "closed" => end[q] # "none" \/ q \in overlapped \cup strayed \cup missed

\* Nobody is left who could still end a request.
Quiet(q) ==
  /\ sender[q] = "done"
  /\ \A p \in Procs : /\ proc[p] # "alive" /\ exit[p] \in {"none", "done"}
                      /\ reader[p] \in {"none", "idle", "done"}

\* Whatever crashes, fails to start or fails to write, and in whatever order the
\* callbacks come, a request that was not interrupted and whose Runner was not
\* stopped has had its end before the last goroutine that could tell it is gone.
NoSilentEnd ==
  \A q \in Requests :
    Quiet(q) /\ q \notin cut \cup strayed /\ stopper = "idle" /\ panic = "none"
      => chan[q] = "closed"

(* What the comments say and the code does not do.                         *)

\* handleProcessExit: "The channel must stay open so that handleRestartAttempt can
\* send status messages"; a send on a closed channel would end the program.
NoPanic == panic = "none"

\* "Content chunks are sent as they arrive, with a final chunk having Done=true."
FinalChunk ==
  \A q \in Requests :
    Quiet(q) /\ stopper = "idle" /\ panic = "none" => end[q] # "none"

\* handleProcessExit: "If response was already complete (we got a result
\* message), the process exiting is expected behavior - don't restart".
NoRestartAfterResult ==
  [][\A p \in Procs : exit[p] = "report" /\ answered => exit'[p] \in {"report", "done"}]_vars

=============================================================================
