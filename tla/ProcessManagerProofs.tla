------------------------ MODULE ProcessManagerProofs ------------------------
(* Theorems about ProcessManager, for any number of callers of Stop, of    *)
(* processes and of lines, with and without a container.                   *)
EXTENDS ProcessManager, SequenceTheorems, TLAPS

Ended == {"exit", "drain", "quiet", "exited", "sleep", "giveup", "done"}
Cleaned == {"quiet", "exited", "sleep", "giveup"}

\* Processes are numbered without gaps, and only the latest one can be anything
\* but over and handled.
Numbering ==
  /\ \A p \in Procs : launched < p =>
       /\ proc[p] = "none" /\ reader[p] = "none" /\ drain[p] = "none"
       /\ monitor[p] = "none" /\ watchdog[p] = "none" /\ ~exitStderr[p]
       /\ p \notin reported
  /\ \A p \in Procs : p <= launched => proc[p] # "none" /\ monitor[p] # "none"
  /\ \A p \in Procs : p < launched =>
       proc[p] = "dead" /\ monitor[p] = "done" /\ drain[p] = "done"
  /\ ~started => launched = 0 /\ ~fatal /\ \A s \in Stoppers : stopper[s] = "idle"

\* monitorExit gets past cmd.Wait only when the process is dead, and past
\* cleanupLocked only when stderr is drained and pm.running is reset.
Handling ==
  /\ \A p \in Procs : monitor[p] \in Ended => proc[p] = "dead"
  /\ \A p \in Procs : monitor[p] \in Cleaned => drain[p] = "done"
  /\ \A p \in Procs : monitor[p] = "await" => p \in ctxCancelled
  /\ \A p \in Procs : p \in reported => monitor[p] \in {"sleep", "giveup", "done"}

\* What pm.running means.
Running ==
  /\ running => /\ launched > 0 /\ cancel /\ launched \notin ctxCancelled
                /\ cmd = launched /\ stdin = launched /\ stdout = launched
                /\ monitor[launched] \in {"wait", "exit", "drain"}
  /\ ~running => stdin = NoProc

Contexts ==
  /\ cancel => launched > 0
  /\ ctxCancelled \subseteq 1..launched
  /\ \A p \in 1..launched : p \notin ctxCancelled => p = launched /\ cancel

Pipes == \A p \in Procs : reader[p] = "read" => readerSrc[p] \in Procs

Attempts ==
  /\ streak <= restartAttempts
  /\ \A p \in Procs : monitor[p] \in {"drain", "quiet", "exited"} => streak <= exitAttempts[p]

Stderr ==
  /\ stderrContent => launched > 0 /\ noisy[launched]
  /\ \A p \in Procs : exitStderr[p] => noisy[p]

Fatality ==
  fatal => ~running /\ \A p \in Procs : monitor[p] \in {"none", "done"}

Stopped ==
  \A s \in Stoppers :
    /\ stopper[s] \in {"final", "stopped"} => started /\ GoroutinesDone
    /\ stopper[s] = "stopped" => cmd = NoProc /\ stdout = NoProc

IInv == /\ TypeOK /\ Numbering /\ Handling /\ Running /\ Contexts /\ Pipes
        /\ Attempts /\ Stderr /\ Fatality /\ Stopped

-----------------------------------------------------------------------------
\* The invariant holds of a fresh manager.
LEMMA InitInv == Init => IInv
<1> SUFFICES ASSUME Init PROVE IInv
  OBVIOUS
<1> USE DEF Init
<1>1. FlagsOK
  BY DEF FlagsOK
<1>2. FieldsOK
  BY RestartsAssumption DEF FieldsOK
<1>3. ProcessesOK
  <2>1. launched \in 0..MaxProcesses
    BY ProcessesAssumption
  <2>2. emitted \in [Procs -> 0..MaxLines]
    BY LinesAssumption
  <2> QED
    BY <2>1, <2>2 DEF ProcessesOK
<1>4. GoroutinesOK
  BY DEF GoroutinesOK, ReaderStates, DrainStates, MonitorStates, WatchdogStates
<1>5. ExitsOK
  BY RestartsAssumption DEF ExitsOK
<1>6. StoppersOK
  BY DEF StoppersOK, StopperStates
<1>7. Numbering /\ Handling
  BY ProcessesAssumption DEF Numbering, Handling, Ended, Cleaned, Procs, NoProc
<1>8. Running /\ Contexts /\ Pipes
  BY DEF Running, Contexts, Pipes, Procs, NoProc
<1>9. Attempts /\ Stderr /\ Fatality /\ Stopped
  BY DEF Attempts, Stderr, Fatality, Stopped
<1> QED
  BY <1>1, <1>2, <1>3, <1>4, <1>5, <1>6, <1>7, <1>8, <1>9 DEF IInv, TypeOK

-----------------------------------------------------------------------------
(* The Claude process.                                                     *)

\* A line written to stdout.
LEMMA ProcWritesInv ==
  ASSUME IInv, NEW p \in Procs, NEW line \in Lines, ProcWrites(p, line)
  PROVE  IInv'
<1> USE DEF ProcWrites, fields, ctxVars, readVars, exitVars, dogVars,
    stopVars, toldVars, IInv, TypeOK
<1>1. ProcessesOK'
  <2>1. emitted[p] + 1 \in 0..MaxLines
    BY LinesAssumption DEF ProcessesOK
  <2>2. Append(out[p], line) \in Seq(Lines)
    BY AppendProperties DEF ProcessesOK
  <2> QED
    BY <2>1, <2>2 DEF ProcessesOK
<1>2. FlagsOK' /\ ExitsOK'
  BY DEF FlagsOK, ExitsOK
<1>3. FieldsOK' /\ GoroutinesOK' /\ StoppersOK'
  BY DEF FieldsOK, GoroutinesOK, StoppersOK
<1>4. Numbering' /\ Handling' /\ Running' /\ Contexts'
  BY DEF Numbering, Handling, Running, Contexts
<1>5. Pipes' /\ Attempts' /\ Stderr' /\ Fatality' /\ Stopped'
  BY DEF Pipes, Attempts, Stderr, Fatality, Stopped, GoroutinesDone, Idle
<1> QED
  BY <1>1, <1>2, <1>3, <1>4, <1>5

\* The process exits: the only process alive is the latest, and nobody has handled it yet.
LEMMA ProcExitsInv ==
  ASSUME IInv, NEW p \in Procs, ProcExits(p)
  PROVE  IInv'
<1> USE DEF ProcExits, fields, ctxVars, readVars, exitVars, dogVars, stopVars,
    toldVars, IInv, TypeOK
<1>1. ProcessesOK'
  BY DEF ProcessesOK
<1>2. Numbering' /\ Handling'
  BY DEF Numbering, Handling, ProcessesOK
<1>3. FlagsOK' /\ ExitsOK'
  BY DEF FlagsOK, ExitsOK
<1>4. FieldsOK' /\ GoroutinesOK' /\ StoppersOK'
  BY DEF FieldsOK, GoroutinesOK, StoppersOK
<1>5. Running' /\ Contexts'
  BY DEF Running, Contexts
<1>6. Pipes' /\ Attempts' /\ Stderr' /\ Fatality' /\ Stopped'
  BY DEF Pipes, Attempts, Stderr, Fatality, Stopped, GoroutinesDone, Idle
<1> QED
  BY <1>1, <1>2, <1>3, <1>4, <1>5, <1>6

-----------------------------------------------------------------------------
(* readOutput.                                                             *)

\* The head of readOutput: a reader only ever picks up a pipe that exists.
LEMMA ReaderChecksInv ==
  ASSUME IInv, NEW p \in Procs, ReaderChecks(p)
  PROVE  IInv'
<1> USE DEF ReaderChecks, readerUnchanged, fields, ctxVars, exitVars, dogVars,
    stopVars, IInv, TypeOK
<1>1. GoroutinesOK'
  BY DEF GoroutinesOK, ReaderStates, FieldsOK
<1>2. Numbering'
  <2>1. reader[p] # "none"
    OBVIOUS
  <2>2. \A q \in Procs : q # p => reader'[q] = reader[q]
    BY DEF GoroutinesOK
  <2> QED
    BY <2>1, <2>2 DEF Numbering
<1>3. Pipes'
  BY DEF Pipes, GoroutinesOK, FieldsOK, NoProc
<1>4. Stopped'
  BY DEF Stopped, GoroutinesDone, Idle, GoroutinesOK
<1>5. FlagsOK' /\ ExitsOK'
  BY DEF FlagsOK, ExitsOK
<1>6. FieldsOK' /\ ProcessesOK' /\ StoppersOK'
  BY DEF FieldsOK, ProcessesOK, StoppersOK
<1>7. Handling' /\ Running' /\ Contexts'
  BY DEF Handling, Running, Contexts
<1>8. Attempts' /\ Stderr' /\ Fatality'
  BY DEF Attempts, Stderr, Fatality
<1> QED
  BY <1>1, <1>2, <1>3, <1>4, <1>5, <1>6, <1>7, <1>8

\* A line is read from the pipe the reader picked, whoever owns it by now.
LEMMA ReaderReadsInv ==
  ASSUME IInv, NEW p \in Procs, ReaderReads(p)
  PROVE  IInv'
<1> USE DEF ReaderReads, readerUnchanged, fields, ctxVars, exitVars, dogVars,
    stopVars, IInv, TypeOK
<1>1. ProcessesOK'
  BY DEF ProcessesOK, Pipes
<1>2. GoroutinesOK'
  BY DEF GoroutinesOK, ReaderStates, ProcessesOK, Lines, Pipes
<1>3. Numbering' /\ Pipes'
  BY DEF Numbering, Pipes, GoroutinesOK, ProcessesOK, Lines, Procs
<1>4. Stopped'
  BY DEF Stopped, GoroutinesDone, Idle, GoroutinesOK
<1>5. FlagsOK' /\ ExitsOK'
  BY DEF FlagsOK, ExitsOK
<1>6. FieldsOK' /\ StoppersOK'
  BY DEF FieldsOK, StoppersOK
<1>7. Handling' /\ Running' /\ Contexts'
  BY DEF Handling, Running, Contexts
<1>8. Attempts' /\ Stderr' /\ Fatality'
  BY DEF Attempts, Stderr, Fatality
<1> QED
  BY <1>1, <1>2, <1>3, <1>4, <1>5, <1>6, <1>7, <1>8

\* readOutput ends.
LEMMA ReaderEndsInv ==
  ASSUME IInv, NEW p \in Procs, ReaderEnds(p)
  PROVE  IInv'
<1> USE DEF ReaderEnds, readerUnchanged, fields, ctxVars, exitVars, dogVars,
    stopVars, IInv, TypeOK
<1>1. GoroutinesOK'
  BY DEF GoroutinesOK, ReaderStates
<1>2. Numbering' /\ Pipes'
  BY DEF Numbering, Pipes, GoroutinesOK, Procs, ProcessesOK
<1>3. Stopped'
  BY DEF Stopped, GoroutinesDone, Idle, GoroutinesOK
<1>4. FlagsOK' /\ ExitsOK'
  BY DEF FlagsOK, ExitsOK
<1>5. FieldsOK' /\ ProcessesOK' /\ StoppersOK'
  BY DEF FieldsOK, ProcessesOK, StoppersOK
<1>6. Handling' /\ Running' /\ Contexts'
  BY DEF Handling, Running, Contexts
<1>7. Attempts' /\ Stderr' /\ Fatality'
  BY DEF Attempts, Stderr, Fatality
<1> QED
  BY <1>1, <1>2, <1>3, <1>4, <1>5, <1>6, <1>7

\* The init message marks the session started.
LEMMA OnInitLineInv ==
  ASSUME IInv, NEW p \in Procs, OnInitLine(p)
  PROVE  IInv'
<1> USE DEF OnInitLine, MarkSessionStarted, readerUnchanged, fields, ctxVars,
    exitVars, dogVars, stopVars, IInv, TypeOK
<1>1. FlagsOK'
  BY DEF FlagsOK
<1>2. FieldsOK'
  <2>1. launched > 0 => launched \in Procs
    BY DEF ProcessesOK, Procs
  <2>2. readyClosed' \subseteq Procs
    BY <2>1 DEF FieldsOK
  <2> QED
    BY <2>2 DEF FieldsOK
<1>3. GoroutinesOK'
  BY DEF GoroutinesOK, ReaderStates
<1>4. Numbering' /\ Pipes'
  BY DEF Numbering, Pipes, GoroutinesOK, Procs, ProcessesOK
<1>5. Stopped'
  BY DEF Stopped, GoroutinesDone, Idle, GoroutinesOK
<1>6. ExitsOK'
  BY DEF ExitsOK
<1>7. ProcessesOK' /\ StoppersOK'
  BY DEF ProcessesOK, StoppersOK
<1>8. Handling' /\ Running' /\ Contexts'
  BY DEF Handling, Running, Contexts
<1>9. Attempts' /\ Stderr' /\ Fatality'
  BY DEF Attempts, Stderr, Fatality
<1> QED
  BY <1>1, <1>2, <1>3, <1>4, <1>5, <1>6, <1>7, <1>8, <1>9

\* A result message resets the attempts, and with them the restarts granted.
LEMMA OnResultLineInv ==
  ASSUME IInv, NEW p \in Procs, OnResultLine(p)
  PROVE  IInv'
<1> USE DEF OnResultLine, MarkSessionStarted, readerUnchanged, fields,
    ctxVars, exitVars, dogVars, stopVars, IInv, TypeOK
<1>1. FlagsOK'
  BY DEF FlagsOK
<1>2. FieldsOK'
  BY RestartsAssumption DEF FieldsOK, ProcessesOK, Procs
<1>3. GoroutinesOK'
  BY DEF GoroutinesOK, ReaderStates
<1>4. Numbering' /\ Pipes'
  BY DEF Numbering, Pipes, GoroutinesOK, Procs, ProcessesOK
<1>5. Attempts'
  BY DEF Attempts, ExitsOK
<1>6. Stopped'
  BY DEF Stopped, GoroutinesDone, Idle, GoroutinesOK
<1>7. ExitsOK'
  BY DEF ExitsOK
<1>8. ProcessesOK' /\ StoppersOK'
  BY DEF ProcessesOK, StoppersOK
<1>9. Handling' /\ Running' /\ Contexts'
  BY DEF Handling, Running, Contexts
<1>10. Stderr' /\ Fatality'
  BY DEF Stderr, Fatality
<1> QED
  BY <1>1, <1>2, <1>3, <1>4, <1>5, <1>6, <1>7, <1>8, <1>9, <1>10

-----------------------------------------------------------------------------
(* drainStderr, monitorExit and handleExit.                                *)

\* Only the latest process can still be draining, so pm.stderrContent is its own.
LEMMA DrainStderrInv ==
  ASSUME IInv, NEW p \in Procs, DrainStderr(p)
  PROVE  IInv'
<1> USE DEF DrainStderr, procVars, fields, ctxVars, readVars, exitVars,
    dogVars, stopVars, toldVars, IInv, TypeOK
<1>1. FlagsOK'
  BY DEF FlagsOK
<1>2. GoroutinesOK'
  BY DEF GoroutinesOK, MonitorStates, DrainStates, WatchdogStates
<1>3. Numbering'
  BY DEF Numbering, GoroutinesOK
<1>4. Handling'
  BY DEF Handling, GoroutinesOK
<1>5. Stderr'
  BY DEF Stderr, Numbering, ProcessesOK, Procs
<1>6. Stopped'
  BY DEF Stopped, GoroutinesDone, Idle, GoroutinesOK
<1>7. ExitsOK'
  BY DEF ExitsOK
<1>8. FieldsOK' /\ ProcessesOK' /\ StoppersOK'
  BY DEF FieldsOK, ProcessesOK, StoppersOK
<1>9. Running' /\ Contexts'
  BY DEF Running, Contexts
<1>10. Pipes' /\ Attempts' /\ Fatality'
  BY DEF Pipes, Attempts, Fatality
<1> QED
  BY <1>1, <1>2, <1>3, <1>4, <1>5, <1>6, <1>7, <1>8, <1>9, <1>10

\* monitorExit sees a cancelled context: Stop has been here, so pm.running is reset.
LEMMA MonitorCancelledInv ==
  ASSUME IInv, NEW p \in Procs, MonitorCancelled(p)
  PROVE  IInv'
<1> USE DEF MonitorCancelled, fields, ctxVars, exitVars, toldVars,
    monitorUnchanged, readVars, dogVars, stopVars, IInv, TypeOK
<1>1. GoroutinesOK'
  BY DEF GoroutinesOK, MonitorStates, DrainStates, WatchdogStates
<1>2. Numbering'
  BY DEF Numbering, GoroutinesOK
<1>3. Handling'
  BY DEF Handling, GoroutinesOK, Ended, Cleaned
<1>4. Running'
  BY DEF Running, Numbering, GoroutinesOK, ProcessesOK, Procs
<1>5. Attempts' /\ Fatality'
  BY DEF Attempts, Fatality, GoroutinesOK
<1>6. Stopped'
  BY DEF Stopped, GoroutinesDone, Idle, GoroutinesOK
<1>7. FlagsOK' /\ ExitsOK'
  BY DEF FlagsOK, ExitsOK
<1>8. FieldsOK' /\ ProcessesOK' /\ StoppersOK'
  BY DEF FieldsOK, ProcessesOK, StoppersOK
<1>9. Contexts'
  BY DEF Contexts
<1>10. Pipes' /\ Stderr'
  BY DEF Pipes, Stderr
<1> QED
  BY <1>1, <1>2, <1>3, <1>4, <1>5, <1>6, <1>7, <1>8, <1>9, <1>10

\* cmd.Wait returns: the process is dead, and what is left of the pipe is a prefix.
LEMMA MonitorReapsInv ==
  ASSUME IInv, NEW p \in Procs, MonitorReaps(p)
  PROVE  IInv'
<1> USE DEF MonitorReaps, WaitReturns, fields, ctxVars, exitVars, toldVars,
    monitorUnchanged, readVars, dogVars, stopVars, IInv, TypeOK
<1>1. ProcessesOK'
  <2>1. PICK n \in 0..Len(out[p]) : out' = [out EXCEPT ![p] = SubSeq(out[p], 1, n)]
    OBVIOUS
  <2>2. \A i \in 1..n : out[p][i] \in Lines
    BY ElementOfSeq, LenProperties DEF ProcessesOK
  <2>3. SubSeq(out[p], 1, n) \in Seq(Lines)
    BY <2>2, SubSeqProperties, LenProperties DEF ProcessesOK
  <2> QED
    BY <2>1, <2>3 DEF ProcessesOK
<1>2. GoroutinesOK'
  BY DEF GoroutinesOK, MonitorStates, DrainStates, WatchdogStates
<1>3. Numbering'
  BY DEF Numbering, GoroutinesOK
<1>4. Handling'
  BY DEF Handling, GoroutinesOK, Ended, Cleaned
<1>5. Running'
  BY DEF Running, Numbering, GoroutinesOK, ProcessesOK, Procs, Handling
<1>6. Attempts' /\ Fatality'
  BY DEF Attempts, Fatality, GoroutinesOK
<1>7. Stopped'
  BY DEF Stopped, GoroutinesDone, Idle, GoroutinesOK
<1>8. FlagsOK' /\ ExitsOK'
  BY DEF FlagsOK, ExitsOK
<1>9. FieldsOK' /\ StoppersOK'
  BY DEF FieldsOK, StoppersOK
<1>10. Contexts'
  BY DEF Contexts
<1>11. Pipes' /\ Stderr'
  BY DEF Pipes, Stderr
<1> QED
  BY <1>1, <1>2, <1>3, <1>4, <1>5, <1>6, <1>7, <1>8, <1>9, <1>10, <1>11

\* The first critical section of handleExit reads the attempts the invariant bounds.
LEMMA HandleExitInv ==
  ASSUME IInv, NEW p \in Procs, HandleExit(p)
  PROVE  IInv'
<1> USE DEF HandleExit, fields, ctxVars, toldVars, monitorUnchanged, readVars,
    dogVars, stopVars, IInv, TypeOK
<1>1. FlagsOK'
  BY DEF FlagsOK
<1>2. GoroutinesOK'
  BY DEF GoroutinesOK, MonitorStates, DrainStates, WatchdogStates
<1>3. ExitsOK'
  BY DEF ExitsOK, FieldsOK, FlagsOK
<1>4. Numbering'
  BY DEF Numbering, GoroutinesOK
<1>5. Handling'
  BY DEF Handling, GoroutinesOK, Ended, Cleaned
<1>6. Running'
  <2>1. CASE running
    <3>1. monitor' = [monitor EXCEPT ![p] = "drain"]
      BY <2>1
    <3> QED
      BY <2>1, <3>1 DEF Running, GoroutinesOK, ProcessesOK, Procs
  <2>2. CASE ~running
    BY <2>2 DEF Running
  <2> QED
    BY <2>1, <2>2
<1>7. Attempts' /\ Fatality'
  BY DEF Attempts, Fatality, GoroutinesOK, ExitsOK
<1>8. Stopped'
  BY DEF Stopped, GoroutinesDone, Idle, GoroutinesOK
<1>9. FieldsOK' /\ ProcessesOK' /\ StoppersOK'
  BY DEF FieldsOK, ProcessesOK, StoppersOK
<1>10. Contexts'
  BY DEF Contexts
<1>11. Pipes' /\ Stderr'
  BY DEF Pipes, Stderr
<1> QED
  BY <1>1, <1>2, <1>3, <1>4, <1>5, <1>6, <1>7, <1>8, <1>9, <1>10, <1>11

\* The second one resets pm.running, after stderr has been drained.
LEMMA CleanupLockedInv ==
  ASSUME IInv, NEW p \in Procs, CleanupLocked(p)
  PROVE  IInv'
<1> USE DEF CleanupLocked, StderrDone, ctxVars, toldVars, monitorUnchanged,
    readVars, dogVars, stopVars, IInv, TypeOK
<1>1. FlagsOK'
  BY DEF FlagsOK
<1>2. FieldsOK'
  <2>1. launched \in Procs
    BY DEF Numbering, ProcessesOK, Procs
  <2>2. readyClosed' \subseteq Procs
    <3>1. CASE Containerized
      BY <2>1, <3>1 DEF FieldsOK
    <3>2. CASE ~Containerized
      BY <3>2 DEF FieldsOK
    <3> QED
      BY <3>1, <3>2
  <2> QED
    BY <2>2 DEF FieldsOK
<1>3. ExitsOK'
  BY DEF ExitsOK, FlagsOK
<1>4. GoroutinesOK'
  BY DEF GoroutinesOK, MonitorStates, DrainStates, WatchdogStates
<1>5. Numbering'
  BY DEF Numbering, GoroutinesOK, ExitsOK
<1>6. Handling'
  BY DEF Handling, GoroutinesOK, Ended, Cleaned
<1>7. Running'
  BY DEF Running
<1>8. Attempts' /\ Fatality'
  BY DEF Attempts, Fatality, GoroutinesOK, ExitsOK
<1>9. Stderr'
  BY DEF Stderr, Numbering, ExitsOK, ProcessesOK, Procs
<1>10. Stopped'
  BY DEF Stopped, GoroutinesDone, Idle, GoroutinesOK
<1>11. ProcessesOK' /\ StoppersOK'
  BY DEF ProcessesOK, StoppersOK
<1>12. Contexts'
  BY DEF Contexts
<1>13. Pipes'
  BY DEF Pipes
<1> QED
  BY <1>1, <1>2, <1>3, <1>4, <1>5, <1>6, <1>7, <1>8, <1>9, <1>10, <1>11,
    <1>12, <1>13

\* handleExit ends after an interrupt.
LEMMA ReportQuietExitInv ==
  ASSUME IInv, NEW p \in Procs, ReportQuietExit(p)
  PROVE  IInv'
<1> USE DEF ReportQuietExit, handleExitUnchanged, monitorUnchanged, readVars,
    dogVars, stopVars, fields, ctxVars, exitVars, IInv, TypeOK
<1>1. FieldsOK'
  BY DEF FieldsOK
<1>2. GoroutinesOK'
  BY DEF GoroutinesOK, MonitorStates, DrainStates, WatchdogStates
<1>3. Numbering'
  BY DEF Numbering, GoroutinesOK
<1>4. Handling'
  BY DEF Handling, GoroutinesOK, Ended, Cleaned
<1>5. Running'
  BY DEF Running, Numbering, GoroutinesOK, ProcessesOK, Procs
<1>6. Attempts' /\ Fatality'
  BY DEF Attempts, Fatality, GoroutinesOK
<1>7. Stopped'
  BY DEF Stopped, GoroutinesDone, Idle, GoroutinesOK
<1>8. FlagsOK' /\ ExitsOK'
  BY DEF FlagsOK, ExitsOK
<1>9. ProcessesOK' /\ StoppersOK'
  BY DEF ProcessesOK, StoppersOK
<1>10. Contexts'
  BY DEF Contexts
<1>11. Pipes' /\ Stderr'
  BY DEF Pipes, Stderr
<1> QED
  BY <1>1, <1>2, <1>3, <1>4, <1>5, <1>6, <1>7, <1>8, <1>9, <1>10, <1>11

\* handleExit ends with a fatal error; pm.running is long reset.
LEMMA ReportContainerTimeoutInv ==
  ASSUME IInv, NEW p \in Procs, ReportContainerTimeout(p)
  PROVE  IInv'
<1> USE DEF ReportContainerTimeout, handleExitUnchanged, monitorUnchanged,
    readVars, dogVars, stopVars, fields, ctxVars, exitVars, IInv, TypeOK
<1>1. FlagsOK'
  BY DEF FlagsOK
<1>2. GoroutinesOK'
  BY DEF GoroutinesOK, MonitorStates, DrainStates, WatchdogStates
<1>3. Numbering'
  <2>1. launched # 0
    BY DEF Numbering, ProcessesOK, Procs
  <2>2. \A q \in Procs : q # p => monitor'[q] = monitor[q]
    BY DEF GoroutinesOK
  <2>3. monitor[p] # "none" /\ monitor[p] # "done" /\ monitor'[p] = "done"
    BY DEF GoroutinesOK
  <2> QED
    BY <2>1, <2>2, <2>3 DEF Numbering
<1>4. Handling'
  BY DEF Handling, GoroutinesOK, Ended, Cleaned
<1>5. Running'
  BY DEF Running, Numbering, GoroutinesOK, ProcessesOK, Procs
<1>6. Attempts'
  BY DEF Attempts, GoroutinesOK
<1>7. Fatality'
  BY DEF Fatality, Numbering, Running, GoroutinesOK, ProcessesOK, Procs
<1>8. Stopped'
  BY DEF Stopped, GoroutinesDone, Idle, GoroutinesOK
<1>9. ExitsOK'
  BY DEF ExitsOK
<1>10. FieldsOK' /\ ProcessesOK' /\ StoppersOK'
  BY DEF FieldsOK, ProcessesOK, StoppersOK
<1>11. Contexts'
  BY DEF Contexts
<1>12. Pipes' /\ Stderr'
  BY DEF Pipes, Stderr
<1> QED
  BY <1>1, <1>2, <1>3, <1>4, <1>5, <1>6, <1>7, <1>8, <1>9, <1>10, <1>11, <1>12

\* The count written back is at least the number of restarts granted.
LEMMA ReportExitInv ==
  ASSUME IInv, NEW p \in Procs, ReportExit(p)
  PROVE  IInv'
<1> USE DEF ReportExit, handleExitUnchanged, monitorUnchanged, readVars,
    dogVars, stopVars, fields, ctxVars, exitVars, IInv, TypeOK
<1>1. FieldsOK'
  BY RestartsAssumption DEF FieldsOK, AttemptsLeft, ExitsOK
<1>2. GoroutinesOK'
  BY DEF GoroutinesOK, MonitorStates, DrainStates, WatchdogStates
<1>3. Numbering'
  BY DEF Numbering, GoroutinesOK
<1>4. Handling'
  BY DEF Handling, GoroutinesOK, Ended, Cleaned
<1>5. Running'
  BY DEF Running, Numbering, GoroutinesOK, ProcessesOK, Procs
<1>6. Attempts'
  <2>1. \A q \in Procs : q # p => monitor[q] \in {"none", "done"}
    BY DEF Numbering, ProcessesOK, Procs
  <2>2. \A q \in Procs : monitor'[q] \notin {"drain", "quiet", "exited"}
    BY <2>1 DEF GoroutinesOK
  <2>3. streak' <= restartAttempts'
    BY RestartsAssumption DEF Attempts, ExitsOK, FieldsOK
  <2> QED
    BY <2>2, <2>3 DEF Attempts
<1>7. Fatality'
  BY DEF Fatality, GoroutinesOK
<1>8. Stopped'
  BY DEF Stopped, GoroutinesDone, Idle, GoroutinesOK
<1>9. FlagsOK' /\ ExitsOK'
  BY DEF FlagsOK, ExitsOK
<1>10. ProcessesOK' /\ StoppersOK'
  BY DEF ProcessesOK, StoppersOK
<1>11. Contexts'
  BY DEF Contexts
<1>12. Pipes' /\ Stderr'
  BY DEF Pipes, Stderr
<1> QED
  BY <1>1, <1>2, <1>3, <1>4, <1>5, <1>6, <1>7, <1>8, <1>9, <1>10, <1>11, <1>12

\* handleExit ends because Start failed.
LEMMA RestartFailsInv ==
  ASSUME IInv, NEW p \in Procs, RestartFails(p)
  PROVE  IInv'
<1> USE DEF RestartFails, handleExitUnchanged, monitorUnchanged, readVars,
    dogVars, stopVars, fields, ctxVars, exitVars, IInv, TypeOK
<1>1. FlagsOK'
  BY DEF FlagsOK
<1>2. GoroutinesOK'
  BY DEF GoroutinesOK, MonitorStates, DrainStates, WatchdogStates
<1>3. Numbering'
  <2>1. launched # 0
    BY DEF Numbering, ProcessesOK, Procs
  <2>2. \A q \in Procs : q # p => monitor'[q] = monitor[q]
    BY DEF GoroutinesOK
  <2>3. monitor[p] # "none" /\ monitor[p] # "done" /\ monitor'[p] = "done"
    BY DEF GoroutinesOK
  <2> QED
    BY <2>1, <2>2, <2>3 DEF Numbering
<1>4. Handling'
  BY DEF Handling, GoroutinesOK, Ended, Cleaned
<1>5. Running'
  BY DEF Running, Numbering, GoroutinesOK, ProcessesOK, Procs
<1>6. Attempts'
  BY DEF Attempts, GoroutinesOK
<1>7. Fatality'
  BY DEF Fatality, Numbering, Running, GoroutinesOK, ProcessesOK, Procs
<1>8. Stopped'
  BY DEF Stopped, GoroutinesDone, Idle, GoroutinesOK
<1>9. ExitsOK'
  BY DEF ExitsOK
<1>10. FieldsOK' /\ ProcessesOK' /\ StoppersOK'
  BY DEF FieldsOK, ProcessesOK, StoppersOK
<1>11. Contexts'
  BY DEF Contexts
<1>12. Pipes' /\ Stderr'
  BY DEF Pipes, Stderr
<1> QED
  BY <1>1, <1>2, <1>3, <1>4, <1>5, <1>6, <1>7, <1>8, <1>9, <1>10, <1>11, <1>12

\* handleExit ends because no attempt is left.
LEMMA GiveUpInv ==
  ASSUME IInv, NEW p \in Procs, GiveUp(p)
  PROVE  IInv'
<1> USE DEF GiveUp, handleExitUnchanged, monitorUnchanged, readVars, dogVars,
    stopVars, fields, ctxVars, exitVars, IInv, TypeOK
<1>1. FlagsOK'
  BY DEF FlagsOK
<1>2. GoroutinesOK'
  BY DEF GoroutinesOK, MonitorStates, DrainStates, WatchdogStates
<1>3. Numbering'
  <2>1. launched # 0
    BY DEF Numbering, ProcessesOK, Procs
  <2>2. \A q \in Procs : q # p => monitor'[q] = monitor[q]
    BY DEF GoroutinesOK
  <2>3. monitor[p] # "none" /\ monitor[p] # "done" /\ monitor'[p] = "done"
    BY DEF GoroutinesOK
  <2> QED
    BY <2>1, <2>2, <2>3 DEF Numbering
<1>4. Handling'
  BY DEF Handling, GoroutinesOK, Ended, Cleaned
<1>5. Running'
  BY DEF Running, Numbering, GoroutinesOK, ProcessesOK, Procs
<1>6. Attempts'
  BY DEF Attempts, GoroutinesOK
<1>7. Fatality'
  BY DEF Fatality, Numbering, Running, GoroutinesOK, ProcessesOK, Procs
<1>8. Stopped'
  BY DEF Stopped, GoroutinesDone, Idle, GoroutinesOK
<1>9. ExitsOK'
  BY DEF ExitsOK
<1>10. FieldsOK' /\ ProcessesOK' /\ StoppersOK'
  BY DEF FieldsOK, ProcessesOK, StoppersOK
<1>11. Contexts'
  BY DEF Contexts
<1>12. Pipes' /\ Stderr'
  BY DEF Pipes, Stderr
<1> QED
  BY <1>1, <1>2, <1>3, <1>4, <1>5, <1>6, <1>7, <1>8, <1>9, <1>10, <1>11, <1>12

-----------------------------------------------------------------------------
(* containerStartupWatchdog.                                               *)

\* The watchdog moves; it touches nothing before it marks the timeout.
LEMMA TimeoutPassesInv ==
  ASSUME IInv, NEW p \in Procs, TimeoutPasses(p)
  PROVE  IInv'
<1> USE DEF TimeoutPasses, dogUnchanged, fields, ctxVars, readVars, exitVars,
    stopVars, toldVars, DogMoves, IInv, TypeOK
<1>1. GoroutinesOK'
  BY DEF GoroutinesOK, MonitorStates, DrainStates, WatchdogStates
<1>2. Numbering'
  BY DEF Numbering, GoroutinesOK
<1>3. Stopped'
  BY DEF Stopped, GoroutinesDone, Idle, GoroutinesOK
<1>4. FlagsOK' /\ ExitsOK'
  BY DEF FlagsOK, ExitsOK
<1>5. FieldsOK' /\ ProcessesOK' /\ StoppersOK'
  BY DEF FieldsOK, ProcessesOK, StoppersOK
<1>6. Handling' /\ Running' /\ Contexts'
  BY DEF Handling, Running, Contexts
<1>7. Pipes' /\ Attempts' /\ Stderr' /\ Fatality'
  BY DEF Pipes, Attempts, Stderr, Fatality
<1> QED
  BY <1>1, <1>2, <1>3, <1>4, <1>5, <1>6, <1>7

\* The value is received and forgotten.
LEMMA WatchdogTakesTimeoutInv ==
  ASSUME IInv, NEW p \in Procs, WatchdogTakesTimeout(p)
  PROVE  IInv'
<1> USE DEF WatchdogTakesTimeout, dogUnchanged, fields, ctxVars, readVars,
    exitVars, stopVars, toldVars, DogMoves, IInv, TypeOK
<1>1. GoroutinesOK'
  BY DEF GoroutinesOK, MonitorStates, DrainStates, WatchdogStates
<1>2. Numbering'
  BY DEF Numbering, GoroutinesOK
<1>3. Stopped'
  BY DEF Stopped, GoroutinesDone, Idle, GoroutinesOK
<1>4. FlagsOK' /\ ExitsOK'
  BY DEF FlagsOK, ExitsOK
<1>5. FieldsOK' /\ ProcessesOK' /\ StoppersOK'
  BY DEF FieldsOK, ProcessesOK, StoppersOK
<1>6. Handling' /\ Running' /\ Contexts'
  BY DEF Handling, Running, Contexts
<1>7. Pipes' /\ Attempts' /\ Stderr' /\ Fatality'
  BY DEF Pipes, Attempts, Stderr, Fatality
<1> QED
  BY <1>1, <1>2, <1>3, <1>4, <1>5, <1>6, <1>7

\* The value is received in the second select.
LEMMA WatchdogTicksInv ==
  ASSUME IInv, NEW p \in Procs, WatchdogTicks(p)
  PROVE  IInv'
<1> USE DEF WatchdogTicks, dogUnchanged, fields, ctxVars, readVars, exitVars,
    stopVars, toldVars, DogMoves, IInv, TypeOK
<1>1. GoroutinesOK'
  BY DEF GoroutinesOK, MonitorStates, DrainStates, WatchdogStates
<1>2. Numbering'
  BY DEF Numbering, GoroutinesOK
<1>3. Stopped'
  BY DEF Stopped, GoroutinesDone, Idle, GoroutinesOK
<1>4. FlagsOK' /\ ExitsOK'
  BY DEF FlagsOK, ExitsOK
<1>5. FieldsOK' /\ ProcessesOK' /\ StoppersOK'
  BY DEF FieldsOK, ProcessesOK, StoppersOK
<1>6. Handling' /\ Running' /\ Contexts'
  BY DEF Handling, Running, Contexts
<1>7. Pipes' /\ Attempts' /\ Stderr' /\ Fatality'
  BY DEF Pipes, Attempts, Stderr, Fatality
<1> QED
  BY <1>1, <1>2, <1>3, <1>4, <1>5, <1>6, <1>7

\* The watchdog ends without a timeout.
LEMMA WatchdogLeavesInv ==
  ASSUME IInv, NEW p \in Procs, WatchdogLeaves(p)
  PROVE  IInv'
<1> USE DEF WatchdogLeaves, Waiting, dogUnchanged, fields, ctxVars, readVars,
    exitVars, stopVars, toldVars, DogMoves, IInv, TypeOK
<1>1. GoroutinesOK'
  BY DEF GoroutinesOK, MonitorStates, DrainStates, WatchdogStates
<1>2. Numbering'
  BY DEF Numbering, GoroutinesOK
<1>3. Stopped'
  BY DEF Stopped, GoroutinesDone, Idle, GoroutinesOK
<1>4. FlagsOK' /\ ExitsOK'
  BY DEF FlagsOK, ExitsOK
<1>5. FieldsOK' /\ ProcessesOK' /\ StoppersOK'
  BY DEF FieldsOK, ProcessesOK, StoppersOK
<1>6. Handling' /\ Running' /\ Contexts'
  BY DEF Handling, Running, Contexts
<1>7. Pipes' /\ Attempts' /\ Stderr' /\ Fatality'
  BY DEF Pipes, Attempts, Stderr, Fatality
<1> QED
  BY <1>1, <1>2, <1>3, <1>4, <1>5, <1>6, <1>7

\* The timeout is noted with the process to kill.
LEMMA WatchdogMarksTimeoutInv ==
  ASSUME IInv, NEW p \in Procs, WatchdogMarksTimeout(p)
  PROVE  IInv'
<1> USE DEF WatchdogMarksTimeout, dogUnchanged, fields, ctxVars, readVars,
    exitVars, stopVars, toldVars, DogMoves, IInv, TypeOK
<1>1. FlagsOK'
  BY DEF FlagsOK
<1>2. GoroutinesOK'
  BY DEF GoroutinesOK, WatchdogStates, FieldsOK
<1>3. Numbering'
  BY DEF Numbering, GoroutinesOK
<1>4. Stopped'
  BY DEF Stopped, GoroutinesDone, Idle, GoroutinesOK
<1>5. ExitsOK'
  BY DEF ExitsOK
<1>6. FieldsOK' /\ ProcessesOK' /\ StoppersOK'
  BY DEF FieldsOK, ProcessesOK, StoppersOK
<1>7. Handling' /\ Running' /\ Contexts'
  BY DEF Handling, Running, Contexts
<1>8. Pipes' /\ Attempts' /\ Stderr' /\ Fatality'
  BY DEF Pipes, Attempts, Stderr, Fatality
<1> QED
  BY <1>1, <1>2, <1>3, <1>4, <1>5, <1>6, <1>7, <1>8

\* A kill only ever turns alive into dead.
LEMMA WatchdogKillsInv ==
  ASSUME IInv, NEW p \in Procs, WatchdogKills(p)
  PROVE  IInv'
<1> USE DEF WatchdogKills, Killed, dogUnchanged, fields, ctxVars, readVars,
    exitVars, stopVars, toldVars, DogMoves, IInv, TypeOK
<1>1. ProcessesOK'
  BY DEF ProcessesOK
<1>2. GoroutinesOK'
  BY DEF GoroutinesOK, WatchdogStates, NoProc
<1>3. Numbering' /\ Handling'
  BY DEF Numbering, Handling, GoroutinesOK, ProcessesOK
<1>4. Stopped'
  BY DEF Stopped, GoroutinesDone, Idle, GoroutinesOK
<1>5. FlagsOK' /\ ExitsOK'
  BY DEF FlagsOK, ExitsOK
<1>6. FieldsOK' /\ StoppersOK'
  BY DEF FieldsOK, StoppersOK
<1>7. Running' /\ Contexts'
  BY DEF Running, Contexts
<1>8. Pipes' /\ Attempts' /\ Stderr' /\ Fatality'
  BY DEF Pipes, Attempts, Stderr, Fatality
<1> QED
  BY <1>1, <1>2, <1>3, <1>4, <1>5, <1>6, <1>7, <1>8

-----------------------------------------------------------------------------
(* Stop and the interrupted flag.                                          *)

\* Stop resets pm.running and cancels the context in one critical section.
LEMMA StopBeginsInv ==
  ASSUME IInv, NEW s \in Stoppers, StopBegins(s)
  PROVE  IInv'
<1> USE DEF StopBegins, CtxAfterCancel, stopUnchanged, readVars, exitVars,
    dogVars, toldVars, IInv, TypeOK
<1>1. FlagsOK'
  BY DEF FlagsOK
<1>2. FieldsOK'
  BY DEF FieldsOK, ProcessesOK, Contexts, Procs, NoProc
<1>3. StoppersOK'
  BY DEF StoppersOK, StopperStates, NoProc, FieldsOK
<1>4. Numbering' /\ Handling'
  BY DEF Numbering, Handling, StoppersOK
<1>5. Running' /\ Contexts'
  BY DEF Running, Contexts, ProcessesOK, Procs
<1>6. Stopped'
  BY DEF Stopped, GoroutinesDone, Idle, StoppersOK
<1>7. ExitsOK'
  BY DEF ExitsOK
<1>8. ProcessesOK' /\ GoroutinesOK'
  BY DEF ProcessesOK, GoroutinesOK
<1>9. Pipes' /\ Attempts' /\ Stderr' /\ Fatality'
  BY DEF Pipes, Attempts, Stderr, Fatality
<1> QED
  BY <1>1, <1>2, <1>3, <1>4, <1>5, <1>6, <1>7, <1>8, <1>9

\* Stop kills the process it took over.
LEMMA StopKillsInv ==
  ASSUME IInv, NEW s \in Stoppers, StopKills(s)
  PROVE  IInv'
<1> USE DEF StopKills, Killed, fields, ctxVars, stopUnchanged, readVars,
    exitVars, dogVars, toldVars, IInv, TypeOK
<1>1. ProcessesOK'
  BY DEF ProcessesOK
<1>2. StoppersOK'
  BY DEF StoppersOK, StopperStates, NoProc, FieldsOK
<1>3. Numbering' /\ Handling'
  BY DEF Numbering, Handling, StoppersOK, ProcessesOK
<1>4. Stopped'
  BY DEF Stopped, GoroutinesDone, Idle, StoppersOK
<1>5. FlagsOK' /\ ExitsOK'
  BY DEF FlagsOK, ExitsOK
<1>6. FieldsOK' /\ GoroutinesOK'
  BY DEF FieldsOK, GoroutinesOK
<1>7. Running' /\ Contexts'
  BY DEF Running, Contexts
<1>8. Pipes' /\ Attempts' /\ Stderr' /\ Fatality'
  BY DEF Pipes, Attempts, Stderr, Fatality
<1> QED
  BY <1>1, <1>2, <1>3, <1>4, <1>5, <1>6, <1>7, <1>8

\* Stop sees waitDone.
LEMMA StopReapedInv ==
  ASSUME IInv, NEW s \in Stoppers, StopReaped(s)
  PROVE  IInv'
<1> USE DEF StopReaped, fields, ctxVars, stopUnchanged, readVars, exitVars,
    dogVars, toldVars, IInv, TypeOK
<1>1. FlagsOK'
  BY DEF FlagsOK
<1>2. StoppersOK'
  BY DEF StoppersOK, StopperStates, NoProc, FieldsOK
<1>3. Numbering'
  BY DEF Numbering, StoppersOK
<1>4. Stopped'
  BY DEF Stopped, GoroutinesDone, Idle, StoppersOK
<1>5. ExitsOK'
  BY DEF ExitsOK
<1>6. FieldsOK' /\ ProcessesOK' /\ GoroutinesOK'
  BY DEF FieldsOK, ProcessesOK, GoroutinesOK
<1>7. Handling' /\ Running' /\ Contexts'
  BY DEF Handling, Running, Contexts
<1>8. Pipes' /\ Attempts' /\ Stderr' /\ Fatality'
  BY DEF Pipes, Attempts, Stderr, Fatality
<1> QED
  BY <1>1, <1>2, <1>3, <1>4, <1>5, <1>6, <1>7, <1>8

\* wg.Wait returns only when every goroutine is done.
LEMMA StopWaitsInv ==
  ASSUME IInv, NEW s \in Stoppers, StopWaits(s)
  PROVE  IInv'
<1> USE DEF StopWaits, fields, ctxVars, stopUnchanged, readVars, exitVars,
    dogVars, toldVars, IInv, TypeOK
<1>1. StoppersOK'
  BY DEF StoppersOK, StopperStates, NoProc, FieldsOK
<1>2. Numbering'
  BY DEF Numbering, StoppersOK
<1>3. Stopped'
  BY DEF Stopped, Numbering, GoroutinesDone, Idle, StoppersOK
<1>4. FlagsOK' /\ ExitsOK'
  BY DEF FlagsOK, ExitsOK
<1>5. FieldsOK' /\ ProcessesOK' /\ GoroutinesOK'
  BY DEF FieldsOK, ProcessesOK, GoroutinesOK
<1>6. Handling' /\ Running' /\ Contexts'
  BY DEF Handling, Running, Contexts
<1>7. Pipes' /\ Attempts' /\ Stderr' /\ Fatality'
  BY DEF Pipes, Attempts, Stderr, Fatality
<1> QED
  BY <1>1, <1>2, <1>3, <1>4, <1>5, <1>6, <1>7

\* A Stop past wg.Wait finds pm.running reset: no goroutine was left to set it.
LEMMA StopFinishesInv ==
  ASSUME IInv, NEW s \in Stoppers, StopFinishes(s)
  PROVE  IInv'
<1> USE DEF StopFinishes, ctxVars, stopUnchanged, readVars, exitVars, dogVars,
    toldVars, IInv, TypeOK
<1>1. FieldsOK'
  BY DEF FieldsOK, NoProc
<1>2. StoppersOK'
  BY DEF StoppersOK, StopperStates, NoProc, FieldsOK
<1>3. Numbering'
  BY DEF Numbering, StoppersOK
<1>4. Running'
  BY DEF Running, Stopped, GoroutinesDone, Idle, ProcessesOK, Procs
<1>5. Stopped'
  BY DEF Stopped, GoroutinesDone, Idle, StoppersOK
<1>6. FlagsOK' /\ ExitsOK'
  BY DEF FlagsOK, ExitsOK
<1>7. ProcessesOK' /\ GoroutinesOK'
  BY DEF ProcessesOK, GoroutinesOK
<1>8. Handling' /\ Contexts'
  BY DEF Handling, Contexts
<1>9. Pipes' /\ Attempts' /\ Stderr' /\ Fatality'
  BY DEF Pipes, Attempts, Stderr, Fatality
<1> QED
  BY <1>1, <1>2, <1>3, <1>4, <1>5, <1>6, <1>7, <1>8, <1>9

\* The interrupted flag decides nothing the invariant speaks of.
LEMMA SetInterruptedInv ==
  ASSUME IInv, NEW b \in BOOLEAN, SetInterrupted(b)
  PROVE  IInv'
<1> USE DEF SetInterrupted, procVars, readVars, exitVars, dogVars, stopVars,
    toldVars, fields, ctxVars, IInv, TypeOK
<1>1. FlagsOK'
  BY DEF FlagsOK
<1>2. ExitsOK'
  BY DEF ExitsOK
<1>3. FieldsOK' /\ ProcessesOK' /\ GoroutinesOK' /\ StoppersOK'
  BY DEF FieldsOK, ProcessesOK, GoroutinesOK, StoppersOK
<1>4. Numbering' /\ Handling' /\ Running' /\ Contexts'
  BY DEF Numbering, Handling, Running, Contexts
<1>5. Pipes' /\ Attempts' /\ Stderr' /\ Fatality' /\ Stopped'
  BY DEF Pipes, Attempts, Stderr, Fatality, Stopped, GoroutinesDone, Idle
<1> QED
  BY <1>1, <1>2, <1>3, <1>4, <1>5

-----------------------------------------------------------------------------
(* Start, by the owner and by handleExit.                                  *)

\* The step that launches a process, for the owner's Start and for a restart:
\* the goroutine that makes it may end with it.
LEMMA LaunchInv ==
  ASSUME IInv, NEW monitorPC \in [Procs -> MonitorStates], Launch(monitorPC), started',
         started' \in BOOLEAN,
         \A q \in Procs : monitorPC[q] = IF monitor[q] = "none" THEN "none" ELSE "done",
         \A q \in Procs : q <= launched => proc[q] = "dead" /\ drain[q] = "done",
         ~fatal, \A s \in Stoppers : stopper[s] \notin {"final", "stopped"}
  PROVE  IInv'
<1> DEFINE p == launched + 1
<1> USE DEF Launch, exitVars, stopVars, toldVars, IInv, TypeOK
<1>1. p \in Procs /\ p \in 1..MaxProcesses
  BY ProcessesAssumption DEF ProcessesOK, Procs
<1>2. FlagsOK'
  BY DEF FlagsOK
<1>3. FieldsOK'
  BY <1>1 DEF FieldsOK, CtxAfterCancel, Contexts, ProcessesOK, Procs
<1>4. ProcessesOK'
  BY <1>1, StderrAssumption DEF ProcessesOK
<1>5. GoroutinesOK'
  BY <1>1 DEF GoroutinesOK, ReaderStates, DrainStates, MonitorStates, WatchdogStates
<1>6. ExitsOK' /\ StoppersOK'
  BY DEF ExitsOK, StoppersOK
<1>7. Numbering'
  BY <1>1 DEF Numbering, ProcessesOK, GoroutinesOK, Procs
<1>8. Handling'
  BY <1>1 DEF Handling, Numbering, Ended, Cleaned, ProcessesOK, GoroutinesOK, Procs, CtxAfterCancel
<1>9. Running'
  <2>1. p \notin ctxCancelled'
    BY <1>1 DEF Contexts, CtxAfterCancel, ProcessesOK, FieldsOK, Procs
  <2>2. monitor'[p] = "wait"
    BY <1>1
  <2>3. launched' = p /\ p > 0 /\ cmd' = p /\ stdin' = p /\ stdout' = p
    BY <1>1 DEF Procs
  <2>4. cancel' /\ running'
    OBVIOUS
  <2> QED
    BY <2>1, <2>2, <2>3, <2>4 DEF Running
<1>10. Contexts'
  BY <1>1 DEF Contexts, ProcessesOK, Procs, CtxAfterCancel
<1>11. Pipes' /\ Attempts'
  BY <1>1 DEF Pipes, Attempts, GoroutinesOK
<1>12. Stderr'
  BY <1>1 DEF Stderr, Numbering, ProcessesOK, Procs
<1>13. Fatality' /\ Stopped'
  BY DEF Fatality, Stopped
<1> QED
  BY <1>2, <1>3, <1>4, <1>5, <1>6, <1>7, <1>8, <1>9, <1>10, <1>11, <1>12, <1>13

\* The owner's Start finds a fresh manager.
LEMMA StartInv == ASSUME IInv, Start PROVE IInv'
<1> USE DEF Start, IInv, TypeOK
<1>1. CASE Launch(monitor)
  <2>1. launched = 0
    BY DEF Numbering
  <2>2. ~fatal /\ \A s \in Stoppers : stopper[s] = "idle"
    BY DEF Numbering
  <2>3. \A q \in Procs : monitor[q] = "none"
    BY <2>1 DEF Numbering, Procs
  <2>4. \A q \in Procs : q <= launched => proc[q] = "dead" /\ drain[q] = "done"
    BY <2>1 DEF Procs
  <2> QED
    BY <1>1, <2>2, <2>3, <2>4, LaunchInv DEF GoroutinesOK
<1>2. CASE LaunchFails /\ UNCHANGED <<monitor, toldVars>>
  <2> USE <1>2 DEF LaunchFails, fields, ctxVars, readVars, exitVars, dogVars,
        stopVars, toldVars
  <2>1. FlagsOK'
    BY ContainerizedAssumption DEF FlagsOK
  <2>2. FieldsOK' /\ ProcessesOK' /\ GoroutinesOK' /\ StoppersOK'
    BY DEF FieldsOK, ProcessesOK, GoroutinesOK, StoppersOK
  <2>3. ExitsOK'
    BY DEF ExitsOK
  <2>4. Numbering' /\ Handling'
    BY DEF Numbering, Handling
  <2>5. Running' /\ Contexts' /\ Pipes'
    BY DEF Running, Contexts, Pipes
  <2>6. Attempts' /\ Stderr' /\ Fatality' /\ Stopped'
    BY DEF Attempts, Stderr, Fatality, Stopped, GoroutinesDone, Idle
  <2> QED
    BY <2>1, <2>2, <2>3, <2>4, <2>5, <2>6
<1> QED
  BY <1>1, <1>2

\* A restart finds the previous process dead, drained and handled.
LEMMA RestartInv == ASSUME IInv, NEW p \in Procs, Restart(p) PROVE IInv'
<1> USE DEF Restart, IInv, TypeOK
<1> DEFINE pc == [monitor EXCEPT ![p] = "done"]
<1>1. p = launched /\ proc[p] = "dead" /\ drain[p] = "done"
  BY DEF Numbering, Handling, Ended, Cleaned, ProcessesOK, Procs
<1>2. pc \in [Procs -> MonitorStates]
  BY DEF GoroutinesOK, MonitorStates
<1>3. \A q \in Procs : pc[q] = IF monitor[q] = "none" THEN "none" ELSE "done"
  BY <1>1 DEF Numbering, GoroutinesOK, ProcessesOK, Procs
<1>4. \A q \in Procs : q <= launched => proc[q] = "dead" /\ drain[q] = "done"
  BY <1>1 DEF Numbering, ProcessesOK, Procs
<1>5. ~fatal
  BY DEF Fatality
<1>6. \A s \in Stoppers : stopper[s] \notin {"final", "stopped"}
  BY DEF Stopped, GoroutinesDone, Idle
<1>7. started = TRUE
  BY <1>1 DEF Numbering, FlagsOK, Procs
<1> QED
  BY <1>2, <1>3, <1>4, <1>5, <1>6, <1>7, LaunchInv

\* A stuttering step.
LEMMA UnchangedInv == ASSUME IInv, UNCHANGED vars PROVE IInv'
<1> USE DEF vars, fields, ctxVars, procVars, readVars, exitVars, dogVars, stopVars,
      toldVars, IInv, TypeOK
<1>1. FlagsOK' /\ ExitsOK'
  BY DEF FlagsOK, ExitsOK
<1>2. FieldsOK' /\ ProcessesOK' /\ GoroutinesOK' /\ StoppersOK'
  BY DEF FieldsOK, ProcessesOK, GoroutinesOK, StoppersOK
<1>3. Numbering' /\ Handling' /\ Running' /\ Contexts'
  BY DEF Numbering, Handling, Running, Contexts
<1>4. Pipes' /\ Attempts' /\ Stderr' /\ Fatality' /\ Stopped'
  BY DEF Pipes, Attempts, Stderr, Fatality, Stopped, GoroutinesDone, Idle
<1> QED
  BY <1>1, <1>2, <1>3, <1>4

\* The invariant is inductive: one step per action.
LEMMA NextInv == IInv /\ [Next]_vars => IInv'
<1> SUFFICES ASSUME IInv, [Next]_vars PROVE IInv'
  OBVIOUS
<1>1. CASE Start
  BY <1>1, StartInv
<1>2. ASSUME NEW p \in Procs, ProcStep(p) PROVE IInv'
  BY <1>2, ProcWritesInv, ProcExitsInv DEF ProcStep
<1>3. ASSUME NEW p \in Procs, ReaderStep(p) PROVE IInv'
  BY <1>3, ReaderChecksInv, ReaderReadsInv, ReaderEndsInv, OnInitLineInv,
     OnResultLineInv DEF ReaderStep
<1>4. ASSUME NEW p \in Procs, DrainStderr(p) PROVE IInv'
  BY <1>4, DrainStderrInv
<1>5. ASSUME NEW p \in Procs, MonitorStep(p) PROVE IInv'
  <2>1. CASE HandleExitStep(p)
    BY <2>1, HandleExitInv, CleanupLockedInv, ReportQuietExitInv,
       ReportContainerTimeoutInv, ReportExitInv, RestartInv, RestartFailsInv,
       GiveUpInv DEF HandleExitStep
  <2> QED
    BY <1>5, <2>1, MonitorCancelledInv, MonitorReapsInv DEF MonitorStep
<1>6. ASSUME NEW p \in Procs, TimeoutPasses(p) \/ WatchdogStep(p) PROVE IInv'
  BY <1>6, TimeoutPassesInv, WatchdogTakesTimeoutInv, WatchdogTicksInv,
     WatchdogLeavesInv, WatchdogMarksTimeoutInv, WatchdogKillsInv DEF WatchdogStep
<1>7. ASSUME NEW s \in Stoppers, StopBegins(s) \/ StopStep(s) PROVE IInv'
  BY <1>7, StopBeginsInv, StopKillsInv, StopReapedInv, StopWaitsInv,
     StopFinishesInv DEF StopStep
<1>8. ASSUME NEW b \in BOOLEAN, SetInterrupted(b) PROVE IInv'
  BY <1>8, SetInterruptedInv
<1>9. CASE UNCHANGED vars
  BY <1>9, UnchangedInv
<1> QED
  BY <1>1, <1>2, <1>3, <1>4, <1>5, <1>6, <1>7, <1>8, <1>9 DEF Next

\* The inductive invariant holds in every reachable state.
THEOREM Invariance == Spec => []IInv
  BY InitInv, NextInv, PTL DEF Spec

-----------------------------------------------------------------------------
(* The safety properties the runs check.                                   *)

\* Every field keeps its type; in particular pm.restartAttempts never exceeds
\* MaxProcessRestartAttempts, whatever the callbacks and handleExit interleave.
THEOREM TypeCorrectness == Spec => []TypeOK
<1>1. IInv => TypeOK
  BY DEF IInv
<1> QED
  BY <1>1, Invariance, PTL

\* A manager never has two Claude processes alive: handleExit calls Start only
\* after cmd.Wait has returned, and Start refuses while pm.running is set.
THEOREM OneLiveProcess == Spec => []AtMostOneLiveProcess
<1>1. ASSUME IInv PROVE AtMostOneLiveProcess
  <2>1. \A p \in Procs : proc[p] = "alive" => p = launched
    BY <1>1 DEF IInv, TypeOK, Numbering, ProcessesOK, Procs
  <2> QED
    BY <2>1 DEF AtMostOneLiveProcess
<1> QED
  BY <1>1, Invariance, PTL

\* pm.running is the one flag WriteMessage, Interrupt and Stop test: it vouches
\* for cmd, stdin, stdout and the context.  So handleExit never finds the
\* context cancelled, and only wasInterrupted decides whether it stays quiet.
THEOREM RunningVouches == Spec => []RunningIsConsistent
<1>1. ASSUME IInv PROVE RunningIsConsistent
  <2>1. running => launched \in Procs
    BY <1>1 DEF IInv, TypeOK, Running, ProcessesOK, Procs
  <2>2. running => launched \notin reported
    BY <1>1, <2>1 DEF IInv, Running, Handling
  <2> QED
    BY <1>1, <2>2 DEF IInv, Running, RunningIsConsistent
<1> QED
  BY <1>1, Invariance, PTL

\* No context of an earlier process stays live.
THEOREM ContextsReleased == Spec => []NoContextLeaks
<1>1. IInv => NoContextLeaks
  BY DEF IInv, Contexts, NoContextLeaks
<1> QED
  BY <1>1, Invariance, PTL

\* Stop returns to a manager in which nothing runs, and nothing will.
THEOREM StopLeavesQuiet == Spec => []StopQuiesces
<1>1. ASSUME IInv PROVE StopQuiesces
  <2> SUFFICES ASSUME NEW s \in Stoppers, stopper[s] = "stopped"
               PROVE /\ GoroutinesDone
                     /\ \A p \in Procs : proc[p] # "alive"
                     /\ ~running /\ cmd = NoProc /\ stdin = NoProc /\ stdout = NoProc
    BY DEF StopQuiesces
  <2>1. GoroutinesDone /\ cmd = NoProc /\ stdout = NoProc
    BY <1>1 DEF IInv, Stopped
  <2>2. \A p \in Procs : monitor[p] \in {"none", "done"}
    BY <2>1 DEF GoroutinesDone, Idle
  <2>3. \A p \in Procs : proc[p] # "alive"
    BY <1>1, <2>2 DEF IInv, TypeOK, Numbering, Handling, Ended, ProcessesOK, Procs
  <2>4. ~running /\ stdin = NoProc
    BY <1>1, <2>1 DEF IInv, Running, NoProc
  <2> QED
    BY <2>1, <2>3, <2>4
<1> QED
  BY <1>1, Invariance, PTL

\* OnFatalError is the last word: no process lives and none will be started.
THEOREM FatalErrorIsLast == Spec => []FatalIsFinal
<1>1. ASSUME IInv PROVE FatalIsFinal
  <2> SUFFICES ASSUME fatal
               PROVE ~running /\ \A p \in Procs : proc[p] # "alive" /\ monitor[p] \in {"none", "done"}
    BY DEF FatalIsFinal
  <2>1. ~running /\ \A p \in Procs : monitor[p] \in {"none", "done"}
    BY <1>1 DEF IInv, Fatality
  <2>2. \A p \in Procs : proc[p] # "alive"
    BY <1>1, <2>1 DEF IInv, TypeOK, Numbering, Handling, Ended, ProcessesOK, Procs
  <2> QED
    BY <2>1, <2>2
<1> QED
  BY <1>1, Invariance, PTL

\* The restart budget holds although handleExit writes back a count it read
\* before the callbacks ran.
THEOREM RestartsAreBounded == Spec => []RestartBudget
<1>1. IInv => RestartBudget
  BY RestartsAssumption DEF IInv, TypeOK, FieldsOK, Attempts, RestartBudget
<1> QED
  BY <1>1, Invariance, PTL

\* OnProcessExit never blames a process for what an earlier one wrote to stderr.
THEOREM StderrAttributed == Spec => []StderrIsOwn
<1>1. IInv => StderrIsOwn
  BY DEF IInv, Stderr, StderrIsOwn
<1> QED
  BY <1>1, Invariance, PTL

=============================================================================
