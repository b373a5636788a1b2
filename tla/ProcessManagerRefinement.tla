----------------------- MODULE ProcessManagerRefinement ----------------------
(***************************************************************************)
(* ProcessManager implements ManagedProcess, for every value of the        *)
(* constants: each step of its goroutines is a step of the life cycle, or  *)
(* leaves it alone.                                                        *)
(***************************************************************************)
EXTENDS ProcessManagerProofs

\* Steps that touch neither the processes nor monitorExit leave the phase alone.
LEMMA PhaseKept ==
  ASSUME UNCHANGED <<started, launched, proc, monitor, streak>>
  PROVE  UNCHANGED Lifecycle!vars
BY DEF Phase, Lifecycle!vars

\* The end of a process is the abstract exit: nobody has handled it yet.
LEMMA DeathIsExit ==
  ASSUME IInv, NEW p, proc' = Killed(p),
         UNCHANGED <<started, launched, monitor, streak>>
  PROVE  [Lifecycle!Next]_Lifecycle!vars
<1>1. CASE p \in Procs /\ proc[p] = "alive"
  <2>1. p = launched /\ p # 0 /\ started
    BY <1>1 DEF IInv, TypeOK, Numbering, ProcessesOK, FlagsOK, Procs
  <2>2. Phase = "up"
    BY <1>1, <2>1 DEF Phase
  <2>3. proc'[p] = "dead"
    BY <1>1 DEF Killed
  <2>4. monitor[p] \notin Ended
    BY <1>1 DEF IInv, Handling
  <2>5. Phase' = "down"
    BY <2>1, <2>3, <2>4 DEF Phase, Ended
  <2> QED
    BY <2>2, <2>5 DEF Lifecycle!Next, Lifecycle!Exit, Lifecycle!Moves
<1>2. CASE ~(p \in Procs /\ proc[p] = "alive")
  <2>1. proc' = proc
    BY <1>2 DEF Killed, IInv, TypeOK, ProcessesOK
  <2> QED
    BY <2>1, PhaseKept
<1> QED
  BY <1>1, <1>2

\* Where a step of the monitorExit of the latest process takes the phase.
LEMMA MonitorMoves ==
  ASSUME IInv, NEW p \in Procs, monitor[p] \in Ended \cup {"wait", "await"},
         monitor[p] # "done", proc[p] = "dead",
         NEW m, monitor' = [monitor EXCEPT ![p] = m],
         UNCHANGED <<started, launched, proc>>
  PROVE  /\ Phase = IF monitor[p] = "sleep" THEN "retrying" ELSE "down"
         /\ Phase' = IF m = "done" THEN "over" ELSE IF m = "sleep" THEN "retrying" ELSE "down"
<1>1. p = launched /\ p # 0 /\ started
  BY DEF IInv, TypeOK, Numbering, ProcessesOK, FlagsOK, Procs, Ended
<1>2. monitor'[p] = m
  BY DEF IInv, TypeOK, GoroutinesOK
<1> QED
  BY <1>1, <1>2 DEF Phase

\* The first launch, or its failure.
LEMMA StartRefines == ASSUME IInv, Start PROVE Lifecycle!Next
<1>1. Phase = "idle"
  BY DEF Start, Phase
<1>2. UNCHANGED streak
  BY DEF Start, Launch, toldVars
<1>3. CASE Launch(monitor)
  <2>1. launched' \in Procs /\ launched' # 0 /\ proc'[launched'] = "alive" /\ started' = TRUE
    <3>1. /\ launched' = launched + 1 /\ launched < MaxProcesses
          /\ proc' = [proc EXCEPT ![launched + 1] = "alive"]
      BY <1>3 DEF Launch
    <3>2. started' = TRUE
      BY DEF Start
    <3> QED
      BY <3>1, <3>2, ProcessesAssumption DEF IInv, TypeOK, ProcessesOK, Procs
  <2>2. Phase' = "up"
    BY <2>1 DEF Phase
  <2> QED
    BY <1>1, <1>2, <2>2 DEF Lifecycle!Next, Lifecycle!Launch, Lifecycle!Moves
<1>4. CASE LaunchFails
  <2>1. launched' = 0 /\ started' = TRUE
    BY <1>4 DEF Start, LaunchFails, IInv, Numbering
  <2>2. Phase' = "over"
    BY <2>1 DEF Phase
  <2> QED
    BY <1>1, <1>2, <2>2 DEF Lifecycle!Next, Lifecycle!Launch, Lifecycle!Moves
<1> QED
  BY <1>3, <1>4 DEF Start

\* monitorExit and handleExit: this is where an exit is answered or concluded.
LEMMA HandleExitRefines ==
  ASSUME IInv, NEW p \in Procs, MonitorStep(p)
  PROVE  [Lifecycle!Next]_Lifecycle!vars
<1> USE DEF monitorUnchanged, handleExitUnchanged, Lifecycle!Next, Lifecycle!Moves
<1>0. monitor[p] \in Ended => proc[p] = "dead"
  BY DEF IInv, Handling
<1>1. CASE MonitorCancelled(p)
  <2>1. p = launched /\ p # 0 /\ started /\ monitor'[launched] = "await"
    BY <1>1 DEF MonitorCancelled, IInv, TypeOK, Numbering, ProcessesOK, GoroutinesOK, FlagsOK, Procs
  <2>2. UNCHANGED <<launched, proc, started, streak>>
    BY <1>1 DEF MonitorCancelled, toldVars
  <2>3. Phase' = Phase
    BY <1>1, <2>1, <2>2 DEF Phase, MonitorCancelled
  <2> QED
    BY <2>2, <2>3 DEF Lifecycle!vars
<1>2. CASE MonitorReaps(p)
  <2>1. PICK m \in {"exit", "done"} : monitor' = [monitor EXCEPT ![p] = m]
    BY <1>2 DEF MonitorReaps
  <2>2. Phase = "down" /\ Phase' \in {"down", "over"}
    BY <1>2, <2>1, MonitorMoves DEF MonitorReaps, WaitReturns
  <2> QED
    BY <1>2, <2>2 DEF MonitorReaps, toldVars, Lifecycle!Conclude, Lifecycle!vars
<1>3. CASE HandleExit(p)
  <2>1. PICK m \in {"drain", "done"} : monitor' = [monitor EXCEPT ![p] = m]
    BY <1>3 DEF HandleExit
  <2>2. Phase = "down" /\ Phase' \in {"down", "over"}
    BY <1>0, <1>3, <2>1, MonitorMoves DEF HandleExit, Ended
  <2> QED
    BY <1>3, <2>2 DEF HandleExit, toldVars, Lifecycle!Conclude, Lifecycle!vars
<1>4. CASE CleanupLocked(p)
  <2>1. PICK m \in {"quiet", "exited"} : monitor' = [monitor EXCEPT ![p] = m]
    BY <1>4 DEF CleanupLocked
  <2>2. Phase = "down" /\ Phase' = "down"
    BY <1>0, <1>4, <2>1, MonitorMoves DEF CleanupLocked, Ended
  <2> QED
    BY <1>4, <2>2 DEF CleanupLocked, toldVars, Lifecycle!vars
<1>5. CASE ReportQuietExit(p) \/ ReportContainerTimeout(p) \/ GiveUp(p)
  <2>1. monitor' = [monitor EXCEPT ![p] = "done"] /\ monitor[p] \in {"quiet", "exited", "giveup"}
    BY <1>5 DEF ReportQuietExit, ReportContainerTimeout, GiveUp
  <2>2. UNCHANGED <<started, launched, proc, streak>>
    BY <1>5 DEF ReportQuietExit, ReportContainerTimeout, GiveUp
  <2>3. Phase = "down" /\ Phase' = "over"
    BY <1>0, <2>1, <2>2, MonitorMoves DEF Ended
  <2> QED
    BY <2>2, <2>3 DEF Lifecycle!Conclude
<1>6. CASE ReportExit(p)
  <2>1. UNCHANGED <<started, launched, proc>> /\ monitor[p] = "exited"
    BY <1>6 DEF ReportExit
  <2>2. PICK m \in {"done", "giveup", "sleep"} :
          /\ monitor' = [monitor EXCEPT ![p] = m]
          /\ IF m = "sleep" THEN AttemptsLeft(p) /\ streak' = streak + 1
                            ELSE UNCHANGED streak
    BY <1>6 DEF ReportExit
  <2>3. /\ Phase = "down"
        /\ Phase' = IF m = "done" THEN "over" ELSE IF m = "sleep" THEN "retrying" ELSE "down"
    BY <1>0, <2>1, <2>2, MonitorMoves DEF Ended
  <2>4. CASE m = "sleep"
    <3>1. streak < MaxProcessRestartAttempts
      BY <2>1, <2>2, <2>4, RestartsAssumption
      DEF AttemptsLeft, IInv, TypeOK, FieldsOK, ExitsOK, Attempts
    <3> QED
      BY <2>2, <2>3, <2>4, <3>1 DEF Lifecycle!Grant
  <2>5. CASE m # "sleep"
    BY <2>2, <2>3, <2>5 DEF Lifecycle!Conclude, Lifecycle!vars
  <2> QED
    BY <2>4, <2>5
<1>7. CASE Restart(p)
  <2>1. launched' \in Procs /\ launched' # 0 /\ proc'[launched'] = "alive"
    <3>1. /\ launched' = launched + 1 /\ launched < MaxProcesses
          /\ proc' = [proc EXCEPT ![launched + 1] = "alive"]
      BY <1>7 DEF Restart, Launch
    <3> QED
      BY <3>1, ProcessesAssumption DEF IInv, TypeOK, ProcessesOK, Procs
  <2>2. p = launched /\ p # 0 /\ started /\ proc[p] = "dead"
    BY <1>0, <1>7 DEF Restart, IInv, TypeOK, Numbering, ProcessesOK, FlagsOK, Procs, Ended
  <2>3. UNCHANGED <<started, streak>> /\ monitor[p] = "sleep"
    BY <1>7 DEF Restart, Launch, toldVars
  <2>4. Phase = "retrying" /\ Phase' = "up"
    BY <2>1, <2>2, <2>3 DEF Phase
  <2> QED
    BY <2>3, <2>4 DEF Lifecycle!Retry
<1>8. CASE RestartFails(p)
  <2>1. monitor' = [monitor EXCEPT ![p] = "done"] /\ monitor[p] = "sleep"
    BY <1>8 DEF RestartFails
  <2>2. UNCHANGED <<started, launched, proc, streak>>
    BY <1>8 DEF RestartFails
  <2>3. Phase = "retrying" /\ Phase' = "over"
    BY <1>0, <2>1, <2>2, MonitorMoves DEF Ended
  <2> QED
    BY <2>2, <2>3 DEF Lifecycle!Retry
<1> QED
  BY <1>1, <1>2, <1>3, <1>4, <1>5, <1>6, <1>7, <1>8 DEF MonitorStep, HandleExitStep

\* One step per action.
LEMMA NextRefines ==
  ASSUME IInv, [Next]_vars
  PROVE  [Lifecycle!Next]_Lifecycle!vars
<1>1. CASE Start
  BY <1>1, StartRefines
<1>2. ASSUME NEW p \in Procs, ProcStep(p) PROVE [Lifecycle!Next]_Lifecycle!vars
  <2>1. ASSUME NEW line \in Lines, ProcWrites(p, line)
        PROVE  [Lifecycle!Next]_Lifecycle!vars
    BY <2>1, PhaseKept DEF ProcWrites, toldVars
  <2>2. CASE ProcExits(p)
    <3>1. proc' = Killed(p)
      BY <2>2 DEF ProcExits, Killed, IInv, TypeOK, ProcessesOK
    <3> QED
      BY <2>2, <3>1, DeathIsExit DEF ProcExits, toldVars
  <2> QED
    BY <1>2, <2>1, <2>2 DEF ProcStep
<1>3. ASSUME NEW p \in Procs, ReaderStep(p) PROVE [Lifecycle!Next]_Lifecycle!vars
  <2>1. UNCHANGED <<started, launched, proc, monitor>>
    BY <1>3 DEF ReaderStep, ReaderChecks, ReaderReads, ReaderEnds, OnInitLine,
       OnResultLine, readerUnchanged
  <2>2. CASE OnResultLine(p)
    <3>1. Phase # "idle" /\ Phase' = Phase
      BY <2>1, <2>2 DEF OnResultLine, Phase, IInv, TypeOK, Numbering, ProcessesOK, FlagsOK, Procs
    <3> QED
      BY <2>2, <3>1 DEF OnResultLine, Lifecycle!Next, Lifecycle!Answer
  <2>3. CASE ~OnResultLine(p)
    <3>1. UNCHANGED streak
      BY <1>3, <2>3 DEF ReaderStep, ReaderChecks, ReaderReads, ReaderEnds, OnInitLine
    <3> QED
      BY <2>1, <3>1, PhaseKept
  <2> QED
    BY <2>2, <2>3
<1>4. ASSUME NEW p \in Procs, DrainStderr(p) PROVE [Lifecycle!Next]_Lifecycle!vars
  BY <1>4, PhaseKept DEF DrainStderr, procVars, toldVars
<1>5. ASSUME NEW p \in Procs, MonitorStep(p) PROVE [Lifecycle!Next]_Lifecycle!vars
  BY <1>5, HandleExitRefines
<1>6. ASSUME NEW p \in Procs, TimeoutPasses(p) \/ WatchdogStep(p)
      PROVE  [Lifecycle!Next]_Lifecycle!vars
  <2>1. UNCHANGED <<started, launched, monitor, streak>>
    BY <1>6 DEF WatchdogStep, TimeoutPasses, WatchdogTakesTimeout, WatchdogTicks,
       WatchdogLeaves, WatchdogMarksTimeout, WatchdogKills, dogUnchanged, toldVars
  <2>2. CASE WatchdogKills(p)
    BY <2>1, <2>2, DeathIsExit DEF WatchdogKills
  <2>3. CASE ~WatchdogKills(p)
    <3>1. UNCHANGED proc
      BY <1>6, <2>3 DEF WatchdogStep, TimeoutPasses, WatchdogTakesTimeout,
         WatchdogTicks, WatchdogLeaves, WatchdogMarksTimeout
    <3> QED
      BY <2>1, <3>1, PhaseKept
  <2> QED
    BY <2>2, <2>3
<1>7. ASSUME NEW s \in Stoppers, StopBegins(s) \/ StopStep(s)
      PROVE  [Lifecycle!Next]_Lifecycle!vars
  <2>1. UNCHANGED <<started, launched, monitor, streak>>
    BY <1>7 DEF StopStep, StopBegins, StopKills, StopReaped, StopWaits,
       StopFinishes, stopUnchanged, toldVars
  <2>2. CASE StopKills(s)
    BY <2>1, <2>2, DeathIsExit DEF StopKills
  <2>3. CASE ~StopKills(s)
    <3>1. UNCHANGED proc
      BY <1>7, <2>3 DEF StopStep, StopBegins, StopReaped, StopWaits, StopFinishes
    <3> QED
      BY <2>1, <3>1, PhaseKept
  <2> QED
    BY <2>2, <2>3
<1>8. ASSUME NEW b \in BOOLEAN, SetInterrupted(b)
      PROVE  [Lifecycle!Next]_Lifecycle!vars
  BY <1>8, PhaseKept DEF SetInterrupted, procVars, toldVars
<1>9. CASE UNCHANGED vars
  BY <1>9, PhaseKept DEF vars, procVars, toldVars
<1> QED
  BY <1>1, <1>2, <1>3, <1>4, <1>5, <1>6, <1>7, <1>8, <1>9 DEF Next

\* The manager implements the life cycle its owner relies on: processes come one
\* at a time, restarts are bounded, and nothing follows the end.
THEOREM Implementation == Spec => ImplementsLifecycle
<1>1. Init => Lifecycle!Init
  BY DEF Init, Phase, Lifecycle!Init
<1> QED
  BY <1>1, NextRefines, Invariance, PTL DEF Spec, ImplementsLifecycle, Lifecycle!Spec

=============================================================================
