------------------------ MODULE SessionManagerProofs ------------------------
(***************************************************************************)
(* The Runners of sessions, for any number of goroutines, sessions,        *)
(* Runners, messages and tools: the inductive invariant of SessionManager, *)
(* with that of its states, and the theorems that follow from the two.     *)
(***************************************************************************)
EXTENDS SessionStatesProofs

RunnerRecords ==
  [session : Sessions, stopped : BOOLEAN, messages : 0..MaxMessages, old : BOOLEAN,
   heir : BOOLEAN, forks : BOOLEAN, began : {"no", "fresh", "fork"}, tools : SUBSET Tools,
   configured : BOOLEAN]
RunnersTyped ==
  /\ runner \in Seq(RunnerRecords) /\ Len(runner) <= MaxRunners
  /\ runners \in [Sessions -> 0..Len(runner)]
  /\ disk \in [Sessions -> 0..MaxMessages]
  /\ repoTools \in [Sessions -> SUBSET Tools]
  /\ overwritten \in BOOLEAN
RunnersAreOwn == \A s \in Sessions : runners[s] # 0 => runner[runners[s]].session = s

\* What a thread has in hand: a Runner of its session, or a number of messages.
ManagerOps == {"Select", "SaveMessages", "DeleteSession", "AddAllowedTool"}
Managing(t) == thread[t].op \in ManagerOps
WithRunner(t) ==
  \/ thread[t].op = "Select" /\ thread[t].at \in {"fork", "readTools", "setTools", "state", "holding"}
  \/ thread[t].op = "SaveMessages" /\ thread[t].at \in {"copy", "write"}
  \/ thread[t].op = "AddAllowedTool" /\ thread[t].at = "tell"
Loaded(t) == At(t, "Select", "create")
Copied(t) == At(t, "SaveMessages", "write")
RunnerInHand(t) ==
  /\ Managing(t) => Session(t) \in Sessions /\ ~Applying(t)
  /\ WithRunner(t) => Ref(t) \in RunnerIds /\ runner[Ref(t)].session = Session(t)
  /\ Loaded(t) => Ref(t) \in 0..MaxMessages
  /\ Copied(t) => thread[t].arg \in 0..MaxMessages

Base == RunnersTyped /\ RunnersAreOwn /\ \A t \in Threads : RunnerInHand(t)

\* A fork has its parent's history, or its maker is about to give it that.
Forking(t, i) == At(t, "Select", "fork") /\ Ref(t) = i
Forks ==
  \A i \in RunnerIds : runner[i].heir =>
    /\ HasHistory(runner[i].session)
    /\ runner[i].forks \/ \E t \in Threads : Forking(t, i)

\* A tool that is allowed in the config is in the Runner, or on its way there.
Brings(t, s, tool) ==
  /\ thread[t].op = "AddAllowedTool" /\ Session(t) = s /\ tool \in thread[t].list
  /\ thread[t].at = "find" \/ (thread[t].at = "tell" /\ Ref(t) = runners[s])
Allowed ==
  overwritten \/
  \A s \in Sessions : runners[s] # 0 /\ runner[runners[s]].configured =>
    \A tool \in repoTools[s] :
      tool \in runner[runners[s]].tools \/ \E t \in Threads : Brings(t, s, tool)

\* What has not been outrun is not shorter than the file.
SavedBy(t) ==
  t \notin stale => /\ Copied(t) => thread[t].arg >= disk[Session(t)]
                    /\ Loaded(t) => Ref(t) >= disk[Session(t)]
Saved ==
  /\ \A t \in Threads : SavedBy(t)
  /\ \A i \in RunnerIds : ~runner[i].old => runner[i].messages >= disk[runner[i].session]

RunnersInv ==
  Base /\ LiveRunnersAreRegistered /\ Forks /\ ForkInheritsHistory /\ Allowed /\ Saved
IInv == StatesInv /\ RunnersInv

-----------------------------------------------------------------------------
(* What a step leaves of the Runners.                                      *)

\* A step that changes nothing of a Runner nor of what it is compared with.
Quiet ==
  UNCHANGED <<runners, runner, parent, disk, repoTools, replaced, early, overwritten>>

LEMMA QuietBase ==
  ASSUME Base, NEW t \in Threads, OthersStay(t), Quiet, RunnerInHand(t)'
  PROVE  Base'
<1>1. RunnersTyped' /\ RunnersAreOwn'
  BY DEF Base, RunnersTyped, RunnersAreOwn, Quiet
<1>2. ASSUME NEW u \in Threads \ {t} PROVE RunnerInHand(u)'
  BY DEF Base, RunnerInHand, Managing, WithRunner, Loaded, Copied, At, Session, Ref, RunnerIds,
         OthersStay, Quiet, Applying
<1> QED
  BY <1>1, <1>2 DEF Base

LEMMA QuietInv ==
  ASSUME RunnersInv, NEW t \in Threads, OthersStay(t), Quiet, RunnerInHand(t)',
         thread[t].at \notin {"fork", "find", "tell"},
         \A u \in Threads \ {t} : u \in stale' <=> u \in stale, SavedBy(t)'
  PROVE  RunnersInv'
<1>1. Base'
  BY QuietBase DEF RunnersInv
<1>2. LiveRunnersAreRegistered' /\ ForkInheritsHistory'
  BY DEF RunnersInv, LiveRunnersAreRegistered, ForkInheritsHistory, Quiet, RunnerIds
<1>3. Forks'
  BY DEF RunnersInv, Forks, Forking, At, Ref, HasHistory, Quiet, RunnerIds, OthersStay
<1>4. Allowed'
  BY DEF RunnersInv, Allowed, Brings, Ref, Session, Quiet, OthersStay
<1>5. Saved'
  <2>1. ASSUME NEW u \in Threads \ {t} PROVE SavedBy(u)'
    BY DEF RunnersInv, Saved, SavedBy, Copied, Loaded, At, Ref, Session, Quiet, OthersStay
  <2> QED
    BY <2>1 DEF RunnersInv, Saved, Quiet, RunnerIds
<1> QED
  BY <1>1, <1>2, <1>3, <1>4, <1>5 DEF RunnersInv

\* The steps of SessionStates are such.
LEMMA StatesStayQuiet ==
  ASSUME RunnersInv, NEW t \in Threads, OthersStay(t), UNCHANGED managerVars,
         thread'[t].op \notin ManagerOps, thread[t].at \notin {"fork", "find", "tell"}
  PROVE  RunnersInv'
<1>1. Quiet /\ stale' = stale
  BY DEF Quiet, managerVars
<1>2. RunnerInHand(t)' /\ SavedBy(t)'
  BY DEF RunnerInHand, SavedBy, Managing, WithRunner, Loaded, Copied, At, ManagerOps
<1> QED
  BY <1>1, <1>2, QuietInv

LEMMA StillRunners == RunnersInv /\ UNCHANGED <<thread, managerVars>> => RunnersInv'
<1> SUFFICES ASSUME RunnersInv, UNCHANGED <<thread, managerVars>> PROVE RunnersInv'
  OBVIOUS
<1>1. Base'
  BY DEF RunnersInv, Base, RunnersTyped, RunnersAreOwn, RunnerInHand, Managing, WithRunner, Loaded,
         Copied, At, Session, Ref, RunnerIds, managerVars, Applying
<1>2. LiveRunnersAreRegistered' /\ ForkInheritsHistory' /\ Forks'
  BY DEF RunnersInv, LiveRunnersAreRegistered, ForkInheritsHistory, Forks, Forking, At, Ref,
         HasHistory, RunnerIds, managerVars
<1>3. Allowed' /\ Saved'
  BY DEF RunnersInv, Allowed, Brings, Saved, SavedBy, Copied, Loaded, At, Ref, Session, RunnerIds,
         managerVars
<1> QED
  BY <1>1, <1>2, <1>3 DEF RunnersInv

\* One Runner is changed, in place.
LEMMA OneRunner ==
  ASSUME RunnersTyped, NEW i \in RunnerIds, NEW r \in RunnerRecords, runner' = [runner EXCEPT ![i] = r]
  PROVE  /\ runner' \in Seq(RunnerRecords) /\ Len(runner') = Len(runner) /\ RunnerIds' = RunnerIds
         /\ runner'[i] = r /\ \A j \in RunnerIds \ {i} : runner'[j] = runner[j]
BY DEF RunnersTyped, RunnerIds

\* A step that changes Runners in place, without their sessions or the map.
LEMMA BaseKept ==
  ASSUME Base, NEW t \in Threads, OthersStay(t), RunnersTyped', runners' = runners,
         RunnerIds' = RunnerIds, \A i \in RunnerIds : runner'[i].session = runner[i].session,
         RunnerInHand(t)'
  PROVE  Base'
<1>1. \A s \in Sessions : runners[s] # 0 => runners[s] \in RunnerIds
  BY DEF Base, RunnersTyped, RunnerIds
<1>2. RunnersAreOwn'
  BY <1>1 DEF Base, RunnersAreOwn
<1>3. ASSUME NEW u \in Threads \ {t} PROVE RunnerInHand(u)'
  BY DEF Base, RunnerInHand, Managing, WithRunner, Loaded, Copied, At, Session, Ref,
         OthersStay, Applying
<1> QED
  BY <1>2, <1>3 DEF Base

-----------------------------------------------------------------------------
(* Threads at the operations of SessionManager.                            *)

LEMMA OpsApart == ManagerOps \subseteq Ops /\ ManagerOps \cap StateOps = {} /\ "none" \notin StateOps
BY DEF ManagerOps, Ops, StateOps

LEMMA BeginsAway ==
  ASSUME IInv, NEW t \in Threads, NEW op \in ManagerOps, NEW at \in Labels \ {"apply"},
         NEW session \in Sessions, NEW ref \in Nat, NEW arg \in Nat, NEW list \in SUBSET Tools,
         Begins(t, op, at, session, ref, arg, list), thread[t].at = "idle"
  PROVE  /\ Away(t) /\ thread'[t].op = op /\ thread'[t].at = at /\ Session(t)' = session
         /\ Ref(t)' = ref /\ thread'[t].arg = arg /\ thread'[t].list = list
<1>1. op \in Ops /\ op \notin StateOps
  BY OpsApart
<1>2. /\ ThreadsTyped' /\ OthersStay(t)
      /\ thread'[t].op = op /\ thread'[t].at = at /\ thread'[t].session = session
      /\ thread'[t].ref = ref /\ thread'[t].arg = arg /\ thread'[t].list = list
  BY <1>1, BeginsThread DEF IInv, StatesInv, Shape
<1> QED
  BY <1>1, <1>2 DEF Away, Applying, Session, Ref

LEMMA EndsAway ==
  ASSUME IInv, NEW t \in Threads, Managing(t), Ends(t)
  PROVE  Away(t) /\ thread'[t].op = "none" /\ thread'[t].at = "idle"
<1>1. ThreadsTyped' /\ OthersStay(t) /\ thread'[t].op = "none" /\ thread'[t].at = "idle"
  BY EndsThread DEF IInv, StatesInv, Shape
<1>2. ~Applying(t)
  BY DEF IInv, RunnersInv, Base, RunnerInHand
<1> QED
  BY <1>1, <1>2, OpsApart DEF Away, Applying

LEMMA GoesAway ==
  ASSUME IInv, NEW t \in Threads, NEW at \in Labels \ {"apply"}, Managing(t), Goes(t, at)
  PROVE  /\ Away(t) /\ thread'[t].op = thread[t].op /\ thread'[t].at = at
         /\ Session(t)' = Session(t) /\ Ref(t)' = Ref(t) /\ thread'[t].arg = thread[t].arg
         /\ thread'[t].list = thread[t].list
<1>1. /\ ThreadsTyped' /\ OthersStay(t) /\ thread'[t].op = thread[t].op /\ thread'[t].at = at
      /\ thread'[t].session = thread[t].session /\ thread'[t].ref = thread[t].ref
      /\ thread'[t].arg = thread[t].arg /\ thread'[t].list = thread[t].list
  BY GoesThread DEF IInv, StatesInv, Shape
<1>2. ~Applying(t) /\ thread[t].op \notin StateOps
  BY OpsApart DEF IInv, RunnersInv, Base, RunnerInHand, Managing
<1> QED
  BY <1>1, <1>2 DEF Away, Applying, Session, Ref

LEMMA InHandAway ==
  ASSUME IInv, NEW t \in Threads, NEW ref \in Nat, NEW at \in Labels \ {"apply"}, Managing(t),
         InHand(t, ref, at)
  PROVE  /\ Away(t) /\ thread'[t].op = thread[t].op /\ thread'[t].at = at
         /\ Session(t)' = Session(t) /\ Ref(t)' = ref /\ thread'[t].arg = thread[t].arg
         /\ thread'[t].list = thread[t].list
<1>1. /\ ThreadsTyped' /\ OthersStay(t) /\ thread'[t].op = thread[t].op /\ thread'[t].at = at
      /\ thread'[t].session = thread[t].session /\ thread'[t].ref = ref
      /\ thread'[t].arg = thread[t].arg /\ thread'[t].list = thread[t].list
  BY InHandThread DEF IInv, StatesInv, Shape
<1>2. ~Applying(t) /\ thread[t].op \notin StateOps
  BY OpsApart DEF IInv, RunnersInv, Base, RunnerInHand, Managing
<1> QED
  BY <1>1, <1>2 DEF Away, Applying, Session, Ref

\* What the map and a thread have in hand.
LEMMA RunnerOfMap ==
  ASSUME IInv, NEW s \in Sessions, runners[s] # 0
  PROVE  /\ runners[s] \in RunnerIds /\ runners[s] \in Nat
         /\ runner[runners[s]] \in RunnerRecords /\ runner[runners[s]].session = s
BY DEF IInv, RunnersInv, Base, RunnersTyped, RunnersAreOwn, RunnerIds

LEMMA RunnerOfHand ==
  ASSUME IInv, NEW t \in Threads, WithRunner(t)
  PROVE  /\ Managing(t) /\ Session(t) \in Sessions /\ Ref(t) \in RunnerIds /\ Ref(t) \in Nat
         /\ runner[Ref(t)] \in RunnerRecords /\ runner[Ref(t)].session = Session(t)
<1>1. Managing(t)
  BY DEF WithRunner, Managing, ManagerOps
<1> QED
  BY <1>1 DEF IInv, RunnersInv, Base, RunnersTyped, RunnerInHand, RunnerIds

\* A step of the manager that changes nothing of a Runner.
LEMMA QuietStep ==
  ASSUME IInv, NEW t \in Threads, Away(t), UNCHANGED stateVars, Quiet,
         RunnerInHand(t)', thread[t].at \notin {"fork", "find", "tell"},
         \A u \in Threads \ {t} : u \in stale' <=> u \in stale, SavedBy(t)'
  PROVE  IInv'
BY UntouchedInv, QuietInv DEF IInv, Away

-----------------------------------------------------------------------------
(* The quiet steps.                                                        *)

LEMMA GetRunnerFastInv == ASSUME IInv, NEW t \in Threads, GetRunnerFast(t) PROVE IInv'
<1>1. PICK session \in Sessions, saysStarted \in {0, 1} :
        IF runners[session] # 0
        THEN Begins(t, "Select", "readTools", session, runners[session], saysStarted, {})
        ELSE Begins(t, "Select", "load", session, 0, saysStarted, {})
  BY DEF GetRunnerFast
<1>2. /\ thread[t].at = "idle" /\ UNCHANGED stateVars /\ Quiet /\ stale' = stale
  BY DEF GetRunnerFast, ManagerCall, Calling, Quiet, managerVars
<1>3. /\ {} \in SUBSET Tools /\ "Select" \in ManagerOps /\ saysStarted \in Nat /\ 0 \in Nat
      /\ "readTools" \in Labels \ {"apply"} /\ "load" \in Labels \ {"apply"}
  BY DEF ManagerOps, Labels
<1>4. CASE runners[session] # 0
  <2>1. /\ runners[session] \in RunnerIds /\ runners[session] \in Nat
        /\ runner[runners[session]].session = session
    BY <1>4, RunnerOfMap
  <2>2. /\ Away(t) /\ thread'[t].op = "Select" /\ thread'[t].at = "readTools"
        /\ Session(t)' = session /\ Ref(t)' = runners[session]
    BY <1>1, <1>2, <1>3, <1>4, <2>1, BeginsAway
  <2>3. RunnerInHand(t)' /\ SavedBy(t)'
    BY <1>2, <2>1, <2>2 DEF RunnerInHand, SavedBy, WithRunner, Loaded, Copied, At, Applying, Quiet, RunnerIds
  <2> QED
    BY <1>2, <2>2, <2>3, QuietStep
<1>5. CASE runners[session] = 0
  <2>1. /\ Away(t) /\ thread'[t].op = "Select" /\ thread'[t].at = "load"
        /\ Session(t)' = session
    BY <1>1, <1>2, <1>3, <1>5, BeginsAway
  <2>2. RunnerInHand(t)' /\ SavedBy(t)'
    BY <2>1 DEF RunnerInHand, SavedBy, WithRunner, Loaded, Copied, At, Applying
  <2> QED
    BY <1>2, <2>1, <2>2, QuietStep
<1> QED
  BY <1>4, <1>5

LEMMA LoadMessagesInv == ASSUME IInv, NEW t \in Threads, LoadMessages(t) PROVE IInv'
<1>1. /\ At(t, "Select", "load") /\ InHand(t, disk[Session(t)], "create") /\ UNCHANGED stateVars
      /\ Quiet /\ stale' = stale \ {t}
  BY DEF LoadMessages, Quiet
<1>2. Managing(t) /\ Session(t) \in Sessions
  BY <1>1 DEF At, Managing, ManagerOps, IInv, RunnersInv, Base, RunnerInHand
<1>3. /\ disk[Session(t)] \in 0..MaxMessages /\ disk[Session(t)] \in Nat
      /\ "create" \in Labels \ {"apply"}
  BY <1>2, RunnerBoundsAssumption DEF IInv, RunnersInv, Base, RunnersTyped, Labels
<1>4. /\ Away(t) /\ thread'[t].op = "Select" /\ thread'[t].at = "create"
      /\ Session(t)' = Session(t) /\ Ref(t)' = disk[Session(t)]
  BY <1>1, <1>2, <1>3, InHandAway DEF At
<1>5. RunnerInHand(t)' /\ SavedBy(t)'
  BY <1>1, <1>2, <1>3, <1>4 DEF RunnerInHand, SavedBy, WithRunner, Loaded, Copied, At, Applying, Quiet
<1> QED
  BY <1>1, <1>4, <1>5, QuietStep DEF At

LEMMA ReadToolsInv == ASSUME IInv, NEW t \in Threads, ReadTools(t) PROVE IInv'
<1>1. /\ At(t, "Select", "readTools") /\ UNCHANGED stateVars /\ Quiet /\ stale' = stale
      /\ thread' = [thread EXCEPT ![t].at = "setTools", ![t].list = repoTools[Session(t)]]
  BY DEF ReadTools, Quiet, managerVars
<1>2. /\ WithRunner(t) /\ Session(t) \in Sessions /\ Ref(t) \in RunnerIds
      /\ runner[Ref(t)].session = Session(t) /\ Managing(t)
  BY <1>1, RunnerOfHand DEF At, WithRunner
<1>3. repoTools[Session(t)] \in SUBSET Tools /\ "setTools" \in Labels
  BY <1>2 DEF IInv, RunnersInv, Base, RunnersTyped, Labels
<1>4. thread \in [Threads -> ThreadRecords] /\ thread[t] \in ThreadRecords /\ ~Applying(t)
  BY <1>2 DEF IInv, StatesInv, Shape, ThreadsTyped, RunnersInv, Base, RunnerInHand
<1>5. PICK r : r = [thread[t] EXCEPT !.at = "setTools", !.list = repoTools[Session(t)]]
  OBVIOUS
<1>6. /\ r \in ThreadRecords /\ r.op = "Select" /\ r.at = "setTools"
      /\ r.session = Session(t) /\ r.ref = Ref(t)
  BY <1>1, <1>3, <1>4, <1>5 DEF ThreadRecords, At, Session, Ref
<1>7. thread' = [thread EXCEPT ![t] = r]
  BY <1>1, <1>4, <1>5
<1>8. Away(t) /\ thread'[t] = r
  BY <1>4, <1>6, <1>7 DEF Away, ThreadsTyped, OthersStay, Applying, StateOps
<1>9. RunnerInHand(t)' /\ SavedBy(t)'
  BY <1>1, <1>2, <1>6, <1>8 DEF RunnerInHand, SavedBy, WithRunner, Loaded, Copied, At, Applying,
     Quiet, RunnerIds, Session, Ref
<1> QED
  BY <1>1, <1>8, <1>9, QuietStep DEF At

LEMMA TakeStateInv == ASSUME IInv, NEW t \in Threads, TakeState(t) PROVE IInv'
<1>1. /\ At(t, "Select", "state") /\ Goes(t, "holding") /\ TakeContent(Session(t)) /\ Quiet
      /\ stale' = stale /\ UNCHANGED <<states, cancels, queued, tools, results, orphaned, strayed>>
  BY DEF TakeState, Quiet, managerVars
<1>2. /\ Managing(t) /\ Session(t) \in Sessions /\ Ref(t) \in RunnerIds
      /\ runner[Ref(t)].session = Session(t) /\ "holding" \in Labels \ {"apply"}
  BY <1>1, RunnerOfHand DEF At, WithRunner, Labels
<1>3. /\ Away(t) /\ thread'[t].op = "Select" /\ thread'[t].at = "holding"
      /\ Session(t)' = Session(t) /\ Ref(t)' = Ref(t)
  BY <1>1, <1>2, GoesAway DEF At
<1>4. RunnerInHand(t)' /\ SavedBy(t)'
  BY <1>1, <1>2, <1>3 DEF RunnerInHand, SavedBy, WithRunner, Loaded, Copied, At, Applying, Quiet, RunnerIds
<1>5. StatesInv'
  BY <1>1, <1>2, <1>3, TakeContentInv DEF IInv
<1>6. RunnersInv'
  BY <1>1, <1>3, <1>4, QuietInv DEF IInv, Away, At
<1> QED
  BY <1>5, <1>6 DEF IInv

LEMMA SaveRunnerMessagesInv ==
  ASSUME IInv, NEW t \in Threads, SaveRunnerMessages(t) PROVE IInv'
<1>1. /\ At(t, "Select", "holding") /\ UNCHANGED stateVars /\ Quiet /\ stale' = stale
      /\ thread' = [thread EXCEPT ![t].op = "SaveMessages", ![t].at = "copy"]
  BY DEF SaveRunnerMessages, Quiet, managerVars
<1>2. /\ WithRunner(t) /\ Session(t) \in Sessions /\ Ref(t) \in RunnerIds
      /\ runner[Ref(t)].session = Session(t) /\ Managing(t)
  BY <1>1, RunnerOfHand DEF At, WithRunner
<1>3. thread \in [Threads -> ThreadRecords] /\ thread[t] \in ThreadRecords /\ ~Applying(t)
  BY <1>2 DEF IInv, StatesInv, Shape, ThreadsTyped, RunnersInv, Base, RunnerInHand
<1>4. PICK r : r = [thread[t] EXCEPT !.op = "SaveMessages", !.at = "copy"]
  OBVIOUS
<1>5. /\ r \in ThreadRecords /\ r.op = "SaveMessages" /\ r.at = "copy"
      /\ r.session = Session(t) /\ r.ref = Ref(t)
  BY <1>1, <1>3, <1>4 DEF ThreadRecords, Session, Ref, Ops, Labels
<1>6. thread' = [thread EXCEPT ![t] = r]
  BY <1>1, <1>3, <1>4
<1>7. Away(t) /\ thread'[t] = r
  BY <1>3, <1>5, <1>6 DEF Away, ThreadsTyped, OthersStay, Applying, StateOps
<1>8. RunnerInHand(t)' /\ SavedBy(t)'
  BY <1>1, <1>2, <1>5, <1>7 DEF RunnerInHand, SavedBy, WithRunner, Loaded, Copied, At, Applying,
     Quiet, RunnerIds, Session, Ref
<1> QED
  BY <1>1, <1>7, <1>8, QuietStep DEF At

LEMMA LeaveRunnerInv == ASSUME IInv, NEW t \in Threads, LeaveRunner(t) PROVE IInv'
<1>1. /\ At(t, "Select", "holding") /\ Ends(t) /\ UNCHANGED stateVars /\ Quiet /\ stale' = stale
  BY DEF LeaveRunner, Quiet, managerVars
<1>2. Away(t) /\ thread'[t].op = "none" /\ thread'[t].at = "idle"
  BY <1>1, EndsAway DEF At, Managing, ManagerOps
<1>3. RunnerInHand(t)' /\ SavedBy(t)'
  BY <1>2 DEF RunnerInHand, SavedBy, WithRunner, Loaded, Copied, At, Applying, Managing, ManagerOps
<1> QED
  BY <1>1, <1>2, <1>3, QuietStep DEF At

LEMMA FindRunnerInv == ASSUME IInv, NEW t \in Threads, FindRunner(t) PROVE IInv'
<1>1. PICK session \in Sessions :
        runners[session] # 0 /\ Begins(t, "SaveMessages", "copy", session, runners[session], 0, {})
  BY DEF FindRunner
<1>2. /\ thread[t].at = "idle" /\ UNCHANGED stateVars /\ Quiet /\ stale' = stale
  BY DEF FindRunner, ManagerCall, Calling, Quiet, managerVars
<1>3. /\ {} \in SUBSET Tools /\ "SaveMessages" \in ManagerOps /\ 0 \in Nat
      /\ "copy" \in Labels \ {"apply"}
  BY DEF ManagerOps, Labels
<1>4. /\ runners[session] \in RunnerIds /\ runners[session] \in Nat
      /\ runner[runners[session]].session = session
  BY <1>1, RunnerOfMap
<1>5. /\ Away(t) /\ thread'[t].op = "SaveMessages" /\ thread'[t].at = "copy"
      /\ Session(t)' = session /\ Ref(t)' = runners[session]
  BY <1>1, <1>2, <1>3, <1>4, BeginsAway
<1>6. RunnerInHand(t)' /\ SavedBy(t)'
  BY <1>2, <1>4, <1>5 DEF RunnerInHand, SavedBy, WithRunner, Loaded, Copied, At, Applying, Quiet, RunnerIds
<1> QED
  BY <1>2, <1>5, <1>6, QuietStep

LEMMA CopyMessagesInv == ASSUME IInv, NEW t \in Threads, CopyMessages(t) PROVE IInv'
<1>1. /\ At(t, "SaveMessages", "copy") /\ UNCHANGED stateVars /\ Quiet
      /\ thread' = [thread EXCEPT ![t].at = "write", ![t].arg = runner[Ref(t)].messages]
      /\ stale' = IF runner[Ref(t)].old THEN stale \cup {t} ELSE stale \ {t}
  BY DEF CopyMessages, Quiet
<1>2. /\ WithRunner(t) /\ Session(t) \in Sessions /\ Ref(t) \in RunnerIds
      /\ runner[Ref(t)] \in RunnerRecords /\ runner[Ref(t)].session = Session(t) /\ Managing(t)
  BY <1>1, RunnerOfHand DEF At, WithRunner
<1>3. /\ runner[Ref(t)].messages \in 0..MaxMessages /\ runner[Ref(t)].messages \in Nat
      /\ "write" \in Labels
  BY <1>2, RunnerBoundsAssumption DEF RunnerRecords, Labels
<1>4. thread \in [Threads -> ThreadRecords] /\ thread[t] \in ThreadRecords /\ ~Applying(t)
  BY <1>2 DEF IInv, StatesInv, Shape, ThreadsTyped, RunnersInv, Base, RunnerInHand
<1>5. PICK r : r = [thread[t] EXCEPT !.at = "write", !.arg = runner[Ref(t)].messages]
  OBVIOUS
<1>6. /\ r \in ThreadRecords /\ r.op = "SaveMessages" /\ r.at = "write"
      /\ r.session = Session(t) /\ r.ref = Ref(t) /\ r.arg = runner[Ref(t)].messages
  BY <1>1, <1>3, <1>4, <1>5 DEF ThreadRecords, At, Session, Ref
<1>7. thread' = [thread EXCEPT ![t] = r]
  BY <1>1, <1>4, <1>5
<1>8. Away(t) /\ thread'[t] = r
  BY <1>4, <1>6, <1>7 DEF Away, ThreadsTyped, OthersStay, Applying, StateOps
<1>9. RunnerInHand(t)'
  BY <1>1, <1>2, <1>3, <1>6, <1>8 DEF RunnerInHand, WithRunner, Loaded, Copied, At, Applying,
     Quiet, RunnerIds, Session, Ref
<1>10. ~runner[Ref(t)].old => runner[Ref(t)].messages >= disk[Session(t)]
  BY <1>2 DEF IInv, RunnersInv, Saved
<1>11. SavedBy(t)'
  BY <1>1, <1>6, <1>8, <1>10 DEF SavedBy, Loaded, Copied, At, Quiet, Session, Ref
<1> QED
  BY <1>1, <1>8, <1>9, <1>11, QuietStep DEF At

LEMMA DeleteItsStateInv == ASSUME IInv, NEW t \in Threads, DeleteItsState(t) PROVE IInv'
<1>1. /\ At(t, "DeleteSession", "deleteState") /\ DeleteState(Session(t)) /\ Ends(t) /\ Quiet
      /\ stale' = stale /\ UNCHANGED <<queued, tools, results, shown, strayed>>
  BY DEF DeleteItsState, Quiet, managerVars
<1>2. Managing(t) /\ Session(t) \in Sessions
  BY <1>1 DEF At, Managing, ManagerOps, IInv, RunnersInv, Base, RunnerInHand
<1>3. Away(t) /\ thread'[t].op = "none" /\ thread'[t].at = "idle"
  BY <1>1, <1>2, EndsAway
<1>4. RunnerInHand(t)' /\ SavedBy(t)'
  BY <1>3 DEF RunnerInHand, SavedBy, WithRunner, Loaded, Copied, At, Applying, Managing, ManagerOps
<1>5. StatesInv'
  BY <1>1, <1>2, <1>3, DeleteStateInv DEF IInv
<1>6. RunnersInv'
  BY <1>1, <1>3, <1>4, QuietInv DEF IInv, Away, At
<1> QED
  BY <1>5, <1>6 DEF IInv

-----------------------------------------------------------------------------
(* A new Runner in the map.                                                *)

LEMMA PublishedInv ==
  ASSUME IInv, NEW t \in Threads, OthersStay(t), thread[t].at \notin {"fork", "find", "tell"},
         NEW s \in Sessions, NEW r \in RunnerRecords, r.session = s, r.began = "no", ~r.configured,
         Len(runner) < MaxRunners, runner' = Append(runner, r),
         runners' = [runners EXCEPT ![s] = Len(runner')],
         runners[s] = 0 \/ runners[s] \in replaced', replaced \subseteq replaced',
         ~r.old => r.messages >= disk[s],
         r.heir => /\ HasHistory(s) /\ thread'[t].op = "Select" /\ thread'[t].at = "fork"
                   /\ Ref(t)' = Len(runner'),
         stale' = stale, UNCHANGED <<parent, disk, repoTools, early, overwritten>>,
         RunnerInHand(t)', SavedBy(t)'
  PROVE  RunnersInv'
<1>1. PICK k \in Nat : k = Len(runner') /\ k = Len(runner) + 1
  BY DEF IInv, RunnersInv, Base, RunnersTyped
<1>2. /\ runner' \in Seq(RunnerRecords) /\ RunnerIds' = RunnerIds \cup {k} /\ k \notin RunnerIds
      /\ k # 0 /\ runner'[k] = r /\ \A i \in RunnerIds : runner'[i] = runner[i]
  BY <1>1 DEF IInv, RunnersInv, Base, RunnersTyped, RunnerIds
<1>3. \A q \in Sessions : runners'[q] = IF q = s THEN k ELSE runners[q]
  BY <1>1 DEF IInv, RunnersInv, Base, RunnersTyped
<1>4. \A q \in Sessions : runners[q] # 0 => runners[q] \in RunnerIds
  BY RunnerOfMap
<1>5. RunnersTyped'
  <2>1. runners' \in [Sessions -> 0..Len(runner')]
    BY <1>1 DEF IInv, RunnersInv, Base, RunnersTyped
  <2>2. Len(runner') <= MaxRunners
    BY <1>1, RunnerBoundsAssumption DEF IInv, RunnersInv, Base, RunnersTyped
  <2> QED
    BY <1>2, <2>1, <2>2 DEF IInv, RunnersInv, Base, RunnersTyped
<1>6. RunnersAreOwn'
  <2> SUFFICES ASSUME NEW q \in Sessions, runners'[q] # 0 PROVE runner'[runners'[q]].session = q
    BY DEF RunnersAreOwn
  <2>1. CASE q = s
    BY <2>1, <1>2, <1>3
  <2>2. CASE q # s
    <3>1. runners'[q] = runners[q]
      BY <2>2, <1>3
    <3>2. runners[q] \in RunnerIds /\ runner[runners[q]].session = q
      BY <3>1, RunnerOfMap
    <3> QED
      BY <3>1, <3>2, <1>2
  <2> QED
    BY <2>1, <2>2
<1>7. ASSUME NEW u \in Threads PROVE RunnerInHand(u)'
  <2>1. CASE u = t
    BY <2>1
  <2>2. CASE u # t
    <3>1. thread'[u] = thread[u] /\ RunnerInHand(u)
      BY <2>2 DEF OthersStay, IInv, RunnersInv, Base
    <3> QED
      BY <3>1, <1>2 DEF RunnerInHand, Managing, WithRunner, Loaded, Copied, At, Session, Ref, Applying
  <2> QED
    BY <2>1, <2>2
<1>8. LiveRunnersAreRegistered'
  <2> SUFFICES ASSUME NEW i \in RunnerIds', ~runner'[i].stopped
               PROVE  runners'[runner'[i].session] = i \/ i \in replaced'
    BY DEF LiveRunnersAreRegistered
  <2>1. CASE i = k
    BY <2>1, <1>2, <1>3
  <2>2. CASE i # k
    <3>1. i \in RunnerIds /\ runner'[i] = runner[i]
      BY <2>2, <1>2
    <3>2. i \in Nat \ {0} /\ runner[i] \in RunnerRecords
      BY <3>1 DEF IInv, RunnersInv, Base, RunnersTyped, RunnerIds
    <3>3. runner[i].session \in Sessions
      BY <3>2 DEF RunnerRecords
    <3>4. runners[runner[i].session] = i \/ i \in replaced
      BY <3>1 DEF IInv, RunnersInv, LiveRunnersAreRegistered
    <3> QED
      BY <3>1, <3>2, <3>3, <3>4, <1>3
  <2> QED
    BY <2>1, <2>2
<1>9. Forks'
  <2>1. ASSUME NEW i \in RunnerIds', runner'[i].heir
        PROVE  /\ HasHistory(runner'[i].session)
               /\ runner'[i].forks \/ \E u \in Threads : At(u, "Select", "fork")' /\ Ref(u)' = i
    <3>1. CASE i = k
      BY <2>1, <3>1, <1>1, <1>2 DEF At
    <3>2. CASE i # k
      <4>1. i \in RunnerIds /\ runner'[i] = runner[i] /\ HasHistory(runner[i].session)
        BY <2>1, <3>2, <1>2 DEF IInv, RunnersInv, Forks
      <4>2. ASSUME NEW u \in Threads, Forking(u, i) PROVE At(u, "Select", "fork")' /\ Ref(u)' = i
        BY <4>2 DEF Forking, At, Ref, OthersStay
      <4> QED
        BY <2>1, <4>1, <4>2 DEF IInv, RunnersInv, Forks
    <3> QED
      BY <3>1, <3>2
  <2> QED
    BY <2>1 DEF Forks, Forking, HasHistory
<1>10. ForkInheritsHistory'
  BY <1>2 DEF IInv, RunnersInv, ForkInheritsHistory
<1>11. Allowed'
  <2> SUFFICES ASSUME ~overwritten, NEW q \in Sessions, runners'[q] # 0,
                      runner'[runners'[q]].configured, NEW tool \in repoTools[q]
               PROVE  tool \in runner'[runners'[q]].tools \/ \E u \in Threads : Brings(u, q, tool)'
    BY DEF Allowed
  <2>1. q # s /\ runners'[q] = runners[q] /\ runner'[runners[q]] = runner[runners[q]]
    <3>1. q # s
      <4>1. q = s => runners'[q] = k
        BY <1>3
      <4> QED
        BY <4>1, <1>2
    <3>2. runners'[q] = runners[q]
      BY <3>1, <1>3
    <3> QED
      BY <3>1, <3>2, <1>2, <1>4
  <2>2. ASSUME NEW u \in Threads, Brings(u, q, tool) PROVE Brings(u, q, tool)'
    BY <2>1, <2>2 DEF Brings, Ref, Session, OthersStay
  <2> QED
    BY <2>1, <2>2 DEF IInv, RunnersInv, Allowed
<1>12. Saved'
  <2>1. ASSUME NEW u \in Threads \ {t} PROVE SavedBy(u)'
    BY DEF IInv, RunnersInv, Saved, SavedBy, Copied, Loaded, At, Ref, Session, OthersStay
  <2> QED
    BY <2>1, <1>2 DEF IInv, RunnersInv, Saved
<1> QED
  BY <1>5, <1>6, <1>7, <1>8, <1>9, <1>10, <1>11, <1>12 DEF RunnersInv, Base

LEMMA NewRunnerTyped ==
  ASSUME NEW s \in Sessions, NEW messages \in 0..MaxMessages, NEW heir \in BOOLEAN, NEW old \in BOOLEAN
  PROVE  LET r == NewRunner(s, messages, heir, old) IN
         /\ r \in RunnerRecords /\ r.session = s /\ r.began = "no" /\ r.configured = FALSE
         /\ r.messages = messages /\ (r.heir <=> heir) /\ (r.old <=> old)
BY DEF NewRunner, RunnerRecords

LEMMA CreateRunnerInv == ASSUME IInv, NEW t \in Threads, CreateRunner(t) PROVE IInv'
<1>1. /\ At(t, "Select", "create") /\ UNCHANGED stateVars /\ stale' = stale
      /\ UNCHANGED <<parent, disk, repoTools, replaced, early, overwritten>>
  BY DEF CreateRunner
<1>2. /\ Managing(t) /\ Session(t) \in Sessions /\ Ref(t) \in 0..MaxMessages
      /\ "readTools" \in Labels \ {"apply"} /\ "fork" \in Labels \ {"apply"}
  BY <1>1 DEF At, Managing, ManagerOps, IInv, RunnersInv, Base, RunnerInHand, Loaded, Labels
<1>3. CASE /\ runners[Session(t)] # 0
           /\ InHand(t, runners[Session(t)], "readTools")
           /\ UNCHANGED <<runner, runners>>
  <2>1. /\ runners[Session(t)] \in RunnerIds /\ runners[Session(t)] \in Nat
        /\ runner[runners[Session(t)]].session = Session(t)
    BY <1>2, <1>3, RunnerOfMap
  <2>2. /\ Away(t) /\ thread'[t].op = "Select" /\ thread'[t].at = "readTools"
        /\ Session(t)' = Session(t) /\ Ref(t)' = runners[Session(t)]
    BY <1>1, <1>2, <1>3, <2>1, InHandAway DEF At
  <2>3. RunnerInHand(t)' /\ SavedBy(t)' /\ Quiet
    BY <1>1, <1>2, <1>3, <2>1, <2>2
    DEF RunnerInHand, SavedBy, WithRunner, Loaded, Copied, At, Applying, Quiet, RunnerIds
  <2> QED
    BY <1>1, <2>2, <2>3, QuietStep DEF At
<1>4. CASE runners[Session(t)] = 0 /\ Publishes(t)
  <2> DEFINE s == Session(t)
             heir == thread[t].arg = 0 /\ HasHistory(s)
             old == t \in stale
             at == IF thread[t].arg = 0 /\ parent[s] # "none" THEN "fork" ELSE "readTools"
  <2> PICK r : r = NewRunner(s, Ref(t), heir, old)
    OBVIOUS
  <2>0. heir \in BOOLEAN /\ old \in BOOLEAN
    OBVIOUS
  <2> HIDE DEF heir, old
  <2>1. /\ r \in RunnerRecords /\ r.session = s /\ r.began = "no" /\ r.configured = FALSE
        /\ r.messages = Ref(t) /\ (r.heir <=> heir) /\ (r.old <=> old)
    <3>1. PICK h \in BOOLEAN : h = heir
      BY <2>0
    <3>2. PICK o \in BOOLEAN : o = old
      BY <2>0
    <3>3. r = NewRunner(s, Ref(t), h, o)
      BY <3>1, <3>2
    <3>4. /\ r \in RunnerRecords /\ r.session = s /\ r.began = "no" /\ r.configured = FALSE
          /\ r.messages = Ref(t) /\ (r.heir <=> h) /\ (r.old <=> o)
      BY <1>2, <3>3 DEF NewRunner, RunnerRecords
    <3> QED
      BY <3>1, <3>2, <3>4
  <2>2. /\ Len(runner) < MaxRunners /\ runner' = Append(runner, r)
        /\ runners' = [runners EXCEPT ![s] = Len(runner')]
        /\ InHand(t, Len(runner'), at)
    BY <1>4 DEF Publishes, heir, old
  <2>3. /\ Len(runner') \in Nat /\ Len(runner') \in RunnerIds' /\ runner'[Len(runner')] = r
    BY <2>1, <2>2 DEF IInv, RunnersInv, Base, RunnersTyped, RunnerIds
  <2>4. at \in Labels \ {"apply"} /\ at \in {"fork", "readTools"}
    BY <1>2
  <2>5. /\ Away(t) /\ thread'[t].op = "Select" /\ thread'[t].at = at
        /\ Session(t)' = s /\ Ref(t)' = Len(runner')
    BY <1>1, <1>2, <2>2, <2>3, <2>4, InHandAway DEF At
  <2>6. RunnerInHand(t)' /\ SavedBy(t)'
    BY <1>1, <1>2, <2>1, <2>3, <2>4, <2>5
    DEF RunnerInHand, SavedBy, WithRunner, Loaded, Copied, At, Applying
  <2>7. r.heir => /\ HasHistory(s) /\ thread'[t].op = "Select" /\ thread'[t].at = "fork"
                  /\ Ref(t)' = Len(runner')
    BY <2>1, <2>5 DEF HasHistory, heir
  <2>8. ~r.old => r.messages >= disk[s]
    BY <1>1, <2>1 DEF old, IInv, RunnersInv, Saved, SavedBy, Loaded
  <2>9. RunnersInv'
    BY <1>1, <1>2, <1>4, <2>1, <2>2, <2>5, <2>6, <2>7, <2>8, PublishedInv DEF Away, At
  <2> QED
    BY <1>1, <2>5, <2>9, UntouchedInv DEF IInv
<1> QED
  BY <1>3, <1>4 DEF CreateRunner

LEMMA SetRunnerInv == ASSUME IInv, NEW t \in Threads, SetRunner(t) PROVE IInv'
<1>1. /\ thread[t].at = "idle" /\ Len(runner) < MaxRunners /\ thread' = thread
      /\ UNCHANGED stateVars /\ stale' = stale
      /\ UNCHANGED <<parent, disk, repoTools, early, overwritten>>
  BY DEF SetRunner, ManagerCall, Calling
<1>2. PICK s \in Sessions :
        /\ runner' = Append(runner, NewRunner(s, disk[s], FALSE, FALSE))
        /\ runners' = [runners EXCEPT ![s] = Len(runner')]
        /\ replaced' = replaced \cup ({runners[s]} \ {0})
  BY DEF SetRunner
<1> PICK r : r = NewRunner(s, disk[s], FALSE, FALSE)
  OBVIOUS
<1>3. disk[s] \in 0..MaxMessages
  BY DEF IInv, RunnersInv, Base, RunnersTyped
<1>4. /\ r \in RunnerRecords /\ r.session = s /\ r.began = "no" /\ r.configured = FALSE
      /\ r.messages = disk[s] /\ ~r.heir
  BY <1>3, NewRunnerTyped
<1>5. disk[s] >= disk[s]
  BY <1>3
<1>6. RunnerInHand(t)' /\ SavedBy(t)' /\ OthersStay(t)
  BY <1>1 DEF IInv, RunnersInv, Base, RunnerInHand, SavedBy, WithRunner, Loaded, Copied, At, Session,
              Managing, Applying, OthersStay
<1>7. RunnersInv'
  BY <1>1, <1>2, <1>4, <1>5, <1>6, PublishedInv
<1> QED
  BY <1>1, <1>7, StillInv DEF IInv

-----------------------------------------------------------------------------
(* Runners taken out of the map, and stopped.                              *)

LEMMA RemovedInv ==
  ASSUME IInv, NEW t \in Threads, OthersStay(t), thread[t].at \notin {"fork", "find", "tell"},
         NEW D \in SUBSET Nat,
         runner' = [i \in RunnerIds |->
                      IF i \in D THEN [runner[i] EXCEPT !.stopped = TRUE] ELSE runner[i]],
         runners' \in [Sessions -> Nat],
         \A s \in Sessions : runners'[s] = runners[s] \/ (runners'[s] = 0 /\ runners[s] \in D),
         stale' = stale, UNCHANGED <<parent, disk, repoTools, replaced, early, overwritten>>,
         RunnerInHand(t)', SavedBy(t)'
  PROVE  RunnersInv'
<1>1. runner \in Seq(RunnerRecords) /\ RunnerIds = 1..Len(runner) /\ Len(runner) \in Nat
  BY DEF IInv, RunnersInv, Base, RunnersTyped, RunnerIds
<1>2. ASSUME NEW i \in RunnerIds
      PROVE  /\ runner'[i] \in RunnerRecords /\ runner'[i].session = runner[i].session
             /\ (runner'[i].heir <=> runner[i].heir) /\ (runner'[i].forks <=> runner[i].forks)
             /\ runner'[i].began = runner[i].began /\ (runner'[i].old <=> runner[i].old)
             /\ runner'[i].messages = runner[i].messages /\ runner'[i].tools = runner[i].tools
             /\ (runner'[i].configured <=> runner[i].configured)
             /\ (~runner'[i].stopped => i \notin D /\ ~runner[i].stopped)
  <2>1. runner[i] \in RunnerRecords
    BY <1>1
  <2>2. CASE i \in D
    <3>1. runner'[i] = [runner[i] EXCEPT !.stopped = TRUE]
      BY <2>2
    <3> QED
      BY <2>1, <3>1 DEF RunnerRecords
  <2>3. CASE i \notin D
    <3>1. runner'[i] = runner[i]
      BY <2>3
    <3> QED
      BY <2>1, <2>3, <3>1
  <2> QED
    BY <2>2, <2>3
<1>3. RunnerIds' = RunnerIds /\ runner' \in Seq(RunnerRecords) /\ Len(runner') = Len(runner)
  <2>1. runner' \in [RunnerIds -> RunnerRecords]
    BY <1>2
  <2> QED
    BY <2>1, <1>1 DEF RunnerIds
<1>4. RunnersTyped'
  <2>1. runners \in [Sessions -> 0..Len(runner')]
    BY <1>3 DEF IInv, RunnersInv, Base, RunnersTyped
  <2>2. ASSUME NEW s \in Sessions PROVE runners'[s] \in 0..Len(runner')
    BY <2>1, <1>1, <1>3
  <2>3. runners' \in [Sessions -> 0..Len(runner')]
    BY <2>2
  <2> QED
    BY <1>3, <2>3 DEF IInv, RunnersInv, Base, RunnersTyped
<1>5. \A s \in Sessions : runners'[s] # 0 => runners'[s] = runners[s] /\ runners[s] \in RunnerIds
  BY RunnerOfMap
<1>6. RunnersAreOwn'
  BY <1>2, <1>5, RunnerOfMap DEF RunnersAreOwn
<1>7. ASSUME NEW u \in Threads \ {t} PROVE RunnerInHand(u)'
  <2>1. thread'[u] = thread[u] /\ RunnerInHand(u)
    BY DEF OthersStay, IInv, RunnersInv, Base
  <2>2. \A i \in RunnerIds : runner'[i].session = runner[i].session
    BY <1>2
  <2> QED
    BY <2>1, <2>2, <1>3
    DEF RunnerInHand, Managing, WithRunner, Loaded, Copied, At, Session, Ref, Applying
<1>8. LiveRunnersAreRegistered'
  <2> SUFFICES ASSUME NEW i \in RunnerIds, ~runner'[i].stopped
               PROVE  runners'[runner'[i].session] = i \/ i \in replaced
    BY <1>3 DEF LiveRunnersAreRegistered
  <2>1. /\ i \notin D /\ ~runner[i].stopped /\ runner[i].session \in Sessions
        /\ runner'[i].session = runner[i].session
    BY <1>1, <1>2 DEF RunnerRecords
  <2> QED
    BY <2>1 DEF IInv, RunnersInv, LiveRunnersAreRegistered
<1>9. Forks'
  <2>1. ASSUME NEW i \in RunnerIds, runner'[i].heir
        PROVE  /\ HasHistory(runner'[i].session)
               /\ runner'[i].forks \/ \E u \in Threads : At(u, "Select", "fork")' /\ Ref(u)' = i
    <3>1. runner[i].heir /\ runner'[i].session = runner[i].session /\ (runner'[i].forks <=> runner[i].forks)
      BY <2>1, <1>2
    <3>2. ASSUME NEW u \in Threads, Forking(u, i) PROVE At(u, "Select", "fork")' /\ Ref(u)' = i
      BY <3>2 DEF Forking, At, Ref, OthersStay
    <3> QED
      BY <3>1, <3>2 DEF IInv, RunnersInv, Forks
  <2> QED
    BY <2>1, <1>3 DEF Forks, Forking, HasHistory
<1>10. ForkInheritsHistory'
  <2>1. ForkInheritsHistory
    BY DEF IInv, RunnersInv
  <2>2. \A i \in RunnerIds : runner'[i].heir /\ runner'[i].began = "fresh" => i \in early
    BY <1>2, <2>1 DEF ForkInheritsHistory
  <2> QED
    BY <1>3, <2>2 DEF ForkInheritsHistory
<1>11. Allowed'
  <2> SUFFICES ASSUME ~overwritten, NEW q \in Sessions, runners'[q] # 0,
                      runner'[runners'[q]].configured, NEW tool \in repoTools[q]
               PROVE  tool \in runner'[runners'[q]].tools \/ \E u \in Threads : Brings(u, q, tool)'
    BY DEF Allowed
  <2>1. /\ runners'[q] = runners[q] /\ runner[runners[q]].configured
        /\ runner'[runners[q]].tools = runner[runners[q]].tools
    BY <1>2, <1>5
  <2>2. ASSUME NEW u \in Threads, Brings(u, q, tool) PROVE Brings(u, q, tool)'
    BY <2>1, <2>2 DEF Brings, Ref, Session, OthersStay
  <2> QED
    BY <2>1, <2>2 DEF IInv, RunnersInv, Allowed
<1>12. Saved'
  <2>1. ASSUME NEW u \in Threads \ {t} PROVE SavedBy(u)'
    BY DEF IInv, RunnersInv, Saved, SavedBy, Copied, Loaded, At, Ref, Session, OthersStay
  <2> QED
    BY <2>1, <1>2, <1>3 DEF IInv, RunnersInv, Saved
<1> QED
  BY <1>4, <1>6, <1>7, <1>8, <1>9, <1>10, <1>11, <1>12 DEF RunnersInv, Base

LEMMA DeleteRunnerInv == ASSUME IInv, NEW t \in Threads, DeleteRunner(t) PROVE IInv'
<1>1. /\ thread[t].at = "idle" /\ UNCHANGED stateVars /\ stale' = stale
      /\ UNCHANGED <<parent, disk, repoTools, replaced, early, overwritten>>
  BY DEF DeleteRunner, ManagerCall, Calling
<1>2. PICK s \in Sessions :
        /\ runner' = [i \in RunnerIds |->
             IF i = runners[s] THEN [runner[i] EXCEPT !.stopped = TRUE] ELSE runner[i]]
        /\ runners' = [runners EXCEPT ![s] = 0]
        /\ Begins(t, "DeleteSession", "deleteState", s, 0, 0, {})
  BY DEF DeleteRunner
<1>3. /\ {} \in SUBSET Tools /\ "DeleteSession" \in ManagerOps /\ 0 \in Nat
      /\ "deleteState" \in Labels \ {"apply"}
  BY DEF ManagerOps, Labels
<1>4. /\ Away(t) /\ thread'[t].op = "DeleteSession" /\ thread'[t].at = "deleteState"
      /\ Session(t)' = s
  BY <1>1, <1>2, <1>3, BeginsAway
<1>5. RunnerInHand(t)' /\ SavedBy(t)'
  BY <1>4 DEF RunnerInHand, SavedBy, WithRunner, Loaded, Copied, At, Applying
<1>6. runners \in [Sessions -> Nat]
  BY DEF IInv, RunnersInv, Base, RunnersTyped
<1>7. PICK D \in SUBSET Nat : D = {runners[s]}
  BY <1>6
<1>8. RunnersInv'
  <2>1. runner' = [i \in RunnerIds |->
                     IF i \in D THEN [runner[i] EXCEPT !.stopped = TRUE] ELSE runner[i]]
    BY <1>2, <1>7
  <2>2. /\ runners' \in [Sessions -> Nat]
        /\ \A q \in Sessions : runners'[q] = runners[q] \/ (runners'[q] = 0 /\ runners[q] \in D)
    BY <1>2, <1>6, <1>7
  <2> QED
    BY <1>1, <1>4, <1>5, <2>1, <2>2, RemovedInv DEF Away
<1> QED
  BY <1>1, <1>4, <1>8, UntouchedInv DEF IInv

LEMMA ShutdownInv == ASSUME IInv, NEW t \in Threads, Shutdown(t) PROVE IInv'
<1>1. /\ thread[t].at = "idle" /\ UNCHANGED stateVars /\ stale' = stale /\ thread' = thread
      /\ UNCHANGED <<parent, disk, repoTools, replaced, early, overwritten>>
      /\ runners' = [s \in Sessions |-> 0]
  BY DEF Shutdown, ManagerCall, Calling
<1>2. runner' = [i \in RunnerIds |->
                   IF \E s \in Sessions : runners[s] = i
                   THEN [runner[i] EXCEPT !.stopped = TRUE] ELSE runner[i]]
  BY DEF Shutdown
<1>3. RunnerInHand(t)' /\ SavedBy(t)' /\ OthersStay(t)
  BY <1>1 DEF IInv, RunnersInv, Base, RunnerInHand, SavedBy, WithRunner, Loaded, Copied, At, Session,
              Managing, Applying, OthersStay
<1>4. runners \in [Sessions -> Nat]
  BY DEF IInv, RunnersInv, Base, RunnersTyped
<1>5. PICK D \in SUBSET Nat : D = {runners[s] : s \in Sessions}
  BY <1>4
<1>6. RunnersInv'
  <2>1. \A i : (\E s \in Sessions : runners[s] = i) <=> i \in D
    BY <1>5
  <2>2. runner' = [i \in RunnerIds |->
                     IF i \in D THEN [runner[i] EXCEPT !.stopped = TRUE] ELSE runner[i]]
    BY <1>2, <2>1
  <2>3. /\ runners' \in [Sessions -> Nat]
        /\ \A q \in Sessions : runners'[q] = runners[q] \/ (runners'[q] = 0 /\ runners[q] \in D)
    BY <1>1, <1>5
  <2> QED
    BY <1>1, <1>3, <2>2, <2>3, RemovedInv
<1> QED
  BY <1>1, <1>6, StillInv DEF IInv

-----------------------------------------------------------------------------
(* One Runner changed in place.                                            *)

LEMMA ChangedInv ==
  ASSUME IInv, NEW t \in Threads, OthersStay(t), NEW i \in RunnerIds, NEW r \in RunnerRecords,
         runner' = [runner EXCEPT ![i] = r], r.session = runner[i].session,
         ~r.stopped => ~runner[i].stopped, ~r.old => ~runner[i].old,
         r.messages >= runner[i].messages,
         stale' = stale, UNCHANGED <<runners, disk, repoTools, replaced>>, overwritten' \in BOOLEAN,
         RunnerInHand(t)', SavedBy(t)', Forks', ForkInheritsHistory', Allowed'
  PROVE  RunnersInv'
<1>1. RunnersTyped /\ Base
  BY DEF IInv, RunnersInv, Base
<1>2. /\ runner' \in Seq(RunnerRecords) /\ Len(runner') = Len(runner) /\ RunnerIds' = RunnerIds
      /\ runner'[i] = r /\ \A j \in RunnerIds \ {i} : runner'[j] = runner[j]
  BY <1>1, OneRunner
<1>3. \A j \in RunnerIds : runner'[j].session = runner[j].session
  BY <1>2
<1>4. RunnersTyped'
  BY <1>1, <1>2 DEF RunnersTyped
<1>5. Base'
  BY <1>1, <1>2, <1>3, <1>4, BaseKept
<1>6. LiveRunnersAreRegistered'
  <2> SUFFICES ASSUME NEW j \in RunnerIds, ~runner'[j].stopped
               PROVE  runners[runner[j].session] = j \/ j \in replaced
    BY <1>2, <1>3 DEF LiveRunnersAreRegistered
  <2>1. ~runner[j].stopped
    BY <1>2
  <2> QED
    BY <2>1 DEF IInv, RunnersInv, LiveRunnersAreRegistered
<1>7. Saved'
  <2>1. ASSUME NEW u \in Threads \ {t} PROVE SavedBy(u)'
    BY DEF IInv, RunnersInv, Saved, SavedBy, Copied, Loaded, At, Ref, Session, OthersStay
  <2>2. ASSUME NEW j \in RunnerIds, ~runner'[j].old
        PROVE  runner'[j].messages >= disk[runner[j].session]
    <3>1. ~runner[j].old
      BY <1>2, <2>2
    <3>2. runner[j].messages >= disk[runner[j].session]
      BY <3>1 DEF IInv, RunnersInv, Saved
    <3>3. /\ runner[j] \in RunnerRecords /\ runner'[j] \in RunnerRecords
          /\ disk \in [Sessions -> 0..MaxMessages]
      BY <1>1, <1>2 DEF RunnersTyped, RunnerIds
    <3>4. /\ runner[j].messages \in Int /\ runner'[j].messages \in Int
          /\ disk[runner[j].session] \in Int
      BY <3>3 DEF RunnerRecords
    <3>5. runner'[j].messages >= runner[j].messages
      BY <1>2, <3>4
    <3> QED
      BY <3>2, <3>4, <3>5
  <2> QED
    BY <1>2, <1>3, <2>1, <2>2 DEF Saved
<1> QED
  BY <1>5, <1>6, <1>7 DEF RunnersInv

\* What a step leaves that sets up no fork, or allows no tool.
LEMMA ForksStay ==
  ASSUME IInv, NEW t \in Threads, OthersStay(t), thread[t].at # "fork", parent' = parent,
         RunnerIds' = RunnerIds,
         \A i \in RunnerIds : /\ runner'[i].session = runner[i].session
                              /\ runner'[i].heir => runner[i].heir
                              /\ runner[i].forks => runner'[i].forks
  PROVE  Forks'
<1>1. ASSUME NEW i \in RunnerIds, runner'[i].heir
      PROVE  /\ HasHistory(runner'[i].session)
             /\ runner'[i].forks \/ \E u \in Threads : At(u, "Select", "fork")' /\ Ref(u)' = i
  <2>1. runner[i].heir /\ runner'[i].session = runner[i].session
    BY <1>1
  <2>2. ASSUME NEW u \in Threads, Forking(u, i) PROVE At(u, "Select", "fork")' /\ Ref(u)' = i
    BY <2>2 DEF Forking, At, Ref, OthersStay
  <2> QED
    BY <2>1, <2>2 DEF IInv, RunnersInv, Forks
<1> QED
  BY <1>1 DEF Forks, Forking, HasHistory

LEMMA AllowedStays ==
  ASSUME IInv, NEW t \in Threads, OthersStay(t), thread[t].op # "AddAllowedTool",
         UNCHANGED <<runners, repoTools, overwritten>>,
         \A i \in RunnerIds : /\ runner'[i].configured => runner[i].configured
                              /\ runner[i].tools \subseteq runner'[i].tools
  PROVE  Allowed'
<1> SUFFICES ASSUME ~overwritten, NEW s \in Sessions, runners[s] # 0,
                    runner'[runners[s]].configured, NEW tool \in repoTools[s]
             PROVE  tool \in runner'[runners[s]].tools \/ \E u \in Threads : Brings(u, s, tool)'
  BY DEF Allowed
<1>1. /\ runner[runners[s]].configured
      /\ runner[runners[s]].tools \subseteq runner'[runners[s]].tools
  BY RunnerOfMap
<1>2. ASSUME NEW u \in Threads, Brings(u, s, tool) PROVE Brings(u, s, tool)'
  BY <1>2 DEF Brings, Ref, Session, OthersStay
<1> QED
  BY <1>1, <1>2 DEF IInv, RunnersInv, Allowed

LEMMA SetUpForkInv == ASSUME IInv, NEW t \in Threads, SetUpFork(t) PROVE IInv'
<1>1. /\ At(t, "Select", "fork") /\ UNCHANGED stateVars /\ stale' = stale /\ Goes(t, "readTools")
      /\ runner' = [runner EXCEPT ![Ref(t)].forks = HasHistory(Session(t))]
      /\ UNCHANGED <<runners, parent, disk, repoTools, replaced, early, overwritten>>
  BY DEF SetUpFork, SetsFork
<1>2. /\ Managing(t) /\ Session(t) \in Sessions /\ Ref(t) \in RunnerIds
      /\ runner[Ref(t)] \in RunnerRecords
      /\ runner[Ref(t)].session = Session(t) /\ "readTools" \in Labels \ {"apply"}
  BY <1>1, RunnerOfHand DEF At, WithRunner, Labels
<1>3. /\ Away(t) /\ thread'[t].op = "Select" /\ thread'[t].at = "readTools"
      /\ Session(t)' = Session(t) /\ Ref(t)' = Ref(t)
  BY <1>1, <1>2, GoesAway DEF At
<1>4. PICK i \in RunnerIds : i = Ref(t)
  BY <1>2
<1>5. PICK r : r = [runner[i] EXCEPT !.forks = HasHistory(Session(t))]
  OBVIOUS
<1>6. /\ r \in RunnerRecords /\ r.session = runner[i].session /\ (r.stopped <=> runner[i].stopped)
      /\ (r.old <=> runner[i].old) /\ r.messages = runner[i].messages
      /\ (r.heir <=> runner[i].heir) /\ (r.forks <=> HasHistory(Session(t)))
      /\ r.began = runner[i].began /\ r.tools = runner[i].tools
      /\ (r.configured <=> runner[i].configured) /\ r.messages >= runner[i].messages
  <2>1. HasHistory(Session(t)) \in BOOLEAN
    BY DEF HasHistory
  <2> QED
    BY <1>2, <1>4, <1>5, <2>1 DEF RunnerRecords
<1>7. runner' = [runner EXCEPT ![i] = r]
  BY <1>1, <1>4, <1>5
<1>8. /\ RunnerIds' = RunnerIds /\ runner'[i] = r
      /\ \A j \in RunnerIds \ {i} : runner'[j] = runner[j]
  BY <1>6, <1>7, OneRunner DEF IInv, RunnersInv, Base
<1>9. RunnerInHand(t)' /\ SavedBy(t)'
  BY <1>2, <1>3, <1>4, <1>6, <1>8 DEF RunnerInHand, SavedBy, WithRunner, Loaded, Copied, At, Applying
<1>10. Forks'
  <2> SUFFICES ASSUME NEW j \in RunnerIds, runner'[j].heir
               PROVE  /\ HasHistory(runner'[j].session)
                      /\ runner'[j].forks \/ \E u \in Threads : At(u, "Select", "fork")' /\ Ref(u)' = j
    BY <1>1, <1>8 DEF Forks, Forking, HasHistory
  <2>1. runner[j].heir /\ runner'[j].session = runner[j].session
    BY <1>6, <1>8
  <2>2. HasHistory(runner'[j].session)
    BY <2>1 DEF IInv, RunnersInv, Forks
  <2>3. CASE j = i
    BY <1>2, <1>4, <1>6, <1>8, <2>1, <2>2, <2>3 DEF IInv, RunnersInv, Forks
  <2>4. CASE j # i
    <3>1. ASSUME NEW u \in Threads, Forking(u, j) PROVE At(u, "Select", "fork")' /\ Ref(u)' = j
      BY <3>1, <2>4, <1>3, <1>4 DEF Forking, At, Ref, Away, OthersStay
    <3> QED
      BY <2>1, <2>2, <2>4, <3>1, <1>8 DEF IInv, RunnersInv, Forks
  <2> QED
    BY <2>3, <2>4
<1>11. ForkInheritsHistory'
  <2> SUFFICES ASSUME NEW j \in RunnerIds, runner'[j].heir, runner'[j].began = "fresh"
               PROVE  j \in early
    BY <1>1, <1>8 DEF ForkInheritsHistory
  <2>1. runner[j].heir /\ runner[j].began = "fresh"
    BY <1>6, <1>8
  <2> QED
    BY <2>1 DEF IInv, RunnersInv, ForkInheritsHistory
<1>12. Allowed'
  <2>1. \A j \in RunnerIds : /\ runner'[j].configured => runner[j].configured
                             /\ runner[j].tools \subseteq runner'[j].tools
    BY <1>6, <1>8
  <2> QED
    BY <1>1, <1>3, <2>1, AllowedStays DEF Away, At
<1>13. overwritten' \in BOOLEAN
  BY <1>1 DEF IInv, RunnersInv, Base, RunnersTyped
<1>14. RunnersInv'
  BY <1>1, <1>3, <1>6, <1>7, <1>9, <1>10, <1>11, <1>12, <1>13, ChangedInv DEF Away
<1> QED
  BY <1>1, <1>3, <1>14, UntouchedInv DEF IInv

LEMMA SetAllowedToolsInv == ASSUME IInv, NEW t \in Threads, SetAllowedTools(t) PROVE IInv'
<1>1. /\ At(t, "Select", "setTools") /\ UNCHANGED stateVars /\ stale' = stale /\ Goes(t, "state")
      /\ runner' = [runner EXCEPT ![Ref(t)].tools = thread[t].list, ![Ref(t)].configured = TRUE]
      /\ overwritten' = (overwritten \/ thread[t].list # repoTools[Session(t)])
      /\ UNCHANGED <<runners, parent, disk, repoTools, replaced, early>>
  BY DEF SetAllowedTools
<1>2. /\ Managing(t) /\ Session(t) \in Sessions /\ Ref(t) \in RunnerIds
      /\ runner[Ref(t)] \in RunnerRecords
      /\ runner[Ref(t)].session = Session(t) /\ "state" \in Labels \ {"apply"}
  BY <1>1, RunnerOfHand DEF At, WithRunner, Labels
<1>3. /\ Away(t) /\ thread'[t].op = "Select" /\ thread'[t].at = "state"
      /\ Session(t)' = Session(t) /\ Ref(t)' = Ref(t)
  BY <1>1, <1>2, GoesAway DEF At
<1>4. PICK i \in RunnerIds : i = Ref(t)
  BY <1>2
<1>5. PICK r : r = [runner[i] EXCEPT !.tools = thread[t].list, !.configured = TRUE]
  OBVIOUS
<1>6. /\ r \in RunnerRecords /\ r.session = runner[i].session /\ (r.stopped <=> runner[i].stopped)
      /\ (r.old <=> runner[i].old) /\ r.messages = runner[i].messages
      /\ (r.heir <=> runner[i].heir) /\ (r.forks <=> runner[i].forks)
      /\ r.began = runner[i].began /\ r.tools = thread[t].list
      /\ r.messages >= runner[i].messages
  <2>1. thread[t].list \in SUBSET Tools
    BY DEF IInv, StatesInv, Shape, ThreadsTyped, ThreadRecords
  <2>2. PICK was \in RunnerRecords : was = runner[i]
    BY <1>2, <1>4
  <2>3. r = [was EXCEPT !.tools = thread[t].list, !.configured = TRUE]
    BY <2>2, <1>5
  <2>4. r \in RunnerRecords
    BY <2>1, <2>3 DEF RunnerRecords
  <2>5. /\ r.session = was.session /\ r.stopped = was.stopped /\ r.old = was.old
        /\ r.messages = was.messages /\ r.heir = was.heir /\ r.forks = was.forks
        /\ r.began = was.began /\ r.tools = thread[t].list
    BY <2>3 DEF RunnerRecords
  <2>6. was.messages >= was.messages
    BY DEF RunnerRecords
  <2> QED
    BY <2>2, <2>4, <2>5, <2>6
<1>7. runner' = [runner EXCEPT ![i] = r]
  BY <1>1, <1>2, <1>4, <1>5 DEF IInv, RunnersInv, Base, RunnersTyped, RunnerIds
<1>8. /\ RunnerIds' = RunnerIds /\ runner'[i] = r
      /\ \A j \in RunnerIds \ {i} : runner'[j] = runner[j]
  BY <1>6, <1>7, OneRunner DEF IInv, RunnersInv, Base
<1>9. RunnerInHand(t)' /\ SavedBy(t)'
  BY <1>2, <1>3, <1>4, <1>6, <1>8 DEF RunnerInHand, SavedBy, WithRunner, Loaded, Copied, At, Applying
<1>10. Forks'
  <2>1. \A j \in RunnerIds : /\ runner'[j].session = runner[j].session
                             /\ runner'[j].heir => runner[j].heir
                             /\ runner[j].forks => runner'[j].forks
    BY <1>6, <1>8
  <2> QED
    BY <1>1, <1>3, <1>8, <2>1, ForksStay DEF Away, At
<1>11. ForkInheritsHistory'
  <2> SUFFICES ASSUME NEW j \in RunnerIds, runner'[j].heir, runner'[j].began = "fresh"
               PROVE  j \in early
    BY <1>1, <1>8 DEF ForkInheritsHistory
  <2>1. runner[j].heir /\ runner[j].began = "fresh"
    BY <1>6, <1>8
  <2> QED
    BY <2>1 DEF IInv, RunnersInv, ForkInheritsHistory
<1>12. Allowed'
  <2> SUFFICES ASSUME ~overwritten, thread[t].list = repoTools[Session(t)],
                      NEW q \in Sessions, runners[q] # 0,
                      runner'[runners[q]].configured, NEW tool \in repoTools[q]
               PROVE  tool \in runner'[runners[q]].tools \/ \E u \in Threads : Brings(u, q, tool)'
    BY <1>1 DEF Allowed
  <2>1. CASE runners[q] = i
    <3>1. q = Session(t)
      BY <2>1, <1>2, <1>4, RunnerOfMap
    <3> QED
      BY <2>1, <3>1, <1>6, <1>8
  <2>2. CASE runners[q] # i
    <3>1. runner'[runners[q]] = runner[runners[q]]
      BY <2>2, <1>8, RunnerOfMap
    <3>2. ASSUME NEW u \in Threads, Brings(u, q, tool) PROVE Brings(u, q, tool)'
      BY <1>1, <3>2, <1>3 DEF Brings, Ref, Session, Away, OthersStay, At
    <3> QED
      BY <3>1, <3>2 DEF IInv, RunnersInv, Allowed
  <2> QED
    BY <2>1, <2>2
<1>13. overwritten' \in BOOLEAN
  BY <1>1
<1>14. RunnersInv'
  BY <1>1, <1>3, <1>6, <1>7, <1>9, <1>10, <1>11, <1>12, <1>13, ChangedInv DEF Away
<1> QED
  BY <1>1, <1>3, <1>14, UntouchedInv DEF IInv

LEMMA ConverseInv == ASSUME IInv, NEW t \in Threads, Converse(t) PROVE IInv'
<1>1. /\ At(t, "Select", "holding") /\ UNCHANGED stateVars /\ stale' = stale /\ thread' = thread
      /\ runner[Ref(t)].messages < MaxMessages
      /\ runner' = [runner EXCEPT ![Ref(t)].messages = @ + 1,
                      ![Ref(t)].began = IF @ # "no" THEN @
                                        ELSE IF runner[Ref(t)].forks THEN "fork" ELSE "fresh"]
      /\ early' = IF \E u \in Threads : At(u, "Select", "fork") /\ Ref(u) = Ref(t)
                  THEN early \cup {Ref(t)} ELSE early
      /\ UNCHANGED <<runners, parent, disk, repoTools, replaced, overwritten>>
  BY DEF Converse
<1>2. Ref(t) \in RunnerIds /\ runner[Ref(t)] \in RunnerRecords
  BY <1>1, RunnerOfHand DEF At, WithRunner
<1>3. PICK i \in RunnerIds : i = Ref(t)
  BY <1>2
<1>4. PICK r : r = [runner[i] EXCEPT !.messages = runner[i].messages + 1,
                      !.began = IF runner[i].began # "no" THEN runner[i].began
                                ELSE IF runner[i].forks THEN "fork" ELSE "fresh"]
  OBVIOUS
<1>5. /\ r \in RunnerRecords /\ r.session = runner[i].session /\ (r.stopped <=> runner[i].stopped)
      /\ (r.old <=> runner[i].old) /\ r.messages >= runner[i].messages
      /\ (r.heir <=> runner[i].heir) /\ (r.forks <=> runner[i].forks)
      /\ (r.configured <=> runner[i].configured) /\ r.tools = runner[i].tools
  <2>1. runner[i].messages \in 0..MaxMessages /\ runner[i].messages + 1 \in 0..MaxMessages
    BY <1>1, <1>2, <1>3, RunnerBoundsAssumption DEF RunnerRecords
  <2>2. PICK was \in RunnerRecords : was = runner[i]
    BY <1>2, <1>3
  <2>3. PICK n \in 0..MaxMessages : n = was.messages + 1
    BY <2>1, <2>2
  <2>4. PICK began \in {"no", "fresh", "fork"} :
          began = IF runner[i].began # "no" THEN runner[i].began
                  ELSE IF runner[i].forks THEN "fork" ELSE "fresh"
    BY <2>2 DEF RunnerRecords
  <2>5. r = [was EXCEPT !.messages = n, !.began = began]
    BY <1>4, <2>2, <2>3, <2>4
  <2>6. r \in RunnerRecords
    BY <2>5 DEF RunnerRecords
  <2>7. /\ r.session = was.session /\ r.stopped = was.stopped /\ r.old = was.old
        /\ r.messages = n /\ r.heir = was.heir /\ r.forks = was.forks
        /\ r.configured = was.configured /\ r.tools = was.tools
    BY <2>5 DEF RunnerRecords
  <2>8. n >= was.messages
    BY <2>1, <2>2, <2>3
  <2> QED
    BY <2>2, <2>6, <2>7, <2>8
<1>6. runner' = [runner EXCEPT ![i] = r]
  BY <1>1, <1>2, <1>3, <1>4 DEF IInv, RunnersInv, Base, RunnersTyped, RunnerIds
<1>7. /\ RunnerIds' = RunnerIds /\ runner'[i] = r
      /\ \A j \in RunnerIds \ {i} : runner'[j] = runner[j]
  BY <1>5, <1>6, OneRunner DEF IInv, RunnersInv, Base
<1>8. OthersStay(t)
  BY <1>1 DEF OthersStay
<1>9. RunnerInHand(t)' /\ SavedBy(t)'
  <2>1. RunnerInHand(t) /\ \A j \in RunnerIds : runner'[j].session = runner[j].session
    BY <1>5, <1>7 DEF IInv, RunnersInv, Base
  <2> QED
    BY <1>1, <1>7, <2>1 DEF RunnerInHand, SavedBy, WithRunner, Loaded, Copied, At, Applying, Managing,
       Session, Ref
<1>10. Forks'
  <2>1. \A j \in RunnerIds : /\ runner'[j].session = runner[j].session
                             /\ runner'[j].heir => runner[j].heir
                             /\ runner[j].forks => runner'[j].forks
    BY <1>5, <1>7
  <2> QED
    BY <1>1, <1>7, <1>8, <2>1, ForksStay DEF At
<1>11. ForkInheritsHistory'
  <2> SUFFICES ASSUME NEW j \in RunnerIds, runner'[j].heir, runner'[j].began = "fresh"
               PROVE  j \in early'
    BY <1>7 DEF ForkInheritsHistory
  <2>1. runner[j].heir
    BY <1>5, <1>7
  <2>2. CASE runner[j].began = "fresh"
    BY <1>1, <2>1, <2>2 DEF IInv, RunnersInv, ForkInheritsHistory
  <2>3. CASE runner[j].began # "fresh"
    <3>1. j = i
      BY <2>3, <1>7
    <3>2. r.began = IF runner[i].began # "no" THEN runner[i].began
                    ELSE IF runner[i].forks THEN "fork" ELSE "fresh"
      BY <1>2, <1>3, <1>4 DEF RunnerRecords
    <3>3. ~runner[i].forks
      BY <2>3, <3>1, <3>2, <1>7
    <3>4. PICK u \in Threads : Forking(u, i)
      BY <2>1, <3>1, <3>3 DEF IInv, RunnersInv, Forks
    <3> QED
      BY <3>1, <3>4, <1>1, <1>3 DEF Forking
  <2> QED
    BY <2>2, <2>3
<1>12. Allowed'
  <2>1. \A j \in RunnerIds : /\ runner'[j].configured => runner[j].configured
                             /\ runner[j].tools \subseteq runner'[j].tools
    BY <1>5, <1>7
  <2> QED
    BY <1>1, <1>8, <2>1, AllowedStays DEF At
<1>13. overwritten' \in BOOLEAN
  BY <1>1 DEF IInv, RunnersInv, Base, RunnersTyped
<1>14. RunnersInv'
  BY <1>1, <1>5, <1>6, <1>8, <1>9, <1>10, <1>11, <1>12, <1>13, ChangedInv
<1> QED
  BY <1>1, <1>14, StillInv DEF IInv

-----------------------------------------------------------------------------
(* SaveMessages writes, and AddAllowedTool.                                *)

LEMMA WriteMessagesInv == ASSUME IInv, NEW t \in Threads, WriteMessages(t) PROVE IInv'
<1>1. /\ At(t, "SaveMessages", "write") /\ UNCHANGED stateVars /\ Ends(t)
      /\ disk' = [disk EXCEPT ![Session(t)] = thread[t].arg]
      /\ stale' = (stale \ {t}) \cup Outrun(t, thread[t].arg)
      /\ runner' = [i \in RunnerIds |-> [runner[i] EXCEPT !.old =
           @ \/ (runner[i].session = Session(t) /\ runner[i].messages < thread[t].arg)]]
      /\ UNCHANGED <<runners, parent, repoTools, replaced, early, overwritten>>
  BY DEF WriteMessages, Writes
<1>2. Managing(t) /\ Session(t) \in Sessions
  BY <1>1, RunnerOfHand DEF At, WithRunner
<1>3. PICK s \in Sessions : s = Session(t)
  BY <1>2
<1>4. PICK n \in 0..MaxMessages : n = thread[t].arg
  BY <1>1, <1>2 DEF IInv, RunnersInv, Base, RunnerInHand, Copied
<1>5. Away(t) /\ thread'[t].op = "none" /\ thread'[t].at = "idle"
  BY <1>1, <1>2, EndsAway
<1>6. /\ runner \in Seq(RunnerRecords) /\ RunnerIds = 1..Len(runner) /\ Len(runner) \in Nat
      /\ disk \in [Sessions -> 0..MaxMessages]
  BY DEF IInv, RunnersInv, Base, RunnersTyped, RunnerIds
<1>7. ASSUME NEW i \in RunnerIds
      PROVE  /\ runner'[i] \in RunnerRecords /\ runner'[i].session = runner[i].session
             /\ runner'[i].heir = runner[i].heir /\ runner'[i].forks = runner[i].forks
             /\ runner'[i].began = runner[i].began /\ runner'[i].messages = runner[i].messages
             /\ runner'[i].tools = runner[i].tools /\ runner'[i].stopped = runner[i].stopped
             /\ runner'[i].configured = runner[i].configured
             /\ ~runner'[i].old => ~runner[i].old /\ ~(runner[i].session = s /\ runner[i].messages < n)
  <2>1. PICK was \in RunnerRecords : was = runner[i]
    BY <1>6
  <2>2. PICK old \in BOOLEAN : old <=> was.old \/ (was.session = s /\ was.messages < n)
    OBVIOUS
  <2>3. runner'[i] = [was EXCEPT !.old = old]
    BY <1>1, <1>3, <1>4, <2>1, <2>2 DEF RunnerRecords
  <2>4. runner'[i] \in RunnerRecords
    BY <2>3 DEF RunnerRecords
  <2>5. /\ runner'[i].session = was.session /\ runner'[i].heir = was.heir
        /\ runner'[i].forks = was.forks /\ runner'[i].began = was.began
        /\ runner'[i].messages = was.messages /\ runner'[i].tools = was.tools
        /\ runner'[i].stopped = was.stopped /\ runner'[i].configured = was.configured
        /\ runner'[i].old = old
    BY <2>3 DEF RunnerRecords
  <2> QED
    BY <2>1, <2>2, <2>4, <2>5
<1>8. RunnerIds' = RunnerIds /\ runner' \in Seq(RunnerRecords) /\ Len(runner') = Len(runner)
  <2>1. runner' \in [RunnerIds -> RunnerRecords]
    BY <1>1, <1>7
  <2> QED
    BY <2>1, <1>6 DEF RunnerIds
<1>9. RunnersTyped'
  <2>1. disk' \in [Sessions -> 0..MaxMessages]
    BY <1>1, <1>4, <1>6
  <2> QED
    BY <1>1, <1>8, <2>1 DEF IInv, RunnersInv, Base, RunnersTyped
<1>10. RunnerInHand(t)'
  BY <1>5 DEF RunnerInHand, WithRunner, Loaded, Copied, At, Applying, Managing, ManagerOps
<1>11. Base'
  <2>1. \A i \in RunnerIds : runner'[i].session = runner[i].session
    BY <1>7
  <2> QED
    BY <1>1, <1>5, <1>8, <1>9, <1>10, <2>1, BaseKept DEF IInv, RunnersInv, Away
<1>12. LiveRunnersAreRegistered'
  <2> SUFFICES ASSUME NEW i \in RunnerIds, ~runner'[i].stopped
               PROVE  runners[runner'[i].session] = i \/ i \in replaced
    BY <1>1, <1>8 DEF LiveRunnersAreRegistered
  <2>1. ~runner[i].stopped /\ runner'[i].session = runner[i].session
    BY <1>7
  <2> QED
    BY <2>1 DEF IInv, RunnersInv, LiveRunnersAreRegistered
<1>13. Forks'
  <2>1. \A j \in RunnerIds : /\ runner'[j].session = runner[j].session
                             /\ runner'[j].heir => runner[j].heir
                             /\ runner[j].forks => runner'[j].forks
    BY <1>7
  <2> QED
    BY <1>1, <1>5, <1>8, <2>1, ForksStay DEF Away, At
<1>14. ForkInheritsHistory'
  BY <1>1, <1>7, <1>8 DEF IInv, RunnersInv, ForkInheritsHistory
<1>15. Allowed'
  <2>1. \A j \in RunnerIds : /\ runner'[j].configured => runner[j].configured
                             /\ runner[j].tools \subseteq runner'[j].tools
    BY <1>7
  <2> QED
    BY <1>1, <1>5, <2>1, AllowedStays DEF Away, At
<1>16. \A q \in Sessions : disk'[q] = IF q = s THEN n ELSE disk[q]
  BY <1>1, <1>3, <1>4, <1>6
<1>17. Saved'
  <2>1. ASSUME NEW u \in Threads PROVE SavedBy(u)'
    <3>1. CASE u = t
      BY <3>1, <1>5 DEF SavedBy, Copied, Loaded, At
    <3>2. CASE u # t
      <4>1. thread'[u] = thread[u]
        BY <3>2, <1>5 DEF Away, OthersStay
      <4>2. u \notin stale' => u \notin stale /\ u \notin Outrun(t, n)
        BY <3>2, <1>1, <1>4
      <4>3. SavedBy(u) /\ RunnerInHand(u)
        BY DEF IInv, RunnersInv, Saved, Base
      <4>4. CASE Copied(u)
        <5>1. thread[u].arg \in 0..MaxMessages /\ ~Loaded(u) /\ Session(u) \in Sessions
          BY <4>3, <4>4 DEF RunnerInHand, Copied, Loaded, At, Managing, ManagerOps
        <5>2. u \notin stale' => thread[u].arg >= disk[Session(u)]
          BY <4>2, <4>3, <4>4 DEF SavedBy
        <5>3. u \notin stale' /\ Session(u) = s => ~(thread[u].arg < n)
          BY <3>2, <4>2, <4>4, <1>3 DEF Outrun, Copied
        <5>4. u \notin stale' => thread[u].arg >= disk'[Session(u)]
          BY <5>1, <5>2, <5>3, <1>16
        <5> QED
          BY <4>1, <5>1, <5>4 DEF SavedBy, Copied, Loaded, At, Session, Ref
      <4>5. CASE Loaded(u)
        <5>1. Ref(u) \in 0..MaxMessages /\ ~Copied(u) /\ Session(u) \in Sessions
          BY <4>3, <4>5 DEF RunnerInHand, Copied, Loaded, At, Managing, ManagerOps
        <5>2. u \notin stale' => Ref(u) >= disk[Session(u)]
          BY <4>2, <4>3, <4>5 DEF SavedBy
        <5>3. u \notin stale' /\ Session(u) = s => ~(Ref(u) < n)
          BY <3>2, <4>2, <4>5, <1>3 DEF Outrun, Loaded
        <5>4. u \notin stale' => Ref(u) >= disk'[Session(u)]
          BY <5>1, <5>2, <5>3, <1>16
        <5> QED
          BY <4>1, <5>1, <5>4 DEF SavedBy, Copied, Loaded, At, Session, Ref
      <4>6. CASE ~Copied(u) /\ ~Loaded(u)
        BY <4>1, <4>6 DEF SavedBy, Copied, Loaded, At
      <4> QED
        BY <4>4, <4>5, <4>6
    <3> QED
      BY <3>1, <3>2
  <2>2. ASSUME NEW i \in RunnerIds, ~runner'[i].old
        PROVE  runner'[i].messages >= disk'[runner'[i].session]
    <3>1. PICK was \in RunnerRecords : was = runner[i]
      BY <1>6
    <3>2. was.messages \in 0..MaxMessages /\ was.session \in Sessions
      BY DEF RunnerRecords
    <3>3. ~(was.session = s /\ was.messages < n) /\ ~was.old
      BY <2>2, <3>1, <1>7
    <3>4. was.messages >= disk[was.session]
      BY <3>1, <3>3 DEF IInv, RunnersInv, Saved
    <3>5. was.messages >= disk'[was.session]
      BY <3>2, <3>3, <3>4, <1>16
    <3> QED
      BY <3>1, <3>5, <1>7
  <2> QED
    BY <2>1, <2>2, <1>8 DEF Saved
<1>18. RunnersInv'
  BY <1>11, <1>12, <1>13, <1>14, <1>15, <1>17 DEF RunnersInv
<1> QED
  BY <1>1, <1>5, <1>18, UntouchedInv DEF IInv

LEMMA AllowInConfigInv == ASSUME IInv, NEW t \in Threads, AllowInConfig(t) PROVE IInv'
<1>1. PICK s \in Sessions, added \in Tools :
        /\ Begins(t, "AddAllowedTool", "find", s, 0, 0, {added})
        /\ repoTools' = [repoTools EXCEPT ![s] = @ \cup {added}]
        /\ thread[t].at = "idle"
  BY DEF AllowInConfig, ManagerCall, Calling
<1>2. /\ UNCHANGED stateVars /\ stale' = stale
      /\ UNCHANGED <<runners, runner, parent, disk, replaced, early, overwritten>>
  BY DEF AllowInConfig
<1>3. /\ {added} \in SUBSET Tools /\ "AddAllowedTool" \in ManagerOps /\ 0 \in Nat
      /\ "find" \in Labels \ {"apply"}
  BY DEF ManagerOps, Labels
<1>4. /\ Away(t) /\ thread'[t].op = "AddAllowedTool" /\ thread'[t].at = "find"
      /\ Session(t)' = s /\ thread'[t].list = {added}
  BY <1>1, <1>3, BeginsAway
<1>5. repoTools \in [Sessions -> SUBSET Tools]
  BY DEF IInv, RunnersInv, Base, RunnersTyped
<1>6. RunnersTyped'
  BY <1>1, <1>2, <1>5 DEF IInv, RunnersInv, Base, RunnersTyped
<1>7. RunnerInHand(t)' /\ SavedBy(t)'
  BY <1>4 DEF RunnerInHand, SavedBy, WithRunner, Loaded, Copied, At, Applying
<1>8. Base'
  BY <1>2, <1>4, <1>6, <1>7, BaseKept DEF IInv, RunnersInv, Away, RunnerIds
<1>9. LiveRunnersAreRegistered' /\ ForkInheritsHistory'
  BY <1>2 DEF IInv, RunnersInv, LiveRunnersAreRegistered, ForkInheritsHistory, RunnerIds
<1>10. Forks'
  BY <1>1, <1>2, <1>4, ForksStay DEF Away, RunnerIds
<1>11. Allowed'
  <2> SUFFICES ASSUME ~overwritten, NEW q \in Sessions, runners[q] # 0,
                      runner[runners[q]].configured, NEW tool \in repoTools'[q]
               PROVE  tool \in runner[runners[q]].tools \/ \E u \in Threads : Brings(u, q, tool)'
    BY <1>2 DEF Allowed
  <2>1. CASE tool \in repoTools[q]
    <3>1. ASSUME NEW u \in Threads, Brings(u, q, tool) PROVE Brings(u, q, tool)'
      BY <1>1, <1>2, <1>4, <3>1 DEF Brings, Ref, Session, Away, OthersStay
    <3> QED
      BY <2>1, <3>1 DEF IInv, RunnersInv, Allowed
  <2>2. CASE tool \notin repoTools[q]
    <3>1. q = s /\ tool = added
      BY <2>2, <1>1, <1>5
    <3>2. Brings(t, q, tool)'
      BY <3>1, <1>4 DEF Brings, Session
    <3> QED
      BY <3>2
  <2> QED
    BY <2>1, <2>2
<1>12. Saved'
  <2>1. ASSUME NEW u \in Threads \ {t} PROVE SavedBy(u)'
    BY <1>2, <1>4 DEF IInv, RunnersInv, Saved, SavedBy, Copied, Loaded, At, Ref, Session, Away, OthersStay
  <2> QED
    BY <2>1, <1>2, <1>7 DEF IInv, RunnersInv, Saved, RunnerIds
<1>13. RunnersInv'
  BY <1>8, <1>9, <1>10, <1>11, <1>12 DEF RunnersInv
<1> QED
  BY <1>2, <1>4, <1>13, UntouchedInv DEF IInv

LEMMA FindRunnerToTellInv == ASSUME IInv, NEW t \in Threads, FindRunnerToTell(t) PROVE IInv'
<1>1. /\ At(t, "AddAllowedTool", "find") /\ UNCHANGED stateVars /\ Quiet /\ stale' = stale
      /\ IF runners[Session(t)] = 0 THEN Ends(t) ELSE InHand(t, runners[Session(t)], "tell")
  BY DEF FindRunnerToTell, Quiet, managerVars
<1>2. Managing(t) /\ Session(t) \in Sessions /\ "tell" \in Labels \ {"apply"}
  BY <1>1 DEF At, Managing, ManagerOps, IInv, RunnersInv, Base, RunnerInHand, Labels
<1>3. /\ Away(t) /\ RunnerInHand(t)' /\ SavedBy(t)'
      /\ \A s \in Sessions, tool \in Tools :
           runners[s] # 0 /\ Brings(t, s, tool) => Brings(t, s, tool)'
  <2>1. CASE runners[Session(t)] = 0
    <3>1. Away(t) /\ thread'[t].op = "none" /\ thread'[t].at = "idle"
      BY <1>1, <1>2, <2>1, EndsAway
    <3> QED
      BY <2>1, <3>1 DEF RunnerInHand, SavedBy, WithRunner, Loaded, Copied, At, Applying, Managing,
                        ManagerOps, Brings
  <2>2. CASE runners[Session(t)] # 0
    <3>1. /\ runners[Session(t)] \in RunnerIds /\ runners[Session(t)] \in Nat
          /\ runner[runners[Session(t)]].session = Session(t)
      BY <1>2, <2>2, RunnerOfMap
    <3>2. /\ Away(t) /\ thread'[t].op = "AddAllowedTool" /\ thread'[t].at = "tell"
          /\ Session(t)' = Session(t) /\ Ref(t)' = runners[Session(t)]
          /\ thread'[t].list = thread[t].list
      BY <1>1, <1>2, <2>2, <3>1, InHandAway DEF At
    <3>3. RunnerInHand(t)' /\ SavedBy(t)'
      BY <1>1, <1>2, <3>1, <3>2 DEF RunnerInHand, SavedBy, WithRunner, Loaded, Copied, At, Applying,
         Quiet, RunnerIds
    <3> QED
      BY <1>1, <3>2, <3>3 DEF Brings, Session, Quiet
  <2> QED
    BY <2>1, <2>2
<1>4. Base' /\ LiveRunnersAreRegistered' /\ ForkInheritsHistory'
  BY <1>1, <1>3, QuietBase
  DEF IInv, RunnersInv, Away, LiveRunnersAreRegistered, ForkInheritsHistory, Quiet, RunnerIds
<1>5. Forks'
  BY <1>1, <1>3, ForksStay DEF Away, Quiet, RunnerIds, At
<1>6. Allowed'
  <2> SUFFICES ASSUME ~overwritten, NEW q \in Sessions, runners[q] # 0,
                      runner[runners[q]].configured, NEW tool \in repoTools[q]
               PROVE  tool \in runner[runners[q]].tools \/ \E u \in Threads : Brings(u, q, tool)'
    BY <1>1 DEF Allowed, Quiet
  <2>1. tool \in Tools
    BY DEF IInv, RunnersInv, Base, RunnersTyped
  <2>2. ASSUME NEW u \in Threads, Brings(u, q, tool) PROVE Brings(u, q, tool)'
    <3>1. CASE u = t
      BY <1>3, <2>1, <2>2, <3>1
    <3>2. CASE u # t
      BY <1>1, <1>3, <2>2, <3>2 DEF Brings, Ref, Session, Away, OthersStay, Quiet
    <3> QED
      BY <3>1, <3>2
  <2> QED
    BY <2>2 DEF IInv, RunnersInv, Allowed
<1>7. Saved'
  <2>1. ASSUME NEW u \in Threads \ {t} PROVE SavedBy(u)'
    BY <1>1, <1>3 DEF IInv, RunnersInv, Saved, SavedBy, Copied, Loaded, At, Ref, Session, Away,
                      OthersStay, Quiet
  <2> QED
    BY <2>1, <1>1, <1>3 DEF IInv, RunnersInv, Saved, RunnerIds, Quiet
<1>8. RunnersInv'
  BY <1>4, <1>5, <1>6, <1>7 DEF RunnersInv
<1> QED
  BY <1>1, <1>3, <1>8, UntouchedInv DEF IInv

LEMMA TellRunnerInv == ASSUME IInv, NEW t \in Threads, TellRunner(t) PROVE IInv'
<1>1. /\ At(t, "AddAllowedTool", "tell") /\ UNCHANGED stateVars /\ stale' = stale /\ Ends(t)
      /\ runner' = [runner EXCEPT ![Ref(t)].tools = @ \cup thread[t].list]
      /\ UNCHANGED <<runners, parent, disk, repoTools, replaced, early, overwritten>>
  BY DEF TellRunner
<1>2. /\ Managing(t) /\ Session(t) \in Sessions /\ Ref(t) \in RunnerIds
      /\ runner[Ref(t)] \in RunnerRecords /\ runner[Ref(t)].session = Session(t)
  BY <1>1, RunnerOfHand DEF At, WithRunner
<1>3. Away(t) /\ thread'[t].op = "none" /\ thread'[t].at = "idle"
  BY <1>1, <1>2, EndsAway
<1>4. PICK i \in RunnerIds : i = Ref(t)
  BY <1>2
<1>5. PICK r : r = [runner[i] EXCEPT !.tools = runner[i].tools \cup thread[t].list]
  OBVIOUS
<1>6. /\ r \in RunnerRecords /\ r.session = runner[i].session /\ (r.stopped <=> runner[i].stopped)
      /\ (r.old <=> runner[i].old) /\ r.messages = runner[i].messages
      /\ (r.heir <=> runner[i].heir) /\ (r.forks <=> runner[i].forks)
      /\ r.began = runner[i].began /\ r.tools = runner[i].tools \cup thread[t].list
      /\ (r.configured <=> runner[i].configured) /\ r.messages >= runner[i].messages
  <2>1. thread[t].list \in SUBSET Tools
    BY DEF IInv, StatesInv, Shape, ThreadsTyped, ThreadRecords
  <2>2. PICK was \in RunnerRecords : was = runner[i]
    BY <1>2, <1>4
  <2>3. PICK list \in SUBSET Tools : list = was.tools \cup thread[t].list
    BY <2>1 DEF RunnerRecords
  <2>4. r = [was EXCEPT !.tools = list]
    BY <2>2, <2>3, <1>5
  <2>5. r \in RunnerRecords
    BY <2>4 DEF RunnerRecords
  <2>6. /\ r.session = was.session /\ r.stopped = was.stopped /\ r.old = was.old
        /\ r.messages = was.messages /\ r.heir = was.heir /\ r.forks = was.forks
        /\ r.began = was.began /\ r.tools = list /\ r.configured = was.configured
    BY <2>4 DEF RunnerRecords
  <2>7. was.messages >= was.messages
    BY DEF RunnerRecords
  <2> QED
    BY <2>2, <2>3, <2>5, <2>6, <2>7
<1>7. runner' = [runner EXCEPT ![i] = r]
  BY <1>1, <1>2, <1>4, <1>5 DEF IInv, RunnersInv, Base, RunnersTyped, RunnerIds
<1>8. /\ RunnerIds' = RunnerIds /\ runner'[i] = r
      /\ \A j \in RunnerIds \ {i} : runner'[j] = runner[j]
  BY <1>6, <1>7, OneRunner DEF IInv, RunnersInv, Base
<1>9. RunnerInHand(t)' /\ SavedBy(t)'
  BY <1>3 DEF RunnerInHand, SavedBy, WithRunner, Loaded, Copied, At, Applying, Managing, ManagerOps
<1>10. Forks'
  <2>1. \A j \in RunnerIds : /\ runner'[j].session = runner[j].session
                             /\ runner'[j].heir => runner[j].heir
                             /\ runner[j].forks => runner'[j].forks
    BY <1>6, <1>8
  <2> QED
    BY <1>1, <1>3, <1>8, <2>1, ForksStay DEF Away, At
<1>11. ForkInheritsHistory'
  <2> SUFFICES ASSUME NEW j \in RunnerIds, runner'[j].heir, runner'[j].began = "fresh"
               PROVE  j \in early
    BY <1>1, <1>8 DEF ForkInheritsHistory
  <2>1. runner[j].heir /\ runner[j].began = "fresh"
    BY <1>6, <1>8
  <2> QED
    BY <2>1 DEF IInv, RunnersInv, ForkInheritsHistory
<1>12. Allowed'
  <2> SUFFICES ASSUME ~overwritten, NEW q \in Sessions, runners[q] # 0,
                      runner'[runners[q]].configured, NEW tool \in repoTools[q],
                      tool \notin runner'[runners[q]].tools
               PROVE  \E u \in Threads : Brings(u, q, tool)'
    BY <1>1 DEF Allowed
  <2>1. /\ runner[runners[q]].configured /\ tool \notin runner[runners[q]].tools
        /\ runners[q] = i => tool \notin thread[t].list
    BY <1>6, <1>8, RunnerOfMap
  <2>2. PICK u \in Threads : Brings(u, q, tool)
    BY <2>1 DEF IInv, RunnersInv, Allowed
  <2>3. u # t
    BY <2>1, <2>2, <1>1, <1>4 DEF Brings, At
  <2>4. Brings(u, q, tool)'
    BY <2>2, <2>3, <1>1, <1>3 DEF Brings, Ref, Session, Away, OthersStay
  <2> QED
    BY <2>4
<1>13. overwritten' \in BOOLEAN
  BY <1>1 DEF IInv, RunnersInv, Base, RunnersTyped
<1>14. RunnersInv'
  BY <1>1, <1>3, <1>6, <1>7, <1>9, <1>10, <1>11, <1>12, <1>13, ChangedInv DEF Away
<1> QED
  BY <1>1, <1>3, <1>14, UntouchedInv DEF IInv

-----------------------------------------------------------------------------
(* Init and Next.                                                          *)

LEMMA InitInv == Init => IInv
<1> SUFFICES ASSUME Init PROVE IInv
  OBVIOUS
<1>1. StatesInv
  BY InitStatesInv DEF Init
<1>2. /\ runners = [s \in Sessions |-> 0] /\ runner = <<>> /\ disk = [s \in Sessions |-> 0]
      /\ repoTools = [s \in Sessions |-> {}] /\ overwritten = FALSE
      /\ \A t \in Threads : thread[t].op = "none" /\ thread[t].at = "idle"
  BY DEF Init, ManagerInit, StatesInit, Idle
<1>3. RunnerIds = {} /\ runner \in Seq(RunnerRecords) /\ Len(runner) = 0
  BY <1>2 DEF RunnerIds
<1>4. RunnersTyped /\ RunnersAreOwn
  <2>1. /\ runners \in [Sessions -> 0..0] /\ disk \in [Sessions -> 0..MaxMessages]
        /\ repoTools \in [Sessions -> SUBSET Tools] /\ 0 <= MaxRunners
    BY <1>2, RunnerBoundsAssumption
  <2> QED
    BY <1>2, <1>3, <2>1 DEF RunnersTyped, RunnersAreOwn
<1>5. \A t \in Threads : RunnerInHand(t) /\ SavedBy(t)
  BY <1>2 DEF RunnerInHand, SavedBy, Managing, ManagerOps, WithRunner, Loaded, Copied, At
<1>6. RunnersInv
  BY <1>2, <1>3, <1>4, <1>5
  DEF RunnersInv, Base, LiveRunnersAreRegistered, Forks, ForkInheritsHistory, Allowed, Saved
<1> QED
  BY <1>1, <1>6 DEF IInv

\* What the steps of SessionStates do to their thread.
LEMMA StateCallThread ==
  ASSUME IInv, NEW t \in Threads, StateCall(t)
  PROVE  OthersStay(t) /\ (thread' = thread \/ (/\ thread'[t].op \notin ManagerOps
                                                /\ thread[t].at = "idle"))
<1>1. PICK op \in StateOps, session \in Sessions : \E arg :
        GetOrCreate(t, op, session, arg) \/ GetIfExists(t, op, session, arg)
  BY DEF StateCall, CallStart, CallSetPending, CallAddToolUse, CallComplete, CallPlain, StateOps
<1>2. /\ thread[t].at = "idle"
      /\ \/ thread' = thread
         \/ \E ref, arg : Begins(t, op, "apply", session, ref, arg, {})
  BY <1>1 DEF GetOrCreate, GetIfExists, Calling
<1>3. CASE thread' = thread
  BY <1>3 DEF OthersStay
<1>4. ASSUME NEW ref, NEW arg, Begins(t, op, "apply", session, ref, arg, {})
      PROVE  OthersStay(t) /\ thread'[t].op = op
  BY <1>4 DEF Begins, OthersStay, IInv, StatesInv, Shape, ThreadsTyped
<1> QED
  BY <1>2, <1>3, <1>4, OpsApart

LEMMA StateStepThread ==
  ASSUME IInv, NEW t \in Threads, StateStep(t)
  PROVE  OthersStay(t) /\ thread'[t].op = "none" /\ thread[t].at = "apply"
<1>1. PICK op \in StateOps : \E s : Applies(t, op, s)
  BY DEF StateStep, StartWaiting, StopWaiting, StartMerge, StopMerge, SetPendingMsg,
         GetPendingMessage, AddToolUse, MarkToolUseComplete, Marks, FlushToolUseRollup, StateOps
<1> QED
  BY <1>1, EndsThread DEF Applies, At, IInv, StatesInv, Shape

LEMMA NextInv == ASSUME IInv, Next PROVE IInv'
<1> SUFFICES ASSUME NEW t \in Threads,
                    \/ Select(t) \/ SaveMessages(t) \/ Others(t)
                    \/ StateCall(t) /\ UNCHANGED managerVars
                    \/ StateStep(t) /\ UNCHANGED managerVars
             PROVE  IInv'
  BY DEF Next
<1>1. CASE Select(t)
  BY <1>1, GetRunnerFastInv, LoadMessagesInv, CreateRunnerInv, SetUpForkInv, ReadToolsInv,
     SetAllowedToolsInv, TakeStateInv, ConverseInv, SaveRunnerMessagesInv, LeaveRunnerInv DEF Select
<1>2. CASE SaveMessages(t)
  BY <1>2, FindRunnerInv, CopyMessagesInv, WriteMessagesInv DEF SaveMessages
<1>3. CASE Others(t)
  BY <1>3, DeleteRunnerInv, DeleteItsStateInv, SetRunnerInv, AllowInConfigInv, FindRunnerToTellInv,
     TellRunnerInv, ShutdownInv DEF Others
<1>4. CASE StateCall(t) /\ UNCHANGED managerVars
  <2>1. StatesInv' /\ RunnersInv
    BY <1>4, StateCallInv DEF IInv
  <2>2. CASE thread' = thread
    BY <1>4, <2>1, <2>2, StillRunners DEF IInv
  <2>3. CASE OthersStay(t) /\ thread'[t].op \notin ManagerOps /\ thread[t].at = "idle"
    BY <1>4, <2>1, <2>3, StatesStayQuiet DEF IInv
  <2> QED
    BY <1>4, <2>2, <2>3, StateCallThread
<1>5. CASE StateStep(t) /\ UNCHANGED managerVars
  <2>1. StatesInv' /\ RunnersInv
    BY <1>5, StateStepInv DEF IInv
  <2>2. OthersStay(t) /\ thread'[t].op \notin ManagerOps /\ thread[t].at = "apply"
    BY <1>5, StateStepThread DEF ManagerOps
  <2> QED
    BY <1>5, <2>1, <2>2, StatesStayQuiet DEF IInv
<1> QED
  BY <1>1, <1>2, <1>3, <1>4, <1>5

LEMMA StutterInv == ASSUME IInv, UNCHANGED vars PROVE IInv'
BY StillInv, StillRunners DEF IInv, vars

\* A step writes no less than the file has, unless what it writes has been outrun.
LEMMA WritesNoLess ==
  ASSUME IInv, Next, NEW s \in Sessions, disk'[s] < disk[s]
  PROVE  \E t \in stale : At(t, "SaveMessages", "write") /\ Session(t) = s
<1>1. disk \in [Sessions -> 0..MaxMessages]
  BY DEF IInv, RunnersInv, Base, RunnersTyped
<1>2. disk' # disk
  <2>1. disk[s] \in Int
    BY <1>1
  <2> QED
    BY <2>1
<1>3. PICK t \in Threads : WriteMessages(t)
  <2>1. PICK t \in Threads : Select(t) \/ SaveMessages(t) \/ Others(t) \/ UNCHANGED managerVars
    BY DEF Next
  <2>2. CASE Select(t)
    BY <1>2, <2>2 DEF Select, GetRunnerFast, LoadMessages, CreateRunner, SetUpFork, SetsFork, ReadTools,
       SetAllowedTools, TakeState, Converse, SaveRunnerMessages, LeaveRunner, managerVars
  <2>3. CASE SaveMessages(t)
    BY <1>2, <2>3 DEF SaveMessages, FindRunner, CopyMessages, managerVars
  <2>4. CASE Others(t)
    BY <1>2, <2>4 DEF Others, DeleteRunner, DeleteItsState, SetRunner, AllowInConfig, FindRunnerToTell,
       TellRunner, Shutdown, managerVars
  <2>5. CASE UNCHANGED managerVars
    BY <1>2, <2>5 DEF managerVars
  <2> QED
    BY <2>1, <2>2, <2>3, <2>4, <2>5
<1>4. Copied(t) /\ disk' = [disk EXCEPT ![Session(t)] = thread[t].arg]
  BY <1>3 DEF WriteMessages, Writes, Copied
<1>5. s = Session(t)
  <2>1. s # Session(t) => disk'[s] = disk[s]
    BY <1>1, <1>4
  <2>2. disk[s] \in Int
    BY <1>1
  <2> QED
    BY <2>1, <2>2
<1>6. thread[t].arg < disk[s] /\ thread[t].arg \in Int /\ disk[s] \in Int
  <2>1. thread[t].arg \in 0..MaxMessages
    BY <1>4 DEF Copied, At, Managing, ManagerOps, IInv, RunnersInv, Base, RunnerInHand
  <2> QED
    BY <2>1, <1>1, <1>4, <1>5
<1>7. t \in stale
  <2>1. t \notin stale => thread[t].arg >= disk[s]
    BY <1>4, <1>5 DEF IInv, RunnersInv, Saved, SavedBy
  <2> QED
    BY <2>1, <1>6
<1> QED
  BY <1>4, <1>5, <1>7 DEF Copied

-----------------------------------------------------------------------------
(* Theorems.                                                               *)

\* The invariant of the states and of the Runners holds always, however many goroutines
\* call SessionManager and SessionStateManager, and in whatever order.
THEOREM Invariance == Spec => []IInv
<1>1. IInv /\ [Next]_vars => IInv'
  BY NextInv, StutterInv
<1> QED
  BY InitInv, <1>1, PTL DEF Spec

\* The maps name the session's own Runner and state, and no state of the map has been
\* deleted.
THEOREM TypeCorrectness == Spec => []TypeOK
<1>1. IInv => TypeOK
  <2> SUFFICES ASSUME IInv PROVE TypeOK
    OBVIOUS
  <2>1. StatesTyped /\ StatesAreOwn /\ RunnersTyped /\ RunnersAreOwn
    BY DEF IInv, StatesInv, Shape, RunnersInv, Base
  <2>2. Len(made) \in Nat /\ Len(runner) \in Nat
    BY <2>1 DEF StatesTyped, RunnersTyped
  <2>3. states \in [Sessions -> 0..MaxStates] /\ runners \in [Sessions -> 0..MaxRunners]
    BY <2>1, <2>2, StateBoundsAssumption, RunnerBoundsAssumption DEF StatesTyped, RunnersTyped
  <2>4. \A s \in Sessions : states[s] # 0 => states[s] \in StateIds
    BY <2>1, <2>2 DEF StatesTyped, StateIds
  <2>5. \A s \in Sessions : runners[s] # 0 => runners[s] \in RunnerIds /\ runner[runners[s]].session = s
    BY RunnerOfMap
  <2> QED
    BY <2>1, <2>3, <2>4, <2>5 DEF TypeOK, StatesTyped, StatesAreOwn, RunnersTyped
<1> QED
  BY Invariance, <1>1, PTL

\* No cancel function of a stream or a merge is lost, but to Delete between lookup and write.
THEOREM CancelsAreKept == Spec => []CancelIsNotLost
<1>1. IInv => CancelIsNotLost
  BY DEF IInv, StatesInv
<1> QED
  BY Invariance, <1>1, PTL

\* The consuming get of a queued message gives it to one caller.
THEOREM MessagesAreTakenOnce == Spec => []MessageIsTakenOnce
<1>1. IInv => MessageIsTakenOnce
  BY DEF IInv, StatesInv, Messages
<1> QED
  BY Invariance, <1>1, PTL

\* A tool use is shown as done after its own result, or after one that found no item.
THEOREM ToolsAreDone == Spec => []ToolsAreDoneByTheirResults
<1>1. IInv => ToolsAreDoneByTheirResults
  BY DoneByResults DEF IInv
<1> QED
  BY Invariance, <1>1, PTL

\* A tool use has one line, in the rollup, in the streaming content or on the screen.
THEOREM ToolsAreShownOnce == Spec => []ToolIsShownOnce
<1>1. IInv => ToolIsShownOnce
  BY ShownOnce DEF IInv
<1> QED
  BY Invariance, <1>1, PTL

\* GetOrCreateRunner, DeleteSession and Shutdown leave no live Runner outside the map.
THEOREM RunnersAreRegistered == Spec => []LiveRunnersAreRegistered
<1>1. IInv => LiveRunnersAreRegistered
  BY DEF IInv, RunnersInv
<1> QED
  BY Invariance, <1>1, PTL

\* A forked session starts with its parent's history unless its Runner is used too early.
THEOREM ForksInherit == Spec => []ForkInheritsHistory
<1>1. IInv => ForkInheritsHistory
  BY DEF IInv, RunnersInv
<1> QED
  BY Invariance, <1>1, PTL

\* With no AddAllowedTool under way, the tools of the config are in the Runner of the map.
THEOREM AllowedToolsArrive == Spec => []AllowedToolsReachRunner
<1>1. IInv => AllowedToolsReachRunner
  BY DEF IInv, RunnersInv, Allowed, Brings, AllowedToolsReachRunner
<1> QED
  BY Invariance, <1>1, PTL

\* SaveMessages shortens a session's file only with a copy that a longer write has outrun.
THEOREM FilesNeverGoBack == Spec => SavedNeverGoesBack
<1>1. IInv /\ [Next]_vars =>
        [\A s \in Sessions : disk'[s] < disk[s] =>
           \E t \in stale : At(t, "SaveMessages", "write") /\ Session(t) = s]_vars
  BY WritesNoLess
<1> QED
  BY Invariance, <1>1, PTL DEF Spec, SavedNeverGoesBack
=============================================================================
