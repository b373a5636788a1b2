---------------------------- MODULE SessionManager ----------------------------
(***************************************************************************)
(* SessionManager (src/manager/session_manager.go): the Runners of the     *)
(* sessions in a map under sm.mu, with the states of SessionStates.  Select*)
(* and the other operations let go of the lock between their steps, to     *)
(* read and write files and to configure a Runner that others can already  *)
(* find.  A Runner is a number, as made; its Stop is one step, under sm.mu.*)
(* The history of a session is a number of messages, in its Runner and in  *)
(* its file.  Tools are those a user has allowed for good.                 *)
(***************************************************************************)
EXTENDS SessionStates

CONSTANTS
  Parents,     \* what may be known of the parent of a session: see ParentInit
  Tools,       \* the tools a user may allow
  MaxRunners,  \* bound: Runners made
  MaxMessages  \* bound: messages of a session

ASSUME ParentsAssumption ==
  Parents \subseteq {"none", "absent", "fresh", "file", "messages", "lost"}
ASSUME RunnerBoundsAssumption == MaxRunners \in Nat /\ MaxMessages \in Nat

VARIABLES
  runners,    \* SessionManager.runners: the Runner of each session, or 0
  runner,     \* the Runners made so far, in and out of the map: a sequence
  parent,     \* each session's parent: see ParentInit
  started,    \* the sessions of the config that are marked as started
  disk,       \* the number of messages in each session's file
  repoTools,  \* the tools that the config allows in the repository of each session
  shut,       \* Shutdown has run: no new calls are made
  \* History.
  replaced,   \* Runners that SetRunner has displaced
  stale,      \* threads whose copy of the messages a later write has outrun
  early,      \* Runners used by another thread while their maker was to set up the fork
  overwritten \* a Runner was configured with a list of tools that is no longer the config's

managerVars == <<runners, runner, parent, started, disk, repoTools, shut,
                 replaced, stale, early, overwritten>>
vars == <<thread, stateVars, managerVars>>

\* "none": no ParentID; "absent": not in the config; "fresh": not started;
\* "file": Claude's file of it can be copied; "messages": only its messages
\* are there to make up a file from; "lost": neither.
ParentInit == parent \in [Sessions -> Parents]
HasHistory(session) == parent[session] \in {"file", "messages"}

ManagerInit ==
  /\ runners = [s \in Sessions |-> 0] /\ runner = <<>>
  /\ ParentInit /\ started = {} /\ disk = [s \in Sessions |-> 0]
  /\ repoTools = [s \in Sessions |-> {}] /\ shut = FALSE
  /\ replaced = {} /\ stale = {} /\ early = {} /\ overwritten = FALSE

Init == StatesInit /\ ManagerInit

RunnerIds == DOMAIN runner
Session(t) == thread[t].session
Ref(t) == thread[t].ref
\* heir: the session has a parent to fork from, and did not say Started; old:
\* the file has had more messages than the Runner; began: how its process did.
NewRunner(session, messages, heir, old) ==
  [session |-> session, stopped |-> FALSE, messages |-> messages, old |-> old,
   heir |-> heir, forks |-> FALSE, began |-> "no", tools |-> {}, configured |-> FALSE]

ManagerCall(t, op) == Calling(t, op) /\ ~shut

-----------------------------------------------------------------------------
(* Select: GetOrCreateRunner, ConfigureRunnerDefaults, then the state.     *)

\* The fast path, under the read lock.  sess is the caller's copy, which may
\* be from before the session was started: arg is 1 if it says Started.
GetRunnerFast(t) ==
  /\ ManagerCall(t, "Select")
  /\ \E session \in Sessions, saysStarted \in {0, 1} :
       /\ saysStarted = 1 => session \in started
       /\ IF runners[session] # 0
          THEN Begins(t, "Select", "readTools", session, runners[session], saysStarted, {})
          ELSE Begins(t, "Select", "load", session, 0, saysStarted, {})
  /\ UNCHANGED <<stateVars, managerVars>>

\* LoadSessionMessages, without a lock; an error leaves no messages.
LoadMessages(t) ==
  /\ At(t, "Select", "load")
  /\ InHand(t, disk[Session(t)], "create")
  /\ stale' = stale \ {t}
  /\ UNCHANGED <<stateVars, runners, runner, parent, started, disk, repoTools, shut,
                 replaced, early, overwritten>>

Publishes(t) ==
  /\ Len(runner) < MaxRunners
  /\ runner' = Append(runner, NewRunner(Session(t), Ref(t),
                                thread[t].arg = 0 /\ HasHistory(Session(t)), t \in stale))
  /\ runners' = [runners EXCEPT ![Session(t)] = Len(runner')]
  /\ InHand(t, Len(runner'), IF thread[t].arg = 0 /\ parent[Session(t)] # "none"
                             THEN "fork" ELSE "readTools")

\* Mutant of CreateRunner: no second look.
CreateRunnerUnchecked(t) ==
  /\ At(t, "Select", "create")
  /\ Publishes(t)
  /\ UNCHANGED <<stateVars, parent, started, disk, repoTools, shut, replaced, stale,
                 early, overwritten>>

\* The slow path, under the write lock, looks again.
CreateRunner(t) ==
  /\ At(t, "Select", "create")
  /\ \/ /\ runners[Session(t)] # 0
        /\ InHand(t, runners[Session(t)], "readTools")
        /\ UNCHANGED <<runner, runners>>
     \/ runners[Session(t)] = 0 /\ Publishes(t)
  /\ UNCHANGED <<stateVars, parent, started, disk, repoTools, shut, replaced, stale,
                 early, overwritten>>

SetsFork(t, forks) ==
  /\ At(t, "Select", "fork")
  /\ runner' = [runner EXCEPT ![Ref(t)].forks = forks]
  /\ Goes(t, "readTools")
  /\ UNCHANGED <<stateVars, runners, parent, started, disk, repoTools, shut, replaced,
                 stale, early, overwritten>>

\* Mutant of SetUpFork: a parent without Claude's file is not forked from.
SetUpForkFromFile(t) == SetsFork(t, parent[Session(t)] = "file")

\* The Runner is already in the map.
SetUpFork(t) == SetsFork(t, HasHistory(Session(t)))

\* ConfigureRunnerDefaults reads the config's tools, and then sets them; the
\* rest of its settings depend on the session alone.
ReadTools(t) ==
  /\ At(t, "Select", "readTools")
  /\ thread' = [thread EXCEPT ![t].at = "setTools", ![t].list = repoTools[Session(t)]]
  /\ UNCHANGED <<stateVars, managerVars>>

SetAllowedTools(t) ==
  /\ At(t, "Select", "setTools")
  /\ runner' = [runner EXCEPT ![Ref(t)].tools = thread[t].list, ![Ref(t)].configured = TRUE]
  /\ overwritten' = (overwritten \/ thread[t].list # repoTools[Session(t)])
  /\ Goes(t, "state")
  /\ UNCHANGED <<stateVars, runners, parent, started, disk, repoTools, shut, replaced, stale, early>>

\* Mutant of TakeState: the content is read and left there.
TakeStateAndKeep(t) ==
  /\ At(t, "Select", "state")
  /\ LET i == states[Session(t)]
     IN shown' = IF i = 0 THEN shown ELSE shown \o made[i].content
  /\ Goes(t, "holding")
  /\ UNCHANGED <<states, made, cancels, queued, tools, results, orphaned, strayed, managerVars>>

TakeState(t) ==
  /\ At(t, "Select", "state")
  /\ TakeContent(Session(t))
  /\ Goes(t, "holding")
  /\ UNCHANGED <<states, cancels, queued, tools, results, orphaned, strayed, managerVars>>

\* What the caller does with the Runner: nothing more, or a conversation, and
\* the first one marks the session as started.
Converse(t) ==
  /\ At(t, "Select", "holding")
  /\ ~runner[Ref(t)].stopped /\ runner[Ref(t)].messages < MaxMessages
  /\ runner' = [runner EXCEPT ![Ref(t)].messages = @ + 1,
                  ![Ref(t)].began = IF @ # "no" THEN @
                                    ELSE IF runner[Ref(t)].forks THEN "fork" ELSE "fresh"]
  /\ early' = IF \E u \in Threads : At(u, "Select", "fork") /\ Ref(u) = Ref(t)
              THEN early \cup {Ref(t)} ELSE early
  /\ started' = started \cup {Session(t)}
  /\ UNCHANGED <<thread, stateVars, runners, parent, disk, repoTools, shut, replaced,
                 stale, overwritten>>

\* SaveRunnerMessages: of the Runner in hand, found or not.
SaveRunnerMessages(t) ==
  /\ At(t, "Select", "holding") /\ "SaveMessages" \in Calls
  /\ thread' = [thread EXCEPT ![t].op = "SaveMessages", ![t].at = "copy"]
  /\ UNCHANGED <<stateVars, managerVars>>

LeaveRunner(t) ==
  /\ At(t, "Select", "holding") /\ Ends(t)
  /\ UNCHANGED <<stateVars, managerVars>>

Select(t) ==
  \/ GetRunnerFast(t) \/ LoadMessages(t) \/ CreateRunner(t)
  \/ SetUpFork(t) \/ ReadTools(t) \/ SetAllowedTools(t) \/ TakeState(t)
  \/ Converse(t) \/ SaveRunnerMessages(t) \/ LeaveRunner(t)

-----------------------------------------------------------------------------
(* SaveMessages: look the Runner up, copy its messages, write the file.    *)

FindRunner(t) ==
  /\ ManagerCall(t, "SaveMessages")
  /\ \E session \in Sessions :
       /\ runners[session] # 0
       /\ Begins(t, "SaveMessages", "copy", session, runners[session], 0, {})
  /\ UNCHANGED <<stateVars, managerVars>>

CopyMessages(t) ==
  /\ At(t, "SaveMessages", "copy")
  /\ thread' = [thread EXCEPT ![t].at = "write", ![t].arg = runner[Ref(t)].messages]
  /\ stale' = IF runner[Ref(t)].old THEN stale \cup {t} ELSE stale \ {t}
  /\ UNCHANGED <<stateVars, runners, runner, parent, started, disk, repoTools, shut,
                 replaced, early, overwritten>>

\* A write of n messages outruns what has been copied or loaded and is shorter.
Outrun(t, n) ==
  {u \in Threads \ {t} : Session(u) = Session(t) /\
     (\/ At(u, "SaveMessages", "write") /\ thread[u].arg < n
      \/ At(u, "Select", "create") /\ Ref(u) < n)}

Writes(t, n) ==
  /\ At(t, "SaveMessages", "write")
  /\ disk' = [disk EXCEPT ![Session(t)] = n]
  /\ stale' = (stale \ {t}) \cup Outrun(t, thread[t].arg)
  /\ runner' = [i \in RunnerIds |-> [runner[i] EXCEPT !.old =
                  @ \/ (runner[i].session = Session(t) /\ runner[i].messages < thread[t].arg)]]
  /\ Ends(t)
  /\ UNCHANGED <<stateVars, runners, parent, started, repoTools, shut, replaced,
                 early, overwritten>>

\* Mutant of WriteMessages: the last message is left out.
WriteAllButOne(t) == Writes(t, IF thread[t].arg > 1 THEN thread[t].arg - 1 ELSE 0)

WriteMessages(t) == Writes(t, thread[t].arg)

SaveMessages(t) ==
  FindRunner(t) \/ CopyMessages(t) \/ WriteMessages(t)

-----------------------------------------------------------------------------
(* DeleteSession, SetRunner, AddAllowedTool and Shutdown.                  *)

DeleteRunner(t) ==
  /\ ManagerCall(t, "DeleteSession")
  /\ \E session \in Sessions :
       /\ runner' = [i \in RunnerIds |->
            IF i = runners[session] THEN [runner[i] EXCEPT !.stopped = TRUE] ELSE runner[i]]
       /\ runners' = [runners EXCEPT ![session] = 0]
       /\ Begins(t, "DeleteSession", "deleteState", session, 0, 0, {})
  /\ UNCHANGED <<stateVars, parent, started, disk, repoTools, shut, replaced, stale, early, overwritten>>

DeleteItsState(t) ==
  /\ At(t, "DeleteSession", "deleteState")
  /\ DeleteState(Session(t))
  /\ Ends(t)
  /\ UNCHANGED <<queued, tools, results, shown, strayed, managerVars>>

\* A Runner of the caller's own takes the place of the session's.
SetRunner(t) ==
  /\ ManagerCall(t, "SetRunner") /\ Len(runner) < MaxRunners
  /\ \E session \in Sessions :
       /\ runner' = Append(runner, NewRunner(session, disk[session], FALSE, FALSE))
       /\ runners' = [runners EXCEPT ![session] = Len(runner')]
       /\ replaced' = replaced \cup ({runners[session]} \ {0})
  /\ UNCHANGED <<thread, stateVars, parent, started, disk, repoTools, shut, stale, early, overwritten>>

\* The config first, with its Save, and then the Runner, if there is one.
AllowInConfig(t) ==
  /\ \E session \in Sessions, tool \in Tools :
       /\ ManagerCall(t, "AddAllowedTool")
       /\ Begins(t, "AddAllowedTool", "find", session, 0, 0, {tool})
       /\ repoTools' = [repoTools EXCEPT ![session] = @ \cup {tool}]
  /\ UNCHANGED <<stateVars, runners, runner, parent, started, disk, shut, replaced, stale,
                 early, overwritten>>

FindRunnerToTell(t) ==
  /\ At(t, "AddAllowedTool", "find")
  /\ IF runners[Session(t)] = 0 THEN Ends(t) ELSE InHand(t, runners[Session(t)], "tell")
  /\ UNCHANGED <<stateVars, managerVars>>

\* Mutant of TellRunner: the config alone knows.
TellNobody(t) ==
  /\ At(t, "AddAllowedTool", "tell") /\ Ends(t)
  /\ UNCHANGED <<stateVars, managerVars>>

TellRunner(t) ==
  /\ At(t, "AddAllowedTool", "tell")
  /\ runner' = [runner EXCEPT ![Ref(t)].tools = @ \cup thread[t].list]
  /\ Ends(t)
  /\ UNCHANGED <<stateVars, runners, parent, started, disk, repoTools, shut, replaced, stale, early, overwritten>>

\* Every Runner of the map is stopped under the lock, and the map is new.
Shutdown(t) ==
  /\ ManagerCall(t, "Shutdown")
  /\ runner' = [i \in RunnerIds |->
                  IF \E s \in Sessions : runners[s] = i
                  THEN [runner[i] EXCEPT !.stopped = TRUE] ELSE runner[i]]
  /\ runners' = [s \in Sessions |-> 0]
  /\ shut' = TRUE
  /\ UNCHANGED <<thread, stateVars, parent, started, disk, repoTools, replaced, stale, early, overwritten>>

Others(t) ==
  \/ DeleteRunner(t) \/ DeleteItsState(t) \/ SetRunner(t)
  \/ AllowInConfig(t) \/ FindRunnerToTell(t) \/ TellRunner(t) \/ Shutdown(t)

Next ==
  \E t \in Threads :
    \/ Select(t) \/ SaveMessages(t) \/ Others(t)
    \/ ~shut /\ StateCall(t) /\ UNCHANGED managerVars
    \/ StateStep(t) /\ UNCHANGED managerVars

Spec == Init /\ [][Next]_vars

-----------------------------------------------------------------------------
(* Properties. *)

TypeOK ==
  /\ states \in [Sessions -> 0..MaxStates] /\ Len(made) <= MaxStates
  /\ runners \in [Sessions -> 0..MaxRunners] /\ Len(runner) <= MaxRunners
  /\ \A s \in Sessions : runners[s] # 0 => runners[s] \in RunnerIds /\ runner[runners[s]].session = s
  /\ \A s \in Sessions : states[s] # 0 => states[s] \in StateIds
  /\ \A s \in Sessions : states[s] \notin orphaned
  /\ disk \in [Sessions -> 0..MaxMessages]
  /\ repoTools \in [Sessions -> SUBSET Tools]

\* A Runner that has not been stopped is the one in the map, where
\* DeleteSession and Shutdown find it, unless SetRunner has displaced it: so
\* two threads that select a session at once never start a second Runner
\* (the double-checked GetOrCreateRunner), also against DeleteSession.
LiveRunnersAreRegistered ==
  \A i \in RunnerIds :
    runner[i].stopped \/ runners[runner[i].session] = i \/ i \in replaced

\* What is claimed of Shutdown: "all Claude CLI processes are terminated".
NoRunnerAfterShutdown == shut => \A i \in RunnerIds : runner[i].stopped

\* The Runner of a fork begins with the history of its parent if there is one,
\* unless another thread has used it between its publication in the map and
\* the step that sets up the fork.
ForkInheritsHistory ==
  \A i \in RunnerIds : runner[i].heir /\ runner[i].began = "fresh" => i \in early

\* The file of a session never loses messages, except to a writer whose copy
\* is from before a longer write, or comes of a load from before one: two
\* saves that overlap, or a Runner created while its load was overtaken.
SavedNeverGoesBack ==
  [][\A s \in Sessions : disk'[s] < disk[s] =>
       \E t \in stale : At(t, "SaveMessages", "write") /\ Session(t) = s]_vars

\* When no call is under way, every tool allowed in the config has reached the
\* configured Runner, unless ConfigureRunnerDefaults has overwritten its list
\* with one read before the tool was allowed.
AllowedToolsReachRunner ==
  (\A t \in Threads : thread[t].at \in {"idle", "holding"}) =>
    \A s \in Sessions :
      runners[s] # 0 /\ runner[runners[s]].configured =>
        repoTools[s] \subseteq runner[runners[s]].tools \/ overwritten
=============================================================================
