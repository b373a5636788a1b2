---------------------------- MODULE SessionStates ----------------------------
(***************************************************************************)
(* SessionStateManager and SessionState (src/manager/session_state.go):    *)
(* what the application keeps of each session beside its Runner.  A map of *)
(* states under the lock m.mu, and in each state fields under its own      *)
(* lock.  Every operation of the manager is two critical sections: it      *)
(* looks the state up under the first lock, lets go of it, and works on    *)
(* the state under the second.  Delete holds both.  A thread is a goroutine*)
(* of the application; between its two steps any other thread may run.     *)
(*                                                                         *)
(* States, cancel functions, queued messages and tool uses are numbered as *)
(* they come; 0 is none.  A line of streaming content is the tool use it   *)
(* shows, with whether it shows it complete.                               *)
(***************************************************************************)
EXTENDS Naturals, Sequences

CONSTANTS
  Threads,    \* the goroutines that call the manager
  Sessions,
  Calls,      \* the operations that the threads of this instance call
  MaxStates,  \* bound: states made
  MaxCancels, \* bound: cancel functions given
  MaxQueued,  \* bound: messages queued
  MaxToolUses \* bound: tool uses

ASSUME StateBoundsAssumption ==
  MaxStates \in Nat /\ MaxCancels \in Nat /\ MaxQueued \in Nat /\ MaxToolUses \in Nat

VARIABLES
  thread,    \* each thread: [op, at, session, ref, arg, list]; idle when at = "idle"
  states,    \* SessionStateManager.states: the state of each session, or 0
  made,      \* the states made so far, in and out of the map: a sequence
  cancels,   \* what became of each cancel function: "given", "called", "released"
  queued,    \* how often each queued message has been taken
  tools,     \* tool uses so far
  results,   \* the tool uses whose result has come
  shown,     \* the lines that Select has taken for the screen
  \* History.
  orphaned,  \* states that a thread had in its hand when Delete removed them
  strayed    \* a result has come for a tool use that is not in the rollup

stateVars == <<states, made, cancels, queued, tools, results, shown,
               orphaned, strayed>>

Idle == [op |-> "none", at |-> "idle", session |-> "none", ref |-> 0, arg |-> 0,
         list |-> {}]
NoState == [stream |-> 0, waiting |-> FALSE, merge |-> 0, pending |-> 0,
            rollup |-> <<>>, content |-> <<>>]
StateIds == DOMAIN made

StatesInit ==
  /\ thread = [t \in Threads |-> Idle]
  /\ states = [s \in Sessions |-> 0] /\ made = <<>>
  /\ cancels = <<>> /\ queued = <<>>
  /\ tools = 0 /\ results = {} /\ shown = <<>>
  /\ orphaned = {} /\ strayed = FALSE

Goes(t, at) == thread' = [thread EXCEPT ![t].at = at]
InHand(t, ref, at) == thread' = [thread EXCEPT ![t].ref = ref, ![t].at = at]
Ends(t) == thread' = [thread EXCEPT ![t] = Idle]
At(t, op, at) == thread[t].op = op /\ thread[t].at = at

\* An idle thread calls an operation of this instance.
Calling(t, op) == thread[t].at = "idle" /\ op \in Calls
Begins(t, op, at, session, ref, arg, list) ==
  thread' = [thread EXCEPT ![t] = [op |-> op, at |-> at, session |-> session,
                                   ref |-> ref, arg |-> arg, list |-> list]]

-----------------------------------------------------------------------------
(* The first critical section: the state is looked up.  The call brings a  *)
(* context's cancel function, a message, a tool use or a result with it.   *)

GetOrCreate(t, op, session, arg) ==
  /\ Calling(t, op)
  /\ LET i == states[session]
     IN IF i # 0
        THEN Begins(t, op, "apply", session, i, arg, {}) /\ UNCHANGED <<states, made>>
        ELSE /\ Len(made) < MaxStates
             /\ made' = Append(made, NoState)
             /\ states' = [states EXCEPT ![session] = Len(made')]
             /\ Begins(t, op, "apply", session, Len(made'), arg, {})

GetIfExists(t, op, session, arg) ==
  /\ Calling(t, op)
  /\ IF states[session] # 0
     THEN Begins(t, op, "apply", session, states[session], arg, {})
     ELSE UNCHANGED thread
  /\ UNCHANGED <<states, made>>

CallStart(t, session) ==
  /\ Len(cancels) < MaxCancels
  /\ cancels' = Append(cancels, "given")
  /\ \E op \in {"StartWaiting", "StartMerge"} : GetOrCreate(t, op, session, Len(cancels'))
  /\ UNCHANGED <<queued, tools, results>>

CallSetPending(t, session) ==
  /\ Len(queued) < MaxQueued
  /\ queued' = Append(queued, 0)
  /\ GetOrCreate(t, "SetPendingMsg", session, Len(queued'))
  /\ UNCHANGED <<cancels, tools, results>>

CallAddToolUse(t, session) ==
  /\ tools < MaxToolUses
  /\ tools' = tools + 1
  /\ GetOrCreate(t, "AddToolUse", session, tools')
  /\ UNCHANGED <<cancels, queued, results>>

CallComplete(t, session) ==
  \E tool \in 1..tools \ results :
    /\ results' = results \cup {tool}
    /\ GetIfExists(t, "MarkToolUseComplete", session, tool)
    /\ UNCHANGED <<cancels, queued, tools>>

CallPlain(t, session) ==
  /\ \E op \in {"StopWaiting", "StopMerge", "GetPendingMessage", "FlushToolUseRollup"} :
       GetIfExists(t, op, session, 0)
  /\ UNCHANGED <<cancels, queued, tools, results>>

StateCall(t) ==
  /\ \E session \in Sessions :
       \/ CallStart(t, session) \/ CallSetPending(t, session)
       \/ CallAddToolUse(t, session) \/ CallComplete(t, session)
       \/ CallPlain(t, session)
  /\ UNCHANGED <<shown, orphaned, strayed>>

-----------------------------------------------------------------------------
(* The second critical section: s is the state in the thread's hand.       *)

Applies(t, op, s) ==
  /\ At(t, op, "apply")
  /\ made' = [made EXCEPT ![thread[t].ref] = s]
  /\ Ends(t)
InHandState(t) == made[thread[t].ref]

\* A cancel function that is overwritten or cleared is let go, not called.
Releases(cancel) ==
  cancels' = [c \in DOMAIN cancels |->
                IF c = cancel /\ cancels[c] = "given" THEN "released" ELSE cancels[c]]

StartWaiting(t) ==
  /\ Applies(t, "StartWaiting",
             [InHandState(t) EXCEPT !.stream = thread[t].arg, !.waiting = TRUE])
  /\ Releases(InHandState(t).stream)
  /\ UNCHANGED <<states, queued, tools, results, shown, orphaned, strayed>>

StopWaiting(t) ==
  /\ Applies(t, "StopWaiting", [InHandState(t) EXCEPT !.stream = 0, !.waiting = FALSE])
  /\ Releases(InHandState(t).stream)
  /\ UNCHANGED <<states, queued, tools, results, shown, orphaned, strayed>>

StartMerge(t) ==
  /\ Applies(t, "StartMerge", [InHandState(t) EXCEPT !.merge = thread[t].arg])
  /\ Releases(InHandState(t).merge)
  /\ UNCHANGED <<states, queued, tools, results, shown, orphaned, strayed>>

StopMerge(t) ==
  /\ Applies(t, "StopMerge", [InHandState(t) EXCEPT !.merge = 0])
  /\ Releases(InHandState(t).merge)
  /\ UNCHANGED <<states, queued, tools, results, shown, orphaned, strayed>>

SetPendingMsg(t) ==
  /\ Applies(t, "SetPendingMsg", [InHandState(t) EXCEPT !.pending = thread[t].arg])
  /\ UNCHANGED <<states, cancels, queued, tools, results, shown, orphaned, strayed>>

\* Mutant of GetPendingMessage: a plain get.
GetPendingMessageAndKeep(t) ==
  /\ At(t, "GetPendingMessage", "apply") /\ Ends(t)
  /\ queued' = [q \in DOMAIN queued |->
                  IF q = InHandState(t).pending THEN queued[q] + 1 ELSE queued[q]]
  /\ UNCHANGED <<states, made, cancels, tools, results, shown, orphaned, strayed>>

\* A consuming get; GetInitialMessage is the same of another field.
GetPendingMessage(t) ==
  /\ Applies(t, "GetPendingMessage", [InHandState(t) EXCEPT !.pending = 0])
  /\ queued' = [q \in DOMAIN queued |->
                  IF q = InHandState(t).pending THEN queued[q] + 1 ELSE queued[q]]
  /\ UNCHANGED <<states, cancels, tools, results, shown, orphaned, strayed>>

Item(tool) == [tool |-> tool, complete |-> FALSE]

AddToolUse(t) ==
  /\ Applies(t, "AddToolUse", [InHandState(t) EXCEPT !.rollup = Append(@, Item(thread[t].arg))])
  /\ UNCHANGED <<states, cancels, queued, tools, results, shown, orphaned, strayed>>

\* The item of this tool use, or for want of it the first that is incomplete.
Completes(rollup, tool) ==
  LET own  == {i \in DOMAIN rollup : rollup[i].tool = tool}
      open == {i \in DOMAIN rollup : ~rollup[i].complete}
  IN IF own # {} THEN {CHOOSE i \in own : \A j \in own : i <= j}
     ELSE IF open # {} THEN {CHOOSE i \in open : \A j \in open : i <= j} ELSE {}

Marks(t, tool) ==
  LET rollup == InHandState(t).rollup
      hits   == Completes(rollup, tool)
  IN /\ Applies(t, "MarkToolUseComplete",
                [InHandState(t) EXCEPT !.rollup = [i \in DOMAIN rollup |->
                   [rollup[i] EXCEPT !.complete = @ \/ i \in hits]]])
     /\ strayed' = (strayed \/ \A i \in DOMAIN rollup : rollup[i].tool # thread[t].arg)
     /\ UNCHANGED <<states, cancels, queued, tools, results, shown, orphaned>>

\* Mutant of MarkToolUseComplete: the first incomplete item, whatever the ID.
MarkFirstComplete(t) == Marks(t, 0)

MarkToolUseComplete(t) == Marks(t, thread[t].arg)

FlushToolUseRollup(t) ==
  /\ Applies(t, "FlushToolUseRollup",
             [InHandState(t) EXCEPT !.content = @ \o InHandState(t).rollup, !.rollup = <<>>])
  /\ UNCHANGED <<states, cancels, queued, tools, results, shown, orphaned, strayed>>

-----------------------------------------------------------------------------
(* Delete, and the part of Select that takes the streaming content: one    *)
(* critical section each.  Their callers are in SessionManager.            *)

\* What is left is cleared, IsWaiting apart; whoever has the state in hand
\* still writes to it.
Cancels(i, done) ==
  /\ cancels' = [c \in DOMAIN cancels |-> IF c \in done THEN "called" ELSE cancels[c]]
  /\ made' = [made EXCEPT ![i] = [NoState EXCEPT !.waiting = made[i].waiting]]
  /\ orphaned' = IF \E t \in Threads : thread[t].at = "apply" /\ thread[t].ref = i
                 THEN orphaned \cup {i} ELSE orphaned

\* Mutant of DeleteState: the merge goes on.
DeleteStateOnly(session) ==
  LET i == states[session]
  IN /\ states' = [states EXCEPT ![session] = 0]
     /\ IF i = 0 THEN UNCHANGED <<made, cancels, orphaned>> ELSE Cancels(i, {made[i].stream})

\* Mutant of DeleteState: the state stays in the map.
DeleteStateButKeepIt(session) ==
  LET i == states[session]
  IN /\ IF i = 0 THEN UNCHANGED <<made, cancels, orphaned>>
        ELSE Cancels(i, {made[i].stream, made[i].merge})
     /\ UNCHANGED states

DeleteState(session) ==
  LET i == states[session]
  IN /\ states' = [states EXCEPT ![session] = 0]
     /\ IF i = 0 THEN UNCHANGED <<made, cancels, orphaned>>
        ELSE Cancels(i, {made[i].stream, made[i].merge})

TakeContent(session) ==
  LET i == states[session]
  IN IF i = 0 THEN UNCHANGED <<made, shown>>
     ELSE /\ shown' = shown \o made[i].content
          /\ made' = [made EXCEPT ![i].content = <<>>]

StateStep(t) ==
  \/ StartWaiting(t) \/ StopWaiting(t) \/ StartMerge(t) \/ StopMerge(t)
  \/ SetPendingMsg(t) \/ GetPendingMessage(t)
  \/ AddToolUse(t) \/ MarkToolUseComplete(t) \/ FlushToolUseRollup(t)

-----------------------------------------------------------------------------
(* Properties. *)

Held(cancel) ==
  \/ \E s \in Sessions : states[s] # 0 /\ cancel \in {made[states[s]].stream, made[states[s]].merge}
  \/ \E t \in Threads : thread[t].op \in {"StartWaiting", "StartMerge"} /\ thread[t].arg = cancel

\* Every cancel function can still be reached by the session it was given
\* for, or was called by Delete, or was let go by a Stop or a later Start: the
\* only way to lose one is to be caught by Delete between the lookup of the
\* state and the write to it (StartWaiting and StartMerge against Delete).
CancelIsNotLost ==
  \A c \in DOMAIN cancels : cancels[c] = "given" =>
    Held(c) \/ \E i \in orphaned : c \in {made[i].stream, made[i].merge}

\* A queued message is handed out at most once, however many threads ask for
\* it (the consuming gets GetPendingMessage and GetInitialMessage).
MessageIsTakenOnce == \A q \in DOMAIN queued : queued[q] <= 1

\* Where a line of a tool use can be: on the screen (place 0) or in a state.
Places == {0} \cup StateIds
LinesAt(place) == IF place = 0 THEN shown ELSE made[place].rollup \o made[place].content

\* A tool use is shown complete only when its own result has come, whatever
\* the order of results and flushes, unless a result has come for a tool use
\* that is no longer in the rollup (the fallback of MarkToolUseComplete).
ToolsAreDoneByTheirResults ==
  strayed \/ \A p \in Places : \A n \in DOMAIN LinesAt(p) :
               LinesAt(p)[n].complete => LinesAt(p)[n].tool \in results

\* A tool use is shown once: the rollup, the streaming content and what Select
\* has taken for the screen never hold it twice (Flush and Select each move
\* lines under the lock of the state).
ToolIsShownOnce ==
  \A p, q \in Places : \A n \in DOMAIN LinesAt(p), m \in DOMAIN LinesAt(q) :
    LinesAt(p)[n].tool = LinesAt(q)[m].tool => p = q /\ n = m
=============================================================================
