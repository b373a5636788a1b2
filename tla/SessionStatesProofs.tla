------------------------- MODULE SessionStatesProofs -------------------------
(***************************************************************************)
(* The states of sessions, for any number of goroutines, sessions, states, *)
(* cancel functions, messages and tool uses: the inductive invariant of    *)
(* SessionStates under the steps of SessionManager, and the theorems that  *)
(* follow from it.                                                         *)
(***************************************************************************)
EXTENDS SessionManager, SequenceTheorems, WellFoundedInduction, TLAPS

StateOps == {"StartWaiting", "StopWaiting", "StartMerge", "StopMerge", "SetPendingMsg",
             "GetPendingMessage", "AddToolUse", "MarkToolUseComplete", "FlushToolUseRollup"}
Starts == {"StartWaiting", "StartMerge"}
Applying(t) == thread[t].at = "apply"

\* Threads, and where they can be.
Ops == StateOps \cup {"none", "Select", "SaveMessages", "DeleteSession", "AddAllowedTool"}
Labels == {"idle", "apply", "load", "create", "fork", "readTools", "setTools", "state",
           "holding", "copy", "write", "deleteState", "find", "tell"}
ThreadRecords ==
  [op : Ops, at : Labels, session : Sessions \cup {"none"}, ref : Nat, arg : Nat,
   list : SUBSET Tools]
ThreadsTyped == thread \in [Threads -> ThreadRecords]
OthersStay(t) == \A u \in Threads \ {t} : thread'[u] = thread[u]

Line == [tool : Nat, complete : BOOLEAN]
StateRecords ==
  [stream : Nat, waiting : BOOLEAN, merge : Nat, pending : Nat,
   rollup : Seq(Line), content : Seq(Line)]

StatesTyped ==
  /\ made \in Seq(StateRecords) /\ Len(made) <= MaxStates
  /\ states \in [Sessions -> 0..Len(made)]
  /\ cancels \in Seq({"given", "called", "released"})
  /\ queued \in Seq(Nat)
  /\ tools \in Nat /\ results \in SUBSET (1..tools)
  /\ shown \in Seq(Line)
  /\ orphaned \subseteq StateIds /\ strayed \in BOOLEAN

\* A state belongs to one session, until Delete takes it out of the map; a thread
\* at its second critical section has one that is in the map or was orphaned.
InMap(i) == \E s \in Sessions : states[s] = i
StateInHand(t) ==
  IF Applying(t)
  THEN thread[t].op \in StateOps /\ thread[t].ref \in StateIds
       /\ (InMap(thread[t].ref) \/ thread[t].ref \in orphaned)
  ELSE thread[t].op \notin StateOps
StatesAreOwn ==
  /\ \A s \in Sessions : states[s] \notin orphaned
  /\ \A r, s \in Sessions : states[r] = states[s] => r = s \/ states[s] = 0

Shape ==
  ThreadsTyped /\ StatesTyped /\ StatesAreOwn /\ \A t \in Threads : StateInHand(t)

\* What the first critical section does, and the second, which writes s.
Found(t, op, arg) ==
  /\ OthersStay(t) /\ StateIds \subseteq StateIds'
  /\ \A i \in StateIds : made'[i] = made[i]
  /\ \A i \in StateIds' \ StateIds : made'[i] = NoState
  /\ \A s \in Sessions : states[s] # 0 => states'[s] = states[s]
  /\ \/ thread' = thread
     \/ ~Applying(t) /\ Applying(t)' /\ thread'[t].op = op /\ thread'[t].arg = arg
Applied(t, op, s) ==
  /\ OthersStay(t) /\ StateIds' = StateIds /\ thread[t].ref \in StateIds
  /\ made'[thread[t].ref] = s /\ \A i \in StateIds \ {thread[t].ref} : made'[i] = made[i]
  /\ Applying(t) /\ thread[t].op = op /\ ~Applying(t)' /\ thread'[t].op = "none"

-----------------------------------------------------------------------------
(* What the steps of a thread do to it.                                    *)

LEMMA BeginsThread ==
  ASSUME ThreadsTyped, NEW t \in Threads, NEW op \in Ops, NEW at \in Labels,
         NEW session \in Sessions, NEW ref \in Nat, NEW arg \in Nat, NEW list \in SUBSET Tools,
         Begins(t, op, at, session, ref, arg, list)
  PROVE  /\ ThreadsTyped' /\ OthersStay(t)
         /\ thread'[t].op = op /\ thread'[t].at = at /\ thread'[t].session = session
         /\ thread'[t].ref = ref /\ thread'[t].arg = arg /\ thread'[t].list = list
BY DEF Begins, ThreadsTyped, ThreadRecords, OthersStay

LEMMA EndsThread ==
  ASSUME ThreadsTyped, NEW t \in Threads, Ends(t)
  PROVE  ThreadsTyped' /\ OthersStay(t) /\ thread'[t].op = "none" /\ thread'[t].at = "idle"
<1>1. Idle \in ThreadRecords /\ Idle.op = "none" /\ Idle.at = "idle"
  BY DEF Idle, ThreadRecords, Ops, Labels
<1> QED
  BY <1>1 DEF Ends, ThreadsTyped, OthersStay

LEMMA GoesThread ==
  ASSUME ThreadsTyped, NEW t \in Threads, NEW at \in Labels, Goes(t, at)
  PROVE  /\ ThreadsTyped' /\ OthersStay(t) /\ thread'[t].op = thread[t].op /\ thread'[t].at = at
         /\ thread'[t].session = thread[t].session /\ thread'[t].ref = thread[t].ref
         /\ thread'[t].arg = thread[t].arg /\ thread'[t].list = thread[t].list
<1>1. thread'[t] = [thread[t] EXCEPT !.at = at] /\ thread[t] \in ThreadRecords
  BY DEF Goes, ThreadsTyped
<1>2. thread'[t] \in ThreadRecords
  BY <1>1 DEF ThreadRecords
<1> QED
  BY <1>1, <1>2 DEF Goes, ThreadsTyped, ThreadRecords, OthersStay

LEMMA InHandThread ==
  ASSUME ThreadsTyped, NEW t \in Threads, NEW ref \in Nat, NEW at \in Labels, InHand(t, ref, at)
  PROVE  /\ ThreadsTyped' /\ OthersStay(t) /\ thread'[t].op = thread[t].op /\ thread'[t].at = at
         /\ thread'[t].session = thread[t].session /\ thread'[t].ref = ref
         /\ thread'[t].arg = thread[t].arg /\ thread'[t].list = thread[t].list
<1>1. /\ thread[t] \in ThreadRecords
      /\ thread' = [thread EXCEPT ![t] = [thread[t] EXCEPT !.ref = ref, !.at = at]]
  BY DEF InHand, ThreadsTyped
<1>2. [thread[t] EXCEPT !.ref = ref, !.at = at] \in ThreadRecords
  BY <1>1 DEF ThreadRecords
<1> QED
  BY <1>1, <1>2 DEF ThreadsTyped, ThreadRecords, OthersStay

-----------------------------------------------------------------------------
(* Shape.                                                                  *)

\* The first critical section: the thread begins, with a state that is in the map.
LEMMA FoundShape ==
  ASSUME Shape, NEW t \in Threads, NEW op \in StateOps, NEW session \in Sessions,
         NEW arg \in Nat,
         GetOrCreate(t, op, session, arg) \/ GetIfExists(t, op, session, arg),
         cancels' \in Seq({"given", "called", "released"}), queued' \in Seq(Nat),
         tools' \in Nat, results' \in SUBSET (1..tools'), UNCHANGED <<shown, orphaned, strayed>>
  PROVE  Shape' /\ Found(t, op, arg)
<1> USE DEF Shape, StatesTyped
<1>0. op \in Ops /\ ~Applying(t) /\ {} \in SUBSET Tools /\ "apply" \in Labels
  BY DEF Ops, Labels, GetOrCreate, GetIfExists, Calling, Applying
<1>1. CASE GetOrCreate(t, op, session, arg) /\ states[session] = 0
  <2>1. NoState \in StateRecords
    BY DEF NoState, StateRecords, Line
  <2>2. /\ made' = Append(made, NoState) /\ Len(made') = Len(made) + 1 /\ Len(made') \in Nat
        /\ states' = [states EXCEPT ![session] = Len(made')] /\ Len(made) < MaxStates
        /\ Begins(t, op, "apply", session, Len(made'), arg, {})
    BY <1>1 DEF GetOrCreate
  <2>3. /\ made' \in Seq(StateRecords) /\ Len(made') \in StateIds'
        /\ StateIds' = StateIds \cup {Len(made')}
        /\ \A i \in StateIds : made'[i] = made[i] /\ i # Len(made')
        /\ made'[Len(made')] = NoState
    BY <2>1, <2>2 DEF StateIds
  <2>4. /\ ThreadsTyped' /\ OthersStay(t)
        /\ thread'[t].op = op /\ thread'[t].at = "apply" /\ thread'[t].arg = arg
        /\ thread'[t].ref = Len(made')
    <3>1. Len(made') \in Nat /\ ThreadsTyped /\ Begins(t, op, "apply", session, Len(made'), arg, {})
      BY <2>2
    <3> HIDE DEF Shape, StatesTyped
    <3> QED
      BY <3>1, <1>0, BeginsThread
  <2>5. StatesTyped' /\ StatesAreOwn'
    BY <2>2, <2>3, StateBoundsAssumption DEF StatesAreOwn
  <2>6. ASSUME NEW u \in Threads PROVE StateInHand(u)'
    <3>1. CASE u = t
      BY <3>1, <2>2, <2>3, <2>4 DEF StateInHand, InMap, Applying
    <3>2. CASE u # t
      <4>1. thread'[u] = thread[u] /\ StateInHand(u)
        BY <3>2, <2>4 DEF OthersStay
      <4>2. CASE Applying(u) /\ InMap(thread[u].ref)
        <5>1. PICK s \in Sessions : states[s] = thread[u].ref
          BY <4>2 DEF InMap
        <5>2. s # session
          <6>1. thread[u].ref \in StateIds
            BY <4>1, <4>2 DEF StateInHand
          <6>2. thread[u].ref # 0
            BY <6>1 DEF StateIds
          <6> QED
            BY <6>2, <5>1, <1>1
        <5> QED
          BY <5>1, <5>2, <4>1, <4>2, <2>2, <2>3 DEF StateInHand, InMap, Applying
      <4>3. CASE ~Applying(u) \/ ~InMap(thread[u].ref)
        BY <4>1, <4>3, <2>3 DEF StateInHand, InMap, Applying
      <4> QED
        BY <4>2, <4>3
    <3> QED
      BY <3>1, <3>2
  <2> QED
    BY <2>2, <2>3, <2>4, <2>5, <2>6, <1>0, <1>1 DEF Found, Applying
<1>2. CASE UNCHANGED <<states, made>> /\ states[session] # 0
           /\ Begins(t, op, "apply", session, states[session], arg, {})
  <2>1. states[session] \in Nat /\ states[session] \in StateIds
    BY <1>2 DEF StateIds
  <2>2. /\ ThreadsTyped' /\ OthersStay(t)
        /\ thread'[t].op = op /\ thread'[t].at = "apply" /\ thread'[t].arg = arg
        /\ thread'[t].ref = states[session]
    <3>1. ThreadsTyped /\ Begins(t, op, "apply", session, states[session], arg, {})
      BY <1>2
    <3> HIDE DEF Shape, StatesTyped
    <3> QED
      BY <3>1, <2>1, <1>0, BeginsThread
  <2>3. StatesTyped' /\ StatesAreOwn' /\ StateIds' = StateIds
    BY <1>2 DEF StatesAreOwn, StateIds
  <2>4. ASSUME NEW u \in Threads PROVE StateInHand(u)'
    BY <2>1, <2>2, <2>3, <1>2 DEF StateInHand, InMap, Applying, OthersStay
  <2> QED
    BY <2>2, <2>3, <2>4, <1>2, <1>0 DEF Found, Applying
<1>3. CASE UNCHANGED <<thread, states, made>>
  BY <1>3 DEF Found, StatesAreOwn, StateIds, StateInHand, InMap, Applying, ThreadsTyped, OthersStay
<1> QED
  BY <1>1, <1>2, <1>3 DEF GetOrCreate, GetIfExists

\* The second: the state in hand is written, and the thread ends.
LEMMA AppliedShape ==
  ASSUME Shape, NEW t \in Threads, NEW op \in StateOps, NEW s, Applies(t, op, s),
         s \in StateRecords, UNCHANGED <<states, orphaned>>,
         cancels' \in Seq({"given", "called", "released"}), queued' \in Seq(Nat),
         tools' \in Nat, results' \in SUBSET (1..tools'), shown' \in Seq(Line),
         strayed' \in BOOLEAN
  PROVE  Shape' /\ Applied(t, op, s)
<1> USE DEF Shape, StatesTyped
<1>1. Applying(t) /\ thread[t].op = op /\ thread[t].ref \in StateIds
  BY DEF Applies, At, Applying, StateInHand
<1>2. /\ made' \in Seq(StateRecords) /\ Len(made') = Len(made) /\ StateIds' = StateIds
      /\ made'[thread[t].ref] = s /\ \A i \in StateIds \ {thread[t].ref} : made'[i] = made[i]
  BY <1>1 DEF Applies, StateIds
<1>3. ThreadsTyped' /\ OthersStay(t) /\ thread'[t].op = "none" /\ thread'[t].at = "idle"
  BY EndsThread DEF Applies
<1>4. ASSUME NEW u \in Threads PROVE StateInHand(u)'
  BY <1>2, <1>3 DEF StateInHand, InMap, Applying, OthersStay, StateOps
<1>5. StatesTyped' /\ StatesAreOwn'
  BY <1>2 DEF StatesAreOwn
<1> QED
  BY <1>1, <1>2, <1>3, <1>4, <1>5 DEF Applied, Applying

\* The other operations of SessionManager, the deletion of a state apart.
LEMMA ElsewhereShape ==
  ASSUME Shape, NEW t \in Threads, ThreadsTyped', OthersStay(t), ~Applying(t), ~Applying(t)',
         thread'[t].op \notin StateOps, UNCHANGED <<states, orphaned>>,
         StatesTyped', StateIds' = StateIds
  PROVE  Shape'
BY DEF Shape, StatesAreOwn, StateInHand, InMap, Applying, OthersStay

-----------------------------------------------------------------------------
(* Cancel functions.                                                       *)

\* A call brings no cancel function, or one that the thread has in hand.
LEMMA FoundCancels ==
  ASSUME Shape, CancelIsNotLost, NEW t \in Threads, NEW op \in StateOps, NEW arg \in Nat,
         Found(t, op, arg), orphaned' = orphaned,
         \/ cancels' = cancels
         \/ /\ cancels' = Append(cancels, "given")
            /\ op \in Starts /\ arg = Len(cancels') /\ thread' # thread
  PROVE  CancelIsNotLost'
<1> SUFFICES ASSUME NEW c \in DOMAIN cancels', cancels'[c] = "given"
             PROVE  Held(c)' \/ \E i \in orphaned : c \in {made'[i].stream, made'[i].merge}
  BY DEF CancelIsNotLost
<1>0. cancels \in Seq({"given", "called", "released"}) /\ orphaned \subseteq StateIds
  BY DEF Shape, StatesTyped
<1>1. CASE c \in DOMAIN cancels /\ cancels[c] = "given"
  <2>1. CASE \E i \in orphaned : c \in {made[i].stream, made[i].merge}
    BY <2>1, <1>0 DEF Found
  <2>2. CASE \E s \in Sessions : states[s] # 0 /\ c \in {made[states[s]].stream, made[states[s]].merge}
    <3>1. PICK s \in Sessions : states[s] # 0 /\ c \in {made[states[s]].stream, made[states[s]].merge}
      BY <2>2
    <3>2. states[s] \in StateIds
      BY <3>1 DEF Shape, StatesTyped, StateIds
    <3>3. states'[s] = states[s] /\ made'[states[s]] = made[states[s]]
      BY <3>1, <3>2 DEF Found
    <3> QED
      BY <3>1, <3>3 DEF Held
  <2>3. CASE \E u \in Threads : thread[u].op \in Starts /\ thread[u].arg = c
    <3>1. PICK u \in Threads : thread[u].op \in Starts /\ thread[u].arg = c
      BY <2>3
    <3>2. thread'[u] = thread[u]
      BY <3>1 DEF Found, OthersStay, Shape, StateInHand, Starts, StateOps
    <3> QED
      BY <3>1, <3>2 DEF Held, Starts
  <2> QED
    BY <1>1, <2>1, <2>2, <2>3 DEF CancelIsNotLost, Held, Starts
<1>2. CASE cancels' = Append(cancels, "given") /\ c = Len(cancels')
  BY <1>2, <1>0 DEF Found, Held, Starts
<1> QED
  BY <1>0, <1>1, <1>2

\* A write to a state keeps the cancel functions in it and in hand, or lets them go.
LEMMA AppliedCancels ==
  ASSUME Shape, CancelIsNotLost, NEW t \in Threads, NEW op \in StateOps, NEW s,
         Applied(t, op, s), UNCHANGED <<states, orphaned>>,
         \A c \in DOMAIN cancels' : cancels'[c] = "given" =>
           /\ c \in DOMAIN cancels /\ cancels[c] = "given"
           /\ \/ c \in {InHandState(t).stream, InHandState(t).merge}
              \/ op \in Starts /\ c = thread[t].arg
              => c \in {s.stream, s.merge}
  PROVE  CancelIsNotLost'
<1> SUFFICES ASSUME NEW c \in DOMAIN cancels', cancels'[c] = "given"
             PROVE  Held(c)' \/ \E i \in orphaned : c \in {made'[i].stream, made'[i].merge}
  BY DEF CancelIsNotLost
<1>0. c \in DOMAIN cancels /\ cancels[c] = "given" /\ orphaned \subseteq StateIds
  BY DEF Shape, StatesTyped
<1>1. ASSUME NEW i \in StateIds, c \in {made[i].stream, made[i].merge}
      PROVE  c \in {made'[i].stream, made'[i].merge}
  BY <1>1 DEF Applied, InHandState
<1>2. CASE \E i \in orphaned : c \in {made[i].stream, made[i].merge}
  BY <1>2, <1>1, <1>0
<1>3. CASE \E r \in Sessions : states[r] # 0 /\ c \in {made[states[r]].stream, made[states[r]].merge}
  <2>1. PICK r \in Sessions : states[r] # 0 /\ c \in {made[states[r]].stream, made[states[r]].merge}
    BY <1>3
  <2>2. states[r] \in StateIds
    BY <2>1 DEF Shape, StatesTyped, StateIds
  <2>3. c \in {made'[states[r]].stream, made'[states[r]].merge} /\ states' = states
    BY <2>1, <2>2, <1>1
  <2> QED
    BY <2>1, <2>3 DEF Held
<1>4. CASE \E u \in Threads : thread[u].op \in Starts /\ thread[u].arg = c
  <2>1. PICK u \in Threads : thread[u].op \in Starts /\ thread[u].arg = c
    BY <1>4
  <2>2. CASE u # t
    <3>1. thread'[u] = thread[u]
      BY <2>2 DEF Applied, OthersStay
    <3> QED
      BY <2>1, <3>1 DEF Held, Starts
  <2>3. CASE u = t
    <3>1. c \in {made'[thread[t].ref].stream, made'[thread[t].ref].merge}
      BY <2>1, <2>3 DEF Applied
    <3>2. InMap(thread[t].ref) \/ thread[t].ref \in orphaned
      BY DEF Applied, Shape, StateInHand
    <3>3. thread[t].ref # 0
      BY DEF Applied, Shape, StatesTyped, StateIds
    <3> QED
      BY <3>1, <3>2, <3>3 DEF InMap, Held
  <2> QED
    BY <2>2, <2>3
<1> QED
  BY <1>0, <1>2, <1>3, <1>4 DEF CancelIsNotLost, Held, Starts

\* Nothing else touches them.
LEMMA ElsewhereCancels ==
  ASSUME Shape, CancelIsNotLost, NEW t \in Threads, OthersStay(t), ~Applying(t),
         UNCHANGED <<states, orphaned, cancels>>,
         \A i \in StateIds : made'[i].stream = made[i].stream /\ made'[i].merge = made[i].merge
  PROVE  CancelIsNotLost'
<1> SUFFICES ASSUME NEW c \in DOMAIN cancels, cancels[c] = "given"
             PROVE  Held(c)' \/ \E i \in orphaned : c \in {made'[i].stream, made'[i].merge}
  BY DEF CancelIsNotLost
<1>0. orphaned \subseteq StateIds /\ \A r \in Sessions : states[r] # 0 => states[r] \in StateIds
  BY DEF Shape, StatesTyped, StateIds
<1>1. CASE \E i \in orphaned : c \in {made[i].stream, made[i].merge}
  BY <1>1, <1>0
<1>2. CASE \E r \in Sessions : states[r] # 0 /\ c \in {made[states[r]].stream, made[states[r]].merge}
  BY <1>2, <1>0 DEF Held
<1>3. CASE \E u \in Threads : thread[u].op \in Starts /\ thread[u].arg = c
  <2>1. PICK u \in Threads : thread[u].op \in Starts /\ thread[u].arg = c
    BY <1>3
  <2>2. thread'[u] = thread[u]
    BY <2>1 DEF Shape, StateInHand, OthersStay, Starts, StateOps
  <2> QED
    BY <2>1, <2>2 DEF Held, Starts
<1> QED
  BY <1>1, <1>2, <1>3 DEF CancelIsNotLost, Held, Starts

-----------------------------------------------------------------------------
(* Queued messages.                                                        *)

\* A queued message that has not been taken is in one place; one that is in a
\* state, or on its way there, has not been taken.
SetsPending(t) == Applying(t) /\ thread[t].op = "SetPendingMsg"
Pending(i) == made[i].pending
Untaken(q) == q \in DOMAIN queued /\ queued[q] = 0
PendingOnce ==
  /\ \A i \in StateIds : Pending(i) # 0 => Untaken(Pending(i))
  /\ \A t \in Threads : SetsPending(t) => Untaken(thread[t].arg)
  /\ \A i, j \in StateIds : Pending(i) = Pending(j) => i = j \/ Pending(i) = 0
  /\ \A t, u \in Threads : SetsPending(t) /\ SetsPending(u) /\ thread[t].arg = thread[u].arg => t = u
  /\ \A t \in Threads, i \in StateIds : SetsPending(t) => thread[t].arg # Pending(i)
Messages == MessageIsTakenOnce /\ PendingOnce

LEMMA FoundMessages ==
  ASSUME Shape, Messages, NEW t \in Threads, NEW op \in StateOps, NEW arg \in Nat,
         Found(t, op, arg),
         \/ queued' = queued /\ op # "SetPendingMsg"
         \/ queued' = Append(queued, 0) /\ arg = Len(queued')
  PROVE  Messages'
<1>0. queued \in Seq(Nat)
  BY DEF Shape, StatesTyped
<1>1. \A q \in DOMAIN queued : q \in DOMAIN queued' /\ queued'[q] = queued[q]
  <2>1. CASE queued' = queued
    BY <2>1
  <2>2. CASE queued' = Append(queued, 0)
    BY <1>0, <2>2
  <2> QED
    BY <2>1, <2>2
<1>2. \A q \in DOMAIN queued' \ DOMAIN queued : queued'[q] = 0 /\ q = arg
  BY <1>0
<1>3. MessageIsTakenOnce'
  BY <1>1, <1>2 DEF Messages, MessageIsTakenOnce
<1>4. ASSUME NEW i \in StateIds' PROVE Pending(i)' = IF i \in StateIds THEN Pending(i) ELSE 0
  BY DEF Found, Pending, NoState
<1>5. ASSUME NEW u \in Threads, SetsPending(u)'
      PROVE  \/ SetsPending(u) /\ thread'[u] = thread[u]
             \/ u = t /\ thread'[u].arg = arg /\ arg = Len(queued') /\ queued' = Append(queued, 0)
  BY <1>5 DEF Found, OthersStay, SetsPending, Applying
<1>6. arg = Len(queued') /\ queued' = Append(queued, 0) => arg \notin DOMAIN queued /\ arg # 0 /\ Untaken(arg)'
  BY <1>0 DEF Untaken
<1>7. (\A i \in StateIds : Pending(i) # 0 => Untaken(Pending(i)))'
  BY <1>1, <1>4 DEF Messages, PendingOnce, Untaken
<1>8. (\A u \in Threads : SetsPending(u) => Untaken(thread[u].arg))'
  BY <1>1, <1>5, <1>6 DEF Messages, PendingOnce, Untaken
<1>9. (\A i, j \in StateIds : Pending(i) = Pending(j) => i = j \/ Pending(i) = 0)'
  BY <1>4 DEF Messages, PendingOnce
<1>10. (\A u, v \in Threads : SetsPending(u) /\ SetsPending(v) /\ thread[u].arg = thread[v].arg => u = v)'
  BY <1>5, <1>6 DEF Messages, PendingOnce, Untaken
<1>11. (\A u \in Threads, i \in StateIds : SetsPending(u) => thread[u].arg # Pending(i))'
  <2> SUFFICES ASSUME NEW u \in Threads, NEW i \in StateIds', SetsPending(u)'
               PROVE  thread'[u].arg # Pending(i)'
    OBVIOUS
  <2>1. i \in StateIds => Pending(i) = 0 \/ Pending(i) \in DOMAIN queued
    BY DEF Messages, PendingOnce, Untaken
  <2>2. SetsPending(u) => thread[u].arg \in DOMAIN queued /\ thread[u].arg # 0
    BY <1>0 DEF Messages, PendingOnce, Untaken
  <2> QED
    BY <2>1, <2>2, <1>4, <1>5, <1>6 DEF Messages, PendingOnce
<1> QED
  BY <1>3, <1>7, <1>8, <1>9, <1>10, <1>11 DEF Messages, PendingOnce

\* A write to a state leaves its message, takes it, or brings the one in hand.
LEMMA AppliedMessages ==
  ASSUME Shape, Messages, NEW t \in Threads, NEW op \in StateOps, NEW s, Applied(t, op, s),
         \/ s.pending = InHandState(t).pending /\ queued' = queued
         \/ s.pending = thread[t].arg /\ queued' = queued /\ op = "SetPendingMsg"
         \/ /\ s.pending = 0
            /\ queued' = [q \in DOMAIN queued |->
                            IF q = InHandState(t).pending THEN queued[q] + 1 ELSE queued[q]]
  PROVE  Messages'
<1> PICK i0 \in StateIds : i0 = thread[t].ref
  BY DEF Applied
<1>0. queued \in Seq(Nat) /\ InHandState(t).pending = Pending(i0) /\ StateIds' = StateIds
  BY DEF Shape, StatesTyped, Applied, InHandState, Pending
<1>1. ASSUME NEW u \in Threads, SetsPending(u)'
      PROVE  SetsPending(u) /\ u # t /\ thread'[u] = thread[u]
  BY <1>1 DEF Applied, OthersStay, SetsPending, Applying
<1>2. Pending(i0)' = s.pending /\ \A i \in StateIds \ {i0} : Pending(i)' = Pending(i)
  BY DEF Applied, Pending
<1>3. op = "SetPendingMsg" => SetsPending(t)
  BY DEF Applied, SetsPending
<1>4. \A q \in DOMAIN queued : q # Pending(i0) \/ Pending(i0)' = Pending(i0) \/ Pending(i0)' = thread[t].arg
        => q \in DOMAIN queued'
  BY <1>0
<1>5. CASE s.pending = InHandState(t).pending /\ queued' = queued
  <2>1. \A i \in StateIds' : i \in StateIds /\ made'[i].pending = made[i].pending
    BY <1>5, <1>0, <1>2 DEF Pending
  <2>2. MessageIsTakenOnce'
    BY <1>5 DEF Messages, MessageIsTakenOnce
  <2>3. (\A i \in StateIds : Pending(i) # 0 => Untaken(Pending(i)))'
    BY <1>5, <2>1 DEF Messages, PendingOnce, Pending, Untaken
  <2>4. (\A u \in Threads : SetsPending(u) => Untaken(thread[u].arg))'
    BY <1>1, <1>5 DEF Messages, PendingOnce, Pending, Untaken
  <2>5. (\A i, j \in StateIds : Pending(i) = Pending(j) => i = j \/ Pending(i) = 0)'
    BY <2>1 DEF Messages, PendingOnce, Pending, Untaken
  <2>6. (\A u, v \in Threads : SetsPending(u) /\ SetsPending(v) /\ thread[u].arg = thread[v].arg => u = v)'
    BY <1>1 DEF Messages, PendingOnce, Pending, Untaken
  <2>7. (\A u \in Threads, i \in StateIds : SetsPending(u) => thread[u].arg # Pending(i))'
    BY <1>1, <2>1 DEF Messages, PendingOnce, Pending, Untaken
  <2> QED
    BY <2>2, <2>3, <2>4, <2>5, <2>6, <2>7 DEF Messages, PendingOnce
<1>6. CASE s.pending = thread[t].arg /\ queued' = queued /\ op = "SetPendingMsg"
  <2>1. /\ SetsPending(t) /\ thread[t].arg = made'[i0].pending
        /\ \A i \in StateIds' : i = i0 \/ (i \in StateIds /\ made'[i].pending = made[i].pending)
    BY <1>6, <1>0, <1>2, <1>3 DEF Pending
  <2>2. MessageIsTakenOnce'
    BY <1>6 DEF Messages, MessageIsTakenOnce
  <2>3. (\A i \in StateIds : Pending(i) # 0 => Untaken(Pending(i)))'
    BY <1>6, <2>1 DEF Messages, PendingOnce, Pending, Untaken
  <2>4. (\A u \in Threads : SetsPending(u) => Untaken(thread[u].arg))'
    BY <1>1, <1>6 DEF Messages, PendingOnce, Pending, Untaken
  <2>5. (\A i, j \in StateIds : Pending(i) = Pending(j) => i = j \/ Pending(i) = 0)'
    BY <2>1 DEF Messages, PendingOnce, Pending, Untaken
  <2>6. (\A u, v \in Threads : SetsPending(u) /\ SetsPending(v) /\ thread[u].arg = thread[v].arg => u = v)'
    BY <1>1 DEF Messages, PendingOnce, Pending, Untaken
  <2>7. (\A u \in Threads, i \in StateIds : SetsPending(u) => thread[u].arg # Pending(i))'
    BY <1>1, <2>1 DEF Messages, PendingOnce, Pending, Untaken
  <2> QED
    BY <2>2, <2>3, <2>4, <2>5, <2>6, <2>7 DEF Messages, PendingOnce
<1>7. CASE /\ s.pending = 0
           /\ queued' = [q \in DOMAIN queued |->
                            IF q = InHandState(t).pending THEN queued[q] + 1 ELSE queued[q]]
  <2>1. /\ Pending(i0)' = 0 /\ DOMAIN queued' = DOMAIN queued
        /\ \A q \in DOMAIN queued : queued'[q] = IF q = Pending(i0) THEN queued[q] + 1 ELSE queued[q]
    BY <1>7, <1>0, <1>2
  <2>2. MessageIsTakenOnce'
    <3> SUFFICES ASSUME NEW q \in DOMAIN queued PROVE queued'[q] <= 1
      BY <2>1 DEF MessageIsTakenOnce
    <3>1. q = Pending(i0) => queued[q] = 0
      BY <1>0 DEF Messages, PendingOnce, Untaken
    <3> QED
      BY <3>1, <2>1 DEF Messages, MessageIsTakenOnce
  <2>3. PendingOnce'
    <3>1. \A q : Untaken(q) /\ q # Pending(i0) => Untaken(q)'
      BY <2>1 DEF Untaken
    <3>2. \A i \in StateIds : Pending(i)' # 0 => i # i0 /\ Pending(i)' = Pending(i)
                                            /\ Pending(i) # Pending(i0)
      BY <2>1, <1>2 DEF Messages, PendingOnce
    <3>3. \A u \in Threads : SetsPending(u)' => /\ SetsPending(u) /\ thread'[u] = thread[u]
                                              /\ thread[u].arg # Pending(i0)
                                              /\ thread[u].arg # 0
      BY <1>0, <1>1 DEF Messages, PendingOnce, Untaken
    <3>4. (\A i \in StateIds : Pending(i) # 0 => Untaken(Pending(i)))'
      BY <1>0, <3>1, <3>2 DEF Messages, PendingOnce
    <3>5. (\A u \in Threads : SetsPending(u) => Untaken(thread[u].arg))'
      BY <3>1, <3>3 DEF Messages, PendingOnce
    <3>6. (\A i, j \in StateIds : Pending(i) = Pending(j) => i = j \/ Pending(i) = 0)'
      BY <1>0, <3>2 DEF Messages, PendingOnce
    <3>7. (\A u, v \in Threads :
             SetsPending(u) /\ SetsPending(v) /\ thread[u].arg = thread[v].arg => u = v)'
      BY <3>3 DEF Messages, PendingOnce
    <3>8. (\A u \in Threads, i \in StateIds : SetsPending(u) => thread[u].arg # Pending(i))'
      BY <1>0, <3>2, <3>3 DEF Messages, PendingOnce
    <3> QED
      BY <3>4, <3>5, <3>6, <3>7, <3>8 DEF PendingOnce
  <2> QED
    BY <2>2, <2>3 DEF Messages
<1> QED
  BY <1>5, <1>6, <1>7

LEMMA ElsewhereMessages ==
  ASSUME Shape, Messages, NEW t \in Threads, OthersStay(t), ~Applying(t), ~Applying(t)',
         queued' = queued, StateIds' = StateIds,
         \A i \in StateIds : Pending(i)' \in {Pending(i), 0}
  PROVE  Messages'
<1>1. ASSUME NEW u \in Threads, SetsPending(u)' PROVE SetsPending(u) /\ thread'[u] = thread[u]
  BY <1>1 DEF OthersStay, SetsPending, Applying
<1>2. \A u \in Threads : SetsPending(u) => thread[u].arg # 0
  BY DEF Shape, StatesTyped, Messages, PendingOnce, Untaken
<1> QED
  BY <1>1, <1>2 DEF Messages, MessageIsTakenOnce, PendingOnce, Untaken

-----------------------------------------------------------------------------
(* The lines of tool uses, as a view: what is at each spot.                *)

Spots == [at : {"screen", "rollup", "content"}, of : Nat]
Views == [Spots -> Seq(Line)]
View ==
  [p \in Spots |->
     IF p.at = "screen" /\ p.of = 0 THEN shown
     ELSE IF p.at = "rollup" /\ p.of \in StateIds THEN made[p.of].rollup
     ELSE IF p.at = "content" /\ p.of \in StateIds THEN made[p.of].content ELSE <<>>]

Once(V) ==
  \A p, q \in Spots : \A n \in DOMAIN V[p], m \in DOMAIN V[q] :
    V[p][n].tool = V[q][m].tool => p = q /\ n = m
Within(V, T) == \A p \in Spots : \A n \in DOMAIN V[p] : V[p][n].tool \in T
Done(V, R) == \A p \in Spots : \A n \in DOMAIN V[p] : V[p][n].complete => V[p][n].tool \in R

LEMMA Concat ==
  ASSUME NEW S, NEW s \in Seq(S), NEW t \in Seq(S)
  PROVE  /\ DOMAIN (s \o t) = 1..(Len(s) + Len(t))
         /\ \A i \in DOMAIN (s \o t) : (s \o t)[i] = IF i <= Len(s) THEN s[i] ELSE t[i - Len(s)]
OBVIOUS

\* The lines of one spot are put after those of another.
LEMMA LinesMove ==
  ASSUME NEW V \in Views, NEW W \in Views, NEW p \in Spots, NEW q \in Spots, p # q,
         W[p] = <<>>, W[q] = V[q] \o V[p], \A r \in Spots \ {p, q} : W[r] = V[r],
         NEW T, NEW R, Once(V), Within(V, T)
  PROVE  Once(W) /\ Within(W, T) /\ (Done(V, R) => Done(W, R))
<1> DEFINE Old(r, n) == n \in DOMAIN V[r] /\ W[r][n] = V[r][n]
           Moved(r, n) == /\ r = q /\ n \in Nat /\ n - Len(V[q]) \in DOMAIN V[p]
                          /\ n > Len(V[q]) /\ W[r][n] = V[p][n - Len(V[q])]
<1>0. /\ V[p] \in Seq(Line) /\ Len(V[p]) \in Nat /\ DOMAIN V[p] = 1..Len(V[p])
      /\ V[q] \in Seq(Line) /\ Len(V[q]) \in Nat /\ DOMAIN V[q] = 1..Len(V[q])
  BY DEF Views
<1>1. /\ DOMAIN W[q] = 1..(Len(V[q]) + Len(V[p]))
      /\ \A i \in DOMAIN W[q] : W[q][i] = IF i <= Len(V[q]) THEN V[q][i] ELSE V[p][i - Len(V[q])]
  <2>1. /\ DOMAIN (V[q] \o V[p]) = 1..(Len(V[q]) + Len(V[p]))
        /\ \A i \in DOMAIN (V[q] \o V[p]) :
             (V[q] \o V[p])[i] = IF i <= Len(V[q]) THEN V[q][i] ELSE V[p][i - Len(V[q])]
    BY <1>0, Concat, Zenon
  <2> QED
    BY <2>1
<1>2. ASSUME NEW r \in Spots, NEW n \in DOMAIN W[r] PROVE r # p /\ (Old(r, n) \/ Moved(r, n))
  <2>1. r # p
    OBVIOUS
  <2>2. CASE r = q
    <3>1. n \in 1..(Len(V[q]) + Len(V[p]))
      BY <2>2, <1>1
    <3>2. CASE n <= Len(V[q])
      BY <2>2, <3>1, <3>2, <1>0, <1>1
    <3>3. CASE n > Len(V[q])
      <4>1. n - Len(V[q]) \in 1..Len(V[p]) /\ n \in Nat
        <5>1. \A a, b \in Nat : \A i \in 1..(a + b) : i > a => i - a \in 1..b /\ i \in Nat
          OBVIOUS
        <5>2. Len(V[q]) \in Nat /\ Len(V[p]) \in Nat
          BY <1>0
        <5> QED
          BY <5>1, <5>2, <3>1, <3>3, Zenon
      <4> QED
        BY <4>1, <3>1, <3>3, <2>2, <2>1, <1>0, <1>1
    <3> QED
      BY <3>1, <3>2, <3>3, <1>0
  <2>3. CASE r # q
    BY <2>1, <2>3
  <2> QED
    BY <2>1, <2>2, <2>3
<1>3. Once(W)
  <2> SUFFICES ASSUME NEW r \in Spots, NEW s \in Spots, NEW n \in DOMAIN W[r],
                      NEW m \in DOMAIN W[s], W[r][n].tool = W[s][m].tool
               PROVE  r = s /\ n = m
    BY DEF Once
  <2>0. r # p /\ s # p
    BY <1>2
  <2>1. CASE Old(r, n) /\ Old(s, m)
    BY <2>1 DEF Once
  <2>2. CASE Old(r, n) /\ Moved(s, m)
    BY <2>2, <2>0 DEF Once
  <2>3. CASE Moved(r, n) /\ Old(s, m)
    BY <2>3, <2>0 DEF Once
  <2>4. CASE Moved(r, n) /\ Moved(s, m)
    <3>1. n - Len(V[q]) = m - Len(V[q])
      BY <2>4 DEF Once
    <3> QED
      BY <3>1, <2>4, <1>0
  <2> QED
    BY <1>2, <2>1, <2>2, <2>3, <2>4
<1>4. Within(W, T)
  BY <1>2 DEF Within
<1>5. Done(V, R) => Done(W, R)
  <2> SUFFICES ASSUME Done(V, R), NEW r \in Spots, NEW n \in DOMAIN W[r], W[r][n].complete
               PROVE  W[r][n].tool \in R
    BY DEF Done
  <2>1. Old(r, n) \/ Moved(r, n)
    BY <1>2
  <2> QED
    BY <2>1 DEF Done
<1> QED
  BY <1>3, <1>4, <1>5

\* A line of a new tool use comes last.
LEMMA LineIsAdded ==
  ASSUME NEW V \in Views, NEW W \in Views, NEW p \in Spots, NEW l \in Line, ~l.complete,
         W[p] = Append(V[p], l), \A r \in Spots \ {p} : W[r] = V[r],
         NEW T, NEW R, Once(V), Within(V, T), l.tool \notin T
  PROVE  Once(W) /\ Within(W, T \cup {l.tool}) /\ (Done(V, R) => Done(W, R))
<1>0. V[p] \in Seq(Line)
  BY DEF Views
<1>1. ASSUME NEW r \in Spots, NEW n \in DOMAIN W[r]
      PROVE  \/ n \in DOMAIN V[r] /\ W[r][n] = V[r][n]
             \/ r = p /\ n = Len(V[p]) + 1 /\ W[p][n] = l
  BY <1>0, <1>1
<1>2. Once(W)
  BY <1>1 DEF Once, Within
<1>3. Within(W, T \cup {l.tool})
  BY <1>1 DEF Within
<1>4. Done(V, R) => Done(W, R)
  BY <1>1 DEF Done
<1> QED
  BY <1>2, <1>3, <1>4

\* Spots are emptied, or lines become complete.
LEMMA LinesStay ==
  ASSUME NEW V \in Views, NEW W \in Views, NEW T, NEW R, Once(V), Within(V, T),
         \A p \in Spots : \A n \in DOMAIN W[p] : n \in DOMAIN V[p] /\ W[p][n].tool = V[p][n].tool
  PROVE  /\ Once(W) /\ Within(W, T)
         /\ (\A p \in Spots : \A n \in DOMAIN W[p] :
               W[p][n].complete => V[p][n].complete \/ W[p][n].tool \in R)
            /\ Done(V, R) => Done(W, R)
BY DEF Once, Within, Done

-----------------------------------------------------------------------------
(* Tool uses and their results.                                            *)

\* A tool use that is on its way to a rollup is in no line yet; a result that
\* is on its way there has come.
Adds(t) == Applying(t) /\ thread[t].op = "AddToolUse"
Completing(t) == Applying(t) /\ thread[t].op = "MarkToolUseComplete"
Free == {tool \in 1..tools : \A t \in Threads : Adds(t) => thread[t].arg # tool}
Lines ==
  /\ Once(View) /\ Within(View, Free)
  /\ \A t \in Threads : Adds(t) => thread[t].arg \in 1..tools
  /\ \A t, u \in Threads : Adds(t) /\ Adds(u) /\ thread[t].arg = thread[u].arg => t = u
  /\ \A t \in Threads : Completing(t) => thread[t].arg \in results
  /\ strayed \/ Done(View, results)

LEMMA ViewTyped == Shape => View \in Views
<1> SUFFICES ASSUME Shape PROVE View \in Views
  OBVIOUS
<1>1. ASSUME NEW i \in StateIds PROVE made[i].rollup \in Seq(Line) /\ made[i].content \in Seq(Line)
  <2>1. made[i] \in StateRecords
    BY DEF Shape, StatesTyped, StateIds
  <2> QED
    BY <2>1 DEF StateRecords
<1>2. shown \in Seq(Line) /\ <<>> \in Seq(Line)
  BY DEF Shape, StatesTyped
<1>3. ASSUME NEW p \in Spots PROVE View[p] \in Seq(Line)
  BY <1>1, <1>2 DEF View
<1> QED
  BY <1>3 DEF View, Views

LEMMA NextViewTyped == (Shape => View \in Views)'
BY ViewTyped, PTL

LEMMA FoundLines ==
  ASSUME Shape, Shape', Lines, NEW t \in Threads, NEW op \in StateOps, NEW arg \in Nat,
         Found(t, op, arg), UNCHANGED <<shown, strayed>>,
         \/ tools' = tools /\ op # "AddToolUse"
         \/ tools' = tools + 1 /\ arg = tools' /\ op = "AddToolUse",
         results \subseteq results', op = "MarkToolUseComplete" => arg \in results'
  PROVE  Lines'
<1>0. tools \in Nat /\ View' = View
  <2>1. ASSUME NEW p \in Spots PROVE View'[p] = View[p]
    BY DEF View, Found, NoState
  <2> QED
    BY <2>1 DEF View, Shape, StatesTyped
<1>1. ASSUME NEW u \in Threads, Adds(u)' \/ Completing(u)'
      PROVE  \/ thread'[u] = thread[u]
             \/ u = t /\ thread'[u].op = op /\ thread'[u].arg = arg
  BY <1>1 DEF Found, OthersStay
<1>2. (\A u \in Threads : Adds(u) => thread[u].arg \in 1..tools)'
  BY <1>0, <1>1 DEF Lines, Adds, Applying
<1>3. ASSUME NEW u \in Threads, NEW v \in Threads, Adds(u)', Adds(v)',
             thread'[u].arg = thread'[v].arg
      PROVE  u = v
  BY <1>0, <1>1, <1>3 DEF Lines, Adds, Applying
<1>4. (\A u \in Threads : Completing(u) => thread[u].arg \in results)'
  BY <1>1 DEF Lines, Completing, Applying
<1>5. Free \subseteq Free'
  <2> SUFFICES ASSUME NEW tool \in Free, NEW u \in Threads, Adds(u)' PROVE thread'[u].arg # tool
    BY <1>0 DEF Free
  <2> QED
    BY <1>0, <1>1 DEF Free, Adds, Applying
<1> QED
  BY <1>0, <1>2, <1>3, <1>4, <1>5 DEF Lines, Within, Done

\* A write to a state that the thread has in hand: given what it does to the view.
LEMMA AppliedLines ==
  ASSUME Shape, Shape', Lines, NEW t \in Threads, NEW op \in StateOps, NEW s,
         Applied(t, op, s), UNCHANGED <<tools, results>>, strayed => strayed',
         Once(View)', strayed' \/ Done(View, results)',
         IF op = "AddToolUse" THEN Within(View', Free \cup {thread[t].arg}) ELSE Within(View', Free)
  PROVE  Lines'
<1>1. ASSUME NEW u \in Threads, Adds(u)' \/ Completing(u)'
      PROVE  u # t /\ thread'[u] = thread[u]
  BY <1>1 DEF Applied, OthersStay, Adds, Completing
<1>2. Free \subseteq Free' /\ (op = "AddToolUse" => thread[t].arg \in Free')
  BY <1>1 DEF Lines, Free, Adds, Applying, Applied
<1>3. Within(View, Free)'
  BY <1>2 DEF Within
<1> QED
  BY <1>1, <1>3 DEF Lines, Adds, Completing, Applying

LEMMA ElsewhereLines ==
  ASSUME Shape, Shape', Lines, NEW t \in Threads, OthersStay(t), ~Applying(t), ~Applying(t)',
         UNCHANGED <<tools, results, strayed>>,
         Once(View)', Within(View', Free), Done(View, results) => Done(View, results)'
  PROVE  Lines'
<1>1. ASSUME NEW u \in Threads, Adds(u)' \/ Completing(u)'
      PROVE  thread'[u] = thread[u] /\ Applying(u)
  BY <1>1 DEF OthersStay, Adds, Completing, Applying
<1>2. Free \subseteq Free'
  BY <1>1 DEF Free, Adds, Applying
<1>3. Within(View, Free)'
  BY <1>2 DEF Within
<1> QED
  BY <1>1, <1>3 DEF Lines, Adds, Completing, Applying

-----------------------------------------------------------------------------
(* The actions of SessionStates.                                           *)

StatesInv == Shape /\ CancelIsNotLost /\ Messages /\ Lines

\* The first critical section.
LEMMA CallStartInv ==
  ASSUME StatesInv, NEW t \in Threads, NEW session \in Sessions, CallStart(t, session),
         UNCHANGED <<shown, orphaned, strayed>>
  PROVE  StatesInv'
<1>1. PICK op \in Starts : GetOrCreate(t, op, session, Len(cancels'))
  BY DEF CallStart, Starts
<1>2. /\ cancels' = Append(cancels, "given") /\ cancels' \in Seq({"given", "called", "released"})
      /\ Len(cancels') \in Nat /\ UNCHANGED <<queued, tools, results>>
      /\ queued \in Seq(Nat) /\ tools \in Nat /\ results \in SUBSET (1..tools)
  BY DEF CallStart, StatesInv, Shape, StatesTyped
<1>3. op \in StateOps /\ op \notin {"SetPendingMsg", "AddToolUse", "MarkToolUseComplete"}
  BY DEF Starts, StateOps
<1>4. Shape' /\ Found(t, op, Len(cancels'))
  BY <1>1, <1>2, <1>3, FoundShape DEF StatesInv
<1>5. thread' # thread
  BY <1>1, <1>4 DEF GetOrCreate, Calling, StatesInv, Shape, ThreadsTyped, Begins
<1>6. CancelIsNotLost'
  BY <1>2, <1>3, <1>4, <1>5, FoundCancels DEF StatesInv
<1>7. Messages' /\ Lines'
  BY <1>2, <1>3, <1>4, FoundMessages, FoundLines DEF StatesInv
<1> QED
  BY <1>4, <1>6, <1>7 DEF StatesInv

LEMMA CallSetPendingInv ==
  ASSUME StatesInv, NEW t \in Threads, NEW session \in Sessions, CallSetPending(t, session),
         UNCHANGED <<shown, orphaned, strayed>>
  PROVE  StatesInv'
<1> DEFINE op == "SetPendingMsg"
<1>1. /\ GetOrCreate(t, op, session, Len(queued')) /\ op \in StateOps
      /\ queued' = Append(queued, 0) /\ queued' \in Seq(Nat) /\ Len(queued') \in Nat
      /\ UNCHANGED <<cancels, tools, results>> /\ tools \in Nat /\ results \in SUBSET (1..tools)
      /\ cancels \in Seq({"given", "called", "released"})
  BY DEF CallSetPending, StatesInv, Shape, StatesTyped, StateOps
<1>2. Shape' /\ Found(t, op, Len(queued'))
  BY <1>1, FoundShape DEF StatesInv
<1>3. CancelIsNotLost' /\ Messages' /\ Lines'
  BY <1>1, <1>2, FoundCancels, FoundMessages, FoundLines DEF StatesInv
<1> QED
  BY <1>2, <1>3 DEF StatesInv

LEMMA CallAddToolUseInv ==
  ASSUME StatesInv, NEW t \in Threads, NEW session \in Sessions, CallAddToolUse(t, session),
         UNCHANGED <<shown, orphaned, strayed>>
  PROVE  StatesInv'
<1> DEFINE op == "AddToolUse"
<1>1. /\ GetOrCreate(t, op, session, tools') /\ op \in StateOps
      /\ tools' = tools + 1 /\ tools' \in Nat /\ UNCHANGED <<cancels, queued, results>>
      /\ results' \in SUBSET (1..tools') /\ queued \in Seq(Nat)
      /\ cancels \in Seq({"given", "called", "released"})
  BY DEF CallAddToolUse, StatesInv, Shape, StatesTyped, StateOps
<1>2. Shape' /\ Found(t, op, tools')
  BY <1>1, FoundShape DEF StatesInv
<1>3. CancelIsNotLost' /\ Messages' /\ Lines'
  BY <1>1, <1>2, FoundCancels, FoundMessages, FoundLines DEF StatesInv
<1> QED
  BY <1>2, <1>3 DEF StatesInv

LEMMA CallCompleteInv ==
  ASSUME StatesInv, NEW t \in Threads, NEW session \in Sessions, CallComplete(t, session),
         UNCHANGED <<shown, orphaned, strayed>>
  PROVE  StatesInv'
<1> DEFINE op == "MarkToolUseComplete"
<1>1. PICK tool \in 1..tools \ results :
        results' = results \cup {tool} /\ GetIfExists(t, op, session, tool)
  BY DEF CallComplete
<1>2. /\ op \in StateOps /\ tool \in Nat /\ UNCHANGED <<cancels, queued, tools>> /\ tools \in Nat
      /\ results' \in SUBSET (1..tools') /\ queued \in Seq(Nat)
      /\ cancels \in Seq({"given", "called", "released"})
  BY <1>1 DEF CallComplete, StatesInv, Shape, StatesTyped, StateOps
<1>3. Shape' /\ Found(t, op, tool)
  BY <1>1, <1>2, FoundShape DEF StatesInv
<1>4. CancelIsNotLost' /\ Messages' /\ Lines'
  BY <1>1, <1>2, <1>3, FoundCancels, FoundMessages, FoundLines DEF StatesInv
<1> QED
  BY <1>3, <1>4 DEF StatesInv

LEMMA CallPlainInv ==
  ASSUME StatesInv, NEW t \in Threads, NEW session \in Sessions, CallPlain(t, session),
         UNCHANGED <<shown, orphaned, strayed>>
  PROVE  StatesInv'
<1>1. PICK op \in {"StopWaiting", "StopMerge", "GetPendingMessage", "FlushToolUseRollup"} :
        GetIfExists(t, op, session, 0)
  BY DEF CallPlain
<1>2. /\ op \in StateOps /\ op \notin {"SetPendingMsg", "AddToolUse", "MarkToolUseComplete"}
      /\ 0 \in Nat /\ UNCHANGED <<cancels, queued, tools, results>> /\ tools \in Nat
      /\ results \in SUBSET (1..tools) /\ queued \in Seq(Nat)
      /\ cancels \in Seq({"given", "called", "released"})
  BY <1>1 DEF CallPlain, StatesInv, Shape, StatesTyped, StateOps
<1>3. Shape' /\ Found(t, op, 0)
  BY <1>1, <1>2, FoundShape DEF StatesInv
<1>4. CancelIsNotLost' /\ Messages' /\ Lines'
  BY <1>1, <1>2, <1>3, FoundCancels, FoundMessages, FoundLines DEF StatesInv
<1> QED
  BY <1>3, <1>4 DEF StatesInv

LEMMA StateCallInv == ASSUME StatesInv, NEW t \in Threads, StateCall(t) PROVE StatesInv'
BY CallStartInv, CallSetPendingInv, CallAddToolUseInv, CallCompleteInv, CallPlainInv DEF StateCall

-----------------------------------------------------------------------------
(* The second critical section.                                            *)

\* What a thread has in hand, when it has a state.
LEMMA HandTyped ==
  ASSUME StatesInv, NEW t \in Threads, Applying(t)
  PROVE  /\ thread[t].ref \in StateIds /\ thread[t].arg \in Nat
         /\ InHandState(t) \in StateRecords
BY DEF StatesInv, Shape, StatesTyped, ThreadsTyped, ThreadRecords, StateInHand, InHandState, StateIds

LEMMA ReleasesTyped ==
  ASSUME StatesInv, NEW cancel \in Nat, Releases(cancel)
  PROVE  /\ cancels' \in Seq({"given", "called", "released"}) /\ DOMAIN cancels' = DOMAIN cancels
         /\ \A c \in DOMAIN cancels : cancels'[c] = "given" => cancels[c] = "given" /\ c # cancel
BY DEF StatesInv, Shape, StatesTyped, Releases

\* The view after a write to the state in hand.
LEMMA AppliedView ==
  ASSUME Shape, Shape', NEW t \in Threads, NEW op \in StateOps, NEW s, Applied(t, op, s),
         shown' = shown
  PROVE  LET i == thread[t].ref IN
         /\ [at |-> "rollup", of |-> i] \in Spots /\ [at |-> "content", of |-> i] \in Spots
         /\ View[[at |-> "rollup", of |-> i]] = InHandState(t).rollup
         /\ View[[at |-> "content", of |-> i]] = InHandState(t).content
         /\ View'[[at |-> "rollup", of |-> i]] = s.rollup
         /\ View'[[at |-> "content", of |-> i]] = s.content
         /\ \A p \in Spots \ {[at |-> "rollup", of |-> i], [at |-> "content", of |-> i]} :
              View'[p] = View[p]
<1> PICK i \in StateIds : i = thread[t].ref
  BY DEF Applied
<1>1. /\ i \in Nat /\ StateIds' = StateIds /\ made'[i] = s /\ InHandState(t) = made[i]
      /\ \A j \in StateIds \ {i} : made'[j] = made[j]
  BY DEF Applied, InHandState, Shape, StatesTyped, StateIds
<1>2. [at |-> "rollup", of |-> i] \in Spots /\ [at |-> "content", of |-> i] \in Spots
  BY <1>1 DEF Spots
<1>3. /\ View[[at |-> "rollup", of |-> i]] = made[i].rollup
      /\ View[[at |-> "content", of |-> i]] = made[i].content
  BY <1>1, <1>2 DEF View
<1>4. /\ View'[[at |-> "rollup", of |-> i]] = s.rollup
      /\ View'[[at |-> "content", of |-> i]] = s.content
  BY <1>1, <1>2 DEF View
<1>5. ASSUME NEW p \in Spots \ {[at |-> "rollup", of |-> i], [at |-> "content", of |-> i]}
      PROVE  View'[p] = View[p]
  <2>1. p.at \in {"rollup", "content"} => p.of # i
    BY DEF Spots
  <2> QED
    BY <2>1, <1>1 DEF View
<1> QED
  BY <1>1, <1>2, <1>3, <1>4, <1>5

\* A write that leaves the lines as they are.
LEMMA SameLines ==
  ASSUME StatesInv, Shape', NEW t \in Threads, NEW op \in StateOps \ {"AddToolUse"}, NEW s,
         Applied(t, op, s), UNCHANGED <<tools, results, shown, strayed>>,
         s.rollup = InHandState(t).rollup, s.content = InHandState(t).content
  PROVE  Lines'
<1>1. View' = View
  <2>1. ASSUME NEW p \in Spots PROVE View'[p] = View[p]
    <3> DEFINE i == thread[t].ref
    <3>1. /\ View'[[at |-> "rollup", of |-> i]] = View[[at |-> "rollup", of |-> i]]
          /\ View'[[at |-> "content", of |-> i]] = View[[at |-> "content", of |-> i]]
          /\ \A q \in Spots \ {[at |-> "rollup", of |-> i], [at |-> "content", of |-> i]} :
               View'[q] = View[q]
      BY AppliedView DEF StatesInv
    <3> QED
      BY <3>1, Zenon
  <2> QED
    BY <2>1 DEF View
<1> QED
  BY <1>1, AppliedLines DEF StatesInv, Lines

\* The rest of what a write does, when the lines stay.
LEMMA PlainWrite ==
  ASSUME StatesInv, NEW t \in Threads, NEW op \in StateOps \ {"AddToolUse"}, NEW s \in StateRecords,
         Applies(t, op, s), UNCHANGED <<states, orphaned, tools, results, shown, strayed>>,
         s.rollup = InHandState(t).rollup, s.content = InHandState(t).content,
         cancels' \in Seq({"given", "called", "released"}), queued' \in Seq(Nat)
  PROVE  Shape' /\ Applied(t, op, s) /\ Lines'
<1>1. Shape' /\ Applied(t, op, s)
  BY AppliedShape DEF StatesInv, Shape, StatesTyped
<1> QED
  BY <1>1, SameLines

LEMMA StartWaitingInv == ASSUME StatesInv, NEW t \in Threads, StartWaiting(t) PROVE StatesInv'
<1> DEFINE s == [InHandState(t) EXCEPT !.stream = thread[t].arg, !.waiting = TRUE]
<1>1. Applying(t) /\ thread[t].op = "StartWaiting"
  BY DEF StartWaiting, Applies, At, Applying
<1>2. InHandState(t) \in StateRecords /\ thread[t].arg \in Nat
  BY <1>1, HandTyped
<1>3. /\ s \in StateRecords /\ s.stream = thread[t].arg /\ s.merge = InHandState(t).merge
      /\ s.pending = InHandState(t).pending /\ s.rollup = InHandState(t).rollup
      /\ s.content = InHandState(t).content /\ InHandState(t).stream \in Nat
  BY <1>2 DEF StateRecords
<1> HIDE DEF s
<1>4. /\ Applies(t, "StartWaiting", s) /\ "StartWaiting" \in StateOps \ {"AddToolUse"}
      /\ Releases(InHandState(t).stream) /\ queued \in Seq(Nat)
      /\ UNCHANGED <<states, queued, tools, results, shown, orphaned, strayed>>
  BY DEF s, StartWaiting, StateOps, StatesInv, Shape, StatesTyped
<1>5. /\ cancels' \in Seq({"given", "called", "released"}) /\ DOMAIN cancels' = DOMAIN cancels
      /\ \A c \in DOMAIN cancels :
           cancels'[c] = "given" => cancels[c] = "given" /\ c # InHandState(t).stream
  BY <1>3, <1>4, ReleasesTyped
<1>6. Shape' /\ Applied(t, "StartWaiting", s) /\ Lines'
  BY <1>3, <1>4, <1>5, PlainWrite
<1>7. CancelIsNotLost'
  BY <1>3, <1>4, <1>5, <1>6, AppliedCancels DEF StatesInv
<1>8. Messages'
  BY <1>3, <1>4, <1>6, AppliedMessages DEF StatesInv
<1> QED
  BY <1>6, <1>7, <1>8 DEF StatesInv

LEMMA StopWaitingInv == ASSUME StatesInv, NEW t \in Threads, StopWaiting(t) PROVE StatesInv'
<1> DEFINE s == [InHandState(t) EXCEPT !.stream = 0, !.waiting = FALSE]
<1>1. Applying(t) /\ thread[t].op = "StopWaiting"
  BY DEF StopWaiting, Applies, At, Applying
<1>2. InHandState(t) \in StateRecords
  BY <1>1, HandTyped
<1>3. /\ s \in StateRecords /\ s.stream = 0 /\ s.merge = InHandState(t).merge
      /\ s.pending = InHandState(t).pending /\ s.rollup = InHandState(t).rollup
      /\ s.content = InHandState(t).content /\ InHandState(t).stream \in Nat
  BY <1>2 DEF StateRecords
<1> HIDE DEF s
<1>4. /\ Applies(t, "StopWaiting", s) /\ "StopWaiting" \in (StateOps \ {"AddToolUse"}) \ Starts
      /\ Releases(InHandState(t).stream) /\ queued \in Seq(Nat)
      /\ UNCHANGED <<states, queued, tools, results, shown, orphaned, strayed>>
  BY DEF s, StopWaiting, StateOps, Starts, StatesInv, Shape, StatesTyped
<1>5. /\ cancels' \in Seq({"given", "called", "released"}) /\ DOMAIN cancels' = DOMAIN cancels
      /\ \A c \in DOMAIN cancels :
           cancels'[c] = "given" => cancels[c] = "given" /\ c # InHandState(t).stream
  BY <1>3, <1>4, ReleasesTyped
<1>6. Shape' /\ Applied(t, "StopWaiting", s) /\ Lines'
  BY <1>3, <1>4, <1>5, PlainWrite
<1>7. CancelIsNotLost'
  BY <1>3, <1>4, <1>5, <1>6, AppliedCancels DEF StatesInv
<1>8. Messages'
  BY <1>3, <1>4, <1>6, AppliedMessages DEF StatesInv
<1> QED
  BY <1>6, <1>7, <1>8 DEF StatesInv

LEMMA StartMergeInv == ASSUME StatesInv, NEW t \in Threads, StartMerge(t) PROVE StatesInv'
<1> DEFINE s == [InHandState(t) EXCEPT !.merge = thread[t].arg]
<1>1. Applying(t) /\ thread[t].op = "StartMerge"
  BY DEF StartMerge, Applies, At, Applying
<1>2. InHandState(t) \in StateRecords /\ thread[t].arg \in Nat
  BY <1>1, HandTyped
<1>3. /\ s \in StateRecords /\ s.merge = thread[t].arg /\ s.stream = InHandState(t).stream
      /\ s.pending = InHandState(t).pending /\ s.rollup = InHandState(t).rollup
      /\ s.content = InHandState(t).content /\ InHandState(t).merge \in Nat
  BY <1>2 DEF StateRecords
<1> HIDE DEF s
<1>4. /\ Applies(t, "StartMerge", s) /\ "StartMerge" \in StateOps \ {"AddToolUse"}
      /\ Releases(InHandState(t).merge) /\ queued \in Seq(Nat)
      /\ UNCHANGED <<states, queued, tools, results, shown, orphaned, strayed>>
  BY DEF s, StartMerge, StateOps, StatesInv, Shape, StatesTyped
<1>5. /\ cancels' \in Seq({"given", "called", "released"}) /\ DOMAIN cancels' = DOMAIN cancels
      /\ \A c \in DOMAIN cancels :
           cancels'[c] = "given" => cancels[c] = "given" /\ c # InHandState(t).merge
  BY <1>3, <1>4, ReleasesTyped
<1>6. Shape' /\ Applied(t, "StartMerge", s) /\ Lines'
  BY <1>3, <1>4, <1>5, PlainWrite
<1>7. CancelIsNotLost'
  BY <1>3, <1>4, <1>5, <1>6, AppliedCancels DEF StatesInv
<1>8. Messages'
  BY <1>3, <1>4, <1>6, AppliedMessages DEF StatesInv
<1> QED
  BY <1>6, <1>7, <1>8 DEF StatesInv

LEMMA StopMergeInv == ASSUME StatesInv, NEW t \in Threads, StopMerge(t) PROVE StatesInv'
<1> DEFINE s == [InHandState(t) EXCEPT !.merge = 0]
<1>1. Applying(t) /\ thread[t].op = "StopMerge"
  BY DEF StopMerge, Applies, At, Applying
<1>2. InHandState(t) \in StateRecords
  BY <1>1, HandTyped
<1>3. /\ s \in StateRecords /\ s.merge = 0 /\ s.stream = InHandState(t).stream
      /\ s.pending = InHandState(t).pending /\ s.rollup = InHandState(t).rollup
      /\ s.content = InHandState(t).content /\ InHandState(t).merge \in Nat
  BY <1>2 DEF StateRecords
<1> HIDE DEF s
<1>4. /\ Applies(t, "StopMerge", s) /\ "StopMerge" \in (StateOps \ {"AddToolUse"}) \ Starts
      /\ Releases(InHandState(t).merge) /\ queued \in Seq(Nat)
      /\ UNCHANGED <<states, queued, tools, results, shown, orphaned, strayed>>
  BY DEF s, StopMerge, StateOps, Starts, StatesInv, Shape, StatesTyped
<1>5. /\ cancels' \in Seq({"given", "called", "released"}) /\ DOMAIN cancels' = DOMAIN cancels
      /\ \A c \in DOMAIN cancels :
           cancels'[c] = "given" => cancels[c] = "given" /\ c # InHandState(t).merge
  BY <1>3, <1>4, ReleasesTyped
<1>6. Shape' /\ Applied(t, "StopMerge", s) /\ Lines'
  BY <1>3, <1>4, <1>5, PlainWrite
<1>7. CancelIsNotLost'
  BY <1>3, <1>4, <1>5, <1>6, AppliedCancels DEF StatesInv
<1>8. Messages'
  BY <1>3, <1>4, <1>6, AppliedMessages DEF StatesInv
<1> QED
  BY <1>6, <1>7, <1>8 DEF StatesInv

LEMMA SetPendingMsgInv == ASSUME StatesInv, NEW t \in Threads, SetPendingMsg(t) PROVE StatesInv'
<1> DEFINE s == [InHandState(t) EXCEPT !.pending = thread[t].arg]
<1>1. Applying(t) /\ thread[t].op = "SetPendingMsg"
  BY DEF SetPendingMsg, Applies, At, Applying
<1>2. InHandState(t) \in StateRecords /\ thread[t].arg \in Nat
  BY <1>1, HandTyped
<1>3. /\ s \in StateRecords /\ s.pending = thread[t].arg /\ s.stream = InHandState(t).stream
      /\ s.merge = InHandState(t).merge /\ s.rollup = InHandState(t).rollup
      /\ s.content = InHandState(t).content
  BY <1>2 DEF StateRecords
<1> HIDE DEF s
<1>4. /\ Applies(t, "SetPendingMsg", s) /\ "SetPendingMsg" \in (StateOps \ {"AddToolUse"}) \ Starts
      /\ UNCHANGED <<states, cancels, queued, tools, results, shown, orphaned, strayed>>
      /\ queued \in Seq(Nat) /\ cancels \in Seq({"given", "called", "released"})
  BY DEF s, SetPendingMsg, StateOps, Starts, StatesInv, Shape, StatesTyped
<1>5. Shape' /\ Applied(t, "SetPendingMsg", s) /\ Lines'
  BY <1>3, <1>4, PlainWrite
<1>6. CancelIsNotLost'
  BY <1>3, <1>4, <1>5, AppliedCancels DEF StatesInv
<1>7. Messages'
  BY <1>3, <1>4, <1>5, AppliedMessages DEF StatesInv
<1> QED
  BY <1>5, <1>6, <1>7 DEF StatesInv

LEMMA GetPendingMessageInv ==
  ASSUME StatesInv, NEW t \in Threads, GetPendingMessage(t) PROVE StatesInv'
<1> DEFINE s == [InHandState(t) EXCEPT !.pending = 0]
<1>1. Applying(t) /\ thread[t].op = "GetPendingMessage"
  BY DEF GetPendingMessage, Applies, At, Applying
<1>2. InHandState(t) \in StateRecords
  BY <1>1, HandTyped
<1>3. /\ s \in StateRecords /\ s.pending = 0 /\ s.stream = InHandState(t).stream
      /\ s.merge = InHandState(t).merge /\ s.rollup = InHandState(t).rollup
      /\ s.content = InHandState(t).content
  BY <1>2 DEF StateRecords
<1> HIDE DEF s
<1>4. /\ Applies(t, "GetPendingMessage", s)
      /\ "GetPendingMessage" \in (StateOps \ {"AddToolUse"}) \ Starts
      /\ UNCHANGED <<states, cancels, tools, results, shown, orphaned, strayed>>
      /\ queued' = [q \in DOMAIN queued |->
                      IF q = InHandState(t).pending THEN queued[q] + 1 ELSE queued[q]]
      /\ cancels \in Seq({"given", "called", "released"})
  BY DEF s, GetPendingMessage, StateOps, Starts, StatesInv, Shape, StatesTyped
<1>5. queued' \in Seq(Nat)
  <2>1. queued \in Seq(Nat) /\ \A n \in Nat : n + 1 \in Nat
    BY DEF StatesInv, Shape, StatesTyped
  <2>2. \A q \in DOMAIN queued : queued[q] \in Nat
    BY <2>1
  <2>3. \A q \in DOMAIN queued :
          (IF q = InHandState(t).pending THEN queued[q] + 1 ELSE queued[q]) \in Nat
    BY <2>1, <2>2
  <2>4. queued' \in [DOMAIN queued -> Nat]
    BY <1>4, <2>3
  <2> QED
    BY <2>1, <2>4
<1>6. Shape' /\ Applied(t, "GetPendingMessage", s) /\ Lines'
  BY <1>3, <1>4, <1>5, PlainWrite
<1>7. CancelIsNotLost'
  BY <1>3, <1>4, <1>6, AppliedCancels DEF StatesInv
<1>8. Messages'
  BY <1>3, <1>4, <1>6, AppliedMessages DEF StatesInv
<1> QED
  BY <1>6, <1>7, <1>8 DEF StatesInv

\* A write that changes lines leaves the cancel functions and the messages.
LEMMA LinesWrite ==
  ASSUME StatesInv, NEW t \in Threads, NEW op \in {"AddToolUse", "MarkToolUseComplete", "FlushToolUseRollup"},
         NEW s \in StateRecords, Applies(t, op, s),
         UNCHANGED <<states, cancels, queued, tools, results, shown, orphaned>>, strayed' \in BOOLEAN,
         s.stream = InHandState(t).stream, s.merge = InHandState(t).merge,
         s.pending = InHandState(t).pending
  PROVE  Shape' /\ Applied(t, op, s) /\ CancelIsNotLost' /\ Messages'
<1>1. op \in StateOps \ Starts
  BY DEF StateOps, Starts
<1>2. Shape' /\ Applied(t, op, s)
  BY <1>1, AppliedShape DEF StatesInv, Shape, StatesTyped
<1>3. CancelIsNotLost'
  BY <1>1, <1>2, AppliedCancels DEF StatesInv
<1>4. Messages'
  BY <1>1, <1>2, AppliedMessages DEF StatesInv
<1> QED
  BY <1>2, <1>3, <1>4

LEMMA AddToolUseInv == ASSUME StatesInv, NEW t \in Threads, AddToolUse(t) PROVE StatesInv'
<1> DEFINE l == Item(thread[t].arg)
           s == [InHandState(t) EXCEPT !.rollup = Append(@, l)]
<1>1. Applying(t) /\ thread[t].op = "AddToolUse"
  BY DEF AddToolUse, Applies, At, Applying
<1>2. InHandState(t) \in StateRecords /\ thread[t].arg \in Nat
  BY <1>1, HandTyped
<1>3. l \in Line /\ l.tool = thread[t].arg /\ ~l.complete
  BY <1>2 DEF Item, Line
<1> HIDE DEF l
<1>4. InHandState(t).rollup \in Seq(Line) /\ Append(InHandState(t).rollup, l) \in Seq(Line)
  BY <1>2, <1>3 DEF StateRecords
<1>5. /\ s \in StateRecords /\ s.stream = InHandState(t).stream /\ s.merge = InHandState(t).merge
      /\ s.pending = InHandState(t).pending /\ s.content = InHandState(t).content
      /\ s.rollup = Append(InHandState(t).rollup, l)
  BY <1>2, <1>4 DEF StateRecords
<1> HIDE DEF s
<1>6. /\ Applies(t, "AddToolUse", s) /\ "AddToolUse" \in StateOps
      /\ UNCHANGED <<states, cancels, queued, tools, results, shown, orphaned, strayed>>
      /\ strayed' \in BOOLEAN
  BY DEF s, l, AddToolUse, StateOps, StatesInv, Shape, StatesTyped
<1>7. Shape' /\ Applied(t, "AddToolUse", s) /\ CancelIsNotLost' /\ Messages'
  BY <1>5, <1>6, LinesWrite
<1>8. View \in Views /\ View' \in Views
  BY <1>7, ViewTyped, NextViewTyped DEF StatesInv
<1>9. PICK p \in Spots : View'[p] = Append(View[p], l) /\ \A q \in Spots \ {p} : View'[q] = View[q]
  <2> DEFINE i == thread[t].ref
             r == [at |-> "rollup", of |-> i]
             c == [at |-> "content", of |-> i]
  <2>1. /\ r \in Spots /\ View[r] = InHandState(t).rollup /\ View[c] = InHandState(t).content
        /\ View'[r] = s.rollup /\ View'[c] = s.content
        /\ \A q \in Spots \ {r, c} : View'[q] = View[q]
    BY <1>6, <1>7, AppliedView DEF StatesInv
  <2> HIDE DEF r, c
  <2> QED
    BY <2>1, <1>5
<1>10. Once(View) /\ Within(View, Free) /\ thread[t].arg \notin Free
  BY <1>1 DEF StatesInv, Lines, Free, Adds
<1>11. /\ Once(View') /\ Within(View', Free \cup {thread[t].arg})
       /\ Done(View, results) => Done(View', results)
  BY <1>3, <1>8, <1>9, <1>10, LineIsAdded
<1>12. Lines'
  BY <1>6, <1>7, <1>11, AppliedLines DEF StatesInv, Lines, Once, Done
<1> QED
  BY <1>7, <1>12 DEF StatesInv

\* The item that a result completes is the one of its tool use, if there is one.
LEMMA CompletesItsOwn ==
  ASSUME NEW rollup \in Seq(Line), NEW tool \in Nat, NEW k \in DOMAIN rollup,
         rollup[k].tool = tool, NEW i \in Completes(rollup, tool)
  PROVE  rollup[i].tool = tool
<1> DEFINE own == {j \in DOMAIN rollup : rollup[j].tool = tool}
<1>1. own # {} /\ own \subseteq Nat
  OBVIOUS
<1>2. PICK least \in own : \A j \in own : ~(<<j, least>> \in OpToRel(<, Nat))
  BY <1>1, NatLessThanWellFounded, WFMin
<1>3. \A j \in own : least <= j
  <2> SUFFICES ASSUME NEW j \in own, ~(least <= j) PROVE FALSE
    OBVIOUS
  <2>1. j \in Nat /\ least \in Nat /\ j < least
    BY <1>1
  <2>2. <<j, least>> \in OpToRel(<, Nat)
    BY <2>1 DEF OpToRel
  <2> QED
    BY <2>2, <1>2
<1>4. Completes(rollup, tool) = {CHOOSE j \in own : \A m \in own : j <= m}
  BY <1>1 DEF Completes
<1>5. (CHOOSE j \in own : \A m \in own : j <= m) \in own
  BY <1>3
<1> QED
  BY <1>4, <1>5

LEMMA MarkToolUseCompleteInv ==
  ASSUME StatesInv, NEW t \in Threads, MarkToolUseComplete(t) PROVE StatesInv'
<1> DEFINE rollup == InHandState(t).rollup
           hits == Completes(rollup, thread[t].arg)
           marked == [i \in DOMAIN rollup |-> [rollup[i] EXCEPT !.complete = @ \/ i \in hits]]
           s == [InHandState(t) EXCEPT !.rollup = marked]
<1>1. Applying(t) /\ thread[t].op = "MarkToolUseComplete"
  BY DEF MarkToolUseComplete, Marks, Applies, At, Applying
<1>2. InHandState(t) \in StateRecords /\ thread[t].arg \in Nat /\ rollup \in Seq(Line)
  BY <1>1, HandTyped DEF StateRecords
<1>3. \A i \in DOMAIN rollup : /\ marked[i] \in Line /\ marked[i].tool = rollup[i].tool
                               /\ marked[i].complete => rollup[i].complete \/ i \in hits
  <2> SUFFICES ASSUME NEW i \in DOMAIN rollup
               PROVE  /\ marked[i] \in Line /\ marked[i].tool = rollup[i].tool
                      /\ marked[i].complete => rollup[i].complete \/ i \in hits
    OBVIOUS
  <2>1. rollup[i] \in Line
    BY <1>2
  <2> HIDE DEF rollup, hits
  <2> QED
    BY <2>1 DEF Line
<1>4. marked \in Seq(Line) /\ DOMAIN marked = DOMAIN rollup
  <2>1. marked \in [DOMAIN rollup -> Line]
    BY <1>3
  <2> HIDE DEF marked, rollup
  <2> QED
    BY <2>1, <1>2
<1>5. Applies(t, "MarkToolUseComplete", s)
  BY DEF MarkToolUseComplete, Marks
<1>6. strayed' = (strayed \/ \A i \in DOMAIN rollup : rollup[i].tool # thread[t].arg)
  BY DEF MarkToolUseComplete, Marks
<1>7. \A i \in hits : ~strayed' /\ i \in DOMAIN rollup => rollup[i].tool \in results
  <2> SUFFICES ASSUME NEW i \in hits, ~strayed', i \in DOMAIN rollup PROVE rollup[i].tool \in results
    OBVIOUS
  <2>1. PICK k \in DOMAIN rollup : rollup[k].tool = thread[t].arg
    BY <1>6
  <2>2. rollup[i].tool = thread[t].arg
    BY <2>1, <1>2, CompletesItsOwn
  <2>3. thread[t].arg \in results
    BY <1>1 DEF StatesInv, Lines, Completing
  <2> QED
    BY <2>2, <2>3
<1> HIDE DEF hits, marked
<1>8. /\ s \in StateRecords /\ s.stream = InHandState(t).stream /\ s.merge = InHandState(t).merge
      /\ s.pending = InHandState(t).pending /\ s.content = InHandState(t).content
      /\ s.rollup = marked
  BY <1>2, <1>4 DEF StateRecords
<1> HIDE DEF s
<1>9. /\ "MarkToolUseComplete" \in StateOps /\ strayed' \in BOOLEAN /\ strayed \in BOOLEAN
      /\ UNCHANGED <<states, cancels, queued, tools, results, shown, orphaned>>
  BY <1>6 DEF MarkToolUseComplete, Marks, StateOps, StatesInv, Shape, StatesTyped
<1>10. Shape' /\ Applied(t, "MarkToolUseComplete", s) /\ CancelIsNotLost' /\ Messages'
  BY <1>5, <1>8, <1>9, LinesWrite
<1>11. View \in Views /\ View' \in Views
  BY <1>10, ViewTyped, NextViewTyped DEF StatesInv
<1>12. \A p \in Spots : \A n \in DOMAIN View'[p] :
         /\ n \in DOMAIN View[p] /\ View'[p][n].tool = View[p][n].tool
         /\ ~strayed' /\ View'[p][n].complete => View[p][n].complete \/ View'[p][n].tool \in results
  <2> DEFINE i == thread[t].ref
             r == [at |-> "rollup", of |-> i]
             c == [at |-> "content", of |-> i]
  <2>1. /\ View[r] = rollup /\ View[c] = InHandState(t).content
        /\ View'[r] = marked /\ View'[c] = InHandState(t).content
        /\ \A q \in Spots \ {r, c} : View'[q] = View[q]
    BY <1>8, <1>9, <1>10, AppliedView DEF StatesInv
  <2> HIDE DEF r, c, rollup
  <2>2. \A n \in DOMAIN View'[r] :
          /\ n \in DOMAIN View[r] /\ View'[r][n].tool = View[r][n].tool
          /\ ~strayed' /\ View'[r][n].complete => View[r][n].complete \/ View'[r][n].tool \in results
    BY <2>1, <1>3, <1>4, <1>7
  <2>3. \A p \in Spots \ {r} : View'[p] = View[p]
    BY <2>1
  <2> QED
    BY <2>2, <2>3
<1>13. Once(View') /\ Within(View', Free) /\ (strayed' \/ Done(View', results))
  <2>1. Once(View) /\ Within(View, Free) /\ (strayed' \/ Done(View, results))
    BY <1>6 DEF StatesInv, Lines
  <2>2. \A p \in Spots : \A n \in DOMAIN View'[p] : n \in DOMAIN View[p] /\ View'[p][n].tool = View[p][n].tool
    BY <1>12
  <2>3. Once(View') /\ Within(View', Free)
    BY <2>1, <2>2, <1>11, LinesStay
  <2>4. CASE ~strayed'
    <3>1. \A p \in Spots : \A n \in DOMAIN View'[p] :
            View'[p][n].complete => View[p][n].complete \/ View'[p][n].tool \in results
      BY <2>4, <1>12
    <3>2. Done(View', results)
      BY <3>1, <2>4, <2>1, <2>2, <1>11, LinesStay
    <3> QED
      BY <3>2, <2>3
  <2> QED
    BY <2>3, <2>4
<1>14. Lines'
  BY <1>6, <1>9, <1>10, <1>13, AppliedLines DEF StatesInv, Lines, Once, Done
<1> QED
  BY <1>10, <1>14 DEF StatesInv

LEMMA FlushToolUseRollupInv ==
  ASSUME StatesInv, NEW t \in Threads, FlushToolUseRollup(t) PROVE StatesInv'
<1> DEFINE s == [InHandState(t) EXCEPT !.content = @ \o InHandState(t).rollup, !.rollup = <<>>]
<1>1. Applying(t) /\ thread[t].op = "FlushToolUseRollup"
  BY DEF FlushToolUseRollup, Applies, At, Applying
<1>2. InHandState(t) \in StateRecords
  BY <1>1, HandTyped
<1>3. /\ InHandState(t).rollup \in Seq(Line) /\ InHandState(t).content \in Seq(Line)
      /\ InHandState(t).content \o InHandState(t).rollup \in Seq(Line) /\ <<>> \in Seq(Line)
  BY <1>2 DEF StateRecords
<1>4. /\ s \in StateRecords /\ s.stream = InHandState(t).stream /\ s.merge = InHandState(t).merge
      /\ s.pending = InHandState(t).pending /\ s.rollup = <<>>
      /\ s.content = InHandState(t).content \o InHandState(t).rollup
  BY <1>2, <1>3 DEF StateRecords
<1> HIDE DEF s
<1>5. /\ Applies(t, "FlushToolUseRollup", s) /\ "FlushToolUseRollup" \in StateOps
      /\ UNCHANGED <<states, cancels, queued, tools, results, shown, orphaned, strayed>>
      /\ strayed' \in BOOLEAN
  BY DEF s, FlushToolUseRollup, StateOps, StatesInv, Shape, StatesTyped
<1>6. Shape' /\ Applied(t, "FlushToolUseRollup", s) /\ CancelIsNotLost' /\ Messages'
  BY <1>4, <1>5, LinesWrite
<1>7. View \in Views /\ View' \in Views
  BY <1>6, ViewTyped, NextViewTyped DEF StatesInv
<1>8. PICK p \in Spots, q \in Spots :
        /\ p # q /\ View'[p] = <<>> /\ View'[q] = View[q] \o View[p]
        /\ \A r \in Spots \ {p, q} : View'[r] = View[r]
  <2> DEFINE i == thread[t].ref
             r == [at |-> "rollup", of |-> i]
             c == [at |-> "content", of |-> i]
  <2>1. /\ r \in Spots /\ c \in Spots
        /\ View[r] = InHandState(t).rollup /\ View[c] = InHandState(t).content
        /\ View'[r] = s.rollup /\ View'[c] = s.content
        /\ \A q \in Spots \ {r, c} : View'[q] = View[q]
    BY <1>5, <1>6, AppliedView DEF StatesInv
  <2>2. r.at # c.at
    OBVIOUS
  <2>3. r # c
    BY <2>2
  <2> HIDE DEF r, c
  <2>4. View'[r] = <<>> /\ View'[c] = View[c] \o View[r]
    BY <2>1, <1>4
  <2> QED
    BY <2>1, <2>3, <2>4, Zenon
<1>9. Once(View) /\ Within(View, Free)
  BY DEF StatesInv, Lines
<1>10. Once(View') /\ Within(View', Free) /\ (Done(View, results) => Done(View', results))
  BY <1>7, <1>8, <1>9, LinesMove
<1>11. Lines'
  BY <1>5, <1>6, <1>10, AppliedLines DEF StatesInv, Lines, Once, Done
<1> QED
  BY <1>6, <1>11 DEF StatesInv

LEMMA StateStepInv == ASSUME StatesInv, NEW t \in Threads, StateStep(t) PROVE StatesInv'
BY StartWaitingInv, StopWaitingInv, StartMergeInv, StopMergeInv, SetPendingMsgInv,
   GetPendingMessageInv, AddToolUseInv, MarkToolUseCompleteInv, FlushToolUseRollupInv DEF StateStep

-----------------------------------------------------------------------------
(* The steps of SessionManager, as far as the states see them.             *)

\* A step of a thread that has nothing of the states in hand.
Away(t) ==
  /\ ThreadsTyped' /\ OthersStay(t) /\ ~Applying(t) /\ ~Applying(t)'
  /\ thread'[t].op \notin StateOps

LEMMA UntouchedInv ==
  ASSUME StatesInv, NEW t \in Threads, Away(t), UNCHANGED stateVars
  PROVE  StatesInv'
<1>1. Shape'
  BY ElsewhereShape DEF Away, StatesInv, Shape, StatesTyped, StateIds, stateVars
<1>2. CancelIsNotLost'
  BY ElsewhereCancels DEF Away, StatesInv, stateVars
<1>3. Messages'
  BY ElsewhereMessages DEF Away, StatesInv, stateVars, StateIds, Pending
<1>4. View' = View
  BY DEF View, stateVars, StateIds
<1>5. Lines'
  BY <1>1, <1>4, ElsewhereLines DEF Away, StatesInv, Lines, stateVars
<1> QED
  BY <1>1, <1>2, <1>3, <1>5 DEF StatesInv

LEMMA StillInv == StatesInv /\ UNCHANGED <<thread, stateVars>> => StatesInv'
<1> SUFFICES ASSUME StatesInv, UNCHANGED <<thread, stateVars>> PROVE StatesInv'
  OBVIOUS
<1>1. Shape'
  BY DEF StatesInv, Shape, StatesTyped, StateIds, stateVars, ThreadsTyped, StatesAreOwn,
         StateInHand, Applying, InMap
<1>2. CancelIsNotLost'
  BY DEF StatesInv, CancelIsNotLost, Held, stateVars
<1>3. Messages'
  BY DEF StatesInv, stateVars, Messages, MessageIsTakenOnce, PendingOnce, StateIds, Pending,
         SetsPending, Untaken, Applying
<1>4. View' = View
  BY DEF View, stateVars, StateIds
<1>5. Lines'
  BY <1>4 DEF StatesInv, Lines, stateVars, Adds, Completing, Applying, Free, Within, Done, Once
<1> QED
  BY <1>1, <1>2, <1>3, <1>5 DEF StatesInv

\* Select takes the content of the state for the screen.
LEMMA TakeContentInv ==
  ASSUME StatesInv, NEW t \in Threads, NEW session \in Sessions, Away(t), TakeContent(session),
         UNCHANGED <<states, cancels, queued, tools, results, orphaned, strayed>>
  PROVE  StatesInv'
<1>1. CASE states[session] = 0
  BY <1>1, UntouchedInv DEF TakeContent, stateVars
<1>2. CASE states[session] # 0
  <2> PICK i \in StateIds : i = states[session]
    BY <1>2 DEF StatesInv, Shape, StatesTyped, StateIds
  <2>1. /\ i \in Nat /\ made[i] \in StateRecords /\ shown \in Seq(Line)
        /\ made[i].content \in Seq(Line) /\ <<>> \in Seq(Line)
        /\ shown' = shown \o made[i].content /\ shown' \in Seq(Line)
        /\ made' = [made EXCEPT ![i].content = <<>>]
    <3>1. made \in Seq(StateRecords) /\ i \in Nat
      BY DEF StatesInv, Shape, StatesTyped, StateIds
    <3>2. made[i] \in StateRecords /\ shown \in Seq(Line)
      BY <3>1 DEF StatesInv, Shape, StatesTyped, StateIds
    <3>3. made[i].content \in Seq(Line)
      BY <3>2 DEF StateRecords
    <3>4. shown' = shown \o made[i].content /\ made' = [made EXCEPT ![i].content = <<>>]
      BY <1>2 DEF TakeContent
    <3>5. shown \o made[i].content \in Seq(Line) /\ <<>> \in Seq(Line)
      BY <3>2, <3>3
    <3> QED
      BY <3>1, <3>2, <3>3, <3>4, <3>5
  <2> DEFINE s == [made[i] EXCEPT !.content = <<>>]
  <2>2. /\ s \in StateRecords /\ s.content = <<>> /\ s.rollup = made[i].rollup
        /\ s.stream = made[i].stream /\ s.merge = made[i].merge /\ s.pending = made[i].pending
    BY <2>1 DEF StateRecords
  <2>3. made' = [made EXCEPT ![i] = s]
    BY <2>1
  <2> HIDE DEF s
  <2>4. /\ made' \in Seq(StateRecords) /\ Len(made') = Len(made) /\ StateIds' = StateIds
        /\ made'[i] = s /\ \A j \in StateIds \ {i} : made'[j] = made[j]
    BY <2>2, <2>3 DEF StatesInv, Shape, StatesTyped, StateIds
  <2>5. Shape'
    BY <2>1, <2>4, ElsewhereShape DEF Away, StatesInv, Shape, StatesTyped
  <2>6. CancelIsNotLost'
    BY <2>2, <2>4, ElsewhereCancels DEF Away, StatesInv
  <2>7. Messages'
    BY <2>2, <2>4, ElsewhereMessages DEF Away, StatesInv, Pending
  <2>8. View \in Views /\ View' \in Views
    BY <2>5, ViewTyped, NextViewTyped DEF StatesInv
  <2>9. PICK p \in Spots, q \in Spots :
          /\ p # q /\ View'[p] = <<>> /\ View'[q] = View[q] \o View[p]
          /\ \A r \in Spots \ {p, q} : View'[r] = View[r]
    <3> DEFINE c == [at |-> "content", of |-> i]
               z == [at |-> "screen", of |-> 0]
    <3>1. c \in Spots /\ z \in Spots /\ c.at # z.at
      BY <2>1 DEF Spots
    <3>2. View[c] = made[i].content /\ View[z] = shown
      BY <3>1 DEF View
    <3>3. View'[c] = <<>> /\ View'[z] = shown \o made[i].content
      BY <3>1, <2>1, <2>2, <2>4 DEF View
    <3>4. ASSUME NEW r \in Spots \ {c, z} PROVE View'[r] = View[r]
      <4>1. (r.at = "content" => r.of # i) /\ (r.at = "screen" => r.of # 0)
        BY DEF Spots
      <4> QED
        BY <4>1, <2>2, <2>4 DEF View
    <3> HIDE DEF c, z
    <3> QED
      BY <3>1, <3>2, <3>3, <3>4
  <2>10. Once(View') /\ Within(View', Free) /\ (Done(View, results) => Done(View', results))
    BY <2>8, <2>9, LinesMove DEF StatesInv, Lines
  <2>11. Lines'
    BY <2>5, <2>10, ElsewhereLines DEF Away, StatesInv, Once, Done
  <2> QED
    BY <2>5, <2>6, <2>7, <2>11 DEF StatesInv
<1> QED
  BY <1>1, <1>2

\* A deletion calls the cancel functions of the state and takes it out of the map.
LEMMA DeleteStateInv ==
  ASSUME StatesInv, NEW t \in Threads, NEW session \in Sessions, Away(t), DeleteState(session),
         UNCHANGED <<queued, tools, results, shown, strayed>>
  PROVE  StatesInv'
<1>0. /\ made \in Seq(StateRecords) /\ states \in [Sessions -> 0..Len(made)]
      /\ StateIds = 1..Len(made) /\ Len(made) \in Nat /\ orphaned \subseteq StateIds
  BY DEF StatesInv, Shape, StatesTyped, StateIds
<1>1. CASE states[session] = 0
  <2>1. states' = states
    BY <1>0, <1>1 DEF DeleteState
  <2> QED
    BY <1>1, <2>1, UntouchedInv DEF DeleteState, stateVars
<1>2. CASE states[session] # 0
  <2> PICK i \in StateIds : i = states[session]
    BY <1>0, <1>2
  <2> DEFINE s == [NoState EXCEPT !.waiting = made[i].waiting]
  <2>1. made[i] \in StateRecords /\ i \in Nat
    BY <1>0
  <2>2. /\ s \in StateRecords /\ s.content = <<>> /\ s.rollup = <<>> /\ s.pending = 0
        /\ s.stream = 0 /\ s.merge = 0
    <3>1. NoState \in StateRecords /\ made[i].waiting \in BOOLEAN
      BY <2>1 DEF StateRecords, NoState
    <3>2. /\ NoState.content = <<>> /\ NoState.rollup = <<>> /\ NoState.pending = 0
          /\ NoState.stream = 0 /\ NoState.merge = 0
      BY DEF NoState
    <3> QED
      BY <3>1, <3>2 DEF StateRecords
  <2>3. /\ states' = [states EXCEPT ![session] = 0] /\ made' = [made EXCEPT ![i] = s]
        /\ cancels' = [c \in DOMAIN cancels |->
                         IF c \in {made[i].stream, made[i].merge} THEN "called" ELSE cancels[c]]
        /\ orphaned' = IF \E u \in Threads : thread[u].at = "apply" /\ thread[u].ref = i
                       THEN orphaned \cup {i} ELSE orphaned
    BY <1>2 DEF DeleteState, Cancels
  <2> HIDE DEF s
  <2>4. /\ made' \in Seq(StateRecords) /\ Len(made') = Len(made) /\ StateIds' = StateIds
        /\ made'[i] = s /\ \A j \in StateIds \ {i} : made'[j] = made[j]
    BY <1>0, <2>2, <2>3 DEF StateIds
  <2>5. cancels' \in Seq({"given", "called", "released"}) /\ DOMAIN cancels' = DOMAIN cancels
    <3>1. cancels \in Seq({"given", "called", "released"})
      BY DEF StatesInv, Shape, StatesTyped
    <3>2. \A c \in DOMAIN cancels : cancels[c] \in {"given", "called", "released"}
      BY <3>1
    <3>3. cancels' \in [DOMAIN cancels -> {"given", "called", "released"}]
      BY <2>3, <3>2
    <3> QED
      BY <3>1, <3>3
  <2>6. /\ orphaned \subseteq orphaned' /\ orphaned' \subseteq orphaned \cup {i}
        /\ \A u \in Threads : Applying(u) /\ thread[u].ref = i => i \in orphaned'
    BY <2>3 DEF Applying
  <2>7. \A r \in Sessions : states'[r] = IF r = session THEN 0 ELSE states[r]
    BY <1>0, <2>3
  <2>8. \A r \in Sessions \ {session} : states[r] # i
    BY <1>0, <2>1 DEF StatesInv, Shape, StatesAreOwn
  <2>9. Shape'
    <3>1. StatesTyped'
      BY <1>0, <2>3, <2>4, <2>5, <2>6 DEF StatesInv, Shape, StatesTyped
    <3>2. StatesAreOwn'
      BY <1>0, <2>6, <2>7, <2>8 DEF StatesInv, Shape, StatesAreOwn
    <3>3. ASSUME NEW u \in Threads PROVE StateInHand(u)'
      <4>1. CASE u = t
        BY <4>1 DEF Away, StateInHand
      <4>2. CASE u # t
        <5>1. thread'[u] = thread[u] /\ StateInHand(u)
          BY <4>2 DEF Away, OthersStay, StatesInv, Shape
        <5>2. CASE Applying(u) /\ thread[u].ref = i
          BY <5>1, <5>2, <2>4, <2>6 DEF StateInHand, Applying
        <5>3. CASE Applying(u) /\ thread[u].ref # i
          <6>1. ASSUME NEW r \in Sessions, states[r] = thread[u].ref PROVE InMap(thread[u].ref)'
            BY <6>1, <5>1, <5>3, <2>7 DEF InMap
          <6>2. thread[u].op \in StateOps /\ thread[u].ref \in StateIds
                /\ (InMap(thread[u].ref) \/ thread[u].ref \in orphaned)
            BY <5>1, <5>3 DEF StateInHand
          <6>3. InMap(thread[u].ref)' \/ thread'[u].ref \in orphaned'
            BY <6>1, <6>2, <5>1, <2>6 DEF InMap
          <6> QED
            BY <6>2, <6>3, <5>1, <5>3, <2>4 DEF StateInHand, Applying
        <5> QED
          BY <5>1, <5>2, <5>3 DEF StateInHand, Applying
      <4> QED
        BY <4>1, <4>2
    <3> QED
      BY <3>1, <3>2, <3>3 DEF Shape, Away
  <2>10. CancelIsNotLost'
    <3> SUFFICES ASSUME NEW c \in DOMAIN cancels, cancels'[c] = "given"
                 PROVE  Held(c)' \/ \E j \in orphaned' : c \in {made'[j].stream, made'[j].merge}
      BY <2>5 DEF CancelIsNotLost
    <3>1. cancels[c] = "given" /\ c \notin {made[i].stream, made[i].merge}
      BY <2>3
    <3>2. CASE \E j \in orphaned : c \in {made[j].stream, made[j].merge}
      BY <3>1, <3>2, <1>0, <2>4, <2>6
    <3>3. CASE \E r \in Sessions : states[r] # 0 /\ c \in {made[states[r]].stream, made[states[r]].merge}
      <4>1. PICK r \in Sessions : states[r] # 0 /\ c \in {made[states[r]].stream, made[states[r]].merge}
        BY <3>3
      <4>2. r # session /\ states[r] \in StateIds \ {i}
        BY <4>1, <3>1, <1>0
      <4> QED
        BY <4>1, <4>2, <2>4, <2>7 DEF Held
    <3>4. CASE \E u \in Threads : thread[u].op \in Starts /\ thread[u].arg = c
      <4>1. PICK u \in Threads : thread[u].op \in Starts /\ thread[u].arg = c
        BY <3>4
      <4>2. thread'[u] = thread[u]
        BY <4>1 DEF Away, OthersStay, StatesInv, Shape, StateInHand, Starts, StateOps
      <4> QED
        BY <4>1, <4>2 DEF Held, Starts
    <3> QED
      BY <3>1, <3>2, <3>3, <3>4 DEF StatesInv, CancelIsNotLost, Held, Starts
  <2>11. Messages'
    <3>1. \A j \in StateIds : Pending(j)' \in {Pending(j), 0}
      BY <2>2, <2>4 DEF Pending
    <3> QED
      BY <3>1, <2>4, ElsewhereMessages DEF Away, StatesInv
  <2>12. View \in Views /\ View' \in Views
    BY <2>9, ViewTyped, NextViewTyped DEF StatesInv
  <2>13. \A p \in Spots : View'[p] \in {View[p], <<>>}
    BY <2>2, <2>4 DEF View
  <2>14. \A p \in Spots : \A n \in DOMAIN View'[p] : n \in DOMAIN View[p] /\ View'[p][n] = View[p][n]
    BY <2>13
  <2>15. Once(View') /\ Within(View', Free) /\ (Done(View, results) => Done(View', results))
    BY <2>12, <2>14, LinesStay DEF StatesInv, Lines
  <2>16. Lines'
    BY <2>9, <2>15, ElsewhereLines DEF Away, StatesInv, Once, Done
  <2> QED
    BY <2>9, <2>10, <2>11, <2>16 DEF StatesInv
<1> QED
  BY <1>1, <1>2

\* At first there are no states, and no thread has any in hand.
LEMMA InitStatesInv == StatesInit => StatesInv
<1> SUFFICES ASSUME StatesInit PROVE StatesInv
  OBVIOUS
<1>1. /\ made = <<>> /\ StateIds = {} /\ cancels = <<>> /\ queued = <<>> /\ shown = <<>>
      /\ tools = 0 /\ results = {} /\ orphaned = {} /\ strayed = FALSE
      /\ states = [s \in Sessions |-> 0]
  BY DEF StatesInit, StateIds
<1>2. \A t \in Threads : thread[t] = Idle /\ Idle.op = "none" /\ Idle.at = "idle"
  BY DEF StatesInit, Idle
<1>3. Idle \in ThreadRecords
  BY DEF Idle, ThreadRecords, Ops, Labels
<1>4. Shape
  <2>1. ThreadsTyped
    BY <1>3 DEF StatesInit, ThreadsTyped
  <2>2. StatesTyped
    <3>1. made \in Seq(StateRecords) /\ Len(made) = 0 /\ shown \in Seq(Line) /\ queued \in Seq(Nat)
          /\ cancels \in Seq({"given", "called", "released"})
      BY <1>1
    <3>2. states \in [Sessions -> 0..Len(made)]
      BY <1>1, <3>1
    <3>3. Len(made) <= MaxStates
      BY <3>1, StateBoundsAssumption
    <3>4. tools \in Nat /\ results \in SUBSET (1..tools) /\ orphaned \subseteq StateIds /\ strayed \in BOOLEAN
      BY <1>1
    <3> QED
      BY <3>1, <3>2, <3>3, <3>4 DEF StatesTyped
  <2>3. StatesAreOwn /\ \A t \in Threads : StateInHand(t)
    BY <1>1, <1>2 DEF StatesAreOwn, StateInHand, Applying, StateOps
  <2> QED
    BY <2>1, <2>2, <2>3 DEF Shape
<1>5. CancelIsNotLost /\ Messages
  BY <1>1, <1>2 DEF CancelIsNotLost, Messages, MessageIsTakenOnce, PendingOnce, SetsPending, Applying
<1>6. \A p \in Spots : View[p] = <<>>
  BY <1>1 DEF View
<1>7. Lines
  BY <1>2, <1>6 DEF Lines, Once, Within, Done, Adds, Completing, Applying
<1> QED
  BY <1>4, <1>5, <1>7 DEF StatesInv

-----------------------------------------------------------------------------
(* What the view says of the lines at a place.                             *)

-----------------------------------------------------------------------------
(* What the view says of the lines at a place.                             *)

\* The spot of line n at a place, and its number there.
SpotOf(p, n) ==
  IF p = 0 THEN [at |-> "screen", of |-> 0]
  ELSE IF n <= Len(made[p].rollup) THEN [at |-> "rollup", of |-> p] ELSE [at |-> "content", of |-> p]
NumberOf(p, n) ==
  IF p # 0 /\ n > Len(made[p].rollup) THEN n - Len(made[p].rollup) ELSE n

LEMMA LineOfPlace ==
  ASSUME Shape, NEW p \in Places, NEW n \in DOMAIN LinesAt(p)
  PROVE  /\ SpotOf(p, n) \in Spots /\ NumberOf(p, n) \in DOMAIN View[SpotOf(p, n)]
         /\ LinesAt(p)[n] = View[SpotOf(p, n)][NumberOf(p, n)]
<1>1. CASE p = 0
  <2>1. [at |-> "screen", of |-> 0] \in Spots
    BY DEF Spots
  <2>2. View[[at |-> "screen", of |-> 0]] = shown
    BY <2>1 DEF View
  <2> QED
    BY <1>1, <2>1, <2>2 DEF LinesAt, SpotOf, NumberOf
<1>2. CASE p # 0
  <2>1. p \in StateIds /\ p \in Nat /\ made[p] \in StateRecords
    BY <1>2 DEF Places, Shape, StatesTyped, StateIds
  <2>2. /\ made[p].rollup \in Seq(Line) /\ Len(made[p].rollup) \in Nat
        /\ made[p].content \in Seq(Line) /\ Len(made[p].content) \in Nat
        /\ DOMAIN made[p].rollup = 1..Len(made[p].rollup)
        /\ DOMAIN made[p].content = 1..Len(made[p].content)
    BY <2>1 DEF StateRecords
  <2>3. [at |-> "rollup", of |-> p] \in Spots /\ [at |-> "content", of |-> p] \in Spots
    BY <2>1 DEF Spots
  <2>4. /\ View[[at |-> "rollup", of |-> p]] = made[p].rollup
        /\ View[[at |-> "content", of |-> p]] = made[p].content
    BY <2>1, <2>3 DEF View
  <2>5. LinesAt(p) = made[p].rollup \o made[p].content
    BY <1>2 DEF LinesAt
  <2>6. /\ n \in 1..(Len(made[p].rollup) + Len(made[p].content))
        /\ LinesAt(p)[n] = IF n <= Len(made[p].rollup) THEN made[p].rollup[n]
                           ELSE made[p].content[n - Len(made[p].rollup)]
    <3>1. /\ DOMAIN (made[p].rollup \o made[p].content)
               = 1..(Len(made[p].rollup) + Len(made[p].content))
          /\ \A i \in DOMAIN (made[p].rollup \o made[p].content) :
               (made[p].rollup \o made[p].content)[i] =
                 IF i <= Len(made[p].rollup) THEN made[p].rollup[i]
                 ELSE made[p].content[i - Len(made[p].rollup)]
      BY <2>2, Concat, Zenon
    <3> QED
      BY <3>1, <2>5
  <2>7. CASE n <= Len(made[p].rollup)
    <3>1. /\ SpotOf(p, n) = [at |-> "rollup", of |-> p] /\ NumberOf(p, n) = n
          /\ n \in DOMAIN made[p].rollup
      BY <1>2, <2>2, <2>6, <2>7 DEF SpotOf, NumberOf
    <3> QED
      BY <3>1, <2>3, <2>4, <2>6, <2>7
  <2>8. CASE ~(n <= Len(made[p].rollup))
    <3>1. \A a, b \in Nat : \A i \in 1..(a + b) : ~(i <= a) => i > a /\ i - a \in 1..b
      OBVIOUS
    <3>2. n > Len(made[p].rollup) /\ n - Len(made[p].rollup) \in DOMAIN made[p].content
      BY <3>1, <2>2, <2>6, <2>8, Zenon
    <3>3. /\ SpotOf(p, n) = [at |-> "content", of |-> p]
          /\ NumberOf(p, n) = n - Len(made[p].rollup)
      BY <1>2, <2>8, <3>2 DEF SpotOf, NumberOf
    <3> QED
      BY <3>2, <3>3, <2>3, <2>4, <2>6, <2>8
  <2> QED
    BY <2>7, <2>8
<1> QED
  BY <1>1, <1>2

LEMMA ShownOnce == StatesInv => ToolIsShownOnce
<1> SUFFICES ASSUME StatesInv, NEW p \in Places, NEW q \in Places,
                    NEW n \in DOMAIN LinesAt(p), NEW m \in DOMAIN LinesAt(q),
                    LinesAt(p)[n].tool = LinesAt(q)[m].tool
             PROVE  p = q /\ n = m
  BY DEF ToolIsShownOnce
<1>1. SpotOf(p, n) = SpotOf(q, m) /\ NumberOf(p, n) = NumberOf(q, m)
  BY LineOfPlace DEF StatesInv, Lines, Once
<1>2. ASSUME NEW r \in Places, NEW k \in DOMAIN LinesAt(r)
      PROVE  k \in Nat /\ SpotOf(r, k).of = r /\ (r # 0 => Len(made[r].rollup) \in Nat)
  <2>1. r # 0 => made[r].rollup \in Seq(Line) /\ made[r].content \in Seq(Line)
    <3>1. r # 0 => made[r] \in StateRecords
      BY DEF StatesInv, Shape, StatesTyped, StateIds, Places
    <3> QED
      BY <3>1 DEF StateRecords
  <2>2. LinesAt(r) \in Seq(Line)
    BY <2>1 DEF LinesAt, StatesInv, Shape, StatesTyped
  <2> QED
    BY <2>1, <2>2 DEF SpotOf
<1>3. p = q
  BY <1>1, <1>2
<1>4. CASE p = 0
  BY <1>1, <1>3, <1>4 DEF NumberOf
<1>5. CASE p # 0
  <2>1. n <= Len(made[p].rollup) <=> m <= Len(made[p].rollup)
    <3>1. /\ SpotOf(p, n).at = IF n <= Len(made[p].rollup) THEN "rollup" ELSE "content"
          /\ SpotOf(p, m).at = IF m <= Len(made[p].rollup) THEN "rollup" ELSE "content"
      BY <1>5 DEF SpotOf
    <3> QED
      BY <3>1, <1>1, <1>3
  <2>2. n \in Nat /\ m \in Nat /\ Len(made[p].rollup) \in Nat
    BY <1>2, <1>5
  <2> QED
    BY <2>1, <2>2, <1>1, <1>3, <1>5 DEF NumberOf
<1> QED
  BY <1>3, <1>4, <1>5

LEMMA DoneByResults == StatesInv => ToolsAreDoneByTheirResults
<1> SUFFICES ASSUME StatesInv, ~strayed, NEW p \in Places, NEW n \in DOMAIN LinesAt(p),
                    LinesAt(p)[n].complete
             PROVE  LinesAt(p)[n].tool \in results
  BY DEF ToolsAreDoneByTheirResults
<1> QED
  BY LineOfPlace DEF StatesInv, Lines, Done

=============================================================================
