---------------------------- MODULE RunnerProofs ----------------------------
(***************************************************************************)
(* The response channels of a Runner, for any number of requests, managers *)
(* and processes: the inductive invariant of Runner and the theorems that  *)
(* follow from it, and then what is needed in addition to show that a      *)
(* request has its end before the last goroutine that could tell it goes.  *)
(***************************************************************************)
EXTENDS Runner, TLAPS

\* The goroutines of a process exist only once it has been launched.
Numbering ==
  \A p \in Procs :
    reader[p] # "none" \/ exit[p] # "none" \/ proc[p] # "none" => p <= launched

\* SendContent writes to a process it has looked up, and tells before it closes.
Sending ==
  \A q \in Requests :
    /\ sender[q] = "write" => target[q] # Nil
    /\ sender[q] \in {"cleanup", "close"} /\ panic = "none" => end[q] # "none"

Unset == {"idle", "setup"}

\* Requests are set up in their order, and the current channel is the last one's.
Order ==
  \A q \in Requests :
    /\ sender[q] \in Unset => channel < q
    /\ sender[q] \notin Unset \cup {"done"} => q <= channel
    /\ chan[q] = "closed" \/ q \in cut => sender[q] \notin Unset
    /\ sender[q] # "idle" => \A r \in Requests : r < q => sender[r] \notin Unset

\* A SendContent that is still under way when a later request is current is an
\* overlap.
Overlaps ==
  \A q \in Requests : q < channel /\ sender[q] # "done" => channel \in overlapped

RequestSide ==
  Sending /\ Order /\ Overlaps /\ FlagsAreTrue /\ NoBareClose

IInv == TypeOK /\ Numbering /\ RequestSide

\* What a step leaves alone that is no part of a request.
requestVars ==
  <<channel, closed, chan, end, missed, sender, target, overlapped>>

-----------------------------------------------------------------------------
(* Steps that leave requests alone, and SendContent moving on.             *)

LEMMA InitInv == Init => IInv
<1> SUFFICES ASSUME Init PROVE IInv
  OBVIOUS
<1> USE RequestsAssumption, ProcessesAssumption, ManagersAssumption,
    AttemptsAssumption, LinesAssumption, CallsAssumption DEF Init
<1>1. RunnerOK
  <2>1. chan \in [Requests -> {"unmade", "open", "closed"}]
    OBVIOUS
  <2>2. end \in [Requests -> {"none", "done", "error"}]
    OBVIOUS
  <2>3. processManager \in 0..managers
    BY DEF Nil
  <2> QED
    BY <2>1, <2>2, <2>3, Zenon DEF RunnerOK, Nil
<1>0. ManagersOK
  BY DEF ManagersOK, Managers
<1>2. ProcessesOK
  BY DEF ProcessesOK, Procs, Nil, Lines
<1>3. GoroutinesOK
  <2>1. sender \in [Requests -> SenderStates] /\ target \in [Requests -> Procs \cup {Nil}]
    BY DEF SenderStates, Nil
  <2>2. /\ reader \in [Procs -> ReaderStates] /\ line \in [Procs -> Lines]
        /\ snap \in [Procs -> Requests \cup {Nil}] /\ exit \in [Procs -> ExitStates]
    BY DEF ReaderStates, ExitStates, Lines, Nil
  <2>3. calls \in 0..MaxCalls
    OBVIOUS
  <2> QED
    BY <2>1, <2>2, <2>3, Zenon DEF GoroutinesOK, StopStates, Nil
<1>4. Numbering /\ Sending /\ Overlaps
  BY DEF Numbering, Sending, Overlaps, Nil, Requests
<1>5. Order /\ FlagsAreTrue /\ NoBareClose
  BY DEF Order, Unset, FlagsAreTrue, NoBareClose, ChannelOpen, Nil, Requests
<1> QED
  BY <1>1, <1>0, <1>2, <1>3, <1>4, <1>5 DEF IInv, TypeOK, RequestSide

\* What becomes of the other variables is enough: streaming may stop, a send may
\* panic, a result may stray and the current request may be interrupted.
LEMMA RequestSideKept ==
  ASSUME TypeOK, RequestSide, UNCHANGED requestVars,
         active' => active, panic' = panic \/ panic' = "send",
         strayed \subseteq strayed',
         \A q \in cut' : q \in cut \/ q = channel
  PROVE  RequestSide'
<1> USE DEF RequestSide, requestVars
<1>1. Sending' /\ Overlaps'
  BY DEF Sending, Overlaps
<1>2. Order'
  <2> SUFFICES ASSUME NEW q \in Requests, sender[q] \in Unset
               PROVE  q \notin cut'
    BY DEF Order
  <2>1. channel < q /\ q \notin cut
    BY DEF Order
  <2> QED
    BY <2>1 DEF TypeOK, RunnerOK, Requests, Nil
<1>3. FlagsAreTrue' /\ NoBareClose'
  BY DEF FlagsAreTrue, NoBareClose, ChannelOpen
<1> QED
  BY <1>1, <1>2, <1>3

\* SendContent moves on without touching a channel.
LEMMA SenderMoves ==
  ASSUME TypeOK, RequestSide, NEW q \in Requests, NEW to,
         sender[q] \notin Unset \cup {"done"}, to \notin Unset \cup {"cleanup", "close"},
         sender' = [sender EXCEPT ![q] = to],
         to = "write" => target'[q] # Nil,
         \A r \in Requests : r # q => target'[r] = target[r],
         UNCHANGED <<channel, closed, active, chan, end, panic, cut, strayed, overlapped,
                     missed>>
  PROVE  RequestSide'
<1> USE DEF RequestSide, TypeOK, GoroutinesOK
<1>1. Sending'
  BY DEF Sending
<1>2. Order'
  BY DEF Order, Unset
<1>3. Overlaps'
  BY DEF Overlaps
<1>4. FlagsAreTrue' /\ NoBareClose'
  BY DEF FlagsAreTrue, NoBareClose, ChannelOpen
<1> QED
  BY <1>1, <1>2, <1>3, <1>4

\* The error is sent to the request's own channel, or the program panics.
LEMMA SenderTells ==
  ASSUME TypeOK, RequestSide, NEW q \in Requests, NEW to,
         sender[q] \notin Unset \cup {"done"}, to \notin Unset \cup {"write"},
         sender' = [sender EXCEPT ![q] = to], SendError(q),
         UNCHANGED <<channel, closed, active, chan, target, cut, strayed, overlapped,
                     missed>>
  PROVE  RequestSide'
<1> USE DEF RequestSide, TypeOK, GoroutinesOK, RunnerOK, SendError
<1>1. Sending'
  BY DEF Sending
<1>2. Order'
  BY DEF Order, Unset
<1>3. Overlaps'
  BY DEF Overlaps
<1>4. FlagsAreTrue' /\ NoBareClose'
  BY DEF FlagsAreTrue, NoBareClose, ChannelOpen
<1> QED
  BY <1>1, <1>2, <1>3, <1>4

\* Whoever may send comes after every request that has been set up.
LEMMA InTurn ==
  ASSUME TypeOK, Order, NEW q \in Requests, MaySend(q)
  PROVE  /\ channel < q
         /\ \A r \in Requests : r < q => sender[r] \notin Unset
         /\ \A r \in Requests : q < r => sender[r] = "idle"
<1>1. channel < q
  BY DEF Order, Unset, MaySend
<1>2. ASSUME NEW r \in Requests, r < q PROVE sender[r] \notin Unset
  <2>1. q - 1 \in Requests /\ q > 1
    BY <1>2, RequestsAssumption DEF Requests
  <2>2. sender[q - 1] \notin Unset
    BY <2>1 DEF Order, MaySend
  <2>3. r = q - 1 \/ r < q - 1
    BY <1>2 DEF Requests
  <2> QED
    BY <2>1, <2>2, <2>3, <1>2 DEF Order, Unset
<1>3. ASSUME NEW r \in Requests, q < r PROVE sender[r] = "idle"
  BY <1>3 DEF Order, Unset, MaySend
<1> QED
  BY <1>1, <1>2, <1>3

-----------------------------------------------------------------------------
(* SendContent.                                                            *)

\* ensureServerRunning fails: the channel is closed with an error before anyone knows it.
LEMMA SendFailsEarlyInv ==
  ASSUME IInv, NEW q \in Requests, SendFailsEarly(q)
  PROVE  IInv'
<1> USE DEF SendFailsEarly, MaySend, streamVars, managerVars, procVars,
    readerVars, stopVars, userVars, IInv, TypeOK, RequestSide
<1>1. RunnerOK' /\ ManagersOK' /\ ProcessesOK' /\ Numbering'
  BY DEF RunnerOK, ManagersOK, ProcessesOK, Numbering
<1>2. GoroutinesOK'
  BY DEF GoroutinesOK, SenderStates, Unset
<1>3. Sending'
  BY DEF Sending, GoroutinesOK, RunnerOK
<1>4. Order'
  BY InTurn DEF Order, Unset, GoroutinesOK, RunnerOK
<1>5. Overlaps'
  BY DEF Overlaps, GoroutinesOK
<1>6. FlagsAreTrue'
  BY DEF FlagsAreTrue, ChannelOpen, RunnerOK
<1>7. NoBareClose'
  BY DEF NoBareClose, RunnerOK
<1> QED
  BY <1>1, <1>2, <1>3, <1>4, <1>5, <1>6, <1>7

\* A request begins only after the previous one was current, which keeps the order.
LEMMA SendBeginsInv ==
  ASSUME IInv, NEW q \in Requests, SendBegins(q)
  PROVE  IInv'
<1> USE DEF SendBegins, MaySend, streamVars, managerVars, procVars,
    readerVars, stopVars, userVars, IInv, TypeOK, RequestSide
<1>1. RunnerOK' /\ ManagersOK' /\ ProcessesOK' /\ Numbering'
  BY DEF RunnerOK, ManagersOK, ProcessesOK, Numbering
<1>2. GoroutinesOK'
  BY DEF GoroutinesOK, SenderStates, Unset
<1>3. Sending'
  BY DEF Sending, GoroutinesOK, RunnerOK
<1>4. Order'
  BY InTurn DEF Order, Unset, GoroutinesOK, RunnerOK
<1>5. Overlaps'
  BY DEF Overlaps, GoroutinesOK
<1>6. FlagsAreTrue'
  BY InTurn DEF FlagsAreTrue, ChannelOpen, RunnerOK, Requests, Nil
<1>7. NoBareClose'
  BY DEF NoBareClose, RunnerOK
<1> QED
  BY <1>1, <1>2, <1>3, <1>4, <1>5, <1>6, <1>7

\* The new channel is the latest; whoever is still in SendContent makes it overlap.
LEMMA SetUpInv ==
  ASSUME IInv, NEW q \in Requests, SetUp(q)
  PROVE  IInv'
<1> USE DEF SetUp, Moves, SetupClosed, managerVars, procVars, readerVars,
    stopVars, IInv, TypeOK, RequestSide
<1>1. RunnerOK' /\ ManagersOK' /\ ProcessesOK' /\ Numbering'
  BY DEF RunnerOK, ManagersOK, ProcessesOK, Numbering
<1>2. GoroutinesOK'
  BY DEF GoroutinesOK, SenderStates, Unset
<1>3. Sending'
  BY DEF Sending, GoroutinesOK, RunnerOK
<1>4. Order'
  BY RequestsAssumption DEF Order, Unset, Requests, RunnerOK, GoroutinesOK, Nil
<1>5. Overlaps'
  BY RequestsAssumption DEF Overlaps, Requests, GoroutinesOK
<1>6. FlagsAreTrue'
  BY DEF FlagsAreTrue, ChannelOpen, Requests, Nil
<1>7. NoBareClose'
  BY DEF NoBareClose, RunnerOK
<1> QED
  BY <1>1, <1>2, <1>3, <1>4, <1>5, <1>6, <1>7

\* A channel has a slot again.
LEMMA ReceivesInv ==
  ASSUME IInv, NEW q \in Requests, Receives(q)
  PROVE  IInv'
<1> USE DEF Receives, streamVars, managerVars, procVars, senderVars,
    readerVars, stopVars, userVars, IInv, TypeOK
<1>1. RunnerOK' /\ ManagersOK' /\ ProcessesOK' /\ Numbering'
  BY DEF RunnerOK, ManagersOK, ProcessesOK, Numbering
<1>2. GoroutinesOK'
  BY DEF GoroutinesOK, SenderStates, Unset
<1>3. RequestSide'
  BY RequestSideKept DEF requestVars
<1> QED
  BY <1>1, <1>2, <1>3

\* A process runs already.
LEMMA ProcessIsRunningInv ==
  ASSUME IInv, NEW q \in Requests, ProcessIsRunning(q)
  PROVE  IInv'
<1> USE DEF ProcessIsRunning, Moves, IsRunning, streamVars, channelVars,
    managerVars, procVars, readerVars, stopVars, userVars, IInv, TypeOK
<1>1. RunnerOK' /\ ManagersOK' /\ ProcessesOK' /\ Numbering'
  BY DEF RunnerOK, ManagersOK, ProcessesOK, Numbering
<1>2. GoroutinesOK'
  BY DEF GoroutinesOK, SenderStates, Unset
<1>3. RequestSide'
  BY SenderMoves DEF Unset, Requests
<1> QED
  BY <1>1, <1>2, <1>3

\* The next process has an owner too.
LEMMA OneMoreOwner ==
  ASSUME NEW n \in Nat, n + 1 \in Procs, NEW m \in Nat, NEW f \in [Procs -> 0..m],
         \A o \in 1..n : f[o] # Nil, NEW g, g = [f EXCEPT ![n + 1] = m + 1]
  PROVE  \A o \in 1..n + 1 : g[o] # Nil
<1> SUFFICES ASSUME NEW o \in 1..n + 1 PROVE g[o] # Nil
  OBVIOUS
<1>1. CASE o = n + 1
  BY <1>1 DEF Nil
<1>2. CASE o # n + 1
  <2>1. o \in 1..n /\ o \in Procs
    BY <1>2, ProcessesAssumption DEF Procs
  <2> QED
    BY <1>2, <2>1
<1> QED
  BY <1>1, <1>2

\* A fresh manager launches the next process.
LEMMA StartsProcessInv ==
  ASSUME IInv, NEW q \in Requests, StartsProcess(q)
  PROVE  IInv'
<1> USE DEF StartsProcess, Moves, IsRunning, FreshManager, Launch, streamVars,
    channelVars, stopVars, userVars, IInv, TypeOK
<1>1. RunnerOK'
  BY ManagersAssumption DEF RunnerOK, ManagersOK, Managers
<1>2. ManagersOK'
  BY ManagersAssumption DEF ManagersOK, Managers, RunnerOK
<1>3. owner' \in [Procs -> 0..managers']
  BY ManagersAssumption DEF ProcessesOK, ManagersOK, RunnerOK
<1>4. /\ \A o \in 1..launched : owner[o] # Nil
      /\ launched \in Nat /\ launched' = launched + 1 /\ launched + 1 \in Procs
      /\ owner \in [Procs -> 0..managers] /\ owner' = [owner EXCEPT ![launched + 1] = managers + 1]
      /\ managers \in Nat
  BY ManagersAssumption, ProcessesAssumption DEF ProcessesOK, ManagersOK
<1>5. launched' \in 0..MaxProcesses /\ proc' \in [Procs -> {"none", "alive", "dead"}]
  BY ProcessesAssumption DEF ProcessesOK, Procs
<1>6. ProcessesOK'
  <2>1. \A o \in 1..launched' : owner'[o] # Nil
    BY <1>4, OneMoreOwner
  <2> QED
    BY <1>3, <1>5, <2>1 DEF ProcessesOK
<1>7. GoroutinesOK'
  BY DEF GoroutinesOK, SenderStates, ReaderStates, ExitStates
<1>8. Numbering'
  <2>1. \A o \in Procs : o # launched + 1 =>
          reader'[o] = reader[o] /\ exit'[o] = exit[o] /\ proc'[o] = proc[o]
    BY DEF ProcessesOK, GoroutinesOK
  <2>2. \A o \in Procs : o # launched + 1 /\ (reader'[o] # "none" \/ exit'[o] # "none" \/ proc'[o] # "none")
                         => o <= launched
    BY <2>1 DEF Numbering
  <2>3. \A o \in Procs : o <= launched \/ o = launched + 1 => o <= launched'
    BY <1>4 DEF Procs
  <2> QED
    BY <2>2, <2>3 DEF Numbering
<1>9. RequestSide'
  BY SenderMoves DEF Unset, Requests
<1> QED
  BY <1>1, <1>2, <1>3, <1>4, <1>5, <1>6, <1>7, <1>8, <1>9

\* A fresh manager, without a process.
LEMMA StartFailsInv ==
  ASSUME IInv, NEW q \in Requests, StartFails(q)
  PROVE  IInv'
<1> USE DEF StartFails, Moves, IsRunning, streamVars, channelVars, procVars,
    readerVars, stopVars, userVars, IInv, TypeOK
<1>1. RunnerOK'
  BY ManagersAssumption DEF RunnerOK, ManagersOK, Managers
<1>2. ManagersOK'
  BY ManagersAssumption DEF ManagersOK
<1>3. ProcessesOK'
  BY DEF ProcessesOK, ManagersOK
<1>4. GoroutinesOK'
  BY DEF GoroutinesOK, SenderStates, Unset
<1>5. Numbering'
  BY DEF Numbering
<1>6. RequestSide'
  BY SenderMoves DEF Unset, Requests
<1> QED
  BY <1>1, <1>2, <1>3, <1>4, <1>5, <1>6

\* The error reaches the channel, or the program panics.
LEMMA TellsStartErrorInv ==
  ASSUME IInv, NEW q \in Requests, TellsStartError(q)
  PROVE  IInv'
<1> USE DEF TellsStartError, Moves, SendError, streamVars, managerVars,
    procVars, readerVars, stopVars, userVars, IInv, TypeOK
<1>1. RunnerOK' /\ ManagersOK' /\ ProcessesOK' /\ Numbering'
  BY DEF RunnerOK, ManagersOK, ProcessesOK, Numbering
<1>2. GoroutinesOK'
  BY DEF GoroutinesOK, SenderStates, Unset
<1>3. RequestSide'
  BY SenderTells DEF Unset
<1> QED
  BY <1>1, <1>2, <1>3

\* closeResponseChannel hits another request's channel only when requests overlap.
LEMMA CleansUpInv ==
  ASSUME IInv, NEW q \in Requests, panic = "none", CleansUp(q)
  PROVE  IInv'
<1> USE DEF CleansUp, Moves, CloseResponseChannel, ChannelOpen, Close,
    managerVars, procVars, readerVars, stopVars, userVars, IInv, TypeOK,
    RequestSide
<1>1. RunnerOK' /\ ManagersOK' /\ ProcessesOK' /\ Numbering'
  BY DEF RunnerOK, ManagersOK, ProcessesOK, Numbering
<1>2. GoroutinesOK'
  BY DEF GoroutinesOK, SenderStates, Unset
<1>3. \A r \in Requests : chan'[r] = "closed" => chan[r] = "closed" \/ r = channel
  BY DEF RunnerOK
<1>4. \A r \in Requests : sender[r] \in Unset => r # channel
  BY DEF Order, RunnerOK, Requests, Nil
<1>5. Order'
  BY <1>3, <1>4 DEF Order, Unset, GoroutinesOK, RunnerOK
<1>6. Sending'
  BY DEF Sending, GoroutinesOK, RunnerOK
<1>7. Overlaps'
  BY DEF Overlaps, GoroutinesOK
<1>8. FlagsAreTrue'
  BY DEF FlagsAreTrue, ChannelOpen, RunnerOK
<1>9. channel = q \/ channel \in overlapped
  BY DEF Order, Overlaps, Unset, RunnerOK, Requests, Nil
<1>10. end[q] # "none"
  BY DEF Sending
<1>11. NoBareClose'
  BY <1>3, <1>9, <1>10 DEF NoBareClose, RunnerOK
<1> QED
  BY <1>1, <1>2, <1>3, <1>4, <1>5, <1>6, <1>7, <1>8, <1>9, <1>10, <1>11

\* The process WriteMessage will write to exists.
LEMMA LooksUpStdinInv ==
  ASSUME IInv, NEW q \in Requests, LooksUpStdin(q)
  PROVE  IInv'
<1> USE DEF LooksUpStdin, Moves, IsRunning, Latest, streamVars, channelVars,
    managerVars, procVars, readerVars, stopVars, userVars, IInv, TypeOK,
    RequestSide
<1>1. RunnerOK' /\ ManagersOK' /\ ProcessesOK' /\ Numbering'
  BY DEF RunnerOK, ManagersOK, ProcessesOK, Numbering
<1>2. GoroutinesOK'
  BY DEF GoroutinesOK, SenderStates, Unset
<1>3. PICK p \in Procs : target' = [target EXCEPT ![q] = p]
  OBVIOUS
<1>4. target'[q] # Nil /\ \A r \in Requests : r # q => target'[r] = target[r]
  BY <1>3, ProcessesAssumption DEF GoroutinesOK, Procs, Nil
<1>5. RequestSide'
  BY <1>4, SenderMoves DEF Unset, Requests
<1> QED
  BY <1>1, <1>2, <1>3, <1>4, <1>5

\* WriteMessage finds the manager not running.
LEMMA NotRunningInv ==
  ASSUME IInv, NEW q \in Requests, NotRunning(q)
  PROVE  IInv'
<1> USE DEF NotRunning, Moves, IsRunning, streamVars, channelVars,
    managerVars, procVars, readerVars, stopVars, userVars, IInv, TypeOK
<1>1. RunnerOK' /\ ManagersOK' /\ ProcessesOK' /\ Numbering'
  BY DEF RunnerOK, ManagersOK, ProcessesOK, Numbering
<1>2. GoroutinesOK'
  BY DEF GoroutinesOK, SenderStates, Unset
<1>3. RequestSide'
  BY SenderMoves DEF Unset, Requests
<1> QED
  BY <1>1, <1>2, <1>3

\* The message is written.
LEMMA WritesInv ==
  ASSUME IInv, NEW q \in Requests, Writes(q)
  PROVE  IInv'
<1> USE DEF Writes, Moves, streamVars, channelVars, managerVars, readerVars,
    stopVars, userVars, IInv, TypeOK, RequestSide
<1>1. RunnerOK' /\ ManagersOK' /\ Numbering'
  BY DEF RunnerOK, ManagersOK, Numbering
<1>2. target[q] \in Procs
  BY DEF Sending, RequestSide, GoroutinesOK
<1>3. ProcessesOK'
  BY <1>2 DEF ProcessesOK
<1>4. GoroutinesOK'
  BY DEF GoroutinesOK, SenderStates, Nil
<1>5. \A r \in Requests : r # q => target'[r] = target[r]
  BY DEF GoroutinesOK
<1>6. RequestSide'
  BY <1>5, SenderMoves DEF Unset, Requests
<1> QED
  BY <1>1, <1>2, <1>3, <1>4, <1>5, <1>6

\* The message is not written.
LEMMA WriteFailsInv ==
  ASSUME IInv, NEW q \in Requests, WriteFails(q)
  PROVE  IInv'
<1> USE DEF WriteFails, Moves, streamVars, channelVars, managerVars, procVars,
    readerVars, stopVars, userVars, IInv, TypeOK, RequestSide
<1>1. RunnerOK' /\ ManagersOK' /\ ProcessesOK' /\ Numbering'
  BY DEF RunnerOK, ManagersOK, ProcessesOK, Numbering
<1>2. GoroutinesOK'
  BY DEF GoroutinesOK, SenderStates, Nil
<1>3. \A r \in Requests : r # q => target'[r] = target[r]
  BY DEF GoroutinesOK
<1>4. RequestSide'
  BY <1>3, SenderMoves DEF Unset, Requests
<1> QED
  BY <1>1, <1>2, <1>3, <1>4

\* The error reaches the channel, or the program panics.
LEMMA TellsWriteErrorInv ==
  ASSUME IInv, NEW q \in Requests, TellsWriteError(q)
  PROVE  IInv'
<1> USE DEF TellsWriteError, Moves, SendError, streamVars, managerVars,
    procVars, readerVars, stopVars, userVars, IInv, TypeOK
<1>1. RunnerOK' /\ ManagersOK' /\ ProcessesOK' /\ Numbering'
  BY DEF RunnerOK, ManagersOK, ProcessesOK, Numbering
<1>2. GoroutinesOK'
  BY DEF GoroutinesOK, SenderStates, Unset
<1>3. RequestSide'
  BY SenderTells DEF Unset
<1> QED
  BY <1>1, <1>2, <1>3

\* The channel closed directly has been told the error.
LEMMA ClosesDirectlyInv ==
  ASSUME IInv, NEW q \in Requests, panic = "none", ClosesDirectly(q)
  PROVE  IInv'
<1> USE DEF ClosesDirectly, Moves, Close, streamVars, managerVars, procVars,
    readerVars, stopVars, userVars, IInv, TypeOK, RequestSide
<1>1. RunnerOK' /\ ManagersOK' /\ ProcessesOK' /\ Numbering'
  BY DEF RunnerOK, ManagersOK, ProcessesOK, Numbering
<1>2. GoroutinesOK'
  BY DEF GoroutinesOK, SenderStates, Unset
<1>3. Sending'
  BY DEF Sending, GoroutinesOK, RunnerOK
<1>4. Order'
  BY DEF Order, Unset, GoroutinesOK, RunnerOK
<1>5. Overlaps'
  BY DEF Overlaps, GoroutinesOK
<1>6. FlagsAreTrue'
  BY DEF FlagsAreTrue, ChannelOpen, RunnerOK
<1>7. NoBareClose'
  BY DEF NoBareClose, Sending, RunnerOK
<1> QED
  BY <1>1, <1>2, <1>3, <1>4, <1>5, <1>6, <1>7

-----------------------------------------------------------------------------
(* The Claude process.                                                     *)

\* The process writes a line.
LEMMA ProcWritesInv ==
  ASSUME IInv, NEW p \in Procs, NEW l \in Lines, ProcWrites(p, l)
  PROVE  IInv'
<1> USE DEF ProcWrites, streamVars, channelVars, managerVars, senderVars,
    readerVars, stopVars, userVars, IInv, TypeOK
<1>1. RunnerOK' /\ ManagersOK' /\ Numbering'
  BY DEF RunnerOK, ManagersOK, Numbering
<1>2. ProcessesOK'
  BY LinesAssumption DEF ProcessesOK
<1>3. GoroutinesOK'
  BY DEF GoroutinesOK, Lines
<1>4. RequestSide'
  BY RequestSideKept DEF requestVars
<1> QED
  BY <1>1, <1>2, <1>3, <1>4

\* The process exits.
LEMMA ProcExitsInv ==
  ASSUME IInv, NEW p \in Procs, ProcExits(p)
  PROVE  IInv'
<1> USE DEF ProcExits, streamVars, channelVars, managerVars, senderVars,
    readerVars, stopVars, userVars, IInv, TypeOK
<1>1. RunnerOK' /\ ManagersOK' /\ Numbering'
  BY DEF RunnerOK, ManagersOK, Numbering
<1>2. ProcessesOK'
  BY LinesAssumption DEF ProcessesOK
<1>3. GoroutinesOK'
  BY DEF GoroutinesOK, Lines
<1>4. RequestSide'
  BY RequestSideKept DEF requestVars
<1> QED
  BY <1>1, <1>2, <1>3, <1>4

-----------------------------------------------------------------------------
(* HandleProcessLine.                                                      *)

\* A line leaves the pipe.
LEMMA TakesLineInv ==
  ASSUME IInv, NEW p \in Procs, TakesLine(p)
  PROVE  IInv'
<1> USE DEF TakesLine, Moves, streamVars, channelVars, managerVars,
    senderVars, stopVars, userVars, IInv, TypeOK
<1>1. RunnerOK' /\ ManagersOK' /\ ProcessesOK' /\ Numbering'
  BY DEF RunnerOK, ManagersOK, ProcessesOK, Numbering
<1>2. Head(out[p]) \in Lines
  BY DEF ProcessesOK
<1>3. GoroutinesOK'
  BY <1>2 DEF GoroutinesOK, ReaderStates
<1>4. RequestSide'
  BY RequestSideKept DEF requestVars
<1> QED
  BY <1>1, <1>2, <1>3, <1>4

\* readOutput ends.
LEMMA ReaderEndsInv ==
  ASSUME IInv, NEW p \in Procs, ReaderEnds(p)
  PROVE  IInv'
<1> USE DEF ReaderEnds, Moves, streamVars, channelVars, managerVars,
    senderVars, stopVars, userVars, IInv, TypeOK
<1>1. RunnerOK' /\ ManagersOK' /\ ProcessesOK' /\ Numbering'
  BY DEF RunnerOK, ManagersOK, ProcessesOK, Numbering
<1>2. GoroutinesOK'
  BY DEF GoroutinesOK, ReaderStates, Lines, Nil
<1>3. RequestSide'
  BY RequestSideKept DEF requestVars
<1> QED
  BY <1>1, <1>2, <1>3

\* The channel is looked up.
LEMMA LooksUpChannelInv ==
  ASSUME IInv, NEW p \in Procs, LooksUpChannel(p)
  PROVE  IInv'
<1> USE DEF LooksUpChannel, ChannelOpen, streamVars, channelVars, managerVars,
    procVars, senderVars, stopVars, userVars, IInv, TypeOK
<1>1. RunnerOK' /\ ManagersOK' /\ ProcessesOK' /\ Numbering'
  BY DEF RunnerOK, ManagersOK, ProcessesOK, Numbering
<1>2. snap' \in [Procs -> Requests \cup {Nil}]
  BY DEF GoroutinesOK, RunnerOK
<1>3. GoroutinesOK'
  BY <1>2 DEF GoroutinesOK, ReaderStates
<1>4. RequestSide'
  BY RequestSideKept DEF requestVars
<1> QED
  BY <1>1, <1>2, <1>3, <1>4

\* A chunk without Done ends nothing.
LEMMA SendsTextInv ==
  ASSUME IInv, NEW p \in Procs, SendsText(p)
  PROVE  IInv'
<1> USE DEF SendsText, Moves, SendMore, streamVars, managerVars, procVars,
    senderVars, stopVars, userVars, IInv, TypeOK
<1>1. ManagersOK' /\ ProcessesOK' /\ Numbering'
  BY DEF ManagersOK, ProcessesOK, Numbering
<1>2. RunnerOK'
  BY DEF RunnerOK, GoroutinesOK
<1>3. GoroutinesOK'
  BY DEF GoroutinesOK, ReaderStates, Lines, Nil
<1>4. RequestSide'
  BY RequestSideKept DEF requestVars
<1> QED
  BY <1>1, <1>2, <1>3, <1>4

\* A result marks the current request, whichever it is.
LEMMA MarksCompleteInv ==
  ASSUME IInv, NEW p \in Procs, MarksComplete(p)
  PROVE  IInv'
<1> USE DEF MarksComplete, Moves, channelVars, procVars, senderVars, stopVars,
    userVars, IInv, TypeOK
<1>1. RunnerOK' /\ ProcessesOK' /\ Numbering'
  BY DEF RunnerOK, ProcessesOK, Numbering
<1>2. ManagersOK'
  BY AttemptsAssumption DEF ManagersOK
<1>3. GoroutinesOK'
  BY DEF GoroutinesOK, ReaderStates, Lines, Nil
<1>4. RequestSide'
  BY RequestSideKept DEF requestVars
<1> QED
  BY <1>1, <1>2, <1>3, <1>4

\* What is closed has got Done, unless the result strayed.
LEMMA FinishesInv ==
  ASSUME IInv, NEW p \in Procs, Finishes(p)
  PROVE  IInv'
<1> USE DEF Finishes, Moves, SendsLastAndCloses, Tells, CloseResponseChannel,
    ChannelOpen, Close, managerVars, procVars, senderVars, stopVars, userVars,
    IInv, TypeOK, RequestSide
<1>1. RunnerOK'
  BY DEF RunnerOK
<1>2. ManagersOK'
  BY DEF ManagersOK
<1>3. ProcessesOK'
  BY DEF ProcessesOK
<1>4. GoroutinesOK'
  BY DEF GoroutinesOK, ReaderStates, Lines, Nil
<1>5. Numbering'
  BY DEF Numbering
<1>6. \A r \in Requests : chan'[r] = "closed" => chan[r] = "closed" \/ r = channel
  BY DEF RunnerOK
<1>7. \A r \in Requests : sender[r] \in Unset => r # channel
  BY DEF Order, RunnerOK, Requests, Nil
<1>8. Order'
  BY <1>6, <1>7 DEF Order, Unset, GoroutinesOK, RunnerOK
<1>9. Sending'
  BY DEF Sending, GoroutinesOK, RunnerOK
<1>10. Overlaps'
  BY DEF Overlaps, GoroutinesOK
<1>11. FlagsAreTrue'
  BY DEF FlagsAreTrue, ChannelOpen, RunnerOK
<1>12. NoBareClose'
  BY DEF NoBareClose, RunnerOK
<1> QED
  BY <1>1, <1>2, <1>3, <1>4, <1>5, <1>6, <1>7, <1>8, <1>9, <1>10, <1>11, <1>12

-----------------------------------------------------------------------------
(* The exit of a process.                                                  *)

\* The exit is noticed.
LEMMA HandleExitInv ==
  ASSUME IInv, NEW p \in Procs, HandleExit(p)
  PROVE  IInv'
<1> USE DEF HandleExit, streamVars, channelVars, managerVars, senderVars,
    readerVars, stopVars, userVars, IInv, TypeOK
<1>1. RunnerOK'
  BY DEF RunnerOK
<1>2. ManagersOK'
  BY DEF ManagersOK
<1>3. ProcessesOK'
  BY DEF ProcessesOK
<1>4. GoroutinesOK'
  BY DEF GoroutinesOK, ExitStates, ReaderStates
<1>5. Numbering'
  BY DEF Numbering
<1>6. RequestSide'
  BY RequestSideKept DEF requestVars
<1> QED
  BY <1>1, <1>2, <1>3, <1>4, <1>5, <1>6

\* OnProcessExit after an interrupt.
LEMMA ReportsQuietExitInv ==
  ASSUME IInv, NEW p \in Procs, ReportsQuietExit(p)
  PROVE  IInv'
<1> USE DEF ReportsQuietExit, Moves, HandleProcessExit, MayRestart,
    exitUnchanged, channelVars, senderVars, stopVars, userVars, IInv, TypeOK
<1>1. RunnerOK' /\ ManagersOK' /\ ProcessesOK' /\ Numbering'
  BY DEF RunnerOK, ManagersOK, ProcessesOK, Numbering
<1>2. GoroutinesOK'
  BY DEF GoroutinesOK, ExitStates, ReaderStates
<1>3. RequestSide'
  BY RequestSideKept DEF requestVars
<1> QED
  BY <1>1, <1>2, <1>3

\* OnProcessExit, and its answer.
LEMMA ReportsExitInv ==
  ASSUME IInv, NEW p \in Procs, ReportsExit(p)
  PROVE  IInv'
<1> USE DEF ReportsExit, HandleProcessExit, MayRestart, exitUnchanged,
    channelVars, senderVars, stopVars, userVars, IInv, TypeOK
<1>1. RunnerOK' /\ ProcessesOK'
  BY DEF RunnerOK, ProcessesOK
<1>2. ManagersOK'
  BY AttemptsAssumption DEF ManagersOK
<1>3. GoroutinesOK'
  BY DEF GoroutinesOK, ExitStates, ReaderStates
<1>4. Numbering'
  BY ProcessesAssumption DEF Numbering, ProcessesOK, GoroutinesOK
<1>5. RequestSide'
  BY RequestSideKept DEF requestVars
<1> QED
  BY <1>1, <1>2, <1>3, <1>4, <1>5

\* OnRestartAttempt sends a chunk without Done.
LEMMA HandleRestartAttemptInv ==
  ASSUME IInv, NEW p \in Procs, HandleRestartAttempt(p)
  PROVE  IInv'
<1> USE DEF HandleRestartAttempt, Moves, ChannelOpen, SendMore, exitUnchanged,
    streamVars, senderVars, stopVars, userVars, IInv, TypeOK
<1>1. RunnerOK' /\ ManagersOK' /\ ProcessesOK' /\ Numbering'
  BY DEF RunnerOK, ManagersOK, ProcessesOK, Numbering
<1>2. GoroutinesOK'
  BY DEF GoroutinesOK, ExitStates, ReaderStates
<1>3. RequestSide'
  BY RequestSideKept DEF requestVars
<1> QED
  BY <1>1, <1>2, <1>3

\* The manager launches its next process.
LEMMA RestartInv ==
  ASSUME IInv, NEW p \in Procs, Restart(p)
  PROVE  IInv'
<1> USE DEF Restart, Launch, streamVars, channelVars, managerVars, senderVars,
    stopVars, userVars, IInv, TypeOK
<1>1. RunnerOK'
  BY DEF RunnerOK
<1>2. ManagersOK'
  BY DEF ManagersOK, Managers
<1>3. p \in 1..launched /\ owner[p] # Nil
  BY DEF Numbering, ProcessesOK, Procs
<1>4. launched \in Nat /\ launched' = launched + 1 /\ launched' \in Procs /\ launched' \in 0..MaxProcesses
  BY ProcessesAssumption DEF ProcessesOK, Procs
<1>5. \A o \in Procs : owner'[o] = IF o = launched' THEN owner[p] ELSE owner[o]
  BY <1>4 DEF ProcessesOK
<1>6. ASSUME NEW o \in 1..launched' PROVE owner'[o] # Nil
  <2>1. o \in Procs /\ (o = launched' \/ o \in 1..launched)
    BY <1>4, ProcessesAssumption DEF Procs
  <2> QED
    BY <2>1, <1>3, <1>5, Zenon DEF ProcessesOK
<1>7. owner' \in [Procs -> 0..managers']
  BY <1>3 DEF ProcessesOK, ManagersOK, RunnerOK
<1>8. proc' \in [Procs -> {"none", "alive", "dead"}]
  BY DEF ProcessesOK
<1>9. ProcessesOK'
  BY <1>4, <1>6, <1>7, <1>8 DEF ProcessesOK
<1>10. GoroutinesOK'
  BY DEF GoroutinesOK, ExitStates, ReaderStates
<1>11. Numbering'
  <2> SUFFICES ASSUME NEW o \in Procs, o # launched',
                      reader'[o] # "none" \/ exit'[o] # "none" \/ proc'[o] # "none"
               PROVE  o <= launched
    BY <1>4, ProcessesAssumption DEF Numbering, Procs
  <2>1. CASE o = p
    BY <2>1, <1>3, <1>4 DEF Procs
  <2>2. CASE o # p
    BY <2>2, <1>4 DEF Numbering, ProcessesOK, GoroutinesOK
  <2> QED
    BY <2>1, <2>2
<1>12. RequestSide'
  BY RequestSideKept DEF requestVars
<1> QED
  BY <1>1, <1>2, <1>3, <1>4, <1>5, <1>6, <1>7, <1>8, <1>9, <1>10, <1>11, <1>12

\* Start fails.
LEMMA RestartFailsInv ==
  ASSUME IInv, NEW p \in Procs, RestartFails(p)
  PROVE  IInv'
<1> USE DEF RestartFails, Moves, exitUnchanged, streamVars, channelVars,
    senderVars, stopVars, userVars, IInv, TypeOK
<1>1. RunnerOK' /\ ManagersOK' /\ ProcessesOK' /\ Numbering'
  BY DEF RunnerOK, ManagersOK, ProcessesOK, Numbering
<1>2. GoroutinesOK'
  BY DEF GoroutinesOK, ExitStates, ReaderStates
<1>3. RequestSide'
  BY RequestSideKept DEF requestVars
<1> QED
  BY <1>1, <1>2, <1>3

\* OnFatalError sends the error and closes.
LEMMA HandleFatalErrorInv ==
  ASSUME IInv, NEW p \in Procs, HandleFatalError(p)
  PROVE  IInv'
<1> USE DEF HandleFatalError, Moves, ChannelOpen, SendsLastAndCloses, Tells,
    CloseResponseChannel, Close, fatalUnchanged, exitUnchanged, senderVars,
    stopVars, userVars, IInv, TypeOK, RequestSide
<1>1. RunnerOK'
  BY DEF RunnerOK
<1>2. ManagersOK'
  BY DEF ManagersOK
<1>3. ProcessesOK'
  BY DEF ProcessesOK
<1>4. GoroutinesOK'
  BY DEF GoroutinesOK, ExitStates, ReaderStates
<1>5. Numbering'
  BY DEF Numbering
<1>6. \A r \in Requests : chan'[r] = "closed" => chan[r] = "closed" \/ r = channel
  BY DEF RunnerOK
<1>7. \A r \in Requests : sender[r] \in Unset => r # channel
  BY DEF Order, RunnerOK, Requests, Nil
<1>8. Order'
  BY <1>6, <1>7 DEF Order, Unset, GoroutinesOK, RunnerOK
<1>9. Sending'
  BY DEF Sending, GoroutinesOK, RunnerOK
<1>10. Overlaps'
  BY DEF Overlaps, GoroutinesOK
<1>11. FlagsAreTrue'
  BY DEF FlagsAreTrue, ChannelOpen, RunnerOK
<1>12. NoBareClose'
  BY DEF NoBareClose, RunnerOK
<1> QED
  BY <1>1, <1>2, <1>3, <1>4, <1>5, <1>6, <1>7, <1>8, <1>9, <1>10, <1>11, <1>12

-----------------------------------------------------------------------------
(* Interrupt and Stop.                                                     *)

\* Interrupt: the request that is cut is a current one.
LEMMA InterruptBeginsInv ==
  ASSUME IInv, InterruptBegins
  PROVE  IInv'
<1> USE DEF InterruptBegins, streamVars, channelVars, managerVars, procVars,
    senderVars, readerVars, stopVars, IInv, TypeOK
<1>1. RunnerOK' /\ ManagersOK' /\ ProcessesOK' /\ Numbering'
  BY DEF RunnerOK, ManagersOK, ProcessesOK, Numbering
<1>2. GoroutinesOK'
  BY CallsAssumption, ManagersAssumption DEF GoroutinesOK, RunnerOK,
     ManagersOK, Managers, Nil
<1>3. RequestSide'
  BY RequestSideKept DEF requestVars
<1> QED
  BY <1>1, <1>2, <1>3

\* Interrupt: the flag is set.
LEMMA InterruptSetsInv ==
  ASSUME IInv, InterruptSets
  PROVE  IInv'
<1> USE DEF InterruptSets, streamVars, channelVars, managerVars, procVars,
    senderVars, readerVars, stopVars, IInv, TypeOK
<1>1. RunnerOK' /\ ManagersOK' /\ ProcessesOK' /\ Numbering'
  BY DEF RunnerOK, ManagersOK, ProcessesOK, Numbering
<1>2. GoroutinesOK'
  BY DEF GoroutinesOK, StopStates, Nil
<1>3. RequestSide'
  BY RequestSideKept DEF requestVars
<1> QED
  BY <1>1, <1>2, <1>3

\* Stop takes the manager over.
LEMMA StopBeginsInv ==
  ASSUME IInv, StopBegins
  PROVE  IInv'
<1> USE DEF StopBegins, IsRunning, stopUnchanged, streamVars, channelVars,
    managerVars, senderVars, readerVars, IInv, TypeOK
<1>1. RunnerOK' /\ ManagersOK' /\ ProcessesOK' /\ Numbering'
  BY DEF RunnerOK, ManagersOK, ProcessesOK, Numbering
<1>2. GoroutinesOK'
  BY CallsAssumption, ManagersAssumption DEF GoroutinesOK, RunnerOK,
     ManagersOK, Managers, Nil, StopStates
<1>3. RequestSide'
  BY RequestSideKept DEF requestVars
<1> QED
  BY <1>1, <1>2, <1>3

\* Stop kills the process.
LEMMA StopKillsInv ==
  ASSUME IInv, StopKills
  PROVE  IInv'
<1> USE DEF StopKills, Latest, stopUnchanged, streamVars, channelVars,
    managerVars, senderVars, readerVars, IInv, TypeOK
<1>1. RunnerOK' /\ ManagersOK' /\ ProcessesOK' /\ Numbering'
  BY DEF RunnerOK, ManagersOK, ProcessesOK, Numbering
<1>2. GoroutinesOK'
  BY DEF GoroutinesOK, StopStates, Nil
<1>3. RequestSide'
  BY RequestSideKept DEF requestVars
<1> QED
  BY <1>1, <1>2, <1>3

\* Stop waits.
LEMMA StopWaitsInv ==
  ASSUME IInv, StopWaits
  PROVE  IInv'
<1> USE DEF StopWaits, stopUnchanged, streamVars, channelVars, managerVars,
    senderVars, readerVars, IInv, TypeOK
<1>1. RunnerOK' /\ ManagersOK' /\ ProcessesOK' /\ Numbering'
  BY DEF RunnerOK, ManagersOK, ProcessesOK, Numbering
<1>2. GoroutinesOK'
  BY DEF GoroutinesOK, StopStates, Nil
<1>3. RequestSide'
  BY RequestSideKept DEF requestVars
<1> QED
  BY <1>1, <1>2, <1>3

\* The Runner is marked as stopped.
LEMMA StopMarksInv ==
  ASSUME IInv, StopMarks
  PROVE  IInv'
<1> USE DEF StopMarks, stopUnchanged, streamVars, channelVars, managerVars,
    senderVars, readerVars, IInv, TypeOK
<1>1. RunnerOK' /\ ManagersOK' /\ ProcessesOK' /\ Numbering'
  BY DEF RunnerOK, ManagersOK, ProcessesOK, Numbering
<1>2. GoroutinesOK'
  BY DEF GoroutinesOK, StopStates, Nil
<1>3. RequestSide'
  BY RequestSideKept DEF requestVars
<1> QED
  BY <1>1, <1>2, <1>3

-----------------------------------------------------------------------------
(* All steps together.                                                     *)

LEMMA UnchangedInv ==
  ASSUME IInv, UNCHANGED vars
  PROVE  IInv'
<1> USE DEF vars, streamVars, channelVars, managerVars, procVars, senderVars,
    readerVars, stopVars, userVars, IInv, TypeOK
<1>1. RunnerOK' /\ ManagersOK' /\ ProcessesOK'
  BY DEF RunnerOK, ManagersOK, ProcessesOK
<1>2. GoroutinesOK' /\ Numbering'
  BY DEF GoroutinesOK, Numbering
<1>3. RequestSide'
  BY RequestSideKept DEF requestVars
<1> QED
  BY <1>1, <1>2, <1>3

LEMMA NextInv ==
  ASSUME IInv, Next
  PROVE  IInv'
<1>0. ASSUME NEW q \in Requests, Receives(q) PROVE IInv'
  BY <1>0, ReceivesInv
<1>1. ASSUME NEW q \in Requests, SendContent(q) PROVE IInv'
  BY <1>1, SendFailsEarlyInv, SendBeginsInv, SetUpInv, ProcessIsRunningInv,
     StartsProcessInv, StartFailsInv, TellsStartErrorInv, CleansUpInv,
     LooksUpStdinInv, NotRunningInv, WritesInv, WriteFailsInv,
     TellsWriteErrorInv, ClosesDirectlyInv DEF Next, SendContent
<1>2. ASSUME NEW p \in Procs, HandleProcessLine(p) PROVE IInv'
  BY <1>2, TakesLineInv, ReaderEndsInv, LooksUpChannelInv, SendsTextInv,
     MarksCompleteInv, FinishesInv DEF HandleProcessLine
<1>3. ASSUME NEW p \in Procs, ExitStep(p) PROVE IInv'
  BY <1>3, HandleExitInv, ReportsQuietExitInv, ReportsExitInv,
     HandleRestartAttemptInv, RestartInv, RestartFailsInv, HandleFatalErrorInv
     DEF ExitStep
<1>4. ASSUME NEW p \in Procs, ProcStep(p) PROVE IInv'
  BY <1>4, ProcWritesInv, ProcExitsInv DEF ProcStep
<1>5. CASE Interrupt
  BY <1>5, InterruptBeginsInv, InterruptSetsInv DEF Interrupt
<1>6. CASE Stop
  BY <1>6, StopBeginsInv, StopKillsInv, StopWaitsInv, StopMarksInv DEF Stop
<1> QED
  BY <1>0, <1>1, <1>2, <1>3, <1>4, <1>5, <1>6 DEF Next

\* The inductive invariant holds in every reachable state.
THEOREM Invariance == Spec => []IInv
<1>1. IInv /\ [Next]_vars => IInv'
  BY NextInv, UnchangedInv
<1> QED
  BY InitInv, <1>1, PTL DEF Spec

\* Every field of a Runner, and of the goroutines around it, keeps its type.
THEOREM TypeCorrectness == Spec => []TypeOK
<1>1. IInv => TypeOK
  BY DEF IInv
<1> QED
  BY Invariance, <1>1, PTL

\* A streaming Runner has a channel that counts as open, and a channel that
\* counts as closed is closed.
THEOREM FlagsTellTheTruth == Spec => []FlagsAreTrue
<1>1. IInv => FlagsAreTrue
  BY DEF IInv, RequestSide
<1> QED
  BY Invariance, <1>1, PTL

\* Only overlapping requests let a channel be closed without a word.
THEOREM ClosedMeansTold == Spec => []NoBareClose
<1>1. IInv => NoBareClose
  BY DEF IInv, RequestSide
<1> QED
  BY Invariance, <1>1, PTL

-----------------------------------------------------------------------------
(* The end of a request: as long as it has none, and it was neither        *)
(* interrupted nor met by a stray result, somebody is left to tell it.     *)

\* A process is watched by its exit handling, a manager has one at a time.
Busy(p) == exit[p] \notin {"none", "done"}
Watched ==
  /\ \A p \in Procs : proc[p] = "alive" => exit[p] = "wait"
  /\ \A p, o \in Procs : Busy(p) /\ Busy(o) /\ owner[p] = owner[o] => p = o
  /\ \A p \in Procs : owner[p] # Nil => p <= launched

\* Until Stop is called, a manager counts as running while its process is.
Vouched ==
  stopper = "idle" => ~stopped /\ \A p \in Procs : exit[p] = "wait" => running[owner[p]]

\* The request at hand, if the user has not interrupted it.
AtHand(q) == q = channel /\ q \notin cut

\* Neither the current manager nor the one written to is interrupted.
Uninterrupted ==
  /\ interrupter <= managers
  /\ \A m \in Managers : m > managers => ~interrupted[m]
  /\ \A q \in Requests :
       sender[q] = "write" => owner[target[q]] # Nil
  /\ \A q \in Requests : AtHand(q) =>
       /\ processManager # Nil => ~interrupted[processManager]
       /\ sender[q] = "write" => ~interrupted[owner[target[q]]]

\* A request is followed by another one once it is closed or interrupted, and
\* one that is done without having been set up is closed.
Turns ==
  /\ \A q, r \in Requests :
       r = q + 1 /\ sender[r] # "idle" => chan[q] = "closed" \/ q \in cut
  /\ \A q \in Requests : sender[q] = "done" /\ channel < q => chan[q] = "closed"

\* Who may still end the request at hand: a reader that has seen its result, or
\* the exit handling of a manager that was not interrupted.
Finishing(q) == \E p \in Procs : reader[p] = "finish" /\ snap[p] = q
Telling == \E p \in Procs : Busy(p) /\ exit[p] # "quiet" /\ ~interrupted[owner[p]]

Completed ==
  complete => \A q \in Requests : q = channel /\ q \notin strayed => Finishing(q)
Kept ==
  panic = "none" /\ stopper = "idle" =>
    \A q \in Requests :
      AtHand(q) /\ q \notin strayed /\ sender[q] = "done" =>
        chan[q] = "closed" \/ Finishing(q) \/ Telling

EndSide == Watched /\ Vouched /\ Uninterrupted /\ Turns /\ Completed /\ Kept

LEMMA WatchedStays ==
  ASSUME Watched, UNCHANGED <<owner, launched>>,
         \A p \in Procs : Busy(p)' => Busy(p),
         \A p \in Procs : proc'[p] = "alive" => proc[p] = "alive" /\ exit'[p] = exit[p]
  PROVE  Watched'
BY DEF Watched

LEMMA VouchedStays ==
  ASSUME Vouched, UNCHANGED <<stopped, stopper, running, owner>>,
         \A p \in Procs : exit'[p] = "wait" => exit[p] = "wait"
  PROVE  Vouched'
BY DEF Vouched

\* Nobody is interrupted anew, and nobody writes who did not.
LEMMA UninterruptedStays ==
  ASSUME TypeOK, Uninterrupted, UNCHANGED <<interrupter, managers, processManager, channel>>,
         \A m \in Managers : interrupted'[m] => interrupted[m],
         \A p \in Procs : owner[p] # Nil => owner'[p] = owner[p],
         \A q \in cut : q \in cut',
         \A q \in Requests : sender'[q] = "write" => sender[q] = "write" /\ target'[q] = target[q],
         \A q \in Requests : sender[q] = "write" => target[q] # Nil
  PROVE  Uninterrupted'
<1>1. \A p \in Procs : owner[p] \in Managers \cup {Nil}
  BY ManagersAssumption DEF TypeOK, ProcessesOK, ManagersOK, Managers, Nil
<1>2. \A q \in Requests : sender[q] = "write" => target[q] \in Procs
  BY DEF TypeOK, GoroutinesOK
<1>3. processManager = Nil \/ processManager \in Managers
  BY ManagersAssumption DEF TypeOK, RunnerOK, ManagersOK, Managers, Nil
<1>4. /\ interrupter' <= managers'
      /\ \A m \in Managers : m > managers' => ~interrupted'[m]
  BY DEF Uninterrupted
<1>5. ASSUME NEW q \in Requests, sender'[q] = "write"
      PROVE  /\ owner'[target'[q]] = owner[target[q]] /\ owner'[target'[q]] # Nil
             /\ owner[target[q]] \in Managers
  BY <1>1, <1>2, <1>5 DEF Uninterrupted
<1>6. ASSUME NEW q \in Requests, AtHand(q)'
      PROVE  /\ processManager' # Nil => ~interrupted'[processManager']
             /\ sender'[q] = "write" => ~interrupted'[owner'[target'[q]]]
  <2>1. AtHand(q)
    BY <1>6 DEF AtHand
  <2>2. processManager' # Nil => ~interrupted'[processManager']
    BY <1>3, <2>1 DEF Uninterrupted
  <2>3. sender'[q] = "write" => ~interrupted'[owner'[target'[q]]]
    BY <1>5, <2>1 DEF Uninterrupted
  <2> QED
    BY <2>2, <2>3
<1> QED
  BY <1>4, <1>5, <1>6 DEF Uninterrupted

LEMMA TurnsStay ==
  ASSUME Turns, channel' = channel,
         \A q \in cut : q \in cut',
         \A q \in Requests : chan[q] = "closed" => chan'[q] = "closed",
         \A q \in Requests : sender'[q] # "idle" => sender[q] # "idle",
         \A q \in Requests : sender'[q] = "done" /\ channel < q => sender[q] = "done"
  PROVE  Turns'
BY DEF Turns

LEMMA CompletedStays ==
  ASSUME Completed, channel' = channel, complete' => complete,
         \A q \in strayed : q \in strayed',
         \A p \in Procs : reader[p] = "finish" => reader'[p] = "finish" /\ snap'[p] = snap[p]
  PROVE  Completed'
<1>1. \A q : Finishing(q) => Finishing(q)'
  BY DEF Finishing
<1> QED
  BY <1>1 DEF Completed

LEMMA KeptStays ==
  ASSUME Kept, panic = "none", channel' = channel, stopper' = "idle" => stopper = "idle",
         \A q \in cut : q \in cut', \A q \in strayed : q \in strayed',
         \A q \in Requests : chan[q] = "closed" => chan'[q] = "closed",
         \A q \in Requests : AtHand(q)' /\ sender'[q] = "done" => sender[q] = "done",
         \A p \in Procs : reader[p] = "finish" => reader'[p] = "finish" /\ snap'[p] = snap[p],
         Telling => Telling'
  PROVE  Kept'
<1>1. \A q : Finishing(q) => Finishing(q)'
  BY DEF Finishing
<1>2. \A q : AtHand(q)' => AtHand(q)
  BY DEF AtHand
<1> QED
  BY <1>1, <1>2 DEF Kept

\* The request at hand is closed.
LEMMA KeptByClosing ==
  ASSUME channel \in Requests => chan'[channel] = "closed" \/ panic' # "none", channel' = channel
  PROVE  Kept'
BY DEF Kept, AtHand

\* No process, no manager and no reader that is about to finish takes a step, and no request begins
\* or is done.
LEMMA EndSideStays ==
  ASSUME IInv, EndSide, panic = "none",
         UNCHANGED <<owner, launched, proc, exit, running, stopped, stopper, interrupter,
                     interrupted, managers, processManager, channel, complete, cut, strayed, chan>>,
         \A q \in Requests :
           \/ sender'[q] = sender[q] /\ target'[q] = target[q]
           \/ sender[q] # "idle" /\ sender'[q] \notin {"write", "done"},
         \A p \in Procs : reader[p] = "finish" => reader'[p] = "finish" /\ snap'[p] = snap[p]
  PROVE  EndSide'
<1>1. Watched'
  BY WatchedStays DEF EndSide, Busy
<1>2. Vouched'
  BY VouchedStays DEF EndSide
<1>3. Uninterrupted'
  BY UninterruptedStays DEF EndSide, IInv, RequestSide, Sending
<1>4. Turns'
  BY TurnsStay DEF EndSide
<1>5. Completed'
  BY CompletedStays DEF EndSide
<1>6. Kept'
  <2>1. Telling => Telling'
    BY DEF Telling, Busy
  <2> QED
    BY <2>1, KeptStays DEF EndSide
<1> QED
  BY <1>1, <1>2, <1>3, <1>4, <1>5, <1>6 DEF EndSide

\* The current channel is closed afterwards, or the program has panicked.
LEMMA CloseFacts ==
  ASSUME IInv, CloseResponseChannel
  PROVE  /\ \A r \in Requests : chan[r] = "closed" => chan'[r] = "closed"
         /\ channel \in Requests => chan'[channel] = "closed" \/ panic' # "none"
<1>1. CASE ChannelOpen
  BY <1>1 DEF CloseResponseChannel, Close, IInv, TypeOK, RunnerOK, ChannelOpen, Nil
<1>2. CASE ~ChannelOpen
  <2>1. channel \in Requests => channel # Nil
    BY DEF Requests, Nil
  <2> QED
    BY <1>2, <2>1 DEF CloseResponseChannel, IInv, RequestSide, FlagsAreTrue, ChannelOpen
<1> QED
  BY <1>1, <1>2

\* The last chunk, and the close.
LEMMA LastFacts ==
  ASSUME IInv, NEW c, NEW last, SendsLastAndCloses(c, last)
  PROVE  /\ \A r \in Requests : chan[r] = "closed" => chan'[r] = "closed"
         /\ channel \in Requests => chan'[channel] = "closed" \/ panic' # "none"
<1>1. CASE chan[c] = "closed"
  BY <1>1 DEF SendsLastAndCloses
<1>2. CASE chan[c] # "closed"
  BY <1>2, CloseFacts DEF SendsLastAndCloses
<1> QED
  BY <1>1, <1>2

-----------------------------------------------------------------------------
(* The end of a request: the steps of SendContent.                         *)

\* What no step of SendContent but a launch and a SetUp writes.
senderLeaves ==
  <<owner, launched, proc, exit, running, stopped, stopper, interrupter, interrupted, channel,
    complete, cut, strayed, reader, snap>>

\* A SendContent that is done has closed the request at hand, or another one is at hand.
LEMMA SenderCloses ==
  ASSUME IInv, EndSide, panic = "none", NEW q \in Requests,
         sender[q] \notin {"idle", "setup", "done"}, sender' = [sender EXCEPT ![q] = "done"],
         UNCHANGED senderLeaves, UNCHANGED <<managers, processManager, target>>,
         \A r \in Requests : chan[r] = "closed" => chan'[r] = "closed",
         q = channel => chan'[q] = "closed" \/ panic' # "none"
  PROVE  EndSide'
<1> USE DEF senderLeaves
<1>0. /\ channel \in Requests \cup {Nil} /\ channel \in Nat /\ q <= channel
      /\ \A r \in Requests : r # q => sender'[r] = sender[r]
      /\ sender'[q] = "done"
  BY DEF IInv, RequestSide, Order, Unset, TypeOK, RunnerOK, GoroutinesOK, Requests, Nil
<1>1. Watched' /\ Vouched'
  BY WatchedStays, VouchedStays DEF EndSide, Busy
<1>2. Uninterrupted'
  BY <1>0, UninterruptedStays DEF EndSide, IInv, RequestSide, Sending
<1>3. Turns'
  BY <1>0, TurnsStay DEF EndSide, Requests
<1>4. Completed'
  BY CompletedStays DEF EndSide
<1>5. Kept'
  <2>1. CASE q = channel
    BY <1>0, <2>1, KeptByClosing
  <2>2. CASE q # channel
    <3>1. \A r \in Requests : AtHand(r)' /\ sender'[r] = "done" => sender[r] = "done"
      BY <1>0, <2>2 DEF AtHand
    <3>2. Telling => Telling'
      BY DEF Telling, Busy
    <3> QED
      BY <3>1, <3>2, KeptStays DEF EndSide
  <2> QED
    BY <2>1, <2>2
<1> QED
  BY <1>1, <1>2, <1>3, <1>4, <1>5 DEF EndSide

LEMMA SendFailsEarlyEnd ==
  ASSUME IInv, EndSide, panic = "none", NEW q \in Requests, SendFailsEarly(q)
  PROVE  EndSide'
<1>1. /\ UNCHANGED senderLeaves /\ UNCHANGED <<managers, processManager, target, panic>>
      /\ MaySend(q) /\ chan' = [chan EXCEPT ![q] = "closed"] /\ sender' = [sender EXCEPT ![q] = "done"]
  BY DEF SendFailsEarly, streamVars, managerVars, procVars, readerVars, stopVars, userVars, senderLeaves
<1>2. /\ chan'[q] = "closed" /\ \A r \in Requests : chan[r] = "closed" => chan'[r] = "closed"
      /\ sender[q] = "idle" /\ sender'[q] = "done"
      /\ \A r \in Requests : r # q => sender'[r] = sender[r]
  BY <1>1 DEF IInv, TypeOK, RunnerOK, GoroutinesOK, MaySend
<1>3. channel < q /\ channel # q /\ \A r \in Requests : q = r + 1 => chan[r] = "closed" \/ r \in cut
  <2>1. channel < q /\ channel \in Nat
    BY <1>1, InTurn DEF IInv, RequestSide, TypeOK, RunnerOK, Requests, Nil
  <2>2. \A r \in Requests : q = r + 1 => q > 1 /\ q - 1 = r
    BY DEF Requests
  <2> QED
    BY <1>1, <2>1, <2>2 DEF MaySend, Requests
<1>4. Turns'
  BY <1>1, <1>2, <1>3 DEF EndSide, Turns, senderLeaves
<1>5. Watched' /\ Vouched' /\ Completed'
  BY <1>1, WatchedStays, VouchedStays, CompletedStays DEF EndSide, Busy, senderLeaves
<1>6. Uninterrupted'
  BY <1>1, <1>2, UninterruptedStays DEF EndSide, IInv, RequestSide, Sending, senderLeaves
<1>7. Kept'
  <2>1. \A r \in Requests : AtHand(r)' /\ sender'[r] = "done" => sender[r] = "done"
    BY <1>1, <1>2, <1>3 DEF AtHand, senderLeaves
  <2>2. Telling => Telling'
    BY <1>1 DEF Telling, Busy, senderLeaves
  <2> QED
    BY <1>1, <1>2, <2>1, <2>2, KeptStays DEF EndSide, senderLeaves
<1> QED
  BY <1>4, <1>5, <1>6, <1>7 DEF EndSide

LEMMA SendBeginsEnd ==
  ASSUME IInv, EndSide, panic = "none", NEW q \in Requests, SendBegins(q)
  PROVE  EndSide'
<1>1. /\ UNCHANGED senderLeaves /\ UNCHANGED <<managers, processManager, target, panic>>
      /\ MaySend(q) /\ chan' = [chan EXCEPT ![q] = "open"] /\ sender' = [sender EXCEPT ![q] = "setup"]
  BY DEF SendBegins, streamVars, managerVars, procVars, readerVars, stopVars, userVars, senderLeaves
<1>2. /\ sender[q] = "idle" /\ sender'[q] = "setup"
      /\ \A r \in Requests : r # q => sender'[r] = sender[r]
  BY <1>1 DEF IInv, TypeOK, GoroutinesOK, MaySend
<1>3. \A r \in Requests : chan[r] = "closed" => chan'[r] = "closed"
  <2>1. chan[q] # "closed"
    BY <1>2 DEF IInv, RequestSide, Order, Unset
  <2> QED
    BY <1>1, <2>1 DEF IInv, TypeOK, RunnerOK
<1>4. \A r \in Requests : q = r + 1 => chan[r] = "closed" \/ r \in cut
  <2>1. \A r \in Requests : q = r + 1 => q > 1 /\ q - 1 = r
    BY DEF Requests
  <2> QED
    BY <1>1, <2>1 DEF MaySend
<1>5. Turns'
  BY <1>1, <1>2, <1>3, <1>4 DEF EndSide, Turns, senderLeaves
<1>6. Watched' /\ Vouched' /\ Completed'
  BY <1>1, WatchedStays, VouchedStays, CompletedStays DEF EndSide, Busy, senderLeaves
<1>7. Uninterrupted'
  BY <1>1, <1>2, UninterruptedStays DEF EndSide, IInv, RequestSide, Sending, senderLeaves
<1>8. Kept'
  <2>1. \A r \in Requests : AtHand(r)' /\ sender'[r] = "done" => sender[r] = "done"
    BY <1>2
  <2>2. Telling => Telling'
    BY <1>1 DEF Telling, Busy, senderLeaves
  <2> QED
    BY <1>1, <1>3, <2>1, <2>2, KeptStays DEF EndSide, senderLeaves
<1> QED
  BY <1>5, <1>6, <1>7, <1>8 DEF EndSide

\* The request becomes the one at hand, its manager is not interrupted, nothing is complete.
LEMMA SetUpEnd ==
  ASSUME IInv, EndSide, panic = "none", NEW q \in Requests, SetUp(q)
  PROVE  EndSide'
<1>1. /\ UNCHANGED <<owner, launched, proc, exit, running, stopped, stopper, interrupter, cut, strayed,
                     reader, snap, managers, processManager, target, chan, panic>>
      /\ complete' = FALSE /\ channel' = q
      /\ interrupted' = [m \in Managers |-> interrupted[m] /\ m # processManager]
      /\ sender[q] = "setup" /\ sender' = [sender EXCEPT ![q] = "ensure"]
  BY DEF SetUp, Moves, managerVars, procVars, readerVars, stopVars
<1>2. /\ sender'[q] = "ensure" /\ \A r \in Requests : r # q => sender'[r] = sender[r]
      /\ channel < q /\ channel \in Nat
  BY <1>1 DEF IInv, TypeOK, RunnerOK, GoroutinesOK, RequestSide, Order, Unset, Requests, Nil
<1>3. Watched' /\ Vouched' /\ Completed'
  BY <1>1, WatchedStays, VouchedStays DEF EndSide, Busy, Completed
<1>4. Uninterrupted'
  <2>1. processManager # Nil => processManager \in Managers
    BY ManagersAssumption DEF IInv, TypeOK, RunnerOK, ManagersOK, Managers, Nil
  <2>2. \A m \in Managers : interrupted'[m] => interrupted[m] /\ m # processManager
    BY <1>1
  <2>3. \A r \in Requests : AtHand(r)' => r = q
    BY <1>1 DEF AtHand
  <2> QED
    BY <1>1, <1>2, <2>1, <2>2, <2>3 DEF EndSide, Uninterrupted
<1>5. Turns'
  BY <1>1, <1>2 DEF EndSide, Turns, Requests
<1>6. Kept'
  BY <1>1, <1>2 DEF Kept, AtHand
<1> QED
  BY <1>3, <1>4, <1>5, <1>6 DEF EndSide

\* On the way, or having told the error it is about to close with.
LEMMA SenderGoesOn ==
  ASSUME IInv, EndSide, panic = "none", NEW q \in Requests,
         ProcessIsRunning(q) \/ TellsStartError(q) \/ NotRunning(q) \/ WriteFails(q) \/ TellsWriteError(q)
  PROVE  EndSide'
<1>1. /\ UNCHANGED senderLeaves /\ UNCHANGED <<managers, processManager, chan>>
      /\ sender[q] # "idle" /\ \E to \in {"lookup", "cleanup", "refused", "close"} :
           sender' = [sender EXCEPT ![q] = to]
      /\ \A r \in Requests : r # q => target'[r] = target[r]
  BY DEF ProcessIsRunning, TellsStartError, NotRunning, WriteFails, TellsWriteError, Moves, streamVars,
     channelVars, managerVars, procVars, readerVars, stopVars, userVars, senderLeaves, IInv, TypeOK, GoroutinesOK
<1>2. /\ sender'[q] \notin {"write", "done"} /\ \A r \in Requests : r # q => sender'[r] = sender[r]
  BY <1>1 DEF IInv, TypeOK, GoroutinesOK
<1> QED
  BY <1>1, <1>2, EndSideStays DEF senderLeaves

LEMMA LooksUpStdinEnd ==
  ASSUME IInv, EndSide, panic = "none", NEW q \in Requests, LooksUpStdin(q)
  PROVE  EndSide'
<1>1. /\ UNCHANGED senderLeaves /\ UNCHANGED <<managers, processManager, chan, panic>>
      /\ sender[q] = "lookup" /\ sender' = [sender EXCEPT ![q] = "write"] /\ processManager # Nil
  BY DEF LooksUpStdin, IsRunning, Moves, streamVars, channelVars, managerVars, procVars, readerVars, stopVars,
     userVars, senderLeaves
<1>2. PICK p \in Procs : Latest(processManager, p) /\ target' = [target EXCEPT ![q] = p]
  BY DEF LooksUpStdin
<1>3. /\ sender'[q] = "write" /\ target'[q] = p /\ owner[p] = processManager
      /\ \A r \in Requests : r # q => sender'[r] = sender[r] /\ target'[r] = target[r]
  BY <1>1, <1>2 DEF IInv, TypeOK, GoroutinesOK, Latest
<1>4. Watched' /\ Vouched' /\ Completed'
  BY <1>1, WatchedStays, VouchedStays, CompletedStays DEF EndSide, Busy, senderLeaves
<1>5. Uninterrupted'
  BY <1>1, <1>3 DEF EndSide, Uninterrupted, AtHand, senderLeaves
<1>6. Turns'
  BY <1>1, <1>3, TurnsStay DEF EndSide, senderLeaves
<1>7. Kept'
  <2>1. Telling => Telling'
    BY <1>1 DEF Telling, Busy, senderLeaves
  <2>2. \A r \in Requests : AtHand(r)' /\ sender'[r] = "done" => sender[r] = "done"
    BY <1>3
  <2> QED
    BY <1>1, <2>1, <2>2, KeptStays DEF EndSide, senderLeaves
<1> QED
  BY <1>4, <1>5, <1>6, <1>7 DEF EndSide

\* The process that has the message is alive, so somebody waits for its exit.
LEMMA WritesEnd ==
  ASSUME IInv, EndSide, panic = "none", NEW q \in Requests, Writes(q)
  PROVE  EndSide'
<1>1. /\ UNCHANGED senderLeaves /\ UNCHANGED <<managers, processManager, chan, panic>>
      /\ sender[q] = "write" /\ sender' = [sender EXCEPT ![q] = "done"]
      /\ target' = [target EXCEPT ![q] = Nil] /\ proc[target[q]] = "alive"
  BY DEF Writes, Moves, streamVars, channelVars, managerVars, readerVars, stopVars, userVars, senderLeaves
<1>2. /\ sender'[q] = "done" /\ target[q] \in Procs /\ q <= channel /\ channel \in Nat
      /\ \A r \in Requests : r # q => sender'[r] = sender[r] /\ target'[r] = target[r]
  <2>1. target[q] \in Procs
    BY <1>1 DEF IInv, TypeOK, GoroutinesOK, RequestSide, Sending
  <2>2. q <= channel /\ channel \in Nat
    BY <1>1 DEF IInv, TypeOK, RunnerOK, RequestSide, Order, Unset, Requests, Nil
  <2> QED
    BY <1>1, <2>1, <2>2 DEF IInv, TypeOK, GoroutinesOK
<1>3. Watched' /\ Vouched' /\ Completed'
  BY <1>1, WatchedStays, VouchedStays, CompletedStays DEF EndSide, Busy, senderLeaves
<1>4. Uninterrupted'
  BY <1>1, <1>2, UninterruptedStays DEF EndSide, IInv, RequestSide, Sending, senderLeaves
<1>5. Turns'
  BY <1>1, <1>2, TurnsStay DEF EndSide, senderLeaves, Requests
<1>6. Telling => Telling'
  BY <1>1 DEF Telling, Busy, senderLeaves
<1>7. CASE AtHand(q)
  <2>1. exit[target[q]] = "wait" /\ ~interrupted[owner[target[q]]]
    BY <1>1, <1>2, <1>7 DEF EndSide, Watched, Uninterrupted
  <2>2. Telling
    BY <1>2, <2>1 DEF Telling, Busy
  <2>3. Kept'
    BY <1>6, <2>2 DEF Kept
  <2> QED
    BY <1>3, <1>4, <1>5, <2>3 DEF EndSide
<1>8. CASE ~AtHand(q)
  <2>1. \A r \in Requests : AtHand(r)' /\ sender'[r] = "done" => sender[r] = "done"
    BY <1>1, <1>2, <1>8 DEF AtHand, senderLeaves
  <2>2. Kept'
    BY <1>1, <1>6, <2>1, KeptStays DEF EndSide, senderLeaves
  <2> QED
    BY <1>3, <1>4, <1>5, <2>2 DEF EndSide
<1> QED
  BY <1>7, <1>8

LEMMA ClosersEnd ==
  ASSUME IInv, EndSide, panic = "none", NEW q \in Requests, CleansUp(q) \/ ClosesDirectly(q)
  PROVE  EndSide'
<1>1. /\ UNCHANGED senderLeaves /\ UNCHANGED <<managers, processManager, target>>
      /\ sender[q] \in {"cleanup", "close"} /\ sender' = [sender EXCEPT ![q] = "done"]
  BY DEF CleansUp, ClosesDirectly, Moves, streamVars, managerVars, procVars, readerVars, stopVars, userVars,
     senderLeaves
<1>2. /\ \A r \in Requests : chan[r] = "closed" => chan'[r] = "closed"
      /\ q = channel => chan'[q] = "closed" \/ panic' # "none"
  <2>1. CASE CleansUp(q)
    <3>1. CloseResponseChannel
      BY <2>1 DEF CleansUp
    <3> QED
      BY <3>1, CloseFacts
  <2>2. CASE ClosesDirectly(q)
    BY <2>2 DEF ClosesDirectly, Close, IInv, TypeOK, RunnerOK
  <2> QED
    BY <2>1, <2>2
<1> QED
  BY <1>1, <1>2, SenderCloses

-----------------------------------------------------------------------------
(* The end of a request: processes are launched.                           *)

\* The next process is not there yet, and belongs to nobody.
LEMMA NextProcess ==
  ASSUME IInv, EndSide, launched + 1 \in Procs
  PROVE  /\ exit[launched + 1] = "none" /\ reader[launched + 1] = "none" /\ owner[launched + 1] = Nil
         /\ launched \in Nat
         /\ \A p \in Procs : Busy(p) \/ owner[p] # Nil => p # launched + 1
         /\ \A p \in Procs : Busy(p) => owner[p] \in Managers /\ owner[p] <= managers
<1>1. launched \in Nat /\ \A p \in Procs : p <= launched => p # launched + 1
  BY DEF IInv, TypeOK, ProcessesOK, Procs
<1>2. exit[launched + 1] = "none" /\ reader[launched + 1] = "none" /\ owner[launched + 1] = Nil
  BY <1>1 DEF IInv, Numbering, EndSide, Watched
<1>3. \A p \in Procs : Busy(p) \/ owner[p] # Nil => p # launched + 1
  BY <1>1, <1>2 DEF Busy
<1>4. ASSUME NEW p \in Procs, Busy(p) PROVE owner[p] \in Managers /\ owner[p] <= managers
  <2>1. p <= launched
    BY <1>4 DEF Busy, IInv, Numbering
  <2>2. p \in 1..launched
    BY <1>1, <2>1 DEF Procs
  <2>3. owner[p] \in 0..managers /\ owner[p] # Nil /\ managers \in 0..MaxManagers
    BY <2>2 DEF IInv, TypeOK, ProcessesOK, ManagersOK
  <2> QED
    BY <2>3, ManagersAssumption DEF Managers, Nil
<1> QED
  BY <1>1, <1>2, <1>3, <1>4

LEMMA StartsProcessEnd ==
  ASSUME IInv, EndSide, panic = "none", NEW q \in Requests, StartsProcess(q)
  PROVE  EndSide'
<1> DEFINE new == launched + 1
           m == managers + 1
<1>1. /\ UNCHANGED <<stopped, stopper, interrupter, interrupted, channel, complete, cut, strayed, chan, target,
                     snap>>
      /\ managers < MaxManagers /\ managers' = m /\ processManager' = m /\ launched' = new
      /\ owner' = [owner EXCEPT ![new] = m] /\ proc' = [proc EXCEPT ![new] = "alive"]
      /\ reader' = [reader EXCEPT ![new] = "idle"] /\ running' = [running EXCEPT ![m] = TRUE]
      /\ exit' = [exit EXCEPT ![new] = "wait"]
      /\ sender[q] = "ensure" /\ sender' = [sender EXCEPT ![q] = "lookup"]
  BY DEF StartsProcess, Launch, FreshManager, Moves, streamVars, channelVars, stopVars, userVars
<1>2. new \in Procs
  BY DEF StartsProcess, Launch
<1> HIDE DEF new, m
<1>3. m \in Managers /\ managers \in Nat /\ m = managers + 1
  BY <1>1, ManagersAssumption DEF IInv, TypeOK, ManagersOK, Managers, m
<1>4. /\ owner'[new] = m /\ proc'[new] = "alive" /\ exit'[new] = "wait" /\ running'[m] = TRUE
      /\ \A p \in Procs : p # new => /\ owner'[p] = owner[p] /\ proc'[p] = proc[p]
                                     /\ exit'[p] = exit[p] /\ reader'[p] = reader[p]
      /\ \A n \in Managers : running[n] => running'[n]
      /\ \A r \in Requests : r # q => sender'[r] = sender[r]
      /\ sender'[q] = "lookup"
  BY <1>1, <1>2, <1>3 DEF IInv, TypeOK, ManagersOK, ProcessesOK, GoroutinesOK
<1>5. /\ exit[new] = "none" /\ reader[new] = "none" /\ owner[new] = Nil /\ launched \in Nat /\ new = launched + 1
      /\ \A p \in Procs : Busy(p) \/ owner[p] # Nil => p # new
      /\ \A p \in Procs : Busy(p) => owner[p] \in Managers /\ owner[p] <= managers
  BY <1>2, NextProcess DEF new
<1>6. Watched'
  <2>1. \A p \in Procs : proc'[p] = "alive" => exit'[p] = "wait"
    BY <1>4 DEF EndSide, Watched
  <2>2. \A p \in Procs : p # new /\ Busy(p)' => Busy(p) /\ owner'[p] = owner[p] /\ owner'[p] # m
    BY <1>3, <1>4, <1>5 DEF Busy
  <2>3. \A p, o \in Procs : Busy(p)' /\ Busy(o)' /\ owner'[p] = owner'[o] => p = o
    BY <1>4, <2>2 DEF EndSide, Watched
  <2>4. \A p \in Procs : owner'[p] # Nil => p <= launched'
    BY <1>1, <1>4, <1>5 DEF EndSide, Watched, Procs
  <2> QED
    BY <2>1, <2>3, <2>4 DEF Watched
<1>7. Vouched'
  <2>1. \A p \in Procs : p # new /\ exit'[p] = "wait" => exit[p] = "wait" /\ owner[p] \in Managers
    BY <1>4, <1>5 DEF Busy
  <2> QED
    BY <1>1, <1>4, <2>1 DEF EndSide, Vouched
<1>8. Uninterrupted'
  <2>1. interrupter' <= managers'
    BY <1>1, <1>3 DEF EndSide, Uninterrupted, IInv, TypeOK, GoroutinesOK, Managers, Nil
  <2>2. ~interrupted[m] /\ \A n \in Managers : n > m => ~interrupted[n]
    BY <1>3 DEF EndSide, Uninterrupted, Managers
  <2>3. \A r \in Requests : sender'[r] = "write" =>
          /\ sender[r] = "write" /\ target[r] \in Procs /\ owner[target[r]] # Nil
          /\ owner'[target[r]] = owner[target[r]]
    <3>1. ASSUME NEW r \in Requests, sender'[r] = "write"
          PROVE sender[r] = "write" /\ target[r] \in Procs /\ owner[target[r]] # Nil
      BY <1>4, <3>1 DEF EndSide, Uninterrupted, IInv, TypeOK, GoroutinesOK, RequestSide, Sending
    <3> QED
      BY <1>4, <1>5, <3>1
  <2>4. \A r \in Requests : AtHand(r)' => AtHand(r)
    BY <1>1 DEF AtHand
  <2>5. \A r \in Requests : AtHand(r)' /\ sender'[r] = "write" => ~interrupted'[owner'[target'[r]]]
    BY <1>1, <2>3, <2>4 DEF EndSide, Uninterrupted
  <2>6. \A r \in Requests : sender'[r] = "write" => owner'[target'[r]] # Nil
    BY <1>1, <2>3
  <2> QED
    BY <1>1, <2>1, <2>2, <2>5, <2>6 DEF Uninterrupted
<1>9. Turns'
  BY <1>1, <1>4, TurnsStay DEF EndSide
<1>10. \A p \in Procs : reader[p] = "finish" => reader'[p] = "finish" /\ snap'[p] = snap[p]
  BY <1>1, <1>4, <1>5
<1>11. Completed'
  BY <1>1, <1>10, CompletedStays DEF EndSide
<1>12. Kept'
  <2>1. Telling => Telling'
    BY <1>1, <1>4, <1>5 DEF Telling, Busy
  <2>2. \A r \in Requests : AtHand(r)' /\ sender'[r] = "done" => sender[r] = "done"
    BY <1>4
  <2> QED
    BY <1>1, <1>10, <2>1, <2>2, KeptStays DEF EndSide
<1> QED
  BY <1>6, <1>7, <1>8, <1>9, <1>11, <1>12 DEF EndSide

LEMMA StartFailsEnd ==
  ASSUME IInv, EndSide, panic = "none", NEW q \in Requests, StartFails(q)
  PROVE  EndSide'
<1>1. /\ UNCHANGED senderLeaves /\ UNCHANGED <<chan, panic, target>>
      /\ \/ UNCHANGED <<managers, processManager>>
         \/ managers < MaxManagers /\ managers' = managers + 1 /\ processManager' = managers + 1
      /\ sender[q] = "ensure" /\ sender' = [sender EXCEPT ![q] = "failed"]
  BY DEF StartFails, Moves, streamVars, channelVars, procVars, readerVars, stopVars, userVars, senderLeaves
<1>2. sender'[q] = "failed" /\ \A r \in Requests : r # q => sender'[r] = sender[r]
  BY <1>1 DEF IInv, TypeOK, GoroutinesOK
<1>3. Watched' /\ Vouched' /\ Completed'
  BY <1>1, WatchedStays, VouchedStays, CompletedStays DEF EndSide, Busy, senderLeaves
<1>4. Uninterrupted'
  <2>1. CASE UNCHANGED <<managers, processManager>>
    BY <1>1, <1>2, <2>1, UninterruptedStays DEF EndSide, IInv, RequestSide, Sending, senderLeaves
  <2>2. CASE managers < MaxManagers /\ managers' = managers + 1 /\ processManager' = managers + 1
    <3>1. managers \in Nat /\ managers + 1 \in Managers
      BY <2>2, ManagersAssumption DEF IInv, TypeOK, ManagersOK, Managers
    <3>2. interrupter' <= managers'
      BY <1>1, <2>2, <3>1 DEF EndSide, Uninterrupted, IInv, TypeOK, GoroutinesOK, Managers, Nil, senderLeaves
    <3>3. ~interrupted[managers + 1] /\ \A n \in Managers : n > managers + 1 => ~interrupted[n]
      BY <3>1 DEF EndSide, Uninterrupted, Managers
    <3>4. \A r \in Requests : AtHand(r)' => AtHand(r)
      BY <1>1 DEF AtHand, senderLeaves
    <3>5. \A r \in Requests : sender'[r] = "write" => sender[r] = "write"
      BY <1>2
    <3> QED
      BY <1>1, <2>2, <3>2, <3>3, <3>4, <3>5 DEF EndSide, Uninterrupted, senderLeaves
  <2> QED
    BY <1>1, <2>1, <2>2
<1>5. Turns'
  BY <1>1, <1>2, TurnsStay DEF EndSide, senderLeaves
<1>6. Kept'
  <2>1. Telling => Telling'
    BY <1>1 DEF Telling, Busy, senderLeaves
  <2>2. \A r \in Requests : AtHand(r)' /\ sender'[r] = "done" => sender[r] = "done"
    BY <1>2
  <2> QED
    BY <1>1, <2>1, <2>2, KeptStays DEF EndSide, senderLeaves
<1> QED
  BY <1>3, <1>4, <1>5, <1>6 DEF EndSide

\* The process that is launched again is watched in the place of the one that exited.
LEMMA RestartEnd ==
  ASSUME IInv, EndSide, panic = "none", NEW p \in Procs, Restart(p)
  PROVE  EndSide'
<1> DEFINE new == launched + 1
           m == owner[p]
<1>1. /\ UNCHANGED <<stopped, stopper, interrupter, interrupted, channel, complete, cut, strayed, chan, target,
                     snap, managers, processManager, sender, panic>>
      /\ exit[p] = "sleep" /\ launched' = new
      /\ owner' = [owner EXCEPT ![new] = m] /\ proc' = [proc EXCEPT ![new] = "alive"]
      /\ reader' = [reader EXCEPT ![new] = "idle"] /\ running' = [running EXCEPT ![m] = TRUE]
      /\ exit' = [exit EXCEPT ![p] = "done", ![new] = "wait"]
  BY DEF Restart, Launch, streamVars, channelVars, managerVars, senderVars, stopVars, userVars
<1>2. new \in Procs
  BY DEF Restart, Launch
<1>3. /\ exit[new] = "none" /\ reader[new] = "none" /\ owner[new] = Nil /\ launched \in Nat /\ new = launched + 1
      /\ \A o \in Procs : Busy(o) \/ owner[o] # Nil => o # new
      /\ \A o \in Procs : Busy(o) => owner[o] \in Managers /\ owner[o] <= managers
  BY <1>2, NextProcess
<1>4. Busy(p) /\ p # new /\ m \in Managers
  BY <1>1, <1>3 DEF Busy
<1> HIDE DEF new, m
<1>5. /\ owner'[new] = m /\ proc'[new] = "alive" /\ exit'[new] = "wait" /\ running'[m] = TRUE
      /\ owner'[p] = m /\ exit'[p] = "done"
      /\ \A o \in Procs : o # new => owner'[o] = owner[o] /\ proc'[o] = proc[o] /\ reader'[o] = reader[o]
      /\ \A o \in Procs : o # new /\ o # p => exit'[o] = exit[o]
      /\ \A n \in Managers : running[n] => running'[n]
  BY <1>1, <1>2, <1>4 DEF IInv, TypeOK, ManagersOK, ProcessesOK, GoroutinesOK, m
<1>6. Watched'
  <2>1. proc[p] # "alive"
    BY <1>1 DEF EndSide, Watched
  <2>2. \A o \in Procs : proc'[o] = "alive" => exit'[o] = "wait"
    BY <1>4, <1>5, <2>1 DEF EndSide, Watched
  <2>3. \A o \in Procs : o # new /\ Busy(o)' => Busy(o) /\ owner'[o] = owner[o] /\ o # p
    BY <1>5 DEF Busy
  <2>4. \A o \in Procs : o # new /\ Busy(o)' => owner'[o] # m
    BY <1>4, <2>3 DEF EndSide, Watched, m
  <2>5. \A i, o \in Procs : Busy(i)' /\ Busy(o)' /\ owner'[i] = owner'[o] => i = o
    BY <1>5, <2>3, <2>4 DEF EndSide, Watched
  <2>6. \A o \in Procs : owner'[o] # Nil => o <= launched'
    BY <1>1, <1>3, <1>5 DEF EndSide, Watched, Procs
  <2> QED
    BY <2>2, <2>5, <2>6 DEF Watched
<1>7. Vouched'
  <2>1. \A o \in Procs : o # new /\ exit'[o] = "wait" => exit[o] = "wait" /\ owner[o] \in Managers
    BY <1>3, <1>5 DEF Busy
  <2>2. ASSUME NEW o \in Procs, exit'[o] = "wait", stopper = "idle" PROVE running'[owner'[o]]
    <3>1. CASE o = new
      BY <1>5, <3>1
    <3>2. CASE o # new
      <4>1. exit[o] = "wait" /\ owner[o] \in Managers /\ owner'[o] = owner[o]
        BY <1>5, <2>1, <2>2, <3>2
      <4>2. running[owner[o]]
        BY <2>2, <4>1 DEF EndSide, Vouched
      <4> QED
        BY <1>5, <4>1, <4>2
    <3> QED
      BY <3>1, <3>2
  <2> QED
    BY <1>1, <2>2 DEF EndSide, Vouched
<1>8. Uninterrupted'
  BY <1>1, <1>3, <1>5, UninterruptedStays DEF EndSide, IInv, RequestSide, Sending
<1>9. Turns'
  BY <1>1, TurnsStay DEF EndSide
<1>10. \A o \in Procs : reader[o] = "finish" => reader'[o] = "finish" /\ snap'[o] = snap[o]
  BY <1>1, <1>3, <1>5
<1>11. Completed'
  BY <1>1, <1>10, CompletedStays DEF EndSide
<1>12. Telling => Telling'
  <2> SUFFICES ASSUME NEW o \in Procs, Busy(o), exit[o] # "quiet", ~interrupted[owner[o]]
               PROVE  Telling'
    BY DEF Telling
  <2>1. CASE o = p
    <3>1. owner'[new] = owner[p] /\ exit'[new] = "wait" /\ interrupted' = interrupted
      BY <1>1, <1>5 DEF m
    <3> QED
      BY <1>2, <2>1, <3>1 DEF Telling, Busy
  <2>2. CASE o # p
    <3>1. o # new
      BY <1>3
    <3>2. owner'[o] = owner[o] /\ exit'[o] = exit[o] /\ interrupted' = interrupted
      BY <1>1, <1>5, <2>2, <3>1
    <3> QED
      BY <3>2 DEF Telling, Busy
  <2> QED
    BY <2>1, <2>2
<1>13. Kept'
  BY <1>1, <1>10, <1>12, KeptStays DEF EndSide
<1> QED
  BY <1>6, <1>7, <1>8, <1>9, <1>11, <1>13 DEF EndSide

-----------------------------------------------------------------------------
(* The end of a request: processes and their output.                       *)

\* What readOutput and the process itself leave alone.
outputLeaves ==
  <<owner, launched, exit, running, stopped, stopper, interrupter, interrupted, managers, processManager,
    channel, cut, sender, target>>

\* The part of it that does not depend on what is told.
LEMMA OutputStays ==
  ASSUME IInv, EndSide, UNCHANGED outputLeaves,
         \A p \in Procs : proc'[p] = "alive" => proc[p] = "alive",
         \A q \in Requests : chan[q] = "closed" => chan'[q] = "closed"
  PROVE  Watched' /\ Vouched' /\ Uninterrupted' /\ Turns' /\ (Telling => Telling')
<1>1. Watched' /\ Vouched'
  BY WatchedStays, VouchedStays DEF EndSide, Busy, outputLeaves
<1>2. Uninterrupted'
  BY UninterruptedStays DEF EndSide, IInv, RequestSide, Sending, outputLeaves
<1>3. Turns'
  BY TurnsStay DEF EndSide, outputLeaves
<1>4. Telling => Telling'
  BY DEF Telling, Busy, outputLeaves
<1> QED
  BY <1>1, <1>2, <1>3, <1>4

LEMMA ReceivesEnd ==
  ASSUME IInv, EndSide, panic = "none", NEW q \in Requests, Receives(q)
  PROVE  EndSide'
BY EndSideStays DEF Receives, streamVars, managerVars, procVars, senderVars, readerVars, stopVars, userVars

LEMMA ProcWritesEnd ==
  ASSUME IInv, EndSide, panic = "none", NEW p \in Procs, NEW l \in Lines, ProcWrites(p, l)
  PROVE  EndSide'
BY EndSideStays DEF ProcWrites, streamVars, channelVars, managerVars, senderVars, readerVars, stopVars, userVars

LEMMA ProcExitsEnd ==
  ASSUME IInv, EndSide, panic = "none", NEW p \in Procs, ProcExits(p)
  PROVE  EndSide'
<1>1. /\ UNCHANGED outputLeaves /\ UNCHANGED <<chan, complete, strayed, reader, snap>>
      /\ proc' = [proc EXCEPT ![p] = "dead"]
  BY DEF ProcExits, streamVars, channelVars, managerVars, senderVars, readerVars, stopVars, userVars, outputLeaves
<1>2. \A o \in Procs : proc'[o] = "alive" => proc[o] = "alive"
  BY <1>1 DEF IInv, TypeOK, ProcessesOK
<1>3. Watched' /\ Vouched' /\ Uninterrupted' /\ Turns' /\ (Telling => Telling')
  BY <1>1, <1>2, OutputStays
<1>4. Completed'
  BY <1>1, CompletedStays DEF EndSide, outputLeaves
<1>5. Kept'
  BY <1>1, <1>3, KeptStays DEF EndSide, outputLeaves
<1> QED
  BY <1>3, <1>4, <1>5 DEF EndSide

\* The reader is not about to finish, before or after.
LEMMA ReaderGoesOn ==
  ASSUME IInv, EndSide, panic = "none", NEW p \in Procs,
         TakesLine(p) \/ ReaderEnds(p) \/ LooksUpChannel(p) \/ SendsText(p)
  PROVE  EndSide'
<1>1. /\ UNCHANGED outputLeaves /\ UNCHANGED <<chan, complete, strayed, proc>>
      /\ reader[p] \in {"idle", "line", "send"}
      /\ \A o \in Procs : o # p => reader'[o] = reader[o] /\ snap'[o] = snap[o]
  BY DEF TakesLine, ReaderEnds, LooksUpChannel, SendsText, Moves, streamVars, channelVars, managerVars, procVars,
     senderVars, stopVars, userVars, outputLeaves, IInv, TypeOK, GoroutinesOK
<1>2. \A o \in Procs : reader[o] = "finish" => reader'[o] = "finish" /\ snap'[o] = snap[o]
  BY <1>1
<1> QED
  BY <1>1, <1>2, EndSideStays DEF outputLeaves

\* A result is marked: its own request is about to be finished, another one strays.
LEMMA MarksCompleteEnd ==
  ASSUME IInv, EndSide, panic = "none", NEW p \in Procs, MarksComplete(p)
  PROVE  EndSide'
<1>1. /\ UNCHANGED outputLeaves /\ UNCHANGED <<chan, proc, snap>>
      /\ reader[p] = "mark" /\ reader' = [reader EXCEPT ![p] = "finish"]
      /\ strayed' = strayed \cup {q \in Requests : q = channel /\ q # snap[p]}
  BY DEF MarksComplete, Moves, channelVars, procVars, senderVars, stopVars, userVars, outputLeaves
<1>2. /\ reader'[p] = "finish" /\ \A o \in Procs : o # p => reader'[o] = reader[o]
      /\ \A q \in strayed : q \in strayed'
  BY <1>1 DEF IInv, TypeOK, GoroutinesOK
<1>3. Watched' /\ Vouched' /\ Uninterrupted' /\ Turns' /\ (Telling => Telling')
  BY <1>1, OutputStays
<1>4. Completed'
  <2> SUFFICES ASSUME NEW q \in Requests, q = channel', q \notin strayed'
               PROVE  Finishing(q)'
    BY DEF Completed
  <2>1. snap'[p] = q
    BY <1>1 DEF outputLeaves
  <2> QED
    BY <1>2, <2>1 DEF Finishing
<1>5. \A o \in Procs : reader[o] = "finish" => reader'[o] = "finish" /\ snap'[o] = snap[o]
  BY <1>1, <1>2
<1>6. Kept'
  BY <1>1, <1>2, <1>3, <1>5, KeptStays DEF EndSide, outputLeaves
<1> QED
  BY <1>3, <1>4, <1>6 DEF EndSide

\* The request at hand is closed, or it has strayed.
LEMMA FinishesEnd ==
  ASSUME IInv, EndSide, panic = "none", NEW p \in Procs, Finishes(p)
  PROVE  EndSide'
<1>1. /\ UNCHANGED outputLeaves /\ UNCHANGED proc
      /\ complete' = FALSE
      /\ strayed' = strayed \cup {q \in Requests : q = channel /\ q # snap[p]}
      /\ IF snap[p] = Nil \/ closed
           THEN UNCHANGED <<chan, closed, end, missed, panic>>
           ELSE SendsLastAndCloses(snap[p], "done")
  BY DEF Finishes, Moves, procVars, senderVars, stopVars, userVars, managerVars, outputLeaves
<1>2. /\ \A q \in Requests : chan[q] = "closed" => chan'[q] = "closed"
      /\ channel \in Requests => channel \in strayed' \/ chan'[channel] = "closed" \/ panic' # "none"
  <2>1. CASE snap[p] = Nil
    <3>1. channel \in Requests => channel # Nil
      BY DEF Requests, Nil
    <3> QED
      BY <1>1, <2>1, <3>1
  <2>2. CASE closed
    BY <1>1, <2>2 DEF IInv, RequestSide, FlagsAreTrue
  <2>3. CASE ~(snap[p] = Nil \/ closed)
    <3>1. SendsLastAndCloses(snap[p], "done")
      BY <1>1, <2>3
    <3> QED
      BY <3>1, LastFacts
  <2> QED
    BY <2>1, <2>2, <2>3
<1>3. Watched' /\ Vouched' /\ Uninterrupted' /\ Turns'
  BY <1>1, <1>2, OutputStays
<1>4. Completed'
  BY <1>1 DEF Completed
<1>5. Kept'
  BY <1>1, <1>2 DEF Kept, AtHand, outputLeaves
<1> QED
  BY <1>3, <1>4, <1>5 DEF EndSide

-----------------------------------------------------------------------------
(* The end of a request: the exit handling.                                *)

\* What the exit handling of a process leaves alone, but for a restart.
exitLeaves ==
  <<owner, launched, proc, stopped, stopper, interrupter, managers, processManager, channel, complete, cut, strayed,
    sender, target, reader, snap>>

\* The part of it that does not depend on what is told.
LEMMA ExitStays ==
  ASSUME IInv, EndSide, NEW p \in Procs, Busy(p), UNCHANGED exitLeaves, proc[p] # "alive",
         \A m \in Managers : interrupted'[m] => interrupted[m],
         \A o \in Procs : o # p => exit'[o] = exit[o],
         \A q \in Requests : chan[q] = "closed" => chan'[q] = "closed"
  PROVE  /\ Watched' /\ Uninterrupted' /\ Turns' /\ Completed'
         /\ \A o \in Procs : reader[o] = "finish" => reader'[o] = "finish" /\ snap'[o] = snap[o]
<1>1. Watched'
  BY WatchedStays DEF EndSide, Busy, exitLeaves
<1>2. Uninterrupted'
  BY UninterruptedStays DEF EndSide, IInv, RequestSide, Sending, exitLeaves
<1>3. Turns' /\ Completed'
  BY TurnsStay, CompletedStays DEF EndSide, exitLeaves
<1> QED
  BY <1>1, <1>2, <1>3 DEF exitLeaves

\* The exit handling is past the wait, and the flags of the managers stay.
LEMMA ExitGoesOn ==
  ASSUME IInv, EndSide, panic = "none", NEW p \in Procs, Busy(p), exit[p] # "wait", NEW to, to # "wait",
         exit' = [exit EXCEPT ![p] = to], UNCHANGED exitLeaves, UNCHANGED <<running, interrupted>>,
         \A q \in Requests : chan[q] = "closed" => chan'[q] = "closed",
         Kept'
  PROVE  EndSide'
<1>1. exit'[p] = to /\ \A o \in Procs : o # p => exit'[o] = exit[o]
  BY DEF IInv, TypeOK, GoroutinesOK
<1>2. proc[p] # "alive"
  BY DEF EndSide, Watched
<1>3. Watched' /\ Uninterrupted' /\ Turns' /\ Completed'
  BY <1>1, <1>2, ExitStays
<1>4. Vouched'
  BY <1>1, VouchedStays DEF EndSide, exitLeaves
<1> QED
  BY <1>3, <1>4 DEF EndSide

\* The manager counts as running, so that the exit is told or passed over as interrupted.
LEMMA HandleExitEnd ==
  ASSUME IInv, EndSide, panic = "none", NEW p \in Procs, HandleExit(p)
  PROVE  EndSide'
<1> DEFINE m == owner[p]
<1>1. /\ UNCHANGED exitLeaves /\ UNCHANGED chan
      /\ exit[p] = "wait" /\ proc[p] = "dead"
      /\ running' = [running EXCEPT ![m] = FALSE]
      /\ interrupted' = [interrupted EXCEPT ![m] = @ /\ ~running[m]]
      /\ exit' = [exit EXCEPT ![p] = IF ~running[m] THEN "done"
                                     ELSE IF interrupted[m] THEN "quiet" ELSE "report"]
  BY DEF HandleExit, streamVars, channelVars, managerVars, senderVars, readerVars, stopVars, userVars, exitLeaves
<1>2. Busy(p)
  BY <1>1 DEF Busy
<1>3. \A o \in Procs : Busy(o) => owner[o] \in Managers
  <2> SUFFICES ASSUME NEW o \in Procs, Busy(o) PROVE owner[o] \in Managers
    OBVIOUS
  <2>1. o \in 1..launched
    BY DEF Busy, IInv, Numbering, TypeOK, ProcessesOK, Procs
  <2>2. owner[o] \in 0..managers /\ owner[o] # Nil /\ managers \in 0..MaxManagers
    BY <2>1 DEF IInv, TypeOK, ProcessesOK, ManagersOK
  <2> QED
    BY <2>2, ManagersAssumption DEF Managers, Nil
<1>4. /\ exit'[p] = IF ~running[m] THEN "done" ELSE IF interrupted[m] THEN "quiet" ELSE "report"
      /\ \A o \in Procs : o # p => exit'[o] = exit[o]
      /\ \A n \in Managers : n # m => running'[n] = running[n] /\ interrupted'[n] = interrupted[n]
      /\ \A n \in Managers : interrupted'[n] => interrupted[n]
      /\ m \in Managers
  BY <1>1, <1>2, <1>3 DEF IInv, TypeOK, ManagersOK, GoroutinesOK
<1> HIDE DEF m
<1>5. \A o \in Procs : o # p /\ Busy(o) => owner[o] # m /\ owner[o] \in Managers
  BY <1>2, <1>3 DEF EndSide, Watched, m
<1>6. /\ Watched' /\ Uninterrupted' /\ Turns' /\ Completed'
      /\ \A o \in Procs : reader[o] = "finish" => reader'[o] = "finish" /\ snap'[o] = snap[o]
  BY <1>1, <1>2, <1>4, ExitStays
<1>7. Vouched'
  <2> SUFFICES ASSUME stopper' = "idle" PROVE ~stopped' /\ \A o \in Procs : exit'[o] = "wait" => running'[owner'[o]]
    BY DEF Vouched
  <2>1. stopper = "idle" /\ ~stopped /\ ~stopped'
    BY <1>1 DEF EndSide, Vouched, exitLeaves
  <2>2. \A o \in Procs : exit'[o] = "wait" => o # p /\ exit[o] = "wait" /\ Busy(o)
    BY <1>4 DEF Busy
  <2>3. \A o \in Procs : exit'[o] = "wait" => running[owner[o]] /\ running'[owner[o]] = running[owner[o]]
    BY <1>4, <1>5, <2>1, <2>2 DEF EndSide, Vouched
  <2> QED
    BY <1>1, <2>1, <2>3 DEF exitLeaves
<1>8. CASE stopper = "idle"
  <2>1. running[m]
    BY <1>1, <1>8 DEF EndSide, Vouched, m
  <2>2. ASSUME NEW o \in Procs, Busy(o), exit[o] # "quiet", ~interrupted[owner[o]] PROVE Telling'
    <3>1. CASE o = p
      <4>1. exit'[p] = "report" /\ ~interrupted'[m] /\ owner'[p] = m
        BY <1>1, <1>4, <2>1, <2>2, <3>1 DEF m, exitLeaves
      <4> QED
        BY <4>1 DEF Telling, Busy
    <3>2. CASE o # p
      <4>1. exit'[o] = exit[o] /\ owner'[o] = owner[o] /\ interrupted'[owner[o]] = interrupted[owner[o]]
        BY <1>1, <1>4, <1>5, <2>2, <3>2 DEF exitLeaves
      <4> QED
        BY <2>2, <4>1 DEF Telling, Busy
    <3> QED
      BY <3>1, <3>2
  <2>3. Telling => Telling'
    BY <2>2 DEF Telling
  <2>4. Kept'
    BY <1>1, <1>6, <2>3, KeptStays DEF EndSide, exitLeaves
  <2> QED
    BY <1>6, <1>7, <2>4 DEF EndSide
<1>9. CASE stopper # "idle"
  <2>1. Kept'
    BY <1>1, <1>9 DEF Kept, exitLeaves
  <2> QED
    BY <1>6, <1>7, <2>1 DEF EndSide
<1> QED
  BY <1>8, <1>9

LEMMA ReportsQuietExitEnd ==
  ASSUME IInv, EndSide, panic = "none", NEW p \in Procs, ReportsQuietExit(p)
  PROVE  EndSide'
<1>1. /\ UNCHANGED exitLeaves /\ UNCHANGED <<running, interrupted, chan>>
      /\ exit[p] = "quiet" /\ exit' = [exit EXCEPT ![p] = "done"]
  BY DEF ReportsQuietExit, HandleProcessExit, Moves, exitUnchanged, channelVars, senderVars, stopVars, userVars,
     exitLeaves
<1>2. \A o \in Procs : o # p => exit'[o] = exit[o]
  BY <1>1
<1>3. Telling => Telling'
  BY <1>1, <1>2 DEF Telling, Busy, exitLeaves
<1>4. Kept'
  BY <1>1, <1>3, KeptStays DEF EndSide, exitLeaves
<1> QED
  BY <1>1, <1>4, ExitGoesOn DEF Busy

\* The exit handling gives up only after Stop or when a reader has seen the result.
LEMMA ReportsExitEnd ==
  ASSUME IInv, EndSide, panic = "none", NEW p \in Procs, ReportsExit(p)
  PROVE  EndSide'
<1>1. /\ UNCHANGED exitLeaves /\ UNCHANGED <<running, interrupted, chan>>
      /\ exit[p] = "report" /\ (MayRestart \/ exit' = [exit EXCEPT ![p] = "done"])
      /\ (~MayRestart \/ \E to \in {"attempt", "fatal"} : exit' = [exit EXCEPT ![p] = to])
  BY DEF ReportsExit, HandleProcessExit, exitUnchanged, channelVars, senderVars, stopVars, userVars, exitLeaves
<1>2. Busy(p)
  BY <1>1 DEF Busy
<1>3. CASE MayRestart
  <2>1. PICK to \in {"attempt", "fatal"} : exit' = [exit EXCEPT ![p] = to]
    BY <1>1, <1>3
  <2>2. exit'[p] = to /\ \A o \in Procs : o # p => exit'[o] = exit[o]
    BY <2>1 DEF IInv, TypeOK, GoroutinesOK
  <2>3. Telling => Telling'
    BY <1>1, <2>2 DEF Telling, Busy, exitLeaves
  <2>4. Kept'
    BY <1>1, <2>3, KeptStays DEF EndSide, exitLeaves
  <2> QED
    BY <1>1, <1>2, <2>1, <2>4, ExitGoesOn
<1>4. CASE ~MayRestart
  <2>1. Completed'
    BY <1>1, CompletedStays DEF EndSide, exitLeaves
  <2>2. stopper = "idle" => complete'
    BY <1>1, <1>4 DEF MayRestart, EndSide, Vouched, exitLeaves
  <2>3. Kept'
    BY <1>1, <2>1, <2>2 DEF Kept, Completed, AtHand, exitLeaves
  <2>4. exit' = [exit EXCEPT ![p] = "done"]
    BY <1>1, <1>4
  <2> QED
    BY <1>1, <1>2, <2>3, <2>4, ExitGoesOn
<1> QED
  BY <1>3, <1>4

\* A restart is tried, or has failed.
LEMMA ExitRetries ==
  ASSUME IInv, EndSide, panic = "none", NEW p \in Procs, HandleRestartAttempt(p) \/ RestartFails(p)
  PROVE  EndSide'
<1>1. /\ UNCHANGED exitLeaves /\ UNCHANGED <<running, interrupted, chan>>
      /\ exit[p] \in {"attempt", "sleep"} /\ \E to \in {"sleep", "fatal"} : exit' = [exit EXCEPT ![p] = to]
  BY DEF HandleRestartAttempt, RestartFails, Moves, exitUnchanged, streamVars, channelVars, senderVars, stopVars,
     userVars, exitLeaves
<1>2. PICK to \in {"sleep", "fatal"} : exit' = [exit EXCEPT ![p] = to]
  BY <1>1
<1>3. exit'[p] = to /\ \A o \in Procs : o # p => exit'[o] = exit[o]
  BY <1>2 DEF IInv, TypeOK, GoroutinesOK
<1>4. Telling => Telling'
  BY <1>1, <1>3 DEF Telling, Busy, exitLeaves
<1>5. Kept'
  BY <1>1, <1>4, KeptStays DEF EndSide, exitLeaves
<1> QED
  BY <1>1, <1>2, <1>5, ExitGoesOn DEF Busy

LEMMA HandleFatalErrorEnd ==
  ASSUME IInv, EndSide, panic = "none", NEW p \in Procs, HandleFatalError(p)
  PROVE  EndSide'
<1>1. /\ UNCHANGED exitLeaves /\ UNCHANGED <<running, interrupted>>
      /\ exit[p] = "fatal" /\ exit' = [exit EXCEPT ![p] = "done"]
      /\ IF ChannelOpen THEN SendsLastAndCloses(channel, "error")
                        ELSE UNCHANGED <<chan, closed, end, missed, panic>>
  BY DEF HandleFatalError, fatalUnchanged, exitUnchanged, Moves, senderVars, stopVars, userVars, exitLeaves
<1>2. /\ \A q \in Requests : chan[q] = "closed" => chan'[q] = "closed"
      /\ channel \in Requests => chan'[channel] = "closed" \/ panic' # "none"
  <2>1. CASE ChannelOpen
    BY <1>1, <2>1, LastFacts
  <2>2. CASE ~ChannelOpen
    <3>1. channel \in Requests => channel # Nil
      BY DEF Requests, Nil
    <3> QED
      BY <1>1, <2>2, <3>1 DEF IInv, RequestSide, FlagsAreTrue, ChannelOpen
  <2> QED
    BY <2>1, <2>2
<1>3. Kept'
  BY <1>1, <1>2, KeptByClosing DEF exitLeaves
<1> QED
  BY <1>1, <1>2, <1>3, ExitGoesOn DEF Busy

-----------------------------------------------------------------------------
(* The end of a request: Interrupt and Stop.                               *)

\* What both of them leave alone.
userLeaves ==
  <<owner, launched, exit, managers, processManager, channel, complete, strayed, sender, target, reader, snap, chan>>

\* From the moment the manager is looked up the request counts as interrupted.
LEMMA InterruptEnd ==
  ASSUME IInv, EndSide, panic = "none", InterruptBegins \/ InterruptSets
  PROVE  EndSide'
<1>1. /\ UNCHANGED userLeaves /\ UNCHANGED <<proc, running, stopped, stopper>>
      /\ cut' = cut \cup {q \in Requests : q = channel}
  BY DEF InterruptBegins, InterruptSets, streamVars, channelVars, managerVars, procVars, senderVars, readerVars,
     stopVars, userLeaves
<1>2. \A q \in Requests : ~AtHand(q)'
  BY <1>1 DEF AtHand, userLeaves
<1>3. Watched' /\ Vouched'
  BY <1>1, WatchedStays, VouchedStays DEF EndSide, Busy, userLeaves
<1>4. Turns' /\ Completed'
  BY <1>1, TurnsStay, CompletedStays DEF EndSide, userLeaves
<1>5. interrupter' <= managers' /\ \A m \in Managers : m > managers' => ~interrupted'[m]
  <2>1. CASE InterruptBegins
    <3>1. interrupter' = processManager /\ interrupted' = interrupted /\ managers' = managers
      BY <2>1 DEF InterruptBegins, managerVars
    <3>2. processManager <= managers
      BY DEF IInv, TypeOK, RunnerOK, ManagersOK
    <3> QED
      BY <3>1, <3>2 DEF EndSide, Uninterrupted
  <2>2. CASE InterruptSets
    <3>1. /\ interrupter' = Nil /\ interrupted' = [interrupted EXCEPT ![interrupter] = TRUE]
          /\ managers' = managers
      BY <2>2 DEF InterruptSets, managerVars
    <3>2. managers \in Nat /\ interrupter \in Nat /\ interrupter <= managers
      BY DEF EndSide, Uninterrupted, IInv, TypeOK, GoroutinesOK, ManagersOK, Managers, Nil
    <3>3. \A m \in Managers : m > managers => m # interrupter
      BY <3>2 DEF Managers
    <3> QED
      BY <3>1, <3>2, <3>3 DEF EndSide, Uninterrupted, Nil, IInv, TypeOK, ManagersOK
  <2> QED
    BY <2>1, <2>2
<1>6. Uninterrupted'
  BY <1>1, <1>2, <1>5 DEF EndSide, Uninterrupted, userLeaves
<1>7. Kept'
  BY <1>2 DEF Kept
<1> QED
  BY <1>3, <1>4, <1>6, <1>7 DEF EndSide

\* Once Stop has begun nothing is promised any more.
LEMMA StopEnd ==
  ASSUME IInv, EndSide, panic = "none", Stop
  PROVE  EndSide'
<1>1. /\ UNCHANGED userLeaves /\ UNCHANGED <<cut, interrupter, interrupted>> /\ stopper' # "idle"
  BY DEF Stop, StopBegins, StopKills, StopWaits, StopMarks, stopUnchanged, streamVars, channelVars, managerVars,
     senderVars, readerVars, userLeaves
<1>2. \A p \in Procs : proc'[p] = "alive" => proc[p] = "alive"
  BY DEF Stop, StopBegins, StopKills, StopWaits, StopMarks
<1>3. Watched'
  BY <1>1, <1>2, WatchedStays DEF EndSide, Busy, userLeaves
<1>4. Vouched' /\ Kept'
  BY <1>1 DEF Vouched, Kept
<1>5. Uninterrupted'
  BY <1>1, UninterruptedStays DEF EndSide, IInv, RequestSide, Sending, userLeaves
<1>6. Turns' /\ Completed'
  BY <1>1, TurnsStay, CompletedStays DEF EndSide, userLeaves
<1> QED
  BY <1>3, <1>4, <1>5, <1>6 DEF EndSide

-----------------------------------------------------------------------------
(* The end of a request: theorem.                                          *)

LEMMA InitEnd == Init => EndSide
<1> SUFFICES ASSUME Init PROVE EndSide
  OBVIOUS
<1>1. Watched /\ Vouched /\ Completed
  BY DEF Init, Watched, Vouched, Completed, Busy
<1>2. Uninterrupted
  BY DEF Init, Uninterrupted, AtHand, Nil
<1>3. Turns /\ Kept
  BY DEF Init, Turns, Kept, AtHand
<1> QED
  BY <1>1, <1>2, <1>3 DEF EndSide

LEMMA NextEnd == IInv /\ EndSide /\ [Next]_vars => EndSide'
<1> SUFFICES ASSUME IInv, EndSide, [Next]_vars PROVE EndSide'
  OBVIOUS
<1>1. CASE UNCHANGED vars
  <2> USE <1>1 DEF vars, streamVars, channelVars, managerVars, procVars, senderVars, readerVars, stopVars, userVars
  <2>1. Watched' /\ Vouched' /\ Completed'
    BY WatchedStays, VouchedStays, CompletedStays DEF EndSide, Busy
  <2>2. Uninterrupted' /\ Turns'
    BY UninterruptedStays, TurnsStay DEF EndSide, IInv, RequestSide, Sending
  <2>3. Kept'
    BY DEF EndSide, Kept, AtHand, Finishing, Telling, Busy
  <2> QED
    BY <2>1, <2>2, <2>3 DEF EndSide
<1>2. CASE panic = "none" /\ \E q \in Requests : SendContent(q) \/ Receives(q)
  BY <1>2, SendFailsEarlyEnd, SendBeginsEnd, SetUpEnd, SenderGoesOn, StartsProcessEnd, StartFailsEnd, ClosersEnd,
     LooksUpStdinEnd, WritesEnd, ReceivesEnd DEF SendContent
<1>3. CASE panic = "none" /\ \E p \in Procs : HandleProcessLine(p)
  BY <1>3, ReaderGoesOn, MarksCompleteEnd, FinishesEnd DEF HandleProcessLine
<1>4. CASE panic = "none" /\ \E p \in Procs : ExitStep(p)
  BY <1>4, HandleExitEnd, ReportsQuietExitEnd, ReportsExitEnd, ExitRetries, RestartEnd, HandleFatalErrorEnd DEF ExitStep
<1>5. CASE panic = "none" /\ \E p \in Procs : ProcStep(p)
  BY <1>5, ProcWritesEnd, ProcExitsEnd DEF ProcStep
<1>6. CASE panic = "none" /\ (Interrupt \/ Stop)
  BY <1>6, InterruptEnd, StopEnd DEF Interrupt
<1> QED
  BY <1>1, <1>2, <1>3, <1>4, <1>5, <1>6 DEF Next

\* A request that is not the one at hand is closed because it was followed or never set up; the one at hand
\* has nobody left to end it.
LEMMA EndSideSuffices == IInv /\ EndSide => NoSilentEnd
<1> SUFFICES ASSUME IInv, EndSide, NEW q \in Requests, Quiet(q), q \notin cut \cup strayed,
                    stopper = "idle", panic = "none"
             PROVE  chan[q] = "closed"
  BY DEF NoSilentEnd
<1>1. sender[q] = "done" /\ channel \in Nat /\ q \in Nat
  BY DEF Quiet, IInv, TypeOK, RunnerOK, Requests, Nil
<1>2. CASE channel < q
  BY <1>1, <1>2 DEF EndSide, Turns
<1>3. CASE q = channel
  <2>1. ~Finishing(q)
    BY DEF Finishing, Quiet
  <2>2. ~Telling
    BY DEF Telling, Busy, Quiet
  <2> QED
    BY <1>1, <1>3, <2>1, <2>2 DEF EndSide, Kept, AtHand
<1>4. CASE q < channel
  <2>1. channel \in Requests /\ q + 1 \in Requests /\ q + 1 <= channel
    BY <1>1, <1>4, RequestsAssumption DEF IInv, TypeOK, RunnerOK, Requests, Nil
  <2>2. sender[channel] \notin Unset
    BY <1>1, <2>1 DEF IInv, RequestSide, Order
  <2>3. sender[q + 1] \notin Unset
    <3>1. CASE q + 1 = channel
      BY <2>2, <3>1
    <3>2. CASE q + 1 # channel
      <4>1. q + 1 < channel
        BY <1>1, <2>1, <3>2
      <4> QED
        BY <2>1, <2>2, <4>1 DEF IInv, RequestSide, Order, Unset
    <3> QED
      BY <3>1, <3>2
  <2> QED
    BY <2>1, <2>3 DEF EndSide, Turns, Unset
<1> QED
  BY <1>1, <1>2, <1>3, <1>4

\* Whatever crashes, fails to start or fails to write, and in whatever order the callbacks come, a request
\* that was neither interrupted nor met by a stray result, on a Runner that was not stopped, is closed
\* before the last goroutine that could end it is gone.
THEOREM NobodyWaitsInVain == Spec => []NoSilentEnd
<1>1. Init => IInv /\ EndSide
  BY InitInv, InitEnd
<1>2. IInv /\ EndSide /\ [Next]_vars => IInv' /\ EndSide'
  BY NextInv, UnchangedInv, NextEnd
<1>3. IInv /\ EndSide => NoSilentEnd
  BY EndSideSuffices
<1> QED
  BY <1>1, <1>2, <1>3, PTL DEF Spec

=============================================================================
