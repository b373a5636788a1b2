--------------------------- MODULE ManagedProcess ---------------------------
(***************************************************************************)
(* What a ProcessManager promises its owner, with no goroutine, lock or    *)
(* pipe in sight: one process at a time, restarted a bounded number of     *)
(* times between two result messages, and an end from which nothing comes  *)
(* back.  ProcessManager is shown to implement this specification.         *)
(***************************************************************************)
EXTENDS Naturals

CONSTANT MaxAttempts

VARIABLES
  phase,     \* where the life of the managed process stands
  attempts   \* restarts granted since the last result message

vars == <<phase, attempts>>

Phases == {"idle", "up", "down", "retrying", "over"}

TypeOK == phase \in Phases /\ attempts \in 0..MaxAttempts

Init == phase = "idle" /\ attempts = 0

Moves(from, to) == phase = from /\ phase' = to

\* The first launch, or a launch that was granted; it may fail.
Launch ==
  /\ Moves("idle", "up") \/ Moves("idle", "over")
  /\ UNCHANGED attempts

\* The process ends, by itself or killed.
Exit == Moves("up", "down") /\ UNCHANGED attempts

\* The owner hears of a result message; lines may still arrive after the exit.
Answer == phase # "idle" /\ attempts' = 0 /\ UNCHANGED phase

Grant ==
  /\ Moves("down", "retrying")
  /\ attempts < MaxAttempts /\ attempts' = attempts + 1

Retry ==
  /\ Moves("retrying", "up") \/ Moves("retrying", "over")
  /\ UNCHANGED attempts

Conclude == Moves("down", "over") /\ UNCHANGED attempts

Next == Launch \/ Exit \/ Answer \/ Grant \/ Retry \/ Conclude

Spec == Init /\ [][Next]_vars

\* An exit is never left half handled.
Handle == Grant \/ Conclude \/ Retry

FairSpec == Spec /\ WF_vars(Handle)

=============================================================================
