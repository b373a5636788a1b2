----------------------------- MODULE SessionStore -----------------------------
(***************************************************************************)
(* What is kept of sessions on disk and in the config (src/config,         *)
(* src/session): the sessions of the Config in memory and in its file, a   *)
(* git worktree, a branch and a file of messages for each, and the         *)
(* operations that touch several of them one after the other.  A thread is *)
(* a goroutine of the application; the application may crash between any   *)
(* two steps and be started again, when it loads the file and migrates the *)
(* worktrees of the old layout.                                            *)
(*                                                                         *)
(* Sessions are numbered as made; the first Legacy of them are there at    *)
(* the start, with worktrees at their old place.                           *)
(***************************************************************************)
EXTENDS Naturals, FiniteSets

CONSTANTS
  Threads,
  Legacy,      \* the sessions of the old layout
  MaxSessions, \* bound: sessions made, with the legacy ones
  MaxCrashes   \* bound

ASSUME StoreAssumption ==
  MaxSessions \in Nat /\ MaxCrashes \in Nat /\ Legacy \in 0..MaxSessions

Ids == 1..MaxSessions
Places == {"none", "old", "new"}
Absent == [path |-> "none", parent |-> 0]

VARIABLES
  sessions,  \* Config.Sessions in memory; Absent, or a path and a parent
  file,      \* the config file: [torn, sessions]
  made,      \* sessions made so far
  worktree,  \* where the worktree of each session is
  branch,    \* the sessions whose branch exists
  messages,  \* the sessions with a file of messages
  thread,    \* each thread: [op, at, id, parent, ids]; idle when at = "idle"
  phase,     \* the application: "down", "migrate", "move", "up" or "failed"
  migrating, \* MigrateWorktrees: [todo, id, migrated]
  crashes,
  \* History.
  removed,   \* sessions whose worktree a Delete has removed
  young      \* sessions put in the config while a prune was running, or pruned before

diskVars    == <<worktree, branch, messages>>
historyVars == <<removed, young>>
vars == <<sessions, file, made, diskVars, thread, phase, migrating, crashes, historyVars>>

Idle == [op |-> "none", at |-> "idle", id |-> 0, parent |-> 0, ids |-> {}]
NoMigration == [todo |-> {}, id |-> 0, migrated |-> FALSE]
Registered == {id \in Ids : sessions[id] # Absent}

Init ==
  /\ sessions = [id \in Ids |-> Absent]
  /\ file = [torn |-> FALSE,
             sessions |-> [id \in Ids |-> IF id <= Legacy THEN [path |-> "old", parent |-> 0]
                                          ELSE Absent]]
  /\ made = Legacy
  /\ worktree = [id \in Ids |-> IF id <= Legacy THEN "old" ELSE "none"]
  /\ branch = 1..Legacy /\ messages = {}
  /\ thread = [t \in Threads |-> Idle]
  /\ phase = "down" /\ migrating = NoMigration /\ crashes = 0
  /\ removed = {} /\ young = {}

Goes(t, at) == thread' = [thread EXCEPT ![t].at = at]
Ends(t) == thread' = [thread EXCEPT ![t] = Idle]
At(t, op, at) == thread[t].op = op /\ thread[t].at = at
Begins(t, op, at, id, parent, ids) ==
  /\ phase = "up" /\ thread[t] = Idle
  /\ thread' = [thread EXCEPT ![t] =
       [op |-> op, at |-> at, id |-> id, parent |-> parent, ids |-> ids]]
Id(t) == thread[t].id

-----------------------------------------------------------------------------
(* Start and crash.                                                        *)

\* Mutant of Load: a file that does not parse is taken for what it holds.
LoadAnyway ==
  /\ phase = "down"
  /\ sessions' = file.sessions /\ phase' = "migrate"
  /\ migrating' = [NoMigration EXCEPT !.todo = {id \in Ids : file.sessions[id].path = "old"}]
  /\ UNCHANGED <<file, made, diskVars, thread, crashes, historyVars>>

\* A file that does not parse is an error, and the application does not start.
Load ==
  /\ phase = "down"
  /\ \/ file.torn /\ phase' = "failed" /\ UNCHANGED <<sessions, migrating>>
     \/ /\ ~file.torn
        /\ sessions' = file.sessions /\ phase' = "migrate"
        /\ migrating' = [NoMigration EXCEPT !.todo = {id \in Ids : file.sessions[id].path = "old"}]
  /\ UNCHANGED <<file, made, diskVars, thread, crashes, historyVars>>

UpdateSessionWorkTree(id) == sessions' = [sessions EXCEPT ![id].path = "new"]
Written == [torn |-> FALSE, sessions |-> sessions]

\* Mutant of MigrateMissing: a session whose old worktree is missing is left.
MigrateMissingNot ==
  /\ phase = "migrate"
  /\ \E id \in migrating.todo :
       /\ worktree[id] # "old"
       /\ migrating' = [migrating EXCEPT !.todo = @ \ {id}]
  /\ UNCHANGED <<sessions, file, made, diskVars, thread, phase, crashes, historyVars>>

\* The old worktree is missing: the path is updated, nothing moved.
MigrateMissing ==
  /\ phase = "migrate"
  /\ \E id \in migrating.todo :
       /\ worktree[id] # "old"
       /\ UpdateSessionWorkTree(id)
       /\ migrating' = [migrating EXCEPT !.todo = @ \ {id}, !.migrated = TRUE]
  /\ UNCHANGED <<file, made, diskVars, thread, phase, crashes, historyVars>>

\* git worktree move, or os.Rename for want of it, or both fail.
MigrateMove ==
  /\ phase = "migrate"
  /\ \E id \in migrating.todo :
       /\ worktree[id] = "old"
       /\ \/ /\ worktree' = [worktree EXCEPT ![id] = "new"]
             /\ phase' = "move"
             /\ migrating' = [migrating EXCEPT !.todo = @ \ {id}, !.id = id]
          \/ /\ migrating' = [migrating EXCEPT !.todo = @ \ {id}]
             /\ UNCHANGED <<worktree, phase>>
  /\ UNCHANGED <<sessions, file, made, branch, messages, thread, crashes, historyVars>>

MigrateUpdate ==
  /\ phase = "move"
  /\ UpdateSessionWorkTree(migrating.id)
  /\ migrating' = [migrating EXCEPT !.migrated = TRUE]
  /\ phase' = "migrate"
  /\ UNCHANGED <<file, made, diskVars, thread, crashes, historyVars>>

\* One Save for all of them, if any was migrated.
MigrateSave ==
  /\ phase = "migrate" /\ migrating.todo = {}
  /\ file' = IF migrating.migrated THEN Written ELSE file
  /\ phase' = "up" /\ migrating' = NoMigration
  /\ UNCHANGED <<sessions, made, diskVars, thread, crashes, historyVars>>

\* os.WriteFile writes in place: a crash in a Save leaves a part of the file.
Crash ==
  /\ phase \in {"migrate", "move", "up"} /\ crashes < MaxCrashes
  /\ crashes' = crashes + 1 /\ phase' = "down"
  /\ sessions' = [id \in Ids |-> Absent]
  /\ thread' = [t \in Threads |-> Idle] /\ migrating' = NoMigration
  /\ \/ UNCHANGED file
     \/ /\ \/ \E t \in Threads : thread[t].at = "save"
           \/ phase = "migrate" /\ migrating.todo = {} /\ migrating.migrated
        /\ file' = [file EXCEPT !.torn = TRUE]
  /\ UNCHANGED <<made, diskVars, historyVars>>

Lifecycle ==
  Load \/ MigrateMissing \/ MigrateMove \/ MigrateUpdate \/ MigrateSave \/ Crash

-----------------------------------------------------------------------------
(* Create or CreateFromBranch, then AddSession and Save by its caller.     *)

\* git worktree add -b; when it fails it leaves nothing.
CreateWorktree(t) ==
  /\ made < MaxSessions
  /\ \E parent \in {0} \cup (Registered \cap branch) :
       Begins(t, "Create", "add", made + 1, parent, {})
  /\ made' = made + 1
  /\ worktree' = [worktree EXCEPT ![made'] = "new"]
  /\ branch' = branch \cup {made'}
  /\ UNCHANGED <<sessions, file, messages, phase, migrating, crashes, historyVars>>

AddSession(t) ==
  /\ At(t, "Create", "add")
  /\ sessions' = [sessions EXCEPT ![Id(t)] = [path |-> "new", parent |-> thread[t].parent]]
  /\ young' = IF \E u \in Threads : thread[u].op = "Prune" THEN young \cup {Id(t)} ELSE young
  /\ Goes(t, "save")
  /\ UNCHANGED <<file, made, diskVars, phase, migrating, crashes, removed>>

\* Mutant of Save: what a thread saves is what it has changed.
SaveOwn(t) ==
  /\ thread[t].at = "save"
  /\ file' = [torn |-> FALSE,
              sessions |-> [file.sessions EXCEPT ![Id(t)] = sessions[Id(t)]]]
  /\ Ends(t)
  /\ UNCHANGED <<sessions, made, diskVars, phase, migrating, crashes, historyVars>>

\* The whole Config, under its lock.
Save(t) ==
  /\ thread[t].at = "save"
  /\ file' = Written
  /\ Ends(t)
  /\ UNCHANGED <<sessions, made, diskVars, phase, migrating, crashes, historyVars>>

Create(t) == CreateWorktree(t) \/ AddSession(t)

-----------------------------------------------------------------------------
(* Delete of SessionService, then RemoveSession, ClearOrphanedParentIDs,   *)
(* DeleteSessionMessages and Save by its caller.                           *)

\* The worktree must go, or the rest is left alone.  git refuses one that is
\* not where the session says.
RemoveWorktree(t) ==
  /\ \E id \in Registered :
       /\ worktree[id] = sessions[id].path
       /\ Begins(t, "Delete", "branch", id, 0, {})
       /\ worktree' = [worktree EXCEPT ![id] = "none"]
       /\ removed' = removed \cup {id}
  /\ UNCHANGED <<sessions, file, made, branch, messages, phase, migrating, crashes, young>>

DeleteBranch(t) ==
  /\ At(t, "Delete", "branch")
  /\ branch' \in {branch, branch \ {Id(t)}}
  /\ Goes(t, "remove")
  /\ UNCHANGED <<sessions, file, made, worktree, messages, phase, migrating, crashes, historyVars>>

RemoveSession(t) ==
  /\ At(t, "Delete", "remove")
  /\ sessions' = [sessions EXCEPT ![Id(t)] = Absent]
  /\ Goes(t, "clear")
  /\ UNCHANGED <<file, made, diskVars, phase, migrating, crashes, historyVars>>

ClearOrphanedParentIDs(t) ==
  /\ At(t, "Delete", "clear")
  /\ sessions' = [id \in Ids |-> IF sessions[id].parent = Id(t)
                                 THEN [sessions[id] EXCEPT !.parent = 0] ELSE sessions[id]]
  /\ Goes(t, "messages")
  /\ UNCHANGED <<file, made, diskVars, phase, migrating, crashes, historyVars>>

DeleteSessionMessages(t) ==
  /\ At(t, "Delete", "messages")
  /\ messages' = messages \ {Id(t)}
  /\ Goes(t, "save")
  /\ UNCHANGED <<sessions, file, made, worktree, branch, phase, migrating, crashes, historyVars>>

Delete(t) ==
  \/ RemoveWorktree(t) \/ DeleteBranch(t) \/ RemoveSession(t)
  \/ ClearOrphanedParentIDs(t) \/ DeleteSessionMessages(t)

-----------------------------------------------------------------------------
(* SaveSessionMessages, and PruneOrphanedSessionMessages.                  *)

CallSaveMessages(t) ==
  /\ \E id \in Registered : Begins(t, "SaveMessages", "write", id, 0, {})
  /\ UNCHANGED <<sessions, file, made, diskVars, phase, migrating, crashes, historyVars>>

SaveSessionMessages(t) ==
  /\ At(t, "SaveMessages", "write")
  /\ messages' = messages \cup {Id(t)}
  /\ Ends(t)
  /\ UNCHANGED <<sessions, file, made, worktree, branch, phase, migrating, crashes, historyVars>>

\* Mutant of ListMessages: the sessions of the config are read before the files.
ListMessagesLate(t) ==
  /\ Begins(t, "PruneMessages", "known", 0, 0, Ids \ Registered)
  /\ UNCHANGED <<sessions, file, made, diskVars, phase, migrating, crashes, historyVars>>

\* FindOrphanedSessionMessages reads the files first ...
ListMessages(t) ==
  /\ Begins(t, "PruneMessages", "known", 0, 0, messages)
  /\ UNCHANGED <<sessions, file, made, diskVars, phase, migrating, crashes, historyVars>>

\* ... and then the sessions of the config.
KnownMessages(t) ==
  /\ At(t, "PruneMessages", "known")
  /\ thread' = [thread EXCEPT ![t].at = "delete", ![t].ids = @ \ Registered]
  /\ UNCHANGED <<sessions, file, made, diskVars, phase, migrating, crashes, historyVars>>

PruneMessages(t) ==
  /\ At(t, "PruneMessages", "delete")
  /\ \/ \E id \in thread[t].ids :
          /\ messages' = messages \ {id}
          /\ thread' = [thread EXCEPT ![t].ids = @ \ {id}]
     \/ thread[t].ids = {} /\ Ends(t) /\ UNCHANGED messages
  /\ UNCHANGED <<sessions, file, made, worktree, branch, phase, migrating, crashes, historyVars>>

Messages(t) ==
  \/ CallSaveMessages(t) \/ SaveSessionMessages(t)
  \/ ListMessages(t) \/ KnownMessages(t) \/ PruneMessages(t)

-----------------------------------------------------------------------------
(* PruneOrphanedWorktrees: the sessions of the config first, and then the  *)
(* directories.                                                            *)

KnownSessions(t) ==
  /\ Begins(t, "Prune", "scan", 0, 0, Registered)
  /\ UNCHANGED <<sessions, file, made, diskVars, phase, migrating, crashes, historyVars>>

Scans(t, known) ==
  /\ At(t, "Prune", "scan")
  /\ thread' = [thread EXCEPT ![t].at = "tree",
                  ![t].ids = {id \in Ids : worktree[id] # "none"} \ known]
  /\ UNCHANGED <<sessions, file, made, diskVars, phase, migrating, crashes, historyVars>>

\* Mutant of ScanWorktrees: only the sessions of the old layout are known.
ScanWithLegacyKnown(t) == Scans(t, thread[t].ids \cap 1..Legacy)

ScanWorktrees(t) == Scans(t, thread[t].ids)

\* git worktree remove, or os.RemoveAll for want of it; both may fail.
PruneWorktree(t) ==
  /\ At(t, "Prune", "tree")
  /\ \/ \E id \in thread[t].ids :
          /\ worktree' \in {worktree, [worktree EXCEPT ![id] = "none"]}
          /\ young' = IF \E u \in Threads : At(u, "Create", "add") /\ Id(u) = id
                      THEN young \cup {id} ELSE young
          /\ thread' = [thread EXCEPT ![t].at = "rest", ![t].id = id]
     \/ thread[t].ids = {} /\ Ends(t) /\ UNCHANGED <<worktree, young>>
  /\ UNCHANGED <<sessions, file, made, branch, messages, phase, migrating, crashes, removed>>

\* The branch it had, which git keeps while a worktree has it, and its messages.
PruneRest(t) ==
  /\ At(t, "Prune", "rest")
  /\ branch' \in {branch} \cup {branch \ {id} : id \in {Id(t)} \cap {i \in Ids : worktree[i] = "none"}}
  /\ messages' = messages \ {Id(t)}
  /\ thread' = [thread EXCEPT ![t].at = "tree", ![t].id = 0, ![t].ids = @ \ {Id(t)}]
  /\ UNCHANGED <<sessions, file, made, worktree, phase, migrating, crashes, historyVars>>

Prune(t) == KnownSessions(t) \/ ScanWorktrees(t) \/ PruneWorktree(t) \/ PruneRest(t)

Next ==
  \/ Lifecycle
  \/ \E t \in Threads : Create(t) \/ Delete(t) \/ Messages(t) \/ Prune(t) \/ Save(t)

Spec == Init /\ [][Next]_vars

-----------------------------------------------------------------------------
(* Properties. *)

\* Types; and the application never runs on a file that was cut off.
TypeOK ==
  /\ sessions \in [Ids -> [path : Places, parent : 0..MaxSessions]]
  /\ file.torn \in BOOLEAN /\ file.sessions \in [Ids -> [path : Places, parent : 0..MaxSessions]]
  /\ made \in Nat /\ worktree \in [Ids -> Places]
  /\ branch \subseteq Ids /\ messages \subseteq Ids
  /\ phase \in {"down", "migrate", "move", "up", "failed"}
  /\ file.torn => phase \in {"down", "failed"}

\* A session of the config has its worktree where it says, also after crashes
\* in the middle of a migration, unless a Delete has begun on it, or
\* PruneOrphanedWorktrees took its worktree for an orphan: one that had read the
\* config before the session was in it.
SessionHasItsWorktree ==
  phase = "up" =>
    \A id \in Registered :
      worktree[id] = sessions[id].path \/ id \in removed \/ id \in young

\* PruneOrphanedSessionMessages never deletes the messages of a session in the
\* config, however it is interleaved with Create and SaveSessionMessages: the
\* files are read before the sessions.
PruneKeepsMessages ==
  [][\A t \in Threads : At(t, "PruneMessages", "delete") /\ thread'[t] # thread[t] =>
       (messages \ messages') \cap Registered = {}]_vars

\* When no operation is under way the file holds what the memory does: a Save
\* that overtakes another never loses its session, because each writes the
\* whole Config under the lock.
IdleConfigIsSaved ==
  phase = "up" /\ (\A t \in Threads : thread[t] = Idle) => file.sessions = sessions

\* What is claimed of ClearOrphanedParentIDs: it "prevents child sessions from
\* referencing non-existent parents".
NoDanglingParent ==
  (\A t \in Threads : thread[t] = Idle) =>
    \A id \in Registered : sessions[id].parent \in {0} \cup Registered
=============================================================================
