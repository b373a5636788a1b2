-------------------------- MODULE SessionStoreProofs --------------------------
(***************************************************************************)
(* What is kept of sessions, for any number of goroutines, sessions and    *)
(* crashes: the inductive invariant of SessionStore, and the theorems that *)
(* follow from it.                                                         *)
(***************************************************************************)
EXTENDS SessionStore, TLAPS

Ops == {"none", "Create", "Delete", "SaveMessages", "PruneMessages", "Prune"}
Labels == {"idle", "add", "save", "branch", "remove", "clear", "messages", "write", "known",
           "delete", "scan", "tree", "rest"}
ThreadRecords ==
  [op : Ops, at : Labels, id : 0..MaxSessions, parent : 0..MaxSessions, ids : SUBSET Ids]
Entries == [path : Places, parent : 0..MaxSessions]

\* Where a thread can be in which operation, and when it has a session in hand.
Paired(r) ==
  /\ \/ r.op = "none" /\ r.at = "idle"
     \/ r.op = "Create" /\ r.at \in {"add", "save"}
     \/ r.op = "Delete" /\ r.at \in {"branch", "remove", "clear", "messages", "save"}
     \/ r.op = "SaveMessages" /\ r.at = "write"
     \/ r.op = "PruneMessages" /\ r.at \in {"known", "delete"}
     \/ r.op = "Prune" /\ r.at \in {"scan", "tree", "rest"}
  /\ r.op \in {"Create", "Delete", "SaveMessages"} \/ r.at = "rest" => r.id \in Ids

Typed ==
  /\ TypeOK
  /\ file \in [torn : BOOLEAN, sessions : [Ids -> Entries]]
  /\ made \in 0..MaxSessions
  /\ thread \in [Threads -> ThreadRecords]
  /\ migrating \in [todo : SUBSET Ids, id : 0..MaxSessions, migrated : BOOLEAN]
  /\ \A t \in Threads : Paired(thread[t]) /\ (phase # "up" => thread[t] = Idle)

\* A path says whether a session is there, and one that is being migrated has its old.
Saved == {id \in Ids : file.sessions[id] # Absent}
Moving(id) ==
  \/ phase \in {"migrate", "move"} /\ id \in migrating.todo
  \/ phase = "move" /\ id = migrating.id
Entered ==
  /\ \A id \in Ids : sessions[id].path = "none" => sessions[id] = Absent
  /\ \A id \in Ids : file.sessions[id].path = "none" => file.sessions[id] = Absent
  /\ \A id \in Ids : Moving(id) => sessions[id].path = "old"
  /\ phase = "move" =>
       migrating.id \in Ids \ migrating.todo /\ worktree[migrating.id] = "new"

\* Sessions that are not in the config yet: nothing but their Create knows of them.
Adding(t, id) == At(t, "Create", "add") /\ Id(t) = id
Fresh == {id \in Ids : id > made \/ \E t \in Threads : Adding(t, id)}
FreshIsUnknown ==
  /\ \A id \in Fresh : id \notin Registered \cup Saved \cup messages
  /\ \A t \in Threads : At(t, "Create", "add") => Id(t) <= made
  /\ \A t, u \in Threads : At(t, "Create", "add") /\ Adding(u, Id(t)) => t = u

\* What a thread in the middle of an operation may count on, and what a prune
\* may take for an orphan.
Knows(r) ==
  /\ r.op \in {"Delete", "SaveMessages"} => r.id \notin Fresh
  /\ r.op = "Delete" => r.id \in removed
  /\ r.op = "PruneMessages" => r.ids \cap Fresh = {}
  /\ r.op = "PruneMessages" /\ r.at = "delete" => r.ids \cap Registered = {}
  /\ r.op = "Prune" /\ r.at = "scan" => Registered \subseteq r.ids \cup young
  /\ r.op = "Prune" /\ r.at # "scan" => r.ids \cap Registered \subseteq young
ThreadsKnow == \A t \in Threads : Knows(thread[t])

\* Worktrees and the entries that name them.
Lost == removed \cup young
Fits ==
  /\ \A id \in Saved :
       \/ id \in Lost \/ worktree[id] = "new"
       \/ worktree[id] = "old" /\ file.sessions[id].path = "old"
  /\ \A id \in Registered :
       id \in Lost \/ worktree[id] = sessions[id].path \/ (Moving(id) /\ worktree[id] = "new")
  /\ \A t \in Threads : At(t, "Create", "add") => worktree[Id(t)] = "new" \/ Id(t) \in young

\* The file and the memory.
Dirty(r) == r.op \in {"Create", "Delete"} /\ r.at \in {"clear", "messages", "save"}
FileFollows ==
  /\ phase \in {"migrate", "move"} => Saved = Registered
  /\ phase \in {"migrate", "move"} /\ ~migrating.migrated => file.sessions = sessions
  /\ phase = "up" => Saved \subseteq Registered \cup removed
  /\ phase = "up" => file.sessions = sessions \/ \E t \in Threads : Dirty(thread[t])

IInv == Typed /\ Entered /\ FreshIsUnknown /\ ThreadsKnow /\ Fits /\ FileFollows

-----------------------------------------------------------------------------
(* Frames: what a step of one thread leaves as it was.                     *)

\* Thread t takes a step to r while the application is up.
Steps(t, r) ==
  /\ phase = "up" /\ phase' = "up" /\ migrating' = migrating
  /\ thread' = [thread EXCEPT ![t] = r]

LEMMA IdleIsPaired == Idle \in ThreadRecords /\ Paired(Idle) /\ Knows(Idle) /\ ~Dirty(Idle)
  BY StoreAssumption DEF Idle, ThreadRecords, Paired, Knows, Dirty, Ops, Labels, Ids

LEMMA StepsMove ==
  ASSUME Typed, NEW t \in Threads, NEW r \in ThreadRecords, Steps(t, r)
  PROVE  /\ thread' \in [Threads -> ThreadRecords]
         /\ thread'[t] = r
         /\ \A u \in Threads : u # t => thread'[u] = thread[u]
  BY DEF Typed, Steps

LEMMA TypedStays ==
  ASSUME Typed, NEW t \in Threads, NEW r \in ThreadRecords, Steps(t, r), Paired(r),
         sessions' \in [Ids -> Entries],
         file' \in [torn : BOOLEAN, sessions : [Ids -> Entries]], file'.torn = FALSE,
         made' \in 0..MaxSessions, worktree' \in [Ids -> Places],
         branch' \subseteq Ids, messages' \subseteq Ids
  PROVE  Typed'
<1>1. TypeOK'
  <2>1. file'.torn \in BOOLEAN /\ ~file'.torn
    OBVIOUS
  <2>2. made' \in Nat
    BY StoreAssumption
  <2> QED
    BY <2>1, <2>2, Zenon DEF TypeOK, Steps, Entries
<1>2. \A u \in Threads : Paired(thread'[u])
  BY StepsMove DEF Typed
<1>3. (\A u \in Threads : Paired(thread[u]) /\ (phase # "up" => thread[u] = Idle))'
  BY <1>2 DEF Steps
<1> QED
  BY <1>1, <1>3, StepsMove DEF Typed, Steps

\* The sessions of a typed state.
LEMMA Types ==
  ASSUME Typed
  PROVE  /\ sessions \in [Ids -> Entries] /\ file.sessions \in [Ids -> Entries]
         /\ made \in 0..MaxSessions /\ worktree \in [Ids -> Places]
         /\ branch \subseteq Ids /\ messages \subseteq Ids
         /\ file \in [torn : BOOLEAN, sessions : [Ids -> Entries]]
         /\ phase = "up" => file.torn = FALSE
  BY DEF Typed, TypeOK, Entries

LEMMA EnteredStays ==
  ASSUME Entered, phase' = "up", sessions' = sessions, file' = file
  PROVE  Entered'
  BY DEF Entered, Moving

\* No session becomes fresh but the one that CreateWorktree makes.
LEMMA FreshShrinks ==
  ASSUME Typed, NEW t \in Threads, NEW r \in ThreadRecords, Steps(t, r), made' = made,
         r.at # "add"
  PROVE  Fresh' \subseteq Fresh
  BY StepsMove DEF Fresh, Adding, At, Id

LEMMA FreshStaysUnknown ==
  ASSUME Typed, FreshIsUnknown,
         NEW t \in Threads, NEW r \in ThreadRecords, Steps(t, r), made' = made, r.at # "add",
         \A id \in Fresh' : id \notin Registered' \cup Saved' \cup messages'
  PROVE  FreshIsUnknown'
<1>1. \A u \in Threads : At(u, "Create", "add")' => u # t /\ thread'[u] = thread[u]
  BY StepsMove DEF At
<1>2. \A u \in Threads : At(u, "Create", "add")' => At(u, "Create", "add") /\ Id(u)' = Id(u)
  BY <1>1 DEF At, Id
<1>3. (\A u \in Threads : At(u, "Create", "add") => Id(u) <= made)'
  BY <1>2 DEF FreshIsUnknown
<1>4. (\A u, v \in Threads : At(u, "Create", "add") /\ Adding(v, Id(u)) => u = v)'
  BY <1>2 DEF FreshIsUnknown, Adding
<1> QED
  BY <1>3, <1>4 DEF FreshIsUnknown

LEMMA KnowsStays ==
  ASSUME NEW r \in ThreadRecords, Knows(r),
         Fresh' \subseteq Fresh, Registered' \subseteq Registered,
         removed \subseteq removed', young \subseteq young'
  PROVE  Knows(r)'
  BY DEF Knows

LEMMA ThreadsStillKnow ==
  ASSUME Typed, ThreadsKnow, NEW t \in Threads, NEW r \in ThreadRecords, Steps(t, r),
         Knows(r)',
         Fresh' \subseteq Fresh, Registered' \subseteq Registered,
         removed \subseteq removed', young \subseteq young'
  PROVE  ThreadsKnow'
<1> SUFFICES ASSUME NEW u \in Threads
             PROVE  Knows(thread[u])'
  BY DEF ThreadsKnow
<1>1. CASE u = t
  BY <1>1, StepsMove DEF Knows
<1>2. CASE u # t
  <2>1. thread'[u] = thread[u] /\ thread[u] \in ThreadRecords
    BY <1>2, StepsMove DEF Typed
  <2>2. PICK s \in ThreadRecords : s = thread[u]
    BY <2>1
  <2>3. Knows(s)
    BY <2>2 DEF ThreadsKnow
  <2>4. Knows(s)'
    BY <2>3, KnowsStays
  <2> QED
    BY <2>1, <2>2, <2>4 DEF Knows
<1> QED
  BY <1>1, <1>2

LEMMA FitsStays ==
  ASSUME Typed, Fits, NEW t \in Threads, NEW r \in ThreadRecords, Steps(t, r), r.at # "add",
         sessions' = sessions, file' = file,
         removed \subseteq removed', young \subseteq young',
         \A id \in Registered \cup Saved : worktree'[id] = worktree[id] \/ id \in Lost',
         \A u \in Threads : At(u, "Create", "add") =>
           worktree'[Id(u)] = worktree[Id(u)] \/ Id(u) \in young'
  PROVE  Fits'
<1>1. \A id \in Ids : ~Moving(id) /\ ~Moving(id)'
  BY DEF Moving, Steps
<1>2. Lost \subseteq Lost'
  BY DEF Lost
<1>3. (\A id \in Saved :
         \/ id \in Lost \/ worktree[id] = "new"
         \/ worktree[id] = "old" /\ file.sessions[id].path = "old")'
  BY <1>2 DEF Fits, Saved
<1>4. (\A id \in Registered :
         id \in Lost \/ worktree[id] = sessions[id].path \/ (Moving(id) /\ worktree[id] = "new"))'
  BY <1>1, <1>2 DEF Fits, Registered
<1>5. \A u \in Threads : At(u, "Create", "add")' => At(u, "Create", "add") /\ Id(u)' = Id(u)
  BY StepsMove DEF At, Id
<1>6. (\A u \in Threads : At(u, "Create", "add") => worktree[Id(u)] = "new" \/ Id(u) \in young)'
  BY <1>5 DEF Fits
<1> QED
  BY <1>3, <1>4, <1>6 DEF Fits

LEMMA FileStays ==
  ASSUME Typed, FileFollows, NEW t \in Threads, NEW r \in ThreadRecords, Steps(t, r),
         sessions' = sessions, file' = file, removed \subseteq removed',
         Dirty(thread[t]) => Dirty(r)
  PROVE  FileFollows'
<1>1. Saved' = Saved /\ Registered' = Registered /\ phase' = "up" /\ phase = "up"
  BY DEF Saved, Registered, Steps
<1>2. ASSUME NEW u \in Threads, Dirty(thread[u])
      PROVE  Dirty(thread'[u])
  BY <1>2, StepsMove
<1> QED
  BY <1>1, <1>2 DEF FileFollows

\* A step that leaves the config, its file and the number of sessions alone.
LEMMA QuietStep ==
  ASSUME IInv, NEW t \in Threads, NEW r \in ThreadRecords, Steps(t, r),
         sessions' = sessions, file' = file, made' = made,
         worktree' \in [Ids -> Places], branch' \subseteq Ids, messages' \subseteq Ids,
         removed \subseteq removed', young \subseteq young',
         messages' \cap Fresh \subseteq messages,
         \A id \in Registered \cup Saved : worktree'[id] = worktree[id] \/ id \in Lost',
         \A u \in Threads : At(u, "Create", "add") =>
           worktree'[Id(u)] = worktree[Id(u)] \/ Id(u) \in young',
         Paired(r), Knows(r)', r.at # "add", Dirty(thread[t]) => Dirty(r)
  PROVE  IInv'
<1>1. Typed'
  BY Types, TypedStays DEF IInv, Steps
<1>2. Entered'
  BY EnteredStays DEF IInv, Steps
<1>3. Fresh' \subseteq Fresh /\ Registered' = Registered /\ Saved' = Saved
  BY FreshShrinks DEF IInv, Registered, Saved
<1>4. FreshIsUnknown'
  <2>1. \A id \in Fresh' : id \notin Registered' \cup Saved' \cup messages'
    BY <1>3 DEF IInv, FreshIsUnknown
  <2> QED
    BY <2>1, FreshStaysUnknown DEF IInv
<1>5. ThreadsKnow'
  BY <1>3, ThreadsStillKnow DEF IInv
<1>6. Fits'
  BY FitsStays DEF IInv
<1>7. FileFollows'
  BY FileStays DEF IInv
<1> QED
  BY <1>1, <1>2, <1>4, <1>5, <1>6, <1>7 DEF IInv

-----------------------------------------------------------------------------
(* The steps that leave the config, its file and the number of sessions.   *)

\* A thread in an operation, its record and its session.
LEMMA Working ==
  ASSUME Typed, NEW t \in Threads, thread[t].at # "idle"
  PROVE  /\ phase = "up" /\ thread[t] \in ThreadRecords /\ Paired(thread[t])
         /\ thread[t].op \in {"Create", "Delete", "SaveMessages"} \/ thread[t].at = "rest" =>
              Id(t) \in Ids
  BY DEF Typed, Idle, Paired, Id

LEMMA BeginsSteps ==
  ASSUME IInv, NEW t \in Threads, NEW op \in Ops, NEW at \in Labels, NEW id \in 0..MaxSessions,
         NEW parent \in 0..MaxSessions, NEW ids \in SUBSET Ids,
         Begins(t, op, at, id, parent, ids), UNCHANGED <<phase, migrating>>
  PROVE  \E r \in ThreadRecords :
           /\ Steps(t, r) /\ thread[t] = Idle /\ ~Dirty(thread[t])
           /\ r = [op |-> op, at |-> at, id |-> id, parent |-> parent, ids |-> ids]
           /\ r.op = op /\ r.at = at /\ r.id = id /\ r.ids = ids /\ r.parent = parent
<1>1. [op |-> op, at |-> at, id |-> id, parent |-> parent, ids |-> ids] \in ThreadRecords
  BY DEF ThreadRecords
<1>2. thread[t] = Idle /\ ~Dirty(thread[t])
  BY IdleIsPaired DEF Begins
<1> QED
  BY <1>1, <1>2 DEF Begins, Steps

\* A thread that goes on, with its session and its set of sessions replaced.
MovesTo(t, at, id, ids) ==
  thread' = [thread EXCEPT ![t].at = at, ![t].id = id, ![t].ids = ids]

LEMMA GoesOn ==
  ASSUME IInv, NEW t \in Threads, NEW at \in Labels, NEW id \in 0..MaxSessions,
         NEW ids \in SUBSET Ids, thread[t].at # "idle",
         MovesTo(t, at, id, ids), UNCHANGED <<phase, migrating>>
  PROVE  \E r \in ThreadRecords :
           /\ Steps(t, r) /\ r.op = thread[t].op /\ r.at = at
           /\ r.id = id /\ r.parent = thread[t].parent /\ r.ids = ids
<1>1. PICK was \in ThreadRecords : was = thread[t]
  BY Working DEF IInv
<1>2. PICK r : r = [was EXCEPT !.at = at, !.id = id, !.ids = ids]
  OBVIOUS
<1>3. r \in ThreadRecords
  BY <1>2 DEF ThreadRecords
<1>4. r.op = was.op /\ r.at = at /\ r.id = id /\ r.parent = was.parent /\ r.ids = ids
  BY <1>2 DEF ThreadRecords
<1>5. Steps(t, r)
  BY <1>1, <1>2, Working DEF Steps, IInv, Typed, MovesTo
<1> QED
  BY <1>1, <1>3, <1>4, <1>5

LEMMA GoesSteps ==
  ASSUME IInv, NEW t \in Threads, NEW at \in Labels, thread[t].at # "idle", Goes(t, at),
         UNCHANGED <<phase, migrating>>
  PROVE  \E r \in ThreadRecords :
           /\ Steps(t, r) /\ r.op = thread[t].op /\ r.at = at
           /\ r.id = Id(t) /\ r.parent = thread[t].parent /\ r.ids = thread[t].ids
<1>1. PICK was \in ThreadRecords : was = thread[t]
  BY Working DEF IInv
<1>2. PICK r : r = [was EXCEPT !.at = at]
  OBVIOUS
<1>3. r \in ThreadRecords
  BY <1>2 DEF ThreadRecords
<1>4. r.op = was.op /\ r.at = at /\ r.id = was.id /\ r.parent = was.parent /\ r.ids = was.ids
  BY <1>2 DEF ThreadRecords
<1>5. Steps(t, r)
  BY <1>1, <1>2, Working DEF Steps, IInv, Typed, Goes
<1> QED
  BY <1>1, <1>3, <1>4, <1>5 DEF Id

LEMMA EndsSteps ==
  ASSUME IInv, NEW t \in Threads, thread[t].at # "idle", Ends(t), UNCHANGED <<phase, migrating>>
  PROVE  Steps(t, Idle) /\ Idle \in ThreadRecords /\ Paired(Idle) /\ Knows(Idle)'
<1>1. Knows(Idle)'
  BY DEF Knows, Idle
<1> QED
  BY <1>1, Working, IdleIsPaired DEF Steps, Ends, IInv

LEMMA RemoveWorktreeKeeps ==
  ASSUME IInv, NEW t \in Threads, RemoveWorktree(t)
  PROVE  IInv'
<1>1. PICK id \in Registered :
        /\ Begins(t, "Delete", "branch", id, 0, {})
        /\ worktree' = [worktree EXCEPT ![id] = "none"]
        /\ removed' = removed \cup {id}
  BY DEF RemoveWorktree
<1>2. /\ UNCHANGED <<sessions, file, made, branch, messages, phase, migrating, young>>
      /\ UNCHANGED <<phase, migrating>>
  BY DEF RemoveWorktree
<1>3. id \in Ids /\ id \notin Fresh /\ id \in 0..MaxSessions
  BY <1>1, StoreAssumption DEF IInv, FreshIsUnknown, Registered, Ids
<1>4. 0 \in 0..MaxSessions /\ {} \in SUBSET Ids /\ "Delete" \in Ops /\ "branch" \in Labels
  BY StoreAssumption DEF Ops, Labels
<1>5. PICK r \in ThreadRecords :
        /\ Steps(t, r) /\ ~Dirty(thread[t])
        /\ r.op = "Delete" /\ r.at = "branch" /\ r.id = id /\ r.ids = {}
  BY <1>1, <1>2, <1>3, <1>4, BeginsSteps
<1>6. Fresh' \subseteq Fresh
  BY <1>2, <1>5, FreshShrinks DEF IInv
<1>7. Paired(r) /\ Knows(r)' /\ r.at # "add"
  BY <1>1, <1>3, <1>5, <1>6 DEF Paired, Knows
<1>8. \A i \in Registered \cup Saved : worktree'[i] = worktree[i] \/ i \in Lost'
  BY <1>1, <1>3, Types DEF IInv, Lost, Registered, Saved
<1>9. \A u \in Threads : At(u, "Create", "add") => worktree'[Id(u)] = worktree[Id(u)]
  <2> SUFFICES ASSUME NEW u \in Threads, At(u, "Create", "add")
               PROVE  worktree'[Id(u)] = worktree[Id(u)]
    OBVIOUS
  <2>1. Id(u) \in Ids /\ Id(u) \in Fresh
    BY Working DEF IInv, At, Fresh, Adding
  <2> QED
    BY <1>1, <1>3, <2>1, Types DEF IInv
<1>10. worktree' \in [Ids -> Places] /\ removed \subseteq removed'
  BY <1>1, <1>3, Types DEF IInv, Places
<1> QED
  BY <1>2, <1>5, <1>7, <1>8, <1>9, <1>10, QuietStep, Types DEF IInv

\* The worktrees as they were, a thread at work, and no message file of a fresh session.
LEMMA QuietMove ==
  ASSUME IInv, NEW t \in Threads, NEW r \in ThreadRecords, Steps(t, r),
         UNCHANGED <<sessions, file, made, worktree, removed, young>>,
         branch' \subseteq Ids, messages' \subseteq Ids, messages' \cap Fresh \subseteq messages,
         Paired(r), Knows(r)', r.at # "add", Dirty(thread[t]) => Dirty(r)
  PROVE  IInv'
<1>1. \A i \in Ids : worktree'[i] = worktree[i]
  OBVIOUS
<1>2. worktree' \in [Ids -> Places]
  BY Types DEF IInv
<1> QED
  BY <1>1, <1>2, QuietStep

LEMMA DeleteBranchKeeps ==
  ASSUME IInv, NEW t \in Threads, DeleteBranch(t)
  PROVE  IInv'
<1>1. /\ At(t, "Delete", "branch") /\ Goes(t, "remove") /\ branch' \subseteq branch
      /\ UNCHANGED <<sessions, file, made, worktree, removed, young>> /\ messages' = messages
      /\ UNCHANGED <<phase, migrating>>
  BY DEF DeleteBranch, historyVars
<1>2. "remove" \in Labels /\ thread[t].at # "idle"
  BY <1>1 DEF Labels, At
<1>3. PICK r \in ThreadRecords :
        Steps(t, r) /\ r.op = thread[t].op /\ r.at = "remove" /\ r.id = Id(t)
  BY <1>1, <1>2, GoesSteps
<1>4. Fresh' \subseteq Fresh
  BY <1>1, <1>3, FreshShrinks DEF IInv
<1>5. Id(t) \in Ids /\ Knows(thread[t])
  BY <1>1, Working DEF IInv, At, ThreadsKnow
<1>6. Paired(r) /\ Knows(r)' /\ r.at # "add"
  BY <1>1, <1>3, <1>4, <1>5 DEF Paired, Knows, At, Id
<1>7. ~Dirty(thread[t])
  BY <1>1 DEF Dirty, At
<1> QED
  BY <1>1, <1>3, <1>6, <1>7, QuietMove, Types DEF IInv

LEMMA DeleteSessionMessagesKeeps ==
  ASSUME IInv, NEW t \in Threads, DeleteSessionMessages(t)
  PROVE  IInv'
<1>1. /\ At(t, "Delete", "messages") /\ Goes(t, "save") /\ messages' \subseteq messages
      /\ UNCHANGED <<sessions, file, made, worktree, removed, young>> /\ branch' = branch
      /\ UNCHANGED <<phase, migrating>>
  BY DEF DeleteSessionMessages, historyVars
<1>2. "save" \in Labels /\ thread[t].at # "idle"
  BY <1>1 DEF Labels, At
<1>3. PICK r \in ThreadRecords :
        Steps(t, r) /\ r.op = thread[t].op /\ r.at = "save" /\ r.id = Id(t)
  BY <1>1, <1>2, GoesSteps
<1>4. Fresh' \subseteq Fresh
  BY <1>1, <1>3, FreshShrinks DEF IInv
<1>5. Id(t) \in Ids /\ Knows(thread[t])
  BY <1>1, Working DEF IInv, At, ThreadsKnow
<1>6. Paired(r) /\ Knows(r)' /\ r.at # "add"
  BY <1>1, <1>3, <1>4, <1>5 DEF Paired, Knows, At, Id
<1>7. Dirty(r)
  BY <1>1, <1>3 DEF Dirty, At
<1> QED
  BY <1>1, <1>3, <1>6, <1>7, QuietMove, Types DEF IInv

LEMMA CallSaveMessagesKeeps ==
  ASSUME IInv, NEW t \in Threads, CallSaveMessages(t)
  PROVE  IInv'
<1>1. PICK id \in Registered : Begins(t, "SaveMessages", "write", id, 0, {})
  BY DEF CallSaveMessages
<1>2. /\ UNCHANGED <<sessions, file, made, worktree, removed, young>>
      /\ branch' = branch /\ messages' = messages
      /\ UNCHANGED <<phase, migrating>>
  BY DEF CallSaveMessages, historyVars, diskVars
<1>3. id \in Ids /\ id \notin Fresh /\ id \in 0..MaxSessions
  BY <1>1, StoreAssumption DEF IInv, FreshIsUnknown, Registered, Ids
<1>4. 0 \in 0..MaxSessions /\ {} \in SUBSET Ids /\ "SaveMessages" \in Ops /\ "write" \in Labels
  BY StoreAssumption DEF Ops, Labels
<1>5. PICK r \in ThreadRecords :
        /\ Steps(t, r) /\ ~Dirty(thread[t])
        /\ r.op = "SaveMessages" /\ r.at = "write" /\ r.id = id /\ r.ids = {}
  BY <1>1, <1>2, <1>3, <1>4, BeginsSteps
<1>6. Fresh' \subseteq Fresh
  BY <1>2, <1>5, FreshShrinks DEF IInv
<1>7. Paired(r) /\ Knows(r)' /\ r.at # "add"
  BY <1>3, <1>5, <1>6 DEF Paired, Knows
<1> QED
  BY <1>2, <1>5, <1>7, QuietMove, Types DEF IInv

LEMMA SaveSessionMessagesKeeps ==
  ASSUME IInv, NEW t \in Threads, SaveSessionMessages(t)
  PROVE  IInv'
<1>1. /\ At(t, "SaveMessages", "write") /\ Ends(t) /\ messages' = messages \cup {Id(t)}
      /\ UNCHANGED <<sessions, file, made, worktree, removed, young>> /\ branch' = branch
      /\ UNCHANGED <<phase, migrating>>
  BY DEF SaveSessionMessages, historyVars
<1>2. thread[t].at # "idle" /\ ~Dirty(thread[t])
  BY <1>1 DEF At, Dirty
<1>3. Id(t) \in Ids /\ Id(t) \notin Fresh
  BY <1>1, Working DEF IInv, At, ThreadsKnow, Knows, Id
<1>4. messages' \subseteq Ids /\ messages' \cap Fresh \subseteq messages /\ branch' \subseteq Ids
  BY <1>1, <1>3, Types DEF IInv
<1>5. Idle.at # "add"
  BY DEF Idle
<1> QED
  BY <1>1, <1>2, <1>4, <1>5, QuietMove, EndsSteps

LEMMA ListMessagesKeeps ==
  ASSUME IInv, NEW t \in Threads, ListMessages(t)
  PROVE  IInv'
<1>1. Begins(t, "PruneMessages", "known", 0, 0, messages)
  BY DEF ListMessages
<1>2. /\ UNCHANGED <<sessions, file, made, worktree, removed, young>>
      /\ branch' = branch /\ messages' = messages
      /\ UNCHANGED <<phase, migrating>>
  BY DEF ListMessages, historyVars, diskVars
<1>3. messages \in SUBSET Ids /\ messages \cap Fresh = {}
  BY Types DEF IInv, FreshIsUnknown
<1>4. 0 \in 0..MaxSessions /\ "PruneMessages" \in Ops /\ "known" \in Labels
  BY StoreAssumption DEF Ops, Labels
<1>5. PICK r \in ThreadRecords :
        /\ Steps(t, r) /\ ~Dirty(thread[t])
        /\ r.op = "PruneMessages" /\ r.at = "known" /\ r.ids = messages
  BY <1>1, <1>2, <1>3, <1>4, BeginsSteps
<1>6. Fresh' \subseteq Fresh
  BY <1>2, <1>5, FreshShrinks DEF IInv
<1>7. Paired(r) /\ Knows(r)' /\ r.at # "add"
  BY <1>3, <1>5, <1>6 DEF Paired, Knows
<1> QED
  BY <1>2, <1>5, <1>7, QuietMove, Types DEF IInv

LEMMA KnownMessagesKeeps ==
  ASSUME IInv, NEW t \in Threads, KnownMessages(t)
  PROVE  IInv'
<1>1. /\ At(t, "PruneMessages", "known")
      /\ UNCHANGED <<sessions, file, made, worktree, removed, young>>
      /\ branch' = branch /\ messages' = messages
      /\ UNCHANGED <<phase, migrating>>
  BY DEF KnownMessages, historyVars, diskVars
<1>2. thread[t].at # "idle" /\ ~Dirty(thread[t])
  BY <1>1 DEF At, Dirty
<1>3. PICK was \in ThreadRecords : was = thread[t]
  BY <1>2, Working DEF IInv
<1>4. PICK ids : ids = was.ids \ Registered
  OBVIOUS
<1>5. ids \in SUBSET Ids /\ was.id \in 0..MaxSessions /\ "delete" \in Labels
  BY <1>4 DEF ThreadRecords, Labels
<1>6. MovesTo(t, "delete", was.id, ids)
  <2>1. thread' = [thread EXCEPT ![t] = [was EXCEPT !.at = "delete", !.ids = ids]]
    BY <1>3, <1>4 DEF KnownMessages
  <2>2. [was EXCEPT !.at = "delete", !.ids = ids]
          = [was EXCEPT !.at = "delete", !.id = was.id, !.ids = ids]
    BY DEF ThreadRecords
  <2> QED
    BY <1>3, <2>1, <2>2 DEF IInv, Typed, MovesTo
<1>7. PICK r \in ThreadRecords :
        Steps(t, r) /\ r.op = thread[t].op /\ r.at = "delete" /\ r.ids = ids
  BY <1>1, <1>2, <1>5, <1>6, GoesOn
<1>8. Fresh' \subseteq Fresh
  BY <1>1, <1>7, FreshShrinks DEF IInv
<1>9. ids \cap Fresh = {} /\ ids \cap Registered = {} /\ Registered' = Registered
  BY <1>1, <1>3, <1>4 DEF IInv, ThreadsKnow, Knows, At, Registered
<1>10. Paired(r) /\ Knows(r)' /\ r.at # "add"
  BY <1>1, <1>7, <1>8, <1>9 DEF Paired, Knows, At
<1> QED
  BY <1>1, <1>2, <1>7, <1>10, QuietMove, Types DEF IInv

LEMMA PruneMessagesKeeps ==
  ASSUME IInv, NEW t \in Threads, PruneMessages(t)
  PROVE  IInv'
<1>1. /\ At(t, "PruneMessages", "delete")
      /\ UNCHANGED <<sessions, file, made, worktree, removed, young>>
      /\ branch' = branch /\ UNCHANGED <<phase, migrating>>
  BY DEF PruneMessages, historyVars
<1>2. thread[t].at # "idle" /\ ~Dirty(thread[t])
  BY <1>1 DEF At, Dirty
<1>3. PICK was \in ThreadRecords : was = thread[t]
  BY <1>2, Working DEF IInv
<1>4. ASSUME NEW id \in thread[t].ids, messages' = messages \ {id},
             thread' = [thread EXCEPT ![t].ids = @ \ {id}]
      PROVE  IInv'
  <2>1. PICK ids : ids = was.ids \ {id}
    OBVIOUS
  <2>2. ids \in SUBSET Ids /\ was.id \in 0..MaxSessions /\ "delete" \in Labels
    BY <2>1 DEF ThreadRecords, Labels
  <2>3. MovesTo(t, "delete", was.id, ids)
    <3>1. thread' = [thread EXCEPT ![t] = [was EXCEPT !.ids = ids]]
      BY <1>3, <1>4, <2>1
    <3>2. [was EXCEPT !.ids = ids] = [was EXCEPT !.at = "delete", !.id = was.id, !.ids = ids]
      BY <1>1, <1>3 DEF ThreadRecords, At
    <3> QED
      BY <1>3, <3>1, <3>2 DEF IInv, Typed, MovesTo
  <2>4. PICK r \in ThreadRecords :
          Steps(t, r) /\ r.op = thread[t].op /\ r.at = "delete" /\ r.ids = ids
    BY <1>1, <1>2, <2>2, <2>3, GoesOn
  <2>5. Fresh' \subseteq Fresh
    BY <1>1, <2>4, FreshShrinks DEF IInv
  <2>6. ids \cap Fresh = {} /\ ids \cap Registered = {} /\ Registered' = Registered
    BY <1>1, <1>3, <2>1 DEF IInv, ThreadsKnow, Knows, At, Registered
  <2>7. Paired(r) /\ Knows(r)' /\ r.at # "add"
    BY <1>1, <2>4, <2>5, <2>6 DEF Paired, Knows, At
  <2> QED
    BY <1>1, <1>2, <1>4, <2>4, <2>7, QuietMove, Types DEF IInv
<1>5. CASE thread[t].ids = {} /\ Ends(t) /\ UNCHANGED messages
  <2>1. Idle.at # "add"
    BY DEF Idle
  <2> QED
    BY <1>1, <1>2, <1>5, <2>1, QuietMove, EndsSteps, Types DEF IInv
<1> QED
  BY <1>4, <1>5 DEF PruneMessages

LEMMA KnownSessionsKeeps ==
  ASSUME IInv, NEW t \in Threads, KnownSessions(t)
  PROVE  IInv'
<1>1. Begins(t, "Prune", "scan", 0, 0, Registered)
  BY DEF KnownSessions
<1>2. /\ UNCHANGED <<sessions, file, made, worktree, removed, young>>
      /\ branch' = branch /\ messages' = messages
      /\ UNCHANGED <<phase, migrating>>
  BY DEF KnownSessions, historyVars, diskVars
<1>3. Registered \in SUBSET Ids /\ Registered' = Registered
  BY <1>2 DEF Registered
<1>4. 0 \in 0..MaxSessions /\ "Prune" \in Ops /\ "scan" \in Labels
  BY StoreAssumption DEF Ops, Labels
<1>5. PICK r \in ThreadRecords :
        /\ Steps(t, r) /\ ~Dirty(thread[t])
        /\ r.op = "Prune" /\ r.at = "scan" /\ r.ids = Registered
  BY <1>1, <1>2, <1>3, <1>4, BeginsSteps
<1>6. Paired(r) /\ Knows(r)' /\ r.at # "add"
  BY <1>3, <1>5 DEF Paired, Knows
<1> QED
  BY <1>2, <1>5, <1>6, QuietMove, Types DEF IInv

LEMMA ScanWorktreesKeeps ==
  ASSUME IInv, NEW t \in Threads, ScanWorktrees(t)
  PROVE  IInv'
<1>1. /\ At(t, "Prune", "scan")
      /\ UNCHANGED <<sessions, file, made, worktree, removed, young>>
      /\ branch' = branch /\ messages' = messages
      /\ UNCHANGED <<phase, migrating>>
  BY DEF ScanWorktrees, Scans, historyVars, diskVars
<1>2. thread[t].at # "idle" /\ ~Dirty(thread[t])
  BY <1>1 DEF At, Dirty
<1>3. PICK was \in ThreadRecords : was = thread[t]
  BY <1>2, Working DEF IInv
<1>4. PICK ids : ids = {id \in Ids : worktree[id] # "none"} \ was.ids
  OBVIOUS
<1>5. ids \in SUBSET Ids /\ was.id \in 0..MaxSessions /\ "tree" \in Labels
  BY <1>4 DEF ThreadRecords, Labels
<1>6. MovesTo(t, "tree", was.id, ids)
  <2>1. thread' = [thread EXCEPT ![t] = [was EXCEPT !.at = "tree", !.ids = ids]]
    BY <1>3, <1>4 DEF ScanWorktrees, Scans
  <2>2. [was EXCEPT !.at = "tree", !.ids = ids]
          = [was EXCEPT !.at = "tree", !.id = was.id, !.ids = ids]
    BY DEF ThreadRecords
  <2> QED
    BY <1>3, <2>1, <2>2 DEF IInv, Typed, MovesTo
<1>7. PICK r \in ThreadRecords :
        Steps(t, r) /\ r.op = thread[t].op /\ r.at = "tree" /\ r.ids = ids
  BY <1>1, <1>2, <1>5, <1>6, GoesOn
<1>8. ids \cap Registered \subseteq young /\ Registered' = Registered
  BY <1>1, <1>3, <1>4 DEF IInv, ThreadsKnow, Knows, At, Registered
<1>9. Paired(r) /\ Knows(r)' /\ r.at # "add"
  BY <1>1, <1>7, <1>8 DEF Paired, Knows, At
<1> QED
  BY <1>1, <1>2, <1>7, <1>9, QuietMove, Types DEF IInv

LEMMA PruneWorktreeKeeps ==
  ASSUME IInv, NEW t \in Threads, PruneWorktree(t)
  PROVE  IInv'
<1>1. /\ At(t, "Prune", "tree")
      /\ UNCHANGED <<sessions, file, made, branch, messages, removed>>
      /\ UNCHANGED <<phase, migrating>>
  BY DEF PruneWorktree
<1>2. thread[t].at # "idle" /\ ~Dirty(thread[t])
  BY <1>1 DEF At, Dirty
<1>3. PICK was \in ThreadRecords : was = thread[t]
  BY <1>2, Working DEF IInv
<1>4. ASSUME NEW id \in thread[t].ids,
             worktree' \in {worktree, [worktree EXCEPT ![id] = "none"]},
             young' = IF \E u \in Threads : At(u, "Create", "add") /\ Id(u) = id
                      THEN young \cup {id} ELSE young,
             thread' = [thread EXCEPT ![t].at = "rest", ![t].id = id]
      PROVE  IInv'
  <2>1. id \in Ids /\ id \in 0..MaxSessions /\ was.ids \in SUBSET Ids /\ "rest" \in Labels
    BY <1>3, <1>4, StoreAssumption DEF ThreadRecords, Labels, Ids
  <2>2. MovesTo(t, "rest", id, was.ids)
    <3>1. thread' = [thread EXCEPT ![t] = [was EXCEPT !.at = "rest", !.id = id]]
      BY <1>3, <1>4
    <3>2. [was EXCEPT !.at = "rest", !.id = id]
            = [was EXCEPT !.at = "rest", !.id = id, !.ids = was.ids]
      BY DEF ThreadRecords
    <3> QED
      BY <1>3, <3>1, <3>2 DEF IInv, Typed, MovesTo
  <2>3. PICK r \in ThreadRecords :
          Steps(t, r) /\ r.op = thread[t].op /\ r.at = "rest" /\ r.id = id /\ r.ids = was.ids
    BY <1>1, <1>2, <2>1, <2>2, GoesOn
  <2>4. young \subseteq young' /\ removed' = removed /\ Registered' = Registered
    BY <1>1, <1>4 DEF Registered
  <2>5. thread[t].ids \cap Registered \subseteq young
    BY <1>1 DEF IInv, ThreadsKnow, Knows, At
  <2>6. Paired(r) /\ Knows(r)' /\ r.at # "add"
    BY <1>1, <1>3, <2>1, <2>3, <2>4, <2>5 DEF Paired, Knows, At
  \* Of the sessions pruned, those in the config or on their way to it are young.
  <2>7. \A i \in Ids : worktree'[i] = worktree[i] \/ i = id
    BY <1>4, <2>1, Types DEF IInv
  <2>8. \A u \in Threads : At(u, "Create", "add") =>
           worktree'[Id(u)] = worktree[Id(u)] \/ Id(u) \in young'
    <3> SUFFICES ASSUME NEW u \in Threads, At(u, "Create", "add")
                 PROVE  worktree'[Id(u)] = worktree[Id(u)] \/ Id(u) \in young'
      OBVIOUS
    <3>1. Id(u) \in Ids
      BY Working DEF IInv, At
    <3>2. Id(u) = id => Id(u) \in young'
      BY <1>4
    <3> QED
      BY <2>7, <3>1, <3>2
  <2>9. worktree' \in [Ids -> Places]
    BY <1>4, <2>1, Types DEF IInv, Places
  <2>10. \A i \in Registered \cup Saved : worktree'[i] = worktree[i] \/ i \in Lost'
    <3>1. id \in Registered => id \in young'
      BY <1>4, <2>4, <2>5
    <3>2. Saved \subseteq Registered \cup removed
      BY <2>3 DEF IInv, FileFollows, Steps
    <3> QED
      BY <2>4, <2>7, <3>1, <3>2 DEF Lost, Registered, Saved
  <2> QED
    BY <1>1, <1>2, <2>3, <2>4, <2>6, <2>8, <2>9, <2>10, QuietStep, Types DEF IInv
<1>5. CASE thread[t].ids = {} /\ Ends(t) /\ UNCHANGED <<worktree, young>>
  <2>1. Idle.at # "add"
    BY DEF Idle
  <2> QED
    BY <1>1, <1>2, <1>5, <2>1, QuietMove, EndsSteps, Types DEF IInv
<1> QED
  BY <1>4, <1>5 DEF PruneWorktree

LEMMA PruneRestKeeps ==
  ASSUME IInv, NEW t \in Threads, PruneRest(t)
  PROVE  IInv'
<1>1. /\ At(t, "Prune", "rest") /\ branch' \subseteq branch /\ messages' \subseteq messages
      /\ UNCHANGED <<sessions, file, made, worktree, removed, young>>
      /\ UNCHANGED <<phase, migrating>>
  BY DEF PruneRest, historyVars
<1>2. thread[t].at # "idle" /\ ~Dirty(thread[t])
  BY <1>1 DEF At, Dirty
<1>3. PICK was \in ThreadRecords : was = thread[t]
  BY <1>2, Working DEF IInv
<1>4. PICK ids : ids = was.ids \ {was.id}
  OBVIOUS
<1>5. ids \in SUBSET Ids /\ 0 \in 0..MaxSessions /\ "tree" \in Labels
  BY <1>4, StoreAssumption DEF ThreadRecords, Labels
<1>6. MovesTo(t, "tree", 0, ids)
  BY <1>3, <1>4 DEF PruneRest, Id, IInv, Typed, MovesTo
<1>7. PICK r \in ThreadRecords :
        Steps(t, r) /\ r.op = thread[t].op /\ r.at = "tree" /\ r.ids = ids
  BY <1>1, <1>2, <1>5, <1>6, GoesOn
<1>8. ids \cap Registered \subseteq young /\ Registered' = Registered
  BY <1>1, <1>3, <1>4 DEF IInv, ThreadsKnow, Knows, At, Registered
<1>9. Paired(r) /\ Knows(r)' /\ r.at # "add"
  BY <1>1, <1>7, <1>8 DEF Paired, Knows, At
<1> QED
  BY <1>1, <1>2, <1>7, <1>9, QuietMove, Types DEF IInv

-----------------------------------------------------------------------------
(* The steps that change the config or its file, and the one that makes a  *)
(* session.                                                                *)

LEMMA CreateWorktreeKeeps ==
  ASSUME IInv, NEW t \in Threads, CreateWorktree(t)
  PROVE  IInv'
<1>1. PICK parent \in {0} \cup (Registered \cap branch) :
        Begins(t, "Create", "add", made + 1, parent, {})
  BY DEF CreateWorktree
<1>2. /\ made < MaxSessions /\ made' = made + 1
      /\ worktree' = [worktree EXCEPT ![made + 1] = "new"] /\ branch' = branch \cup {made + 1}
      /\ UNCHANGED <<sessions, file, messages, removed, young>>
      /\ UNCHANGED <<phase, migrating>>
  BY DEF CreateWorktree, historyVars
<1>3. PICK id \in Ids : id = made + 1
  BY <1>2, Types, StoreAssumption DEF IInv, Ids
<1>4. /\ id \in 0..MaxSessions /\ parent \in 0..MaxSessions /\ {} \in SUBSET Ids
      /\ "Create" \in Ops /\ "add" \in Labels
  BY <1>3, StoreAssumption DEF Ops, Labels, Ids, Registered
<1>5. PICK r \in ThreadRecords :
        /\ Steps(t, r) /\ thread[t] = Idle /\ ~Dirty(thread[t])
        /\ r.op = "Create" /\ r.at = "add" /\ r.id = id
  BY <1>1, <1>2, <1>3, <1>4, BeginsSteps
<1>6. Paired(r) /\ Knows(r)'
  BY <1>5 DEF Paired, Knows
<1>7. Typed'
  <2>1. worktree' \in [Ids -> Places] /\ branch' \subseteq Ids
    BY <1>2, <1>3, Types DEF IInv, Places
  <2>2. made' \in 0..MaxSessions
    BY <1>2, <1>3, <1>4
  <2> QED
    BY <1>2, <1>5, <1>6, <2>1, <2>2, Types, TypedStays DEF IInv, Steps
<1>8. Entered'
  BY <1>2, <1>5, EnteredStays DEF IInv, Steps
\* The session made is the only one that its thread adds, and was fresh already.
<1>9. \A u \in Threads : u # t => At(u, "Create", "add")' = At(u, "Create", "add")
                                    /\ Id(u)' = Id(u)
  BY <1>5, StepsMove DEF IInv, At, Id
<1>10. Id(t)' = id
  BY <1>5, StepsMove DEF IInv, Id
<1>11. id \in Fresh
  BY <1>3, Types DEF IInv, Fresh
<1>12. Fresh' \subseteq Fresh
  <2> SUFFICES ASSUME NEW i \in Ids, i > made' \/ \E u \in Threads : Adding(u, i)'
               PROVE  i \in Fresh
    BY DEF Fresh
  <2>1. CASE i > made'
    BY <1>2, <2>1, Types DEF IInv, Fresh, Ids
  <2>2. ASSUME NEW u \in Threads, Adding(u, i)'
        PROVE  i \in Fresh
    BY <1>9, <1>10, <1>11, <2>2 DEF Adding, Fresh
  <2> QED
    BY <2>1, <2>2
<1>13. Registered' = Registered /\ Saved' = Saved
  BY <1>2 DEF Registered, Saved
<1>14. FreshIsUnknown'
  <2>1. (\A i \in Fresh : i \notin Registered \cup Saved \cup messages)'
    BY <1>2, <1>12, <1>13 DEF IInv, FreshIsUnknown
  <2>2. (\A u \in Threads : At(u, "Create", "add") => Id(u) <= made)'
    <3> SUFFICES ASSUME NEW u \in Threads, At(u, "Create", "add")'
                 PROVE  Id(u)' <= made'
      OBVIOUS
    <3>1. CASE u = t
      BY <1>2, <1>3, <1>10, <3>1, Types DEF IInv
    <3>2. CASE u # t
      <4>1. Id(u) <= made /\ Id(u) \in Ids /\ Id(u)' = Id(u)
        BY <1>9, <3>2, Working DEF IInv, FreshIsUnknown, At
      <4> QED
        BY <1>2, <4>1, Types DEF IInv, Ids
    <3> QED
      BY <3>1, <3>2
  <2>3. (\A u, v \in Threads : At(u, "Create", "add") /\ Adding(v, Id(u)) => u = v)'
    <3>1. \A u \in Threads : u # t /\ At(u, "Create", "add") => Id(u) # id
      BY <1>3, Working, Types DEF IInv, FreshIsUnknown, At, Ids
    <3> QED
      BY <1>9, <1>10, <3>1 DEF IInv, FreshIsUnknown, Adding
  <2> QED
    BY <2>1, <2>2, <2>3 DEF FreshIsUnknown
<1>15. ThreadsKnow'
  BY <1>2, <1>5, <1>6, <1>12, <1>13, ThreadsStillKnow DEF IInv
<1>16. id \notin Registered \cup Saved
  BY <1>11 DEF IInv, FreshIsUnknown
<1>17. worktree'[id] = "new" /\ \A i \in Ids \ {id} : worktree'[i] = worktree[i]
  BY <1>2, <1>3, Types DEF IInv
<1>18. Fits'
  <2>1. (\A i \in Saved :
           \/ i \in Lost \/ worktree[i] = "new"
           \/ worktree[i] = "old" /\ file.sessions[i].path = "old")'
    BY <1>2, <1>13, <1>16, <1>17 DEF IInv, Fits, Saved, Lost
  <2>2. (\A i \in Registered :
           i \in Lost \/ worktree[i] = sessions[i].path \/ (Moving(i) /\ worktree[i] = "new"))'
    BY <1>2, <1>13, <1>16, <1>17 DEF IInv, Fits, Registered, Lost, Moving
  <2>3. (\A u \in Threads : At(u, "Create", "add") => worktree[Id(u)] = "new" \/ Id(u) \in young)'
    <3> SUFFICES ASSUME NEW u \in Threads, At(u, "Create", "add")'
                 PROVE  worktree'[Id(u)'] = "new" \/ Id(u)' \in young'
      OBVIOUS
    <3>1. CASE u = t
      BY <1>10, <1>17, <3>1
    <3>2. CASE u # t
      <4>1. Id(u)' = Id(u) /\ Id(u) \in Ids /\ (worktree[Id(u)] = "new" \/ Id(u) \in young)
        BY <1>9, <3>2, Working DEF IInv, Fits, At
      <4> QED
        BY <1>2, <1>17, <4>1
    <3> QED
      BY <3>1, <3>2
  <2> QED
    BY <2>1, <2>2, <2>3 DEF Fits
<1>19. FileFollows'
  BY <1>2, <1>5, FileStays DEF IInv
<1> QED
  BY <1>7, <1>8, <1>14, <1>15, <1>18, <1>19 DEF IInv

LEMMA AddSessionKeeps ==
  ASSUME IInv, NEW t \in Threads, AddSession(t)
  PROVE  IInv'
<1>1. /\ At(t, "Create", "add") /\ Goes(t, "save")
      /\ UNCHANGED <<file, made, worktree, branch, messages, removed>>
      /\ UNCHANGED <<phase, migrating>>
  BY DEF AddSession, diskVars
<1>2. "save" \in Labels /\ thread[t].at # "idle"
  BY <1>1 DEF Labels, At
<1>3. PICK r \in ThreadRecords :
        Steps(t, r) /\ r.op = thread[t].op /\ r.at = "save" /\ r.id = Id(t)
  BY <1>1, <1>2, GoesSteps
<1>4. PICK id \in Ids : id = Id(t)
  BY <1>1, Working DEF IInv, At
<1>5. PICK entry \in Entries : entry = [path |-> "new", parent |-> thread[t].parent]
  BY <1>2, Working DEF IInv, Entries, ThreadRecords, Places
<1>6. entry.path = "new" /\ entry # Absent
  BY <1>5 DEF Absent
<1>7. sessions' = [sessions EXCEPT ![id] = entry]
  BY <1>4, <1>5 DEF AddSession
<1>8. /\ sessions' \in [Ids -> Entries] /\ sessions'[id] = entry
      /\ \A i \in Ids : i # id => sessions'[i] = sessions[i]
  BY <1>7, Types DEF IInv
<1>9. Registered' = Registered \cup {id} /\ Saved' = Saved
  BY <1>1, <1>6, <1>8 DEF Registered, Saved
<1>10. /\ young \subseteq young'
       /\ (\E u \in Threads : thread[u].op = "Prune") => id \in young'
  BY <1>4 DEF AddSession
<1>11. Paired(r) /\ Dirty(r)
  BY <1>1, <1>3, <1>4 DEF Paired, At, Dirty
<1>12. Typed'
  BY <1>1, <1>3, <1>8, <1>11, Types, TypedStays DEF IInv, Steps
<1>13. Entered'
  BY <1>1, <1>3, <1>6, <1>8 DEF IInv, Entered, Steps, Moving
<1>14. id \in Fresh
  BY <1>1, <1>4 DEF Fresh, Adding
<1>15. Fresh' \subseteq Fresh \ {id}
  <2>1. Fresh' \subseteq Fresh
    BY <1>1, <1>3, FreshShrinks DEF IInv
  <2>2. ~(id > made')
    BY <1>1, <1>4, Types DEF IInv, FreshIsUnknown, Ids
  <2>3. \A u \in Threads : ~Adding(u, id)'
    <3> SUFFICES ASSUME NEW u \in Threads, Adding(u, id)'
                 PROVE  FALSE
      OBVIOUS
    <3>1. u # t
      BY <1>3, StepsMove DEF IInv, Adding, At
    <3>2. Adding(u, id)
      BY <1>3, <3>1, StepsMove DEF IInv, Adding, At, Id
    <3> QED
      BY <1>1, <1>4, <3>1, <3>2 DEF IInv, FreshIsUnknown
  <2> QED
    BY <2>1, <2>2, <2>3 DEF Fresh
<1>16. FreshIsUnknown'
  <2>1. \A i \in Fresh' : i \notin Registered' \cup Saved' \cup messages'
    BY <1>1, <1>9, <1>15 DEF IInv, FreshIsUnknown
  <2> QED
    BY <1>1, <1>3, <2>1, FreshStaysUnknown DEF IInv
<1>17. ThreadsKnow'
  <2> SUFFICES ASSUME NEW u \in Threads
               PROVE  Knows(thread[u])'
    BY DEF ThreadsKnow
  <2>1. CASE u = t
    BY <1>1, <1>3, <2>1, StepsMove DEF IInv, Knows, At
  <2>2. CASE u # t
    <3>1. PICK s \in ThreadRecords : s = thread[u]
      BY DEF IInv, Typed
    <3>2. thread'[u] = s /\ Knows(s)
      BY <1>3, <2>2, <3>1, StepsMove DEF IInv, ThreadsKnow
    <3>3. s.op = "Prune" => id \in young'
      BY <1>10, <3>1
    <3>4. Knows(s)'
      BY <1>1, <1>9, <1>10, <1>14, <1>15, <3>2, <3>3 DEF Knows
    <3> QED
      BY <3>2, <3>4 DEF Knows
  <2> QED
    BY <2>1, <2>2
<1>18. Fits'
  <2>1. \A i \in Ids : ~Moving(i) /\ ~Moving(i)'
    BY <1>3 DEF Moving, Steps
  <2>2. Lost \subseteq Lost'
    BY <1>1, <1>10 DEF Lost
  <2>3. worktree[id] = "new" \/ id \in Lost'
    BY <1>1, <1>4, <1>10 DEF IInv, Fits, Lost
  <2>4. (\A i \in Saved :
           \/ i \in Lost \/ worktree[i] = "new"
           \/ worktree[i] = "old" /\ file.sessions[i].path = "old")'
    BY <1>1, <1>9, <2>2 DEF IInv, Fits
  <2>5. (\A i \in Registered :
           i \in Lost \/ worktree[i] = sessions[i].path \/ (Moving(i) /\ worktree[i] = "new"))'
    <3> SUFFICES ASSUME NEW i \in Registered'
                 PROVE  i \in Lost' \/ worktree'[i] = sessions'[i].path
      OBVIOUS
    <3>1. CASE i = id
      BY <1>1, <1>6, <1>8, <2>3, <3>1
    <3>2. CASE i # id
      <4>1. i \in Registered /\ sessions'[i] = sessions[i]
        BY <1>8, <1>9, <3>2 DEF Registered
      <4>2. i \in Lost \/ worktree[i] = sessions[i].path
        BY <2>1, <4>1 DEF IInv, Fits, Registered
      <4> QED
        BY <1>1, <2>2, <4>1, <4>2
    <3> QED
      BY <3>1, <3>2
  <2>6. (\A u \in Threads : At(u, "Create", "add") => worktree[Id(u)] = "new" \/ Id(u) \in young)'
    <3>1. \A u \in Threads : At(u, "Create", "add")' => At(u, "Create", "add") /\ Id(u)' = Id(u)
      BY <1>3, StepsMove DEF IInv, At, Id
    <3> QED
      BY <1>1, <1>10, <3>1 DEF IInv, Fits
  <2> QED
    BY <2>4, <2>5, <2>6 DEF Fits
<1>19. FileFollows'
  BY <1>1, <1>3, <1>9, <1>11, StepsMove DEF IInv, FileFollows, Steps
<1> QED
  BY <1>12, <1>13, <1>16, <1>17, <1>18, <1>19 DEF IInv

\* A step of a Delete that takes a session out of the config, or a parent out of one.
LEMMA ShrinkStep ==
  ASSUME IInv, NEW t \in Threads, NEW r \in ThreadRecords, Steps(t, r),
         UNCHANGED <<file, made, worktree, removed, young>>,
         branch' = branch, messages' = messages,
         sessions' \in [Ids -> Entries],
         \A id \in Ids :
           sessions'[id] = Absent \/ (sessions[id] # Absent /\ sessions'[id].path = sessions[id].path),
         Registered \subseteq Registered' \cup removed,
         Paired(r), r.op = "Delete", Dirty(r), r.id \in removed, r.id \notin Fresh
  PROVE  IInv'
<1>1. Saved' = Saved /\ Registered' \subseteq Registered
  BY DEF Saved, Registered
<1>2. Typed'
  BY Types, TypedStays DEF IInv, Steps
<1>3. Entered'
  BY DEF IInv, Entered, Steps, Moving
<1>4. r.at # "add"
  BY DEF Dirty
<1>5. Fresh' \subseteq Fresh
  BY <1>4, FreshShrinks DEF IInv
<1>6. FreshIsUnknown'
  <2>1. \A id \in Fresh' : id \notin Registered' \cup Saved' \cup messages'
    BY <1>1, <1>5 DEF IInv, FreshIsUnknown
  <2> QED
    BY <1>4, <2>1, FreshStaysUnknown DEF IInv
<1>7. Knows(r)'
  BY <1>5 DEF Knows
<1>8. ThreadsKnow'
  BY <1>1, <1>5, <1>7, ThreadsStillKnow DEF IInv
<1>9. Fits'
  <2>1. \A id \in Ids : ~Moving(id) /\ ~Moving(id)'
    BY DEF Moving, Steps
  <2>2. (\A id \in Saved :
           \/ id \in Lost \/ worktree[id] = "new"
           \/ worktree[id] = "old" /\ file.sessions[id].path = "old")'
    BY <1>1 DEF IInv, Fits, Lost
  <2>3. (\A id \in Registered :
           id \in Lost \/ worktree[id] = sessions[id].path \/ (Moving(id) /\ worktree[id] = "new"))'
    BY <1>1, <2>1 DEF IInv, Fits, Registered, Lost
  <2>4. \A u \in Threads : At(u, "Create", "add")' => At(u, "Create", "add") /\ Id(u)' = Id(u)
    BY <1>4, StepsMove DEF IInv, At, Id
  <2>5. (\A u \in Threads : At(u, "Create", "add") => worktree[Id(u)] = "new" \/ Id(u) \in young)'
    BY <2>4 DEF IInv, Fits
  <2> QED
    BY <2>2, <2>3, <2>5 DEF Fits
<1>10. FileFollows'
  BY <1>1, StepsMove DEF IInv, FileFollows, Steps
<1> QED
  BY <1>2, <1>3, <1>6, <1>8, <1>9, <1>10 DEF IInv

LEMMA RemoveSessionKeeps ==
  ASSUME IInv, NEW t \in Threads, RemoveSession(t)
  PROVE  IInv'
<1>1. /\ At(t, "Delete", "remove") /\ Goes(t, "clear")
      /\ sessions' = [sessions EXCEPT ![Id(t)] = Absent]
      /\ UNCHANGED <<file, made, worktree, removed, young>>
      /\ branch' = branch /\ messages' = messages
      /\ UNCHANGED <<phase, migrating>>
  BY DEF RemoveSession, diskVars, historyVars
<1>2. "clear" \in Labels /\ thread[t].at # "idle"
  BY <1>1 DEF Labels, At
<1>3. PICK r \in ThreadRecords :
        Steps(t, r) /\ r.op = thread[t].op /\ r.at = "clear" /\ r.id = Id(t)
  BY <1>1, <1>2, GoesSteps
<1>4. Id(t) \in Ids /\ Id(t) \in removed /\ Id(t) \notin Fresh
  BY <1>1, Working DEF IInv, At, ThreadsKnow, Knows, Id
<1>5. Absent \in Entries
  BY StoreAssumption DEF Absent, Entries, Places
<1>6. sessions' \in [Ids -> Entries]
  BY <1>1, <1>4, <1>5, Types DEF IInv
<1>7. \A id \in Ids : sessions'[id] = Absent \/ sessions'[id] = sessions[id]
  BY <1>1, <1>4, Types DEF IInv
<1>8. Registered \subseteq Registered' \cup removed
  BY <1>1, <1>4, Types DEF IInv, Registered
<1>9. Paired(r) /\ r.op = "Delete" /\ Dirty(r)
  BY <1>1, <1>3, <1>4 DEF Paired, Dirty, At
<1> QED
  BY <1>1, <1>3, <1>4, <1>6, <1>7, <1>8, <1>9, ShrinkStep

LEMMA ClearOrphanedParentIDsKeeps ==
  ASSUME IInv, NEW t \in Threads, ClearOrphanedParentIDs(t)
  PROVE  IInv'
<1>1. /\ At(t, "Delete", "clear") /\ Goes(t, "messages")
      /\ UNCHANGED <<file, made, worktree, removed, young>>
      /\ branch' = branch /\ messages' = messages
      /\ UNCHANGED <<phase, migrating>>
  BY DEF ClearOrphanedParentIDs, diskVars, historyVars
<1>2. "messages" \in Labels /\ thread[t].at # "idle"
  BY <1>1 DEF Labels, At
<1>3. PICK r \in ThreadRecords :
        Steps(t, r) /\ r.op = thread[t].op /\ r.at = "messages" /\ r.id = Id(t)
  BY <1>1, <1>2, GoesSteps
<1>4. Id(t) \in Ids /\ Id(t) \in removed /\ Id(t) \notin Fresh
  BY <1>1, Working DEF IInv, At, ThreadsKnow, Knows, Id
<1>5. sessions' = [id \in Ids |-> IF sessions[id].parent = Id(t)
                                 THEN [sessions[id] EXCEPT !.parent = 0] ELSE sessions[id]]
  BY DEF ClearOrphanedParentIDs
<1>6. \A id \in Ids :
        /\ sessions'[id] \in Entries /\ sessions'[id].path = sessions[id].path
        /\ sessions[id] = Absent => sessions'[id] = Absent
  <2> SUFFICES ASSUME NEW id \in Ids
               PROVE  /\ sessions'[id] \in Entries /\ sessions'[id].path = sessions[id].path
                      /\ sessions[id] = Absent => sessions'[id] = Absent
    OBVIOUS
  <2>1. PICK was \in Entries : was = sessions[id]
    BY Types DEF IInv
  <2>2. sessions'[id] = IF was.parent = Id(t) THEN [was EXCEPT !.parent = 0] ELSE was
    BY <1>5, <2>1
  <2>3. [was EXCEPT !.parent = 0] \in Entries /\ [was EXCEPT !.parent = 0].path = was.path
    BY StoreAssumption DEF Entries
  <2>4. was = Absent => was.parent # Id(t)
    BY <1>4 DEF Absent, Ids
  <2> QED
    BY <2>1, <2>2, <2>3, <2>4
<1>7. sessions' \in [Ids -> Entries]
  BY <1>5, <1>6
<1>8. \A id \in Ids :
        sessions'[id] = Absent \/ (sessions[id] # Absent /\ sessions'[id].path = sessions[id].path)
  BY <1>6
<1>9. Registered \subseteq Registered'
  BY <1>6 DEF IInv, Entered, Registered, Absent
<1>10. Paired(r) /\ r.op = "Delete" /\ Dirty(r)
  BY <1>1, <1>3, <1>4 DEF Paired, Dirty, At
<1> QED
  BY <1>1, <1>3, <1>4, <1>7, <1>8, <1>9, <1>10, ShrinkStep

LEMMA RegisteredHasPath ==
  ASSUME IInv
  PROVE  \A id \in Registered : sessions[id].path \in {"old", "new"}
<1> SUFFICES ASSUME NEW id \in Registered
             PROVE  sessions[id].path \in {"old", "new"}
  OBVIOUS
<1>1. sessions[id] \in Entries /\ sessions[id].path # "none"
  BY Types DEF IInv, Entered, Registered
<1> QED
  BY <1>1 DEF Entries, Places

LEMMA SaveKeeps ==
  ASSUME IInv, NEW t \in Threads, Save(t)
  PROVE  IInv'
<1>1. /\ thread[t].at = "save" /\ Ends(t) /\ file' = Written
      /\ UNCHANGED <<sessions, made, worktree, branch, messages, removed, young>>
      /\ UNCHANGED <<phase, migrating>>
  BY DEF Save, diskVars, historyVars
<1>2. Steps(t, Idle) /\ Idle \in ThreadRecords /\ Paired(Idle) /\ Knows(Idle)'
  BY <1>1, EndsSteps
<1>3. Idle.at # "add"
  BY DEF Idle
<1>4. /\ file'.torn = FALSE /\ file'.sessions = sessions
      /\ file' \in [torn : BOOLEAN, sessions : [Ids -> Entries]]
  BY <1>1, Types DEF Written, IInv
<1>5. Typed'
  BY <1>1, <1>2, <1>4, Types, TypedStays DEF IInv
<1>6. Entered'
  BY <1>1, <1>2, <1>4 DEF IInv, Entered, Steps, Moving
<1>7. Saved' = Registered /\ Registered' = Registered
  BY <1>1, <1>4 DEF Saved, Registered
<1>8. Fresh' \subseteq Fresh
  BY <1>1, <1>2, <1>3, FreshShrinks DEF IInv
<1>9. FreshIsUnknown'
  <2>1. \A id \in Fresh' : id \notin Registered' \cup Saved' \cup messages'
    BY <1>1, <1>7, <1>8 DEF IInv, FreshIsUnknown
  <2> QED
    BY <1>1, <1>2, <1>3, <2>1, FreshStaysUnknown DEF IInv
<1>10. ThreadsKnow'
  BY <1>1, <1>2, <1>7, <1>8, ThreadsStillKnow DEF IInv
<1>11. Fits'
  <2>1. \A id \in Ids : ~Moving(id) /\ ~Moving(id)'
    BY <1>2 DEF Moving, Steps
  <2>2. \A id \in Registered : id \in Lost \/ worktree[id] = sessions[id].path
    BY <2>1 DEF IInv, Fits, Registered
  <2>3. \A id \in Registered : sessions[id].path \in {"old", "new"}
    BY RegisteredHasPath
  <2>4. (\A id \in Saved :
           \/ id \in Lost \/ worktree[id] = "new"
           \/ worktree[id] = "old" /\ file.sessions[id].path = "old")'
    BY <1>1, <1>4, <1>7, <2>2, <2>3 DEF Lost
  <2>5. (\A id \in Registered :
           id \in Lost \/ worktree[id] = sessions[id].path \/ (Moving(id) /\ worktree[id] = "new"))'
    BY <1>1, <1>7, <2>2 DEF Lost
  <2>6. \A u \in Threads : At(u, "Create", "add")' => At(u, "Create", "add") /\ Id(u)' = Id(u)
    BY <1>2, <1>3, StepsMove DEF IInv, At, Id
  <2>7. (\A u \in Threads : At(u, "Create", "add") => worktree[Id(u)] = "new" \/ Id(u) \in young)'
    BY <1>1, <2>6 DEF IInv, Fits
  <2> QED
    BY <2>4, <2>5, <2>7 DEF Fits
<1>12. FileFollows'
  BY <1>1, <1>2, <1>4, <1>7 DEF FileFollows, Steps
<1> QED
  BY <1>5, <1>6, <1>9, <1>10, <1>11, <1>12 DEF IInv

-----------------------------------------------------------------------------
(* Start, migration and crash, when no thread is at work.                  *)

LEMMA DownIsIdle ==
  ASSUME Typed, \/ phase # "up" /\ thread' = thread
                \/ thread' = [t \in Threads |-> Idle]
  PROVE  /\ \A t \in Threads : thread'[t] = Idle
         /\ thread' \in [Threads -> ThreadRecords]
         /\ \A t \in Threads : Paired(thread'[t])
         /\ \A t \in Threads : ~At(t, "Create", "add")'
<1>1. \A t \in Threads : thread'[t] = Idle
  BY DEF Typed
<1>2. thread' \in [Threads -> ThreadRecords]
  BY IdleIsPaired DEF Typed
<1>3. \A t \in Threads : Paired(thread'[t])
  BY <1>1, IdleIsPaired
<1>4. \A t \in Threads : ~At(t, "Create", "add")'
  BY <1>1 DEF At, Idle
<1> QED
  BY <1>1, <1>2, <1>3, <1>4

\* With idle threads nothing becomes fresh, and no thread counts on anything.
LEMMA IdleFresh ==
  ASSUME FreshIsUnknown, made' = made, \A t \in Threads : thread'[t] = Idle,
         messages' = messages,
         Registered' \subseteq Registered \cup Saved, Saved' \subseteq Registered \cup Saved
  PROVE  FreshIsUnknown' /\ ThreadsKnow'
<1>1. \A t \in Threads : ~At(t, "Create", "add")'
  BY DEF At, Idle
<1>2. Fresh' \subseteq Fresh
  BY <1>1 DEF Fresh, Adding
<1>3. FreshIsUnknown'
  BY <1>1, <1>2 DEF FreshIsUnknown
<1>4. ThreadsKnow'
  BY DEF ThreadsKnow, Knows, Idle
<1> QED
  BY <1>3, <1>4

LEMMA LoadKeeps ==
  ASSUME IInv, Load
  PROVE  IInv'
<1>1. /\ phase = "down"
      /\ UNCHANGED <<file, made, worktree, branch, messages, thread, removed, young>>
  BY DEF Load, diskVars, historyVars
<1>2. /\ \A t \in Threads : thread'[t] = Idle
      /\ thread' \in [Threads -> ThreadRecords]
      /\ \A t \in Threads : Paired(thread'[t])
      /\ \A t \in Threads : ~At(t, "Create", "add")'
  BY <1>1, DownIsIdle DEF IInv
<1>3. Saved' = Saved
  BY <1>1 DEF Saved
<1>4. CASE file.torn /\ phase' = "failed" /\ UNCHANGED <<sessions, migrating>>
  <2>1. Typed'
    <3>1. TypeOK'
      BY <1>1, <1>4 DEF IInv, Typed, TypeOK
    <3> QED
      BY <1>1, <1>2, <1>4, <3>1 DEF IInv, Typed
  <2>2. Registered' = Registered
    BY <1>4 DEF Registered
  <2>3. FreshIsUnknown' /\ ThreadsKnow'
    BY <1>1, <1>2, <1>3, <2>2, IdleFresh DEF IInv
  <2>4. Entered' /\ FileFollows'
    BY <1>1, <1>4 DEF IInv, Entered, Moving, FileFollows
  <2>5. Fits'
    BY <1>1, <1>2, <1>3, <1>4, <2>2 DEF IInv, Fits, Moving, Lost
  <2> QED
    BY <2>1, <2>3, <2>4, <2>5 DEF IInv
<1>5. CASE ~file.torn /\ sessions' = file.sessions /\ phase' = "migrate"
           /\ migrating' = [NoMigration EXCEPT
                !.todo = {id \in Ids : file.sessions[id].path = "old"}]
  <2>1. PICK todo : todo = {id \in Ids : file.sessions[id].path = "old"}
    OBVIOUS
  <2>2. /\ migrating'.todo = todo /\ (migrating'.migrated <=> FALSE)
        /\ migrating' \in [todo : SUBSET Ids, id : 0..MaxSessions, migrated : BOOLEAN]
    <3>1. migrating' = [todo |-> todo, id |-> 0, migrated |-> FALSE]
      BY <1>5, <2>1 DEF NoMigration
    <3>2. todo \in SUBSET Ids /\ 0 \in 0..MaxSessions
      BY <2>1, StoreAssumption
    <3> QED
      BY <3>1, <3>2
  <2>3. Typed'
    <3>1. TypeOK'
      BY <1>1, <1>5 DEF IInv, Typed, TypeOK
    <3> QED
      BY <1>1, <1>2, <2>2, <3>1 DEF IInv, Typed
  <2>4. Registered' = Saved
    BY <1>5 DEF Registered, Saved
  <2>5. FreshIsUnknown' /\ ThreadsKnow'
    BY <1>1, <1>2, <1>3, <2>4, IdleFresh DEF IInv
  <2>6. \A id \in Ids : Moving(id)' <=> file.sessions[id].path = "old"
    BY <1>5, <2>1, <2>2 DEF Moving
  <2>7. Entered'
    BY <1>1, <1>5, <2>6 DEF IInv, Entered
  <2>8. FileFollows'
    BY <1>1, <1>3, <1>5, <2>4 DEF FileFollows
  <2>9. Fits'
    <3>1. (\A id \in Registered :
             id \in Lost \/ worktree[id] = sessions[id].path \/ (Moving(id) /\ worktree[id] = "new"))'
      <4> SUFFICES ASSUME NEW id \in Saved
                   PROVE  \/ id \in Lost \/ worktree[id] = file.sessions[id].path
                          \/ file.sessions[id].path = "old" /\ worktree[id] = "new"
        BY <1>1, <1>5, <2>4, <2>6 DEF Lost, Saved
      <4>1. file.sessions[id] \in Entries /\ file.sessions[id].path # "none"
        BY Types DEF IInv, Entered, Saved
      <4>2. file.sessions[id].path \in {"old", "new"}
        BY <4>1 DEF Entries, Places
      <4> QED
        BY <4>2 DEF IInv, Fits
    <3> QED
      BY <1>1, <1>2, <1>3, <3>1 DEF IInv, Fits, Lost
  <2> QED
    BY <2>3, <2>5, <2>7, <2>8, <2>9 DEF IInv
<1> QED
  BY <1>4, <1>5 DEF Load

\* A path that is updated: the session stays in the config, at its new place.
LEMMA Updates ==
  ASSUME IInv, NEW id \in Ids, Moving(id), UpdateSessionWorkTree(id)
  PROVE  /\ sessions' \in [Ids -> Entries] /\ id \in Registered
         /\ sessions'[id].path = "new" /\ sessions'[id] # Absent
         /\ \A i \in Ids : i # id => sessions'[i] = sessions[i]
         /\ Registered' = Registered
<1>1. PICK was \in Entries : was = sessions[id]
  BY Types DEF IInv
<1>2. PICK r : r = [was EXCEPT !.path = "new"]
  OBVIOUS
<1>3. r \in Entries /\ r.path = "new" /\ r # Absent
  BY <1>2 DEF Entries, Places, Absent
<1>4. sessions' = [sessions EXCEPT ![id] = r]
  BY <1>1, <1>2, Types DEF IInv, UpdateSessionWorkTree
<1>5. sessions' \in [Ids -> Entries]
  BY <1>3, <1>4, Types DEF IInv
<1>6. sessions'[id] = r /\ \A i \in Ids : i # id => sessions'[i] = sessions[i]
  BY <1>4, Types DEF IInv
<1>7. sessions[id].path = "old" /\ sessions[id] # Absent
  BY DEF IInv, Entered, Absent
<1> QED
  BY <1>3, <1>5, <1>6, <1>7 DEF Registered

LEMMA MigrateMissingKeeps ==
  ASSUME IInv, MigrateMissing
  PROVE  IInv'
<1>1. /\ phase = "migrate" /\ phase' = "migrate"
      /\ UNCHANGED <<file, made, worktree, branch, messages, thread, removed, young>>
  BY DEF MigrateMissing, diskVars, historyVars
<1>2. PICK id \in migrating.todo :
        /\ worktree[id] # "old" /\ UpdateSessionWorkTree(id)
        /\ migrating' = [migrating EXCEPT !.todo = @ \ {id}, !.migrated = TRUE]
  BY DEF MigrateMissing
<1>3. id \in Ids /\ Moving(id)
  BY <1>1 DEF IInv, Typed, Moving
<1>4. /\ migrating' \in [todo : SUBSET Ids, id : 0..MaxSessions, migrated : BOOLEAN]
      /\ migrating'.todo = migrating.todo \ {id} /\ (migrating'.migrated <=> TRUE)
  BY <1>2 DEF IInv, Typed
<1>5. /\ \A t \in Threads : thread'[t] = Idle
      /\ \A t \in Threads : Paired(thread'[t])
      /\ \A t \in Threads : ~At(t, "Create", "add")'
  BY <1>1, DownIsIdle DEF IInv
<1>6. /\ sessions' \in [Ids -> Entries] /\ id \in Registered
      /\ sessions'[id].path = "new" /\ sessions'[id] # Absent
      /\ \A i \in Ids : i # id => sessions'[i] = sessions[i]
      /\ Registered' = Registered
  BY <1>2, <1>3, Updates
<1>7. Saved' = Saved
  BY <1>1 DEF Saved
<1>8. Typed'
  <2>1. TypeOK'
    BY <1>1, <1>6 DEF IInv, Typed, TypeOK, Entries
  <2> QED
    BY <1>1, <1>4, <1>5, <2>1 DEF IInv, Typed
<1>9. \A i \in Ids : Moving(i)' <=> Moving(i) /\ i # id
  BY <1>1, <1>4 DEF Moving
<1>10. Entered'
  BY <1>1, <1>6, <1>9 DEF IInv, Entered
<1>11. FreshIsUnknown' /\ ThreadsKnow'
  BY <1>1, <1>5, <1>6, <1>7, IdleFresh DEF IInv
<1>12. Fits'
  <2>1. id \in Lost \/ worktree[id] = "new"
    BY <1>2, <1>3, <1>6 DEF IInv, Fits, Entered
  <2>2. (\A i \in Registered :
           i \in Lost \/ worktree[i] = sessions[i].path \/ (Moving(i) /\ worktree[i] = "new"))'
    BY <1>1, <1>6, <1>9, <2>1 DEF IInv, Fits, Lost, Registered
  <2> QED
    BY <1>1, <1>5, <1>7, <2>2 DEF IInv, Fits, Lost
<1>13. FileFollows'
  BY <1>1, <1>4, <1>6, <1>7 DEF IInv, FileFollows
<1> QED
  BY <1>8, <1>10, <1>11, <1>12, <1>13 DEF IInv

LEMMA MigrateUpdateKeeps ==
  ASSUME IInv, MigrateUpdate
  PROVE  IInv'
<1>1. /\ phase = "move" /\ phase' = "migrate" /\ UpdateSessionWorkTree(migrating.id)
      /\ migrating' = [migrating EXCEPT !.migrated = TRUE]
      /\ UNCHANGED <<file, made, worktree, branch, messages, thread, removed, young>>
  BY DEF MigrateUpdate, diskVars, historyVars
<1>2. PICK id \in Ids \ migrating.todo : id = migrating.id /\ worktree[id] = "new" /\ Moving(id)
  BY <1>1 DEF IInv, Entered, Moving
<1>3. /\ migrating' \in [todo : SUBSET Ids, id : 0..MaxSessions, migrated : BOOLEAN]
      /\ migrating'.todo = migrating.todo /\ (migrating'.migrated <=> TRUE)
  BY <1>1 DEF IInv, Typed
<1>4. /\ \A t \in Threads : thread'[t] = Idle
      /\ \A t \in Threads : Paired(thread'[t])
      /\ \A t \in Threads : ~At(t, "Create", "add")'
  BY <1>1, DownIsIdle DEF IInv
<1>5. /\ sessions' \in [Ids -> Entries] /\ id \in Registered
      /\ sessions'[id].path = "new" /\ sessions'[id] # Absent
      /\ \A i \in Ids : i # id => sessions'[i] = sessions[i]
      /\ Registered' = Registered
  BY <1>1, <1>2, Updates
<1>6. Saved' = Saved
  BY <1>1 DEF Saved
<1>7. Typed'
  <2>1. TypeOK'
    BY <1>1, <1>5 DEF IInv, Typed, TypeOK, Entries
  <2> QED
    BY <1>1, <1>3, <1>4, <2>1 DEF IInv, Typed
<1>8. \A i \in Ids : Moving(i)' <=> Moving(i) /\ i # id
  BY <1>1, <1>2, <1>3 DEF Moving
<1>9. Entered'
  BY <1>1, <1>5, <1>8 DEF IInv, Entered
<1>10. FreshIsUnknown' /\ ThreadsKnow'
  BY <1>1, <1>4, <1>5, <1>6, IdleFresh DEF IInv
<1>11. Fits'
  <2>1. (\A i \in Registered :
           i \in Lost \/ worktree[i] = sessions[i].path \/ (Moving(i) /\ worktree[i] = "new"))'
    BY <1>1, <1>2, <1>5, <1>8 DEF IInv, Fits, Lost, Registered
  <2> QED
    BY <1>1, <1>4, <1>6, <2>1 DEF IInv, Fits, Lost
<1>12. FileFollows'
  BY <1>1, <1>3, <1>5, <1>6 DEF IInv, FileFollows
<1> QED
  BY <1>7, <1>9, <1>10, <1>11, <1>12 DEF IInv

LEMMA MigrateMoveKeeps ==
  ASSUME IInv, MigrateMove
  PROVE  IInv'
<1>1. /\ phase = "migrate"
      /\ UNCHANGED <<sessions, file, made, branch, messages, thread, removed, young>>
  BY DEF MigrateMove, historyVars
<1>2. PICK id \in migrating.todo :
        /\ worktree[id] = "old"
        /\ \/ /\ worktree' = [worktree EXCEPT ![id] = "new"]
              /\ phase' = "move"
              /\ migrating' = [migrating EXCEPT !.todo = @ \ {id}, !.id = id]
           \/ /\ migrating' = [migrating EXCEPT !.todo = @ \ {id}]
              /\ UNCHANGED <<worktree, phase>>
  BY DEF MigrateMove
<1>3. id \in Ids /\ Moving(id)
  BY <1>1 DEF IInv, Typed, Moving
<1>4. /\ \A t \in Threads : thread'[t] = Idle
      /\ \A t \in Threads : Paired(thread'[t])
      /\ \A t \in Threads : ~At(t, "Create", "add")'
  BY <1>1, DownIsIdle DEF IInv
<1>5. Registered' = Registered /\ Saved' = Saved
  BY <1>1 DEF Registered, Saved
<1>6. FreshIsUnknown' /\ ThreadsKnow'
  BY <1>1, <1>4, <1>5, IdleFresh DEF IInv
<1>7. sessions[id].path = "old"
  BY <1>3 DEF IInv, Entered
<1>8. /\ worktree' \in [Ids -> Places]
      /\ \A i \in Ids : i # id => worktree'[i] = worktree[i]
      /\ phase' \in {"migrate", "move"}
  BY <1>1, <1>2, <1>3, Types DEF IInv, Places
<1>9. /\ migrating' \in [todo : SUBSET Ids, id : 0..MaxSessions, migrated : BOOLEAN]
      /\ migrating'.todo = migrating.todo \ {id}
      /\ (migrating'.migrated <=> migrating.migrated)
  <2>1. id \in 0..MaxSessions
    BY <1>3, StoreAssumption DEF Ids
  <2>2. migrating \in [todo : SUBSET Ids, id : 0..MaxSessions, migrated : BOOLEAN]
    BY DEF IInv, Typed
  <2>3. CASE migrating' = [migrating EXCEPT !.todo = @ \ {id}, !.id = id]
    BY <2>1, <2>2, <2>3
  <2>4. CASE migrating' = [migrating EXCEPT !.todo = @ \ {id}]
    BY <2>2, <2>4
  <2> QED
    BY <1>2, <2>3, <2>4
<1>10. Typed'
  <2>1. TypeOK'
    BY <1>1, <1>8 DEF IInv, Typed, TypeOK
  <2> QED
    BY <1>1, <1>4, <1>9, <2>1 DEF IInv, Typed
<1>11. FileFollows'
  BY <1>1, <1>5, <1>8, <1>9 DEF IInv, FileFollows
<1>12. CASE /\ worktree' = [worktree EXCEPT ![id] = "new"] /\ phase' = "move"
            /\ migrating' = [migrating EXCEPT !.todo = @ \ {id}, !.id = id]
  <2>1. migrating'.id = id /\ worktree'[id] = "new"
    BY <1>3, <1>12, Types DEF IInv, Typed
  <2>2. \A i \in Ids : Moving(i)' <=> Moving(i)
    BY <1>1, <1>2, <1>9, <1>12, <2>1 DEF Moving
  <2>3. Entered'
    BY <1>1, <1>3, <1>9, <2>1, <2>2 DEF IInv, Entered
  <2>4. Fits'
    <3>1. \A i \in Saved : \/ i \in Lost \/ worktree'[i] = "new"
                           \/ worktree'[i] = "old" /\ file.sessions[i].path = "old"
      BY <1>8, <2>1 DEF IInv, Fits, Saved
    <3>2. \A i \in Registered :
            i \in Lost \/ worktree'[i] = sessions[i].path \/ (Moving(i)' /\ worktree'[i] = "new")
      BY <1>3, <1>8, <2>1, <2>2 DEF IInv, Fits, Registered
    <3> QED
      BY <1>1, <1>4, <1>5, <3>1, <3>2 DEF Fits, Lost
  <2> QED
    BY <1>6, <1>10, <1>11, <2>3, <2>4 DEF IInv
<1>13. CASE migrating' = [migrating EXCEPT !.todo = @ \ {id}] /\ UNCHANGED <<worktree, phase>>
  <2>1. \A i \in Ids : Moving(i)' <=> Moving(i) /\ i # id
    BY <1>1, <1>9, <1>13 DEF Moving
  <2>2. Entered'
    BY <1>1, <1>13, <2>1 DEF IInv, Entered
  <2>3. Fits'
    <3>1. \A i \in Registered :
            i \in Lost \/ worktree[i] = sessions[i].path \/ (Moving(i)' /\ worktree[i] = "new")
      BY <1>2, <1>7, <2>1 DEF IInv, Fits, Registered
    <3> QED
      BY <1>1, <1>4, <1>5, <1>13, <3>1 DEF IInv, Fits, Lost
  <2> QED
    BY <1>6, <1>10, <1>11, <2>2, <2>3 DEF IInv
<1> QED
  BY <1>2, <1>12, <1>13

LEMMA MigrateSaveKeeps ==
  ASSUME IInv, MigrateSave
  PROVE  IInv'
<1>1. /\ phase = "migrate" /\ migrating.todo = {} /\ phase' = "up"
      /\ migrating' = NoMigration
      /\ file' = IF migrating.migrated THEN Written ELSE file
      /\ UNCHANGED <<sessions, made, worktree, branch, messages, thread, removed, young>>
  BY DEF MigrateSave, diskVars, historyVars
<1>2. /\ \A t \in Threads : thread'[t] = Idle
      /\ \A t \in Threads : Paired(thread'[t])
      /\ \A t \in Threads : ~At(t, "Create", "add")'
  BY <1>1, DownIsIdle DEF IInv
<1>3. /\ file'.sessions = sessions /\ (file'.torn <=> FALSE)
      /\ file' \in [torn : BOOLEAN, sessions : [Ids -> Entries]]
  <2>1. CASE migrating.migrated
    BY <1>1, <2>1, Types DEF IInv, Written
  <2>2. CASE ~migrating.migrated
    BY <1>1, <2>2, Types DEF IInv, FileFollows, Typed, TypeOK
  <2> QED
    BY <2>1, <2>2
<1>4. Registered' = Registered /\ Saved' = Registered
  BY <1>1, <1>3 DEF Registered, Saved
<1>5. FreshIsUnknown' /\ ThreadsKnow'
  BY <1>1, <1>2, <1>4, IdleFresh DEF IInv
<1>6. Typed'
  <2>1. migrating' \in [todo : SUBSET Ids, id : 0..MaxSessions, migrated : BOOLEAN]
    BY <1>1, StoreAssumption DEF NoMigration
  <2>2. TypeOK'
    BY <1>1, <1>3 DEF IInv, Typed, TypeOK
  <2> QED
    BY <1>1, <1>2, <1>3, <2>1, <2>2 DEF IInv, Typed
<1>7. \A i \in Ids : ~Moving(i) /\ ~Moving(i)'
  BY <1>1 DEF Moving
<1>8. Entered'
  BY <1>1, <1>3, <1>7 DEF IInv, Entered
<1>9. Fits'
  <2>1. \A id \in Registered : id \in Lost \/ worktree[id] = sessions[id].path
    BY <1>7 DEF IInv, Fits, Registered
  <2>2. \A id \in Registered : sessions[id].path \in {"old", "new"}
    BY RegisteredHasPath
  <2> QED
    BY <1>1, <1>2, <1>3, <1>4, <2>1, <2>2 DEF Fits, Lost
<1>10. FileFollows'
  BY <1>1, <1>3, <1>4 DEF FileFollows
<1> QED
  BY <1>5, <1>6, <1>8, <1>9, <1>10 DEF IInv

LEMMA CrashKeeps ==
  ASSUME IInv, Crash
  PROVE  IInv'
<1>1. /\ phase' = "down" /\ sessions' = [id \in Ids |-> Absent]
      /\ thread' = [t \in Threads |-> Idle] /\ migrating' = NoMigration
      /\ file' = file \/ file' = [file EXCEPT !.torn = TRUE]
      /\ UNCHANGED <<made, worktree, branch, messages, removed, young>>
  BY DEF Crash, diskVars, historyVars
<1>2. /\ \A t \in Threads : thread'[t] = Idle
      /\ thread' \in [Threads -> ThreadRecords]
      /\ \A t \in Threads : Paired(thread'[t])
      /\ \A t \in Threads : ~At(t, "Create", "add")'
  BY <1>1, DownIsIdle DEF IInv
<1>3. /\ file'.sessions = file.sessions /\ file'.torn \in BOOLEAN
      /\ file' \in [torn : BOOLEAN, sessions : [Ids -> Entries]]
  BY <1>1, Types DEF IInv
<1>4. Registered' = {} /\ Saved' = Saved
  BY <1>1, <1>3 DEF Registered, Saved
<1>5. FreshIsUnknown' /\ ThreadsKnow'
  BY <1>1, <1>2, <1>4, IdleFresh DEF IInv
<1>6. Typed'
  <2>1. migrating' \in [todo : SUBSET Ids, id : 0..MaxSessions, migrated : BOOLEAN]
    BY <1>1, StoreAssumption DEF NoMigration
  <2>2. Absent \in Entries
    BY StoreAssumption DEF Absent, Entries, Places
  <2>3. TypeOK'
    BY <1>1, <1>3, <2>2 DEF IInv, Typed, TypeOK, Entries
  <2> QED
    BY <1>1, <1>2, <2>1, <2>3 DEF IInv, Typed
<1>7. Entered'
  BY <1>1, <1>3 DEF IInv, Entered, Moving, Absent
<1>8. Fits'
  BY <1>1, <1>2, <1>3, <1>4 DEF IInv, Fits, Lost
<1>9. FileFollows'
  BY <1>1 DEF FileFollows
<1> QED
  BY <1>5, <1>6, <1>7, <1>8, <1>9 DEF IInv

-----------------------------------------------------------------------------
(* The invariant, and what it gives.                                       *)

LEMMA InitInv == Init => IInv
<1> SUFFICES ASSUME Init
             PROVE  IInv
  OBVIOUS
<1>1. /\ sessions = [id \in Ids |-> Absent] /\ messages = {} /\ made = Legacy
      /\ phase = "down" /\ migrating = NoMigration
      /\ \A t \in Threads : thread[t] = Idle
  BY DEF Init
<1>2. PICK entries :
        entries = [id \in Ids |-> IF id <= Legacy THEN [path |-> "old", parent |-> 0] ELSE Absent]
  OBVIOUS
<1>3. file = [torn |-> FALSE, sessions |-> entries]
  BY <1>2 DEF Init
<1>4. Absent \in Entries /\ [path |-> "old", parent |-> 0] \in Entries
  BY StoreAssumption DEF Absent, Entries, Places
<1>5. entries \in [Ids -> Entries]
  BY <1>2, <1>4
<1>6. /\ file.sessions = entries /\ (file.torn <=> FALSE)
      /\ file \in [torn : BOOLEAN, sessions : [Ids -> Entries]]
  BY <1>3, <1>5
<1>7. /\ worktree \in [Ids -> Places] /\ branch \subseteq Ids
      /\ made \in 0..MaxSessions /\ made \in Nat
  BY <1>1, StoreAssumption DEF Init, Places, Ids
<1>8. migrating \in [todo : SUBSET Ids, id : 0..MaxSessions, migrated : BOOLEAN]
  BY <1>1, StoreAssumption DEF NoMigration
<1>9. Typed
  <2>1. TypeOK
    BY <1>1, <1>4, <1>5, <1>6, <1>7 DEF TypeOK, Entries
  <2>2. thread \in [Threads -> ThreadRecords] /\ \A t \in Threads : Paired(thread[t])
    BY <1>1, IdleIsPaired DEF Init
  <2> QED
    BY <1>1, <1>6, <1>7, <1>8, <2>1, <2>2 DEF Typed
<1>10. Registered = {}
  BY <1>1 DEF Registered
<1>11. \A id \in Ids : id \in Saved <=> id <= Legacy
  BY <1>2, <1>6 DEF Saved, Absent
<1>12. \A t \in Threads : ~At(t, "Create", "add") /\ Knows(thread[t])
  BY <1>1, IdleIsPaired DEF At, Idle
<1>13. FreshIsUnknown
  <2>1. \A id \in Fresh : id \notin Saved
    BY <1>1, <1>11, <1>12, StoreAssumption DEF Fresh, Adding, Ids
  <2> QED
    BY <1>1, <1>10, <1>12, <2>1 DEF FreshIsUnknown
<1>14. Entered
  BY <1>1, <1>2, <1>6 DEF Entered, Moving, Absent
<1>15. Fits
  <2>1. \A id \in Saved : worktree[id] = "old" /\ entries[id].path = "old"
    BY <1>2, <1>11 DEF Init, Saved
  <2> QED
    BY <1>6, <1>10, <1>12, <2>1 DEF Fits
<1> QED
  BY <1>1, <1>9, <1>12, <1>13, <1>14, <1>15 DEF IInv, ThreadsKnow, FileFollows

LEMMA ThreadKeeps ==
  ASSUME IInv, NEW t \in Threads, Create(t) \/ Delete(t) \/ Messages(t) \/ Prune(t) \/ Save(t)
  PROVE  IInv'
<1>1. CASE Create(t)
  BY <1>1, CreateWorktreeKeeps, AddSessionKeeps DEF Create
<1>2. CASE Delete(t)
  BY <1>2, RemoveWorktreeKeeps, DeleteBranchKeeps, RemoveSessionKeeps,
     ClearOrphanedParentIDsKeeps, DeleteSessionMessagesKeeps DEF Delete
<1>3. CASE Messages(t)
  BY <1>3, CallSaveMessagesKeeps, SaveSessionMessagesKeeps, ListMessagesKeeps,
     KnownMessagesKeeps, PruneMessagesKeeps DEF Messages
<1>4. CASE Prune(t)
  BY <1>4, KnownSessionsKeeps, ScanWorktreesKeeps, PruneWorktreeKeeps, PruneRestKeeps DEF Prune
<1>5. CASE Save(t)
  BY <1>5, SaveKeeps
<1> QED
  BY <1>1, <1>2, <1>3, <1>4, <1>5

LEMMA NextInv == IInv /\ [Next]_vars => IInv'
<1> SUFFICES ASSUME IInv, [Next]_vars
             PROVE  IInv'
  OBVIOUS
<1>1. CASE Lifecycle
  BY <1>1, LoadKeeps, MigrateMissingKeeps, MigrateMoveKeeps, MigrateUpdateKeeps,
     MigrateSaveKeeps, CrashKeeps DEF Lifecycle
<1>2. CASE \E t \in Threads : Create(t) \/ Delete(t) \/ Messages(t) \/ Prune(t) \/ Save(t)
  BY <1>2, ThreadKeeps
<1>3. CASE UNCHANGED vars
  BY <1>3 DEF vars, diskVars, historyVars, IInv, Typed, TypeOK, Entered, Moving, Registered, Saved,
     FreshIsUnknown, Fresh, Adding, At, Id, ThreadsKnow, Knows, Fits, Lost, FileFollows
<1> QED
  BY <1>1, <1>2, <1>3 DEF Next

\* The parts of IInv hold in every reachable state: what the threads in the middle
\* of an operation may count on, and how file, memory and worktrees fit together.
THEOREM Invariance == Spec => []IInv
  BY InitInv, NextInv, PTL DEF Spec

\* The variables keep their types, whatever the number of goroutines, sessions
\* and crashes, and no application runs on a file that was cut off in a Save.
THEOREM TypeCorrectness == Spec => []TypeOK
<1>1. IInv => TypeOK
  BY DEF IInv, Typed
<1> QED
  BY <1>1, Invariance, PTL

\* While the application is up a session of the config has its worktree at its
\* path, unless a Delete has begun on it or a prune that had read the config
\* before it took it for an orphan: also after a crash between the move of a
\* worktree and the update of its path.
THEOREM WorktreeIsWhereItSays == Spec => []SessionHasItsWorktree
<1>1. IInv => SessionHasItsWorktree
  BY DEF IInv, Fits, SessionHasItsWorktree, Moving, Lost, Registered
<1> QED
  BY <1>1, Invariance, PTL

\* When every thread is idle the file holds what the memory does: Saves may
\* overtake each other, but each writes the whole Config, and a thread that has
\* changed it is not idle before its own Save.
THEOREM NothingUnsaved == Spec => []IdleConfigIsSaved
<1>1. IInv => IdleConfigIsSaved
  BY IdleIsPaired DEF IInv, FileFollows, IdleConfigIsSaved
<1> QED
  BY <1>1, Invariance, PTL

\* In a step of PruneOrphanedSessionMessages no file of messages goes that
\* belongs to a session of the config.
LEMMA PruneStep ==
  ASSUME IInv, [Next]_vars, NEW t \in Threads, At(t, "PruneMessages", "delete"),
         thread'[t] # thread[t]
  PROVE  (messages \ messages') \cap Registered = {}
<1>1. CASE UNCHANGED vars
  BY <1>1 DEF vars
<1>2. CASE Lifecycle
  BY <1>2 DEF Lifecycle, Load, MigrateMissing, MigrateMove, MigrateUpdate, MigrateSave, Crash, diskVars
<1>3. ASSUME NEW u \in Threads, Create(u) \/ Delete(u) \/ Messages(u) \/ Prune(u) \/ Save(u)
      PROVE  (messages \ messages') \cap Registered = {}
  <2>1. CASE PruneMessages(u)
    <3>1. thread[u].ids \cap Registered = {}
      BY <2>1 DEF PruneMessages, IInv, ThreadsKnow, Knows, At
    <3> QED
      BY <2>1, <3>1 DEF PruneMessages
  <2>2. CASE DeleteSessionMessages(u) \/ PruneRest(u)
    <3>1. u # t
      BY <2>2 DEF DeleteSessionMessages, PruneRest, At
    <3>2. thread'[t] = thread[t]
      BY <2>2, <3>1 DEF DeleteSessionMessages, PruneRest, Goes, IInv, Typed
    <3> QED
      BY <3>2
  <2>3. CASE ~PruneMessages(u) /\ ~DeleteSessionMessages(u) /\ ~PruneRest(u)
    <3>1. messages \subseteq messages'
      BY <1>3, <2>3 DEF Create, Delete, Messages, Prune, CreateWorktree, AddSession, RemoveWorktree,
         DeleteBranch, RemoveSession, ClearOrphanedParentIDs, CallSaveMessages,
         SaveSessionMessages, ListMessages, KnownMessages, KnownSessions, ScanWorktrees, Scans,
         PruneWorktree, Save, diskVars
    <3> QED
      BY <3>1
  <2> QED
    BY <2>1, <2>2, <2>3
<1> QED
  BY <1>1, <1>2, <1>3 DEF Next

\* PruneOrphanedSessionMessages never deletes the messages of a session in the
\* config, however many sessions are created, saved and deleted meanwhile.
THEOREM PruneIsSafe == Spec => PruneKeepsMessages
<1>1. IInv /\ [Next]_vars =>
        [\A t \in Threads : At(t, "PruneMessages", "delete") /\ thread'[t] # thread[t] =>
           (messages \ messages') \cap Registered = {}]_vars
  BY PruneStep
<1> QED
  BY <1>1, Invariance, PTL DEF Spec, PruneKeepsMessages

=============================================================================
