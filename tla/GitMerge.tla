------------------------------- MODULE GitMerge -------------------------------
(***************************************************************************)
(* The operations of GitService that take a goroutine and a result channel *)
(* (src/git): merging the branch of a session into the default branch, as  *)
(* a merge or squashed, or into the branch of its parent, and pushing it,  *)
(* with or without a pull request.  An operation is a job: a sequence of   *)
(* git commands with a report before and after each, on a channel without  *)
(* a buffer.  Jobs of one repository share its checkout and nothing keeps  *)
(* them apart; the user may abort or commit a merge that is in conflict,   *)
(* look at a branch in the main checkout, or stop listening.               *)
(*                                                                         *)
(* A branch is the set of the changes it holds: each session makes one,    *)
(* named like its branch, and others push to the remote.  What git does    *)
(* with a checkout is modelled from how git behaves (external).            *)
(***************************************************************************)
EXTENDS Naturals, FiniteSets

CONSTANTS
  Branches,   \* the branches of the sessions, each with a worktree of its name
  Kinds,      \* the operations called
  HasOrigin,  \* the repository has a remote named origin
  MaxJobs,    \* bound: operations
  MaxPushed,  \* bound: changes that others push to the default branch of the remote
  MaxPreviews \* bound: checkouts in the main repository by the preview

ASSUME GitAssumption ==
  /\ Kinds \subseteq {"merge", "squash", "parent", "push", "pr"}
  /\ HasOrigin \in BOOLEAN
  /\ MaxJobs \in Nat /\ MaxPushed \in Nat /\ MaxPreviews \in Nat
  /\ "main" \notin Branches /\ "repo" \notin Branches

Jobs == 1..MaxJobs
Pushed == 1..MaxPushed
Changes == Branches \cup Pushed
Trees == Branches \cup {"repo"}
Refs == Branches \cup {"main"}

VARIABLES
  ref,       \* what each local branch holds
  edited,    \* the branches whose worktree has edits that are not committed
  index,     \* each tree: [staged, unmerged, merging]; merging: MERGE_HEAD exists
  head,      \* the branch the main repository is on
  remote,    \* what the default branch of origin holds
  tracking,  \* origin/main as last fetched
  tracked,   \* origin/main exists
  published, \* the session branches as origin has them
  job,       \* each job, see NoJob
  previews   \* checkouts by the preview so far

trees == <<ref, edited, index, head>>
origin == <<remote, tracking, tracked, published>>
vars == <<trees, origin, job, previews>>

Clean == [staged |-> {}, unmerged |-> FALSE, merging |-> FALSE]

\* at: the command next; outcome: of the last Result; heard: the consumer still
\* receives; told: the Result with Done that it got; saw: what its fetch brought;
\* moved: the main repository changed its branch under it.
NoJob == [kind |-> "none", branch |-> "main", into |-> "main", at |-> "none", outcome |-> "none",
          heard |-> TRUE, told |-> "none", saw |-> {}, moved |-> FALSE]

Init ==
  /\ edited = Branches /\ ref = [r \in Refs |-> {}]
  /\ index = [t \in Trees |-> Clean] /\ head = "main"
  /\ remote = {} /\ tracking = {} /\ tracked \in BOOLEAN
  /\ published = [b \in Branches |-> {}]
  /\ job = [j \in Jobs |-> NoJob] /\ previews = 0

-----------------------------------------------------------------------------
(* A job goes from one command to the next.  It sends before the command,  *)
(* so that it is only ever past that with someone who receives.            *)

Runs(j, at) == job[j].at = at /\ job[j].heard
Goes(j, at) == job' = [job EXCEPT ![j].at = at]
Fails(j) == job' = [job EXCEPT ![j].at = "tell", ![j].outcome = "error"]
Succeeds(j) == job' = [job EXCEPT ![j].at = "tell", ![j].outcome = "success"]
Tree(j) == IF job[j].kind = "parent" THEN job[j].into ELSE "repo"
On(t) == IF t = "repo" THEN head ELSE t
HasChanges(t) == t \in edited \/ index[t] # Clean

\* The command after the changes of the session are committed.
AfterCommit(j) ==
  IF job[j].kind \in {"merge", "squash"} THEN "checkout"
  ELSE IF job[j].kind = "parent" THEN "merge" ELSE "push"

Start(j, kind, b, into) ==
  /\ job[j] = NoJob /\ \A i \in Jobs : i < j => job[i] # NoJob
  /\ (kind = "parent") = (into # "main") /\ into # b
  /\ \A i \in Jobs : job[i].branch = b => job[i].at \in {"end", "none"}
  /\ job' = [job EXCEPT ![j] = [NoJob EXCEPT !.kind = kind, !.branch = b, !.into = into,
                                              !.at = "status"]]
  /\ UNCHANGED <<trees, origin, previews>>

EnsureCommitted(j) ==
  /\ Runs(j, "status")
  /\ \/ Goes(j, IF HasChanges(job[j].branch) THEN "commit" ELSE AfterCommit(j))
     \/ Fails(j)
  /\ UNCHANGED <<trees, origin, previews>>

\* `git add -A; git commit' in tree t.
CommitsAll(t) ==
  /\ ref' = [ref EXCEPT ![On(t)] = @ \cup index[t].staged \cup ({t} \cap edited)]
  /\ edited' = edited \ {t}
  /\ index' = [index EXCEPT ![t] = Clean]

CommitAll(j) ==
  /\ Runs(j, "commit")
  /\ \/ HasChanges(job[j].branch) /\ CommitsAll(job[j].branch) /\ Goes(j, AfterCommit(j))
     \/ Fails(j) /\ UNCHANGED <<ref, edited, index>>
  /\ UNCHANGED <<head, origin, previews>>

\* git checkout: refused with unmerged entries; another branch is refused during
\* a merge, and with changes that are in the way.
MayCheckout(b) == ~index["repo"].unmerged /\ (b = head \/ ~index["repo"].merging)

Checkout(j) ==
  /\ Runs(j, "checkout")
  /\ \/ MayCheckout("main") /\ head' = "main" /\ Goes(j, "fetch")
     \/ /\ ~MayCheckout("main") \/ head # "main"
        /\ Fails(j) /\ UNCHANGED head
  /\ UNCHANGED <<ref, edited, index, origin, previews>>

-----------------------------------------------------------------------------
(* syncWithRemote.                                                         *)

\* Mutant of Fetch: a failed fetch ends the job without a word.
FetchQuietly(j) ==
  /\ Runs(j, "fetch")
  /\ \/ ~HasOrigin /\ Goes(j, "merge") /\ UNCHANGED <<tracking, tracked>>
     \/ /\ HasOrigin /\ tracking' = remote /\ tracked' = TRUE
        /\ job' = [job EXCEPT ![j].at = "compare", ![j].saw = remote]
     \/ /\ HasOrigin /\ UNCHANGED <<tracking, tracked>>
        /\ IF tracked THEN Goes(j, "end") ELSE Goes(j, "merge")
  /\ UNCHANGED <<trees, remote, published, previews>>

\* A fetch that fails ends the job if origin has the branch as far as is known.
Fetch(j) ==
  /\ Runs(j, "fetch")
  /\ \/ ~HasOrigin /\ Goes(j, "merge") /\ UNCHANGED <<tracking, tracked>>
     \/ /\ HasOrigin /\ tracking' = remote /\ tracked' = TRUE
        /\ job' = [job EXCEPT ![j].at = "compare", ![j].saw = remote]
     \/ /\ HasOrigin /\ UNCHANGED <<tracking, tracked>>
        /\ IF tracked THEN Fails(j) ELSE Goes(j, "merge")
  /\ UNCHANGED <<trees, remote, published, previews>>

Ahead  == ref["main"] \ tracking
Behind == tracking \ ref["main"]

\* Mutant of Compare: only a branch that is behind and not ahead is synced.
CompareAheadFirst(j) ==
  /\ Runs(j, "compare")
  /\ Goes(j, IF Ahead = {} /\ Behind # {} THEN "pull" ELSE "merge")
  /\ UNCHANGED <<trees, origin, previews>>

\* A comparison that cannot be made is logged, and the job goes on.
Compare(j) ==
  /\ Runs(j, "compare")
  /\ \/ IF Ahead # {} /\ Behind # {} THEN Fails(j)
        ELSE Goes(j, IF Behind # {} THEN "pull" ELSE "merge")
     \/ job' = [job EXCEPT ![j].at = "merge", ![j].saw = {}]
  /\ UNCHANGED <<trees, origin, previews>>

\* git pull --ff-only, of the branch the repository is on.
Pull(j) ==
  /\ Runs(j, "pull")
  /\ \/ /\ head = "main" /\ ~index["repo"].unmerged /\ ~index["repo"].merging
        /\ tracking' = remote /\ ref["main"] \subseteq remote
        /\ ref' = [ref EXCEPT !["main"] = remote] /\ Goes(j, "merge")
     \/ /\ head # "main" /\ published[head] # {}
        /\ Goes(j, "merge") /\ UNCHANGED <<ref, tracking>>
     \/ Fails(j) /\ UNCHANGED <<ref, tracking>>
  /\ UNCHANGED <<edited, index, head, remote, tracked, published, previews>>

-----------------------------------------------------------------------------
(* The merge.  git merge refuses a tree in the middle of a merge, one with *)
(* staged changes unless it can fast-forward, and one with edits in the    *)
(* way.                                                                    *)

Midway(t) == index[t].unmerged \/ index[t].merging
FastForwards(t, b) == ref[On(t)] \subseteq ref[b]
UpToDate(t, b) == ref[b] \subseteq ref[On(t)]
Merges(t, b) ==
  ~Midway(t) /\ (index[t].staged = {} \/ FastForwards(t, b) \/ UpToDate(t, b))
Conflicts(t, b) ==
  ~Midway(t) /\ index[t].staged = {} /\ ~FastForwards(t, b) /\ ~UpToDate(t, b)

Merge(j) ==
  LET t == Tree(j)  b == job[j].branch IN
  /\ Runs(j, "merge") /\ job[j].kind # "squash"
  /\ \/ Merges(t, b) /\ ref' = [ref EXCEPT ![On(t)] = @ \cup ref[b]]
        /\ Succeeds(j) /\ UNCHANGED index
     \/ /\ Conflicts(t, b)
        /\ index' = [index EXCEPT ![t] = [staged |-> ref[b], unmerged |-> TRUE, merging |-> TRUE]]
        /\ Goes(j, "ask") /\ UNCHANGED ref
     \/ Goes(j, "ask") /\ UNCHANGED <<ref, index>>
  /\ UNCHANGED <<edited, head, origin, previews>>

\* Nothing is committed; a conflict leaves unmerged entries and no MERGE_HEAD.
Squash(j) ==
  LET b == job[j].branch IN
  /\ Runs(j, "merge") /\ job[j].kind = "squash"
  /\ \/ /\ Merges("repo", b)
        /\ index' = [index EXCEPT !["repo"].staged = @ \cup (ref[b] \ ref[head])]
        /\ Goes(j, "finish")
     \/ /\ Conflicts("repo", b)
        /\ index' = [index EXCEPT !["repo"] = [staged |-> ref[b], unmerged |-> TRUE, merging |-> FALSE]]
        /\ Goes(j, "ask")
     \/ Goes(j, "ask") /\ UNCHANGED index
  /\ UNCHANGED <<ref, edited, head, origin, previews>>

\* Mutant of SquashCommit: a commit of nothing passes for a success.
SquashCommitAnyway(j) ==
  /\ Runs(j, "finish")
  /\ Succeeds(j)
  /\ UNCHANGED <<trees, origin, previews>>

\* git commit of what is staged, if anything is and nothing is unmerged.
SquashCommit(j) ==
  /\ Runs(j, "finish")
  /\ \/ /\ ~index["repo"].unmerged /\ index["repo"].staged # {}
        /\ ref' = [ref EXCEPT ![head] = @ \cup index["repo"].staged]
        /\ index' = [index EXCEPT !["repo"] = Clean]
        /\ Succeeds(j)
     \/ Fails(j) /\ UNCHANGED <<ref, index>>
  /\ UNCHANGED <<edited, head, origin, previews>>

\* Mutant of GetConflictedFiles: every failure is one without files.
GetNoFiles(j) == Runs(j, "ask") /\ Fails(j) /\ UNCHANGED <<trees, origin, previews>>

\* The merge failed: it is a conflict if the tree has unmerged files.
GetConflictedFiles(j) ==
  /\ Runs(j, "ask")
  /\ job' = [job EXCEPT ![j].at = "tell",
                        ![j].outcome = IF index[Tree(j)].unmerged THEN "conflict" ELSE "error"]
  /\ UNCHANGED <<trees, origin, previews>>

-----------------------------------------------------------------------------
Push(j) ==
  /\ Runs(j, "push")
  /\ \/ /\ HasOrigin /\ published' = [published EXCEPT ![job[j].branch] = ref[job[j].branch]]
        /\ IF job[j].kind = "pr" THEN Goes(j, "gh") ELSE Succeeds(j)
     \/ Fails(j) /\ UNCHANGED published
  /\ UNCHANGED <<trees, remote, tracking, tracked, previews>>

CreatePR(j) == Runs(j, "gh") /\ (Succeeds(j) \/ Fails(j)) /\ UNCHANGED <<trees, origin, previews>>

\* The Result with Done, after which the channel is closed.
Tell(j) ==
  /\ Runs(j, "tell")
  /\ job' = [job EXCEPT ![j].told = job[j].outcome, ![j].at = "end"]
  /\ UNCHANGED <<trees, origin, previews>>

JobStep(j) ==
  \/ EnsureCommitted(j) \/ CommitAll(j) \/ Checkout(j) \/ Fetch(j) \/ Compare(j) \/ Pull(j)
  \/ Merge(j) \/ Squash(j) \/ SquashCommit(j) \/ GetConflictedFiles(j)
  \/ Push(j) \/ CreatePR(j) \/ Tell(j)

-----------------------------------------------------------------------------
(* The user, and others at the remote.                                     *)

\* A conflict the user has been told of, in tree t.
ToldOfConflict(t) == \E j \in Jobs : job[j].told = "conflict" /\ Tree(j) = t

\* Mutant of AbortMerge: the merge is forgotten and its files are left as they are.
AbortMergeOnly(t) ==
  /\ ToldOfConflict(t) /\ index[t].merging
  /\ index' = [index EXCEPT ![t].merging = FALSE]
  /\ UNCHANGED <<ref, edited, head, origin, job, previews>>

\* Mutant of AbortMerge: a `git reset --merge', which asks for no merge.
ResetMerge(t) ==
  /\ ToldOfConflict(t)
  /\ index' = [index EXCEPT ![t] = Clean]
  /\ UNCHANGED <<ref, edited, head, origin, job, previews>>

\* git merge --abort, which fails without a MERGE_HEAD.
AbortMerge(t) ==
  /\ ToldOfConflict(t) /\ index[t].merging
  /\ index' = [index EXCEPT ![t] = Clean]
  /\ UNCHANGED <<ref, edited, head, origin, job, previews>>

CommitConflictResolution(t) ==
  /\ ToldOfConflict(t) /\ index[t] # Clean
  /\ CommitsAll(t)
  /\ UNCHANGED <<head, origin, job, previews>>

InCheckout == {"fetch", "compare", "pull", "merge", "finish"}

\* CheckoutBranchIgnoreWorktrees in the main repository.
CheckoutBranch(b) ==
  /\ previews < MaxPreviews /\ b # head /\ MayCheckout(b)
  /\ head' = b /\ previews' = previews + 1
  /\ job' = [j \in Jobs |-> IF job[j].kind \in {"merge", "squash"} /\ job[j].at \in InCheckout
                            THEN [job[j] EXCEPT !.moved = TRUE] ELSE job[j]]
  /\ UNCHANGED <<ref, edited, index, origin>>

\* The session is deleted: its context is cancelled and its channel dropped.
Leave(j) ==
  /\ job[j].at \notin {"none", "end"} /\ job[j].heard
  /\ job' = [job EXCEPT ![j].heard = FALSE]
  /\ UNCHANGED <<trees, origin, previews>>

OthersPush ==
  /\ HasOrigin /\ \E c \in Pushed \ remote : remote' = remote \cup {c}
  /\ UNCHANGED <<trees, tracking, tracked, published, job, previews>>

Next ==
  \/ \E j \in Jobs : JobStep(j) \/ Leave(j)
  \/ \E j \in Jobs, kind \in Kinds, b \in Branches, into \in Refs : Start(j, kind, b, into)
  \/ \E t \in Trees : AbortMerge(t) \/ CommitConflictResolution(t)
  \/ \E b \in Refs : CheckoutBranch(b)
  \/ OthersPush

Spec == Init /\ [][Next]_vars

-----------------------------------------------------------------------------
(* Properties.                                                             *)

Ats == {"none", "status", "commit", "checkout", "fetch", "compare", "pull", "merge", "ask",
        "finish", "push", "gh", "tell", "end"}
Outcomes == {"none", "success", "error", "conflict"}
JobRecords ==
  [kind : Kinds \cup {"none"}, branch : Refs, into : Refs, at : Ats, outcome : Outcomes,
   heard : BOOLEAN, told : Outcomes, saw : SUBSET Changes, moved : BOOLEAN]

\* Types.  Only a squash leaves unmerged files without a MERGE_HEAD, and it works in
\* the main repository alone.
TypeOK ==
  /\ ref \in [Refs -> SUBSET Changes] /\ edited \subseteq Branches /\ head \in Refs
  /\ index \in [Trees -> [staged : SUBSET Changes, unmerged : BOOLEAN, merging : BOOLEAN]]
  /\ \A t \in Branches : index[t].unmerged => index[t].merging
  /\ tracking \subseteq remote /\ remote \subseteq Pushed /\ tracked \in BOOLEAN
  /\ published \in [Branches -> SUBSET Changes] /\ \A b \in Branches : published[b] \subseteq ref[b]
  /\ job \in [Jobs -> JobRecords] /\ previews \in 0..MaxPreviews

\* A job that says it has merged (squashed, pushed) has put the change of its session
\* where it says, whatever other jobs and the user did in between, unless the preview
\* has moved the main repository to another branch under it.
SuccessMeansMerged ==
  \A j \in Jobs : job[j].told = "success" =>
    CASE job[j].kind \in {"push", "pr"} -> job[j].branch \in published[job[j].branch]
      [] job[j].kind = "parent" -> job[j].branch \in ref[job[j].into]
      [] OTHER -> job[j].moved \/ job[j].branch \in ref["main"]

\* merge.go:63 "This is dangerous": a job that has fetched and compared goes on to the
\* merge only with a default branch that has all of what it fetched, though others
\* merge into that branch between the comparison, the pull and the merge.
MergesOnSyncedMain ==
  \A j \in Jobs : job[j].at \in {"merge", "ask", "finish"} /\ ~job[j].moved =>
    job[j].saw \subseteq ref["main"]

\* What a squash has staged is still there, or committed by another, when the job comes
\* to commit it: no other job of the repository, and no abort of another merge, drops it.
SquashIsNotLost ==
  \A j \in Jobs : job[j].at = "finish" /\ ~job[j].moved =>
    job[j].branch \in index["repo"].staged \cup ref["main"]

\* A tree that is left in conflict has a job that tells of it, or whose consumer has gone:
\* nobody finds conflict markers that no operation has reported.
ConflictIsReported ==
  \A t \in Trees : index[t].unmerged =>
    \E j \in Jobs : /\ Tree(j) = t
                    /\ \/ job[j].at = "ask" \/ job[j].outcome = "conflict" \/ ~job[j].heard

\* A consumer reads until a Result with Done (merge.go:29): no job closes its channel,
\* and ends, without one.
EndsWithResult ==
  \A j \in Jobs : job[j].at = "end" => job[j].told # "none"

\* merge.go:141 "This is a merge conflict - include the conflicted files in the result":
\* not of another.  The unmerged files that a failed merge finds may be those of a merge
\* that was in conflict before, so that one tree has two jobs that report its conflict.
ConflictIsOwn ==
  \A i, j \in Jobs : i # j /\ job[i].outcome = "conflict" /\ job[j].outcome = "conflict"
                     /\ Tree(i) = Tree(j) => ~index[Tree(i)].unmerged
=============================================================================
