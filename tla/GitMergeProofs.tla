---------------------------- MODULE GitMergeProofs ----------------------------
(***************************************************************************)
(* Merging, for any number of operations, branches, changes of others and  *)
(* previews: the inductive invariant of GitMerge and the theorems that     *)
(* follow from it.                                                         *)
(***************************************************************************)
EXTENDS GitMerge, TLAPS

InRepo == {"merge", "squash"}
Ended == {"tell", "end"}
BeforeSync == {"none", "status", "commit", "checkout", "fetch"}
BeforeCommit == {"none", "status", "commit"}

\* The operations that have a command, and where a job can be, by its kind, and what it
\* has said by then.
Fits(kind, at) ==
  /\ at \in {"checkout", "fetch", "compare", "pull"} => kind \in InRepo
  /\ at \in {"merge", "ask"} => kind \in InRepo \cup {"parent"}
  /\ at = "finish" => kind = "squash"
  /\ at \in {"push", "gh"} => kind \in {"push", "pr"}

Shape(j) ==
  /\ job[j].at # "none" => job[j].kind \in Kinds /\ job[j].branch \in Branches
  /\ job[j].kind = "parent" => job[j].into \in Branches
  /\ Fits(job[j].kind, job[j].at)
  /\ job[j].at \in BeforeSync \/ job[j].kind \notin InRepo => job[j].saw = {}
  /\ (job[j].outcome # "none") = (job[j].at \in Ended)
  /\ job[j].told = IF job[j].at = "end" THEN job[j].outcome ELSE "none"

\* Nothing is lost of what a session has made: it is there to be committed, or
\* in its branch; a job past the commit works with a branch that has it.
NothingIsLost == \A b \in Branches : b \in edited \/ b \in ref[b]
Committed(j) ==
  /\ job[j].at \notin BeforeCommit \cup Ended => job[j].branch \in ref[job[j].branch]
  /\ job[j].at = "gh" => job[j].branch \in published[job[j].branch]

\* A job that compares has fetched; one that merges has synced.
Synced(j) ==
  /\ job[j].at \in {"compare", "pull"} => job[j].saw \subseteq tracking
  /\ job[j].at \in {"merge", "ask", "finish"} /\ ~job[j].moved => job[j].saw \subseteq ref["main"]

\* Only the preview takes the main repository to another branch, and says so.
OnMain(j) ==
  job[j].kind \in InRepo /\ job[j].at \in InCheckout /\ ~job[j].moved => head = "main"

\* The change of a squash is staged, with no merge in the middle, or committed
\* already: a merge in conflict starts only from an empty index.
StagedOrMerged(j) ==
  job[j].at = "finish" /\ ~job[j].moved =>
    \/ job[j].branch \in ref["main"]
    \/ job[j].branch \in index["repo"].staged /\ ~Midway("repo")

\* What a success says, from the moment it is about to be told.
Done(j) ==
  CASE job[j].kind \in {"push", "pr"} -> job[j].branch \in published[job[j].branch]
    [] job[j].kind = "parent" -> job[j].branch \in ref[job[j].into]
    [] OTHER -> job[j].moved \/ job[j].branch \in ref["main"]
Delivered(j) == job[j].outcome = "success" => Done(j)

JobInv(j) ==
  Shape(j) /\ Committed(j) /\ Synced(j) /\ OnMain(j) /\ StagedOrMerged(j) /\ Delivered(j)

IInv == TypeOK /\ NothingIsLost /\ ConflictIsReported /\ \A j \in Jobs : JobInv(j)

\* A job that tells, or will tell, of a conflict in tree t.
Reports(j, t) ==
  Tree(j) = t /\ (job[j].at = "ask" \/ job[j].outcome = "conflict" \/ ~job[j].heard)

\* Branches, what is published and what is fetched only ever grow.
Grows ==
  /\ \A r \in Refs : ref[r] \subseteq ref'[r]
  /\ \A b \in Branches : published[b] \subseteq published'[b]
  /\ tracking \subseteq tracking'

-----------------------------------------------------------------------------
(* What a step leaves of the jobs it does not move.                        *)

\* A job that does not move keeps what is said of it and of things that grow.
LEMMA StillJob ==
  ASSUME IInv, NEW j \in Jobs, job'[j] = job[j], Grows
  PROVE  Shape(j)' /\ Committed(j)' /\ Synced(j)' /\ Delivered(j)'
<1> USE DEF IInv, JobInv, Grows
<1>0. job[j] \in JobRecords
  BY DEF TypeOK
<1>1. Shape(j)'
  BY DEF Shape, Fits
<1>2. Committed(j)'
  BY <1>0 DEF Committed, JobRecords, Shape, BeforeCommit, Ended
<1>3. Synced(j)'
  BY DEF Synced, Refs
<1>4. Delivered(j)'
  <2>1. CASE job[j].kind \in {"push", "pr"} /\ job[j].outcome = "success"
    <3>1. job[j].branch \in Branches
      BY <2>1 DEF Shape, Ended
    <3> QED
      BY <2>1, <3>1 DEF Delivered, Done
  <2>2. CASE job[j].kind \notin {"push", "pr"} \/ job[j].outcome # "success"
    BY <2>2, <1>0 DEF Delivered, Done, JobRecords, Refs
  <2> QED
    BY <2>1, <2>2
<1> QED
  BY <1>1, <1>2, <1>3, <1>4

\* Nor does it matter to it what happens elsewhere than in the main repository.
LEMMA StillRepo ==
  ASSUME IInv, NEW j \in Jobs, job'[j] = job[j], Grows,
         head' = head, index'["repo"] = index["repo"]
  PROVE  JobInv(j)'
<1>1. OnMain(j)'
  BY DEF IInv, JobInv, OnMain
<1>2. StagedOrMerged(j)'
  BY DEF IInv, JobInv, StagedOrMerged, Midway, Grows, Refs
<1> QED
  BY <1>1, <1>2, StillJob DEF JobInv

\* A conflict stays reported as long as the jobs that report it do.
LEMMA StillReported ==
  ASSUME IInv,
         \A t \in Trees : index'[t].unmerged => index[t].unmerged,
         \A j \in Jobs, t \in Trees : index'[t].unmerged /\ Reports(j, t) => Reports(j, t)'
  PROVE  ConflictIsReported'
BY DEF IInv, ConflictIsReported, Reports

\* Branches that grow lose nothing.
LEMMA StillThere ==
  ASSUME IInv, Grows, edited' = edited
  PROVE  NothingIsLost'
BY DEF IInv, NothingIsLost, Grows, Refs

\* A step of job j that leaves the trees alone.
LEMMA OneJob ==
  ASSUME IInv, NEW j \in Jobs, TypeOK', Grows, UNCHANGED trees,
         \A i \in Jobs \ {j} : job'[i] = job[i],
         JobInv(j)',
         \A t \in Trees : index[t].unmerged /\ Reports(j, t) => Reports(j, t)'
  PROVE  IInv'
<1>1. ASSUME NEW i \in Jobs \ {j} PROVE JobInv(i)'
  BY <1>1, StillRepo DEF trees
<1>2. NothingIsLost'
  BY StillThere DEF trees
<1>3. ConflictIsReported'
  <2>1. ASSUME NEW i \in Jobs \ {j}, NEW t \in Trees, Reports(i, t) PROVE Reports(i, t)'
    BY <2>1 DEF Reports, Tree
  <2> QED
    BY <2>1, StillReported DEF trees
<1> QED
  BY <1>1, <1>2, <1>3 DEF IInv

\* What holds of one job.
LEMMA OfJob ==
  ASSUME IInv, NEW j \in Jobs
  PROVE  /\ TypeOK /\ NothingIsLost /\ job \in [Jobs -> JobRecords] /\ job[j] \in JobRecords
         /\ Shape(j) /\ Committed(j) /\ Synced(j) /\ OnMain(j) /\ StagedOrMerged(j) /\ Delivered(j)
BY DEF IInv, TypeOK, JobInv

-----------------------------------------------------------------------------
(* What a step leaves of the job that it moves: the command, the outcome   *)
(* and no more.                                                            *)

Advances(j, at, outcome) ==
  /\ job' \in [Jobs -> JobRecords]
  /\ \A i \in Jobs \ {j} : job'[i] = job[i]
  /\ job'[j].at = at /\ job'[j].outcome = outcome
  /\ job'[j].kind = job[j].kind /\ job'[j].branch = job[j].branch /\ job'[j].into = job[j].into
  /\ job'[j].heard = job[j].heard /\ job'[j].told = job[j].told
  /\ job'[j].saw = job[j].saw /\ job'[j].moved = job[j].moved

LEMMA GoesAdvances ==
  ASSUME job \in [Jobs -> JobRecords], NEW j \in Jobs, NEW at \in Ats, Goes(j, at)
  PROVE  Advances(j, at, job[j].outcome)
<1>1. job[j] \in JobRecords
  OBVIOUS
<1>2. job'[j] = [job[j] EXCEPT !.at = at]
  BY DEF Goes
<1>3. job'[j] \in JobRecords
  BY <1>1, <1>2 DEF JobRecords
<1>4. \A i \in Jobs \ {j} : job'[i] = job[i]
  BY DEF Goes
<1>5. job' \in [Jobs -> JobRecords]
  BY <1>3 DEF Goes
<1> QED
  BY <1>1, <1>2, <1>4, <1>5 DEF Advances, JobRecords

LEMMA FailsAdvances ==
  ASSUME job \in [Jobs -> JobRecords], NEW j \in Jobs, Fails(j)
  PROVE  Advances(j, "tell", "error")
<1>1. job[j] \in JobRecords
  OBVIOUS
<1>2. job'[j] = [job[j] EXCEPT !.at = "tell", !.outcome = "error"]
  BY DEF Fails
<1>3. job'[j] \in JobRecords
  BY <1>1, <1>2 DEF JobRecords, Ats, Outcomes
<1>4. \A i \in Jobs \ {j} : job'[i] = job[i]
  BY DEF Fails
<1>5. job' \in [Jobs -> JobRecords]
  BY <1>3 DEF Fails
<1> QED
  BY <1>1, <1>2, <1>4, <1>5 DEF Advances, JobRecords

LEMMA SucceedsAdvances ==
  ASSUME job \in [Jobs -> JobRecords], NEW j \in Jobs, Succeeds(j)
  PROVE  Advances(j, "tell", "success")
<1>1. job[j] \in JobRecords
  OBVIOUS
<1>2. job'[j] = [job[j] EXCEPT !.at = "tell", !.outcome = "success"]
  BY DEF Succeeds
<1>3. job'[j] \in JobRecords
  BY <1>1, <1>2 DEF JobRecords, Ats, Outcomes
<1>4. \A i \in Jobs \ {j} : job'[i] = job[i]
  BY DEF Succeeds
<1>5. job' \in [Jobs -> JobRecords]
  BY <1>3 DEF Succeeds
<1> QED
  BY <1>1, <1>2, <1>4, <1>5 DEF Advances, JobRecords

\* A job at a command, before it may have a conflict to report.
Working == Ats \ {"none", "ask", "tell", "end"}

LEMMA NoReport ==
  ASSUME IInv, NEW j \in Jobs, NEW at \in Working, Runs(j, at)
  PROVE  \A t \in Trees : ~Reports(j, t)
<1>1. Shape(j) /\ job[j].at = at /\ job[j].heard
  BY OfJob DEF Runs
<1>2. job[j].outcome = "none"
  BY <1>1 DEF Shape, Ended, Working
<1> QED
  BY <1>1, <1>2 DEF Reports, Working

\* The other jobs report what they did.
LEMMA OthersReport ==
  ASSUME IInv, NEW j \in Jobs, \A i \in Jobs \ {j} : job'[i] = job[i],
         \A t \in Trees : index'[t].unmerged => index[t].unmerged,
         \A t \in Trees : Reports(j, t) => Reports(j, t)'
  PROVE  ConflictIsReported'
<1>1. ASSUME NEW i \in Jobs, NEW t \in Trees, Reports(i, t) PROVE Reports(i, t)'
  BY <1>1 DEF Reports, Tree
<1> QED
  BY <1>1, StillReported

\* A failure disturbs nothing.
LEMMA FailsInv ==
  ASSUME IInv, NEW j \in Jobs, NEW at \in Working, Runs(j, at), Fails(j)
  PROVE  Advances(j, "tell", "error") /\ JobInv(j)'
<1>0. /\ job[j] \in JobRecords /\ Shape(j) /\ job[j].at = at
      /\ Advances(j, "tell", "error")
  BY OfJob, FailsAdvances DEF Runs
<1>1. Shape(j)'
  BY <1>0 DEF Advances, Shape, Fits, Ended, BeforeSync, Working
<1>2. Committed(j)' /\ Synced(j)' /\ OnMain(j)' /\ StagedOrMerged(j)' /\ Delivered(j)'
  BY <1>0 DEF Advances, Committed, Synced, OnMain, InCheckout, StagedOrMerged, Delivered, Ended
<1> QED
  BY <1>0, <1>1, <1>2 DEF JobInv

\* A success keeps the invariant if it is one.
LEMMA SucceedsInv ==
  ASSUME IInv, NEW j \in Jobs, NEW at \in Working, Runs(j, at), Succeeds(j), Done(j)'
  PROVE  Advances(j, "tell", "success") /\ JobInv(j)'
<1>0. /\ job[j] \in JobRecords /\ Shape(j) /\ job[j].at = at
      /\ Advances(j, "tell", "success")
  BY OfJob, SucceedsAdvances DEF Runs
<1>1. Shape(j)'
  BY <1>0 DEF Advances, Shape, Fits, Ended, BeforeSync, Working
<1>2. Committed(j)' /\ Synced(j)' /\ OnMain(j)' /\ StagedOrMerged(j)' /\ Delivered(j)'
  BY <1>0 DEF Advances, Committed, Synced, OnMain, InCheckout, StagedOrMerged, Delivered, Ended
<1> QED
  BY <1>0, <1>1, <1>2 DEF JobInv

\* Going to a command that the operation has keeps the shape.
LEMMA GoesShape ==
  ASSUME IInv, NEW j \in Jobs, NEW at \in Working, NEW to \in Ats \ {"none", "tell", "end"},
         Runs(j, at), Goes(j, to), Fits(job[j].kind, to), to \in BeforeSync => at \in BeforeSync
  PROVE  /\ Advances(j, to, job[j].outcome) /\ job[j].at = at /\ job[j].outcome = "none"
         /\ Shape(j)' /\ Delivered(j)'
<1>0. /\ job[j] \in JobRecords /\ Shape(j) /\ job[j].at = at
      /\ Advances(j, to, job[j].outcome)
  BY OfJob, GoesAdvances DEF Runs
<1>1. job[j].outcome = "none"
  BY <1>0 DEF Shape, Ended, Working
<1>2. Shape(j)'
  BY <1>0, <1>1 DEF Advances, Shape, Ended, BeforeSync, Working
<1>3. Delivered(j)'
  BY <1>0, <1>1 DEF Advances, Delivered
<1> QED
  BY <1>0, <1>1, <1>2, <1>3

\* With the session's changes committed, the job goes on.
LEMMA CommittedGoesOn ==
  ASSUME IInv, NEW j \in Jobs, NEW at \in BeforeCommit \ {"none"}, Runs(j, at),
         Goes(j, AfterCommit(j)), job[j].branch \in ref'[job[j].branch]
  PROVE  Advances(j, AfterCommit(j), job[j].outcome) /\ JobInv(j)'
<1> DEFINE to == AfterCommit(j)
<1>0. job[j] \in JobRecords /\ Shape(j) /\ job[j].kind \in Kinds /\ job[j].at = at
  BY OfJob DEF Runs, Shape, BeforeCommit
<1>1. /\ to \in {"checkout", "merge", "push"} /\ (to = "merge" => job[j].kind = "parent")
      /\ Fits(job[j].kind, to)
  BY <1>0, GitAssumption DEF AfterCommit, Fits, InRepo
<1>2. at \in Working /\ to \in Ats \ {"none", "tell", "end"} /\ (to \in BeforeSync => at \in BeforeSync)
  BY <1>1 DEF Working, Ats, BeforeSync, BeforeCommit
<1>3. Advances(j, to, job[j].outcome) /\ Shape(j)' /\ Delivered(j)'
  BY <1>1, <1>2, GoesShape
<1>4. Committed(j)'
  BY <1>1, <1>3 DEF Advances, Committed
<1>5. Synced(j)' /\ OnMain(j)' /\ StagedOrMerged(j)'
  BY <1>0, <1>1, <1>3 DEF Advances, Synced, OnMain, InCheckout, InRepo, StagedOrMerged, Shape
<1> QED
  BY <1>3, <1>4, <1>5 DEF JobInv

\* From the fetch to the merge, on the default branch.
LEMMA SyncGoesOn ==
  ASSUME IInv, NEW j \in Jobs, NEW at \in {"checkout", "fetch", "compare", "pull"},
         NEW to \in {"fetch", "compare", "pull", "merge"}, Runs(j, at), Goes(j, to),
         to = "fetch" => at = "checkout", Grows, head' = "main" \/ (head' = head /\ at # "checkout"),
         \/ job[j].saw \subseteq IF to = "merge" THEN ref'["main"] ELSE tracking'
         \/ job[j].saw = {} \/ (job[j].moved /\ to = "merge")
  PROVE  Advances(j, to, job[j].outcome) /\ JobInv(j)'
<1>0. /\ job[j] \in JobRecords /\ Shape(j) /\ Committed(j) /\ OnMain(j) /\ job[j].at = at
      /\ job[j].kind \in InRepo
  BY OfJob DEF Runs, Shape, Fits
<1>1. /\ at \in Working /\ to \in Ats \ {"none", "tell", "end"} /\ (to \in BeforeSync => at \in BeforeSync)
      /\ Fits(job[j].kind, to)
  BY <1>0 DEF Working, Ats, BeforeSync, Fits
<1>2. Advances(j, to, job[j].outcome) /\ Shape(j)' /\ Delivered(j)'
  BY <1>1, GoesShape
<1>3. Committed(j)'
  BY <1>0, <1>2 DEF Advances, Committed, BeforeCommit, Ended, Grows, Shape, Refs
<1>4. Synced(j)'
  BY <1>2 DEF Advances, Synced
<1>5. OnMain(j)' /\ StagedOrMerged(j)'
  BY <1>0, <1>2 DEF Advances, OnMain, InCheckout, StagedOrMerged
<1> QED
  BY <1>2, <1>3, <1>4, <1>5 DEF JobInv

\* A merge that failed: the job asks why, which reports what it finds.
LEMMA AsksInv ==
  ASSUME IInv, NEW j \in Jobs, Runs(j, "merge"), Goes(j, "ask"), Grows
  PROVE  /\ Advances(j, "ask", job[j].outcome) /\ JobInv(j)'
         /\ \A t \in Trees : Tree(j) = t => Reports(j, t)'
<1>0. /\ job[j] \in JobRecords /\ Shape(j) /\ Committed(j) /\ Synced(j) /\ job[j].at = "merge"
  BY OfJob DEF Runs
<1>1. "merge" \in Working /\ "ask" \in Ats \ {"none", "tell", "end"} /\ "ask" \notin BeforeSync
  BY DEF Working, Ats, BeforeSync
<1>2. Fits(job[j].kind, "ask")
  BY <1>0 DEF Shape, Fits
<1>3. Advances(j, "ask", job[j].outcome) /\ Shape(j)' /\ Delivered(j)'
  BY <1>1, <1>2, GoesShape
<1>4. Committed(j)'
  BY <1>0, <1>3 DEF Advances, Committed, BeforeCommit, Ended, Grows, Shape, Refs
<1>5. Synced(j)' /\ OnMain(j)' /\ StagedOrMerged(j)'
  BY <1>0, <1>3 DEF Advances, Synced, OnMain, InCheckout, StagedOrMerged, Grows, Refs
<1>6. \A t \in Trees : Tree(j) = t => Reports(j, t)'
  BY <1>3 DEF Advances, Reports, Tree
<1> QED
  BY <1>3, <1>4, <1>5, <1>6 DEF JobInv
-----------------------------------------------------------------------------
(* Steps of a job that leave the trees alone.                              *)

LEMMA StartInv ==
  ASSUME IInv, NEW j \in Jobs,
         NEW kind \in Kinds, NEW b \in Branches, NEW into \in Refs, Start(j, kind, b, into)
  PROVE  IInv'
<1> DEFINE new == [NoJob EXCEPT !.kind = kind, !.branch = b, !.into = into, !.at = "status"]
<1>0. /\ TypeOK /\ job \in [Jobs -> JobRecords] /\ job[j] = NoJob
      /\ job' = [job EXCEPT ![j] = new] /\ UNCHANGED <<trees, origin, previews>>
      /\ b \in Refs /\ (kind = "parent" => into \in Branches)
  BY OfJob DEF Start, Refs
<1>1. /\ job'[j].kind = kind /\ job'[j].branch = b /\ job'[j].into = into /\ job'[j].at = "status"
      /\ job'[j].outcome = "none" /\ job'[j].told = "none" /\ job'[j].saw = {} /\ new \in JobRecords
  BY <1>0 DEF NoJob, JobRecords, Ats, Outcomes
<1>2. job' \in [Jobs -> JobRecords] /\ \A i \in Jobs \ {j} : job'[i] = job[i]
  BY <1>0, <1>1
<1>3. TypeOK' /\ Grows
  BY <1>0, <1>2 DEF TypeOK, trees, origin, Grows
<1>4. JobInv(j)'
  BY <1>0, <1>1 DEF JobInv, Shape, Fits, Ended, BeforeSync, InRepo, Committed, BeforeCommit,
                    Synced, OnMain, InCheckout, StagedOrMerged, Delivered
<1>5. \A t \in Trees : ~Reports(j, t)
  BY <1>0 DEF Reports, NoJob
<1> QED
  BY <1>0, <1>2, <1>3, <1>4, <1>5, OneJob

LEMMA EnsureCommittedInv ==
  ASSUME IInv, NEW j \in Jobs, EnsureCommitted(j)
  PROVE  IInv'
<1>0. /\ TypeOK /\ NothingIsLost /\ job[j] \in JobRecords /\ Shape(j) /\ job[j].at = "status"
      /\ Runs(j, "status") /\ "status" \in Working /\ UNCHANGED <<trees, origin, previews>>
  BY OfJob DEF EnsureCommitted, Runs, Working, Ats
<1>1. \E at \in Ats, outcome \in Outcomes : Advances(j, at, outcome) /\ JobInv(j)'
  <2>1. CASE Goes(j, "commit") /\ HasChanges(job[j].branch)
    <3>1. Fits(job[j].kind, "commit") /\ "commit" \in Ats \ {"none", "tell", "end"}
      BY DEF Fits, Ats
    <3>2. Advances(j, "commit", job[j].outcome) /\ Shape(j)' /\ Delivered(j)'
      BY <1>0, <2>1, <3>1, GoesShape DEF BeforeSync
    <3>3. Committed(j)' /\ Synced(j)' /\ OnMain(j)' /\ StagedOrMerged(j)'
      BY <3>2 DEF Advances, Committed, BeforeCommit, Synced, OnMain, InCheckout, StagedOrMerged
    <3> QED
      BY <1>0, <3>1, <3>2, <3>3 DEF JobInv, JobRecords
  <2>2. CASE Goes(j, AfterCommit(j)) /\ ~HasChanges(job[j].branch)
    <3>1. job[j].branch \in ref'[job[j].branch]
      BY <1>0, <2>2 DEF HasChanges, NothingIsLost, Shape, trees
    <3>2. Advances(j, AfterCommit(j), job[j].outcome) /\ JobInv(j)'
      BY <1>0, <2>2, <3>1, CommittedGoesOn DEF BeforeCommit
    <3> QED
      BY <1>0, <3>2 DEF AfterCommit, Ats, JobRecords
  <2>3. CASE Fails(j)
    BY <1>0, <2>3, FailsInv DEF Ats, Outcomes
  <2> QED
    BY <2>1, <2>2, <2>3 DEF EnsureCommitted
<1>2. TypeOK'
  BY <1>0, <1>1 DEF Advances, TypeOK, trees, origin
<1>3. Grows /\ \A t \in Trees : ~Reports(j, t)
  BY <1>0, NoReport DEF Grows, trees, origin
<1> QED
  BY <1>0, <1>1, <1>2, <1>3, OneJob DEF Advances, trees

LEMMA FetchInv ==
  ASSUME IInv, NEW j \in Jobs, Fetch(j)
  PROVE  IInv'
<1>0. /\ TypeOK /\ job[j] \in JobRecords /\ Shape(j) /\ Committed(j) /\ OnMain(j)
      /\ job[j].at = "fetch" /\ job[j].saw = {} /\ job[j].kind \in InRepo
      /\ Runs(j, "fetch") /\ "fetch" \in Working /\ UNCHANGED <<trees, remote, published, previews>>
  BY OfJob DEF Fetch, Runs, Working, Ats, Shape, Fits, BeforeSync
<1>1. Grows
  BY <1>0 DEF Grows, Fetch, TypeOK, trees
<1>2. /\ job' \in [Jobs -> JobRecords] /\ \A i \in Jobs \ {j} : job'[i] = job[i]
      /\ JobInv(j)'
  <2>1. CASE Goes(j, "merge")
    BY <1>0, <1>1, <2>1, SyncGoesOn DEF Advances, trees
  <2>2. CASE Fails(j)
    BY <1>0, <2>2, FailsInv DEF Advances
  <2>3. CASE job' = [job EXCEPT ![j].at = "compare", ![j].saw = remote] /\ tracking' = remote
    <3>1. job \in [Jobs -> JobRecords] /\ job'[j] = [job[j] EXCEPT !.at = "compare", !.saw = remote]
      BY <2>3, OfJob
    <3>2. job'[j] \in JobRecords
      <4>1. "compare" \in Ats /\ remote \in SUBSET Changes
        BY <1>0 DEF Ats, TypeOK, Changes
      <4>2. job[j] \in JobRecords
        BY <1>0
      <4>3. [job[j] EXCEPT !.at = "compare", !.saw = remote] \in JobRecords
        BY <4>1, <4>2 DEF JobRecords
      <4> QED
        BY <3>1, <4>3
    <3>3. /\ job'[j].at = "compare" /\ job'[j].saw = remote
          /\ job'[j].kind = job[j].kind /\ job'[j].branch = job[j].branch /\ job'[j].into = job[j].into
          /\ job'[j].outcome = job[j].outcome /\ job'[j].told = job[j].told /\ job'[j].moved = job[j].moved
      BY <1>0, <3>1 DEF JobRecords
    <3>4. Shape(j)' /\ Delivered(j)'
      BY <1>0, <3>3 DEF Shape, Fits, Ended, BeforeSync, InRepo, Delivered
    <3>5. Committed(j)' /\ Synced(j)' /\ OnMain(j)' /\ StagedOrMerged(j)'
      BY <1>0, <2>3, <3>3 DEF Committed, BeforeCommit, Ended, Synced, OnMain, InCheckout,
                             StagedOrMerged, trees
    <3> QED
      BY <2>3, <3>1, <3>2, <3>4, <3>5 DEF JobInv
  <2> QED
    BY <2>1, <2>2, <2>3 DEF Fetch
<1>3. TypeOK'
  BY <1>0, <1>2 DEF TypeOK, Fetch, trees
<1>4. \A t \in Trees : ~Reports(j, t)
  BY <1>0, NoReport
<1> QED
  BY <1>0, <1>1, <1>2, <1>3, <1>4, OneJob DEF trees

LEMMA CompareInv ==
  ASSUME IInv, NEW j \in Jobs, Compare(j)
  PROVE  IInv'
<1>0. /\ TypeOK /\ job[j] \in JobRecords /\ Shape(j) /\ Committed(j) /\ OnMain(j) /\ Synced(j)
      /\ job[j].at = "compare" /\ job[j].saw \subseteq tracking
      /\ Runs(j, "compare") /\ "compare" \in Working /\ UNCHANGED <<trees, origin, previews>>
  BY OfJob DEF Compare, Runs, Working, Ats, Synced
<1>1. Grows
  BY <1>0 DEF Grows, trees, origin
<1>2. /\ job' \in [Jobs -> JobRecords] /\ \A i \in Jobs \ {j} : job'[i] = job[i]
      /\ JobInv(j)'
  <2>1. CASE Goes(j, "pull")
    BY <1>0, <1>1, <2>1, SyncGoesOn DEF Advances, trees, origin
  <2>2. CASE Goes(j, "merge") /\ Behind = {}
    <3>1. job[j].saw \subseteq ref'["main"]
      BY <1>0, <2>2 DEF Behind, trees
    <3> QED
      BY <1>0, <1>1, <2>2, <3>1, SyncGoesOn DEF Advances, trees
  <2>3. CASE Fails(j)
    BY <1>0, <2>3, FailsInv DEF Advances
  <2>4. CASE job' = [job EXCEPT ![j].at = "merge", ![j].saw = {}]
    <3>1. job \in [Jobs -> JobRecords] /\ job'[j] = [job[j] EXCEPT !.at = "merge", !.saw = {}]
      BY <2>4, OfJob
    <3>2. job'[j] \in JobRecords
      BY <1>0, <3>1 DEF JobRecords, Ats
    <3>3. /\ job'[j].at = "merge" /\ job'[j].saw = {}
          /\ job'[j].kind = job[j].kind /\ job'[j].branch = job[j].branch /\ job'[j].into = job[j].into
          /\ job'[j].outcome = job[j].outcome /\ job'[j].told = job[j].told /\ job'[j].moved = job[j].moved
      BY <1>0, <3>1 DEF JobRecords
    <3>4. Shape(j)' /\ Delivered(j)'
      BY <1>0, <3>3 DEF Shape, Fits, Ended, BeforeSync, InRepo, Delivered
    <3>5. Committed(j)' /\ Synced(j)' /\ OnMain(j)' /\ StagedOrMerged(j)'
      BY <1>0, <3>3 DEF Committed, BeforeCommit, Ended, Synced, OnMain, InCheckout,
                             StagedOrMerged, trees
    <3> QED
      BY <2>4, <3>1, <3>2, <3>4, <3>5 DEF JobInv
  <2> QED
    BY <2>1, <2>2, <2>3, <2>4 DEF Compare
<1>3. TypeOK'
  BY <1>0, <1>2 DEF TypeOK, trees, origin
<1>4. \A t \in Trees : ~Reports(j, t)
  BY <1>0, NoReport
<1> QED
  BY <1>0, <1>1, <1>2, <1>3, <1>4, OneJob DEF trees

LEMMA PushInv ==
  ASSUME IInv, NEW j \in Jobs, Push(j)
  PROVE  IInv'
<1> DEFINE b == job[j].branch
<1>0. /\ TypeOK /\ job[j] \in JobRecords /\ Shape(j) /\ job[j].at = "push"
      /\ b \in Branches /\ b \in Refs /\ b \in ref[b] /\ job[j].kind \in {"push", "pr"}
      /\ Runs(j, "push") /\ "push" \in Working /\ UNCHANGED <<trees, remote, tracking, tracked, previews>>
  BY OfJob DEF Push, Runs, Working, Ats, Shape, Fits, Committed, BeforeCommit, Ended, Refs
<1>1. Grows
  BY <1>0 DEF Grows, Push, TypeOK, trees
<1>2. /\ job' \in [Jobs -> JobRecords] /\ \A i \in Jobs \ {j} : job'[i] = job[i]
      /\ JobInv(j)'
  <2>1. CASE Fails(j)
    BY <1>0, <2>1, FailsInv DEF Advances
  <2>2. CASE published' = [published EXCEPT ![b] = ref[b]]
    <3>1. b \in published'[b]
      BY <1>0, <2>2 DEF TypeOK
    <3>2. CASE Succeeds(j)
      <4>1. Done(j)'
        BY <1>0, <3>1, <3>2, OfJob, SucceedsAdvances DEF Done, Advances
      <4> QED
        BY <1>0, <3>2, <4>1, SucceedsInv DEF Advances
    <3>3. CASE Goes(j, "gh")
      <4>1. Fits(job[j].kind, "gh") /\ "gh" \in Ats \ {"none", "tell", "end"} /\ "gh" \notin BeforeSync
        BY <1>0 DEF Fits, Ats, BeforeSync
      <4>2. Advances(j, "gh", job[j].outcome) /\ Shape(j)' /\ Delivered(j)'
        BY <1>0, <3>3, <4>1, GoesShape
      <4>3. Committed(j)' /\ Synced(j)' /\ OnMain(j)' /\ StagedOrMerged(j)'
        BY <1>0, <3>1, <4>2 DEF Advances, Committed, Synced, OnMain, InCheckout, StagedOrMerged, trees
      <4> QED
        BY <4>2, <4>3 DEF Advances, JobInv
    <3> QED
      BY <2>2, <3>2, <3>3, <2>1 DEF Push
  <2> QED
    BY <2>1, <2>2 DEF Push
<1>3. TypeOK'
  BY <1>0, <1>2 DEF TypeOK, Push, trees, Refs
<1>4. \A t \in Trees : ~Reports(j, t)
  BY <1>0, NoReport
<1> QED
  BY <1>0, <1>1, <1>2, <1>3, <1>4, OneJob DEF trees

LEMMA CreatePRInv ==
  ASSUME IInv, NEW j \in Jobs, CreatePR(j)
  PROVE  IInv'
<1>0. /\ TypeOK /\ Shape(j) /\ job[j].at = "gh" /\ job[j].kind \in {"push", "pr"}
      /\ job[j].branch \in published[job[j].branch]
      /\ Runs(j, "gh") /\ "gh" \in Working /\ UNCHANGED <<trees, origin, previews>>
  BY OfJob DEF CreatePR, Runs, Working, Ats, Shape, Fits, Committed
<1>1. Grows
  BY <1>0 DEF Grows, trees, origin
<1>2. /\ job' \in [Jobs -> JobRecords] /\ \A i \in Jobs \ {j} : job'[i] = job[i]
      /\ JobInv(j)'
  <2>1. CASE Fails(j)
    BY <1>0, <2>1, FailsInv DEF Advances
  <2>2. CASE Succeeds(j)
    <3>1. Done(j)'
      BY <1>0, <2>2, OfJob, SucceedsAdvances DEF Done, Advances, origin
    <3> QED
      BY <1>0, <2>2, <3>1, SucceedsInv DEF Advances
  <2> QED
    BY <2>1, <2>2 DEF CreatePR
<1>3. TypeOK'
  BY <1>0, <1>2 DEF TypeOK, trees, origin
<1>4. \A t \in Trees : ~Reports(j, t)
  BY <1>0, NoReport
<1> QED
  BY <1>0, <1>1, <1>2, <1>3, <1>4, OneJob DEF trees

LEMMA GetConflictedFilesInv ==
  ASSUME IInv, NEW j \in Jobs, GetConflictedFiles(j)
  PROVE  IInv'
<1>0. /\ TypeOK /\ job \in [Jobs -> JobRecords] /\ job[j] \in JobRecords
      /\ Shape(j) /\ Committed(j) /\ Synced(j) /\ OnMain(j) /\ StagedOrMerged(j) /\ Delivered(j)
      /\ job[j].at = "ask" /\ UNCHANGED <<trees, origin, previews>>
      /\ job' = [job EXCEPT ![j].at = "tell",
                             ![j].outcome = IF index[Tree(j)].unmerged THEN "conflict" ELSE "error"]
  BY OfJob DEF GetConflictedFiles, Runs
<1>1. /\ job'[j].kind = job[j].kind /\ job'[j].branch = job[j].branch /\ job'[j].into = job[j].into
      /\ job'[j].at = "tell" /\ job'[j].outcome = IF index[Tree(j)].unmerged THEN "conflict" ELSE "error"
      /\ job'[j].told = job[j].told /\ job'[j].heard = job[j].heard
      /\ job'[j].saw = job[j].saw /\ job'[j].moved = job[j].moved
      /\ job'[j] \in JobRecords
  BY <1>0 DEF JobRecords, Ats, Outcomes
<1>2. job' \in [Jobs -> JobRecords] /\ \A i \in Jobs \ {j} : job'[i] = job[i]
  BY <1>0, <1>1
<1>3. TypeOK' /\ Grows
  BY <1>0, <1>2 DEF TypeOK, trees, origin, Grows
<1>4. JobInv(j)'
  <2>1. Shape(j)'
    BY <1>0, <1>1 DEF Shape, Fits, Ended, BeforeSync
  <2>2. Committed(j)' /\ Synced(j)' /\ OnMain(j)' /\ StagedOrMerged(j)' /\ Delivered(j)'
    BY <1>0, <1>1 DEF Committed, Synced, OnMain, InCheckout, StagedOrMerged, Midway, Delivered, Done,
                      Ended, trees, origin
  <2> QED
    BY <2>1, <2>2 DEF JobInv
<1>5. \A t \in Trees : index[t].unmerged /\ Reports(j, t) => Reports(j, t)'
  BY <1>0, <1>1 DEF Reports, Tree, Shape, Ended
<1> QED
  BY <1>0, <1>2, <1>3, <1>4, <1>5, OneJob

LEMMA TellInv ==
  ASSUME IInv, NEW j \in Jobs, Tell(j)
  PROVE  IInv'
<1>0. /\ TypeOK /\ job \in [Jobs -> JobRecords] /\ job[j] \in JobRecords
      /\ Shape(j) /\ Committed(j) /\ Synced(j) /\ OnMain(j) /\ StagedOrMerged(j) /\ Delivered(j)
      /\ job[j].at = "tell" /\ UNCHANGED <<trees, origin, previews>>
      /\ job' = [job EXCEPT ![j].told = job[j].outcome, ![j].at = "end"]
  BY OfJob DEF Tell, Runs
<1>1. /\ job'[j].kind = job[j].kind /\ job'[j].branch = job[j].branch /\ job'[j].into = job[j].into
      /\ job'[j].at = "end" /\ job'[j].outcome = job[j].outcome
      /\ job'[j].told = job[j].outcome /\ job'[j].heard = job[j].heard
      /\ job'[j].saw = job[j].saw /\ job'[j].moved = job[j].moved
      /\ job'[j] \in JobRecords
  BY <1>0 DEF JobRecords, Ats, Outcomes
<1>2. job' \in [Jobs -> JobRecords] /\ \A i \in Jobs \ {j} : job'[i] = job[i]
  BY <1>0, <1>1
<1>3. TypeOK' /\ Grows
  BY <1>0, <1>2 DEF TypeOK, trees, origin, Grows
<1>4. JobInv(j)'
  <2>1. Shape(j)'
    BY <1>0, <1>1 DEF Shape, Fits, Ended, BeforeSync
  <2>2. Committed(j)' /\ Synced(j)' /\ OnMain(j)' /\ StagedOrMerged(j)' /\ Delivered(j)'
    BY <1>0, <1>1 DEF Committed, Synced, OnMain, InCheckout, StagedOrMerged, Midway, Delivered, Done,
                      Ended, trees, origin
  <2> QED
    BY <2>1, <2>2 DEF JobInv
<1>5. \A t \in Trees : index[t].unmerged /\ Reports(j, t) => Reports(j, t)'
  BY <1>0, <1>1 DEF Reports, Tree, Shape, Ended
<1> QED
  BY <1>0, <1>2, <1>3, <1>4, <1>5, OneJob

LEMMA LeaveInv ==
  ASSUME IInv, NEW j \in Jobs, Leave(j)
  PROVE  IInv'
<1>0. /\ TypeOK /\ job \in [Jobs -> JobRecords] /\ job[j] \in JobRecords
      /\ Shape(j) /\ Committed(j) /\ Synced(j) /\ OnMain(j) /\ StagedOrMerged(j) /\ Delivered(j)
      /\ job[j].at \notin {"none", "end"} /\ UNCHANGED <<trees, origin, previews>>
      /\ job' = [job EXCEPT ![j].heard = FALSE]
  BY OfJob DEF Leave, Runs
<1>1. /\ job'[j].kind = job[j].kind /\ job'[j].branch = job[j].branch /\ job'[j].into = job[j].into
      /\ job'[j].at = job[j].at /\ job'[j].outcome = job[j].outcome
      /\ job'[j].told = job[j].told /\ job'[j].heard = FALSE
      /\ job'[j].saw = job[j].saw /\ job'[j].moved = job[j].moved
      /\ job'[j] \in JobRecords
  BY <1>0 DEF JobRecords, Ats, Outcomes
<1>2. job' \in [Jobs -> JobRecords] /\ \A i \in Jobs \ {j} : job'[i] = job[i]
  BY <1>0, <1>1
<1>3. TypeOK' /\ Grows
  BY <1>0, <1>2 DEF TypeOK, trees, origin, Grows
<1>4. JobInv(j)'
  <2>1. Shape(j)'
    BY <1>0, <1>1 DEF Shape, Fits, Ended, BeforeSync
  <2>2. Committed(j)' /\ Synced(j)' /\ OnMain(j)' /\ StagedOrMerged(j)' /\ Delivered(j)'
    BY <1>0, <1>1 DEF Committed, Synced, OnMain, InCheckout, StagedOrMerged, Midway, Delivered, Done,
                      Ended, trees, origin
  <2> QED
    BY <2>1, <2>2 DEF JobInv
<1>5. \A t \in Trees : index[t].unmerged /\ Reports(j, t) => Reports(j, t)'
  BY <1>0, <1>1 DEF Reports, Tree, Shape, Ended
<1> QED
  BY <1>0, <1>2, <1>3, <1>4, <1>5, OneJob

-----------------------------------------------------------------------------
(* Steps that change a tree or a branch.                                   *)

LEMMA CommitAllInv ==
  ASSUME IInv, NEW j \in Jobs, CommitAll(j)
  PROVE  IInv'
<1> DEFINE b == job[j].branch
<1>0. /\ TypeOK /\ NothingIsLost /\ job[j] \in JobRecords /\ Shape(j) /\ job[j].at = "commit"
      /\ b \in Branches /\ b \in Refs /\ b \in Trees /\ b # "repo"
      /\ Runs(j, "commit") /\ "commit" \in Working /\ UNCHANGED <<head, origin, previews>>
  BY OfJob, GitAssumption DEF CommitAll, Runs, Working, Ats, Shape, Refs, Trees
<1>1. /\ Grows /\ NothingIsLost' /\ index'["repo"] = index["repo"]
      /\ \A t \in Trees : index'[t].unmerged => index[t].unmerged
  <2>1. CASE UNCHANGED <<ref, edited, index>>
    BY <1>0, <2>1 DEF Grows, origin, NothingIsLost
  <2>2. CASE CommitsAll(b)
    <3>1. \A r \in Refs : ref'[r] = IF r = b THEN ref[b] \cup index[b].staged \cup ({b} \cap edited)
                                    ELSE ref[r]
      BY <1>0, <2>2 DEF CommitsAll, On, TypeOK
    <3>2. Grows
      BY <1>0, <3>1 DEF Grows, origin
    <3>3. NothingIsLost'
      BY <1>0, <2>2, <3>1 DEF NothingIsLost, CommitsAll, Refs
    <3>4. \A t \in Trees : index'[t] = IF t = b THEN Clean ELSE index[t]
      BY <1>0, <2>2 DEF CommitsAll, TypeOK
    <3> QED
      BY <1>0, <3>2, <3>3, <3>4 DEF Clean, Trees
  <2> QED
    BY <2>1, <2>2 DEF CommitAll
<1>2. /\ job' \in [Jobs -> JobRecords] /\ \A i \in Jobs \ {j} : job'[i] = job[i]
      /\ JobInv(j)'
  <2>1. CASE Fails(j)
    BY <1>0, <2>1, FailsInv DEF Advances
  <2>2. CASE Goes(j, AfterCommit(j)) /\ CommitsAll(b)
    <3>1. b \in ref'[b]
      BY <1>0, <2>2 DEF CommitsAll, On, NothingIsLost, TypeOK
    <3> QED
      BY <1>0, <2>2, <3>1, CommittedGoesOn DEF Advances, BeforeCommit
  <2> QED
    BY <2>1, <2>2 DEF CommitAll
<1>3. TypeOK'
  <2>1. CASE UNCHANGED <<ref, edited, index>>
    BY <1>0, <1>2, <2>1 DEF TypeOK, origin
  <2>2. CASE CommitsAll(b)
    <3>1. edited \subseteq Changes /\ b \in Changes /\ index[b].staged \subseteq Changes
      BY <1>0 DEF TypeOK, Changes
    <3>2. ref' \in [Refs -> SUBSET Changes]
      BY <1>0, <2>2, <3>1 DEF TypeOK, CommitsAll, On
    <3>3. /\ index' \in [Trees -> [staged : SUBSET Changes, unmerged : BOOLEAN, merging : BOOLEAN]]
          /\ \A t \in Branches : index'[t].unmerged => index'[t].merging
      BY <1>0, <2>2 DEF TypeOK, CommitsAll, Clean, Trees
    <3>4. edited' \subseteq Branches /\ \A c \in Branches : published'[c] \subseteq ref'[c]
      BY <1>0, <1>1, <2>2 DEF TypeOK, CommitsAll, Grows, Refs, origin
    <3> QED
      BY <1>0, <1>2, <3>2, <3>3, <3>4 DEF TypeOK, origin
  <2> QED
    BY <2>1, <2>2 DEF CommitAll
<1>4. \A i \in Jobs \ {j} : JobInv(i)'
  BY <1>0, <1>1, <1>2, StillRepo
<1>5. ConflictIsReported'
  BY <1>0, <1>1, <1>2, NoReport, OthersReport
<1> QED
  BY <1>1, <1>2, <1>3, <1>4, <1>5 DEF IInv

LEMMA CheckoutInv ==
  ASSUME IInv, NEW j \in Jobs, Checkout(j)
  PROVE  IInv'
<1>0. /\ TypeOK /\ NothingIsLost /\ job[j] \in JobRecords /\ Shape(j) /\ job[j].at = "checkout"
      /\ job[j].saw = {}
      /\ Runs(j, "checkout") /\ "checkout" \in Working
      /\ UNCHANGED <<ref, edited, index, origin, previews>>
  BY OfJob DEF Checkout, Runs, Working, Ats, Shape, BeforeSync
<1>1. Grows
  BY <1>0 DEF Grows, origin
<1>2. /\ job' \in [Jobs -> JobRecords] /\ \A i \in Jobs \ {j} : job'[i] = job[i]
      /\ JobInv(j)'
  <2>1. CASE Fails(j)
    BY <1>0, <2>1, FailsInv DEF Advances
  <2>2. CASE Goes(j, "fetch") /\ head' = "main"
    BY <1>0, <1>1, <2>2, SyncGoesOn DEF Advances
  <2> QED
    BY <2>1, <2>2 DEF Checkout
<1>3. head' = "main" \/ head' = head
  BY DEF Checkout
<1>4. TypeOK'
  BY <1>0, <1>2, <1>3 DEF TypeOK, origin, Refs
<1>5. ASSUME NEW i \in Jobs \ {j} PROVE JobInv(i)'
  <2>1. job'[i] = job[i] /\ OnMain(i) /\ StagedOrMerged(i)
    BY <1>2, OfJob
  <2>2. OnMain(i)' /\ StagedOrMerged(i)'
    BY <1>0, <1>3, <2>1 DEF OnMain, StagedOrMerged, Midway
  <2> QED
    BY <1>1, <2>1, <2>2, StillJob DEF JobInv
<1>6. NothingIsLost' /\ ConflictIsReported'
  BY <1>0, <1>2, NoReport, OthersReport DEF NothingIsLost
<1> QED
  BY <1>2, <1>4, <1>5, <1>6 DEF IInv

LEMMA PullInv ==
  ASSUME IInv, NEW j \in Jobs, Pull(j)
  PROVE  IInv'
<1>0. /\ TypeOK /\ NothingIsLost /\ job[j] \in JobRecords /\ Shape(j) /\ job[j].at = "pull"
      /\ Synced(j) /\ OnMain(j) /\ job[j].kind \in InRepo /\ job[j].saw \subseteq tracking
      /\ Runs(j, "pull") /\ "pull" \in Working
      /\ UNCHANGED <<edited, index, head, remote, tracked, published, previews>>
  BY OfJob DEF Pull, Runs, Working, Ats, Shape, Fits, Synced
<1>1. Grows
  BY <1>0 DEF Grows, Pull, TypeOK, Refs
<1>2. /\ job' \in [Jobs -> JobRecords] /\ \A i \in Jobs \ {j} : job'[i] = job[i]
      /\ JobInv(j)'
  <2>1. CASE Fails(j)
    BY <1>0, <2>1, FailsInv DEF Advances
  <2>2. CASE Goes(j, "merge") /\ ref' = [ref EXCEPT !["main"] = remote]
    <3>1. job[j].saw \subseteq ref'["main"]
      BY <1>0, <2>2 DEF TypeOK, Refs
    <3> QED
      BY <1>0, <1>1, <2>2, <3>1, SyncGoesOn DEF Advances
  <2>3. CASE Goes(j, "merge") /\ head # "main"
    <3>1. job[j].moved
      BY <1>0, <2>3 DEF OnMain, InCheckout, JobRecords
    <3> QED
      BY <1>0, <1>1, <2>3, <3>1, SyncGoesOn DEF Advances
  <2> QED
    BY <2>1, <2>2, <2>3 DEF Pull
<1>3. TypeOK'
  <2>1. ref' \in [Refs -> SUBSET Changes] /\ tracking' \subseteq remote
    BY <1>0 DEF Pull, TypeOK, Changes
  <2> QED
    BY <1>0, <1>1, <1>2, <2>1 DEF TypeOK, Grows, Refs
<1>4. \A i \in Jobs \ {j} : JobInv(i)'
  BY <1>0, <1>1, <1>2, StillRepo
<1>5. NothingIsLost' /\ ConflictIsReported'
  BY <1>0, <1>1, <1>2, StillThere, NoReport, OthersReport
<1> QED
  BY <1>2, <1>3, <1>4, <1>5 DEF IInv

\* A merge in conflict leaves its mark on a tree with nothing staged, and its job asks.
LEMMA ConflictInv ==
  ASSUME IInv, NEW j \in Jobs, NEW t \in Trees, Runs(j, "merge"), Goes(j, "ask"), Tree(j) = t,
         Conflicts(t, job[j].branch), NEW m \in BOOLEAN, m \/ t = "repo",
         index' = [index EXCEPT ![t] = [staged |-> ref[job[j].branch], unmerged |-> TRUE, merging |-> m]],
         UNCHANGED <<ref, edited, head, origin, previews>>
  PROVE  IInv'
<1>0. TypeOK /\ NothingIsLost /\ Shape(j) /\ job[j].branch \in Refs /\ "merge" \in Working
  BY OfJob DEF Runs, Shape, Working, Ats, Refs
<1>1. Grows
  BY DEF Grows, origin
<1>2. Advances(j, "ask", job[j].outcome) /\ JobInv(j)' /\ Reports(j, t)'
  BY <1>1, AsksInv
<1>3. TypeOK'
  BY <1>0, <1>2, GitAssumption DEF TypeOK, Advances, Trees, origin
<1>4. ASSUME NEW i \in Jobs \ {j} PROVE JobInv(i)'
  <2>1. job'[i] = job[i] /\ OnMain(i) /\ StagedOrMerged(i)
    BY <1>2, OfJob DEF Advances
  <2>2. OnMain(i)'
    BY <2>1 DEF OnMain
  <2>3. StagedOrMerged(i)'
    <3>1. CASE t = "repo"
      BY <2>1, <3>1 DEF StagedOrMerged, Conflicts
    <3>2. CASE t # "repo"
      BY <1>0, <2>1, <3>2 DEF StagedOrMerged, Midway, TypeOK
    <3> QED
      BY <3>1, <3>2
  <2> QED
    BY <1>1, <2>1, <2>2, <2>3, StillJob DEF JobInv
<1>5. ConflictIsReported'
  <2>1. ASSUME NEW u \in Trees \ {t}, index'[u].unmerged
        PROVE  \E i \in Jobs : Reports(i, u)'
    <3>1. PICK i \in Jobs : Reports(i, u)
      BY <1>0, <2>1 DEF IInv, ConflictIsReported, Reports, TypeOK
    <3>2. i # j
      BY <1>0, <3>1, NoReport
    <3> QED
      BY <1>2, <3>1, <3>2 DEF Reports, Tree, Advances
  <2> QED
    BY <1>2, <2>1 DEF ConflictIsReported, Reports
<1> QED
  BY <1>0, <1>1, <1>2, <1>3, <1>4, <1>5, StillThere DEF IInv

\* A merge that failed before it did anything.
LEMMA AsksOnlyInv ==
  ASSUME IInv, NEW j \in Jobs, Runs(j, "merge"), Goes(j, "ask"), UNCHANGED <<trees, origin, previews>>
  PROVE  IInv'
<1>1. Grows /\ TypeOK /\ "merge" \in Working
  BY OfJob DEF Grows, trees, origin, Working, Ats
<1>2. Advances(j, "ask", job[j].outcome) /\ JobInv(j)'
  BY <1>1, AsksInv
<1>3. TypeOK'
  BY <1>1, <1>2 DEF TypeOK, Advances, trees, origin
<1> QED
  BY <1>1, <1>2, <1>3, NoReport, OneJob DEF Advances

LEMMA MergeInv ==
  ASSUME IInv, NEW j \in Jobs, Merge(j)
  PROVE  IInv'
<1> DEFINE b == job[j].branch
           t == Tree(j)
<1>0. /\ TypeOK /\ NothingIsLost /\ job[j] \in JobRecords /\ Shape(j) /\ OnMain(j) /\ job[j].at = "merge"
      /\ b \in Branches /\ b \in Refs /\ b \in ref[b] /\ job[j].kind \in {"merge", "parent"}
      /\ Runs(j, "merge") /\ "merge" \in Working
      /\ UNCHANGED <<edited, head, origin, previews>>
  BY OfJob DEF Merge, Runs, Working, Ats, Shape, Fits, InRepo, Committed, BeforeCommit, Ended, Refs
<1>1. t \in Trees /\ On(t) \in Refs
  BY <1>0, GitAssumption DEF Tree, On, Trees, Refs, Shape, TypeOK
<1>2. CASE Merges(t, b) /\ ref' = [ref EXCEPT ![On(t)] = @ \cup ref[b]] /\ Succeeds(j) /\ UNCHANGED index
  <2>1. Grows /\ b \in ref'[On(t)]
    BY <1>0, <1>1, <1>2 DEF Grows, TypeOK, origin
  <2>2. Advances(j, "tell", "success")
    BY <1>2, OfJob, SucceedsAdvances
  <2>3. Done(j)'
    <3>1. CASE job[j].kind = "parent"
      <4>1. On(t) = job[j].into
        BY <1>0, <3>1, GitAssumption DEF On, Tree, Shape
      <4> QED
        BY <2>1, <2>2, <3>1, <4>1 DEF Done, Advances
    <3>2. CASE job[j].kind = "merge"
      <4>1. job[j].moved \/ On(t) = "main"
        BY <1>0, <3>2 DEF On, Tree, OnMain, InRepo, InCheckout
      <4> QED
        BY <2>1, <2>2, <3>2, <4>1 DEF Done, Advances
    <3> QED
      BY <1>0, <3>1, <3>2
  <2>4. JobInv(j)'
    BY <1>0, <1>2, <2>3, SucceedsInv
  <2>5. TypeOK'
    <3>1. ref' \in [Refs -> SUBSET Changes]
      BY <1>0, <1>1, <1>2 DEF TypeOK
    <3> QED
      BY <1>0, <1>2, <2>1, <2>2, <3>1 DEF TypeOK, Advances, Grows, Refs, origin
  <2>6. \A i \in Jobs \ {j} : JobInv(i)'
    BY <1>0, <1>2, <2>1, <2>2, StillRepo DEF Advances
  <2>7. NothingIsLost' /\ ConflictIsReported'
    BY <1>0, <1>2, <2>1, <2>2, StillThere, NoReport, OthersReport DEF Advances
  <2> QED
    BY <2>4, <2>5, <2>6, <2>7 DEF IInv
<1>3. CASE /\ Conflicts(t, b) /\ Goes(j, "ask") /\ UNCHANGED ref
           /\ index' = [index EXCEPT ![t] = [staged |-> ref[b], unmerged |-> TRUE, merging |-> TRUE]]
  BY <1>0, <1>1, <1>3, ConflictInv
<1>4. CASE Goes(j, "ask") /\ UNCHANGED <<ref, index>>
  BY <1>0, <1>4, AsksOnlyInv DEF trees
<1> QED
  BY <1>2, <1>3, <1>4 DEF Merge

LEMMA SquashInv ==
  ASSUME IInv, NEW j \in Jobs, Squash(j)
  PROVE  IInv'
<1> DEFINE b == job[j].branch
<1>0. /\ TypeOK /\ NothingIsLost /\ job[j] \in JobRecords /\ Shape(j) /\ Synced(j) /\ OnMain(j)
      /\ job[j].at = "merge" /\ job[j].kind = "squash" /\ Tree(j) = "repo" /\ "repo" \in Trees
      /\ b \in Branches /\ b \in Refs /\ b \in ref[b] /\ head \in Refs
      /\ Runs(j, "merge") /\ "merge" \in Working
      /\ UNCHANGED <<ref, edited, head, origin, previews>>
  BY OfJob DEF Squash, Runs, Working, Ats, Shape, Committed, BeforeCommit, Ended, Refs, Tree, Trees, TypeOK
<1>1. Grows
  BY <1>0 DEF Grows, origin
<1>2. CASE /\ Merges("repo", b) /\ Goes(j, "finish")
           /\ index' = [index EXCEPT !["repo"].staged = @ \cup (ref[b] \ ref[head])]
  <2>1. Fits(job[j].kind, "finish") /\ "finish" \in Ats \ {"none", "tell", "end"} /\ "finish" \notin BeforeSync
    BY <1>0 DEF Fits, Ats, BeforeSync
  <2>2. /\ Advances(j, "finish", job[j].outcome) /\ Shape(j)' /\ Delivered(j)'
    BY <1>0, <1>2, <2>1, GoesShape
  <2>3. /\ index'["repo"].staged = index["repo"].staged \cup (ref[b] \ ref[head])
        /\ index'["repo"].unmerged = index["repo"].unmerged
        /\ index'["repo"].merging = index["repo"].merging
        /\ \A u \in Trees \ {"repo"} : index'[u] = index[u]
    BY <1>0, <1>2 DEF TypeOK
  <2>4. TypeOK'
    <3>1. index' \in [Trees -> [staged : SUBSET Changes, unmerged : BOOLEAN, merging : BOOLEAN]]
      BY <1>0, <1>2 DEF TypeOK
    <3> QED
      BY <1>0, <2>2, <2>3, <3>1, GitAssumption DEF TypeOK, Advances, origin, Trees
  <2>5. ASSUME NEW i \in Jobs \ {j} PROVE JobInv(i)'
    <3>1. job'[i] = job[i] /\ OnMain(i) /\ StagedOrMerged(i)
      BY <2>2, OfJob DEF Advances
    <3>2. OnMain(i)' /\ StagedOrMerged(i)'
      BY <1>0, <2>3, <3>1 DEF OnMain, StagedOrMerged, Midway
    <3> QED
      BY <1>1, <3>1, <3>2, StillJob DEF JobInv
  <2>6. StagedOrMerged(j)' /\ OnMain(j)'
    <3>1. job[j].moved \/ head = "main"
      BY <1>0 DEF OnMain, InRepo, InCheckout
    <3>2. job[j].moved \/ b \in ref["main"] \/ (b \in index'["repo"].staged /\ ~Midway("repo")')
      BY <1>0, <1>2, <2>3, <3>1 DEF Merges, Midway
    <3> QED
      BY <1>0, <2>2, <3>1, <3>2 DEF Advances, StagedOrMerged, OnMain
  <2>7. Committed(j)' /\ Synced(j)'
    BY <1>0, <2>2 DEF Advances, Committed, Synced
  <2>8. ConflictIsReported'
    BY <1>0, <2>2, <2>3, NoReport, OthersReport DEF Advances
  <2> QED
    BY <1>0, <1>1, <2>2, <2>4, <2>5, <2>6, <2>7, <2>8, StillThere DEF IInv, JobInv
<1>3. CASE /\ Conflicts("repo", b) /\ Goes(j, "ask")
           /\ index' = [index EXCEPT !["repo"] = [staged |-> ref[b], unmerged |-> TRUE, merging |-> FALSE]]
  BY <1>0, <1>3, ConflictInv
<1>4. CASE Goes(j, "ask") /\ UNCHANGED index
  BY <1>0, <1>4, AsksOnlyInv DEF trees
<1> QED
  BY <1>2, <1>3, <1>4 DEF Squash

LEMMA SquashCommitInv ==
  ASSUME IInv, NEW j \in Jobs, SquashCommit(j)
  PROVE  IInv'
<1> DEFINE b == job[j].branch
<1>0. /\ TypeOK /\ NothingIsLost /\ job[j] \in JobRecords /\ Shape(j) /\ OnMain(j) /\ StagedOrMerged(j)
      /\ job[j].at = "finish" /\ job[j].kind = "squash" /\ "repo" \in Trees /\ head \in Refs
      /\ Runs(j, "finish") /\ "finish" \in Working
      /\ UNCHANGED <<edited, head, origin, previews>>
  BY OfJob DEF SquashCommit, Runs, Working, Ats, Shape, Fits, Trees, TypeOK
<1>1. CASE Fails(j) /\ UNCHANGED <<ref, index>>
  <2>1. Advances(j, "tell", "error") /\ JobInv(j)' /\ Grows
    BY <1>0, <1>1, FailsInv DEF Grows, origin
  <2>2. TypeOK'
    BY <1>0, <1>1, <2>1 DEF TypeOK, Advances, origin
  <2> QED
    BY <1>0, <1>1, <2>1, <2>2, NoReport, OneJob DEF Advances, trees
<1>2. CASE /\ ~index["repo"].unmerged /\ Succeeds(j)
           /\ ref' = [ref EXCEPT ![head] = @ \cup index["repo"].staged]
           /\ index' = [index EXCEPT !["repo"] = Clean]
  <2>1. Grows
    BY <1>0, <1>2 DEF Grows, TypeOK, origin
  <2>2. Advances(j, "tell", "success")
    BY <1>2, OfJob, SucceedsAdvances
  <2>3. Done(j)'
    <3>1. job[j].moved \/ head = "main"
      BY <1>0 DEF OnMain, InRepo, InCheckout
    <3>2. job[j].moved \/ b \in ref'["main"]
      BY <1>0, <1>2, <2>1, <3>1 DEF StagedOrMerged, TypeOK, Grows, Refs
    <3> QED
      BY <1>0, <2>2, <3>2 DEF Done, Advances
  <2>4. JobInv(j)'
    BY <1>0, <1>2, <2>3, SucceedsInv
  <2>5. TypeOK'
    <3>1. /\ index' \in [Trees -> [staged : SUBSET Changes, unmerged : BOOLEAN, merging : BOOLEAN]]
          /\ \A u \in Branches : index'[u].unmerged => index'[u].merging
      BY <1>0, <1>2, GitAssumption DEF TypeOK, Clean, Trees
    <3>2. ref' \in [Refs -> SUBSET Changes]
      BY <1>0, <1>2 DEF TypeOK
    <3> QED
      BY <1>0, <2>1, <2>2, <3>1, <3>2 DEF TypeOK, Advances, Grows, Refs, origin
  <2>6. ASSUME NEW i \in Jobs \ {j} PROVE JobInv(i)'
    <3>1. job'[i] = job[i] /\ Shape(i) /\ OnMain(i) /\ StagedOrMerged(i)
      BY <2>2, OfJob DEF Advances
    <3>2. OnMain(i)'
      BY <1>0, <3>1 DEF OnMain
    <3>3. StagedOrMerged(i)'
      BY <1>0, <1>2, <2>1, <3>1
      DEF StagedOrMerged, OnMain, Shape, Fits, InRepo, InCheckout, Grows, Refs, TypeOK
    <3> QED
      BY <2>1, <3>1, <3>2, <3>3, StillJob DEF JobInv
  <2>7. \A u \in Trees : index'[u].unmerged => index[u].unmerged
    BY <1>0, <1>2 DEF TypeOK, Clean
  <2> QED
    BY <1>0, <2>1, <2>2, <2>4, <2>5, <2>6, <2>7, StillThere, NoReport, OthersReport DEF Advances, IInv
<1> QED
  BY <1>1, <1>2 DEF SquashCommit

-----------------------------------------------------------------------------
(* The user and the others.                                                *)

LEMMA AbortMergeInv ==
  ASSUME IInv, NEW t \in Trees, AbortMerge(t)
  PROVE  IInv'
<1> USE DEF IInv, JobInv, AbortMerge, origin
<1>1. TypeOK'
  BY GitAssumption DEF TypeOK, Clean, Trees
<1>2. Grows
  BY DEF Grows
<1>3. ASSUME NEW i \in Jobs PROVE JobInv(i)'
  <2>1. OnMain(i)' /\ StagedOrMerged(i)'
    BY DEF OnMain, StagedOrMerged, Midway, TypeOK, Trees
  <2> QED
    BY <1>2, <2>1, StillJob
<1>4. NothingIsLost'
  BY DEF NothingIsLost
<1>5. ConflictIsReported'
  BY StillReported DEF Clean, TypeOK, Reports, Tree
<1> QED
  BY <1>1, <1>3, <1>4, <1>5

LEMMA CommitConflictResolutionInv ==
  ASSUME IInv, NEW t \in Trees, CommitConflictResolution(t)
  PROVE  IInv'
<1>0. /\ TypeOK /\ NothingIsLost /\ ConflictIsReported /\ "repo" \notin edited
      /\ On(t) \in Refs /\ (t # "repo" => On(t) = t) /\ (t = "repo" => On(t) = head)
      /\ CommitsAll(t) /\ UNCHANGED <<head, origin, job, previews>>
  BY GitAssumption DEF IInv, CommitConflictResolution, On, Refs, Trees, TypeOK
<1>1. /\ \A u \in Trees : index'[u] = IF u = t THEN Clean ELSE index[u]
      /\ \A r \in Refs : ref'[r] = IF r = On(t) THEN ref[r] \cup index[t].staged \cup ({t} \cap edited)
                                              ELSE ref[r]
  BY <1>0 DEF CommitsAll, TypeOK
<1>2. Grows
  BY <1>0, <1>1 DEF Grows, origin
<1>3. TypeOK'
  <2>1. ref' \in [Refs -> SUBSET Changes]
    BY <1>0 DEF CommitsAll, TypeOK, Changes
  <2>2. index' \in [Trees -> [staged : SUBSET Changes, unmerged : BOOLEAN, merging : BOOLEAN]]
    BY <1>0 DEF CommitsAll, TypeOK, Clean
  <2> QED
    BY <1>0, <1>1, <1>2, <2>1, <2>2 DEF CommitsAll, TypeOK, Clean, Grows, Refs, Trees, origin
<1>4. ASSUME NEW i \in Jobs PROVE JobInv(i)'
  <2>1. Shape(i) /\ OnMain(i) /\ StagedOrMerged(i)
    BY OfJob
  <2>2. OnMain(i)'
    BY <1>0, <2>1 DEF OnMain
  <2>3. StagedOrMerged(i)'
    <3>1. CASE t = "repo" /\ job[i].at = "finish" /\ ~job[i].moved
      <4>1. head = "main"
        BY <2>1, <3>1 DEF OnMain, Shape, Fits, InRepo, InCheckout
      <4>2. job[i].branch \in ref'["main"]
        BY <1>0, <1>1, <2>1, <3>1, <4>1 DEF StagedOrMerged, Refs
      <4> QED
        BY <1>0, <4>2 DEF StagedOrMerged
    <3>2. CASE t # "repo" \/ job[i].at # "finish" \/ job[i].moved
      BY <1>0, <1>1, <1>2, <2>1, <3>2 DEF StagedOrMerged, Midway, Grows, Refs, Trees
    <3> QED
      BY <3>1, <3>2
  <2> QED
    BY <1>0, <1>2, <2>2, <2>3, StillJob DEF JobInv
<1>5. NothingIsLost'
  BY <1>0, <1>1, <1>2 DEF NothingIsLost, CommitsAll, Grows, Refs
<1>6. ConflictIsReported'
  BY <1>0, <1>1, StillReported DEF Clean, Reports, Tree
<1> QED
  BY <1>3, <1>4, <1>5, <1>6 DEF IInv

LEMMA CheckoutBranchInv ==
  ASSUME IInv, NEW b \in Refs, CheckoutBranch(b)
  PROVE  IInv'
<1>0. /\ TypeOK /\ NothingIsLost /\ ConflictIsReported /\ job \in [Jobs -> JobRecords]
      /\ UNCHANGED <<ref, edited, index, origin>>
  BY DEF IInv, TypeOK, CheckoutBranch
\* Every job is as it was, and those in the main repository are marked.
<1>1. ASSUME NEW i \in Jobs
      PROVE  /\ job'[i] \in JobRecords
             /\ job'[i].kind = job[i].kind /\ job'[i].branch = job[i].branch
             /\ job'[i].into = job[i].into /\ job'[i].at = job[i].at
             /\ job'[i].outcome = job[i].outcome /\ job'[i].heard = job[i].heard
             /\ job'[i].told = job[i].told /\ job'[i].saw = job[i].saw
             /\ (job[i].moved => job'[i].moved)
             /\ (job[i].kind \in InRepo /\ job[i].at \in InCheckout => job'[i].moved)
  <2>1. job[i] \in JobRecords
    BY <1>0
  <2>2. CASE job[i].kind \in InRepo /\ job[i].at \in InCheckout
    <3>1. job'[i] = [job[i] EXCEPT !.moved = TRUE]
      BY <2>2 DEF CheckoutBranch, InRepo
    <3> QED
      BY <2>1, <3>1 DEF JobRecords
  <2>3. CASE ~(job[i].kind \in InRepo /\ job[i].at \in InCheckout)
    BY <2>1, <2>3 DEF CheckoutBranch, InRepo
  <2> QED
    BY <2>2, <2>3
<1>2. TypeOK'
  <2>1. job' \in [Jobs -> JobRecords]
    BY <1>1 DEF CheckoutBranch
  <2>2. previews' \in 0..MaxPreviews /\ head' \in Refs
    BY <1>0, GitAssumption DEF TypeOK, CheckoutBranch
  <2> QED
    BY <1>0, <2>1, <2>2 DEF TypeOK, origin
<1>3. ASSUME NEW i \in Jobs PROVE JobInv(i)'
  <2>0. /\ Shape(i) /\ Committed(i) /\ Synced(i) /\ StagedOrMerged(i) /\ Delivered(i)
    BY OfJob
  <2>1. Shape(i)'
    BY <1>1, <2>0 DEF Shape, Fits
  <2>2. Committed(i)' /\ Synced(i)'
    BY <1>0, <1>1, <2>0 DEF Committed, Synced, origin
  <2>3. OnMain(i)'
    BY <1>1 DEF OnMain
  <2>4. StagedOrMerged(i)'
    BY <1>0, <1>1, <2>0 DEF StagedOrMerged, Midway
  <2>5. Delivered(i)'
    BY <1>0, <1>1, <2>0 DEF Delivered, Done, origin
  <2> QED
    BY <2>1, <2>2, <2>3, <2>4, <2>5 DEF JobInv
<1>4. NothingIsLost'
  BY <1>0 DEF NothingIsLost
<1>5. ConflictIsReported'
  BY <1>0, <1>1, StillReported DEF Reports, Tree
<1> QED
  BY <1>2, <1>3, <1>4, <1>5 DEF IInv

LEMMA OthersPushInv == IInv /\ OthersPush => IInv'
<1> SUFFICES ASSUME IInv, OthersPush PROVE IInv'
  OBVIOUS
<1> USE DEF IInv, OthersPush, trees
<1>1. TypeOK'
  BY DEF TypeOK
<1>2. Grows
  BY DEF Grows
<1>3. ASSUME NEW i \in Jobs PROVE JobInv(i)'
  BY <1>2, StillRepo
<1>4. NothingIsLost'
  BY DEF NothingIsLost
<1>5. ConflictIsReported'
  BY DEF ConflictIsReported, Tree
<1> QED
  BY <1>1, <1>3, <1>4, <1>5

LEMMA InitInv == Init => IInv
<1> SUFFICES ASSUME Init PROVE IInv
  OBVIOUS
<1> USE DEF Init
<1>1. TypeOK
  BY GitAssumption DEF TypeOK, Clean, NoJob, JobRecords, Ats, Outcomes, Refs, Trees
<1>2. ASSUME NEW j \in Jobs PROVE JobInv(j)
  BY <1>2 DEF JobInv, NoJob, Shape, Fits, Committed, Synced, OnMain, StagedOrMerged, Delivered, InRepo,
              InCheckout, Ended, BeforeSync, BeforeCommit
<1>3. NothingIsLost /\ ConflictIsReported
  BY DEF NothingIsLost, ConflictIsReported, Clean
<1> QED
  BY <1>1, <1>2, <1>3 DEF IInv

LEMMA NextInv == IInv /\ Next => IInv'
<1> SUFFICES ASSUME IInv, Next PROVE IInv'
  OBVIOUS
<1>1. ASSUME NEW j \in Jobs, JobStep(j) PROVE IInv'
  BY <1>1, EnsureCommittedInv, CommitAllInv, CheckoutInv, FetchInv, CompareInv, PullInv, MergeInv,
     SquashInv, SquashCommitInv, GetConflictedFilesInv, PushInv, CreatePRInv, TellInv DEF JobStep
<1>2. ASSUME NEW j \in Jobs, Leave(j) PROVE IInv'
  BY <1>2, LeaveInv
<1>3. ASSUME NEW j \in Jobs, NEW kind \in Kinds, NEW b \in Branches, NEW into \in Refs,
             Start(j, kind, b, into)
      PROVE IInv'
  BY <1>3, StartInv
<1>4. ASSUME NEW t \in Trees, AbortMerge(t) \/ CommitConflictResolution(t) PROVE IInv'
  BY <1>4, AbortMergeInv, CommitConflictResolutionInv
<1>5. ASSUME NEW b \in Refs, CheckoutBranch(b) PROVE IInv'
  BY <1>5, CheckoutBranchInv
<1> QED
  BY <1>1, <1>2, <1>3, <1>4, <1>5, OthersPushInv DEF Next

LEMMA UnchangedInv == IInv /\ UNCHANGED vars => IInv'
BY DEF IInv, vars, trees, origin, TypeOK, NothingIsLost, ConflictIsReported, Tree, JobInv, Shape,
       Fits, Done, Committed, Synced, OnMain, StagedOrMerged, Midway, Delivered

-----------------------------------------------------------------------------
\* The inductive invariant holds in every reachable state.
THEOREM Invariance == Spec => []IInv
<1>1. IInv /\ [Next]_vars => IInv'
  BY NextInv, UnchangedInv
<1> QED
  BY InitInv, <1>1, PTL DEF Spec

\* Branches, checkouts and jobs keep their types, and a worktree is never left with
\* unmerged files and no merge to abort.
THEOREM TypeCorrectness == Spec => []TypeOK
<1>1. IInv => TypeOK
  BY DEF IInv
<1> QED
  BY Invariance, <1>1, PTL

\* A merge, squash or push that reports success has done what it says.
THEOREM SuccessIsTrue == Spec => []SuccessMeansMerged
<1>1. IInv => SuccessMeansMerged
  <2> SUFFICES ASSUME IInv, NEW j \in Jobs, job[j].told = "success"
               PROVE  job[j].outcome = "success"
    BY DEF SuccessMeansMerged, IInv, JobInv, Delivered, Done
  <2> QED
    BY DEF IInv, JobInv, Shape
<1> QED
  BY Invariance, <1>1, PTL

\* No job merges into a default branch that lacks what it has fetched.
THEOREM MergesAreSynced == Spec => []MergesOnSyncedMain
<1>1. IInv => MergesOnSyncedMain
  BY DEF IInv, JobInv, Synced, MergesOnSyncedMain
<1> QED
  BY Invariance, <1>1, PTL

\* What a squash has staged is not dropped before its commit.
THEOREM SquashesAreKept == Spec => []SquashIsNotLost
<1>1. IInv => SquashIsNotLost
  BY DEF IInv, JobInv, StagedOrMerged, SquashIsNotLost
<1> QED
  BY Invariance, <1>1, PTL

\* Every tree in conflict has a job that reports it.
THEOREM ConflictsAreReported == Spec => []ConflictIsReported
<1>1. IInv => ConflictIsReported
  BY DEF IInv
<1> QED
  BY Invariance, <1>1, PTL

\* No job ends without a Result with Done.
THEOREM JobsTell == Spec => []EndsWithResult
<1>1. IInv => EndsWithResult
  BY DEF IInv, JobInv, Shape, Ended, EndsWithResult
<1> QED
  BY Invariance, <1>1, PTL
=============================================================================
