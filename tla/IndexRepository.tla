-------------------------- MODULE IndexRepository --------------------------
(***************************************************************************)
(* Indexing of one repository (services/index_service.py): a job clones or  *)
(* updates the checkout in a staging directory, replaces the rows of the    *)
(* changed files in one transaction, writes the vectors of the new chunks,  *)
(* swaps the directories and commits.  The three stores share no            *)
(* transaction, so a failure is compensated and a crash is not.             *)
(*                                                                          *)
(* A file has one chunk; the vector of a chunk has the chunk's id.  A tree  *)
(* is a function from files to contents, Absent where there is no file.     *)
(***************************************************************************)
EXTENDS Naturals, FiniteSets

CONSTANTS
  File, Content,
  Absent,      \* the content of a file that is not in a tree
  NoTree,      \* a directory that does not exist
  Worker,      \* RQ workers
  MaxJobs,     \* bound on the jobs that are enqueued
  MaxPushes    \* bound on the changes of the remote repository

ASSUME IndexAssumption ==
  /\ Absent \notin Content
  /\ NoTree \notin [File -> Content \union {Absent}]
  /\ MaxJobs \in Nat /\ MaxPushes \in Nat

VARIABLES
  remote,     \* the tree of the remote repository
  pushes,     \* how often it has changed
  status,     \* Repository.status
  located,    \* Repository.local_path is set
  rows,       \* committed chunks: [file, content, job]
  vectors,    \* points in Qdrant, by the chunk they belong to
  target,     \* the directory <repo id>
  staging,    \* the directory <repo id>.staging
  backup,     \* the directory <repo id>.backup
  queued,     \* jobs in the queue, by their `full' flag
  jobs,       \* how many were enqueued
  work,       \* each worker's job
  disturbed   \* history: a crash, or a best-effort clean-up that did not happen

dbVars == <<status, located, rows>>
diskVars == <<target, staging, backup>>
queueVars == <<queued, jobs>>
remoteVars == <<remote, pushes>>
vars == <<remote, pushes, status, located, rows, vectors, target, staging, backup, queued,
          jobs, work, disturbed>>

Tree == [File -> Content \union {Absent}]

\* tree, old and new are the local variables scanned_files, old_point_ids and
\* the chunks that the job adds.
NoJob == [pc |-> "idle", full |-> FALSE, id |-> 0, tree |-> NoTree, old |-> {}, new |-> {},
          replaced |-> FALSE]

Init ==
  /\ remote \in Tree /\ pushes = 0
  /\ status = "pending" /\ located = FALSE /\ rows = {}
  /\ vectors = {}
  /\ target = NoTree /\ staging = NoTree /\ backup = NoTree
  /\ queued = {[id |-> 1, full |-> TRUE]} /\ jobs = 1
  /\ work = [w \in Worker |-> NoJob]
  /\ disturbed = FALSE

Push ==
  /\ pushes < MaxPushes /\ pushes' = pushes + 1
  /\ remote' \in Tree \ {remote}
  /\ UNCHANGED <<dbVars, vectors, diskVars, queueVars, work, disturbed>>

\* POST /repos/{id}/reindex
Reindex(full) ==
  /\ jobs < MaxJobs /\ jobs' = jobs + 1
  /\ \/ /\ queued' = queued \union {[id |-> jobs', full |-> full]}
        /\ status' = "pending"
     \/ /\ UNCHANGED queued
        /\ status' = "failed"
  /\ UNCHANGED <<remoteVars, located, rows, vectors, diskVars, work, disturbed>>

-----------------------------------------------------------------------------
(* One job *)
At(w, pc) == work[w].pc = pc

\* index_repository, and the removal of an old staging directory
Start(w) ==
  /\ At(w, "idle")
  /\ \E job \in queued :
       /\ \A other \in queued : job.id <= other.id
       /\ queued' = queued \ {job}
       /\ work' = [work EXCEPT ![w] =
            [NoJob EXCEPT !.pc = "fetch", !.id = job.id,
                          !.full = job.full \/ ~located \/ target = NoTree]]
  /\ staging' = NoTree
  /\ status' = "cloning"
  /\ UNCHANGED <<remoteVars, located, rows, vectors, target, backup, jobs, disturbed>>

\* A clone of the remote, or a copy of the checkout with the remote merged in
Fetch(w) ==
  /\ At(w, "fetch")
  /\ work[w].full \/ target # NoTree
  /\ staging' = remote
  /\ status' = "parsing"
  /\ work' = [work EXCEPT ![w].pc = "scan"]
  /\ UNCHANGED <<remoteVars, located, rows, vectors, target, backup, queueVars, disturbed>>

Scan(w) ==
  /\ At(w, "scan")
  /\ staging # NoTree
  /\ status' = "embedding"
  /\ work' = [work EXCEPT ![w].pc = "write", ![w].tree = staging]
  /\ UNCHANGED <<remoteVars, located, rows, vectors, diskVars, queueVars, disturbed>>

Indexed(file, content) == \E row \in rows : row.file = file /\ row.content = content

\* The rows a job deletes: all of them, or those of deleted and changed files.
Superseded(job) ==
  {row \in rows : job.full \/ job.tree[row.file] # row.content}

AddedOnly(job) ==     \* a faulty variant, used to test IndexedIsConsistent
  {[file |-> f, content |-> job.tree[f], job |-> job.id] :
     f \in {g \in File : job.tree[g] # Absent /\ \A row \in rows : row.file # g}}
Added(job) ==
  {[file |-> f, content |-> job.tree[f], job |-> job.id] :
     f \in {g \in File : /\ job.tree[g] # Absent
                         /\ job.full \/ ~Indexed(g, job.tree[g])}}

\* Rows are deleted and added in the open transaction, then the vectors of the
\* new ones are written.
Write(w) ==
  LET job == work[w]
  IN /\ At(w, "write")
     /\ vectors' = vectors \union Added(job)
     /\ work' = [work EXCEPT ![w].pc = "move", ![w].old = Superseded(job), ![w].new = Added(job)]
     /\ UNCHANGED <<remoteVars, dbVars, diskVars, queueVars, disturbed>>

\* Points that a best-effort deletion removes, or does not
Discard(points) ==
  \/ vectors' = vectors \ points /\ UNCHANGED disturbed
  \/ points # {} /\ UNCHANGED vectors /\ disturbed' = TRUE

\* A batch of vectors fails: the earlier ones are removed again.
WriteFails(w) ==
  LET upserted == Added(work[w])
  IN /\ At(w, "write")
     /\ \/ vectors' = vectors \ upserted /\ UNCHANGED disturbed
        \/ /\ \E left \in SUBSET upserted : vectors' = vectors \union left
           /\ disturbed' = TRUE
     /\ work' = [work EXCEPT ![w].pc = "undo"]
     /\ UNCHANGED <<remoteVars, dbVars, diskVars, queueVars>>

\* _replace_workspace: two renames
MoveAway(w) ==
  /\ At(w, "move")
  /\ backup' = target
  /\ target' = NoTree
  /\ work' = [work EXCEPT ![w].pc = "swap"]
  /\ UNCHANGED <<remoteVars, dbVars, vectors, staging, queueVars, disturbed>>

MoveIn(w) ==
  /\ At(w, "swap")
  /\ staging # NoTree
  /\ target' = staging /\ staging' = NoTree
  /\ work' = [work EXCEPT ![w].pc = "commit", ![w].replaced = TRUE]
  /\ UNCHANGED <<remoteVars, dbVars, vectors, backup, queueVars, disturbed>>

\* The second rename fails and the first is taken back.
MoveInFails(w) ==
  /\ At(w, "swap")
  /\ target' = backup /\ backup' = NoTree
  /\ work' = [work EXCEPT ![w].pc = "undo"]
  /\ UNCHANGED <<remoteVars, dbVars, vectors, staging, queueVars, disturbed>>

Commit(w) ==
  /\ At(w, "commit")
  /\ status' = "indexed" /\ located' = TRUE
  /\ rows' = (rows \ work[w].old) \union work[w].new
  /\ work' = [work EXCEPT ![w].pc = "retire"]
  /\ UNCHANGED <<remoteVars, vectors, diskVars, queueVars, disturbed>>

RetiredAll(job) == {row \in vectors : row.job # job.id}   \* faulty, to test NoDanglingRow
Retired(job) == job.old

\* Old external state goes only after the commit.
Retire(w) ==
  /\ At(w, "retire")
  /\ backup' \in {NoTree, backup}
  /\ Discard(Retired(work[w]))
  /\ work' = [work EXCEPT ![w] = NoJob]
  /\ UNCHANGED <<remoteVars, dbVars, target, staging, queueVars>>

-----------------------------------------------------------------------------
(* Failures *)
Fail(w) ==
  /\ work[w].pc \in {"fetch", "scan", "write", "move", "commit"}
  /\ work' = [work EXCEPT ![w].pc = "undo"]
  /\ UNCHANGED <<remoteVars, dbVars, vectors, diskVars, queueVars, disturbed>>

KeepTarget(job) == target        \* a faulty variant, used to test FailureIsUndone
RestoredTarget(job) == IF job.replaced THEN backup ELSE target

\* The rows were never committed; vectors and directories are put back.
Undo(w) ==
  LET job == work[w]
  IN /\ At(w, "undo")
     /\ Discard(job.new)
     /\ target' = RestoredTarget(job)
     /\ IF job.replaced
          THEN backup' = NoTree /\ UNCHANGED staging
          ELSE staging' \in {NoTree, staging} /\ UNCHANGED backup
     /\ work' = [work EXCEPT ![w].pc = "report"]
     /\ UNCHANGED <<remoteVars, dbVars, queueVars>>

Report(w) ==
  /\ At(w, "report")
  /\ status' = "failed"
  /\ work' = [work EXCEPT ![w] = NoJob]
  /\ UNCHANGED <<remoteVars, located, rows, vectors, diskVars, queueVars, disturbed>>

\* The job has no retry.
Crash(w) ==
  /\ ~At(w, "idle")
  /\ work' = [work EXCEPT ![w] = NoJob]
  /\ disturbed' = TRUE
  /\ UNCHANGED <<remoteVars, dbVars, vectors, diskVars, queueVars>>

-----------------------------------------------------------------------------
Job(w) ==
  \/ Start(w) \/ Fetch(w) \/ Scan(w) \/ Write(w) \/ WriteFails(w)
  \/ MoveAway(w) \/ MoveIn(w) \/ MoveInFails(w) \/ Commit(w) \/ Retire(w)
  \/ Fail(w) \/ Undo(w) \/ Report(w)

Next ==
  \/ Push
  \/ \E full \in BOOLEAN : Reindex(full)
  \/ \E w \in Worker : Job(w) \/ Crash(w)

Spec == Init /\ [][Next]_vars

-----------------------------------------------------------------------------
(* Properties *)
Describes(tree) ==
  /\ \A row \in rows : tree[row.file] = row.content
  /\ \A f \in File : tree[f] # Absent => \E row \in rows : row.file = f

\* Every chunk that a query can join to has its vector, whatever failed or
\* crashed: vectors are written before the commit and retired after it.
NoDanglingRow == rows \subseteq vectors

\* A repository that is called indexed has a checkout, and its rows describe that
\* checkout file by file, also after jobs that crashed between two stores.
IndexedIsConsistent ==
  status = "indexed" => located /\ target # NoTree /\ Describes(target)

\* Between jobs, if no process was killed and no clean-up was lost, the three
\* stores agree and nothing is left over: a job that failed anywhere before its
\* commit has undone what it did.
FailureIsUndone ==
  (~disturbed /\ \A w \in Worker : At(w, "idle")) =>
    /\ vectors = rows
    /\ IF located THEN target # NoTree /\ Describes(target) ELSE target = NoTree /\ rows = {}
=============================================================================
