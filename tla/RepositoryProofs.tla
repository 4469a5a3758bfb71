-------------------------- MODULE RepositoryProofs --------------------------
(***************************************************************************)
(* Proofs about work on a repository: its indexing, for any files and      *)
(* contents and any number of workers, jobs, failures and crashes; and the *)
(* repair of a failed workflow run, for any number of requests that start it*)
(* or decide about it, and of jobs of its run.                             *)
(***************************************************************************)
EXTENDS IndexRepository, GitHubRepair, TLAPS

-----------------------------------------------------------------------------
(* Indexing.                                                               *)

AnyChunk == [file : File, content : Content, job : Nat]
Directory == Tree \union {NoTree}
PreCommit == {"fetch", "scan", "write", "move", "swap", "commit", "undo", "report"}
Written == {"move", "swap", "commit"}

JobState ==
  [pc : PreCommit \union {"idle", "retire"}, full : BOOLEAN, id : Nat, tree : Directory,
   old : SUBSET AnyChunk, new : SUBSET AnyChunk, replaced : BOOLEAN]

DiskTypes ==
  /\ remote \in Tree /\ target \in Directory /\ staging \in Directory /\ backup \in Directory
IndexTypes ==
  /\ work \in [Worker -> JobState] /\ rows \subseteq AnyChunk
  /\ jobs \in Nat /\ queued \subseteq [id : Nat, full : BOOLEAN]
  /\ \A w \in Worker : work[w].pc = "write" => work[w].tree \in Tree

\* No two jobs have the same id, queued or at work.
Unique ==
  /\ \A q \in queued : q.id <= jobs
  /\ \A w \in Worker : work[w].id <= jobs
  /\ \A q, r \in queued : q.id = r.id => q = r
  /\ \A q \in queued, w \in Worker : work[w].pc # "idle" => work[w].id # q.id
  /\ \A v, w \in Worker :
       v # w /\ work[v].pc # "idle" /\ work[w].pc # "idle" => work[v].id # work[w].id

\* A chunk of a job that has passed its commit, or is gone
Spent(c) ==
  /\ c.job <= jobs
  /\ \A q \in queued : q.id # c.job
  /\ \A w \in Worker : work[w].pc \in PreCommit => work[w].id # c.job

\* What is committed, or will be retired, is of spent jobs; what a job adds is its own.
Ownership ==
  /\ \A row \in rows : Spent(row)
  /\ \A w \in Worker : \A c \in work[w].old : Spent(c)
  /\ \A w \in Worker : \A c \in work[w].new : c.job = work[w].id

\* Vectors come before the commit and go after it.
VectorsFirst ==
  /\ rows \subseteq vectors
  /\ \A w \in Worker : work[w].pc \in Written => work[w].new \subseteq vectors
  /\ \A w \in Worker : work[w].pc = "retire" => work[w].old \intersect rows = {}

IndexInv == IndexTypes /\ DiskTypes /\ Unique /\ Ownership /\ VectorsFirst

LEMMA NoJobType == NoJob \in JobState
  BY DEF NoJob, JobState, Directory

LEMMA IndexInit == Init => IndexInv
  <1> SUFFICES ASSUME Init PROVE IndexInv
    OBVIOUS
  <1>1. IndexTypes /\ DiskTypes
    BY NoJobType DEF Init, IndexTypes, DiskTypes, Directory, NoJob
  <1>2. \A w \in Worker : work[w] = NoJob
    BY DEF Init
  <1>3. Unique
    BY <1>2 DEF Init, Unique, NoJob
  <1>4. Ownership /\ VectorsFirst
    BY <1>2 DEF Init, Ownership, VectorsFirst, NoJob, Written
  <1> QED BY <1>1, <1>3, <1>4 DEF IndexInv

\* A step of one job that commits nothing and takes no vector that is needed.
LEMMA WorkStep ==
  ASSUME IndexInv, NEW w \in Worker, NEW j \in JobState,
         work' = [work EXCEPT ![w] = j],
         UNCHANGED <<rows, queued, jobs>>, DiskTypes',
         j.pc = "idle" => j = NoJob,
         j.pc # "idle" => j.id = work[w].id /\ work[w].pc # "idle",
         j.pc \in PreCommit => work[w].pc \in PreCommit,
         j.pc # "retire",
         j.pc = "write" => j.tree \in Tree,
         \A c \in j.old : Spent(c),
         \A c \in j.new : c.job = j.id,
         rows \subseteq vectors',
         \A v \in Worker \ {w} : work[v].pc \in Written => work[v].new \subseteq vectors',
         j.pc \in Written => j.new \subseteq vectors'
  PROVE  IndexInv'
  <1>1. work \in [Worker -> JobState] /\ jobs \in Nat
    BY DEF IndexInv, IndexTypes
  <1>2. work'[w] = j /\ \A v \in Worker \ {w} : work'[v] = work[v]
    BY <1>1
  <1>3. IndexTypes'
    BY <1>1, <1>2 DEF IndexInv, IndexTypes
  <1>4. Unique'
    <2>1. j.id <= jobs
      BY <1>1 DEF NoJob, IndexInv, Unique
    <2> QED BY <1>1, <1>2, <2>1 DEF IndexInv, Unique
  <1>5. ASSUME NEW c, Spent(c) PROVE Spent(c)'
    <2>1. j.pc \in PreCommit => j.id # c.job
      BY <1>5 DEF Spent, PreCommit
    <2> QED BY <1>2, <1>5, <2>1 DEF Spent
  <1>6. Ownership'
    BY <1>2, <1>5 DEF IndexInv, Ownership
  <1>7. VectorsFirst'
    BY <1>2 DEF IndexInv, VectorsFirst
  <1> QED BY <1>3, <1>4, <1>6, <1>7 DEF IndexInv

\* The chunks of a pending job are not in rows, nor among another job's chunks.
LEMMA OwnChunks ==
  ASSUME IndexInv, NEW w \in Worker, work[w].pc \in PreCommit,
         NEW S, \A c \in S : c.job = work[w].id
  PROVE  /\ rows \intersect S = {}
         /\ \A v \in Worker : work[v].old \intersect S = {}
         /\ \A v \in Worker \ {w} : work[v].pc # "idle" => work[v].new \intersect S = {}
  <1>1. \A c \in S : ~Spent(c)
    BY DEF Spent
  <1>2. \A v \in Worker \ {w} : work[v].pc # "idle" => work[v].id # work[w].id
    BY DEF IndexInv, Unique, PreCommit
  <1> QED BY <1>1, <1>2 DEF IndexInv, Ownership

LEMMA AddedType ==
  ASSUME NEW j \in JobState, j.tree \in Tree
  PROVE  Added(j) \subseteq AnyChunk /\ \A c \in Added(j) : c.job = j.id
  <1> SUFFICES ASSUME NEW c \in Added(j)
               PROVE  c \in AnyChunk /\ c.job = j.id
    OBVIOUS
  <1>1. PICK f \in File : /\ j.tree[f] # Absent
                          /\ c = [file |-> f, content |-> j.tree[f], job |-> j.id]
    BY DEF Added
  <1>2. j.tree[f] \in Content
    BY <1>1 DEF Tree
  <1> QED BY <1>1, <1>2 DEF AnyChunk, JobState

-----------------------------------------------------------------------------
\* Steps of a job before and after its commit
LEMMA PlainSteps ==
  ASSUME IndexInv, NEW w \in Worker,
         \/ Fetch(w) \/ Scan(w) \/ MoveAway(w) \/ MoveIn(w) \/ MoveInFails(w) \/ Fail(w)
         \/ Report(w) \/ Crash(w)
  PROVE  IndexInv'
  <1>1. /\ work[w] \in JobState /\ work \in [Worker -> JobState] /\ DiskTypes /\ VectorsFirst
        /\ \A c \in work[w].old : Spent(c)
        /\ \A c \in work[w].new : c.job = work[w].id
    BY DEF IndexInv, IndexTypes, Ownership
  <1>2. UNCHANGED <<rows, queued, jobs, vectors, remote>>
    BY DEF Fetch, Scan, MoveAway, MoveIn, MoveInFails, Fail, Report, Crash, dbVars, diskVars,
           queueVars, remoteVars
  <1>3. DiskTypes'
    BY <1>1, <1>2 DEF Fetch, Scan, MoveAway, MoveIn, MoveInFails, Fail, Report, Crash, DiskTypes,
                Directory, diskVars
  <1>4. CASE Report(w) \/ Crash(w)
    <2>1. work' = [work EXCEPT ![w] = NoJob]
      BY <1>4 DEF Report, Crash
    <2> QED BY <1>1, <1>2, <1>3, <2>1, NoJobType, WorkStep
            DEF NoJob, PreCommit, Written, VectorsFirst
  <1>5. CASE Fetch(w) \/ MoveAway(w) \/ MoveInFails(w) \/ Fail(w)
    <2>1. PICK pc \in {"scan", "swap", "undo"} :
            /\ work' = [work EXCEPT ![w].pc = pc]
            /\ pc = "swap" => work[w].pc = "move"
            /\ work[w].pc \in PreCommit
      BY <1>5 DEF Fetch, MoveAway, MoveInFails, Fail, At, PreCommit
    <2> DEFINE k == [work[w] EXCEPT !.pc = pc]
    <2>2. work' = [work EXCEPT ![w] = k]
      BY <2>1
    <2>3. /\ k \in JobState /\ k.pc = pc /\ k.id = work[w].id
          /\ k.old = work[w].old /\ k.new = work[w].new
      BY <1>1 DEF JobState, PreCommit
    <2> HIDE DEF k
    <2>4. k.pc \in Written => work[w].pc \in Written
      BY <2>1, <2>3 DEF Written
    <2>5. /\ k.pc \notin {"idle", "retire", "write"} /\ work[w].pc # "idle"
          /\ work[w].pc \in PreCommit
      BY <2>1, <2>3 DEF PreCommit
    <2> QED BY <1>1, <1>2, <1>3, <2>2, <2>3, <2>4, <2>5, WorkStep DEF VectorsFirst
  <1>6. CASE Scan(w)
    <2> DEFINE k == [work[w] EXCEPT !.pc = "write", !.tree = staging]
    <2>1. work' = [work EXCEPT ![w] = k] /\ work[w].pc = "scan" /\ staging \in Tree
      BY <1>1, <1>6 DEF Scan, At, DiskTypes, Directory
    <2>2. /\ k \in JobState /\ k.pc = "write" /\ k.tree = staging /\ k.id = work[w].id
          /\ k.old = work[w].old /\ k.new = work[w].new
      BY <1>1, <2>1 DEF JobState, PreCommit, Directory
    <2> HIDE DEF k
    <2> QED BY <1>1, <1>2, <1>3, <2>1, <2>2, WorkStep DEF PreCommit, Written, VectorsFirst
  <1>7. CASE MoveIn(w)
    <2> DEFINE k == [work[w] EXCEPT !.pc = "commit", !.replaced = TRUE]
    <2>1. work' = [work EXCEPT ![w] = k] /\ work[w].pc = "swap"
      BY <1>1, <1>7 DEF MoveIn, At
    <2>2. /\ k \in JobState /\ k.pc = "commit" /\ k.id = work[w].id
          /\ k.old = work[w].old /\ k.new = work[w].new
      BY <1>1 DEF JobState, PreCommit
    <2> HIDE DEF k
    <2> QED BY <1>1, <1>2, <1>3, <2>1, <2>2, WorkStep DEF PreCommit, Written, VectorsFirst
  <1> QED BY <1>4, <1>5, <1>6, <1>7

\* Vectors are written, or taken back after a failure.
LEMMA VectorSteps ==
  ASSUME IndexInv, NEW w \in Worker, Write(w) \/ WriteFails(w) \/ Undo(w)
  PROVE  IndexInv'
  <1>1. /\ work[w] \in JobState /\ work \in [Worker -> JobState] /\ DiskTypes /\ VectorsFirst
        /\ rows \subseteq AnyChunk
        /\ \A row \in rows : Spent(row)
        /\ \A c \in work[w].old : Spent(c)
        /\ \A c \in work[w].new : c.job = work[w].id
    BY DEF IndexInv, IndexTypes, Ownership
  <1>2. UNCHANGED <<rows, queued, jobs, remote>> /\ work[w].pc \in PreCommit
    BY DEF Write, WriteFails, Undo, dbVars, diskVars, queueVars, remoteVars, At, PreCommit
  <1>3. DiskTypes'
    BY <1>1, <1>2 DEF Write, WriteFails, Undo, RestoredTarget, DiskTypes, Directory, diskVars
  <1>4. CASE Write(w)
    <2> DEFINE k == [work[w] EXCEPT !.pc = "move", !.old = Superseded(work[w]),
                                    !.new = Added(work[w])]
    <2>1. work' = [work EXCEPT ![w] = k] /\ vectors' = vectors \union Added(work[w])
      BY <1>4 DEF Write
    <2>2. Added(work[w]) \subseteq AnyChunk /\ \A c \in Added(work[w]) : c.job = work[w].id
      BY <1>1, <1>4, AddedType DEF Write, At, IndexInv, IndexTypes
    <2>3. Superseded(work[w]) \subseteq rows
      BY DEF Superseded
    <2>4. /\ k \in JobState /\ k.pc = "move" /\ k.id = work[w].id
          /\ k.old = Superseded(work[w]) /\ k.new = Added(work[w])
      BY <1>1, <2>2, <2>3 DEF JobState, PreCommit
    <2> HIDE DEF k
    <2>5. \A c \in k.old : Spent(c)
      BY <1>1, <2>3, <2>4
    <2>6. \A c \in k.new : c.job = k.id
      BY <2>2, <2>4
    <2> QED BY <1>1, <1>2, <1>3, <2>1, <2>4, <2>5, <2>6, WorkStep
            DEF PreCommit, Written, VectorsFirst
  <1>5. ASSUME NEW S, NEW pc \in {"undo", "report"}, \A c \in S : c.job = work[w].id,
               work' = [work EXCEPT ![w].pc = pc], vectors \ S \subseteq vectors'
        PROVE  IndexInv'
    <2> DEFINE k == [work[w] EXCEPT !.pc = pc]
    <2>1. work' = [work EXCEPT ![w] = k]
      BY <1>5
    <2>2. /\ k \in JobState /\ k.pc = pc /\ k.id = work[w].id
          /\ k.old = work[w].old /\ k.new = work[w].new
      BY <1>1 DEF JobState, PreCommit
    <2> HIDE DEF k
    <2>3. /\ rows \intersect S = {}
          /\ \A v \in Worker \ {w} : work[v].pc # "idle" => work[v].new \intersect S = {}
      BY <1>2, <1>5, OwnChunks
    <2>4. rows \subseteq vectors'
      BY <1>1, <1>5, <2>3 DEF VectorsFirst
    <2>5. \A v \in Worker \ {w} : work[v].pc \in Written => work[v].new \subseteq vectors'
      BY <1>1, <1>5, <2>3 DEF VectorsFirst, Written
    <2> QED BY <1>1, <1>2, <1>3, <2>1, <2>2, <2>4, <2>5, WorkStep DEF PreCommit, Written
  <1>6. CASE WriteFails(w)
    <2>1. \A c \in Added(work[w]) : c.job = work[w].id
      BY <1>1, <1>6, AddedType DEF WriteFails, At, IndexInv, IndexTypes
    <2> QED BY <1>5, <1>6, <2>1 DEF WriteFails
  <1>7. CASE Undo(w)
    BY <1>1, <1>5, <1>7 DEF Undo, Discard
  <1> QED BY <1>4, <1>6, <1>7

LEMMA CommitStep ==
  ASSUME IndexInv, NEW w \in Worker, Commit(w)
  PROVE  IndexInv'
  <1> DEFINE job == work[w]
             k == [work[w] EXCEPT !.pc = "retire"]
  <1>1. /\ job \in JobState /\ work \in [Worker -> JobState] /\ rows \subseteq AnyChunk
        /\ job.pc = "commit" /\ job.pc \in PreCommit /\ job.pc \in Written
    BY DEF IndexInv, IndexTypes, Commit, At, PreCommit, Written
  <1>2. /\ work' = [work EXCEPT ![w] = k] /\ rows' = (rows \ job.old) \union job.new
        /\ UNCHANGED <<queued, jobs, vectors, remote, target, staging, backup>>
    BY <1>1 DEF Commit, diskVars, queueVars, remoteVars
  <1>3. /\ k \in JobState /\ k.pc = "retire" /\ k.id = job.id
        /\ k.old = job.old /\ k.new = job.new
    BY <1>1 DEF JobState
  <1> HIDE DEF k
  <1>4. work'[w] = k /\ \A v \in Worker \ {w} : work'[v] = work[v]
    BY <1>1, <1>2
  <1>5. IndexTypes' /\ DiskTypes'
    <2>1. job.new \subseteq AnyChunk
      BY <1>1 DEF JobState
    <2> QED BY <1>1, <1>2, <1>3, <1>4, <2>1 DEF IndexInv, IndexTypes, DiskTypes
  <1>6. Unique'
    BY <1>1, <1>2, <1>3, <1>4 DEF IndexInv, Unique
  <1>7. ASSUME NEW c, Spent(c) \/ c.job = job.id PROVE Spent(c)'
    <2>1. CASE Spent(c)
      BY <1>2, <1>3, <1>4, <2>1 DEF Spent, PreCommit
    <2>2. CASE c.job = job.id
      BY <1>1, <1>2, <1>3, <1>4, <2>2 DEF Spent, PreCommit, IndexInv, Unique
    <2> QED BY <1>7, <2>1, <2>2
  <1>8. Ownership'
    <2>1. \A c \in rows' : Spent(c) \/ c.job = job.id
      BY <1>2 DEF IndexInv, Ownership
    <2> QED BY <1>3, <1>4, <1>7, <2>1 DEF IndexInv, Ownership
  <1>9. VectorsFirst'
    <2>1. job.new \subseteq vectors
      BY <1>1 DEF IndexInv, VectorsFirst
    <2>2. \A v \in Worker : work[v].old \intersect job.new = {}
      BY <1>1, OwnChunks DEF IndexInv, Ownership
    <2>3. \A v \in Worker \ {w} : work[v].pc = "retire" => work[v].old \intersect rows' = {}
      BY <1>2, <2>2 DEF IndexInv, VectorsFirst
    <2>4. k.old \intersect rows' = {}
      BY <1>2, <1>3, <2>2
    <2> QED BY <1>1, <1>2, <1>3, <1>4, <2>1, <2>3, <2>4
            DEF IndexInv, VectorsFirst, Written
  <1> QED BY <1>5, <1>6, <1>8, <1>9 DEF IndexInv

LEMMA RetireStep ==
  ASSUME IndexInv, NEW w \in Worker, Retire(w)
  PROVE  IndexInv'
  <1> DEFINE old == work[w].old
  <1>1. /\ work[w].pc = "retire" /\ work' = [work EXCEPT ![w] = NoJob]
        /\ UNCHANGED <<rows, queued, jobs, remote>> /\ vectors \ old \subseteq vectors'
    BY DEF Retire, At, Discard, Retired, dbVars, queueVars, remoteVars
  <1>2. DiskTypes'
    BY DEF Retire, IndexInv, DiskTypes, remoteVars, Directory
  <1>3. rows \subseteq vectors'
    BY <1>1 DEF IndexInv, VectorsFirst
  <1>4. ASSUME NEW v \in Worker \ {w}, work[v].pc \in Written
        PROVE  work[v].new \subseteq vectors'
    <2>1. old \intersect work[v].new = {}
      BY <1>4, OwnChunks DEF Written, PreCommit, IndexInv, Ownership
    <2> QED BY <1>1, <1>4, <2>1 DEF IndexInv, VectorsFirst
  <1> QED BY <1>1, <1>2, <1>3, <1>4, NoJobType, WorkStep DEF NoJob, PreCommit, Written

LEMMA StartStep ==
  ASSUME IndexInv, NEW w \in Worker, Start(w)
  PROVE  IndexInv'
  <1>1. PICK job \in queued : /\ queued' = queued \ {job}
             /\ work' = [work EXCEPT ![w] =
                  [NoJob EXCEPT !.pc = "fetch", !.id = job.id,
                                !.full = job.full \/ ~located \/ target = NoTree]]
    BY DEF Start
  <1> DEFINE k == [NoJob EXCEPT !.pc = "fetch", !.id = job.id,
                                !.full = job.full \/ ~located \/ target = NoTree]
  <1>2. work \in [Worker -> JobState] /\ job \in [id : Nat, full : BOOLEAN] /\ work[w].pc = "idle"
    BY DEF IndexInv, IndexTypes, Start, At
  <1>3. /\ k \in JobState /\ k.pc = "fetch" /\ k.id = job.id /\ k.old = {} /\ k.new = {}
    <2>1. (job.full \/ ~located \/ target = NoTree) \in BOOLEAN
      OBVIOUS
    <2> QED BY <1>2, <2>1 DEF NoJob, JobState, PreCommit, Directory
  <1>4. UNCHANGED <<rows, vectors, jobs, remote, target, backup>> /\ staging' = NoTree
    BY DEF Start, remoteVars
  <1> HIDE DEF k
  <1>5. work'[w] = k /\ \A v \in Worker \ {w} : work'[v] = work[v]
    BY <1>1, <1>2 DEF k
  <1>6. IndexTypes' /\ DiskTypes'
    <2>1. work' \in [Worker -> JobState]
      BY <1>1, <1>2, <1>3 DEF k
    <2> QED BY <1>1, <1>3, <1>4, <1>5, <2>1 DEF IndexInv, IndexTypes, DiskTypes, Directory
  <1>7. Unique'
    BY <1>1, <1>2, <1>3, <1>4, <1>5 DEF IndexInv, Unique
  <1>8. ASSUME NEW c, Spent(c) PROVE Spent(c)'
    BY <1>1, <1>3, <1>4, <1>5, <1>8 DEF Spent
  <1>9. Ownership'
    BY <1>3, <1>4, <1>5, <1>8 DEF IndexInv, Ownership
  <1>10. VectorsFirst'
    BY <1>3, <1>4, <1>5 DEF IndexInv, VectorsFirst, Written
  <1> QED BY <1>6, <1>7, <1>9, <1>10 DEF IndexInv

LEMMA RequestStep ==
  ASSUME IndexInv, NEW full \in BOOLEAN, Reindex(full)
  PROVE  IndexInv'
  <1> DEFINE new == [id |-> jobs + 1, full |-> full]
  <1>1. /\ jobs \in Nat /\ jobs' = jobs + 1
        /\ queued' = queued \union {new} \/ queued' = queued
        /\ UNCHANGED <<rows, vectors, work, remote, target, staging, backup>>
    BY DEF Reindex, IndexInv, IndexTypes, remoteVars, diskVars
  <1>2. IndexTypes' /\ DiskTypes'
    BY <1>1 DEF IndexInv, IndexTypes, DiskTypes
  <1>3. Unique'
    <2>1. \A w \in Worker : work[w].id \in Nat
      BY DEF IndexInv, IndexTypes, JobState
    <2>2. \A q \in queued : q.id \in Nat
      BY DEF IndexInv, IndexTypes
    <2>3. (\A q \in queued : q.id < new.id) /\ (\A w \in Worker : work[w].id < new.id)
      BY <1>1, <2>1, <2>2 DEF IndexInv, Unique
    <2>4. (\A q \in queued : q.id # new.id) /\ (\A w \in Worker : work[w].id # new.id)
      BY <1>1, <2>1, <2>2, <2>3
    <2>5. (\A q \in queued' : q.id <= jobs') /\ (\A w \in Worker : work'[w].id <= jobs')
      BY <1>1, <2>1, <2>2, <2>3
    <2> QED BY <1>1, <2>4, <2>5 DEF IndexInv, Unique
  <1>4. ASSUME NEW c \in AnyChunk, Spent(c) PROVE Spent(c)'
    <2>1. c.job \in Nat /\ c.job < new.id /\ c.job <= jobs'
      BY <1>1, <1>4 DEF AnyChunk, Spent
    <2>2. c.job # new.id
      BY <1>1, <2>1
    <2> QED BY <1>1, <1>4, <2>1, <2>2 DEF Spent
  <1>5. Ownership'
    <2>1. rows \subseteq AnyChunk /\ \A w \in Worker : work[w].old \subseteq AnyChunk
      BY DEF IndexInv, IndexTypes, JobState
    <2> QED BY <1>1, <1>4, <2>1 DEF IndexInv, Ownership
  <1>6. VectorsFirst'
    BY <1>1 DEF IndexInv, VectorsFirst
  <1> QED BY <1>2, <1>3, <1>5, <1>6 DEF IndexInv

LEMMA IndexStep == IndexInv /\ [Next]_vars => IndexInv'
  <1> SUFFICES ASSUME IndexInv, [Next]_vars PROVE IndexInv'
    OBVIOUS
  <1>1. CASE Push \/ UNCHANGED vars
    <2>1. UNCHANGED <<rows, vectors, queued, jobs, work, target, staging, backup>>
      BY <1>1 DEF Push, vars, dbVars, diskVars, queueVars
    <2>2. remote' \in Tree
      BY <1>1 DEF Push, vars, IndexInv, DiskTypes
    <2> QED BY <2>1, <2>2 DEF IndexInv, IndexTypes, DiskTypes, Unique, Ownership, Spent,
                              VectorsFirst
  <1>2. ASSUME NEW full \in BOOLEAN, Reindex(full) PROVE IndexInv'
    BY <1>2, RequestStep
  <1>3. ASSUME NEW w \in Worker, Job(w) \/ Crash(w) PROVE IndexInv'
    BY <1>3, PlainSteps, VectorSteps, CommitStep, RetireStep, StartStep DEF Job
  <1> QED BY <1>1, <1>2, <1>3 DEF Next

\* A committed chunk always has its vector: index_repository writes vectors before
\* it commits and retires them afterwards, and no failure, crash, lost clean-up or
\* second job for the same repository takes a vector that a row needs.
THEOREM RowsKeepTheirVectors == Spec => []NoDanglingRow
  <1>1. IndexInv => NoDanglingRow
    BY DEF IndexInv, VectorsFirst, NoDanglingRow
  <1> QED BY <1>1, IndexInit, IndexStep, PTL DEF Spec

-----------------------------------------------------------------------------
(* One job at a time.                                                      *)

\* The deployment of docker-compose: one worker takes index jobs.
OneWorker == \A v, w \in Worker : v = w

Covers(chunks, tree) ==
  /\ \A row \in chunks : tree[row.file] = row.content
  /\ \A f \in File : tree[f] # Absent => \E row \in chunks : row.file = f

\* The rows agree with a checkout in t, or nothing was ever indexed.
Base(t) ==
  IF located THEN t # NoTree /\ Covers(rows, t) ELSE t = NoTree /\ rows = {}

\* What a job has made ready for its commit, and where it lies
Prepared(j) ==
  /\ j.pc \in PreCommit => status # "indexed"
  /\ j.pc \in PreCommit \ {"commit", "undo", "report"} => ~j.replaced
  /\ j.pc = "commit" => j.replaced /\ target = j.tree
  /\ j.pc \in {"write", "move", "swap"} => staging = j.tree
  /\ j.pc \in Written =>
       j.tree \in Tree /\ j.old \subseteq rows /\ Covers((rows \ j.old) \union j.new, j.tree)

\* What an undisturbed job can still take back: the vectors beside the committed rows are its
\* own, and the old checkout is in its place or in the backup.
Undoable(j) ==
  /\ j.pc \in {"fetch", "scan", "write", "report"} => vectors = rows /\ Base(target)
  /\ j.pc = "move" => vectors = rows \union j.new /\ Base(target)
  /\ j.pc \in {"swap", "commit"} => vectors = rows \union j.new /\ Base(backup)
  /\ j.pc = "undo" => /\ vectors \subseteq rows \union j.new
                      /\ Base(IF j.replaced THEN backup ELSE target)
  /\ j.pc = "retire" => vectors = rows \union j.old /\ located /\ Base(target)

SerialInv ==
  /\ IndexedIsConsistent /\ FailureIsUndone
  /\ \A w \in Worker : Prepared(work[w])
  /\ ~disturbed => \A w \in Worker : Undoable(work[w])

LEMMA FilesAreNoTree == NoTree \notin Tree
  BY IndexAssumption DEF Tree

LEMMA SerialInit == Init => SerialInv
  <1> SUFFICES ASSUME Init PROVE SerialInv
    OBVIOUS
  <1>1. \A w \in Worker : work[w] = NoJob
    BY DEF Init
  <1>2. IndexedIsConsistent /\ FailureIsUndone
    BY DEF Init, IndexedIsConsistent, FailureIsUndone
  <1>3. Prepared(NoJob) /\ Undoable(NoJob)
    BY DEF Prepared, Undoable, NoJob, PreCommit, Written
  <1> QED BY <1>1, <1>2, <1>3 DEF SerialInv

\* The only job there is decides everything.
LEMMA SerialStep ==
  ASSUME OneWorker, NEW w \in Worker,
         Prepared(work[w])', ~disturbed' => Undoable(work[w])', IndexedIsConsistent',
         work'[w].pc = "idle" /\ ~disturbed' => vectors' = rows' /\ Base(target)'
  PROVE  SerialInv'
  <1>1. \A v \in Worker : v = w
    BY DEF OneWorker
  <1>2. FailureIsUndone'
    BY <1>1 DEF FailureIsUndone, At, Base, Covers, Describes
  <1> QED BY <1>1, <1>2 DEF SerialInv

\* The rows that remain of the committed ones and those that are added describe the tree
\* of the job, whatever the committed ones described.
LEMMA RowsDescribe ==
  ASSUME NEW j \in JobState, j.tree \in Tree, rows \subseteq AnyChunk
  PROVE  Covers((rows \ Superseded(j)) \union Added(j), j.tree)
  <1> DEFINE all == (rows \ Superseded(j)) \union Added(j)
  <1>1. ASSUME NEW row \in all PROVE j.tree[row.file] = row.content
    <2>1. CASE row \in rows /\ row \notin Superseded(j)
      BY <2>1 DEF Superseded
    <2>2. CASE row \in Added(j)
      BY <2>2 DEF Added
    <2> QED BY <1>1, <2>1, <2>2
  <1>2. ASSUME NEW f \in File, j.tree[f] # Absent PROVE \E row \in all : row.file = f
    <2> DEFINE c == [file |-> f, content |-> j.tree[f], job |-> j.id]
    <2>1. CASE j.full \/ ~Indexed(f, j.tree[f])
      <3>1. c \in Added(j) /\ c.file = f
        BY <1>2, <2>1 DEF Added
      <3> QED BY <3>1
    <2>2. CASE ~j.full /\ Indexed(f, j.tree[f])
      <3>1. PICK row \in rows : row.file = f /\ row.content = j.tree[f]
        BY <2>2 DEF Indexed
      <3>2. row \notin Superseded(j)
        BY <2>2, <3>1 DEF Superseded
      <3> QED BY <3>1, <3>2
    <2> QED BY <2>1, <2>2
  <1> QED BY <1>1, <1>2 DEF Covers

\* Steps that only touch the job and the directories beside the committed rows
LEMMA SerialPlain ==
  ASSUME IndexInv, SerialInv, OneWorker, NEW w \in Worker,
         Fetch(w) \/ Scan(w) \/ MoveAway(w) \/ MoveIn(w) \/ MoveInFails(w) \/ Fail(w)
  PROVE  SerialInv'
  <1>1. /\ IndexTypes /\ DiskTypes /\ work[w] \in JobState /\ work \in [Worker -> JobState]
        /\ rows \subseteq vectors /\ Prepared(work[w]) /\ (~disturbed => Undoable(work[w]))
        /\ IndexedIsConsistent
    BY DEF IndexInv, IndexTypes, VectorsFirst, SerialInv
  <1>2. UNCHANGED <<rows, vectors, located, disturbed>>
    BY DEF Fetch, Scan, MoveAway, MoveIn, MoveInFails, Fail, dbVars
  <1>3. work[w].pc \in PreCommit /\ status # "indexed"
    BY <1>1 DEF Fetch, Scan, MoveAway, MoveIn, MoveInFails, Fail, At, PreCommit, Prepared
  <1>4. status' # "indexed"
    BY <1>3 DEF Fetch, Scan, MoveAway, MoveIn, MoveInFails, Fail, dbVars
  <1>5. IndexedIsConsistent'
    BY <1>4 DEF IndexedIsConsistent
  <1>6. ASSUME NEW pc \in {"scan", "swap", "undo"}, work' = [work EXCEPT ![w].pc = pc],
               pc = "swap" => /\ work[w].pc = "move" /\ staging' = staging
                              /\ backup' = target,
               pc = "scan" => work[w].pc = "fetch" /\ target' = target,
               pc = "undo" =>
                 \/ /\ work[w].pc \in {"fetch", "scan", "write", "move", "commit"}
                    /\ target' = target /\ backup' = backup
                 \/ work[w].pc = "swap" /\ target' = backup
        PROVE  SerialInv'
    <2>2. /\ work'[w].pc = pc /\ work'[w].tree = work[w].tree
          /\ work'[w].replaced = work[w].replaced
          /\ work'[w].old = work[w].old /\ work'[w].new = work[w].new
      BY <1>1, <1>6 DEF JobState
    <2>3. Prepared(work[w])'
      BY <1>1, <1>2, <1>4, <1>6, <2>2 DEF Prepared, PreCommit, Written, Covers
    <2>4. ASSUME ~disturbed' PROVE Undoable(work[w])'
      <3>1. Undoable(work[w])
        BY <1>1, <1>2, <2>4
      <3>2. CASE pc = "scan"
        BY <1>2, <1>6, <2>2, <3>1, <3>2 DEF Undoable, Base, Covers
      <3>3. CASE pc = "swap"
        BY <1>2, <1>6, <2>2, <3>1, <3>3 DEF Undoable, Base, Covers
      <3>4. CASE pc = "undo"
        BY <1>1, <1>2, <1>6, <2>2, <3>1, <3>4 DEF Undoable, Base, Covers, Prepared, PreCommit
      <3> QED BY <1>6, <3>2, <3>3, <3>4
    <2> QED BY <1>5, <1>6, <2>2, <2>3, <2>4, SerialStep
  <1>7. CASE Fetch(w) \/ MoveAway(w) \/ MoveInFails(w) \/ Fail(w)
    <2>1. CASE Fetch(w)
      BY <1>6, <2>1 DEF Fetch, At
    <2>2. CASE MoveAway(w)
      BY <1>6, <2>2 DEF MoveAway, At
    <2>3. CASE MoveInFails(w)
      BY <1>6, <2>3 DEF MoveInFails, At
    <2>4. CASE Fail(w)
      BY <1>6, <2>4 DEF Fail, diskVars
    <2> QED BY <1>7, <2>1, <2>2, <2>3, <2>4
  <1>8. CASE Scan(w)
    <2>1. /\ work[w].pc = "scan" /\ UNCHANGED <<target, staging, backup>>
      BY <1>8 DEF Scan, At, diskVars
    <2>2. /\ work'[w].pc = "write" /\ work'[w].tree = staging
          /\ work'[w].replaced = work[w].replaced
          /\ work'[w].old = work[w].old /\ work'[w].new = work[w].new
      BY <1>1, <1>8 DEF Scan, JobState
    <2>3. Prepared(work[w])'
      BY <1>1, <1>2, <1>4, <2>1, <2>2 DEF Prepared, PreCommit, Written
    <2>4. ~disturbed' => Undoable(work[w])'
      BY <1>1, <1>2, <2>1, <2>2 DEF Undoable, Base, Covers
    <2> QED BY <1>5, <2>2, <2>3, <2>4, SerialStep
  <1>9. CASE MoveIn(w)
    <2>1. work[w].pc = "swap" /\ target' = staging /\ backup' = backup
      BY <1>9 DEF MoveIn, At
    <2>2. /\ work'[w].pc = "commit" /\ work'[w].tree = work[w].tree
          /\ work'[w].replaced = TRUE
          /\ work'[w].old = work[w].old /\ work'[w].new = work[w].new
      BY <1>1, <1>9 DEF MoveIn, JobState
    <2>3. Prepared(work[w])'
      BY <1>1, <1>2, <1>4, <2>1, <2>2 DEF Prepared, PreCommit, Written, Covers
    <2>4. ~disturbed' => Undoable(work[w])'
      BY <1>1, <1>2, <2>1, <2>2 DEF Undoable, Base, Covers
    <2> QED BY <1>5, <2>2, <2>3, <2>4, SerialStep
  <1> QED BY <1>7, <1>8, <1>9

\* Vectors are written for rows that describe the tree of the job, or none are left.
LEMMA SerialWrite ==
  ASSUME IndexInv, SerialInv, OneWorker, NEW w \in Worker, Write(w) \/ WriteFails(w)
  PROVE  SerialInv'
  <1>1. /\ work[w] \in JobState /\ work \in [Worker -> JobState] /\ rows \subseteq AnyChunk
        /\ work[w].pc = "write" /\ work[w].tree \in Tree
        /\ Prepared(work[w]) /\ (~disturbed => Undoable(work[w]))
    BY DEF IndexInv, IndexTypes, SerialInv, Write, WriteFails, At
  <1>2. /\ UNCHANGED <<rows, located, status, target, staging, backup>>
        /\ status # "indexed" /\ ~work[w].replaced
    BY <1>1 DEF Write, WriteFails, dbVars, diskVars, Prepared, PreCommit
  <1>3. IndexedIsConsistent'
    BY <1>2 DEF IndexedIsConsistent
  <1>4. CASE Write(w)
    <2>1. /\ work'[w].pc = "move" /\ work'[w].tree = work[w].tree
          /\ work'[w].replaced = work[w].replaced
          /\ work'[w].old = Superseded(work[w]) /\ work'[w].new = Added(work[w])
          /\ vectors' = vectors \union Added(work[w]) /\ disturbed' = disturbed
      BY <1>1, <1>4 DEF Write, JobState
    <2>2. Superseded(work[w]) \subseteq rows
      BY DEF Superseded
    <2>3. Covers((rows \ Superseded(work[w])) \union Added(work[w]), work[w].tree)
      BY <1>1, RowsDescribe
    <2>4. Covers((rows' \ work'[w].old) \union work'[w].new, work'[w].tree)
      BY <1>2, <2>1, <2>3
    <2>5. Prepared(work[w])'
      BY <1>1, <1>2, <2>1, <2>2, <2>4 DEF Prepared, PreCommit, Written, Covers
    <2>6. ~disturbed' => Undoable(work[w])'
      BY <1>1, <1>2, <2>1 DEF Undoable, Base, Covers
    <2> QED BY <1>3, <2>1, <2>5, <2>6, SerialStep
  <1>5. CASE WriteFails(w)
    <2>1. /\ work'[w].pc = "undo" /\ work'[w].tree = work[w].tree
          /\ work'[w].replaced = work[w].replaced
          /\ work'[w].old = work[w].old /\ work'[w].new = work[w].new
      BY <1>1, <1>5 DEF WriteFails, JobState
    <2>2. Prepared(work[w])'
      BY <1>2, <2>1 DEF Prepared, PreCommit, Written
    <2>3. ASSUME ~disturbed' PROVE Undoable(work[w])'
      <3>1. ~disturbed /\ vectors' = vectors \ Added(work[w])
        BY <1>5, <2>3 DEF WriteFails
      <3>2. vectors' \subseteq rows'
        BY <1>1, <1>2, <3>1 DEF Undoable
      <3>3. Base(target)'
        BY <1>1, <1>2, <3>1 DEF Undoable, Base, Covers
      <3> QED BY <1>2, <2>1, <3>2, <3>3 DEF Undoable, Base, Covers
    <2> QED BY <1>3, <2>1, <2>2, <2>3, SerialStep
  <1> QED BY <1>4, <1>5

\* A failed job takes back what it did, and is over.
LEMMA SerialUndo ==
  ASSUME IndexInv, SerialInv, OneWorker, NEW w \in Worker, Undo(w) \/ Report(w) \/ Crash(w)
  PROVE  SerialInv'
  <1>1. /\ work[w] \in JobState /\ work \in [Worker -> JobState]
        /\ Prepared(work[w]) /\ (~disturbed => Undoable(work[w])) /\ IndexedIsConsistent
    BY DEF IndexInv, IndexTypes, SerialInv
  <1>2. CASE Undo(w)
    <2>1. /\ work[w].pc = "undo" /\ work[w].pc \in PreCommit /\ status # "indexed"
          /\ UNCHANGED <<rows, located, status>>
      BY <1>1, <1>2 DEF Undo, At, dbVars, PreCommit, Prepared
    <2>2. work'[w].pc = "report"
      BY <1>1, <1>2 DEF Undo, JobState
    <2>3. IndexedIsConsistent'
      BY <2>1 DEF IndexedIsConsistent
    <2>4. Prepared(work[w])'
      BY <2>1, <2>2 DEF Prepared, PreCommit, Written
    <2>5. ASSUME ~disturbed' PROVE Undoable(work[w])'
      <3>1. ~disturbed
        BY <1>2, <2>5 DEF Undo, Discard
      <3>2. vectors' = vectors \ work[w].new
        BY <1>2, <2>5 DEF Undo, Discard
      <3>3. rows \intersect work[w].new = {} /\ rows \subseteq vectors
        BY <2>1, OwnChunks DEF IndexInv, Ownership, VectorsFirst
      <3>4. vectors' = rows'
        BY <1>1, <2>1, <3>1, <3>2, <3>3 DEF Undoable
      <3>5. target' = IF work[w].replaced THEN backup ELSE target
        BY <1>2 DEF Undo, RestoredTarget
      <3>6. Base(target)'
        BY <1>1, <2>1, <3>1, <3>5 DEF Undoable, Base, Covers
      <3> QED BY <2>2, <3>4, <3>6 DEF Undoable
    <2> QED BY <2>2, <2>3, <2>4, <2>5, SerialStep
  <1>3. CASE Report(w) \/ Crash(w)
    <2>1. work'[w] = NoJob /\ UNCHANGED <<rows, vectors, located, target>>
      BY <1>1, <1>3 DEF Report, Crash, dbVars, diskVars
    <2>2. IndexedIsConsistent'
      BY <1>1, <1>3, <2>1 DEF Report, Crash, dbVars, IndexedIsConsistent, Describes
    <2>3. Prepared(work[w])' /\ Undoable(work[w])'
      BY <2>1 DEF NoJob, Prepared, Undoable, PreCommit, Written
    <2>4. ~disturbed' => vectors' = rows' /\ Base(target)'
      BY <1>1, <1>3, <2>1 DEF Report, Crash, At, Undoable, Base, Covers
    <2> QED BY <2>2, <2>3, <2>4, SerialStep
  <1> QED BY <1>2, <1>3

\* The commit makes the new rows those of the checkout that was moved in; what they replace
\* is retired afterwards.
LEMMA SerialCommit ==
  ASSUME IndexInv, SerialInv, OneWorker, NEW w \in Worker, Commit(w) \/ Retire(w)
  PROVE  SerialInv'
  <1>1. /\ work[w] \in JobState /\ work \in [Worker -> JobState]
        /\ Prepared(work[w]) /\ (~disturbed => Undoable(work[w])) /\ IndexedIsConsistent
    BY DEF IndexInv, IndexTypes, SerialInv
  <1>2. CASE Commit(w)
    <2>1. /\ work[w].pc = "commit" /\ work[w].pc \in Written
          /\ rows' = (rows \ work[w].old) \union work[w].new
          /\ UNCHANGED <<vectors, target, disturbed>> /\ located' = TRUE
      BY <1>2 DEF Commit, At, diskVars, Written
    <2>2. /\ work'[w].pc = "retire" /\ work'[w].old = work[w].old
      BY <1>1, <1>2 DEF Commit, JobState
    <2>3. /\ target = work[w].tree /\ work[w].tree \in Tree /\ work[w].old \subseteq rows
          /\ Covers((rows \ work[w].old) \union work[w].new, work[w].tree)
      BY <1>1, <2>1 DEF Prepared
    <2>4. Covers(rows', target')
      BY <2>1, <2>3
    <2>5. target' # NoTree
      BY <2>1, <2>3, FilesAreNoTree
    <2>6. IndexedIsConsistent'
      BY <2>1, <2>4, <2>5 DEF IndexedIsConsistent, Describes, Covers
    <2>7. Prepared(work[w])'
      BY <2>2 DEF Prepared, PreCommit, Written
    <2>8. ~disturbed => vectors = rows \union work[w].new
      BY <1>1, <2>1 DEF Undoable
    <2>9. ~disturbed' => vectors' = rows' \union work'[w].old
      BY <2>1, <2>2, <2>3, <2>8
    <2>10. Base(target)'
      BY <2>1, <2>4, <2>5 DEF Base
    <2>11. ~disturbed' => Undoable(work[w])'
      BY <2>1, <2>2, <2>9, <2>10 DEF Undoable
    <2> QED BY <2>2, <2>6, <2>7, <2>11, SerialStep
  <1>3. CASE Retire(w)
    <2>1. /\ work[w].pc = "retire" /\ work'[w] = NoJob
          /\ UNCHANGED <<rows, located, status, target>>
      BY <1>1, <1>3 DEF Retire, At, dbVars
    <2>2. IndexedIsConsistent'
      BY <1>1, <2>1 DEF IndexedIsConsistent, Describes
    <2>3. Prepared(work[w])' /\ Undoable(work[w])'
      BY <2>1 DEF NoJob, Prepared, Undoable, PreCommit, Written
    <2>4. ASSUME ~disturbed' PROVE vectors' = rows' /\ Base(target)'
      <3>1. /\ rows \subseteq vectors /\ work[w].old \intersect rows = {}
        BY <2>1 DEF IndexInv, VectorsFirst
      <3>2. CASE vectors' = vectors \ work[w].old /\ UNCHANGED disturbed
        <4>1. vectors = rows \union work[w].old /\ Base(target)
          BY <1>1, <2>1, <2>4, <3>2 DEF Undoable
        <4> QED BY <2>1, <3>1, <3>2, <4>1 DEF Base, Covers
      <3> QED BY <1>3, <2>4, <3>2 DEF Retire, Discard, Retired
    <2> QED BY <2>2, <2>3, <2>4, SerialStep
  <1> QED BY <1>2, <1>3

LEMMA SerialStart ==
  ASSUME IndexInv, SerialInv, OneWorker, NEW w \in Worker, Start(w)
  PROVE  SerialInv'
  <1>1. /\ work \in [Worker -> JobState] /\ work[w].pc = "idle"
        /\ UNCHANGED <<rows, vectors, located, target, disturbed>> /\ status' = "cloning"
    BY DEF IndexInv, IndexTypes, Start, At
  <1>2. work'[w].pc = "fetch" /\ work'[w].replaced = FALSE
    BY <1>1 DEF Start, NoJob
  <1>3. \A v \in Worker : At(v, "idle")
    BY <1>1 DEF OneWorker, At
  <1>4. ~disturbed => vectors = rows /\ Base(target)
    BY <1>3 DEF SerialInv, FailureIsUndone, Base, Covers, Describes
  <1>5. Prepared(work[w])'
    BY <1>1, <1>2 DEF Prepared, PreCommit, Written
  <1>6. ~disturbed' => Undoable(work[w])'
    BY <1>1, <1>2, <1>4 DEF Undoable, Base, Covers
  <1>7. IndexedIsConsistent'
    BY <1>1 DEF IndexedIsConsistent
  <1> QED BY <1>2, <1>5, <1>6, <1>7, SerialStep

LEMMA SerialSteps == OneWorker /\ IndexInv /\ SerialInv /\ [Next]_vars => SerialInv'
  <1> SUFFICES ASSUME OneWorker, IndexInv, SerialInv, [Next]_vars PROVE SerialInv'
    OBVIOUS
  <1>1. CASE Push \/ UNCHANGED vars
    <2>1. UNCHANGED <<rows, vectors, located, status, work, target, staging, backup, disturbed>>
      BY <1>1 DEF Push, vars, dbVars, diskVars, queueVars
    <2> QED BY <2>1 DEF SerialInv, IndexedIsConsistent, FailureIsUndone, Describes, At,
                        Prepared, Undoable, Base, Covers
  <1>2. ASSUME NEW full \in BOOLEAN, Reindex(full) PROVE SerialInv'
    <2>1. /\ UNCHANGED <<rows, vectors, located, work, target, staging, backup, disturbed>>
          /\ status' \in {"pending", "failed"}
      BY <1>2 DEF Reindex, dbVars, diskVars
    <2>2. IndexedIsConsistent'
      BY <2>1 DEF IndexedIsConsistent
    <2>3. FailureIsUndone'
      BY <2>1 DEF SerialInv, FailureIsUndone, Describes, At
    <2>4. \A w \in Worker : Prepared(work[w])'
      BY <2>1 DEF SerialInv, Prepared, Covers
    <2>5. ~disturbed' => \A w \in Worker : Undoable(work[w])'
      BY <2>1 DEF SerialInv, Undoable, Base, Covers
    <2> QED BY <2>2, <2>3, <2>4, <2>5 DEF SerialInv
  <1>3. ASSUME NEW w \in Worker, Job(w) \/ Crash(w) PROVE SerialInv'
    BY <1>3, SerialPlain, SerialWrite, SerialUndo, SerialCommit, SerialStart DEF Job
  <1> QED BY <1>1, <1>2, <1>3 DEF Next

LEMMA SerialAlways == Spec => [](OneWorker => SerialInv)
  <1>1. Init => (OneWorker => SerialInv)
    BY SerialInit
  <1>2. IndexInv /\ (OneWorker => SerialInv) /\ [Next]_vars => (OneWorker => SerialInv)'
    BY SerialSteps DEF OneWorker
  <1>3. IndexInv /\ [Next]_vars => IndexInv'
    BY IndexStep
  <1> QED BY <1>1, <1>2, <1>3, IndexInit, PTL DEF Spec

\* With one worker, as deployed, a repository that is called indexed has a checkout which its
\* rows describe file by file, also after jobs that were killed between two stores.
THEOREM IndexIsTrue == Spec => [](OneWorker => IndexedIsConsistent)
  <1>1. (OneWorker => SerialInv) => (OneWorker => IndexedIsConsistent)
    BY DEF SerialInv
  <1> QED BY <1>1, SerialAlways, PTL

\* And a job that failed anywhere before its commit has undone what it did in all three
\* stores (_restore_workspace, the compensation of vectors), unless that was prevented.
THEOREM FailedJobsLeaveNothing == Spec => [](OneWorker => FailureIsUndone)
  <1>1. (OneWorker => SerialInv) => (OneWorker => FailureIsUndone)
    BY DEF SerialInv
  <1> QED BY <1>1, SerialAlways, PTL

-----------------------------------------------------------------------------
(* Repairs of a workflow run.                                              *)

Deciding == {"new", "loaded", "ready", "pushing", "opening", "made", "broken", "done", "error"}

Starting == {"new", "reading", "created", "queueing", "done", "error"}

StatusTypes ==
  /\ repair \in RepairStatus /\ run \in AgentRunStatus /\ paused \in BOOLEAN
  /\ approved \in BOOLEAN /\ verified \in BOOLEAN /\ reopens \in Nat
  /\ worker \in {"free", "fixing", "syncing", "synced"}
  /\ decide \in [Decider -> Deciding]

\* A run without a row does not exist: no job of it is in the queue or about to be.
Unstarted ==
  /\ runJobs \in Nat /\ start \in [Starter -> Starting]
  /\ repair = "none" => /\ run = "none" /\ ~paused /\ runJobs = 0 /\ worker = "free"
                       /\ \A s \in Starter : start[s] # "queueing"

\* A verdict ends what goes on: no job is at work on the run, and no call of it waits. A
\* verified run has its diff.
VerdictIsFinal ==
  /\ worker = "fixing" => run = "running"
  /\ run \in Verdict => ~paused
  /\ run = "verified_success" => verified /\ patch = "verified"

\* The run had a good verdict, and has it still unless it was resumed after it.
Verified == verified /\ (reopens = 0 => run = "verified_success")

\* A row is offered for a draft, and a decision goes on, for a verified run only; and past the
\* approval, for an approved one only.
Offered ==
  /\ repair = "waiting_approval" => Verified
  /\ \A d \in Decider : decide[d] = "ready" => Verified
  /\ \A d \in Decider :
       decide[d] \in {"pushing", "opening", "made"} => Verified /\ approved
  /\ branches # {} => Verified /\ approved

\* Where a draft is told of, there is one. Drafts and branches have the repair's name.
Told ==
  /\ repair = "draft_pr_created" => pulls # {}
  /\ \A d \in Decider : decide[d] = "made" => pulls # {}
  /\ pulls \subseteq {"ci-fix"}

RepairInv ==
  StatusTypes /\ Unstarted /\ VerdictIsFinal /\ Offered /\ Told

LEMMA RepairInit == GitHubInit => RepairInv
  <1> SUFFICES ASSUME GitHubInit PROVE RepairInv
    OBVIOUS
  <1>1. StatusTypes /\ Unstarted
    BY DEF GitHubInit, StatusTypes, Unstarted, Starting, Deciding, RepairStatus, AgentRunStatus
  <1>2. VerdictIsFinal /\ Offered /\ Told
    BY DEF GitHubInit, VerdictIsFinal, Verdict, Offered, Told
  <1>3. QED
    BY <1>1, <1>2 DEF RepairInv

\* Requests that start the repair: at most they give it its run, or fail it.
LEMMA StartKeepsInv ==
  ASSUME RepairInv, NEW s \in Starter,
         \/ LookUp(s) \/ NotRepairable(s) \/ CreateRun(s)
         \/ CreateRepair(s) \/ QueueRun(s) \/ StarterDies(s)
  PROVE  RepairInv'
  <1> USE DEF RepairInv, StatusTypes, RepairStatus, AgentRunStatus, Deciding, Unstarted,
        Starting, VerdictIsFinal, Verdict, Paused, Offered, Verified, Told,
        rowVars, runVars, diffVars, jobVars, pullVars
  <1>1. CASE LookUp(s) \/ NotRepairable(s) \/ CreateRun(s)
    <2>1. CASE LookUp(s)
      BY <2>1 DEF LookUp
    <2>2. CASE NotRepairable(s)
      BY <2>2 DEF NotRepairable
    <2>3. CASE CreateRun(s)
      BY <2>3 DEF CreateRun
    <2>4. QED
      BY <1>1, <2>1, <2>2, <2>3
  <1>2. CASE CreateRepair(s)
    BY <1>2 DEF CreateRepair
  <1>3. CASE QueueRun(s)
    BY <1>3 DEF QueueRun
  <1>4. CASE StarterDies(s)
    BY <1>4 DEF StarterDies
  <1>5. QED
    BY <1>1, <1>2, <1>3, <1>4

\* The run and its jobs: a verdict is given once, and the row follows it.
LEMMA RunKeepsInv ==
  ASSUME RepairInv,
         \/ StartRun \/ WorkerDies \/ ReadForSync \/ SyncJob
         \/ \E outcome \in Verdict : EndRun(outcome) \/ ResumeRun(outcome)
         \/ \E outcome \in Paused : PauseRun(outcome) \/ PauseAgain(outcome)
  PROVE  RepairInv'
  <1> USE DEF RepairInv, StatusTypes, RepairStatus, AgentRunStatus, Deciding, Unstarted,
        Starting, VerdictIsFinal, Verdict, Paused, Offered, Verified, Told,
        rowVars, runVars, diffVars, jobVars, pullVars
  <1>1. CASE StartRun
    BY <1>1 DEF StartRun
  <1>2. CASE WorkerDies \/ ReadForSync
    <2>1. CASE WorkerDies
      BY <2>1 DEF WorkerDies
    <2>2. CASE ReadForSync
      BY <2>2 DEF ReadForSync
    <2>3. QED
      BY <1>2, <2>1, <2>2
  <1>3. CASE SyncJob
    BY <1>3 DEF SyncJob, Synchronise, VerdictOnRepair
  <1>4. ASSUME NEW outcome \in Verdict, EndRun(outcome) PROVE RepairInv'
    BY <1>4 DEF EndRun, GiveVerdict, Run!Give
  <1>5. ASSUME NEW outcome \in Verdict, ResumeRun(outcome) PROVE RepairInv'
    <2>1. verified => verified'
      BY <1>5 DEF ResumeRun, GiveVerdict, Run!Give
    <2>2. verified' \in BOOLEAN /\ reopens' \in Nat
      BY <1>5 DEF ResumeRun, Resumable, GiveVerdict, Run!Give
    <2>3. Verified => Verified'
      BY <1>5, <2>1 DEF ResumeRun, Resumable
    <2>4. outcome = "verified_success" => verified' /\ patch' = "verified"
      BY <1>5 DEF ResumeRun, GiveVerdict, Run!Give
    <2>5. run' = outcome /\ paused' = FALSE
      BY <1>5 DEF ResumeRun, GiveVerdict, Run!Give
    <2> HIDE DEF Verified
    <2>6. Offered'
      BY <1>5, <2>3 DEF ResumeRun
    <2>7. VerdictIsFinal'
      BY <1>5, <2>4, <2>5 DEF ResumeRun
    <2>8. StatusTypes' /\ Unstarted' /\ Told'
      BY <1>5, <2>2, <2>5 DEF ResumeRun, Resumable
    <2>9. QED
      BY <2>6, <2>7, <2>8
  <1>6. ASSUME NEW outcome \in Paused, PauseRun(outcome) PROVE RepairInv'
    BY <1>6 DEF PauseRun
  <1>7. ASSUME NEW outcome \in Paused, PauseAgain(outcome) PROVE RepairInv'
    BY <1>7 DEF PauseAgain, Resumable
  <1>8. QED
    BY <1>1, <1>2, <1>3, <1>4, <1>5, <1>6, <1>7

\* Decisions: what they tested before they went on still holds when they write.
LEMMA DecisionKeepsInv ==
  ASSUME RepairInv, NEW d \in Decider,
         \/ LoadRepair(d) \/ Consider(d) \/ Reject(d) \/ Approve(d) \/ PushPatch(d)
         \/ OpenPull(d) \/ StoreOutcome(d) \/ DeciderDies(d)
  PROVE  RepairInv'
  <1> USE DEF RepairInv, StatusTypes, RepairStatus, AgentRunStatus, Deciding, Unstarted,
        Starting, VerdictIsFinal, Verdict, Paused, Offered, Verified, Told,
        rowVars, runVars, diffVars, jobVars, pullVars
  <1>1. CASE LoadRepair(d) \/ Reject(d) \/ DeciderDies(d)
    <2>1. CASE LoadRepair(d)
      BY <2>1 DEF LoadRepair
    <2>2. CASE Reject(d)
      BY <2>2 DEF Reject
    <2>3. CASE DeciderDies(d)
      BY <2>3 DEF DeciderDies
    <2>4. QED
      BY <1>1, <2>1, <2>2, <2>3
  <1>2. CASE Consider(d)
    BY <1>2 DEF Consider, Synchronise, VerdictOnRepair
  <1>3. CASE Approve(d)
    BY <1>3 DEF Approve
  <1>4. CASE PushPatch(d)
    BY <1>4 DEF PushPatch, Branch
  <1>5. CASE OpenPull(d)
    BY <1>5 DEF OpenPull, Branch
  <1>6. CASE StoreOutcome(d)
    BY <1>6 DEF StoreOutcome
  <1>7. QED
    BY <1>1, <1>2, <1>3, <1>4, <1>5, <1>6

LEMMA RepairStep == RepairInv /\ [GitHubNext]_githubVars => RepairInv'
  <1> SUFFICES ASSUME RepairInv, [GitHubNext]_githubVars PROVE RepairInv'
    OBVIOUS
  <1>1. CASE GitHubNext
    BY <1>1, StartKeepsInv, RunKeepsInv, DecisionKeepsInv DEF GitHubNext
  <1>2. CASE UNCHANGED githubVars
    BY <1>2 DEF githubVars, rowVars, runVars, diffVars, jobVars, pullVars, RepairInv,
      StatusTypes, Unstarted, VerdictIsFinal, Verified, Offered, Told
  <1>3. QED
    BY <1>1, <1>2

LEMMA RepairInvHolds == GitHubSpec => []RepairInv
  BY RepairInit, RepairStep, PTL DEF GitHubSpec

\* Whatever requests, jobs, resumptions and decisions overlap, a branch on GitHub is that of a
\* run that was verified and whose draft a human approved; unless the run was resumed after
\* that, it is the verified patch (sync_agent_result, decide_draft_pr).
THEOREM PushedIsVerifiedAndApproved == GitHubSpec => []OnlyVerifiedAndApproved
  <1>1. RepairInv => OnlyVerifiedAndApproved
    BY DEF RepairInv, Offered, Verified, VerdictIsFinal, OnlyVerifiedAndApproved
  <1>2. QED
    BY <1>1, RepairInvHolds, PTL

\* There is one draft pull request at most, and a row that tells of one is right (the branch
\* is named after the repair; GitHub's refusals and lost answers only fail the row).
THEOREM DraftIsOneAndTrue == GitHubSpec => []OneTrueDraft
  <1>1. RepairInv => OneTrueDraft
    BY DEF RepairInv, Told, OneTrueDraft
  <1>2. QED
    BY <1>1, RepairInvHolds, PTL

\* Whoever knows of the run what its contract says knows all that this module lets it do:
\* the jobs, resumptions and crashes of a run that a repair refers to change its row only
\* in those ways (run_fix, resume_from_execution, resume_from_approval).
THEOREM RepairedRunKeepsContract == GitHubSpec => Run!Spec
  <1>1. GitHubInit => Run!Init
    BY DEF GitHubInit, Run!Init
  <1>2. [GitHubNext]_githubVars => [Run!Next]_(Run!contractVars)
    <2> SUFFICES ASSUME [GitHubNext]_githubVars PROVE [Run!Next]_(Run!contractVars)
      OBVIOUS
    <2> USE DEF Run!contractVars, rowVars, runVars, diffVars
    <2>1. ASSUME NEW s \in Starter,
                 \/ LookUp(s) \/ NotRepairable(s) \/ CreateRun(s) \/ QueueRun(s) \/ StarterDies(s)
          PROVE  UNCHANGED <<run, patch>>
      BY <2>1 DEF LookUp, NotRepairable, CreateRun, QueueRun, StarterDies
    <2>2. ASSUME NEW s \in Starter, CreateRepair(s)
          PROVE  Run!Work \/ UNCHANGED <<run, patch>>
      BY <2>2 DEF CreateRepair, Run!Work
    <2>3. CASE WorkerDies \/ ReadForSync \/ SyncJob \/ UNCHANGED githubVars
      BY <2>3 DEF WorkerDies, ReadForSync, SyncJob, githubVars
    <2>4. CASE StartRun
      BY <2>4 DEF StartRun, Run!Work, Run!Next
    <2>5. ASSUME NEW outcome \in Verdict, EndRun(outcome) \/ ResumeRun(outcome)
          PROVE  Run!Give(outcome) /\ outcome \in Run!Verdict
      BY <2>5 DEF EndRun, ResumeRun, GiveVerdict, Verdict, Run!Verdict
    <2>6. ASSUME NEW outcome \in Paused, PauseRun(outcome) \/ PauseAgain(outcome)
          PROVE  Run!Work \/ UNCHANGED <<run, patch>>
      BY <2>6 DEF PauseRun, PauseAgain, Paused, Run!Paused, Run!Work
    <2>7. ASSUME NEW d \in Decider,
                 \/ LoadRepair(d) \/ Consider(d) \/ Reject(d) \/ Approve(d) \/ PushPatch(d)
                 \/ OpenPull(d) \/ StoreOutcome(d) \/ DeciderDies(d)
          PROVE  UNCHANGED <<run, patch>>
      BY <2>7 DEF LoadRepair, Consider, Reject, Approve, PushPatch, OpenPull, StoreOutcome,
                  DeciderDies
    <2> QED BY <2>1, <2>2, <2>3, <2>4, <2>5, <2>6, <2>7 DEF GitHubNext, Run!Next
  <1> QED BY <1>1, <1>2, PTL DEF GitHubSpec, Run!Spec
=============================================================================
