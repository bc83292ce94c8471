------------------------------ MODULE CopyPool ------------------------------
(***************************************************************************)
(* copy_plan and process_job of src/ext4/copy.rs: a list of jobs is worked *)
(* off by a team of threads that share one atomic counter, one cancel flag *)
(* and one vector of errors, or by the calling thread alone when the list  *)
(* is short.  A job is known by its index, counted from 1.                 *)
(*                                                                         *)
(* The destination tree is kept as what each path is ("node") and who      *)
(* wrote each chunk of the file there ("data"); the payload of job i is    *)
(* the number i in every chunk, so data tells whose bytes a file holds.    *)
(***************************************************************************)
EXTENDS Integers, Sequences, FiniteSets

CONSTANTS
    Worker,     \* the threads copy_plan may spawn
    Main,       \* the thread that calls copy_plan
    Path,       \* destination paths
    Above,      \* Above[p]: the proper ancestors of p, created on demand
    Plan,       \* the job lists that may be asked for
    Disk,       \* what the destination may hold before the copy
    SeqBelow,   \* lists shorter than this are copied by Main (8 in the code)
    MaxChunk    \* bound: the longest file, in chunks

Thread == Worker \cup {Main}
Chunk == 1 .. MaxChunk

\* Job::Dir(dest) and Job::File(ino, dest).  A bad file has an inode whose
\* extent header promises more entries than fit, so mapping it may panic.
Job == [kind : {"dir", "file"}, dest : Path, size : 0 .. MaxChunk, bad : BOOLEAN]

NodeKind == {"none", "dir", "file"}

\* Whose bytes a chunk holds when no job wrote it: a hole, or an old file's.
Hole == 0
Old == -1

\* The error "cannot open source handle", which belongs to no job.
NoHandle == 0

ASSUME PoolAssumption ==
    /\ Main \notin Worker
    /\ IsFiniteSet(Worker)
    /\ MaxChunk \in Nat
    /\ SeqBelow \in Nat
    /\ Above \in [Path -> SUBSET Path]
    /\ \A p \in Path : p \notin Above[p] /\ \A q \in Above[p] : Above[q] \subseteq Above[p]
    /\ Plan \subseteq Seq(Job)
    /\ Disk \subseteq [Path -> NodeKind]
    /\ \A d \in Disk : \A p \in Path :
          d[p] # "none" => \A q \in Above[p] : d[q] = "dir"

VARIABLES
    jobs,       \* the argument "jobs"
    crew,       \* the threads to spawn: "workers" after clamp(1, 64)
    cancel,     \* the shared AtomicBool
    pc,         \* where each thread is
    next,       \* the shared AtomicUsize: jobs handed out so far
    cur,        \* the job a thread holds, 0 for none
    pos,        \* the chunk a thread writes next
    local,      \* does the thread's vector "local" hold an error?
    shared,     \* errors_arc
    errors,     \* the caller's vector, as the set of jobs it reports
    done,       \* CopyProgress.done
    bytes,      \* CopyProgress.bytes
    node,       \* what each destination path is
    data,       \* who wrote each chunk of the file at a path
    status,     \* auxiliary: how far each job is
    fault       \* auxiliary: jobs that met an I/O error

call == <<jobs, crew, cancel>>
claims == <<next, cur>>
reports == <<shared, errors>>
progress == <<done, bytes>>
disk == <<node, data>>
outcomes == <<status, fault>>
vars == <<call, pc, claims, pos, local, reports, progress, disk, outcomes>>

\* Where a thread that holds a job can be, and where it is working on it.
Working == {"mkdir", "parent", "create", "write", "tick"}
Holding == Working \cup {"enter", "publish"}
Gone == {"exit", "nohandle", "panicked"}
Label == Holding \cup Gone \cup
         {"start", "idle", "open", "check", "claim", "join", "returned"}

JobId == DOMAIN jobs
JobOf(t) == jobs[cur[t]]
Dest(t) == jobs[cur[t]].dest
Sequential == Len(jobs) < SeqBelow \/ Cardinality(crew) <= 1
Returned == pc[Main] = "returned"

Goto(t, label) == pc' = [pc EXCEPT ![t] = label]

Init ==
    /\ jobs \in Plan
    /\ crew \in SUBSET Worker \ {{}}
    /\ cancel = FALSE
    /\ pc = [t \in Thread |-> IF t = Main THEN "start" ELSE "idle"]
    /\ next = 0
    /\ cur = [t \in Thread |-> 0]
    /\ pos = [t \in Thread |-> 1]
    /\ local = [t \in Thread |-> FALSE]
    /\ shared = {}
    /\ errors = {}
    /\ done = 0
    /\ bytes = 0
    /\ node \in Disk
    /\ data = [p \in Path |-> [k \in Chunk |-> IF node[p] = "file" THEN Old ELSE Hole]]
    /\ status = [i \in JobId |-> "pending"]
    /\ fault = {}

-----------------------------------------------------------------------------
(* Starting: nothing to do, the caller alone, or a team.                   *)

Begin ==
    /\ pc[Main] = "start"
    /\ \/ jobs = <<>> /\ Goto(Main, "returned")
       \/ jobs # <<>> /\ Sequential /\ Goto(Main, "open")
       \/ /\ jobs # <<>> /\ ~Sequential
          /\ pc' = [t \in Thread |-> IF t = Main THEN "join"
                                     ELSE IF t \in crew THEN "open" ELSE pc[t]]
    /\ UNCHANGED <<call, claims, pos, local, reports, progress, disk, outcomes>>

\* open_independent_handle: a worker that gets no handle leaves without a word.
OpenHandle(t) ==
    /\ pc[t] = "open"
    /\ \/ Goto(t, "check") /\ UNCHANGED errors
       \/ t = Main /\ Goto(t, "returned") /\ errors' = errors \cup {NoHandle}
       \/ t # Main /\ Goto(t, "nohandle") /\ UNCHANGED errors
    /\ UNCHANGED <<call, claims, pos, local, shared, progress, disk, outcomes>>

-----------------------------------------------------------------------------
(* Handing out jobs.                                                       *)

\* The worker's look at the cancel flag at the top of its loop; the slip is
\* to loop instead of leaving.
LookSpinning == IF cancel THEN "check" ELSE "claim"
AfterLook == IF cancel THEN "exit" ELSE "claim"

CheckCancel(t) ==
    /\ t # Main
    /\ pc[t] = "check"
    /\ Goto(t, AfterLook)
    /\ UNCHANGED <<call, claims, pos, local, reports, progress, disk, outcomes>>

\* next.fetch_add(1).  Slip: the counter is loaded and stored in two steps.
FetchAddRacy(t) ==
    next' = IF \E u \in Thread \ {t} : pc[u] = "claim" THEN next ELSE next + 1
FetchAdd(t) == next' = next + 1

\* "i >= jobs2.len()", and slips one too late and one too early.
PastEndLate(i) == i > Len(jobs)
PastEndEarly(i) == i + 1 >= Len(jobs)
PastEnd(i) == i >= Len(jobs)

\* "break" at the end of the list.
LeaveLoop(t) == Goto(t, "exit")

Claim(t) ==
    /\ pc[t] = "claim"
    /\ FetchAdd(t)
    /\ IF PastEnd(next)
         THEN LeaveLoop(t) /\ UNCHANGED cur
         ELSE Goto(t, "enter") /\ cur' = [cur EXCEPT ![t] = next + 1]
    /\ UNCHANGED <<call, pos, local, reports, progress, disk, outcomes>>

\* One turn of the sequential "for job in jobs".
SeqTurn ==
    /\ pc[Main] = "check"
    /\ IF cancel \/ PastEnd(next)
         THEN Goto(Main, "returned") /\ UNCHANGED <<next, cur>>
         ELSE /\ Goto(Main, "enter")
              /\ next' = next + 1
              /\ cur' = [cur EXCEPT ![Main] = next + 1]
    /\ UNCHANGED <<call, pos, local, reports, progress, disk, outcomes>>

-----------------------------------------------------------------------------
(* process_job                                                             *)

\* The second look at the cancel flag, with the job in hand; the slip is not
\* to look.
NotLooking == FALSE
Stopped == cancel

Enter(t) ==
    /\ pc[t] = "enter"
    /\ IF Stopped
         THEN Goto(t, "publish") /\ UNCHANGED status
         ELSE /\ Goto(t, IF JobOf(t).kind = "dir" THEN "mkdir" ELSE "parent")
              /\ status' = [status EXCEPT ![cur[t]] = "running"]
    /\ UNCHANGED <<call, claims, pos, local, reports, progress, disk, fault>>

\* create_dir_all on a set of paths that holds the ancestors of its members.
Blocked(S) == \E p \in S : node[p] = "file"
WithDirs(S) == [p \in Path |-> IF p \in S THEN "dir" ELSE node[p]]
UpClosed(S) == \A p \in S : Above[p] \subseteq S

\* An error of the current job; it is an I/O fault unless the tree is in the way.
Fail(t, label, inTheWay) ==
    /\ local' = [local EXCEPT ![t] = TRUE]
    /\ fault' = IF inTheWay THEN fault ELSE fault \cup {cur[t]}
    /\ Goto(t, label)

\* create_dir_all(S) succeeds, or fails having made some of the directories.
MakeDirs(t, S, onOk, onError) ==
    \/ /\ ~Blocked(S)
       /\ node' = WithDirs(S)
       /\ Goto(t, onOk)
       /\ UNCHANGED <<local, fault>>
    \/ \E part \in SUBSET S :
          /\ part # S /\ UpClosed(part) /\ ~Blocked(part)
          /\ node' = WithDirs(part)
          /\ Fail(t, onError, Blocked(S))

DirJob(t) ==
    /\ pc[t] = "mkdir"
    /\ MakeDirs(t, Above[Dest(t)] \cup {Dest(t)}, "tick", "tick")
    /\ UNCHANGED <<call, claims, pos, reports, progress, data, status>>

\* read_inode, then create_dir_all on the parent; an error of either returns
\* without a tick.  Slip: to rely on the job of the directory having run.
NoParents(t) == {}
Parents(t) == Above[Dest(t)]

FileParent(t) ==
    /\ pc[t] = "parent"
    /\ \/ MakeDirs(t, Parents(t), "create", "publish")
       \/ Fail(t, "publish", FALSE) /\ UNCHANGED node
    /\ UNCHANGED <<call, claims, pos, reports, progress, data, status>>

\* File::create can only work on a path whose ancestors are directories and
\* that is not a directory itself; it truncates, and the bytes are counted.
\* Slip: to open the file for writing and keep its old bytes.
KeptOpen(p) == data[p]
Truncated(p) == [k \in Chunk |-> Hole]
CanCreate(p) == node[p] # "dir" /\ \A q \in Above[p] : node[q] = "dir"

FileCreate(t) ==
    /\ pc[t] = "create"
    /\ \/ /\ CanCreate(Dest(t))
          /\ node' = [node EXCEPT ![Dest(t)] = "file"]
          /\ data' = [data EXCEPT ![Dest(t)] = Truncated(Dest(t))]
          /\ bytes' = bytes + JobOf(t).size
          /\ pos' = [pos EXCEPT ![t] = 1]
          /\ Goto(t, "write")
          /\ UNCHANGED <<local, fault>>
       \/ /\ Fail(t, "publish", ~CanCreate(Dest(t)))
          /\ UNCHANGED <<pos, bytes, disk>>
    /\ UNCHANGED <<call, claims, reports, done, status>>

\* One chunk read through the thread's own handle and written at its own offset.
WriteChunk(t) ==
    /\ pc[t] = "write"
    /\ pos[t] <= JobOf(t).size
    /\ data' = [data EXCEPT ![Dest(t)][pos[t]] = cur[t]]
    /\ pos' = [pos EXCEPT ![t] = @ + 1]
    /\ UNCHANGED <<call, pc, claims, local, reports, progress, node, outcomes>>

\* All chunks are out: flush.
Flush(t) ==
    /\ pc[t] = "write"
    /\ pos[t] > JobOf(t).size
    /\ Goto(t, "tick")
    /\ UNCHANGED <<call, claims, pos, local, reports, progress, disk, outcomes>>

\* A read, a write or the flush fails.
WriteFails(t) ==
    /\ pc[t] = "write"
    /\ Fail(t, "tick", FALSE)
    /\ UNCHANGED <<call, claims, pos, reports, progress, disk, status>>

\* Mapping a block of a bad inode runs off the end of i_block: the thread
\* unwinds, and its local errors with it.
Panic(t) ==
    /\ pc[t] = "write"
    /\ JobOf(t).bad
    /\ pos[t] <= JobOf(t).size
    /\ Goto(t, "panicked")
    /\ cur' = [cur EXCEPT ![t] = 0]
    /\ status' = [status EXCEPT ![cur[t]] = "lost"]
    /\ UNCHANGED <<call, next, pos, local, reports, progress, disk, fault>>

\* done.fetch_add(1).  Slip: the count is loaded and stored in two steps.
CountRacy(t) ==
    done' = IF \E u \in Thread \ {t} : pc[u] = "tick" THEN done ELSE done + 1
Count(t) == done' = done + 1

Tick(t) ==
    /\ pc[t] = "tick"
    /\ Count(t)
    /\ Goto(t, "publish")
    /\ UNCHANGED <<call, claims, pos, local, reports, bytes, disk, outcomes>>

\* process_job is back: its errors are appended, under the lock in a worker.
Publish(t) ==
    LET report == IF local[t] THEN {cur[t]} ELSE {} IN
    /\ pc[t] = "publish"
    /\ IF t = Main
         THEN errors' = errors \cup report /\ UNCHANGED shared
         ELSE shared' = shared \cup report /\ UNCHANGED errors
    /\ status' = [status EXCEPT ![cur[t]] =
                     IF @ = "pending" THEN @ ELSE IF local[t] THEN "failed" ELSE "copied"]
    /\ local' = [local EXCEPT ![t] = FALSE]
    /\ cur' = [cur EXCEPT ![t] = 0]
    /\ Goto(t, "check")
    /\ UNCHANGED <<call, next, pos, progress, disk, fault>>

ProcessJob(t) ==
    \/ Enter(t) \/ DirJob(t) \/ FileParent(t) \/ FileCreate(t) \/ WriteChunk(t)
    \/ Flush(t) \/ WriteFails(t) \/ Panic(t) \/ Tick(t) \/ Publish(t)

-----------------------------------------------------------------------------
(* Ending                                                                  *)

\* Every handle is joined, whatever the thread came to, and the errors drained;
\* the slip leaves them in errors_arc.
Undrained == errors
Drained == errors \cup shared

JoinAndDrain ==
    /\ pc[Main] = "join"
    /\ \A w \in crew : pc[w] \in Gone
    /\ errors' = Drained
    /\ shared' = {}
    /\ Goto(Main, "returned")
    /\ UNCHANGED <<call, claims, pos, local, progress, disk, outcomes>>

\* The caller's Cancel button.
PressCancel ==
    /\ ~cancel
    /\ cancel' = TRUE
    /\ UNCHANGED <<jobs, crew, pc, claims, pos, local, reports, progress, disk, outcomes>>

Step(t) == OpenHandle(t) \/ CheckCancel(t) \/ Claim(t) \/ ProcessJob(t)
MainStep == Begin \/ SeqTurn \/ JoinAndDrain

\* The call is over, or its thread is.
Over == pc[Main] \in {"returned", "panicked"} /\ UNCHANGED vars

Next == (\E t \in Thread : Step(t)) \/ MainStep \/ PressCancel \/ Over

\* The operating system keeps running every thread; nobody has to press Cancel.
Fairness == WF_vars(MainStep) /\ \A t \in Thread : WF_vars(Step(t))

Spec == Init /\ [][Next]_vars
FairSpec == Spec /\ Fairness

-----------------------------------------------------------------------------
(* What the pool promises.                                                 *)

\* The type of the threads' and the shared state of copy_plan.
TypeOK ==
    /\ jobs \in Plan
    /\ crew \in SUBSET Worker
    /\ cancel \in BOOLEAN
    /\ pc \in [Thread -> Label]
    /\ next \in Nat
    /\ cur \in [Thread -> 0 .. Len(jobs)]
    /\ pos \in [Thread -> 1 .. MaxChunk + 1]
    /\ local \in [Thread -> BOOLEAN]
    /\ shared \in SUBSET JobId
    /\ errors \in SUBSET (JobId \cup {NoHandle})
    /\ done \in Nat
    /\ bytes \in Nat
    /\ node \in [Path -> NodeKind]
    /\ data \in [Path -> [Chunk -> Int]]
    /\ status \in [JobId -> {"pending", "running", "copied", "failed", "lost"}]
    /\ fault \in SUBSET JobId

\* Two threads never hold the same job, and a job somebody holds is not
\* finished: next.fetch_add hands every index out once.
ClaimedOnce ==
    \A t \in Thread : cur[t] # 0 =>
        /\ status[cur[t]] \in {"pending", "running"}
        /\ \A u \in Thread \ {t} : cur[u] # cur[t]

\* When copy_plan returns without having been cancelled, and the loop of some
\* thread came to its own end, every job was brought to an end: none fell
\* between two threads, however they interleaved and whichever of them died.
EveryJobEnded ==
    /\ Returned
    /\ ~cancel
    /\ \/ \E w \in crew : pc[w] = "exit"
       \/ Sequential /\ NoHandle \notin errors
    => \A i \in JobId : \/ status[i] \in {"copied", "failed"}
                        \/ status[i] = "lost" /\ jobs[i].bad

\* A job that ended well and shares its destination with no other job left
\* exactly its own data there: whatever the file held before is gone, and no
\* other thread's write or truncation got into it.
SoleOwner(i) == \A j \in JobId \ {i} : jobs[j].dest # jobs[i].dest
OwnData ==
    \A i \in JobId : status[i] = "copied" /\ jobs[i].kind = "file" /\ SoleOwner(i) =>
        /\ node[jobs[i].dest] = "file"
        /\ data[jobs[i].dest] = [k \in Chunk |-> IF k <= jobs[i].size THEN i ELSE Hole]

\* Jobs run in any order, a file before the job of the directory it goes into:
\* still a job fails only by an I/O fault of its own or because a file stands
\* where a directory must be, or a directory where the file must be.
InTheWay(i) ==
    \/ Blocked(Above[jobs[i].dest])
    \/ node[jobs[i].dest] = IF jobs[i].kind = "dir" THEN "file" ELSE "dir"
OnlyRealFailures ==
    \A i \in JobId : status[i] = "failed" => i \in fault \/ InTheWay(i)

\* Every worker reads the counter past the end at most once, so the index
\* stays within one team of the list's length and cannot wrap around.
CounterBounded == next <= Len(jobs) + Cardinality(crew)

\* What each of the jobs S adds to the count of bytes, and the sum of it.
Share(S) == [i \in JobId |-> IF i \in S /\ jobs[i].kind = "file" THEN jobs[i].size ELSE 0]
Total(share) ==
    LET upTo[k \in 0 .. Len(jobs)] == IF k = 0 THEN 0 ELSE upTo[k - 1] + share[k]
    IN  upTo[Len(jobs)]

\* The progress window may trust the counters: "done" never passes the number
\* of jobs, and after a copy that went well they equal the totals.
ProgressHonest ==
    /\ done <= Len(jobs)
    /\ Returned /\ (\A i \in JobId : status[i] = "copied") =>
          done = Len(jobs) /\ bytes = Total(Share(JobId))

\* After Cancel no thread starts on another job, not even on one it claimed
\* before the flag was set; only those already started go on.
CancelStops ==
    [][\A i \in JobId : cancel /\ status[i] = "pending" => status'[i] = "pending"]_vars

\* copy_plan returns, whatever fails and whenever Cancel comes, unless the
\* calling thread itself panicked in the sequential path.
Finishes == <>(pc[Main] \in {"returned", "panicked"})

\* Whatever the threads do, the caller sees what CopyContract describes; the
\* errors are the caller's to see when the call returns.
Contract == INSTANCE CopyContract WITH
    state <- status,
    cancelled <- cancel,
    returned <- Returned,
    report <- IF Returned THEN errors ELSE {}

ImplementsContract == Contract!Spec

\* What a caller shows as warnings is all that can have gone wrong: a copy that
\* was not cancelled and reports nothing has copied everything.
NothingSilent ==
    Returned /\ ~cancel /\ errors = {} => \A i \in JobId : status[i] = "copied"

=============================================================================
