--------------------------- MODULE CopyPoolProofs ---------------------------
(***************************************************************************)
(* Proofs about CopyPool, for every team, job list and destination disk:   *)
(* how jobs are claimed, what files hold, what failures come from, what    *)
(* becomes of each job when a call of copy_plan ends, that CopyPool        *)
(* implements CopyContract, and that the counters of the progress window   *)
(* are right.                                                              *)
(***************************************************************************)
EXTENDS CopyPool, FiniteSetTheorems, WellFoundedInduction, TLAPS

\* A thread holds a job exactly while it is inside process_job.
HoldsInside == \A t \in Thread : pc[t] \in Holding <=> cur[t] # 0

\* Nobody has been spawned before the caller decided how to work.
NotSpawned == pc[Main] = "start" => \A w \in Worker : pc[w] = "idle"

TypeInv == TypeOK /\ HoldsInside /\ NotSpawned

-----------------------------------------------------------------------------
(* The frame of the proofs: what the parameters are, once and for all.     *)

\* The jobs are a sequence of jobs, whatever plan was chosen.
LEMMA PlanFacts ==
    ASSUME TypeOK
    PROVE  /\ jobs \in Seq(Job)
           /\ Len(jobs) \in Nat
           /\ JobId = 1 .. Len(jobs)
           /\ \A i \in JobId : jobs[i] \in Job
  BY PoolAssumption DEF TypeOK, JobId

\* Inside process_job the thread's job is one of the list.
LEMMA HeldJob ==
    ASSUME TypeInv, NEW t \in Thread, pc[t] \in Holding
    PROVE  /\ cur[t] \in JobId
           /\ JobOf(t).kind \in {"dir", "file"}
           /\ Dest(t) \in Path
           /\ JobOf(t).size \in 0 .. MaxChunk
           /\ JobOf(t).size \in Nat
           /\ Above[Dest(t)] \subseteq Path
  <1>1. cur[t] \in 0 .. Len(jobs) /\ cur[t] # 0
    BY DEF TypeInv, TypeOK, HoldsInside
  <1>2. cur[t] \in JobId
    BY <1>1, PlanFacts DEF TypeInv
  <1>3. jobs[cur[t]] \in Job
    BY <1>2, PlanFacts DEF TypeInv
  <1>4. MaxChunk \in Nat
    BY PoolAssumption
  <1>5. /\ JobOf(t).kind \in {"dir", "file"}
        /\ Dest(t) \in Path
        /\ JobOf(t).size \in 0 .. MaxChunk
    BY <1>3 DEF Job, JobOf, Dest
  <1>6. Above[Dest(t)] \subseteq Path
    BY <1>5, PoolAssumption
  <1> QED BY <1>2, <1>4, <1>5, <1>6

\* The first state has the types, and no worker has been spawned.
LEMMA InitTypeInv == Init => TypeInv
  <1> SUFFICES ASSUME Init PROVE TypeInv
    OBVIOUS
  <1>1. jobs \in Seq(Job) /\ Len(jobs) \in Nat /\ MaxChunk \in Nat
    BY PoolAssumption DEF Init
  <1>2. node \in [Path -> NodeKind]
    BY PoolAssumption DEF Init
  <1>3. data \in [Path -> [Chunk -> Int]]
    BY DEF Init, Old, Hole
  <1>4. pc \in [Thread -> Label]
    BY DEF Init, Label
  <1>5. /\ cur \in [Thread -> 0 .. Len(jobs)]
        /\ pos \in [Thread -> 1 .. MaxChunk + 1]
        /\ local \in [Thread -> BOOLEAN]
        /\ status \in [JobId -> {"pending", "running", "copied", "failed", "lost"}]
    BY <1>1 DEF Init
  <1>6. TypeOK
    BY <1>1, <1>2, <1>3, <1>4, <1>5 DEF Init, TypeOK
  <1>7. HoldsInside
    BY DEF Init, HoldsInside, Label, Holding, Working
  <1>8. NotSpawned
    BY PoolAssumption DEF Init, NotSpawned, Thread
  <1> QED BY <1>6, <1>7, <1>8 DEF TypeInv

\* A step of a thread moves that thread only, and only once it was started.
LEMMA StepMoves ==
    ASSUME TypeOK, NEW t \in Thread, Step(t)
    PROVE  /\ pc[t] \notin {"start", "idle"}
           /\ \E label \in Holding \cup Gone \cup {"check", "claim", "returned"} :
                 pc' = [pc EXCEPT ![t] = label]
  <1> USE DEF Goto, Label, Holding, Working, Gone
  <1>1. CASE OpenHandle(t) \/ CheckCancel(t)
    BY <1>1 DEF OpenHandle, CheckCancel, AfterLook
  <1>2. CASE Claim(t)
    BY <1>2 DEF Claim, LeaveLoop
  <1>3. CASE Enter(t) \/ DirJob(t) \/ FileParent(t)
    BY <1>3 DEF Enter, DirJob, FileParent, MakeDirs, Fail
  <1>4. CASE FileCreate(t) \/ Flush(t) \/ WriteFails(t)
    BY <1>4 DEF FileCreate, Flush, WriteFails, Fail
  <1>5. CASE WriteChunk(t)
    <2>1. pc[t] = "write" /\ pc' = [pc EXCEPT ![t] = "write"]
      BY <1>5 DEF WriteChunk, TypeOK
    <2> QED BY <2>1
  <1>6. CASE Panic(t) \/ Tick(t) \/ Publish(t)
    BY <1>6 DEF Panic, Tick, Publish
  <1> QED BY <1>1, <1>2, <1>3, <1>4, <1>5, <1>6 DEF Step, ProcessJob

\* Every step of a thread, of the caller and of the user keeps the types.
LEMMA NextTypeInv == TypeInv /\ [Next]_vars => TypeInv'
  <1> SUFFICES ASSUME TypeInv, [Next]_vars PROVE TypeInv'
    OBVIOUS
  <1> USE DEF Goto, call, claims, reports, progress, disk, outcomes
  <1>0. /\ Len(jobs) \in Nat /\ JobId = 1 .. Len(jobs)
        /\ MaxChunk \in Nat
        /\ Main \in Thread
    BY PlanFacts, PoolAssumption DEF TypeInv, Thread
  <1>1. ASSUME MainStep PROVE TypeOK' /\ HoldsInside'
    <2>1. CASE Begin
      <3>1. pc' \in [Thread -> Label]
        BY <2>1, <1>0 DEF Begin, TypeInv, TypeOK, Label
      <3>2. TypeOK'
        BY <2>1, <1>0, <3>1 DEF Begin, TypeInv, TypeOK, JobId
      <3>3. \A w \in Worker : pc[w] = "idle" /\ w \in Thread
        BY <2>1 DEF Begin, TypeInv, NotSpawned, Thread
      <3>4. \A w \in Thread : pc[w] \notin Holding /\ pc'[w] \notin Holding
        BY <2>1, <1>0, <3>3 DEF Begin, TypeInv, TypeOK, Thread, Label, Holding, Working
      <3>5. HoldsInside'
        BY <2>1, <3>4 DEF Begin, TypeInv, HoldsInside, Label, Holding, Working
      <3> QED BY <3>2, <3>5
    <2>2. CASE SeqTurn
      <3>1. CASE cancel \/ next >= Len(jobs)
        BY <2>2, <1>0, <3>1 DEF SeqTurn, PastEnd, TypeInv, TypeOK, HoldsInside, Label, Holding, Working, JobId
      <3>2. CASE ~(cancel \/ next >= Len(jobs))
        <4>1. next + 1 \in 1 .. Len(jobs)
          BY <3>2, <1>0 DEF TypeInv, TypeOK
        <4>2. /\ cur' = [cur EXCEPT ![Main] = next + 1]
              /\ pc' = [pc EXCEPT ![Main] = "enter"]
          BY <2>2, <3>2 DEF SeqTurn, PastEnd
        <4>3. cur' \in [Thread -> 0 .. Len(jobs)]
          BY <4>1, <4>2, <1>0 DEF TypeInv, TypeOK
        <4>4. pc' \in [Thread -> Label]
          BY <4>2 DEF TypeInv, TypeOK, Label, Holding
        <4>5. TypeOK'
          BY <2>2, <1>0, <3>2, <4>3, <4>4 DEF SeqTurn, PastEnd, TypeInv, TypeOK, JobId
        <4>6. HoldsInside'
          BY <4>1, <4>2, <1>0 DEF TypeInv, TypeOK, HoldsInside, Label, Holding
        <4> QED BY <4>5, <4>6
      <3> QED BY <3>1, <3>2
    <2>3. CASE JoinAndDrain
      BY <2>3, <1>0 DEF JoinAndDrain, Drained, TypeInv, TypeOK, HoldsInside, Label, Holding, Working, JobId
    <2> QED BY <1>1, <2>1, <2>2, <2>3 DEF MainStep
  <1>2. ASSUME NEW t \in Thread, Step(t) PROVE TypeOK' /\ HoldsInside'
    <2>1. CASE OpenHandle(t)
      BY <2>1, <1>0 DEF OpenHandle, TypeInv, TypeOK, HoldsInside, Label, Holding, Working, Gone, JobId
    <2>2. CASE CheckCancel(t)
      BY <2>2, <1>0 DEF CheckCancel, AfterLook, TypeInv, TypeOK, HoldsInside, Label, Holding, Working, Gone, JobId
    <2>3. CASE Claim(t)
      <3>1. CASE next >= Len(jobs)
        <4>1. pc' = [pc EXCEPT ![t] = "exit"] /\ cur' = cur
          BY <2>3, <3>1 DEF Claim, PastEnd, LeaveLoop
        <4>2. pc' \in [Thread -> Label]
          BY <4>1 DEF TypeInv, TypeOK, Label, Gone
        <4>3. TypeOK'
          BY <2>3, <1>0, <4>1, <4>2 DEF Claim, FetchAdd, TypeInv, TypeOK, JobId
        <4>4. HoldsInside'
          BY <2>3, <4>1 DEF Claim, TypeInv, TypeOK, HoldsInside, Label, Holding, Working
        <4> QED BY <4>3, <4>4
      <3>2. CASE ~(next >= Len(jobs))
        <4>1. next + 1 \in 1 .. Len(jobs)
          BY <3>2, <1>0 DEF TypeInv, TypeOK
        <4>2. /\ cur' = [cur EXCEPT ![t] = next + 1]
              /\ pc' = [pc EXCEPT ![t] = "enter"]
          BY <2>3, <3>2 DEF Claim, PastEnd
        <4>3. cur' \in [Thread -> 0 .. Len(jobs)]
          BY <4>1, <4>2 DEF TypeInv, TypeOK
        <4>4. pc' \in [Thread -> Label]
          BY <4>2 DEF TypeInv, TypeOK, Label, Holding
        <4>5. TypeOK'
          BY <2>3, <1>0, <4>3, <4>4 DEF Claim, FetchAdd, TypeInv, TypeOK, JobId
        <4>6. HoldsInside'
          BY <4>1, <4>2, <1>0 DEF TypeInv, TypeOK, HoldsInside, Label, Holding
        <4> QED BY <4>5, <4>6
      <3> QED BY <3>1, <3>2
    <2>4. CASE ProcessJob(t)
      <3>1. pc[t] \in Holding
        BY <2>4 DEF ProcessJob, Enter, DirJob, FileParent, FileCreate, WriteChunk, Flush,
                    WriteFails, Panic, Tick, Publish, Holding, Working
      <3>2. /\ cur[t] \in JobId /\ Dest(t) \in Path /\ Above[Dest(t)] \subseteq Path
            /\ JobOf(t).size \in 0 .. MaxChunk /\ JobOf(t).size \in Nat
        BY <3>1, HeldJob
      <3> USE DEF TypeInv, TypeOK, HoldsInside, Label, Holding, Working, Gone
      <3>3. CASE Enter(t)
        BY <3>2, <3>3, <1>0 DEF Enter, Stopped, JobId
      <3>4. CASE DirJob(t)
        <4>1. node' \in [Path -> NodeKind]
          BY <3>4, <1>0 DEF DirJob, MakeDirs, WithDirs, NodeKind
        <4>2. /\ pc' = [pc EXCEPT ![t] = "tick"]
              /\ local' \in [Thread -> BOOLEAN]
              /\ fault' \in SUBSET JobId
          BY <3>2, <3>4 DEF DirJob, MakeDirs, Fail
        <4> QED BY <3>2, <3>4, <4>1, <4>2, <1>0 DEF DirJob, JobId
      <3>5. CASE FileParent(t)
        BY <3>2, <3>5, <1>0 DEF FileParent, MakeDirs, Fail, WithDirs, NodeKind, JobId
      <3>6. CASE FileCreate(t)
        <4>1. CASE Fail(t, "publish", ~CanCreate(Dest(t))) /\ UNCHANGED <<pos, bytes, node, data>>
          BY <3>2, <3>6, <4>1, <1>0 DEF FileCreate, Fail, JobId
        <4>2. CASE /\ node' = [node EXCEPT ![Dest(t)] = "file"]
                   /\ data' = [data EXCEPT ![Dest(t)] = Truncated(Dest(t))]
                   /\ bytes' = bytes + JobOf(t).size
                   /\ pos' = [pos EXCEPT ![t] = 1]
                   /\ pc' = [pc EXCEPT ![t] = "write"]
                   /\ UNCHANGED <<local, fault>>
          <5>1. Truncated(Dest(t)) \in [Chunk -> Int]
            BY DEF Truncated, Hole
          <5>2. data' \in [Path -> [Chunk -> Int]]
            BY <4>2, <5>1
          <5>3. node' \in [Path -> NodeKind] /\ bytes' \in Nat
            BY <3>2, <4>2 DEF NodeKind
          <5> QED BY <3>2, <3>6, <4>2, <5>2, <5>3, <1>0 DEF FileCreate, JobId
        <4> QED BY <3>6, <4>1, <4>2 DEF FileCreate
      <3>7. CASE WriteChunk(t)
        <4>1. pos[t] \in Chunk /\ pos[t] + 1 \in 1 .. MaxChunk + 1
          BY <3>2, <3>7, <1>0 DEF WriteChunk, Chunk
        <4>2. cur[t] \in Int
          BY <3>2, <1>0
        <4>3. data' \in [Path -> [Chunk -> Int]]
          BY <3>2, <3>7, <4>1, <4>2 DEF WriteChunk
        <4>4. pos' \in [Thread -> 1 .. MaxChunk + 1]
          BY <3>7, <4>1 DEF WriteChunk
        <4> QED BY <3>7, <4>3, <4>4, <1>0 DEF WriteChunk, JobId
      <3>8. CASE Flush(t)
        BY <3>2, <3>8, <1>0 DEF Flush, JobId
      <3>9. CASE WriteFails(t)
        BY <3>2, <3>9, <1>0 DEF WriteFails, Fail, JobId
      <3>10. CASE Panic(t)
        BY <3>2, <3>10, <1>0 DEF Panic, JobId
      <3>11. CASE Tick(t)
        BY <3>2, <3>11, <1>0 DEF Tick, Count, JobId
      <3>12. CASE Publish(t)
        BY <3>2, <3>12, <1>0 DEF Publish, JobId
      <3> QED BY <2>4, <3>3, <3>4, <3>5, <3>6, <3>7, <3>8, <3>9, <3>10, <3>11, <3>12 DEF ProcessJob
    <2> QED BY <1>2, <2>1, <2>2, <2>3, <2>4 DEF Step
  <1>3. ASSUME PressCancel PROVE TypeOK' /\ HoldsInside'
    BY <1>3, <1>0 DEF PressCancel, TypeInv, TypeOK, HoldsInside, JobId
  <1>4. ASSUME UNCHANGED vars PROVE TypeOK' /\ HoldsInside'
    BY <1>4, <1>0 DEF vars, TypeInv, TypeOK, HoldsInside, JobId
  <1>5. NotSpawned'
    <2>1. CASE MainStep
      BY <2>1, <1>0 DEF MainStep, Begin, SeqTurn, JoinAndDrain, TypeInv, TypeOK, NotSpawned
    <2>2. ASSUME NEW t \in Thread, Step(t) PROVE NotSpawned'
      <3>1. pc[t] \notin {"start", "idle"}
        BY <2>2, StepMoves DEF TypeInv
      <3>2. PICK label \in Holding \cup Gone \cup {"check", "claim", "returned"} :
                 pc' = [pc EXCEPT ![t] = label]
        BY <2>2, StepMoves DEF TypeInv
      <3>3. label # "start" /\ pc \in [Thread -> Label]
        BY DEF Label, Holding, Working, Gone, TypeInv, TypeOK
      <3> QED BY <3>1, <3>2, <3>3, <1>0 DEF TypeInv, NotSpawned, Thread
    <2>3. CASE PressCancel \/ UNCHANGED vars
      BY <2>3 DEF PressCancel, vars, TypeInv, NotSpawned
    <2> QED BY <2>1, <2>2, <2>3 DEF Next, Over
  <1> QED BY <1>1, <1>2, <1>3, <1>4, <1>5 DEF Next, Over, TypeInv

\* The types, and that threads not yet spawned hold nothing, are invariant.
THEOREM TypeInvariant == Spec => []TypeInv
  <1>1. Init => TypeInv
    BY InitTypeInv
  <1>2. TypeInv /\ [Next]_vars => TypeInv'
    BY NextTypeInv
  <1> QED BY <1>1, <1>2, PTL DEF Spec

\* Every variable keeps its type, whatever the threads do.
THEOREM TypeCorrect == Spec => []TypeOK
  <1>1. TypeInv => TypeOK
    BY DEF TypeInv
  <1> QED BY <1>1, TypeInvariant, PTL

-----------------------------------------------------------------------------
(* The counter hands every index out once.                                 *)

\* Nobody shares a job; what the counter has not reached is pending; the
\* status of a held job follows from where its holder is; and an error can
\* only be at hand while its job is being wound up.
Claims ==
    /\ \A t, u \in Thread : t # u /\ cur[t] # 0 => cur[t] # cur[u]
    /\ \A t \in Thread : cur[t] <= next
    /\ \A i \in JobId : i > next => status[i] = "pending"
    /\ \A t \in Thread :
          /\ pc[t] = "enter" => status[cur[t]] = "pending"
          /\ pc[t] \in Working => status[cur[t]] = "running"
          /\ pc[t] = "publish" => status[cur[t]] \in {"pending", "running"}
    /\ \A t \in Thread :
          local[t] => pc[t] \in {"tick", "publish"} /\ status[cur[t]] = "running"

\* The steps that neither claim nor give up a job, nor change its status.
LEMMA QuietClaims ==
    ASSUME TypeInv, Claims, NEW t \in Thread,
           UNCHANGED <<jobs, next, cur, status>>,
           NEW label \in Label,
           pc' = [pc EXCEPT ![t] = label],
           \/ label \in Working /\ pc[t] \in Working
           \/ label = "publish" /\ pc[t] \in Holding
           \/ label \notin Holding /\ pc[t] \notin Holding,
           \/ UNCHANGED local
           \/ /\ local' = [local EXCEPT ![t] = TRUE]
              /\ pc[t] \in Working,
           local'[t] => label \in {"tick", "publish"} 
    PROVE  Claims'
  <1>1. \A u \in Thread : u # t => pc'[u] = pc[u] /\ local'[u] = local[u]
    BY DEF TypeInv, TypeOK
  <1>2. pc'[t] = label
    BY DEF TypeInv, TypeOK
  <1>3. /\ \A u, v \in Thread : u # v /\ cur'[u] # 0 => cur'[u] # cur'[v]
        /\ \A u \in Thread : cur'[u] <= next'
        /\ \A i \in JobId' : i > next' => status'[i] = "pending"
    BY DEF Claims, JobId
  <1>4. \A u \in Thread :
          /\ pc'[u] = "enter" => status'[cur'[u]] = "pending"
          /\ pc'[u] \in Working => status'[cur'[u]] = "running"
          /\ pc'[u] = "publish" => status'[cur'[u]] \in {"pending", "running"}
    BY <1>1, <1>2 DEF Claims, Holding, Working
  <1>5. \A u \in Thread :
          local'[u] => pc'[u] \in {"tick", "publish"} /\ status'[cur'[u]] = "running"
    BY <1>1, <1>2 DEF Claims, TypeInv, TypeOK
  <1> QED BY <1>3, <1>4, <1>5 DEF Claims

\* A claim, by a worker or by the lone caller.
LEMMA TakeClaims ==
    ASSUME TypeInv, Claims, NEW t \in Thread, pc[t] \notin Holding,
           next < Len(jobs),
           next' = next + 1,
           cur' = [cur EXCEPT ![t] = next + 1],
           pc' = [pc EXCEPT ![t] = "enter"],
           UNCHANGED <<jobs, status, local>>
    PROVE  Claims'
  <1>1. /\ next + 1 \in JobId /\ next \in Nat
        /\ \A i \in JobId : i \in Nat
        /\ \A u \in Thread : cur[u] \in Nat
    BY PlanFacts DEF TypeInv, TypeOK
  <1>2. status[next + 1] = "pending"
    BY <1>1 DEF Claims
  <1>3. \A u \in Thread : u # t => pc'[u] = pc[u] /\ cur'[u] = cur[u]
    BY DEF TypeInv, TypeOK
  <1>4. pc'[t] = "enter" /\ cur'[t] = next + 1
    BY <1>1, PlanFacts DEF TypeInv, TypeOK
  <1>5. ~local[t]
    BY DEF Claims, Holding, Working
  <1>6. \A u, v \in Thread : u # v /\ cur'[u] # 0 => cur'[u] # cur'[v]
    BY <1>1, <1>3, <1>4 DEF Claims
  <1>7. /\ \A u \in Thread : cur'[u] <= next'
        /\ \A i \in JobId' : i > next' => status'[i] = "pending"
    BY <1>1, <1>3, <1>4 DEF Claims, JobId
  <1>8. \A u \in Thread :
          /\ pc'[u] = "enter" => status'[cur'[u]] = "pending"
          /\ pc'[u] \in Working => status'[cur'[u]] = "running"
          /\ pc'[u] = "publish" => status'[cur'[u]] \in {"pending", "running"}
    BY <1>2, <1>3, <1>4 DEF Claims, Working
  <1>9. \A u \in Thread :
          local'[u] => pc'[u] \in {"tick", "publish"} /\ status'[cur'[u]] = "running"
    BY <1>3, <1>5 DEF Claims
  <1> QED BY <1>6, <1>7, <1>8, <1>9 DEF Claims

\* A held job gets a status of its own: process_job enters it, or is done with it.
LEMMA SettleClaims ==
    ASSUME TypeInv, Claims, NEW t \in Thread, pc[t] \in Holding,
           UNCHANGED <<jobs, next>>,
           NEW label \in Label, pc' = [pc EXCEPT ![t] = label],
           NEW new, status' = [status EXCEPT ![cur[t]] = new],
           \/ /\ label \in Working /\ new = "running"
              /\ UNCHANGED <<cur, local>> /\ ~local[t]
           \/ /\ label \notin Holding
              /\ cur' = [cur EXCEPT ![t] = 0]
              /\ local' = [local EXCEPT ![t] = FALSE]
    PROVE  Claims'
  <1>1. /\ cur[t] \in JobId /\ cur[t] # 0
        /\ \A i \in JobId : i \in Nat
        /\ next \in Nat
    BY HeldJob, PlanFacts DEF TypeInv, TypeOK, HoldsInside
  <1>2. \A u \in Thread : u # t => /\ pc'[u] = pc[u] /\ cur'[u] = cur[u]
                                  /\ local'[u] = local[u] /\ cur[u] # cur[t]
    BY <1>1 DEF TypeInv, TypeOK, Claims
  <1>3. pc'[t] = label /\ (cur'[t] = cur[t] \/ cur'[t] = 0) /\ ~local'[t]
    BY DEF TypeInv, TypeOK
  <1>4. \A i \in JobId : i # cur[t] => status'[i] = status[i]
    BY DEF TypeInv, TypeOK
  <1>5. status'[cur[t]] = new
    BY <1>1 DEF TypeInv, TypeOK
  <1>6. \A u \in Thread : pc[u] \in Holding => cur[u] \in JobId
    BY HeldJob
  <1>7. \A u, v \in Thread : u # v /\ cur'[u] # 0 => cur'[u] # cur'[v]
    BY <1>1, <1>2, <1>3 DEF Claims
  <1>8. /\ \A u \in Thread : cur'[u] <= next'
        /\ \A i \in JobId' : i > next' => status'[i] = "pending"
    BY <1>1, <1>2, <1>3, <1>4 DEF Claims, JobId
  <1>9. \A u \in Thread :
          /\ pc'[u] = "enter" => status'[cur'[u]] = "pending"
          /\ pc'[u] \in Working => status'[cur'[u]] = "running"
          /\ pc'[u] = "publish" => status'[cur'[u]] \in {"pending", "running"}
    BY <1>2, <1>3, <1>4, <1>5, <1>6 DEF Claims, Working, Holding
  <1>10. \A u \in Thread :
          local'[u] => pc'[u] \in {"tick", "publish"} /\ status'[cur'[u]] = "running"
    BY <1>2, <1>3, <1>4, <1>6 DEF Claims, Working, Holding
  <1> QED BY <1>7, <1>8, <1>9, <1>10 DEF Claims

\* At first nobody holds a job.
LEMMA InitClaims == Init => Claims
  <1> SUFFICES ASSUME Init PROVE Claims
    OBVIOUS
  <1>1. TypeInv
    BY InitTypeInv
  <1> QED BY <1>1, PlanFacts DEF Init, Claims, Working, Thread, JobId

\* Every step keeps the claims apart: fetch_add hands out a fresh index.
LEMMA NextClaims == TypeInv /\ Claims /\ [Next]_vars => Claims'
  <1> SUFFICES ASSUME TypeInv, Claims, [Next]_vars PROVE Claims'
    OBVIOUS
  <1> USE DEF Goto, call, claims, reports, progress, disk, outcomes
  <1>0. /\ Len(jobs) \in Nat /\ next \in Nat
        /\ Main \in Thread
    BY PlanFacts DEF TypeInv, TypeOK, Thread
  <1>1. CASE MainStep
    <2>1. CASE Begin
      <3>1. \A w \in Thread : pc[w] \notin Holding /\ pc'[w] \notin Holding /\ ~local[w]
        BY <2>1, <1>0 DEF Begin, TypeInv, TypeOK, NotSpawned, Claims, Thread, Holding, Working
      <3> QED BY <2>1, <3>1 DEF Begin, Claims, Holding, Working, JobId
    <2>2. CASE SeqTurn
      <3>1. CASE cancel \/ next >= Len(jobs)
        <4>1. pc' = [pc EXCEPT ![Main] = "returned"] /\ UNCHANGED <<jobs, next, cur, status, local>>
          BY <2>2, <3>1 DEF SeqTurn, PastEnd
        <4>2. pc[Main] \notin Holding \cup Working /\ ~local[Main]
          BY <2>2, <1>0 DEF SeqTurn, Claims, Holding, Working
        <4>3. "returned" \in Label /\ "returned" \notin Holding
          BY DEF Label, Holding, Working
        <4> QED BY <4>1, <4>2, <4>3, <1>0, QuietClaims
      <3>2. CASE ~(cancel \/ next >= Len(jobs))
        BY <2>2, <3>2, <1>0, TakeClaims DEF SeqTurn, PastEnd, Holding, Working
      <3> QED BY <3>1, <3>2
    <2>3. CASE JoinAndDrain
      BY <2>3, <1>0, QuietClaims DEF JoinAndDrain, Label, Holding, Working, Claims
    <2> QED BY <1>1, <2>1, <2>2, <2>3 DEF MainStep
  <1>2. ASSUME NEW t \in Thread, Step(t) PROVE Claims'
    <2>0. local[t] => pc[t] \in {"tick", "publish"}
      BY DEF Claims
    <2>1. CASE OpenHandle(t)
      BY <2>0, <2>1, QuietClaims DEF OpenHandle, Label, Gone, Holding, Working
    <2>2. CASE CheckCancel(t)
      BY <2>0, <2>2, QuietClaims DEF CheckCancel, AfterLook, Label, Gone, Holding, Working
    <2>3. CASE Claim(t)
      <3>1. CASE next >= Len(jobs)
        <4>1. pc' = [pc EXCEPT ![t] = "exit"] /\ UNCHANGED <<jobs, cur, status, local>>
          BY <2>3, <3>1 DEF Claim, PastEnd, LeaveLoop
        <4>2. \A i \in JobId : i <= next
          BY <3>1, <1>0, PlanFacts DEF TypeInv
        <4>3. \A u \in Thread : cur[u] <= next'
          BY <2>3, <1>0 DEF Claim, FetchAdd, Claims, TypeInv, TypeOK
        <4>4. \A i \in JobId : ~(i > next')
          BY <2>3, <1>0, <4>2, PlanFacts DEF Claim, FetchAdd, TypeInv
        <4>5. \A u \in Thread : u # t => pc'[u] = pc[u]
          BY <4>1 DEF TypeInv, TypeOK
        <4>6. pc'[t] = "exit" /\ ~local[t]
          BY <4>1, <2>0, <2>3 DEF TypeInv, TypeOK, Claim
        <4> QED BY <4>1, <4>3, <4>4, <4>5, <4>6 DEF Claims, Working, JobId
      <3>2. CASE ~(next >= Len(jobs))
        BY <2>3, <3>2, <1>0, TakeClaims DEF Claim, FetchAdd, PastEnd, Holding, Working
      <3> QED BY <3>1, <3>2
    <2>4. CASE Enter(t)
      <3>1. CASE cancel
        BY <2>0, <2>4, <3>1, QuietClaims DEF Enter, Stopped, Label, Holding, Working
      <3>2. CASE ~cancel
        <4>1. PICK label \in Working : pc' = [pc EXCEPT ![t] = label]
          BY <2>4, <3>2 DEF Enter, Stopped, Working
        <4> QED BY <2>0, <2>4, <3>2, <4>1, SettleClaims DEF Enter, Stopped, Label, Holding
      <3> QED BY <3>1, <3>2
    <2>5. CASE DirJob(t)
      BY <2>0, <2>5, QuietClaims DEF DirJob, MakeDirs, Fail, Label, Holding, Working
    <2>6. CASE FileParent(t)
      BY <2>0, <2>6, QuietClaims DEF FileParent, MakeDirs, Fail, Label, Holding, Working
    <2>7. CASE FileCreate(t)
      BY <2>0, <2>7, QuietClaims DEF FileCreate, Fail, Label, Holding, Working
    <2>8. CASE WriteChunk(t)
      BY <2>8 DEF WriteChunk, Claims, JobId
    <2>9. CASE Flush(t)
      BY <2>0, <2>9, QuietClaims DEF Flush, Label, Holding, Working
    <2>10. CASE WriteFails(t)
      BY <2>0, <2>10, QuietClaims DEF WriteFails, Fail, Label, Holding, Working
    <2>11. CASE Panic(t)
      <3>1. local' = [local EXCEPT ![t] = FALSE]
        BY <2>0, <2>11 DEF Panic, TypeInv, TypeOK
      <3>2. /\ status' = [status EXCEPT ![cur[t]] = "lost"]
            /\ cur' = [cur EXCEPT ![t] = 0]
            /\ pc' = [pc EXCEPT ![t] = "panicked"]
            /\ pc[t] \in Holding
            /\ UNCHANGED <<jobs, next>>
        BY <2>11 DEF Panic, Holding, Working
      <3>3. "panicked" \in Label /\ "panicked" \notin Holding
        BY DEF Label, Gone, Holding, Working
      <3> QED BY <3>1, <3>2, <3>3, SettleClaims
    <2>12. CASE Tick(t)
      BY <2>0, <2>12, QuietClaims DEF Tick, Label, Holding, Working
    <2>13. CASE Publish(t)
      <3> DEFINE new == IF status[cur[t]] = "pending" THEN "pending"
                        ELSE IF local[t] THEN "failed" ELSE "copied"
      <3>1. cur[t] \in JobId
        BY <2>13, HeldJob DEF Publish, Holding
      <3>2. status' = [status EXCEPT ![cur[t]] = new]
        BY <2>13, <3>1 DEF Publish, TypeInv, TypeOK
      <3>3. /\ cur' = [cur EXCEPT ![t] = 0]
            /\ local' = [local EXCEPT ![t] = FALSE]
            /\ pc' = [pc EXCEPT ![t] = "check"]
            /\ pc[t] \in Holding
            /\ UNCHANGED <<jobs, next>>
        BY <2>13 DEF Publish, Holding
      <3>4. "check" \in Label /\ "check" \notin Holding
        BY DEF Label, Holding, Working
      <3> HIDE DEF new
      <3> QED BY <3>2, <3>3, <3>4, SettleClaims
    <2> QED BY <1>2, <2>1, <2>2, <2>3, <2>4, <2>5, <2>6, <2>7, <2>8, <2>9, <2>10, <2>11,
               <2>12, <2>13 DEF Step, ProcessJob
  <1>3. CASE PressCancel \/ UNCHANGED vars
    BY <1>3 DEF PressCancel, vars, Claims, JobId
  <1> QED BY <1>1, <1>2, <1>3 DEF Next, Over

\* Types and claims together are invariant.
LEMMA ClaimsInvariant == Spec => [](TypeInv /\ Claims)
  <1>1. Init => TypeInv /\ Claims
    BY InitTypeInv, InitClaims
  <1>2. TypeInv /\ Claims /\ [Next]_vars => (TypeInv /\ Claims)'
    BY NextTypeInv, NextClaims
  <1> QED BY <1>1, <1>2, PTL DEF Spec

\* No job is ever held by two threads, and none is held once it has ended.
THEOREM NoJobTwice == Spec => []ClaimedOnce
  <1>1. TypeInv /\ Claims => ClaimedOnce
    <2> SUFFICES ASSUME TypeInv, Claims, NEW t \in Thread, cur[t] # 0
                 PROVE  /\ status[cur[t]] \in {"pending", "running"}
                        /\ \A u \in Thread \ {t} : cur[u] # cur[t]
      BY DEF ClaimedOnce
    <2>1. pc[t] \in Holding
      BY DEF TypeInv, HoldsInside
    <2>2. status[cur[t]] \in {"pending", "running"}
      BY <2>1 DEF Claims, Holding
    <2> QED BY <2>2 DEF Claims
  <1> QED BY <1>1, ClaimsInvariant, PTL

\* Once Cancel was pressed no thread begins another job.
THEOREM NothingBegunAfterCancel == Spec => CancelStops
  <1>1. TypeInv /\ Claims /\ [Next]_vars =>
          [\A i \in JobId : cancel /\ status[i] = "pending" => status'[i] = "pending"]_vars
    <2> SUFFICES ASSUME TypeInv, Claims, Next, cancel, NEW i \in JobId, status[i] = "pending"
                 PROVE  status'[i] = "pending"
      OBVIOUS
    <2> USE DEF outcomes
    <2>1. CASE MainStep \/ PressCancel \/ Over
      BY <2>1 DEF MainStep, Begin, SeqTurn, JoinAndDrain, PressCancel, Over, vars
    <2>2. ASSUME NEW t \in Thread, Step(t) PROVE status'[i] = "pending"
      <3>1. CASE OpenHandle(t) \/ CheckCancel(t) \/ Claim(t)
        BY <3>1 DEF OpenHandle, CheckCancel, Claim
      <3>2. CASE Enter(t)
        BY <3>2 DEF Enter, Stopped
      <3>3. CASE DirJob(t) \/ FileParent(t) \/ FileCreate(t) \/ WriteChunk(t)
        BY <3>3 DEF DirJob, FileParent, FileCreate, WriteChunk
      <3>4. CASE Flush(t) \/ WriteFails(t) \/ Tick(t)
        BY <3>4 DEF Flush, WriteFails, Tick
      <3>5. CASE Panic(t)
        <4>1. status[cur[t]] = "running"
          BY <3>5 DEF Panic, Claims, Working
        <4> QED BY <3>5, <4>1 DEF Panic, TypeInv, TypeOK
      <3>6. CASE Publish(t)
        BY <3>6 DEF Publish, TypeInv, TypeOK
      <3> QED BY <2>2, <3>1, <3>2, <3>3, <3>4, <3>5, <3>6 DEF Step, ProcessJob
    <2> QED BY <2>1, <2>2 DEF Next
  <1> QED BY <1>1, ClaimsInvariant, PTL DEF Spec, CancelStops

-----------------------------------------------------------------------------
(* A job that shares its destination with no other leaves its own data.    *)

\* The file of job i holds the first n - 1 chunks of i and nothing else.
Exact(i, n) ==
    /\ node[jobs[i].dest] = "file"
    /\ data[jobs[i].dest] = [k \in Chunk |-> IF k < n THEN i ELSE Hole]

\* From File::create to the end of the job the file grows as it should.
Own ==
    /\ \A t \in Thread : pc[t] = "mkdir" => JobOf(t).kind = "dir"
    /\ \A t \in Thread : pc[t] = "write" => pos[t] <= JobOf(t).size + 1
    /\ \A t \in Thread : pc[t] = "write" /\ SoleOwner(cur[t]) => Exact(cur[t], pos[t])
    /\ \A t \in Thread :
          /\ pc[t] \in {"tick", "publish"}
          /\ ~local[t] /\ status[cur[t]] = "running"
          /\ JobOf(t).kind = "file" /\ SoleOwner(cur[t])
          => Exact(cur[t], JobOf(t).size + 1)
    /\ \A i \in JobId : status[i] = "copied" /\ jobs[i].kind = "file" /\ SoleOwner(i)
                           => Exact(i, jobs[i].size + 1)

\* A step of one thread leaves the others where they are, and the status of
\* every job but its own.
LEMMA StepLocal ==
    ASSUME TypeInv, NEW t \in Thread, Step(t)
    PROVE  /\ jobs' = jobs
           /\ \A u \in Thread : u # t =>
                 /\ pc'[u] = pc[u] /\ cur'[u] = cur[u]
                 /\ pos'[u] = pos[u] /\ local'[u] = local[u]
           /\ \A i \in JobId : i # cur[t] => status'[i] = status[i]
  <1> USE DEF call, claims, reports, progress, disk, outcomes
  <1>1. \A u \in Thread : u # t => pc'[u] = pc[u]
    BY StepMoves DEF TypeInv, TypeOK
  <1>2. CASE OpenHandle(t) \/ CheckCancel(t) \/ Claim(t) \/ Enter(t)
    BY <1>1, <1>2 DEF OpenHandle, CheckCancel, Claim, Enter, TypeInv, TypeOK
  <1>3. CASE DirJob(t) \/ FileParent(t)
    BY <1>1, <1>3 DEF DirJob, FileParent, MakeDirs, Fail, TypeInv, TypeOK
  <1>4. CASE FileCreate(t) \/ WriteChunk(t) \/ Flush(t) \/ WriteFails(t)
    BY <1>1, <1>4 DEF FileCreate, WriteChunk, Flush, WriteFails, Fail, TypeInv, TypeOK
  <1>5. CASE Panic(t) \/ Tick(t) \/ Publish(t)
    BY <1>1, <1>5 DEF Panic, Tick, Publish, TypeInv, TypeOK
  <1> QED BY <1>2, <1>3, <1>4, <1>5 DEF Step, ProcessJob

\* A step for another job cannot touch the file of a sole owner: directories
\* are never made over a file, and writes go to the other job's destination.
LEMMA Untouched ==
    ASSUME TypeInv, NEW t \in Thread, Step(t),
           NEW i \in JobId, SoleOwner(i), cur[t] # i, NEW n, Exact(i, n)
    PROVE  Exact(i, n)'
  <1> USE DEF call, claims, reports, progress, disk, outcomes
  <1>1. jobs' = jobs /\ jobs[i].dest \in Path
    BY StepLocal, PlanFacts DEF Job, TypeInv
  <1>2. \A S : ~Blocked(S) => WithDirs(S)[jobs[i].dest] = "file"
    BY <1>1 DEF Exact, Blocked, WithDirs
  <1>3. pc[t] \in Holding => cur[t] \in JobId
    BY HeldJob
  <1>4. CASE DirJob(t) \/ FileParent(t)
    BY <1>1, <1>2, <1>4 DEF DirJob, FileParent, MakeDirs, Exact
  <1>5. CASE FileCreate(t) \/ WriteChunk(t)
    <2>1. cur[t] \in JobId
      BY <1>3, <1>5 DEF FileCreate, WriteChunk, Holding, Working
    <2>2. Dest(t) # jobs[i].dest
      BY <2>1 DEF SoleOwner, Dest
    <2> QED BY <1>1, <1>5, <2>2 DEF FileCreate, WriteChunk, Exact, TypeInv, TypeOK
  <1>6. CASE UNCHANGED disk
    BY <1>1, <1>6 DEF Exact
  <1>7. OpenHandle(t) \/ CheckCancel(t) \/ Claim(t) => UNCHANGED disk
    BY DEF OpenHandle, CheckCancel, Claim
  <1>8. Enter(t) \/ Flush(t) \/ WriteFails(t) \/ Panic(t) \/ Tick(t) \/ Publish(t)
           => UNCHANGED disk
    BY DEF Enter, Flush, WriteFails, Panic, Tick, Publish
  <1> QED BY <1>4, <1>5, <1>6, <1>7, <1>8 DEF Step, ProcessJob

\* What a thread's own step does to the file it works on.
LEMMA OwnStep ==
    ASSUME TypeInv, Claims, Own, NEW t \in Thread, Step(t), pc[t] \in Holding
    PROVE  /\ pc'[t] = "mkdir" => JobOf(t)'.kind = "dir"
           /\ pc'[t] = "write" =>
                 /\ pos'[t] <= JobOf(t)'.size + 1
                 /\ SoleOwner(cur[t])' => Exact(cur[t], pos[t])'
           /\ /\ pc'[t] \in {"tick", "publish"}
              /\ ~local'[t] /\ status'[cur'[t]] = "running"
              /\ JobOf(t)'.kind = "file" /\ SoleOwner(cur[t])'
              => Exact(cur[t], JobOf(t).size + 1)'
           /\ \A i \in JobId :
                 /\ i = cur[t] /\ status'[i] = "copied"
                 /\ jobs[i].kind = "file" /\ SoleOwner(i)
                 => Exact(i, jobs[i].size + 1)'
  <1> USE DEF Goto, call, claims, reports, progress, disk, outcomes
  <1>1. /\ jobs' = jobs
        /\ cur[t] \in JobId /\ Dest(t) \in Path
        /\ JobOf(t).size \in 0 .. MaxChunk /\ JobOf(t).size \in Nat
        /\ pos[t] \in Nat
        /\ MaxChunk \in Nat
        /\ status[cur[t]] \in {"pending", "running"}
    BY StepLocal, HeldJob, PoolAssumption DEF TypeInv, TypeOK, Claims, Holding
  <1>2. CASE Enter(t)
    <2>1. cur' = cur /\ status'[cur[t]] # "copied"
      BY <1>1, <1>2 DEF Enter, TypeInv, TypeOK
    <2>2. \/ pc'[t] = "publish" /\ status'[cur[t]] = "pending"
          \/ pc'[t] = "mkdir" /\ JobOf(t).kind = "dir"
          \/ pc'[t] = "parent"
      BY <1>1, <1>2 DEF Enter, TypeInv, TypeOK, Claims
    <2> QED BY <1>1, <2>1, <2>2 DEF JobOf
  <1>3. CASE DirJob(t)
    <2>1. pc'[t] = "tick" /\ cur' = cur /\ status' = status
      BY <1>3 DEF DirJob, MakeDirs, Fail, TypeInv, TypeOK
    <2>2. JobOf(t).kind = "dir"
      BY <1>3 DEF DirJob, Own
    <2> QED BY <1>1, <2>1, <2>2 DEF JobOf
  <1>4. CASE FileParent(t)
    <2>1. /\ pc'[t] \in {"create", "publish"} /\ cur' = cur /\ status' = status
          /\ pc'[t] = "publish" => local'[t]
      BY <1>4 DEF FileParent, MakeDirs, Fail, TypeInv, TypeOK
    <2> QED BY <1>1, <2>1
  <1>5. CASE FileCreate(t)
    <2>1. CASE pc'[t] = "publish" /\ local'[t]
      BY <1>1, <1>5, <2>1 DEF FileCreate
    <2>2. CASE ~(pc'[t] = "publish" /\ local'[t])
      <3>1. /\ pc'[t] = "write" /\ pos'[t] = 1 /\ cur' = cur /\ status' = status
            /\ node' = [node EXCEPT ![Dest(t)] = "file"]
            /\ data' = [data EXCEPT ![Dest(t)] = Truncated(Dest(t))]
        BY <1>5, <2>2 DEF FileCreate, Fail, TypeInv, TypeOK
      <3>2. Truncated(Dest(t)) = [k \in Chunk |-> IF k < 1 THEN cur[t] ELSE Hole]
        BY <1>1 DEF Truncated, Chunk
      <3>3. Exact(cur[t], pos[t])'
        BY <1>1, <3>1, <3>2 DEF Exact, Dest, TypeInv, TypeOK
      <3> QED BY <1>1, <3>1, <3>3 DEF JobOf
    <2> QED BY <2>1, <2>2
  <1>6. CASE WriteChunk(t)
    <2>1. /\ pc'[t] = "write" /\ pos'[t] = pos[t] + 1 /\ pos[t] <= JobOf(t).size
          /\ cur' = cur /\ status' = status /\ node' = node
          /\ data' = [data EXCEPT ![Dest(t)][pos[t]] = cur[t]]
      BY <1>6 DEF WriteChunk, TypeInv, TypeOK
    <2>2. ASSUME SoleOwner(cur[t]) PROVE Exact(cur[t], pos[t])'
      <3>1. Exact(cur[t], pos[t])
        BY <1>6, <2>2 DEF WriteChunk, Own
      <3>2. data'[Dest(t)] = [data[Dest(t)] EXCEPT ![pos[t]] = cur[t]]
        BY <1>1, <2>1 DEF TypeInv, TypeOK
      <3>3. data'[Dest(t)] = [k \in Chunk |-> IF k < pos[t] + 1 THEN cur[t] ELSE Hole]
        BY <1>1, <3>1, <3>2 DEF Exact, Dest, Chunk
      <3> QED BY <1>1, <2>1, <3>1, <3>3 DEF Exact, Dest
    <2>3. SoleOwner(cur[t])' = SoleOwner(cur[t])
      BY <1>1, <2>1 DEF SoleOwner, JobId
    <2> QED BY <1>1, <2>1, <2>2, <2>3 DEF JobOf
  <1>7. CASE Flush(t)
    <2>1. /\ pc'[t] = "tick" /\ pos[t] > JobOf(t).size /\ pc[t] = "write"
          /\ UNCHANGED <<cur, status, node, data>>
      BY <1>7 DEF Flush, TypeInv, TypeOK
    <2>2. pos[t] = JobOf(t).size + 1
      BY <1>1, <2>1 DEF Own
    <2>3. SoleOwner(cur[t]) => Exact(cur[t], JobOf(t).size + 1)
      BY <2>1, <2>2 DEF Own
    <2> QED BY <1>1, <2>1, <2>3 DEF Exact, JobOf, SoleOwner, JobId
  <1>8. CASE WriteFails(t)
    <2>1. pc'[t] = "tick" /\ local'[t] /\ UNCHANGED <<cur, status>>
      BY <1>8 DEF WriteFails, Fail, TypeInv, TypeOK
    <2> QED BY <1>1, <2>1
  <1>9. CASE Panic(t)
    <2>1. pc'[t] = "panicked" /\ status'[cur[t]] = "lost"
      BY <1>1, <1>9 DEF Panic, TypeInv, TypeOK
    <2> QED BY <2>1
  <1>10. CASE Tick(t)
    <2>1. pc[t] = "tick" /\ pc'[t] = "publish" /\ UNCHANGED <<cur, status, local, node, data>>
      BY <1>10 DEF Tick, TypeInv, TypeOK
    <2>2. /\ ~local[t] /\ status[cur[t]] = "running"
          /\ JobOf(t).kind = "file" /\ SoleOwner(cur[t])
          => Exact(cur[t], JobOf(t).size + 1)
      BY <2>1 DEF Own
    <2>3. /\ JobOf(t)' = JobOf(t) /\ SoleOwner(cur[t])' = SoleOwner(cur[t])
          /\ Exact(cur[t], JobOf(t).size + 1)' = Exact(cur[t], JobOf(t).size + 1)
      BY <1>1, <2>1 DEF Exact, JobOf, SoleOwner, JobId
    <2> QED BY <1>1, <2>1, <2>2, <2>3
  <1>11. CASE Publish(t)
    <2>1. /\ pc[t] = "publish" /\ pc'[t] = "check" /\ UNCHANGED <<node, data>>
          /\ status'[cur[t]] = "copied" => ~local[t] /\ status[cur[t]] = "running"
      BY <1>1, <1>11 DEF Publish, TypeInv, TypeOK
    <2>2. \A i \in JobId : /\ i = cur[t] /\ status'[i] = "copied"
                          /\ jobs[i].kind = "file" /\ SoleOwner(i)
                          => Exact(i, jobs[i].size + 1)
      BY <2>1 DEF Own, JobOf
    <2> QED BY <1>1, <2>1, <2>2 DEF Exact
  <1>12. ~(OpenHandle(t) \/ CheckCancel(t) \/ Claim(t))
    BY DEF OpenHandle, CheckCancel, Claim, Holding, Working
  <1> QED BY <1>2, <1>3, <1>4, <1>5, <1>6, <1>7, <1>8, <1>9, <1>10, <1>11, <1>12 DEF Step, ProcessJob

\* At first no thread is inside process_job and no job has ended.
LEMMA InitOwn == Init => Own
  BY DEF Init, Own

\* Every step keeps what a thread has written of its file, and what ended jobs left.
LEMMA NextOwn == TypeInv /\ Claims /\ Own /\ [Next]_vars => Own'
  <1> SUFFICES ASSUME TypeInv, Claims, Own, [Next]_vars PROVE Own'
    OBVIOUS
  <1> USE DEF Goto, call, claims, reports, progress, disk, outcomes
  <1>0. /\ \A t \in Thread : cur[t] \in Nat
        /\ \A i \in JobId : i \in Nat /\ i # 0
    BY PlanFacts DEF TypeInv, TypeOK
  <1>1. ASSUME UNCHANGED <<jobs, cur, pos, local, status, node, data>>,
               \A t \in Thread : pc'[t] \in Holding => pc'[t] = pc[t] \/ pc'[t] = "enter"
        PROVE Own'
    BY <1>1 DEF Own, Exact, JobOf, SoleOwner, JobId, Holding, Working
  <1>2. CASE MainStep
    <2>1. CASE Begin
      <3>1. \A t \in Thread : pc'[t] \in Holding => pc'[t] = pc[t]
        BY <2>1 DEF Begin, TypeInv, TypeOK, Holding, Working
      <3> QED BY <1>1, <2>1, <3>1 DEF Begin
    <2>2. CASE SeqTurn
      <3>1. \A t \in Thread : t # Main => pc'[t] = pc[t] /\ cur'[t] = cur[t]
        BY <2>2 DEF SeqTurn, TypeInv, TypeOK
      <3>2. Main \in Thread => pc'[Main] \in {"returned", "enter"}
        BY <2>2 DEF SeqTurn, TypeInv, TypeOK
      <3>3. UNCHANGED <<jobs, pos, local, status, node, data>>
        BY <2>2 DEF SeqTurn
      <3> QED BY <3>1, <3>2, <3>3 DEF Own, Exact, JobOf, SoleOwner, JobId
    <2>3. CASE JoinAndDrain
      <3>1. \A t \in Thread : pc'[t] \in Holding => pc'[t] = pc[t]
        BY <2>3 DEF JoinAndDrain, TypeInv, TypeOK, Holding, Working
      <3> QED BY <1>1, <2>3, <3>1 DEF JoinAndDrain
    <2> QED BY <1>2, <2>1, <2>2, <2>3 DEF MainStep
  <1>3. ASSUME NEW t \in Thread, Step(t) PROVE Own'
    <2>1. /\ jobs' = jobs
          /\ \A u \in Thread : u # t =>
                /\ pc'[u] = pc[u] /\ cur'[u] = cur[u]
                /\ pos'[u] = pos[u] /\ local'[u] = local[u]
          /\ \A i \in JobId : i # cur[t] => status'[i] = status[i]
      BY <1>3, StepLocal
    <2>2. \A i : SoleOwner(i)' = SoleOwner(i)
      BY <2>1 DEF SoleOwner, JobId
    <2>3. \A i \in JobId : \A n : SoleOwner(i) /\ cur[t] # i /\ Exact(i, n) => Exact(i, n)'
      BY <1>3, Untouched
    <2>4. \A u \in Thread : u # t /\ pc[u] \in Holding =>
             cur[u] \in JobId /\ cur[u] # cur[t] /\ status'[cur[u]] = status[cur[u]]
      BY <1>0, <2>1, HeldJob DEF Claims
    <2>5. CASE pc[t] \in Holding
      <3> DEFINE n == JobOf(t).size + 1
      <3>1. /\ pc'[t] = "mkdir" => JobOf(t)'.kind = "dir"
            /\ pc'[t] = "write" =>
                  /\ pos'[t] <= JobOf(t)'.size + 1
                  /\ SoleOwner(cur[t])' => Exact(cur[t], pos[t])'
            /\ /\ pc'[t] \in {"tick", "publish"}
               /\ ~local'[t] /\ status'[cur'[t]] = "running"
               /\ JobOf(t)'.kind = "file" /\ SoleOwner(cur[t])'
               => Exact(cur[t], JobOf(t).size + 1)'
            /\ \A i \in JobId :
                  /\ i = cur[t] /\ status'[i] = "copied"
                  /\ jobs[i].kind = "file" /\ SoleOwner(i)
                  => Exact(i, jobs[i].size + 1)'
        BY <1>3, <2>5, OwnStep
      <3>2. \A u \in Thread : pc'[u] = "mkdir" => JobOf(u)'.kind = "dir"
        BY <2>1, <3>1 DEF Own, JobOf
      <3>3. \A u \in Thread : pc'[u] = "write" => pos'[u] <= JobOf(u)'.size + 1
        BY <2>1, <3>1 DEF Own, JobOf
      <3>4. \A u \in Thread : pc'[u] = "write" /\ SoleOwner(cur[u])' => Exact(cur[u], pos[u])'
        <4> SUFFICES ASSUME NEW u \in Thread, u # t, pc'[u] = "write", SoleOwner(cur[u])'
                     PROVE Exact(cur[u], pos[u])'
          BY <3>1
        <4>1. pc[u] = "write" /\ cur'[u] = cur[u] /\ pos'[u] = pos[u]
          BY <2>1
        <4>2. cur[u] \in JobId /\ cur[u] # cur[t] /\ SoleOwner(cur[u])
          BY <2>2, <2>4, <4>1 DEF Holding, Working
        <4>3. Exact(cur[u], pos[u])
          BY <4>1, <4>2 DEF Own
        <4> QED BY <2>3, <4>1, <4>2, <4>3 DEF Exact
      <3>5. \A u \in Thread :
              /\ pc'[u] \in {"tick", "publish"}
              /\ ~local'[u] /\ status'[cur'[u]] = "running"
              /\ JobOf(u)'.kind = "file" /\ SoleOwner(cur[u])'
              => Exact(cur[u], JobOf(u).size + 1)'
        <4> SUFFICES ASSUME NEW u \in Thread, u # t, pc'[u] \in {"tick", "publish"},
                            ~local'[u], status'[cur'[u]] = "running",
                            JobOf(u)'.kind = "file", SoleOwner(cur[u])'
                     PROVE Exact(cur[u], JobOf(u).size + 1)'
          BY <3>1
        <4>1. pc[u] \in {"tick", "publish"} /\ cur'[u] = cur[u] /\ ~local[u] /\ JobOf(u)' = JobOf(u)
          BY <2>1 DEF JobOf
        <4>2. cur[u] \in JobId /\ cur[u] # cur[t] /\ SoleOwner(cur[u]) /\ status[cur[u]] = "running"
          BY <2>2, <2>4, <4>1 DEF Holding, Working
        <4>3. Exact(cur[u], JobOf(u).size + 1)
          BY <4>1, <4>2 DEF Own
        <4> QED BY <2>3, <4>1, <4>2, <4>3 DEF Exact
      <3>6. \A i \in JobId' : status'[i] = "copied" /\ jobs'[i].kind = "file" /\ SoleOwner(i)'
                             => Exact(i, jobs[i].size + 1)'
        <4> SUFFICES ASSUME NEW i \in JobId, status'[i] = "copied", jobs[i].kind = "file", SoleOwner(i)
                     PROVE Exact(i, jobs[i].size + 1)'
          BY <2>1, <2>2 DEF JobId
        <4>1. CASE i = cur[t]
          BY <2>1, <3>1, <4>1
        <4>2. CASE i # cur[t]
          <5>1. Exact(i, jobs[i].size + 1)
            BY <2>1, <4>2 DEF Own
          <5> QED BY <2>1, <2>3, <4>2, <5>1 DEF Exact
        <4> QED BY <4>1, <4>2
      <3> QED BY <3>2, <3>3, <3>4, <3>5, <3>6 DEF Own
    <2>6. CASE pc[t] \notin Holding
      <3>1. OpenHandle(t) \/ CheckCancel(t) \/ Claim(t)
        BY <1>3, <2>6 DEF Step, ProcessJob, Enter, DirJob, FileParent, FileCreate, WriteChunk,
             Flush, WriteFails, Panic, Tick, Publish, Holding, Working
      <3>2. UNCHANGED <<jobs, pos, local, status, node, data>>
        BY <3>1 DEF OpenHandle, CheckCancel, Claim
      <3>3. pc'[t] \in Holding => pc'[t] = "enter"
        BY <3>1 DEF OpenHandle, CheckCancel, AfterLook, Claim, LeaveLoop, Holding, Working, TypeInv, TypeOK
      <3> QED BY <2>1, <3>2, <3>3 DEF Own, Exact, JobOf, SoleOwner, JobId, Holding, Working
    <2> QED BY <2>5, <2>6
  <1>4. CASE PressCancel \/ UNCHANGED vars
    BY <1>1, <1>4 DEF PressCancel, vars
  <1> QED BY <1>2, <1>3, <1>4 DEF Next, Over

\* The file of a job that ended well, and that nobody else copied to, holds
\* the job's data from the first chunk to the last and nothing else.
THEOREM CopiedIsExact == Spec => []OwnData
  <1>1. Init => TypeInv /\ Claims /\ Own
    BY InitTypeInv, InitClaims, InitOwn
  <1>2. TypeInv /\ Claims /\ Own /\ [Next]_vars => (TypeInv /\ Claims /\ Own)'
    BY NextTypeInv, NextClaims, NextOwn
  <1>3. TypeInv /\ Own => OwnData
    <2> SUFFICES ASSUME TypeInv, Own, NEW i \in JobId,
                        status[i] = "copied", jobs[i].kind = "file", SoleOwner(i)
                 PROVE  /\ node[jobs[i].dest] = "file"
                        /\ data[jobs[i].dest] =
                              [k \in Chunk |-> IF k <= jobs[i].size THEN i ELSE Hole]
      BY DEF OwnData
    <2>1. Exact(i, jobs[i].size + 1)
      BY DEF Own
    <2>2. jobs[i].size \in Nat
      BY PlanFacts, PoolAssumption DEF TypeInv, Job
    <2>3. \A k \in Chunk : k < jobs[i].size + 1 <=> k <= jobs[i].size
      BY <2>2, PoolAssumption DEF Chunk
    <2> QED BY <2>1, <2>3 DEF Exact
  <1> QED BY <1>1, <1>2, <1>3, PTL DEF Spec

-----------------------------------------------------------------------------
(* What a failed job failed of.                                            *)

\* What stood in the way of a failed job stays there.
Causes ==
    /\ \A t \in Thread : pc[t] \in {"parent", "create"} => JobOf(t).kind # "dir"
    /\ \A t \in Thread : pc[t] = "create" => \A q \in Above[Dest(t)] : node[q] = "dir"
    /\ \A t \in Thread, i \in JobId : local[t] /\ cur[t] = i => i \in fault \/ InTheWay(i)
    /\ OnlyRealFailures

-----------------------------------------------------------------------------
\* No step unmakes a directory or turns a file into something else, and no fault
\* is forgotten.
LEMMA TreeGrows ==
    ASSUME TypeInv, [Next]_vars
    PROVE  /\ \A p \in Path : node[p] # "none" => node'[p] = node[p]
           /\ fault \subseteq fault'
           /\ jobs' = jobs
  <1> USE DEF call, disk, outcomes
  <1>1. CASE MainStep \/ PressCancel \/ UNCHANGED vars
    BY <1>1 DEF MainStep, Begin, SeqTurn, JoinAndDrain, PressCancel, vars
  <1>2. ASSUME NEW t \in Thread, Step(t)
        PROVE  /\ \A p \in Path : node[p] # "none" => node'[p] = node[p]
               /\ fault \subseteq fault' /\ jobs' = jobs
    <2>1. \A S : ~Blocked(S) => \A p \in Path : node[p] # "none" => WithDirs(S)[p] = node[p]
      BY DEF Blocked, WithDirs, TypeInv, TypeOK, NodeKind
    <2>2. CASE DirJob(t) \/ FileParent(t)
      BY <2>1, <2>2 DEF DirJob, FileParent, MakeDirs, Fail
    <2>3. CASE FileCreate(t)
      <3>1. CASE node' = node
        BY <2>3, <3>1 DEF FileCreate, Fail
      <3>2. CASE node' # node
        <4>1. /\ node[Dest(t)] # "dir" /\ node' = [node EXCEPT ![Dest(t)] = "file"]
              /\ fault' = fault
          BY <2>3, <3>2 DEF FileCreate, CanCreate
        <4> QED BY <2>3, <4>1 DEF FileCreate, TypeInv, TypeOK, NodeKind
      <3> QED BY <3>1, <3>2
    <2>4. CASE OpenHandle(t) \/ CheckCancel(t) \/ Claim(t) \/ Enter(t)
      BY <2>4 DEF OpenHandle, CheckCancel, Claim, Enter
    <2>5. CASE WriteChunk(t) \/ Flush(t) \/ WriteFails(t)
      BY <2>5 DEF WriteChunk, Flush, WriteFails, Fail
    <2>6. CASE Panic(t) \/ Tick(t) \/ Publish(t)
      BY <2>6 DEF Panic, Tick, Publish
    <2> QED BY <1>2, <2>2, <2>3, <2>4, <2>5, <2>6 DEF Step, ProcessJob
  <1> QED BY <1>1, <1>2 DEF Next, Over

\* So what is in the way of a job stays in the way.
LEMMA WayStays ==
    ASSUME TypeInv, [Next]_vars, NEW i \in JobId, InTheWay(i)
    PROVE  InTheWay(i)'
  <1>1. jobs[i].dest \in Path /\ Above[jobs[i].dest] \subseteq Path
    BY PlanFacts, PoolAssumption DEF TypeInv, Job
  <1>2. jobs' = jobs /\ \A p \in Path : node[p] # "none" => node'[p] = node[p]
    BY TreeGrows
  <1>3. Blocked(Above[jobs[i].dest]) => Blocked(Above[jobs[i].dest])'
    BY <1>1, <1>2 DEF Blocked
  <1> QED BY <1>1, <1>2, <1>3 DEF InTheWay

\* An error that a thread meets is a fault of the job or due to what is in its way.
LEMMA ErrorHasCause ==
    ASSUME TypeInv, Claims, Own, Causes, NEW t \in Thread, Step(t), local'[t],
           NEW i \in JobId, cur'[t] = i
    PROVE  i \in fault' \/ InTheWay(i)'
  <1> USE DEF claims, reports, call
  <1>0. i \in fault \/ InTheWay(i) => i \in fault' \/ InTheWay(i)'
    BY WayStays, TreeGrows DEF Next
  <1>1. CASE local[t]
    <2>1. pc[t] \in {"tick", "publish"}
      BY <1>1 DEF Claims
    <2>2. Tick(t) \/ Publish(t)
      BY <2>1 DEF Step, ProcessJob, OpenHandle, CheckCancel, Claim, Enter, DirJob, FileParent,
                  FileCreate, WriteChunk, Flush, WriteFails, Panic
    <2>3. ~Publish(t)
      BY DEF Publish, TypeInv, TypeOK
    <2>4. cur[t] = i
      BY <2>2, <2>3 DEF Tick
    <2> QED BY <1>0, <1>1, <2>4 DEF Causes
  <1>2. CASE ~local[t]
    <2>1. DirJob(t) \/ FileParent(t) \/ FileCreate(t) \/ WriteFails(t)
      BY <1>2 DEF Step, ProcessJob, OpenHandle, CheckCancel, Claim, Enter,
                  WriteChunk, Flush, Panic, Tick, Publish, TypeInv, TypeOK
    <2>2. cur[t] = i
      BY <2>1 DEF DirJob, FileParent, FileCreate, WriteFails
    <2>3. CASE DirJob(t)
      <3>1. i \in fault' \/ Blocked(Above[Dest(t)] \cup {Dest(t)})
        BY <1>2, <2>2, <2>3 DEF DirJob, MakeDirs, Fail
      <3>2. JobOf(t).kind = "dir"
        BY <2>3 DEF DirJob, Own
      <3>3. Blocked(Above[Dest(t)] \cup {Dest(t)}) => InTheWay(i)
        BY <2>2, <3>2 DEF Blocked, InTheWay, Dest, JobOf
      <3> QED BY <1>0, <3>1, <3>3
    <2>4. CASE FileParent(t)
      <3>1. i \in fault' \/ Blocked(Above[Dest(t)])
        BY <1>2, <2>2, <2>4 DEF FileParent, Parents, MakeDirs, Fail
      <3>2. Blocked(Above[Dest(t)]) => InTheWay(i)
        BY <2>2 DEF InTheWay, Dest
      <3> QED BY <1>0, <3>1, <3>2
    <2>5. CASE FileCreate(t)
      <3>1. i \in fault' \/ ~CanCreate(Dest(t))
        BY <1>2, <2>2, <2>5 DEF FileCreate, Fail
      <3>2. ~CanCreate(Dest(t)) => node[Dest(t)] = "dir"
        BY <2>5 DEF FileCreate, CanCreate, Causes
      <3>3. JobOf(t).kind # "dir"
        BY <2>5 DEF FileCreate, Causes
      <3>4. ~CanCreate(Dest(t)) => InTheWay(i)
        BY <2>2, <3>2, <3>3 DEF InTheWay, Dest, JobOf
      <3> QED BY <1>0, <3>1, <3>4
    <2>6. CASE WriteFails(t)
      BY <1>2, <2>2, <2>6 DEF WriteFails, Fail
    <2> QED BY <2>1, <2>3, <2>4, <2>5, <2>6
  <1> QED BY <1>1, <1>2

\* At first nothing has failed.
LEMMA InitCauses == Init => Causes
  BY DEF Init, Causes, OnlyRealFailures

\* A job that fails is one whose holder has an error at hand.
LEMMA NextCauses == TypeInv /\ Claims /\ Own /\ Causes /\ [Next]_vars => Causes'
  <1> SUFFICES ASSUME TypeInv, Claims, Own, Causes, [Next]_vars PROVE Causes'
    OBVIOUS
  <1>1. /\ \A p \in Path : node[p] # "none" => node'[p] = node[p]
        /\ fault \subseteq fault' /\ jobs' = jobs
    BY TreeGrows
  <1>2. \A i \in JobId : i \in fault \/ InTheWay(i) => i \in fault' \/ InTheWay(i)'
    BY <1>1, WayStays
  <1>3. \A u \in Thread : pc[u] \in Holding =>
           cur[u] \in JobId /\ Dest(u) \in Path /\ Above[Dest(u)] \subseteq Path
    BY HeldJob
  <1>4. \A u \in Thread, i \in JobId : local[u] /\ cur[u] = i => i \in fault' \/ InTheWay(i)'
    BY <1>2 DEF Causes
  <1>5. \A u \in Thread : pc[u] = "create" => \A q \in Above[Dest(u)] : node'[q] = "dir"
    <2> SUFFICES ASSUME NEW u \in Thread, pc[u] = "create", NEW q \in Above[Dest(u)]
                 PROVE  node'[q] = "dir"
      OBVIOUS
    <2>1. q \in Path /\ node[q] = "dir"
      BY <1>3 DEF Causes, Holding, Working
    <2> QED BY <1>1, <2>1
  <1>6. ASSUME UNCHANGED <<cur, local, status>>,
               \A u \in Thread : pc'[u] \in {"parent", "create"} => pc'[u] = pc[u]
        PROVE  Causes'
    <2>1. \A u \in Thread, i \in JobId : local'[u] /\ cur'[u] = i => i \in fault' \/ InTheWay(i)'
      BY <1>4, <1>6
    <2>2. \A i \in JobId : status'[i] = "failed" => i \in fault' \/ InTheWay(i)'
      BY <1>2, <1>6 DEF Causes, OnlyRealFailures
    <2>3. \A u \in Thread : pc'[u] = "create" => \A q \in Above[Dest(u)'] : node'[q] = "dir"
      BY <1>1, <1>5, <1>6 DEF Dest
    <2>4. \A u \in Thread : pc'[u] \in {"parent", "create"} => JobOf(u)'.kind # "dir"
      BY <1>1, <1>6 DEF Causes, JobOf
    <2> QED BY <1>1, <2>1, <2>2, <2>3, <2>4 DEF Causes, OnlyRealFailures, JobId
  <1>7. CASE MainStep
    <2> USE DEF claims, outcomes, Goto
    <2>1. CASE Begin
      BY <1>6, <2>1 DEF Begin, TypeInv, TypeOK
    <2>2. CASE SeqTurn
      <3>1. \A u \in Thread : u # Main => pc'[u] = pc[u] /\ cur'[u] = cur[u]
        BY <2>2 DEF SeqTurn, TypeInv, TypeOK
      <3>2. pc'[Main] \notin {"parent", "create"} /\ Main \in Thread /\ local' = local /\ status' = status /\ ~local[Main]
        BY <2>2 DEF SeqTurn, TypeInv, TypeOK, Thread, Claims
      <3>3. \A u \in Thread, i \in JobId : local'[u] /\ cur'[u] = i => i \in fault' \/ InTheWay(i)'
        BY <1>4, <3>1, <3>2
      <3>4. \A i \in JobId : status'[i] = "failed" => i \in fault' \/ InTheWay(i)'
        BY <1>2, <3>2 DEF Causes, OnlyRealFailures
      <3>5. \A u \in Thread : pc'[u] = "create" => \A q \in Above[Dest(u)'] : node'[q] = "dir"
        BY <1>1, <1>5, <3>1, <3>2 DEF Dest
      <3>6. \A u \in Thread : pc'[u] \in {"parent", "create"} => JobOf(u)'.kind # "dir"
        BY <1>1, <3>1, <3>2 DEF Causes, JobOf
      <3> QED BY <1>1, <3>3, <3>4, <3>5, <3>6 DEF Causes, OnlyRealFailures, JobId
    <2>3. CASE JoinAndDrain
      BY <1>6, <2>3 DEF JoinAndDrain, TypeInv, TypeOK
    <2> QED BY <1>7, <2>1, <2>2, <2>3 DEF MainStep
  <1>8. ASSUME NEW t \in Thread, Step(t) PROVE Causes'
    <2>1. \A u \in Thread : u # t => pc'[u] = pc[u] /\ cur'[u] = cur[u] /\ local'[u] = local[u]
      BY <1>8, StepLocal
    <2>2. pc'[t] = "create" => FileParent(t)
      BY <1>8 DEF Step, ProcessJob, OpenHandle, CheckCancel, AfterLook, Claim, LeaveLoop, Enter, DirJob,
         MakeDirs, Fail, FileCreate, WriteChunk, Flush, WriteFails, Panic, Tick, Publish, Goto, TypeInv, TypeOK
    <2>3. pc'[t] = "create" => \A q \in Above[Dest(t)'] : node'[q] = "dir"
      <3> SUFFICES ASSUME pc'[t] = "create" PROVE \A q \in Above[Dest(t)'] : node'[q] = "dir"
        OBVIOUS
      <3>1. Dest(t)' = Dest(t) /\ Above[Dest(t)] \subseteq Path
        BY <1>1, <1>3, <2>2 DEF FileParent, Dest, Holding, Working, claims
      <3>2. node' = WithDirs(Above[Dest(t)])
        BY <2>2 DEF FileParent, Parents, MakeDirs, Fail, Goto, TypeInv, TypeOK
      <3> QED BY <3>1, <3>2 DEF WithDirs
    <2>4. pc'[t] = "parent" => Enter(t)
      BY <1>8 DEF Step, ProcessJob, OpenHandle, CheckCancel, AfterLook, Claim, LeaveLoop, DirJob, FileParent,
         MakeDirs, Fail, FileCreate, WriteChunk, Flush, WriteFails, Panic, Tick, Publish, Goto, TypeInv, TypeOK
    <2>5. pc'[t] \in {"parent", "create"} => JobOf(t)'.kind # "dir"
      BY <1>1, <2>2, <2>4 DEF Enter, FileParent, Causes, JobOf, Goto, TypeInv, TypeOK, claims
    <2>6. \A i \in JobId : local'[t] /\ cur'[t] = i => i \in fault' \/ InTheWay(i)'
      BY <1>8, ErrorHasCause
    <2>7. \A i \in JobId : status'[i] = "failed" => i \in fault' \/ InTheWay(i)'
      <3> SUFFICES ASSUME NEW i \in JobId, status'[i] = "failed" PROVE i \in fault' \/ InTheWay(i)'
        OBVIOUS
      <3>1. CASE status[i] = "failed"
        BY <1>2, <3>1 DEF Causes, OnlyRealFailures
      <3>2. CASE status[i] # "failed"
        <4>1. Publish(t) /\ local[t] /\ cur[t] = i
          BY <1>8, <3>2 DEF Step, ProcessJob, OpenHandle, CheckCancel, Claim, Enter, DirJob, FileParent,
             FileCreate, WriteChunk, Flush, WriteFails, Panic, Tick, Publish, outcomes, TypeInv, TypeOK
        <4> QED BY <1>4, <4>1
      <3> QED BY <3>1, <3>2
    <2>8. \A u \in Thread, i \in JobId : local'[u] /\ cur'[u] = i => i \in fault' \/ InTheWay(i)'
      BY <1>4, <2>1, <2>6
    <2>9. \A u \in Thread : pc'[u] = "create" => \A q \in Above[Dest(u)'] : node'[q] = "dir"
      BY <1>1, <1>5, <2>1, <2>3 DEF Dest
    <2>10. \A u \in Thread : pc'[u] \in {"parent", "create"} => JobOf(u)'.kind # "dir"
      BY <1>1, <2>1, <2>5 DEF Causes, JobOf
    <2> QED BY <1>1, <2>7, <2>8, <2>9, <2>10 DEF Causes, OnlyRealFailures, JobId
  <1>9. CASE PressCancel \/ UNCHANGED vars
    BY <1>6, <1>9 DEF PressCancel, vars, claims, outcomes
  <1> QED BY <1>7, <1>8, <1>9 DEF Next, Over

\* In whatever order the jobs run and whichever threads run them, a job fails by a
\* fault of its own or because of what stands where its file or directory goes.
THEOREM FailsForAReason == Spec => []OnlyRealFailures
  <1>1. Init => TypeInv /\ Claims /\ Own /\ Causes
    BY InitTypeInv, InitClaims, InitOwn, InitCauses
  <1>2. TypeInv /\ Claims /\ Own /\ Causes /\ [Next]_vars => (TypeInv /\ Claims /\ Own /\ Causes)'
    BY NextTypeInv, NextClaims, NextOwn, NextCauses
  <1>3. Causes => OnlyRealFailures
    BY DEF Causes
  <1> QED BY <1>1, <1>2, <1>3, PTL DEF Spec

-----------------------------------------------------------------------------
(* What becomes of each job.                                               *)

\* Either the caller works alone, and no worker was ever spawned, or it waits for
\* the team and does nothing else; when it is back nobody works.
Modes ==
    /\ pc[Main] \notin {"claim", "exit", "nohandle"}
    /\ pc[Main] \notin {"join", "returned"} => \A w \in Worker : pc[w] = "idle"
    /\ pc[Main] = "join" => ~Sequential /\ \A w \in Worker \ crew : pc[w] = "idle"
    /\ Returned => \A w \in Worker : pc[w] \in Gone \cup {"idle"}

\* A job under way is held by somebody; so is one that was handed out and not
\* begun, unless a cancel made its holder drop it; only bad ones are lost.
Accounted ==
    /\ \A i \in JobId : status[i] = "running" => \E t \in Thread : cur[t] = i
    /\ \A i \in JobId : status[i] = "pending" /\ i <= next => cancel \/ \E t \in Thread : cur[t] = i
    /\ \A i \in JobId : status[i] = "lost" => jobs[i].bad
    /\ \A t \in Thread : pc[t] = "publish" /\ status[cur[t]] = "pending" => cancel

\* Why a thread leaves: a cancel, the end of the list, no handle, or a panic that
\* loses a job.
Reasons ==
    /\ \A w \in Worker : pc[w] = "exit" => cancel \/ next >= Len(jobs)
    /\ \A t \in Thread : pc[t] = "panicked" => \E i \in JobId : status[i] = "lost"
    /\ Sequential /\ Returned => cancel \/ NoHandle \in errors \/ next >= Len(jobs)
    /\ pc[Main] \in {"start", "open"} => next = 0
    /\ pc[Main] = "join" /\ next > 0 => \E w \in crew : pc[w] \notin {"open", "nohandle"}

\* The errors so far are those of the jobs that failed, and a lone caller has no
\* use for errors_arc.
FailedJobs == {i \in JobId : status[i] = "failed"}
Reports ==
    /\ pc[Main] \notin {"join", "returned"} => shared = {}
    /\ ~Returned => errors \cup shared = FailedJobs

Ending == Modes /\ Accounted /\ Reasons /\ Reports

-----------------------------------------------------------------------------
(* Each step keeps account of the jobs.                                    *)

\* A step of a thread is the lone caller's, or that of a spawned worker while
\* the caller waits.
LEMMA WhoSteps ==
    ASSUME TypeInv, Modes, NEW t \in Thread, Step(t)
    PROVE  /\ ~Returned
           /\ \/ t = Main /\ pc[Main] \notin {"start", "join"} /\ \A w \in Worker : pc[w] = "idle"
              \/ t \in crew /\ t \in Worker /\ t # Main /\ pc[Main] = "join"
  <1>1. pc[t] \notin {"start", "idle"}
    BY StepMoves DEF TypeInv
  <1>2. pc[t] \notin Gone \cup {"join", "returned"}
    BY DEF Step, ProcessJob, OpenHandle, CheckCancel, Claim, Enter, DirJob, FileParent, FileCreate,
           WriteChunk, Flush, WriteFails, Panic, Tick, Publish, Gone
  <1>3. Main \notin Worker /\ crew \subseteq Worker /\ Main \in Thread
    BY PoolAssumption DEF TypeInv, TypeOK, Thread
  <1>4. CASE t = Main
    BY <1>1, <1>2, <1>3, <1>4 DEF Modes, Returned
  <1>5. CASE t # Main
    <2>1. t \in Worker
      BY <1>5 DEF Thread
    <2> QED BY <1>1, <1>2, <1>5, <2>1 DEF Modes, Returned
  <1> QED BY <1>4, <1>5

\* What a step of a thread can do to the caller's view.
LEMMA StepFrame ==
    ASSUME TypeInv, NEW t \in Thread, Step(t)
    PROVE  /\ UNCHANGED <<jobs, crew, cancel>>
           /\ next' = next \/ (next' = next + 1 /\ pc[t] = "claim")
           /\ pc' \in [Thread -> Label]
           /\ \A u \in Thread : u # t => pc'[u] = pc[u] /\ cur'[u] = cur[u]
           /\ errors \subseteq errors'
  <1> USE DEF call, claims, reports, progress, disk, outcomes
  <1>1. \A u \in Thread : u # t => pc'[u] = pc[u] /\ cur'[u] = cur[u]
    BY StepLocal
  <1>2. pc' \in [Thread -> Label]
    BY NextTypeInv DEF Next, TypeInv, TypeOK
  <1>3. CASE OpenHandle(t) \/ CheckCancel(t) \/ Claim(t)
    BY <1>1, <1>2, <1>3 DEF OpenHandle, CheckCancel, Claim, FetchAdd
  <1>4. CASE ProcessJob(t)
    <2>1. UNCHANGED <<jobs, crew, cancel, next>> /\ errors \subseteq errors'
      BY <1>4 DEF ProcessJob, Enter, DirJob, FileParent, FileCreate, WriteChunk, Flush,
                  WriteFails, Panic, Tick, Publish
    <2> QED BY <1>1, <1>2, <2>1
  <1> QED BY <1>3, <1>4 DEF Step

\* Who is where, step by step.
LEMMA NextModes == TypeInv /\ Modes /\ [Next]_vars => Modes'
  <1> SUFFICES ASSUME TypeInv, Modes, [Next]_vars PROVE Modes'
    OBVIOUS
  <1> USE DEF call, Goto
  <1>0. Main \in Thread /\ Main \notin Worker /\ crew \subseteq Worker /\ Worker \subseteq Thread
        /\ pc \in [Thread -> Label]
    BY PoolAssumption DEF TypeInv, TypeOK, Thread
  <1>1. CASE Begin
    <2>1. \A w \in Worker : pc[w] = "idle"
      BY <1>1 DEF Begin, TypeInv, NotSpawned
    <2>2. jobs' = jobs /\ crew' = crew
      BY <1>1 DEF Begin
    <2>3. \/ pc' = [pc EXCEPT ![Main] = "returned"]
          \/ pc' = [pc EXCEPT ![Main] = "open"]
          \/ ~Sequential /\ pc' = [u \in Thread |-> IF u = Main THEN "join"
                                     ELSE IF u \in crew THEN "open" ELSE pc[u]]
      BY <1>1 DEF Begin
    <2> QED BY <1>0, <2>1, <2>2, <2>3 DEF Modes, Sequential, Returned
  <1>2. CASE SeqTurn
    <2>1. \A w \in Worker : pc[w] = "idle" /\ pc'[w] = "idle"
      BY <1>0, <1>2 DEF SeqTurn, Modes
    <2>2. pc'[Main] \in {"returned", "enter"}
      BY <1>0, <1>2 DEF SeqTurn
    <2> QED BY <2>1, <2>2 DEF Modes, Returned
  <1>3. CASE JoinAndDrain
    <2>1. pc'[Main] = "returned" /\ \A w \in Worker : pc'[w] = pc[w]
      BY <1>0, <1>3 DEF JoinAndDrain
    <2>2. \A w \in Worker : pc[w] \in Gone \cup {"idle"}
      BY <1>3 DEF JoinAndDrain, Modes
    <2> QED BY <2>1, <2>2 DEF Modes, Returned
  <1>4. ASSUME NEW t \in Thread, Step(t) PROVE Modes'
    <2>1. /\ jobs' = jobs /\ crew' = crew
          /\ \A u \in Thread : u # t => pc'[u] = pc[u]
      BY <1>4, StepFrame
    <2>2. CASE t = Main
      <3>1. /\ \A w \in Worker : pc[w] = "idle" /\ pc'[w] = "idle"
            /\ pc[Main] \notin {"start", "join"}
        BY <1>0, <1>4, <2>1, <2>2, WhoSteps
      <3>2. pc'[Main] \notin {"claim", "exit", "nohandle", "join"}
        <4>1. OpenHandle(t) \/ ProcessJob(t)
          BY <1>4, <2>2, <3>1 DEF Step, CheckCancel, Claim, Modes
        <4>2. OpenHandle(t) => pc'[t] \in {"check", "returned"}
          BY <1>0, <2>2 DEF OpenHandle
        <4>3. ProcessJob(t) => pc'[t] \in Holding \cup {"check", "panicked"}
          BY <1>0 DEF ProcessJob, Enter, DirJob, FileParent, FileCreate, MakeDirs, Fail,
             WriteChunk, Flush, WriteFails, Panic, Tick, Publish, Holding, Working
        <4> QED BY <2>2, <4>1, <4>2, <4>3 DEF Holding, Working
      <3> QED BY <3>1, <3>2 DEF Modes, Returned
    <2>3. CASE t # Main
      <3>1. t \in crew /\ pc[Main] = "join" /\ pc'[Main] = "join"
        BY <1>0, <1>4, <2>1, <2>3, WhoSteps
      <3> QED BY <1>0, <2>1, <3>1 DEF Modes, Sequential, Returned
    <2> QED BY <2>2, <2>3
  <1>5. CASE PressCancel \/ UNCHANGED vars
    BY <1>5 DEF PressCancel, vars, Modes, Sequential, Returned
  <1> QED BY <1>1, <1>2, <1>3, <1>4, <1>5 DEF Next, MainStep, Over

\* What a step does to the status of the thread's job, and where that leaves the job.
LEMMA StatusStep ==
    ASSUME TypeInv, Claims, Accounted, NEW t \in Thread, Step(t)
    PROVE  /\ \A i \in JobId : status'[i] = "running" => \E u \in Thread : cur'[u] = i
           /\ \A i \in JobId : status'[i] = "pending" /\ i <= next' => cancel \/ \E u \in Thread : cur'[u] = i
           /\ \A i \in JobId : status'[i] = "lost" => jobs[i].bad
           /\ pc'[t] = "publish" /\ status'[cur'[t]] = "pending" => cancel
           /\ \A i \in JobId : status[i] = "lost" => status'[i] = "lost"
           /\ pc'[t] = "panicked" => \E i \in JobId : status'[i] = "lost"
  <1> USE DEF Goto, call, claims, reports, progress, disk, outcomes
  <1>1. /\ \A u \in Thread : u # t => cur'[u] = cur[u] /\ cur[u] \in Nat
        /\ \A i \in JobId : i # cur[t] => status'[i] = status[i]
        /\ \A i \in JobId : i \in Nat \ {0}
        /\ next \in Nat /\ cur[t] \in Nat
    BY StepLocal, PlanFacts DEF TypeInv, TypeOK
  <1>2. pc[t] \in Holding => cur[t] \in JobId
    BY HeldJob
  <1>3. \A i \in JobId : cur'[t] = cur[t] /\ (\E u \in Thread : cur[u] = i) => \E u \in Thread : cur'[u] = i
    BY <1>1
  <1>4. \A i \in JobId : i # cur[t] /\ (\E u \in Thread : cur[u] = i) => \E u \in Thread : cur'[u] = i
    BY <1>1
  <1>5. CASE UNCHANGED <<next, cur, status>> /\ pc'[t] # "panicked" /\ (pc'[t] = "publish" => status[cur[t]] # "pending")
    BY <1>3, <1>5 DEF Accounted
  <1>6. CASE OpenHandle(t) \/ CheckCancel(t)
    BY <1>5, <1>6 DEF OpenHandle, CheckCancel, AfterLook, TypeInv, TypeOK
  <1>7. CASE Claim(t)
    <2>1. cur[t] = 0 /\ status' = status /\ pc'[t] \notin {"panicked", "publish"}
      BY <1>7 DEF Claim, LeaveLoop, TypeInv, TypeOK, HoldsInside, Holding, Working
    <2>2. CASE PastEnd(next)
      <3>1. cur' = cur /\ next' = next + 1 /\ \A i \in JobId : i <= next
        BY <1>1, <1>7, <2>2, PlanFacts DEF Claim, FetchAdd, PastEnd, TypeInv
      <3> QED BY <1>3, <2>1, <3>1 DEF Accounted
    <2>3. CASE ~PastEnd(next)
      <3>1. cur' = [cur EXCEPT ![t] = next + 1] /\ next' = next + 1
        BY <1>7, <2>3 DEF Claim, FetchAdd
      <3>2. cur'[t] = next + 1
        BY <3>1 DEF TypeInv, TypeOK
      <3>3. \A i \in JobId : i <= next' => i <= next \/ i = next + 1
        BY <1>1, <3>1
      <3> QED BY <1>1, <1>4, <2>1, <3>1, <3>2, <3>3 DEF Accounted
    <2> QED BY <2>2, <2>3
  <1>8. CASE Enter(t)
    <2>1. cur' = cur /\ next' = next /\ pc'[t] # "panicked"
      BY <1>8 DEF Enter, TypeInv, TypeOK
    <2>2. CASE cancel
      <3>1. status' = status
        BY <1>8, <2>2 DEF Enter, Stopped
      <3> QED BY <1>3, <2>1, <2>2, <3>1 DEF Accounted
    <2>3. CASE ~cancel
      <3>1. status' = [status EXCEPT ![cur[t]] = "running"] /\ pc'[t] # "publish"
        BY <1>8, <2>3 DEF Enter, Stopped, TypeInv, TypeOK
      <3>2. cur[t] \in JobId /\ status'[cur[t]] = "running" /\ status[cur[t]] = "pending"
        BY <1>2, <1>8, <3>1 DEF Enter, Holding, TypeInv, TypeOK, Claims
      <3> QED BY <1>1, <1>3, <2>1, <3>1, <3>2 DEF Accounted
    <2> QED BY <2>2, <2>3
  <1>9. CASE DirJob(t) \/ FileParent(t) \/ FileCreate(t) \/ WriteChunk(t) \/ Flush(t) \/ WriteFails(t) \/ Tick(t)
    <2>1. UNCHANGED <<next, cur, status>> /\ pc[t] \in Working
      BY <1>9 DEF DirJob, FileParent, FileCreate, WriteChunk, Flush, WriteFails, Tick, Working
    <2>2. pc'[t] # "panicked"
      BY <1>9 DEF DirJob, FileParent, FileCreate, WriteChunk, Flush, WriteFails, Tick, MakeDirs, Fail, TypeInv, TypeOK
    <2>3. status[cur[t]] # "pending"
      BY <2>1 DEF Claims
    <2> QED BY <1>5, <2>1, <2>2, <2>3
  <1>10. CASE Panic(t)
    <2>1. /\ cur[t] \in JobId /\ jobs[cur[t]].bad
          /\ next' = next /\ status'[cur[t]] = "lost" /\ pc'[t] = "panicked"
      BY <1>2, <1>10 DEF Panic, Holding, Working, JobOf, TypeInv, TypeOK
    <2> QED BY <1>1, <1>4, <2>1 DEF Accounted
  <1>11. CASE Publish(t)
    <2>1. /\ cur[t] \in JobId /\ next' = next /\ pc'[t] = "check"
          /\ status'[cur[t]] \in {"pending", "failed", "copied"}
          /\ status'[cur[t]] = "pending" => status[cur[t]] = "pending"
          /\ status[cur[t]] # "lost" /\ pc[t] = "publish"
      BY <1>2, <1>11 DEF Publish, Holding, Working, TypeInv, TypeOK, Claims
    <2>2. status'[cur[t]] = "pending" => cancel
      BY <2>1 DEF Accounted
    <2> QED BY <1>1, <1>4, <2>1, <2>2 DEF Accounted
  <1> QED BY <1>6, <1>7, <1>8, <1>9, <1>10, <1>11 DEF Step, ProcessJob

\* No job falls between two threads.
LEMMA NextAccounted == TypeInv /\ Claims /\ Modes /\ Accounted /\ [Next]_vars => Accounted'
  <1> SUFFICES ASSUME TypeInv, Claims, Modes, Accounted, [Next]_vars PROVE Accounted'
    OBVIOUS
  <1> USE DEF call, claims, outcomes, Goto
  <1>1. CASE Begin
    <2>1. \A t \in Thread : pc'[t] # "publish"
      BY <1>1 DEF Begin, TypeInv, TypeOK, NotSpawned, Thread
    <2> QED BY <1>1, <2>1 DEF Begin, Accounted, JobId
  <1>2. CASE SeqTurn
    <2>1. /\ \A t \in Thread : pc'[t] = "publish" => pc[t] = "publish" /\ cur'[t] = cur[t]
          /\ \A t \in Thread : t # Main => cur'[t] = cur[t]
          /\ UNCHANGED <<jobs, cancel, status>>
          /\ Main \in Thread /\ cur[Main] = 0
      BY <1>2 DEF SeqTurn, TypeInv, TypeOK, HoldsInside, Holding, Working, Thread
    <2>2. \A i \in JobId : (\E t \in Thread : cur[t] = i) => \E t \in Thread : cur'[t] = i
      BY <2>1, PlanFacts DEF TypeInv
    <2>3. \A i \in JobId : i <= next' => i <= next \/ cur'[Main] = i
      BY <1>2, <2>1, PlanFacts DEF SeqTurn, TypeInv, TypeOK
    <2> QED BY <2>1, <2>2, <2>3 DEF Accounted, JobId
  <1>3. CASE JoinAndDrain
    <2>1. \A t \in Thread : pc'[t] = "publish" => pc[t] = "publish"
      BY <1>3 DEF JoinAndDrain, TypeInv, TypeOK
    <2> QED BY <1>3, <2>1 DEF JoinAndDrain, Accounted, JobId
  <1>4. ASSUME NEW t \in Thread, Step(t) PROVE Accounted'
    <2>1. /\ \A u \in Thread : u # t => pc'[u] = pc[u] /\ cur'[u] = cur[u]
          /\ \A i \in JobId : i # cur[t] => status'[i] = status[i]
          /\ jobs' = jobs /\ cancel' = cancel
      BY <1>4, StepLocal, StepFrame
    <2>2. \A u \in Thread : u # t /\ pc'[u] = "publish" => status'[cur'[u]] = status[cur[u]]
      <3> SUFFICES ASSUME NEW u \in Thread, u # t, pc'[u] = "publish"
                   PROVE  status'[cur'[u]] = status[cur[u]]
        OBVIOUS
      <3>1. pc[u] \in Holding /\ cur'[u] = cur[u]
        BY <2>1 DEF Holding
      <3>2. cur[u] \in JobId /\ cur[u] # 0
        BY <3>1, HeldJob DEF TypeInv, HoldsInside
      <3> QED BY <2>1, <3>1, <3>2 DEF Claims
    <2>3. /\ \A i \in JobId : status'[i] = "running" => \E u \in Thread : cur'[u] = i
          /\ \A i \in JobId : status'[i] = "pending" /\ i <= next' => cancel \/ \E u \in Thread : cur'[u] = i
          /\ \A i \in JobId : status'[i] = "lost" => jobs[i].bad
          /\ pc'[t] = "publish" /\ status'[cur'[t]] = "pending" => cancel
      BY <1>4, StatusStep
    <2> QED BY <2>1, <2>2, <2>3 DEF Accounted, JobId
  <1>5. CASE PressCancel \/ UNCHANGED vars
    BY <1>5 DEF PressCancel, vars, Accounted, JobId
  <1> QED BY <1>1, <1>2, <1>3, <1>4, <1>5 DEF Next, MainStep, Over

\* Nobody leaves without a reason.
LEMMA NextReasons ==
    ASSUME TypeInv, Claims, Modes, Accounted, Reasons, [Next]_vars
    PROVE  Reasons'
  <1> USE DEF call, claims, reports, progress, disk, outcomes, Goto
  <1>0. /\ Main \in Thread /\ Main \notin Worker /\ crew \subseteq Worker /\ Worker \subseteq Thread
        /\ pc \in [Thread -> Label] /\ next \in Nat /\ Len(jobs) \in Nat
    BY PoolAssumption, PlanFacts DEF TypeInv, TypeOK, Thread
  <1>1. CASE Begin
    <2>1. UNCHANGED <<jobs, crew, cancel, next, errors, status>> /\ next = 0
      BY <1>1 DEF Begin, Reasons
    <2>2. \A w \in Worker : pc'[w] # "exit"
      BY <1>0, <1>1 DEF Begin, TypeInv, NotSpawned
    <2>3. \A t \in Thread : pc'[t] = "panicked" => pc[t] = "panicked"
      BY <1>0, <1>1 DEF Begin
    <2>4. Returned' => jobs = <<>>
      BY <1>0, <1>1 DEF Begin, Returned
    <2>5. jobs = <<>> => Len(jobs) = 0
      OBVIOUS
    <2> QED BY <2>1, <2>2, <2>3, <2>4, <2>5 DEF Reasons, JobId
  <1>2. CASE SeqTurn
    <2>1. UNCHANGED <<jobs, crew, cancel, errors, status>>
      BY <1>2 DEF SeqTurn
    <2>2. /\ pc'[Main] \in {"returned", "enter"}
          /\ \A w \in Worker : pc[w] = "idle" /\ pc'[w] = "idle"
      BY <1>0, <1>2 DEF SeqTurn, Modes
    <2>3. pc'[Main] = "returned" => cancel \/ next' >= Len(jobs)
      BY <1>0, <1>2 DEF SeqTurn, PastEnd
    <2>4. \A t \in Thread : pc'[t] # "panicked"
      BY <2>2 DEF Thread
    <2> QED BY <2>1, <2>2, <2>3, <2>4 DEF Reasons, JobId, Returned
  <1>3. CASE JoinAndDrain
    <2>1. UNCHANGED <<jobs, crew, cancel, next, status>>
      BY <1>3 DEF JoinAndDrain
    <2>2. pc'[Main] = "returned" /\ \A t \in Thread : t # Main => pc'[t] = pc[t]
      BY <1>0, <1>3 DEF JoinAndDrain
    <2>3. ~Sequential'
      BY <1>3, <2>1 DEF JoinAndDrain, Modes, Sequential
    <2> QED BY <1>0, <2>1, <2>2, <2>3 DEF Reasons, JobId
  <1>4. ASSUME NEW t \in Thread, Step(t) PROVE Reasons'
    <2>1. /\ UNCHANGED <<jobs, crew, cancel>>
          /\ next' = next \/ (next' = next + 1 /\ pc[t] = "claim")
          /\ \A u \in Thread : u # t => pc'[u] = pc[u]
          /\ errors \subseteq errors'
      BY <1>4, StepFrame
    <2>2. /\ \A i \in JobId : status[i] = "lost" => status'[i] = "lost"
          /\ pc'[t] = "panicked" => \E i \in JobId : status'[i] = "lost"
      BY <1>4, StatusStep
    <2>3. pc'[t] = "exit" => cancel \/ next >= Len(jobs)
      BY <1>0, <1>4 DEF Step, ProcessJob, OpenHandle, CheckCancel, AfterLook, Claim, PastEnd, LeaveLoop,
         Enter, DirJob, FileParent, FileCreate, MakeDirs, Fail, WriteChunk, Flush, WriteFails, Panic, Tick, Publish
    <2>4. \A w \in Worker : pc'[w] = "exit" => cancel \/ next' >= Len(jobs)
      BY <1>0, <2>1, <2>3 DEF Reasons
    <2>5. \A u \in Thread : pc'[u] = "panicked" => \E i \in JobId : status'[i] = "lost"
      BY <2>1, <2>2 DEF Reasons
    <2>6. CASE t = Main
      <3>1. pc[Main] \notin {"claim", "start", "join"}
        BY <1>4, <2>6, WhoSteps DEF Modes
      <3>2. Returned' => NoHandle \in errors'
        BY <1>0, <1>4, <2>6 DEF Step, ProcessJob, OpenHandle, CheckCancel, AfterLook, Claim,
           LeaveLoop, Enter, DirJob, FileParent, FileCreate, MakeDirs, Fail, WriteChunk, Flush, WriteFails,
           Panic, Tick, Publish, Returned
      <3>3. pc'[Main] \notin {"start", "open", "join"}
        BY <1>0, <1>4, <2>6, StepMoves DEF TypeInv, Holding, Working, Gone
      <3> QED BY <2>1, <2>4, <2>5, <3>2, <3>3 DEF Reasons, JobId
    <2>7. CASE t # Main
      <3>1. t \in crew /\ pc[Main] = "join" /\ pc'[Main] = "join"
        BY <1>0, <1>4, <2>1, <2>7, WhoSteps
      <3>2. pc[t] \notin {"open", "nohandle"} => pc'[t] \notin {"open", "nohandle"}
        BY <1>0, <1>4 DEF Step, ProcessJob, OpenHandle, CheckCancel, AfterLook, Claim, LeaveLoop,
           Enter, DirJob, FileParent, FileCreate, MakeDirs, Fail, WriteChunk, Flush, WriteFails, Panic, Tick, Publish
      <3>3. next' > 0 => \E w \in crew : pc'[w] \notin {"open", "nohandle"}
        <4>1. CASE pc[t] = "claim"
          BY <3>1, <3>2, <4>1
        <4>2. CASE pc[t] # "claim" /\ next' > 0
          <5>1. PICK w \in crew : pc[w] \notin {"open", "nohandle"}
            BY <2>1, <3>1, <4>2 DEF Reasons
          <5> QED BY <1>0, <2>1, <3>2, <5>1
        <4> QED BY <4>1, <4>2
      <3> QED BY <2>1, <2>4, <2>5, <3>1, <3>3 DEF Reasons, JobId, Returned
    <2> QED BY <2>6, <2>7
  <1>5. CASE PressCancel \/ UNCHANGED vars
    BY <1>5 DEF PressCancel, vars, Reasons, JobId, Sequential, Returned
  <1> QED BY <1>1, <1>2, <1>3, <1>4, <1>5 DEF Next, MainStep, Over

\* A thread's step adds the job to the errors exactly when it makes it a failed one.
LEMMA ReportStep ==
    ASSUME TypeInv, Claims, Modes, Reports, NEW t \in Thread, Step(t)
    PROVE  /\ ~Returned' => errors' \cup shared' = FailedJobs'
           /\ t = Main => shared' = shared
           /\ Returned' => FailedJobs = FailedJobs' /\ shared' = shared /\ errors' = errors \cup {NoHandle} /\ pc[t] = "open"
  <1> USE DEF Goto, call, claims, reports, progress, disk, outcomes
  <1>0. /\ jobs' = jobs /\ errors \cup shared = FailedJobs
        /\ \A i \in JobId : i # cur[t] => status'[i] = status[i]
        /\ pc[Main] # "returned"
    BY StepLocal, WhoSteps DEF Reports, Returned
  <1>1. CASE Publish(t)
    <2>1. cur[t] \in JobId /\ status[cur[t]] \in {"pending", "running"} /\ (local[t] => status[cur[t]] = "running")
      BY <1>1, HeldJob DEF Publish, Holding, Claims
    <2>2. status'[cur[t]] = "failed" <=> local[t]
      BY <1>1, <2>1 DEF Publish, TypeInv, TypeOK
    <2>3. FailedJobs' = FailedJobs \cup (IF local[t] THEN {cur[t]} ELSE {})
      BY <1>0, <2>1, <2>2 DEF FailedJobs, JobId
    <2>4. errors' \cup shared' = errors \cup shared \cup (IF local[t] THEN {cur[t]} ELSE {})
      BY <1>1 DEF Publish
    <2>5. ~Returned' /\ (t = Main => shared' = shared)
      BY <1>0, <1>1 DEF Publish, Returned, TypeInv, TypeOK
    <2> QED BY <1>0, <2>3, <2>4, <2>5
  <1>2. CASE ~Publish(t)
    <2>1. UNCHANGED shared
      BY <1>2 DEF Step, ProcessJob, OpenHandle, CheckCancel, Claim, Enter, DirJob, FileParent, FileCreate,
         WriteChunk, Flush, WriteFails, Panic, Tick
    <2>2. FailedJobs' = FailedJobs
      <3>1. Enter(t) \/ Panic(t) => cur[t] \in JobId /\ status[cur[t]] \in {"pending", "running"}
                                    /\ status'[cur[t]] # "failed"
        BY HeldJob DEF Enter, Panic, Holding, Working, Claims, TypeInv, TypeOK
      <3>2. CASE Enter(t) \/ Panic(t)
        BY <1>0, <3>1, <3>2 DEF FailedJobs, JobId
      <3>3. CASE ~(Enter(t) \/ Panic(t))
        <4>1. status' = status
          BY <1>2, <3>3 DEF Step, ProcessJob, OpenHandle, CheckCancel, Claim, DirJob, FileParent, FileCreate,
             WriteChunk, Flush, WriteFails, Tick
        <4> QED BY <1>0, <4>1 DEF FailedJobs, JobId
      <3> QED BY <3>2, <3>3
    <2>3. \/ errors' = errors /\ ~Returned'
          \/ pc[t] = "open" /\ errors' = errors \cup {NoHandle} /\ Returned'
      <3>1. CASE OpenHandle(t)
        BY <1>0, <3>1 DEF OpenHandle, Returned, TypeInv, TypeOK, Thread
      <3>2. CASE ~OpenHandle(t)
        <4>1. errors' = errors
          BY <1>2, <3>2 DEF Step, ProcessJob, CheckCancel, Claim, Enter, DirJob, FileParent, FileCreate,
             WriteChunk, Flush, WriteFails, Panic, Tick
        <4>2. pc'[t] # "returned"
          BY <1>2, <3>2 DEF Step, ProcessJob, CheckCancel, AfterLook, Claim, LeaveLoop, Enter, DirJob, FileParent,
             FileCreate, MakeDirs, Fail, WriteChunk, Flush, WriteFails, Panic, Tick, TypeInv, TypeOK
        <4>3. ~Returned'
          BY <1>0, <4>2, StepFrame DEF Returned, TypeInv, TypeOK, Thread
        <4> QED BY <4>1, <4>3
      <3> QED BY <3>1, <3>2
    <2> QED BY <1>0, <2>1, <2>2, <2>3
  <1> QED BY <1>1, <1>2

\* The errors at hand are those of the failed jobs.
LEMMA NextReports ==
    ASSUME TypeInv, Claims, Modes, Reports, [Next]_vars
    PROVE  Reports'
  <1> USE DEF call, reports, outcomes, Goto
  <1>0. /\ Main \in Thread /\ pc \in [Thread -> Label]
    BY DEF TypeInv, TypeOK, Thread
  <1>1. CASE Begin \/ SeqTurn
    <2>1. UNCHANGED <<jobs, shared, errors, status>> /\ pc[Main] \in {"start", "check"}
      BY <1>1 DEF Begin, SeqTurn
    <2> QED BY <2>1 DEF Reports, FailedJobs, JobId, Returned
  <1>2. CASE JoinAndDrain
    BY <1>0, <1>2 DEF JoinAndDrain, Reports, Returned
  <1>3. ASSUME NEW t \in Thread, Step(t) PROVE Reports'
    <2>1. /\ ~Returned' => errors' \cup shared' = FailedJobs'
          /\ t = Main => shared' = shared
      BY <1>3, ReportStep
    <2>2. CASE t = Main
      <3>1. pc[Main] \notin {"join", "returned"}
        BY <1>3, <2>2, WhoSteps DEF Returned
      <3> QED BY <2>1, <2>2, <3>1 DEF Reports
    <2>3. CASE t # Main
      <3>1. pc'[Main] = "join"
        BY <1>0, <1>3, <2>3, WhoSteps, StepFrame
      <3> QED BY <2>1, <3>1 DEF Reports
    <2> QED BY <2>2, <2>3
  <1>4. CASE PressCancel \/ UNCHANGED vars
    BY <1>4 DEF PressCancel, vars, Reports, FailedJobs, JobId, Returned
  <1> QED BY <1>1, <1>2, <1>3, <1>4 DEF Next, MainStep, Over

\* At first nothing has been handed out and nobody has anything to report.
LEMMA InitEnding == Init => Ending
  <1> SUFFICES ASSUME Init PROVE Ending
    OBVIOUS
  <1>1. /\ \A w \in Worker : pc[w] = "idle"
        /\ pc[Main] = "start" /\ \A t \in Thread : pc[t] \in {"start", "idle"}
    BY PoolAssumption DEF Init, Thread
  <1>2. next = 0 /\ \A i \in JobId : status[i] = "pending" /\ i \in Nat \ {0}
    BY InitTypeInv, PlanFacts DEF Init, TypeInv
  <1>3. Modes
    BY <1>1 DEF Modes, Returned
  <1>4. Accounted
    BY <1>1, <1>2 DEF Accounted
  <1>5. Reasons
    BY <1>1, <1>2 DEF Reasons, Returned
  <1>6. Reports
    BY <1>2 DEF Init, Reports, FailedJobs
  <1> QED BY <1>3, <1>4, <1>5, <1>6 DEF Ending

\* All of it holds throughout.
LEMMA EndingInvariant == Spec => [](TypeInv /\ Claims /\ Ending)
  <1>1. Init => TypeInv /\ Claims /\ Ending
    BY InitTypeInv, InitClaims, InitEnding
  <1>2. TypeInv /\ Claims /\ Ending /\ [Next]_vars => (TypeInv /\ Claims /\ Ending)'
    BY NextTypeInv, NextClaims, NextModes, NextAccounted, NextReasons, NextReports DEF Ending
  <1> QED BY <1>1, <1>2, PTL DEF Spec

-----------------------------------------------------------------------------
(* How the call ends.                                                      *)

\* When the call is over no thread holds a job, so none is under way.
LEMMA NothingHeld ==
    ASSUME TypeInv, Ending, \A t \in Thread : pc[t] \notin Holding
    PROVE  /\ \A i \in JobId : status[i] # "running"
           /\ ~cancel /\ next >= Len(jobs) => \A i \in JobId : status[i] # "pending"
  <1>1. \A t \in Thread : cur[t] = 0
    BY DEF TypeInv, HoldsInside
  <1>2. Len(jobs) \in Nat /\ next \in Nat /\ JobId = 1 .. Len(jobs)
    BY PlanFacts DEF TypeInv, TypeOK
  <1>3. ~cancel /\ next >= Len(jobs) => \A i \in JobId : i <= next
    BY <1>2
  <1>4. \A i \in JobId : i # 0
    BY <1>2
  <1> QED BY <1>1, <1>3, <1>4 DEF Ending, Accounted

\* A call that was not cancelled, and in which some thread came to the end of the
\* list, brought every job to an end: for any team, list and interleaving.
THEOREM NothingLeftOver == Spec => []EveryJobEnded
  <1>1. TypeInv /\ Claims /\ Ending => EveryJobEnded
    <2> SUFFICES ASSUME TypeInv, Ending, Returned, ~cancel,
                        \/ \E w \in crew : pc[w] = "exit"
                        \/ Sequential /\ NoHandle \notin errors
                 PROVE  \A i \in JobId : \/ status[i] \in {"copied", "failed"}
                                         \/ status[i] = "lost" /\ jobs[i].bad
      BY DEF EveryJobEnded
    <2>1. next >= Len(jobs)
      BY DEF Ending, Reasons, TypeInv, TypeOK
    <2>2. \A t \in Thread : pc[t] \notin Holding
      BY DEF Ending, Modes, Returned, Gone, Holding, Working, Thread
    <2>3. \A i \in JobId : status[i] \notin {"running", "pending"}
      BY <2>1, <2>2, NothingHeld
    <2> QED BY <2>3 DEF TypeInv, TypeOK, Ending, Accounted
  <1> QED BY <1>1, EndingInvariant, PTL

-----------------------------------------------------------------------------
(* CopyPool implements CopyContract.                                       *)

\* The return of the call, as the contract has it.
LEMMA ReturnStep ==
    ASSUME TypeInv, Ending, ~Returned, Returned', UNCHANGED <<jobs, status, cancel>>,
           \A i \in JobId : status[i] # "running",
           \/ /\ errors' = FailedJobs
              /\ \/ cancel
                 \/ \E i \in JobId : status[i] = "lost"
                 \/ \A i \in JobId : status[i] # "pending"
           \/ /\ errors' \in {{}, {NoHandle}}
              /\ \A i \in JobId : status[i] = "pending"
    PROVE  Contract!Return
  <1>1. DOMAIN status = JobId
    BY DEF TypeInv, TypeOK
  <1> QED BY <1>1 DEF Contract!Return, Contract!Idle, Contract!Jobs, Contract!Failed, FailedJobs, NoHandle

\* The caller has no source handle: no job was handed out and the report says so.
LEMMA NoHandleReturn ==
    ASSUME TypeInv, Claims, Ending, NEW t \in Thread, Step(t), Returned'
    PROVE  Contract!Return
  <1>1. /\ FailedJobs = FailedJobs' /\ shared' = shared
        /\ errors' = errors \cup {NoHandle} /\ pc[t] = "open"
        /\ ~Returned /\ UNCHANGED <<jobs, cancel>>
    BY ReportStep, WhoSteps, StepFrame DEF Ending
  <1>2. OpenHandle(t)
    BY <1>1 DEF Step, ProcessJob, CheckCancel, Claim, Enter, DirJob, FileParent, FileCreate,
       WriteChunk, Flush, WriteFails, Panic, Tick, Publish
  <1>3. t = Main
    BY <1>1, <1>2, StepFrame DEF OpenHandle, Goto, Returned, TypeInv, TypeOK, Thread
  <1>4. next = 0 /\ status' = status
    BY <1>1, <1>2, <1>3 DEF Ending, Reasons, OpenHandle, outcomes
  <1>5. \A i \in JobId : status[i] = "pending"
    BY <1>4, PlanFacts DEF TypeInv, Claims
  <1>6. errors = {}
    BY <1>1, <1>5 DEF Ending, Reports, FailedJobs
  <1> QED BY <1>1, <1>4, <1>5, <1>6, ReturnStep

\* A step of a thread begins its job, ends it, or is hidden from the caller.
LEMMA StepContract ==
    ASSUME TypeInv, Claims, Ending, NEW t \in Thread, Step(t)
    PROVE  Contract!Next \/ UNCHANGED Contract!vars
  <1> USE DEF Goto, call, claims, reports, progress, disk, outcomes
  <1>0. ~Returned /\ UNCHANGED <<jobs, cancel>> /\ DOMAIN status = JobId
    BY WhoSteps, StepFrame DEF Ending, TypeInv, TypeOK
  <1>1. CASE Returned'
    BY <1>1, NoHandleReturn DEF Contract!Next
  <1>2. CASE ~Returned' /\ status' = status
    BY <1>0, <1>2 DEF Contract!vars, Returned
  <1>3. CASE ~Returned' /\ status' # status
    <2>1. Enter(t) \/ Panic(t) \/ Publish(t)
      BY <1>3 DEF Step, ProcessJob, OpenHandle, CheckCancel, Claim, DirJob, FileParent, FileCreate,
         WriteChunk, Flush, WriteFails, Tick
    <2>2. cur[t] \in JobId
      BY <2>1, HeldJob DEF Enter, Panic, Publish, Holding, Working
    <2>3. CASE Enter(t)
      <3>1. ~cancel /\ status[cur[t]] = "pending" /\ status' = [status EXCEPT ![cur[t]] = "running"]
        BY <1>3, <2>3 DEF Enter, Stopped, Claims
      <3>2. Contract!Begin(cur[t])
        BY <1>0, <1>3, <3>1 DEF Contract!Begin, Returned
      <3> QED BY <1>0, <2>2, <3>2 DEF Contract!Next, Contract!Jobs
    <2>4. CASE Panic(t) \/ Publish(t)
      <3>1. /\ status[cur[t]] = "running"
            /\ \E outcome \in {"copied", "failed", "lost"} : status' = [status EXCEPT ![cur[t]] = outcome]
        <4>1. CASE Panic(t)
          BY <4>1 DEF Panic, Claims, Working
        <4>2. CASE Publish(t)
          <5>1. status[cur[t]] # "pending"
            BY <1>0, <1>3, <2>2, <4>2 DEF Publish, TypeInv, TypeOK
          <5>2. status[cur[t]] = "running"
            BY <4>2, <5>1 DEF Publish, Claims
          <5> QED BY <4>2, <5>1, <5>2 DEF Publish
        <4> QED BY <2>4, <4>1, <4>2
      <3>2. Contract!End(cur[t])
        BY <1>0, <1>3, <3>1 DEF Contract!End, Returned
      <3> QED BY <1>0, <2>2, <3>2 DEF Contract!Next, Contract!Jobs
    <2> QED BY <2>1, <2>3, <2>4
  <1> QED BY <1>1, <1>2, <1>3

\* The end of the lone caller's loop, and of an empty list.
LEMMA LoneReturn ==
    ASSUME TypeInv, Claims, Ending, (Begin \/ SeqTurn), Returned'
    PROVE  Contract!Return
  <1>0. Main \in Thread /\ pc \in [Thread -> Label] /\ \A w \in Worker : pc[w] = "idle"
    BY DEF Begin, SeqTurn, TypeInv, TypeOK, Thread, Ending, Modes
  <1>1. ~Returned /\ UNCHANGED <<jobs, status, cancel, errors>>
    BY DEF Begin, SeqTurn, Returned, call, reports, outcomes
  <1>2. errors' = FailedJobs
    BY <1>1 DEF Begin, SeqTurn, Ending, Reports
  <1>3. \A t \in Thread : pc[t] \notin Holding
    BY <1>0 DEF Begin, SeqTurn, Thread, Holding, Working
  <1>4. cancel \/ next >= Len(jobs)
    <2>1. CASE Begin
      <3>1. jobs = <<>> /\ next = 0
        BY <1>0, <2>1 DEF Begin, Goto, Returned, Ending, Reasons
      <3> QED BY <3>1
    <2>2. CASE SeqTurn
      BY <1>0, <2>2 DEF SeqTurn, PastEnd, Goto, Returned
    <2> QED BY <2>1, <2>2
  <1>5. /\ \A i \in JobId : status[i] # "running"
        /\ cancel \/ \A i \in JobId : status[i] # "pending"
    BY <1>3, <1>4, NothingHeld
  <1> QED BY <1>1, <1>2, <1>5, ReturnStep

\* The end of the team: some worker came to its own end, or one died, or none
\* had a handle and no job was handed out.
LEMMA TeamReturn ==
    ASSUME TypeInv, Claims, Ending, JoinAndDrain
    PROVE  Contract!Return
  <1>0. /\ Main \in Thread /\ pc \in [Thread -> Label]
        /\ crew \subseteq Worker /\ next \in Nat /\ Len(jobs) \in Nat
    BY PlanFacts DEF TypeInv, TypeOK, Thread
  <1>1. ~Returned /\ Returned' /\ UNCHANGED <<jobs, status, cancel>> /\ errors' = errors \cup shared
    BY <1>0 DEF JoinAndDrain, Drained, Returned, Goto, call, outcomes
  <1>2. errors' = FailedJobs
    BY <1>1 DEF Ending, Reports
  <1>3. /\ \A w \in crew : pc[w] \in Gone
        /\ \A w \in Worker \ crew : pc[w] = "idle"
        /\ pc[Main] = "join"
    BY DEF JoinAndDrain, Ending, Modes
  <1>4. \A t \in Thread : pc[t] \notin Holding
    BY <1>3 DEF Thread, Gone, Holding, Working
  <1>5. \A i \in JobId : status[i] # "running"
    BY <1>4, NothingHeld
  <1>6. CASE \E w \in crew : pc[w] = "exit"
    <2>1. cancel \/ next >= Len(jobs)
      BY <1>0, <1>6 DEF Ending, Reasons
    <2>2. cancel \/ \A i \in JobId : status[i] # "pending"
      BY <1>4, <2>1, NothingHeld
    <2> QED BY <1>1, <1>2, <1>5, <2>2, ReturnStep
  <1>7. CASE \E w \in crew : pc[w] = "panicked"
    <2>1. \E i \in JobId : status[i] = "lost"
      BY <1>0, <1>7 DEF Ending, Reasons, Thread
    <2> QED BY <1>1, <1>2, <1>5, <2>1, ReturnStep
  <1>8. CASE \A w \in crew : pc[w] = "nohandle"
    <2>1. next = 0
      BY <1>0, <1>3, <1>8 DEF Ending, Reasons
    <2>2. \A i \in JobId : status[i] = "pending"
      BY <2>1, PlanFacts DEF TypeInv, Claims
    <2>3. errors' = {}
      BY <1>2, <2>2 DEF FailedJobs
    <2> QED BY <1>1, <1>5, <2>2, <2>3, ReturnStep
  <1> QED BY <1>3, <1>6, <1>7, <1>8 DEF Gone

\* Every step is one of the contract's or hidden from the caller.
LEMMA Simulates ==
    TypeInv /\ Claims /\ Ending /\ [Next]_vars => Contract!Next \/ UNCHANGED Contract!vars
  <1> SUFFICES ASSUME TypeInv, Claims, Ending, [Next]_vars
               PROVE  Contract!Next \/ UNCHANGED Contract!vars
    OBVIOUS
  <1>1. CASE Begin \/ SeqTurn
    <2>1. CASE Returned'
      BY <1>1, <2>1, LoneReturn DEF Contract!Next
    <2>2. CASE ~Returned'
      BY <1>1, <2>2 DEF Begin, SeqTurn, Returned, Contract!vars, call, outcomes
    <2> QED BY <2>1, <2>2
  <1>2. CASE JoinAndDrain
    BY <1>2, TeamReturn DEF Contract!Next
  <1>3. ASSUME NEW t \in Thread, Step(t) PROVE Contract!Next \/ UNCHANGED Contract!vars
    BY <1>3, StepContract
  <1>4. CASE PressCancel
    BY <1>4 DEF PressCancel, Contract!Next, Contract!Cancel, Returned, outcomes, reports
  <1>5. CASE UNCHANGED vars
    BY <1>5 DEF vars, Contract!vars, Returned, call, outcomes, reports
  <1> QED BY <1>1, <1>2, <1>3, <1>4, <1>5 DEF Next, MainStep, Over

\* For every team, list and disk the copy keeps the contract with its caller: jobs
\* begin and end once, nothing begins after a cancel, and the errors that come
\* back are exactly the jobs that failed.
THEOREM KeepsContract == Spec => ImplementsContract
  <1>1. Init => Contract!Init
    <2> SUFFICES ASSUME Init PROVE Contract!Init
      OBVIOUS
    <2>1. ~Returned
      BY DEF Init, Returned, Thread
    <2> QED BY <2>1 DEF Init, Contract!Init, Contract!Jobs
  <1>2. TypeInv /\ Claims /\ Ending /\ [Next]_vars => [Contract!Next]_Contract!vars
    BY Simulates
  <1> QED BY <1>1, <1>2, EndingInvariant, PTL DEF Spec, ImplementsContract, Contract!Spec

-----------------------------------------------------------------------------
(* How far the counter runs past the list.                                 *)

\* The workers that have read the counter past the end.
Leavers == {w \in crew : pc[w] = "exit"}
Overshoot == next <= Len(jobs) + Cardinality(Leavers)

\* They are finitely many, since the team is.
LEMMA LeaversFinite ==
    ASSUME TypeInv
    PROVE  /\ IsFiniteSet(crew) /\ IsFiniteSet(Leavers)
           /\ Cardinality(Leavers) \in Nat /\ Cardinality(crew) \in Nat
           /\ Cardinality(Leavers) <= Cardinality(crew)
  <1>1. crew \in SUBSET Worker /\ IsFiniteSet(Worker)
    BY PoolAssumption DEF TypeInv, TypeOK
  <1>2. IsFiniteSet(crew)
    BY <1>1, FS_Subset
  <1>3. Leavers \in SUBSET crew
    BY DEF Leavers
  <1>4. IsFiniteSet(Leavers) /\ Cardinality(Leavers) <= Cardinality(crew)
    BY <1>2, <1>3, FS_Subset
  <1> QED BY <1>2, <1>4, FS_CardinalityType

\* A claim past the end is the worker's last.
LEMMA NextOvershoot ==
    ASSUME TypeInv, Modes, Overshoot, [Next]_vars
    PROVE  Overshoot'
  <1> USE DEF call, claims, Goto
  <1>0. /\ Main \in Thread /\ Main \notin Worker /\ crew \subseteq Worker /\ Worker \subseteq Thread
        /\ pc \in [Thread -> Label] /\ next \in Nat /\ Len(jobs) \in Nat
        /\ Cardinality(Leavers) \in Nat
    BY PoolAssumption, PlanFacts, LeaversFinite DEF TypeInv, TypeOK, Thread
  <1>1. CASE Begin \/ SeqTurn
    <2>1. \A w \in crew : pc[w] # "exit" /\ pc'[w] # "exit"
      BY <1>0, <1>1 DEF Begin, SeqTurn, Modes
    <2>2. crew' = crew /\ jobs' = jobs
      BY <1>1 DEF Begin, SeqTurn
    <2>3. Leavers = {} /\ Leavers' = {}
      BY <2>1, <2>2 DEF Leavers
    <2>4. next' = next \/ (next' = next + 1 /\ next < Len(jobs))
      BY <1>0, <1>1 DEF Begin, SeqTurn, PastEnd
    <2>5. Cardinality(Leavers') = Cardinality(Leavers)
      BY <2>3
    <2>6. next' <= Len(jobs) + Cardinality(Leavers)
      BY <1>0, <2>4 DEF Overshoot
    <2> QED BY <2>2, <2>5, <2>6 DEF Overshoot
  <1>2. CASE JoinAndDrain \/ PressCancel \/ UNCHANGED vars
    <2>1. \A w \in crew : pc'[w] = pc[w]
      BY <1>0, <1>2 DEF JoinAndDrain, PressCancel, vars
    <2>2. crew' = crew /\ jobs' = jobs /\ next' = next
      BY <1>2 DEF JoinAndDrain, PressCancel, vars
    <2>3. Leavers' = Leavers
      BY <2>1, <2>2 DEF Leavers
    <2> QED BY <2>2, <2>3 DEF Overshoot
  <1>3. ASSUME NEW t \in Thread, Step(t) PROVE Overshoot'
    <2>1. /\ UNCHANGED <<jobs, crew>>
          /\ next' = next \/ (next' = next + 1 /\ pc[t] = "claim")
          /\ \A u \in Thread : u # t => pc'[u] = pc[u]
      BY <1>3, StepFrame
    <2>2. CASE pc[t] = "claim"
      <3>1. t \in crew /\ Claim(t)
        BY <1>3, <2>2, WhoSteps DEF Modes, Step, ProcessJob, OpenHandle, CheckCancel, Enter, DirJob, FileParent,
           FileCreate, WriteChunk, Flush, WriteFails, Panic, Tick, Publish
      <3>2. CASE PastEnd(next)
        <4>1. pc'[t] = "exit" /\ next' = next + 1
          BY <1>0, <3>1, <3>2 DEF Claim, LeaveLoop, FetchAdd
        <4>2. Leavers' = Leavers \cup {t} /\ t \notin Leavers
          BY <1>0, <2>1, <2>2, <3>1, <4>1 DEF Leavers
        <4>3. Cardinality(Leavers') = Cardinality(Leavers) + 1
          BY <4>2, LeaversFinite, FS_AddElement
        <4>4. next' <= Len(jobs) + Cardinality(Leavers')
          BY <1>0, <4>1, <4>3 DEF Overshoot
        <4> QED BY <2>1, <4>4 DEF Overshoot
      <3>3. CASE ~PastEnd(next)
        <4>1. pc'[t] # "exit" /\ next' = next + 1 /\ next < Len(jobs)
          BY <1>0, <3>1, <3>3 DEF Claim, PastEnd, FetchAdd
        <4>2. Leavers' = Leavers
          BY <1>0, <2>1, <2>2, <4>1 DEF Leavers
        <4>3. next' <= Len(jobs) + Cardinality(Leavers)
          BY <1>0, <4>1
        <4> QED BY <2>1, <4>2, <4>3 DEF Overshoot
      <3> QED BY <3>2, <3>3
    <2>3. CASE pc[t] # "claim"
      <3>1. pc[t] # "exit" /\ next' = next
        BY <1>3, <2>1, <2>3 DEF Step, ProcessJob, OpenHandle, CheckCancel, Claim, Enter, DirJob, FileParent,
           FileCreate, WriteChunk, Flush, WriteFails, Panic, Tick, Publish
      <3>2. CASE pc'[t] = "exit" /\ t \in crew
        <4>1. Leavers' = Leavers \cup {t} /\ t \notin Leavers
          BY <1>0, <2>1, <3>1, <3>2 DEF Leavers
        <4>2. Cardinality(Leavers') = Cardinality(Leavers) + 1
          BY <4>1, LeaversFinite, FS_AddElement
        <4>3. next <= Len(jobs) + Cardinality(Leavers')
          BY <1>0, <4>2 DEF Overshoot
        <4> QED BY <2>1, <3>1, <4>3 DEF Overshoot
      <3>3. CASE ~(pc'[t] = "exit" /\ t \in crew)
        <4>1. Leavers' = Leavers
          BY <1>0, <2>1, <3>1, <3>3 DEF Leavers
        <4> QED BY <2>1, <3>1, <4>1 DEF Overshoot
      <3> QED BY <3>2, <3>3
    <2> QED BY <2>2, <2>3
  <1> QED BY <1>1, <1>2, <1>3 DEF Next, MainStep, Over

\* next.fetch_add runs past the list by at most one for every worker, so that the
\* counter cannot wrap around, whatever the length of the list.
THEOREM CounterStays == Spec => []CounterBounded
  <1>1. Init => Overshoot
    <2> SUFFICES ASSUME Init PROVE Overshoot
      OBVIOUS
    <2>1. Cardinality(Leavers) \in Nat /\ Len(jobs) \in Nat /\ next = 0
      BY InitTypeInv, LeaversFinite, PlanFacts DEF Init, TypeInv
    <2> QED BY <2>1 DEF Overshoot
  <1>2. TypeInv /\ Modes /\ Overshoot /\ [Next]_vars => Overshoot'
    BY NextOvershoot
  <1>3. TypeInv /\ Overshoot => CounterBounded
    <2> SUFFICES ASSUME TypeInv, Overshoot PROVE CounterBounded
      OBVIOUS
    <2>1. next \in Nat /\ Len(jobs) \in Nat
      BY PlanFacts DEF TypeInv, TypeOK
    <2> QED BY <2>1, LeaversFinite DEF Overshoot, CounterBounded
  <1>4. Ending => Modes
    BY DEF Ending
  <1> QED BY <1>1, <1>2, <1>3, <1>4, EndingInvariant, PTL DEF Spec

-----------------------------------------------------------------------------
(* Sums over the list of jobs.                                             *)

\* Numbers by size.
Below == {pair \in Nat \X Nat : pair[1] < pair[2]}

\* A set of numbers has a least one.
LEMMA LeastOf ==
    ASSUME NEW S \in SUBSET Nat, S # {}
    PROVE  \E n \in S : \A m \in S : n <= m
  <1>1. IsWellFoundedOn(Below, Nat)
    BY NatLessThanWellFounded DEF OpToRel, Below
  <1>2. PICK n \in S : \A m \in S : ~(<<m, n>> \in Below)
    BY <1>1, WFMin
  <1>3. \A m \in S : ~(m < n)
    BY <1>2 DEF Below
  <1>4. \A m \in S : n <= m
    BY <1>3
  <1> QED BY <1>4

\* The sums of the first k shares, up to n.
SumsTo(g, share, n) ==
    /\ g \in [0 .. n -> Nat] /\ g[0] = 0
    /\ \A k \in 1 .. n : g[k] = g[k - 1] + share[k]

\* There are such sums, however many shares there are.
LEMMA SumsExist ==
    ASSUME NEW N \in Nat, NEW share \in [1 .. N -> Nat]
    PROVE  \E g : SumsTo(g, share, N)
  <1> DEFINE Bad == {n \in 0 .. N : ~\E g : SumsTo(g, share, n)}
  <1> SUFFICES ASSUME Bad # {} PROVE FALSE
    <2>1. N \in 0 .. N
      OBVIOUS
    <2> QED BY <2>1
  <1>1. Bad \in SUBSET Nat
    OBVIOUS
  <1> HIDE DEF Bad
  <1>2. PICK n \in Bad : \A m \in Bad : n <= m
    BY <1>1, LeastOf
  <1> USE DEF Bad
  <1>3. n # 0
    <2> SUFFICES ASSUME n = 0 PROVE FALSE
      OBVIOUS
    <2> DEFINE g0 == [k \in 0 .. 0 |-> 0]
    <2>1. SumsTo(g0, share, 0)
      BY DEF SumsTo
    <2> QED BY <1>2, <2>1
  <1>4. n - 1 \in 0 .. N /\ n \in 1 .. N /\ n - 1 \notin Bad
    BY <1>2, <1>3
  <1>5. PICK g : SumsTo(g, share, n - 1)
    BY <1>4
  <1> DEFINE h == [k \in 0 .. n |-> IF k = n THEN g[n - 1] + share[n] ELSE g[k]]
  <1>6. g \in [0 .. n - 1 -> Nat] /\ g[0] = 0 /\ \A k \in 1 .. n - 1 : g[k] = g[k - 1] + share[k]
    BY <1>5 DEF SumsTo
  <1>7. h \in [0 .. n -> Nat] /\ h[0] = 0
    BY <1>4, <1>6
  <1>8. ASSUME NEW k \in 1 .. n PROVE h[k] = h[k - 1] + share[k]
    <2>1. k - 1 \in 0 .. n /\ k - 1 # n
      BY <1>4
    <2>2. h[k - 1] = g[k - 1]
      BY <2>1
    <2>3. CASE k = n
      BY <2>2, <2>3
    <2>4. CASE k # n
      <3>1. k \in 1 .. n - 1
        BY <1>4, <2>4
      <3> QED BY <1>6, <2>2, <3>1
    <2> QED BY <2>3, <2>4
  <1>9. SumsTo(h, share, n)
    BY <1>7, <1>8 DEF SumsTo
  <1> QED BY <1>2, <1>9

\* So the total is the last of them.
LEMMA TotalSums ==
    ASSUME Len(jobs) \in Nat, NEW share \in [1 .. Len(jobs) -> Nat]
    PROVE  \E g : SumsTo(g, share, Len(jobs)) /\ Total(share) = g[Len(jobs)]
  <1> DEFINE Ups(g) == g = [k \in 0 .. Len(jobs) |-> IF k = 0 THEN 0 ELSE g[k - 1] + share[k]]
  <1>1. PICK g0 : SumsTo(g0, share, Len(jobs))
    BY SumsExist
  <1>2. g0 \in [0 .. Len(jobs) -> Nat]
    BY <1>1 DEF SumsTo
  <1>3. \A k \in 0 .. Len(jobs) : g0[k] = IF k = 0 THEN 0 ELSE g0[k - 1] + share[k]
    BY <1>1 DEF SumsTo
  <1>4. Ups(g0)
    BY <1>2, <1>3
  <1> DEFINE g == CHOOSE f : Ups(f)
  <1>5. Ups(g)
    BY <1>4
  <1>6. Total(share) = g[Len(jobs)]
    BY DEF Total
  <1> HIDE DEF g
  <1>7. /\ g[0] = 0
        /\ \A k \in 1 .. Len(jobs) : g[k] = g[k - 1] + share[k]
        /\ g = [k \in 0 .. Len(jobs) |-> g[k]]
    BY <1>5
  <1> DEFINE Off == {k \in 0 .. Len(jobs) : g[k] # g0[k]}
  <1>8. Off = {}
    <2> SUFFICES ASSUME Off # {} PROVE FALSE
      OBVIOUS
    <2>0. Off \in SUBSET Nat
      OBVIOUS
    <2> HIDE DEF Off
    <2>1. PICK n \in Off : \A m \in Off : n <= m
      BY <2>0, LeastOf
    <2> USE DEF Off
    <2>2. n # 0
      BY <1>1, <1>7, <2>1 DEF SumsTo
    <2>3. n \in 1 .. Len(jobs) /\ n - 1 \in 0 .. Len(jobs) /\ n - 1 \notin Off
      BY <2>1, <2>2
    <2>4. g[n - 1] = g0[n - 1]
      BY <2>3
    <2>5. g[n] = g0[n]
      BY <1>1, <1>7, <2>3, <2>4 DEF SumsTo
    <2> QED BY <2>1, <2>5
  <1>9. g[Len(jobs)] = g0[Len(jobs)]
    BY <1>8
  <1> QED BY <1>1, <1>6, <1>9

\* The shares differ by something extra, in one place.
Differ(N, i, extra, share, more, g, h) ==
    /\ N \in Nat /\ i \in 1 .. N /\ extra \in Nat
    /\ share \in [1 .. N -> Nat] /\ more \in [1 .. N -> Nat]
    /\ more[i] = share[i] + extra
    /\ \A k \in 1 .. N : k # i => more[k] = share[k]
    /\ SumsTo(g, share, N) /\ SumsTo(h, more, N)

\* Sums of shares that differ in one place only differ by that from there on.
LEMMA SumsDiffer ==
    ASSUME NEW N, NEW i, NEW extra, NEW share, NEW more, NEW g, NEW h,
           Differ(N, i, extra, share, more, g, h)
    PROVE  h[N] = g[N] + extra
  <1> DEFINE Right(k) == IF k < i THEN h[k] = g[k] ELSE h[k] = g[k] + extra
             Off == {k \in 0 .. N : ~Right(k)}
  <1> SUFFICES ASSUME Off # {} PROVE FALSE
    <2>1. N \in 0 .. N /\ ~(N < i)
      BY DEF Differ
    <2> QED BY <2>1
  <1> USE DEF Differ
  <1>1. Off \in SUBSET Nat
    OBVIOUS
  <1> HIDE DEF Off
  <1>2. PICK n \in Off : \A m \in Off : n <= m
    BY <1>1, LeastOf
  <1> USE DEF Off
  <1>3. g \in [0 .. N -> Nat] /\ h \in [0 .. N -> Nat] /\ g[0] = 0 /\ h[0] = 0
    BY DEF SumsTo
  <1>4. n # 0
    BY <1>2, <1>3
  <1>5. n \in 1 .. N /\ n - 1 \in 0 .. N /\ n - 1 \notin Off
    BY <1>2, <1>4
  <1>6. Right(n - 1)
    BY <1>5
  <1>7. g[n] = g[n - 1] + share[n] /\ h[n] = h[n - 1] + more[n]
    BY <1>5 DEF SumsTo
  <1>8. g[n - 1] \in Nat /\ h[n - 1] \in Nat /\ share[n] \in Nat /\ more[n] \in Nat
    BY <1>3, <1>5
  <1>9. Right(n)
    <2>1. CASE n < i
      <3>1. more[n] = share[n] /\ n - 1 < i
        BY <1>5, <2>1
      <3> QED BY <1>6, <1>7, <2>1, <3>1
    <2>2. CASE n = i
      <3>1. n - 1 < i
        BY <1>5, <2>2
      <3> QED BY <1>6, <1>7, <1>8, <2>2, <3>1
    <2>3. CASE n > i
      <3>1. more[n] = share[n] /\ ~(n - 1 < i) /\ ~(n < i)
        BY <1>5, <2>3
      <3> QED BY <1>6, <1>7, <1>8, <3>1
    <2> QED BY <1>5, <2>1, <2>2, <2>3
  <1> QED BY <1>2, <1>9

\* Counting one more file adds its size to the total.
LEMMA TotalGrows ==
    ASSUME TypeOK, NEW C \in SUBSET JobId, NEW i \in JobId, i \notin C, jobs[i].kind = "file"
    PROVE  Total(Share(C \cup {i})) = Total(Share(C)) + jobs[i].size
  <1> DEFINE N == Len(jobs)
             share == Share(C)
             more == Share(C \cup {i})
  <1>1. /\ N \in Nat /\ JobId = 1 .. N /\ MaxChunk \in Nat
        /\ \A k \in JobId : jobs[k].size \in 0 .. MaxChunk
    BY PlanFacts, PoolAssumption DEF Job
  <1>2. \A k \in JobId : jobs[k].size \in Nat
    BY <1>1
  <1>3. share \in [1 .. N -> Nat] /\ more \in [1 .. N -> Nat]
    BY <1>1, <1>2 DEF Share
  <1>4. more[i] = share[i] + jobs[i].size /\ \A k \in 1 .. N : k # i => more[k] = share[k]
    BY <1>1, <1>2 DEF Share
  <1> HIDE DEF share, more
  <1>5. PICK g : SumsTo(g, share, N) /\ Total(share) = g[N]
    BY <1>1, <1>3, TotalSums
  <1>6. PICK h : SumsTo(h, more, N) /\ Total(more) = h[N]
    BY <1>1, <1>3, TotalSums
  <1>7. Differ(N, i, jobs[i].size, share, more, g, h)
    BY <1>1, <1>2, <1>3, <1>4, <1>5, <1>6 DEF Differ
  <1>8. h[N] = g[N] + jobs[i].size
    BY <1>7, SumsDiffer
  <1> QED BY <1>5, <1>6, <1>8 DEF share, more

\* Nothing counted makes no bytes.
LEMMA TotalOfNone ==
    ASSUME TypeOK
    PROVE  Total(Share({})) = 0
  <1> DEFINE N == Len(jobs)
             share == Share({})
             zero == [k \in 0 .. N |-> 0]
  <1>1. N \in Nat /\ JobId = 1 .. N
    BY PlanFacts
  <1>2. share \in [1 .. N -> Nat] /\ \A k \in 1 .. N : share[k] = 0
    BY <1>1 DEF Share
  <1> HIDE DEF share
  <1>3. PICK g : SumsTo(g, share, N) /\ Total(share) = g[N]
    BY <1>1, <1>2, TotalSums
  <1> DEFINE Off == {k \in 0 .. N : g[k] # 0}
  <1>4. Off = {}
    <2> SUFFICES ASSUME Off # {} PROVE FALSE
      OBVIOUS
    <2>0. Off \in SUBSET Nat
      OBVIOUS
    <2> HIDE DEF Off
    <2>1. PICK n \in Off : \A m \in Off : n <= m
      BY <2>0, LeastOf
    <2> USE DEF Off
    <2>2. n # 0
      BY <1>3, <2>1 DEF SumsTo
    <2>3. n \in 1 .. N /\ n - 1 \in 0 .. N /\ n - 1 \notin Off
      BY <1>1, <2>1, <2>2
    <2>4. g[n] = g[n - 1] + share[n] /\ g[n - 1] = 0
      BY <1>3, <2>3 DEF SumsTo
    <2> QED BY <1>2, <2>1, <2>3, <2>4
  <1> QED BY <1>1, <1>3, <1>4 DEF share

-----------------------------------------------------------------------------
(* What the counters of the progress window stand for.                     *)

\* The jobs that have been ticked off: never one that was not begun, always one
\* that went well.
Ticked(T) ==
    /\ T \in SUBSET JobId /\ done = Cardinality(T)
    /\ \A i \in T : status[i] # "pending"
    /\ \A i \in JobId : status[i] = "copied" => i \in T
    /\ \A t \in Thread : pc[t] \in Holding /\ pc[t] # "publish" => cur[t] \notin T
    /\ \A t \in Thread : pc[t] = "publish" /\ status[cur[t]] = "running" /\ ~local[t] => cur[t] \in T

\* The files whose bytes have been counted: those that were created, and in the
\* end all that went well.
Before == {"enter", "parent", "create"}
After(t) ==
    \/ pc[t] \in {"write", "tick"}
    \/ pc[t] = "publish" /\ status[cur[t]] = "running" /\ ~local[t]
Counted(C) ==
    /\ C \in SUBSET JobId /\ bytes = Total(Share(C))
    /\ \A i \in C : jobs[i].kind = "file" /\ status[i] # "pending"
    /\ \A i \in JobId : status[i] = "copied" /\ jobs[i].kind = "file" => i \in C
    /\ \A t \in Thread : pc[t] \in Before => cur[t] \notin C
    /\ \A t \in Thread : After(t) /\ JobOf(t).kind = "file" => cur[t] \in C

Tallies == (\E T : Ticked(T)) /\ (\E C : Counted(C))

\* What happens to a job a thread holds, apart from being counted.
LEMMA TickedStays ==
    ASSUME TypeInv, Claims, NEW t \in Thread, Step(t), ~Tick(t), NEW T, Ticked(T)
    PROVE  Ticked(T)'
  <1> USE DEF Goto, call, claims, reports, progress, disk, outcomes
  <1>0. /\ JobId = 1 .. Len(jobs) /\ Len(jobs) \in Nat /\ next \in Nat
        /\ pc[t] \in Holding => cur[t] \in JobId /\ cur[t] # 0
        /\ pc \in [Thread -> Label] /\ status \in [JobId -> {"pending", "running", "copied", "failed", "lost"}]
        /\ cur \in [Thread -> 0 .. Len(jobs)] /\ local \in [Thread -> BOOLEAN]
    BY PlanFacts, HeldJob DEF TypeInv, TypeOK, HoldsInside
  <1>1. /\ jobs' = jobs
        /\ \A u \in Thread : u # t => pc'[u] = pc[u] /\ cur'[u] = cur[u] /\ local'[u] = local[u]
        /\ \A i \in JobId : i # cur[t] => status'[i] = status[i]
    BY StepLocal
  <1>2. done' = done
    BY DEF Step, ProcessJob, OpenHandle, CheckCancel, Claim, Enter, DirJob, FileParent, FileCreate,
           WriteChunk, Flush, WriteFails, Panic, Publish
  <1>3. \A u \in Thread : u # t /\ pc[u] \in Holding => cur[u] # cur[t] /\ cur[u] \in JobId
    BY HeldJob, <1>0 DEF Claims, TypeInv, HoldsInside
  <1>4. \A i \in T : status'[i] # "pending"
    <2>1. \A i \in JobId : status[i] # "pending" => status'[i] # "pending"
      BY <1>0 DEF Step, ProcessJob, OpenHandle, CheckCancel, Claim, Enter, DirJob, FileParent, FileCreate,
           WriteChunk, Flush, WriteFails, Panic, Publish
    <2> QED BY <2>1 DEF Ticked
  <1>5. \A i \in JobId : status'[i] = "copied" => i \in T
    <2>1. \A i \in JobId : status'[i] = "copied" /\ status[i] # "copied" =>
             i = cur[t] /\ pc[t] = "publish" /\ ~local[t] /\ status[i] = "running"
      <3>1. ~Publish(t) => \A i \in JobId : status'[i] = "copied" => status[i] = "copied"
        BY <1>0 DEF Step, ProcessJob, OpenHandle, CheckCancel, Claim, Enter, DirJob, FileParent, FileCreate,
           WriteChunk, Flush, WriteFails, Panic
      <3>2. Publish(t) => status[cur[t]] \in {"pending", "running"}
        BY DEF Publish, Claims
      <3>3. CASE Publish(t)
        BY <1>0, <1>1, <3>2, <3>3 DEF Publish, Holding
      <3> QED BY <3>1, <3>3
    <2> QED BY <2>1 DEF Ticked
  <1>6. pc'[t] \in Holding /\ pc'[t] # "publish" => cur'[t] \notin T
    <2>1. CASE Claim(t)
      <3>1. pc'[t] \in Holding => cur'[t] = next + 1 /\ next + 1 \in JobId
        BY <1>0, <2>1 DEF Claim, LeaveLoop, PastEnd, Holding, Working
      <3>2. next + 1 \in JobId => status[next + 1] = "pending"
        BY <1>0 DEF Claims
      <3> QED BY <3>1, <3>2 DEF Ticked
    <2>2. CASE ~Claim(t)
      <3>1. pc'[t] \in Holding => cur'[t] = cur[t] /\ pc[t] \in Holding /\ (pc[t] = "publish" => pc'[t] = "publish")
        BY <1>0, <2>2 DEF Step, ProcessJob, OpenHandle, CheckCancel, AfterLook, Enter, DirJob, FileParent, FileCreate,
           WriteChunk, Flush, WriteFails, Panic, Publish, MakeDirs, Fail, Holding, Working
      <3> QED BY <3>1 DEF Ticked
    <2> QED BY <2>1, <2>2
  <1>7. pc'[t] = "publish" /\ status'[cur'[t]] = "running" /\ ~local'[t] => cur'[t] \in T
    <2>1. pc'[t] = "publish" => Enter(t) \/ FileParent(t) \/ FileCreate(t)
      BY <1>0 DEF Step, ProcessJob, OpenHandle, CheckCancel, AfterLook, Claim, LeaveLoop, DirJob,
           WriteChunk, Flush, WriteFails, Panic, Publish, MakeDirs, Fail
    <2>2. pc'[t] = "publish" /\ Enter(t) => status'[cur'[t]] = "pending"
      BY <1>0 DEF Enter, Claims
    <2>3. pc'[t] = "publish" /\ (FileParent(t) \/ FileCreate(t)) => local'[t]
      BY <1>0 DEF FileParent, FileCreate, MakeDirs, Fail
    <2> QED BY <2>1, <2>2, <2>3
  <1>8. \A u \in Thread : pc'[u] \in Holding /\ pc'[u] # "publish" => cur'[u] \notin T
    BY <1>1, <1>6 DEF Ticked
  <1>9. \A u \in Thread : pc'[u] = "publish" /\ status'[cur'[u]] = "running" /\ ~local'[u] => cur'[u] \in T
    BY <1>1, <1>3, <1>7 DEF Ticked, Holding
  <1>10. T \in SUBSET JobId' /\ done' = Cardinality(T)
    BY <1>1, <1>2 DEF Ticked, JobId
  <1> QED BY <1>1, <1>4, <1>5, <1>8, <1>9, <1>10 DEF Ticked, JobId

\* A tick is the job's first.
LEMMA TickAdds ==
    ASSUME TypeInv, Claims, NEW t \in Thread, Tick(t), NEW T, Ticked(T)
    PROVE  Ticked(T \cup {cur[t]})'
  <1> USE DEF Goto, call, claims, reports, progress, disk, outcomes
  <1>0. /\ JobId = 1 .. Len(jobs) /\ Len(jobs) \in Nat
        /\ cur[t] \in JobId /\ pc[t] = "tick"
        /\ pc \in [Thread -> Label]
    BY PlanFacts, HeldJob DEF TypeInv, TypeOK, Tick, Holding, Working
  <1>1. /\ UNCHANGED <<jobs, cur, local, status>>
        /\ pc' = [pc EXCEPT ![t] = "publish"] /\ done' = done + 1
    BY DEF Tick, Count
  <1>2. cur[t] \notin T /\ status[cur[t]] = "running"
    BY <1>0 DEF Ticked, Claims, Holding, Working
  <1>3. \A u \in Thread : u # t /\ pc[u] \in Holding => cur[u] # cur[t]
    BY <1>0, HeldJob DEF Claims, TypeInv, HoldsInside
  <1>4. IsFiniteSet(T) /\ Cardinality(T \cup {cur[t]}) = Cardinality(T) + 1
    <2>1. IsFiniteSet(JobId)
      BY <1>0, FS_Interval
    <2>2. IsFiniteSet(T)
      BY <2>1, FS_Subset DEF Ticked
    <2> QED BY <1>2, <2>2, FS_AddElement
  <1>5. /\ T \cup {cur[t]} \in SUBSET JobId' /\ done' = Cardinality(T \cup {cur[t]})
        /\ \A i \in T \cup {cur[t]} : status'[i] # "pending"
        /\ \A i \in JobId' : status'[i] = "copied" => i \in T \cup {cur[t]}
    BY <1>0, <1>1, <1>2, <1>4 DEF Ticked, JobId
  <1>6. \A u \in Thread : pc'[u] \in Holding /\ pc'[u] # "publish" => cur'[u] \notin T \cup {cur[t]}
    BY <1>0, <1>1, <1>3 DEF Ticked
  <1>7. \A u \in Thread : pc'[u] = "publish" /\ status'[cur'[u]] = "running" /\ ~local'[u]
            => cur'[u] \in T \cup {cur[t]}
    BY <1>0, <1>1 DEF Ticked
  <1>8. cur'[t] = cur[t]
    BY <1>1
  <1> QED BY <1>1, <1>5, <1>6, <1>7, <1>8 DEF Ticked

\* A step that adds no bytes.
LEMMA CountedStays ==
    ASSUME TypeInv, Claims, Own, NEW t \in Thread, Step(t),
           FileCreate(t) => pc'[t] = "publish", NEW C, Counted(C)
    PROVE  Counted(C)'
  <1> USE DEF Goto, call, claims, reports, progress, disk, outcomes
  <1>0. /\ JobId = 1 .. Len(jobs) /\ Len(jobs) \in Nat /\ next \in Nat
        /\ pc[t] \in Holding => cur[t] \in JobId /\ cur[t] # 0 /\ JobOf(t).size \in Nat
        /\ pc \in [Thread -> Label] /\ status \in [JobId -> {"pending", "running", "copied", "failed", "lost"}]
        /\ cur \in [Thread -> 0 .. Len(jobs)] /\ local \in [Thread -> BOOLEAN]
    BY PlanFacts, HeldJob DEF TypeInv, TypeOK, HoldsInside
  <1>1. /\ jobs' = jobs
        /\ \A u \in Thread : u # t => pc'[u] = pc[u] /\ cur'[u] = cur[u] /\ local'[u] = local[u]
        /\ \A i \in JobId : i # cur[t] => status'[i] = status[i]
    BY StepLocal
  <1>2. \A u \in Thread : u # t /\ pc[u] \in Holding => cur[u] # cur[t] /\ cur[u] \in JobId
    BY HeldJob, <1>0 DEF Claims, TypeInv, HoldsInside
  <1>3. \A i \in C : jobs[i].kind = "file" /\ status'[i] # "pending"
    <2>1. \A i \in JobId : status[i] # "pending" => status'[i] # "pending"
      BY <1>0 DEF Step, ProcessJob, OpenHandle, CheckCancel, Claim, Enter, DirJob, FileParent, FileCreate,
           WriteChunk, Flush, WriteFails, Panic, Tick, Publish
    <2> QED BY <2>1 DEF Counted
  <1>4. \A i \in JobId : status'[i] = "copied" /\ jobs[i].kind = "file" => i \in C
    <2>1. ~Publish(t) => \A i \in JobId : status'[i] = "copied" => status[i] = "copied"
      BY <1>0 DEF Step, ProcessJob, OpenHandle, CheckCancel, Claim, Enter, DirJob, FileParent, FileCreate,
         WriteChunk, Flush, WriteFails, Panic, Tick
    <2>2. Publish(t) => status[cur[t]] \in {"pending", "running"}
      BY DEF Publish, Claims
    <2>3. \A i \in JobId : status'[i] = "copied" /\ status[i] # "copied" =>
             i = cur[t] /\ pc[t] = "publish" /\ ~local[t] /\ status[i] = "running"
      <3>1. CASE Publish(t)
        BY <1>0, <1>1, <2>2, <3>1 DEF Publish, Holding
      <3> QED BY <2>1, <3>1
    <2>4. \A i \in JobId : status'[i] = "copied" /\ status[i] # "copied" => After(t) /\ i = cur[t]
      BY <2>3 DEF After
    <2> QED BY <2>4 DEF Counted, JobOf
  <1>5. pc'[t] \in Before => cur'[t] \notin C
    <2>1. CASE Claim(t)
      <3>1. pc'[t] \in Before => cur'[t] = next + 1 /\ next + 1 \in JobId
        BY <1>0, <2>1 DEF Claim, LeaveLoop, PastEnd, Before
      <3>2. next + 1 \in JobId => status[next + 1] = "pending"
        BY <1>0 DEF Claims
      <3> QED BY <3>1, <3>2 DEF Counted
    <2>2. CASE Enter(t)
      BY <1>0, <2>2 DEF Enter, Before, Counted
    <2>3. CASE FileParent(t)
      BY <1>0, <2>3 DEF FileParent, MakeDirs, Fail, Before, Counted
    <2>4. CASE ~Claim(t) /\ ~Enter(t) /\ ~FileParent(t)
      <3>1. pc'[t] \notin Before
        BY <1>0, <2>4 DEF Step, ProcessJob, OpenHandle, CheckCancel, AfterLook, DirJob, FileCreate,
           WriteChunk, Flush, WriteFails, Panic, Tick, Publish, MakeDirs, Fail, Before
      <3> QED BY <3>1
    <2> QED BY <2>1, <2>2, <2>3, <2>4
  <1>6. After(t)' /\ JobOf(t)'.kind = "file" => cur'[t] \in C
    <2>1. CASE OpenHandle(t) \/ CheckCancel(t) \/ Claim(t) \/ Panic(t) \/ Publish(t)
      BY <1>0, <2>1 DEF After, OpenHandle, CheckCancel, AfterLook, Claim, LeaveLoop, Panic, Publish
    <2>2. CASE Enter(t)
      BY <1>0, <2>2 DEF After, Enter, Claims
    <2>3. CASE DirJob(t)
      <3>1. JobOf(t).kind = "dir" /\ JobOf(t)' = JobOf(t)
        BY <1>1, <2>3 DEF DirJob, Own, JobOf
      <3> QED BY <3>1
    <2>4. CASE FileParent(t)
      BY <1>0, <2>4 DEF After, FileParent, MakeDirs, Fail
    <2>5. CASE FileCreate(t)
      <3>1. local'[t] /\ pc'[t] = "publish"
        BY <1>0, <2>5 DEF FileCreate, Fail
      <3> QED BY <3>1 DEF After
    <2>6. CASE WriteChunk(t) \/ Flush(t) \/ WriteFails(t) \/ Tick(t)
      <3>1. After(t)' => After(t) /\ UNCHANGED <<jobs, cur>>
        BY <1>0, <1>1, <2>6 DEF After, WriteChunk, Flush, WriteFails, Fail, Tick
      <3> QED BY <3>1 DEF Counted, JobOf
    <2> QED BY <2>1, <2>2, <2>3, <2>4, <2>5, <2>6 DEF Step, ProcessJob
  <1>7. bytes' = bytes /\ Share(C)' = Share(C) /\ Total(Share(C))' = Total(Share(C))
    <2>1. bytes' = bytes
      <3>1. CASE FileCreate(t)
        BY <1>0, <3>1 DEF FileCreate, Fail
      <3>2. CASE ~FileCreate(t)
        BY <3>2 DEF Step, ProcessJob, OpenHandle, CheckCancel, Claim, Enter, DirJob, FileParent,
           WriteChunk, Flush, WriteFails, Panic, Tick, Publish
      <3> QED BY <3>1, <3>2
    <2> QED BY <1>1, <2>1 DEF Share, Total, JobId
  <1>8. \A u \in Thread : pc'[u] \in Before => cur'[u] \notin C
    BY <1>1, <1>5 DEF Counted
  <1>9. ASSUME NEW u \in Thread, After(u)', JobOf(u)'.kind = "file" PROVE cur'[u] \in C
    <2>1. CASE u = t
      BY <1>6, <1>9, <2>1
    <2>2. CASE u # t
      <3>1. After(u) /\ JobOf(u)' = JobOf(u)
        BY <1>1, <1>2, <1>9, <2>2 DEF After, JobOf, Holding, Working
      <3> QED BY <1>1, <1>9, <2>2, <3>1 DEF Counted
    <2> QED BY <2>1, <2>2
  <1>10. C \in SUBSET JobId' /\ bytes' = Total(Share(C))'
    BY <1>1, <1>7 DEF Counted, JobId
  <1> QED BY <1>1, <1>3, <1>4, <1>8, <1>9, <1>10 DEF Counted, JobId

\* Creating a file counts its bytes, for the first time.
LEMMA CreateAdds ==
    ASSUME TypeInv, Claims, Causes, NEW t \in Thread, FileCreate(t), pc'[t] # "publish", NEW C, Counted(C)
    PROVE  Counted(C \cup {cur[t]})'
  <1> USE DEF Goto, call, claims, reports, progress, disk, outcomes
  <1>0. /\ cur[t] \in JobId /\ pc[t] = "create" /\ JobOf(t).kind = "file"
        /\ pc \in [Thread -> Label]
    BY HeldJob DEF TypeInv, TypeOK, FileCreate, Holding, Working, Causes
  <1>1. /\ UNCHANGED <<jobs, cur, local, status>>
        /\ pc' = [pc EXCEPT ![t] = "write"] /\ bytes' = bytes + JobOf(t).size
    BY <1>0 DEF FileCreate, Fail
  <1>2. cur[t] \notin C /\ status[cur[t]] = "running"
    BY <1>0 DEF Counted, Claims, Before, Working
  <1>3. \A u \in Thread : u # t /\ pc[u] \in Holding => cur[u] # cur[t]
    BY <1>0, HeldJob DEF Claims, TypeInv, HoldsInside
  <1>4. PICK D : D = C \cup {cur[t]}
    OBVIOUS
  <1>5. Total(Share(D)) = Total(Share(C)) + JobOf(t).size
    <2>1. C \in SUBSET JobId /\ jobs[cur[t]].kind = "file" /\ TypeOK
      BY <1>0 DEF Counted, JobOf, TypeInv
    <2> QED BY <1>0, <1>2, <1>4, <2>1, TotalGrows DEF JobOf
  <1>6. Total(Share(D))' = Total(Share(D))
    BY <1>1 DEF Share, Total, JobId
  <1>7. D \in SUBSET JobId' /\ bytes' = Total(Share(D))'
    BY <1>0, <1>1, <1>5, <1>6, <1>4 DEF Counted, JobId
  <1>8. \A i \in D : jobs'[i].kind = "file" /\ status'[i] # "pending"
    BY <1>0, <1>1, <1>2, <1>4 DEF Counted, JobOf
  <1>9. \A i \in JobId' : status'[i] = "copied" /\ jobs'[i].kind = "file" => i \in D
    BY <1>1, <1>4 DEF Counted, JobId
  <1>10. \A u \in Thread : pc'[u] \in Before => cur'[u] \notin D
    BY <1>0, <1>1, <1>3, <1>4 DEF Counted, Before, Holding, Working
  <1>11. ASSUME NEW u \in Thread, After(u)', JobOf(u)'.kind = "file" PROVE cur'[u] \in D
    <2>1. CASE u = t
      BY <1>1, <1>4, <2>1
    <2>2. CASE u # t
      <3>1. After(u) /\ JobOf(u)' = JobOf(u) /\ cur'[u] = cur[u]
        BY <1>0, <1>1, <1>11, <2>2 DEF After, JobOf
      <3> QED BY <1>11, <1>4, <3>1 DEF Counted
    <2> QED BY <2>1, <2>2
  <1>12. Counted(D)'
    BY <1>7, <1>8, <1>9, <1>10, <1>11 DEF Counted
  <1> QED BY <1>1, <1>12, <1>4

\* Nothing is ticked off or counted at first.
LEMMA InitTallies == Init => Tallies
  <1> SUFFICES ASSUME Init PROVE Tallies
    OBVIOUS
  <1>1. TypeInv
    BY InitTypeInv
  <1>2. \A t \in Thread : pc[t] \notin Holding
    BY DEF Init, Holding, Working
  <1>3. Ticked({})
    BY <1>2, FS_EmptySet DEF Init, Ticked, Holding, Working
  <1>4. Counted({})
    BY <1>1, <1>2, TotalOfNone DEF Init, Counted, Before, After, Holding, Working, TypeInv
  <1> QED BY <1>3, <1>4 DEF Tallies

\* What leaves jobs, threads and counters alone leaves the tallies alone.
LEMMA TalliesStay ==
    ASSUME TypeInv, Claims, UNCHANGED <<jobs, status, local, done, bytes>>, Tallies,
           \A u \in Thread :
              \/ pc'[u] = pc[u] /\ cur'[u] = cur[u]
              \/ pc'[u] \notin Holding
              \/ pc'[u] = "enter" /\ cur'[u] = next + 1 /\ next + 1 \in JobId
    PROVE  Tallies'
  <1>1. PICK T : Ticked(T)
    BY DEF Tallies
  <1>2. PICK C : Counted(C)
    BY DEF Tallies
  <1>3. next \in Nat /\ (next + 1 \in JobId => status[next + 1] = "pending")
    BY DEF TypeInv, TypeOK, Claims
  <1>4. Ticked(T)'
    BY <1>1, <1>3 DEF Ticked, JobId, Holding, Working
  <1>5. Total(Share(C))' = Total(Share(C))
    BY DEF Total, Share, JobId
  <1>6. \A u \in Thread : pc'[u] \in Before => cur'[u] \notin C
    BY <1>2, <1>3 DEF Counted, Before, Holding, Working
  <1>7. ASSUME NEW u \in Thread, After(u)', JobOf(u)'.kind = "file" PROVE cur'[u] \in C
    <2>1. pc'[u] = pc[u] /\ cur'[u] = cur[u]
      BY <1>7 DEF After, Holding, Working
    <2> QED BY <1>2, <1>7, <2>1 DEF After, Counted, JobOf
  <1>8. Counted(C)'
    BY <1>2, <1>5, <1>6, <1>7 DEF Counted, JobId
  <1> QED BY <1>4, <1>8 DEF Tallies

\* Every step keeps the tallies.
LEMMA NextTallies ==
    ASSUME TypeInv, Claims, Own, Causes, Tallies, [Next]_vars
    PROVE  Tallies'
  <1> USE DEF Goto, call, claims, reports, progress, disk, outcomes
  <1>1. CASE MainStep
    <2>1. \A u \in Thread :
              \/ pc'[u] = pc[u] /\ cur'[u] = cur[u]
              \/ pc'[u] \notin Holding
              \/ pc'[u] = "enter" /\ cur'[u] = next + 1 /\ next + 1 \in JobId
      <3>1. /\ pc \in [Thread -> Label] /\ cur \in [Thread -> 0 .. Len(jobs)]
            /\ next \in Nat /\ JobId = 1 .. Len(jobs) /\ Len(jobs) \in Nat
        BY PlanFacts DEF TypeInv, TypeOK
      <3>2. CASE Begin
        BY <3>1, <3>2 DEF Begin, Holding, Working
      <3>3. CASE SeqTurn
        BY <3>1, <3>3 DEF SeqTurn, PastEnd, Holding, Working
      <3>4. CASE JoinAndDrain
        BY <3>1, <3>4 DEF JoinAndDrain, Holding, Working
      <3> QED BY <1>1, <3>2, <3>3, <3>4 DEF MainStep
    <2>2. UNCHANGED <<jobs, status, local, done, bytes>>
      BY <1>1 DEF MainStep, Begin, SeqTurn, JoinAndDrain
    <2> QED BY <2>1, <2>2, TalliesStay
  <1>2. CASE PressCancel \/ UNCHANGED vars
    <2>1. UNCHANGED <<jobs, status, local, done, bytes, pc, cur>>
      BY <1>2 DEF PressCancel, vars
    <2> QED BY <2>1, TalliesStay
  <1>3. ASSUME NEW t \in Thread, Step(t) PROVE Tallies'
    <2>1. PICK T : Ticked(T)
      BY DEF Tallies
    <2>2. PICK C : Counted(C)
      BY DEF Tallies
    <2>3. \E S : Ticked(S)'
      BY <1>3, <2>1, TickedStays, TickAdds
    <2>4. \E S : Counted(S)'
      BY <1>3, <2>2, CountedStays, CreateAdds
    <2> QED BY <2>3, <2>4 DEF Tallies
  <1> QED BY <1>1, <1>2, <1>3 DEF Next, Over

\* done and bytes count every job at most once, and in the end all that went well.
THEOREM CountersAreHonest == Spec => []ProgressHonest
  <1>1. Init => TypeInv /\ Claims /\ Own /\ Causes /\ Tallies
    BY InitTypeInv, InitClaims, InitOwn, InitCauses, InitTallies
  <1>2. TypeInv /\ Claims /\ Own /\ Causes /\ Tallies /\ [Next]_vars
            => (TypeInv /\ Claims /\ Own /\ Causes /\ Tallies)'
    BY NextTypeInv, NextClaims, NextOwn, NextCauses, NextTallies
  <1>3. TypeInv /\ Tallies => ProgressHonest
    <2> SUFFICES ASSUME TypeInv, Tallies PROVE ProgressHonest
      OBVIOUS
    <2>1. PICK T : Ticked(T)
      BY DEF Tallies
    <2>2. PICK C : Counted(C)
      BY DEF Tallies
    <2>3. JobId = 1 .. Len(jobs) /\ Len(jobs) \in Nat
      BY PlanFacts DEF TypeInv
    <2>4. IsFiniteSet(JobId) /\ Cardinality(JobId) = Len(jobs)
      <3>1. PICK n : n = Len(jobs)
        OBVIOUS
      <3>2. n \in Nat /\ JobId = 1 .. n
        BY <2>3, <3>1
      <3>3. IsFiniteSet(1 .. n) /\ Cardinality(1 .. n) = n
        BY <3>2, FS_Interval
      <3> QED BY <3>1, <3>2, <3>3
    <2>5. done <= Len(jobs)
      BY <2>1, <2>4, FS_Subset DEF Ticked
    <2>6. ASSUME \A i \in JobId : status[i] = "copied"
          PROVE  done = Len(jobs) /\ bytes = Total(Share(JobId))
      <3>1. T = JobId
        BY <2>1, <2>6 DEF Ticked
      <3>2. Share(C) = Share(JobId)
        BY <2>2, <2>6 DEF Counted, Share
      <3> QED BY <2>1, <2>2, <2>4, <3>1, <3>2 DEF Ticked, Counted
    <2> QED BY <2>5, <2>6 DEF ProgressHonest
  <1> QED BY <1>1, <1>2, <1>3, PTL DEF Spec

=============================================================================
