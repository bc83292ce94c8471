---------------------------- MODULE CopyContract ----------------------------
(***************************************************************************)
(* What a caller of copy_plan (src/ext4/copy.rs) is promised, without      *)
(* threads, counters or files: each job begins and ends at most once,      *)
(* nothing begins after a cancel, and the call returns when no job is      *)
(* under way, with a report that names exactly the jobs that failed.       *)
(***************************************************************************)
EXTENDS Integers

VARIABLES
    state,      \* the jobs: pending, running, copied, failed or lost
    cancelled,  \* has the caller asked to stop?
    returned,   \* is the call over?
    report      \* the jobs the returned errors name; 0 is "no source handle"

vars == <<state, cancelled, returned, report>>

Jobs == DOMAIN state
Failed == {i \in Jobs : state[i] = "failed"}
Idle == \A i \in Jobs : state[i] # "running"

Init ==
    /\ state = [i \in Jobs |-> "pending"]
    /\ cancelled = FALSE
    /\ returned = FALSE
    /\ report = {}

Begin(i) ==
    /\ ~cancelled /\ ~returned
    /\ state[i] = "pending"
    /\ state' = [state EXCEPT ![i] = "running"]
    /\ UNCHANGED <<cancelled, returned, report>>

\* "lost": the thread that ran the job panicked.
End(i) ==
    /\ ~returned
    /\ state[i] = "running"
    /\ \E outcome \in {"copied", "failed", "lost"} : state' = [state EXCEPT ![i] = outcome]
    /\ UNCHANGED <<cancelled, returned, report>>

Cancel ==
    /\ ~cancelled
    /\ cancelled' = TRUE
    /\ UNCHANGED <<state, returned, report>>

\* Jobs may be left over only after a cancel or when threads were lost; when
\* none began, no thread may have had a source handle, and the report may say so.
Return ==
    /\ ~returned
    /\ Idle
    /\ \/ /\ \/ cancelled
             \/ \E i \in Jobs : state[i] = "lost"
             \/ \A i \in Jobs : state[i] # "pending"
          /\ report' = Failed
       \/ /\ \A i \in Jobs : state[i] = "pending"
          /\ report' \in {{}, {0}}
    /\ returned' = TRUE
    /\ UNCHANGED <<state, cancelled>>

Next == (\E i \in Jobs : Begin(i) \/ End(i)) \/ Cancel \/ Return

Spec == Init /\ [][Next]_vars

=============================================================================
