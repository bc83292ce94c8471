----------------------------- MODULE CopyPoolMC -----------------------------
(***************************************************************************)
(* Small instances of CopyPool for TLC: a directory "d" with two files in  *)
(* it, lists of one to three jobs, and SeqBelow scaled from 8 to 3, so     *)
(* that both the team and the lone caller are met.                         *)
(***************************************************************************)
EXTENDS CopyPool

CONSTANTS w1, w2

MCPath == {"d", "d/a", "d/b"}
MCAbove == [p \in MCPath |-> IF p = "d" THEN {} ELSE {"d"}]

DirOf(p) == [kind |-> "dir", dest |-> p, size |-> 0, bad |-> FALSE]
FileAt(p, n) == [kind |-> "file", dest |-> p, size |-> n, bad |-> FALSE]
BadAt(p, n) == [kind |-> "file", dest |-> p, size |-> n, bad |-> TRUE]

TreePlan == <<DirOf("d"), FileAt("d/a", 2), FileAt("d/b", 1)>>
BadPlan == <<FileAt("d/a", 1), BadAt("d/b", 1), DirOf("d")>>
\* Two sources that sanitize_name sent to one destination.
ClashPlan == <<FileAt("d/a", 2), FileAt("d/a", 1), FileAt("d/b", 1)>>
ShortPlan == <<BadAt("d/a", 2), FileAt("d/b", 1)>>

AllPlans == {TreePlan, BadPlan, ClashPlan, ShortPlan, <<>>}
\* Lists in which no inode is bad enough to panic on.
CleanPlans == {TreePlan, ClashPlan}

EmptyDisk == [p \in MCPath |-> "none"]
OldCopy == [EmptyDisk EXCEPT !["d"] = "dir", !["d/a"] = "file"]
FileInTheWay == [EmptyDisk EXCEPT !["d"] = "file"]
DirInTheWay == [EmptyDisk EXCEPT !["d"] = "dir", !["d/b"] = "dir"]

AllDisks == {EmptyDisk, OldCopy, FileInTheWay, DirInTheWay}

=============================================================================
