---------------------------- MODULE PathResolve -----------------------------
(***************************************************************************)
(* Ext4::resolve and resolve_inner of src/ext4/mod.rs: an absolute path is *)
(* walked from the root, and a symbolic link is followed by splicing its   *)
(* target in front of what is left of the path.  A path is the sequence of *)
(* its components, "" and "." already filtered out.                        *)
(***************************************************************************)
EXTENDS Integers, Sequences, DirListing

CONSTANTS
    Ino,        \* inode numbers
    Root,       \* EXT4_ROOT_INO
    Tree,       \* the file systems to look at
    Names,      \* the components there are
    Path,       \* the paths asked for
    MaxLevel,   \* absolute links followed before giving up (40 in the code)
    Faulty,     \* may a read of the image fail?
    Depths      \* bound: how deep the reference answer is looked for

\* A file system: the kind of each inode, each directory as DirListing has it,
\* and the target of each link.
ASSUME ResolveAssumption ==
    /\ Root \in Ino
    /\ MaxLevel \in Nat
    /\ Faulty \in BOOLEAN
    /\ Depths \subseteq Nat
    /\ Path \subseteq Seq(Names)
    /\ \A f \in Tree :
          /\ f.kind \in [Ino -> {"dir", "file", "link"}]
          /\ f.kind[Root] = "dir"
          /\ \A x \in Ino : f.kind[x] = "link" =>
                f.target[x].absolute \in BOOLEAN /\ f.target[x].comps \in Seq(Names)
          /\ \A d \in Ino : f.kind[d] = "dir" =>
                /\ f.dir[d] \in DOMAIN Directory
                /\ DOMAIN Listing[f.dir[d]].list \subseteq Nat
                /\ \A e \in ToSet(Listing[f.dir[d]].list) :
                      e.ino \in Ino /\ (e.name = ".." => f.kind[e.ino] = "dir")

VARIABLES
    fs,         \* the file system
    path,       \* the argument of resolve
    comps,      \* the components of the current call
    i,          \* index of the next one
    cur,        \* the directory the walk is in
    depth,      \* the argument "depth"
    result      \* <<>> while it runs, <<"ok", ino>>, or the error

where == <<comps, i, cur, depth>>
vars == <<fs, path, where, result>>

Init ==
    /\ fs \in Tree
    /\ path \in Path
    /\ comps = path
    /\ i = 1
    /\ cur = Root
    /\ depth = 0
    /\ result = <<>>

Walking == result = <<>> /\ i <= Len(comps)
Name == comps[i]
Rest == SubSeq(comps, i + 1, Len(comps))
Here == fs.dir[cur]
Found == Lookup(Here, Name)
Return(r) == result' = r /\ UNCHANGED <<fs, path, where>>

\* ".." is looked up like a name, in the directory the walk is in.
Up ==
    /\ Walking
    /\ Name = ".." /\ ~IsCorrupt(Here)
    /\ IF Has(Here, "..")
         THEN /\ cur' = Found
              /\ i' = i + 1
              /\ UNCHANGED <<fs, path, comps, depth, result>>
         ELSE Return(<<"missing">>)

Missing ==
    /\ Walking
    /\ Name # ".." /\ ~IsCorrupt(Here) /\ ~Has(Here, Name)
    /\ Return(<<"missing">>)

\* lookup_dir lists the whole directory, and hands on the error that ends it.
Unlisted ==
    /\ Walking
    /\ IsCorrupt(Here)
    /\ Return(<<"corrupt">>)

Looking == Walking /\ Name # ".." /\ ~IsCorrupt(Here) /\ Has(Here, Name)

\* Every link is followed, the last component too; the slip leaves that one.
IsLinkMidway(x) == fs.kind[x] = "link" /\ i < Len(comps)
IsLink(x) == fs.kind[x] = "link"

\* The check at the head of resolve_inner counts calls; the slip passes
\* the first depth on each time.
LevelForgotten == 1
Level == depth + 1

TooDeep == Level > MaxLevel

\* Where a relative target starts; the slip starts it at the root.
FromRoot == Root
FromHere == cur

\* What is left of the path when a link is met.
RestKept == Rest

\* An absolute target: a new call of resolve_inner, one level deeper.
FollowAbsolute ==
    /\ Looking /\ IsLink(Found)
    /\ fs.target[Found].absolute
    /\ IF TooDeep
         THEN Return(<<"too many levels">>)
         ELSE /\ comps' = fs.target[Found].comps \o RestKept
              /\ i' = 1
              /\ cur' = Root
              /\ depth' = Level
              /\ UNCHANGED <<fs, path, result>>

\* A relative target: spliced in, the loop goes on from the first component,
\* and nothing is counted.
FollowRelative ==
    /\ Looking /\ IsLink(Found)
    /\ ~fs.target[Found].absolute
    /\ comps' = fs.target[Found].comps \o RestKept
    /\ i' = 1
    /\ cur' = FromHere
    /\ UNCHANGED <<fs, path, depth, result>>

\* A file or directory at the end of the path, or a directory on the way.
Arrive ==
    /\ Looking /\ ~IsLink(Found)
    /\ i = Len(comps)
    /\ Return(<<"ok", Found>>)

Descend ==
    /\ Looking /\ ~IsLink(Found)
    /\ i < Len(comps)
    /\ IF fs.kind[Found] = "dir"
         THEN /\ cur' = Found
              /\ i' = i + 1
              /\ UNCHANGED <<fs, path, comps, depth, result>>
         ELSE Return(<<"not a directory">>)

\* No component is left: the path was "/", or ended in ".." or an empty target.
StandStill ==
    /\ result = <<>> /\ i > Len(comps)
    /\ Return(<<"ok", cur>>)

\* read_inode, lookup_dir or read_inode_data fails.
ReadFails == Faulty /\ Walking /\ Return(<<"i/o error">>)

Step == Up \/ Missing \/ Unlisted \/ FollowAbsolute \/ FollowRelative \/ Arrive
            \/ Descend \/ StandStill \/ ReadFails

Answered == result # <<>> /\ UNCHANGED vars

Next == Step \/ Answered

Spec == Init /\ [][Next]_vars
FairSpec == Spec /\ WF_vars(Step)

-----------------------------------------------------------------------------
(* The reference answer: a link is resolved to an inode first, and the     *)
(* walk goes on from that inode.                                           *)

\* An answer, with the absolute links that were followed for it.
Ends(is, ino) == [is |-> is, ino |-> ino, links |-> 0]
Unfinished == Ends("unfinished", Root)
After(n, a) == [a EXCEPT !.links = n + @]

\* A link's target is answered first, and the rest of the path from there.
Onward(n, a) == IF a.is = "unfinished" THEN Unfinished ELSE After(n, a)
Target(w, n, there, rest) ==
    IF there.is = "unfinished" THEN Unfinished
    ELSE IF there.is # "ok" THEN After(n, there)
    ELSE Onward(n + there.links, w[<<there.ino, rest>>])
Follows(w, d, goal, rest) ==
    IF goal.absolute THEN Target(w, 1, w[<<Root, goal.comps>>], rest)
    ELSE Target(w, 0, w[<<d, goal.comps>>], rest)

\* The answer for p from d, when w has those that it takes.
Goes(f, w, d, x, rest) ==
    IF f.kind[x] # "link" THEN w[<<x, rest>>] ELSE Follows(w, d, f.target[x], rest)
Resolved(f, w, d, p) ==
    IF p = <<>> THEN Ends("ok", d)
    ELSE IF f.kind[d] # "dir" THEN Ends("not a directory", d)
    ELSE IF IsCorrupt(f.dir[d]) THEN Ends("corrupt", d)
    ELSE IF ~Has(f.dir[d], Head(p)) THEN Ends("missing", d)
    ELSE Goes(f, w, d, Lookup(f.dir[d], Head(p)), Tail(p))

\* The answers that are found in k calls, one inside the other.
NoAnswers == [q \in Ino \X Seq(Names) |-> Unfinished]
OneDeeper(f, w) == [q \in Ino \X Seq(Names) |-> Resolved(f, w, q[1], q[2])]
Walk(f, k) ==
    LET walk[j \in 0 .. k] == IF j = 0 THEN NoAnswers ELSE OneDeeper(f, walk[j - 1])
    IN  walk[k]

-----------------------------------------------------------------------------

\* Types; and the number of absolute links followed keeps its limit.
TypeOK ==
    /\ fs \in Tree
    /\ path \in Path
    /\ i \in 1 .. Len(comps) + 1
    /\ cur \in Ino
    /\ depth \in 0 .. MaxLevel

\* Splicing links into the path gives the answer that resolving them one by one
\* would: the same inode, or the same error, and no absolute link is followed that
\* would not be there; a path is turned away only if it leads over more of them
\* than are allowed, or nowhere at all.
AgreesWithWalk ==
    LET answer(k) == Walk(fs, k)[<<Root, path>>]
    IN  result \notin {<<>>, <<"i/o error">>} =>
            IF result = <<"too many levels">>
            THEN \A k \in Depths : answer(k).is # "unfinished" => answer(k).links > MaxLevel
            ELSE /\ depth <= MaxLevel
                 /\ \E k \in Depths :
                       /\ answer(k).is = result[1] /\ answer(k).links = depth
                       /\ result[1] = "ok" => answer(k).ino = result[2]

\* A path is answered, unless links go round in a circle of relative targets.
Terminates == <>(result # <<>>)

=============================================================================
