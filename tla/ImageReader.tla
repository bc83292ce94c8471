---------------------------- MODULE ImageReader -----------------------------
(***************************************************************************)
(* Reading an image: read_inode, read_inodes_batch and the streaming of a  *)
(* file (src/ext4/inode.rs) along its block map, by threads that share the *)
(* Mutex<File> of struct Ext4 or hold a handle of their own                *)
(* (src/ext4/mod.rs).  A block holds BlockUnits units of data.             *)
(***************************************************************************)
EXTENDS ImageMap, FiniteSets, SequencesExt

CONSTANTS
    Reader,     \* threads that stream a file
    Own,        \* those of them with an open_independent_handle
    Wanted,     \* the inode numbers they may ask for
    Batches,    \* the sets of inode numbers a listing may ask for
    BlockUnits,
    MaxRun      \* blocks read in one go (1 MiB in the code)

Shared == "shared"
Nobody == "nobody"

ASSUME ReaderAssumption ==
    /\ Own \subseteq Reader
    /\ Shared \notin Reader /\ Nobody \notin Reader
    /\ {BlockUnits, MaxRun} \subseteq Nat \ {0}
    /\ \A n \in Wanted \cup UNION Batches : n \in 1 .. PerGroup * Len(Tables)

\* Every place of a table holds an inode, which is known by the number of its place.
\* "block_raw" is its i_block and "body" what follows its first 128 bytes, of which
\* "extra" are further fields; a fast link fits into i_block.  Auxiliary is "held", what
\* an inode with inline data was given to hold.
ASSUME InodeAssumption ==
    \A g \in DOMAIN Tables, s \in 0 .. PerGroup - 1 :
        /\ Tables[g] + s \div PerBlock \in Block
        /\ LET x == InodesAt[Tables[g] + s \div PerBlock][(s % PerBlock) + 1] IN
           /\ x.ino = (g - 1) * PerGroup + s + 1
           /\ x.size \in Nat
           /\ x.map \in {"extents", "indirect", "inline", "fast"}
           /\ x.map = "inline" =>
                /\ x.body \in Seq(Int) /\ x.extra \in Nat
                /\ x.held \in Seq(Int) /\ Len(x.held) = x.size
           /\ x.map = "fast" => x.block_raw \in Seq(Int) /\ x.size <= Len(x.block_raw)

VARIABLES
    pc,         \* where each reader is
    asked,      \* the inode number it was given
    inode,      \* the inode it read
    logical,    \* the next logical block
    run,        \* the physical blocks it is about to read: <<first, how many>>
    out,        \* the units handed to chunk_cb so far
    lock,       \* who holds the Mutex<File>
    pos,        \* the position of each handle, a block
    fault,      \* auxiliary: the readers that met an I/O error
    wantedInos, \* the argument of read_inodes_batch
    todo,       \* its inode-table blocks still to read
    found,      \* the inodes it has, as <<number, inode>>
    unread      \* auxiliary: the blocks it could not read

streams == <<asked, inode, logical, run, out>>
handles == <<lock, pos>>
batch == <<wantedInos, todo, found, unread>>
vars == <<pc, streams, handles, fault, batch>>

-----------------------------------------------------------------------------
(* Streaming a file: read_inode_data_chunks and its twin with a handle.    *)

\* Blocks of the file; the slip forgets the one that is only partly used.
BlocksWhole(x) == x.size \div BlockUnits
TotalBlocks(x) == (x.size + BlockUnits - 1) \div BlockUnits

\* Is a block other than the inode's needed to map this one?
NeedsBlock(x, l) == IF x.map = "extents" THEN x.root.depth > 0 ELSE l >= NDirect

\* A worker reads through a file opened for it alone; a handle cloned from the
\* shared one would share its position.
HandleCloned(r) == Shared
Handle(r) == IF r \in Own THEN r ELSE Shared

\* A unit of data is known by its place in the image; zero is a zero.
Data(b) == [k \in 1 .. BlockUnits |-> b * BlockUnits + k]
Zeros == [k \in 1 .. BlockUnits |-> 0]
Blocks(b, n) == [u \in 1 .. n * BlockUnits |-> b * BlockUnits + u]
Missing(r) == inode[r].size - Len(out[r])

\* The last block is cut to the size of the file.
Take(r, units) == SubSeq(units, 1, Min({Missing(r), Len(units)}))

Unread == [map |-> "unread"]
Goto(r, label) == pc' = [pc EXCEPT ![r] = label]

Init ==
    /\ pc = [r \in Reader |-> "inode"]
    /\ asked \in [Reader -> Wanted]
    /\ inode = [r \in Reader |-> Unread]
    /\ logical = [r \in Reader |-> 0]
    /\ run = [r \in Reader |-> <<0, 0>>]
    /\ out = [r \in Reader |-> <<>>]
    /\ lock = Nobody
    /\ pos = [h \in Own \cup {Shared} |-> 0]
    /\ fault = {}
    /\ wantedInos \in Batches
    /\ todo = {TableBlock(n) : n \in wantedInos}
    /\ found = {}
    /\ unread = {}

\* A read through the mutex that is over within one step: it needs the lock to
\* be free and leaves the shared handle somewhere else.
ViaShared(b) == lock = Nobody /\ pos' = [pos EXCEPT ![Shared] = b] /\ UNCHANGED lock

ReadInode(r) ==
    /\ pc[r] = "inode"
    /\ ViaShared(TableBlock(asked[r]))
    /\ inode' = [inode EXCEPT ![r] = InodeOf(asked[r])]
    /\ Goto(r, "map")
    /\ UNCHANGED <<asked, logical, run, out, fault, batch>>

InBlocks(x) == x.map \in {"extents", "indirect"}
AtEnd(r) == logical[r] >= TotalBlocks(inode[r])

\* A call of block_to_paddr, which may read further blocks; all of its reads are
\* one step.
Maps(r, l) == IF NeedsBlock(inode[r], l) THEN ViaShared(0) ELSE UNCHANGED handles

EndOfFile(r) ==
    /\ pc[r] = "map" /\ InBlocks(inode[r]) /\ AtEnd(r)
    /\ Goto(r, "done")
    /\ UNCHANGED <<streams, handles, fault, batch>>

\* inline_data reads the inode again and takes what follows its further fields, as
\* far as the inode goes.
InlineEnd(x) == x.extra + x.size

Inline(r) ==
    LET body == InodeOf(asked[r]).body
        end == InlineEnd(inode[r])
    IN  /\ pc[r] = "map" /\ inode[r].map = "inline"
        /\ ViaShared(TableBlock(asked[r]))
        /\ IF end > Len(body)
             THEN Goto(r, "failed") /\ UNCHANGED out
             ELSE Goto(r, "done") /\ out' = [out EXCEPT ![r] = SubSeq(body, inode[r].extra + 1, end)]
        /\ UNCHANGED <<asked, inode, logical, run, fault, batch>>

\* The target of a fast link lies in the inode that was read.
FastLink(r) ==
    /\ pc[r] = "map" /\ inode[r].map = "fast"
    /\ out' = [out EXCEPT ![r] = SubSeq(inode[r].block_raw, 1, inode[r].size)]
    /\ Goto(r, "done")
    /\ UNCHANGED <<asked, inode, logical, run, handles, fault, batch>>

\* The loop counter after a hole; the slip leaves it.
HoleStays(r) == logical[r]
HolePassed(r) == logical[r] + 1

MapHole(r) ==
    /\ pc[r] = "map" /\ InBlocks(inode[r]) /\ ~AtEnd(r)
    /\ Paddr(inode[r], logical[r]) = Hole
    /\ Maps(r, logical[r])
    /\ out' = [out EXCEPT ![r] = @ \o Take(r, Zeros)]
    /\ logical' = [logical EXCEPT ![r] = HolePassed(r)]
    /\ UNCHANGED <<pc, asked, inode, run, fault, batch>>

MapBlock(r) ==
    LET p == Paddr(inode[r], logical[r]) IN
    /\ pc[r] = "map" /\ InBlocks(inode[r]) /\ ~AtEnd(r)
    /\ p # Hole
    /\ Maps(r, logical[r])
    /\ IF p = Corrupt
         THEN Goto(r, "failed") /\ UNCHANGED run
         ELSE Goto(r, "extend") /\ run' = [run EXCEPT ![r] = <<p, 1>>]
    /\ UNCHANGED <<asked, inode, logical, out, fault, batch>>

\* The run is extended while the next block of the file is the next one of the
\* image; an error met in looking ahead ends the read.
Extensible(r) == run[r][2] < MaxRun /\ logical[r] + run[r][2] < TotalBlocks(inode[r])
Transfer(r) == Goto(r, IF r \in Own THEN "seek" ELSE "lock")

NextIsAdjacent(r, p) == p = run[r][1] + run[r][2]

ExtendRun(r) ==
    LET l == logical[r] + run[r][2]
        p == Paddr(inode[r], l)
    IN  /\ pc[r] = "extend" /\ Extensible(r)
        /\ Maps(r, l)
        /\ \/ p = Corrupt /\ Goto(r, "failed") /\ UNCHANGED run
           \/ p # Corrupt /\ NextIsAdjacent(r, p)
              /\ run' = [run EXCEPT ![r][2] = @ + 1] /\ UNCHANGED pc
           \/ p # Corrupt /\ ~NextIsAdjacent(r, p) /\ Transfer(r) /\ UNCHANGED run
        /\ UNCHANGED <<asked, inode, logical, out, fault, batch>>

EndRun(r) ==
    /\ pc[r] = "extend" /\ ~Extensible(r)
    /\ Transfer(r)
    /\ UNCHANGED <<streams, handles, fault, batch>>

\* read_bytes_at: the guard is held from before the seek to after the read.
Lock(r) ==
    /\ pc[r] = "lock" /\ lock = Nobody
    /\ lock' = r
    /\ Goto(r, "seek")
    /\ UNCHANGED <<streams, pos, fault, batch>>

Seek(r) ==
    /\ pc[r] = "seek"
    /\ pos' = [pos EXCEPT ![Handle(r)] = run[r][1]]
    /\ Goto(r, "read")
    /\ UNCHANGED <<streams, lock, fault, batch>>

Unlocked(r) == IF lock = r THEN Nobody ELSE lock

\* Whole blocks are read from where the handle stands, and the file's part of
\* them is handed on.
Read(r) ==
    LET from == pos[Handle(r)]
        n == run[r][2]
    IN  /\ pc[r] = "read" /\ from + n <= NBlocks
        /\ out' = [out EXCEPT ![r] = @ \o Take(r, Blocks(from, n))]
        /\ pos' = [pos EXCEPT ![Handle(r)] = from + n]
        /\ logical' = [logical EXCEPT ![r] = @ + n]
        /\ lock' = Unlocked(r)
        /\ Goto(r, "map")
        /\ UNCHANGED <<asked, inode, run, fault, batch>>

\* An I/O error, or a run that ends beyond the device.
ReadFails(r) ==
    /\ \/ pc[r] = "read"
       \/ /\ lock = Nobody
          /\ \/ pc[r] = "inode"
             \/ pc[r] = "map" /\ inode[r].map = "inline"
             \/ pc[r] = "map" /\ InBlocks(inode[r]) /\ ~AtEnd(r) /\ NeedsBlock(inode[r], logical[r])
             \/ pc[r] = "extend" /\ Extensible(r)
                /\ NeedsBlock(inode[r], logical[r] + run[r][2])
    /\ lock' = Unlocked(r)
    /\ fault' = fault \cup {r}
    /\ Goto(r, "failed")
    /\ UNCHANGED <<streams, pos, batch>>

-----------------------------------------------------------------------------
(* read_inodes_batch, from the thread that fills the listing.              *)

InBlock(b) == {n \in wantedInos : TableBlock(n) = b}

\* The offset in the block is taken from the start of the group's table, and an
\* inode that lies beyond the end of the block is passed over.
BatchBlock(b) ==
    /\ b = Min(todo)
    /\ ViaShared(b)
    /\ todo' = todo \ {b}
    /\ found' = found \cup {<<n, InodesAt[b][Slot(n) + 1]>> :
                            n \in {m \in InBlock(b) : Slot(m) + 1 <= PerBlock}}
    /\ UNCHANGED <<pc, streams, fault, wantedInos, unread>>

BatchFails(b) ==
    /\ b = Min(todo)
    /\ ViaShared(b)
    /\ todo' = todo \ {b}
    /\ unread' = unread \cup {b}
    /\ UNCHANGED <<pc, streams, fault, wantedInos, found>>

BatchStep == \E b \in todo : BatchBlock(b) \/ BatchFails(b)

Step(r) ==
    \/ ReadInode(r) \/ EndOfFile(r) \/ Inline(r) \/ FastLink(r)
    \/ MapHole(r) \/ MapBlock(r) \/ ExtendRun(r) \/ EndRun(r) \/ Lock(r) \/ Seek(r) \/ Read(r) \/ ReadFails(r)

Ended(r) == pc[r] \in {"done", "failed"}
AllEnded == todo = {} /\ (\A r \in Reader : Ended(r)) /\ UNCHANGED vars

Next == (\E r \in Reader : Step(r)) \/ BatchStep \/ AllEnded

\* Every thread is scheduled.  The others' work is finite, so weak fairness is
\* enough for a thread that waits for the lock.
Fairness == WF_vars(BatchStep) /\ \A r \in Reader : WF_vars(Step(r))

Spec == Init /\ [][Next]_vars
FairSpec == Spec /\ Fairness

-----------------------------------------------------------------------------
(* The reference: what a file holds, from its whole map at once.           *)

\* What ext4 means by ee_len: up to 2^15 blocks that are written, or more than that for
\* blocks that are not.
Written(e) == e.len_raw <= LenBit
Extends(e) == IF Written(e) THEN e.len_raw ELSE e.len_raw - LenBit
Holds(e, l) == e.first <= l /\ l < e.first + Extends(e)
Where(e, l) == IF Written(e) THEN e.start + (l - e.first) ELSE Hole

\* All extents below a node, so many nodes deep.
Below(x) ==
    LET extents[k \in 0 .. MaxWalk] ==
            [b \in NodeRef |->
                LET node == Node(x, b) IN
                IF k = 0 THEN {}
                ELSE IF node.depth = 0 THEN ToSet(node.entries)
                ELSE UNION {extents[k - 1][e.child] : e \in ToSet(node.entries)}]
    IN  extents

\* The pointers of the three levels, one behind the other.
Digit == 0 .. Ptrs - 1
Leads(x, l, p) ==
    \/ l < NDirect /\ p = x.block[l + 1]
    \/ \E i \in Digit : l = NDirect + i /\ p = Pointer(x.block[NDirect + 1], i)
    \/ \E i, j \in Digit :
          /\ l = NDirect + Ptrs + (Ptrs * i + j)
          /\ p = Pointer(Pointer(x.block[NDirect + 2], i), j)
    \/ \E i, j, k \in Digit :
          /\ l = NDirect + Ptrs + Ptrs * Ptrs + (Ptrs * (Ptrs * i + j) + k)
          /\ p = Pointer(Pointer(Pointer(x.block[NDirect + 3], i), j), k)

TrueBlock(x, l) ==
    LET holding == {e \in Below(x)[MaxWalk][InInode] : Holds(e, l)}
    IN  IF x.map = "indirect" THEN CHOOSE p \in Block : Leads(x, l, p)
        ELSE IF holding = {} THEN Hole
        ELSE Where(CHOOSE e \in holding : TRUE, l)

Unit(x, u) ==
    LET b == TrueBlock(x, (u - 1) \div BlockUnits)
    IN  IF b = Hole THEN 0 ELSE Data(b)[((u - 1) % BlockUnits) + 1]

Content(x) ==
    CASE x.map = "inline" -> x.held
      [] x.map = "fast" -> SubSeq(x.block_raw, 1, x.size)
      [] OTHER -> [u \in 1 .. x.size |-> Unit(x, u)]

ContentOf == [n \in Wanted |-> Content(InodeOf(n))]

-----------------------------------------------------------------------------
(* What reading promises.                                                  *)

HasInode(r) == inode[r] # Unread

\* An inode number leads to that inode, whatever group and block of the table it
\* is in, and whether it is read alone or with others.
RightInode ==
    /\ \A r \in Reader : HasInode(r) => inode[r].ino = asked[r]
    /\ \A f \in found : f[2].ino = f[1]

\* What is handed on so far is the beginning of the file: holes and unwritten
\* extents as zeros, runs of blocks whole and in order, and never a block that
\* another thread moved the handle to.  Without an error it is the whole file.
StreamFaithful ==
    \A r \in Reader :
        /\ HasInode(r) => IsPrefix(out[r], ContentOf[asked[r]])
        /\ pc[r] = "done" => Len(out[r]) = inode[r].size

\* The block maps of the files lead where the whole map says, or are found corrupt:
\* what StreamFaithful rests on, besides the order of the reads.
MapsRight ==
    \A n \in Wanted : LET x == InodeOf(n) IN
        InBlocks(x) =>
            \A l \in 0 .. TotalBlocks(x) - 1 :
                Paddr(x, l) = Corrupt \/ (Paddr(x, l) \in Nat /\ Paddr(x, l) = TrueBlock(x, l))

\* An extent tree that is in order: "span" gives each of its nodes the blocks of the
\* file that lie below it, from one up to before another; the extents of a leaf do not
\* overlap, and none is as long as the code cannot read; index entries ascend, and
\* what lies below one comes before the next.
InOrder(x, span) ==
    /\ DOMAIN span \subseteq NodeRef /\ InInode \in DOMAIN span
    /\ \A b \in DOMAIN span :
          LET entries == Node(x, b).entries
              from == span[b][1]
              to == span[b][2]
          IN  /\ entries \in Seq(ToSet(entries)) /\ from \in Nat /\ to \in Nat
              /\ \A i, j \in DOMAIN entries : i < j => entries[i].first < entries[j].first
              /\ \A i \in DOMAIN entries :
                    LET e == entries[i] IN
                    /\ e.first \in Nat
                    /\ Node(x, b).depth = 0 =>
                          /\ e.start \in Nat /\ e.len_raw \in 1 .. 2 * LenBit - 1 /\ e.len_raw # LenBit
                          /\ from <= e.first /\ e.first + Extends(e) <= to
                          /\ i + 1 \in DOMAIN entries => e.first + Extends(e) <= entries[i + 1].first
                    /\ Node(x, b).depth # 0 =>
                          /\ e.child \in DOMAIN span
                          /\ {from, e.first} \subseteq 0 .. span[e.child][1] /\ span[e.child][2] <= to
                          /\ i + 1 \in DOMAIN entries => span[e.child][2] <= entries[i + 1].first

\* Pointers that are in order: they lead to blocks of the image, and the file does not
\* go beyond the third level.
PointersFit(x) ==
    /\ \A k \in 1 .. NDirect + 3 : x.block[k] \in Block
    /\ \A b \in Block : \A k \in 1 .. Ptrs : PtrsAt[b][k] \in Block
    /\ TotalBlocks(x) <= NDirect + Ptrs + Ptrs * Ptrs + Ptrs * Ptrs * Ptrs

\* Inline data that lie where inline_data looks, or do not fit there.
InlineFits(x) ==
    InlineEnd(x) <= Len(x.body) => x.held = SubSeq(x.body, x.extra + 1, InlineEnd(x))

\* A file whose map is in order.
Sound(x, span) ==
    CASE x.map = "extents" -> InOrder(x, span)
      [] x.map = "indirect" -> PointersFit(x)
      [] x.map = "inline" -> InlineFits(x)
      [] OTHER -> TRUE

\* "Ok(None) means the block is a hole (or unwritten) and reads as zeros": where a
\* lookup finds no block, the file has none (block_to_paddr).
NoneIsHole ==
    \A r \in Reader :
        inode[r] # Unread /\ InBlocks(inode[r]) =>
            \A l \in 0 .. TotalBlocks(inode[r]) - 1 :
                Paddr(inode[r], l) = Hole => TrueBlock(inode[r], l) = Hole

\* A file system that is in order is read without an error, unless the device
\* fails: "Ok(None) means the block is a hole (or unwritten) and reads as zeros".
HolesReadAsZeros ==
    \A r \in Reader : pc[r] = "failed" /\ r \notin fault => ~inode[r].sound

\* "one Option per input inode; None on read failure".
NoneOnlyOnFailure ==
    todo = {} => \A n \in wantedInos :
        TableBlock(n) \in unread \/ \E f \in found : f[1] = n

\* Every thread is done some day, with its file or an error.
Finishes == <>(\A r \in Reader : Ended(r))

=============================================================================
