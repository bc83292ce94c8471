---------------------------- MODULE ImageBuilder -----------------------------
(***************************************************************************)
(* The small mkfs that makes the test images (examples/mkimg.rs): struct   *)
(* Mkfs, one action for each of its methods; and build_mbr and build_gpt,  *)
(* which wrap an image in a partition table.  Positions in an image count  *)
(* units of 512 bytes, as in Volume.  The images there are, and the calls  *)
(* their build functions make, are constants; TestImages has them.         *)
(***************************************************************************)
EXTENDS Partitions, FiniteSets, SequencesExt, TLC

CONSTANTS
    Image,      \* the file systems main makes, in order
    Shape,      \* Shape[i]: [bs, total, bpg, ipg, isize, desc, align, gdt, super]
    Calls,      \* Calls[i]: what its build function calls, after the layout
    Letters     \* bytes of a file name

VARIABLES
    making,     \* how many images are begun
    todo,       \* the calls still to make
    units,      \* data: what was written, unit by unit
    marked,     \* used: the blocks in use
    nextInode, nextBlock,
    groups,     \* block_bitmap, inode_bitmap and inode_table of each group
    inoOf,      \* the inode numbers the build function holds, by name
    blocksOf,   \* the blocks it holds, by the name they are for
    saved       \* the image files, by name

mkfs == <<todo, units, marked, nextInode, nextBlock, groups, inoOf, blocksOf>>
builderVars == <<making, mkfs, saved>>

UnitBytes == 512
Nothing == <<>>

BuilderInit ==
    /\ making = 0 /\ todo = <<>>
    /\ units = Nothing /\ marked = {} /\ nextInode = 1 /\ nextBlock = 0
    /\ groups = <<>> /\ inoOf = Nothing /\ blocksOf = Nothing
    /\ saved = Nothing

Sh == Shape[Image[making]]
BlockUnitsOf(shape) == shape.bs \div UnitBytes
UnitOf(b) == b * BlockUnitsOf(Sh)

\* f with what g has, and f with x at u.
Upon(g, f) == [v \in DOMAIN g \cup DOMAIN f |-> IF v \in DOMAIN g THEN g[v] ELSE f[v]]
Put(u, x, f) == Upon([v \in {u} |-> x], f)
Write(u, x) == units' = Put(u, x, units)

-----------------------------------------------------------------------------
(* Mkfs::new and the layout of the groups                                  *)

GroupsOf(shape) == DivCeil(shape.total, shape.bpg)
GdtBlocksOf(shape) == DivCeil(GroupsOf(shape) * shape.desc, shape.bs)
TableBlocksOf(shape) == DivCeil(shape.ipg * shape.isize, shape.bs)

\* In group 0 the bitmaps stand behind the descriptors.
Base(shape, g) == IF g = 0 THEN shape.gdt + GdtBlocksOf(shape) ELSE g * shape.bpg
Laid(shape, g) == [bb |-> Base(shape, g), ib |-> Base(shape, g) + 1, table |-> Base(shape, g) + 2]

\* The blocks a group cannot give away; the slip forgets the last of its table.
ReservedShort(shape, g) ==
    (IF g = 0 THEN 0 .. Base(shape, g) - 1 ELSE {}) \cup
    Base(shape, g) .. Base(shape, g) + TableBlocksOf(shape)
Reserved(shape, g) ==
    (IF g = 0 THEN 0 .. Base(shape, g) - 1 ELSE {}) \cup
    Base(shape, g) .. Base(shape, g) + 1 + TableBlocksOf(shape)

\* The superblock lies before the descriptors, and each group has what it needs
\* before the next one begins.
LaidOut(shape) ==
    /\ {shape.bs, shape.total, shape.bpg, shape.ipg, shape.isize, shape.desc, shape.gdt} \subseteq Nat \ {0}
    /\ shape.bs % UnitBytes = 0 /\ shape.gdt * BlockUnitsOf(shape) > SuperAt
    /\ \A g \in 0 .. GroupsOf(shape) - 1 :
          LET last == Base(shape, g) + 1 + TableBlocksOf(shape)
          IN  last < shape.total /\ last < (g + 1) * shape.bpg

\* The superblock says how the image is laid out.
Told(shape) ==
    LET sb == shape.super
    IN  /\ {"is", "blocks", "bpg", "log", "wide", "desc", "free"} \subseteq DOMAIN sb /\ sb.is = "super"
        /\ sb.blocks = shape.total /\ sb.bpg = shape.bpg
        /\ BlockSizeOK(sb) /\ BlockUnits(sb) = BlockUnitsOf(shape) /\ FirstGdtBlock(sb) = shape.gdt
        /\ DescSize(sb) = shape.desc /\ shape.desc % CellBytes = 0 /\ (sb.wide => shape.desc >= 64)

\* A build function begins with the root, and has a name of its own for each inode.
Named(calls) ==
    LET made == {k \in DOMAIN calls : calls[k].call = "inode"}
    IN  /\ calls \in Seq(ToSet(calls)) /\ 1 \in made
        /\ \A j, k \in made : calls[j].name = calls[k].name => j = k

ASSUME BuilderAssumption ==
    /\ Image \in Seq(DOMAIN Shape)
    /\ \A j, k \in DOMAIN Image : Image[j] = Image[k] => j = k
    /\ {"mbr", "gpt"} \cap ToSet(Image) = {}
    /\ \A i \in DOMAIN Shape : LaidOut(Shape[i]) /\ Told(Shape[i]) /\ Named(Calls[i])

\* The inode table of each group, in its cell of the descriptors; the slip takes
\* every descriptor for one of 32 bytes.
CellAtNarrow(shape, g) == (shape.gdt * shape.bs + g * CellBytes) \div CellBytes
CellAt(shape, g) == (shape.gdt * shape.bs + g * shape.desc) \div CellBytes
Descriptors(shape) ==
    LET placed == {CellAt(shape, g) : g \in 0 .. GroupsOf(shape) - 1}
        TableIn(c) == Laid(shape, (c * CellBytes - shape.gdt * shape.bs) \div shape.desc).table
    IN  [u \in {c \div CellsInUnit : c \in placed} |->
            [is |-> "gdt",
             cell |-> [k \in 1 .. CellsInUnit |->
                LET c == u * CellsInUnit + k - 1 IN IF c \in placed THEN TableIn(c) ELSE 0]]]

\* Everything before the first call.
Begin ==
    /\ todo = <<>> /\ making < Len(Image)
    /\ making > 0 => Image[making] \in DOMAIN saved
    /\ making' = making + 1
    /\ LET shape == Shape[Image[making + 1]]
           all == 0 .. GroupsOf(shape) - 1
       IN  /\ groups' = [k \in 1 .. GroupsOf(shape) |-> Laid(shape, k - 1)]
           /\ marked' = UNION {Reserved(shape, g) : g \in all}
           /\ units' = Put(SuperAt, shape.super, Descriptors(shape))
    /\ nextInode' = 1 /\ nextBlock' = 0
    /\ inoOf' = Nothing /\ blocksOf' = Nothing
    /\ todo' = Calls[Image[making + 1]]
    /\ UNCHANGED saved

-----------------------------------------------------------------------------
(* The methods of Mkfs.                                                    *)

Call == Head(todo)
Calling(method) == todo # <<>> /\ Call.call = method /\ todo' = Tail(todo) /\ UNCHANGED <<making, saved>>

\* What a call is given, earlier ones have returned.
Ino == inoOf[Call.name]
Made == Call.name \in DOMAIN inoOf
Held(k) == blocksOf[Call.name][k]
Holds(k) == Call.name \in DOMAIN blocksOf /\ k \in DOMAIN blocksOf[Call.name]

\* alloc_block: the next one that is free; without one the program panics.  What
\* is written into it is known by the file it is for and its place in that file.
Free == (nextBlock .. Sh.total - 1) \ marked
AllocBlock ==
    /\ Calling("block")
    /\ Free # {}
    /\ LET b == Min(Free)
           held == IF Call.name \in DOMAIN blocksOf THEN blocksOf[Call.name] ELSE <<>>
       IN  /\ marked' = marked \cup {b}
           /\ nextBlock' = b + 1
           /\ blocksOf' = Put(Call.name, Append(held, b), blocksOf)
           /\ IF Call.holds < 0 THEN UNCHANGED units
              ELSE Write(UnitOf(b), [is |-> "data", file |-> Call.name, logical |-> Call.holds])
    /\ UNCHANGED <<nextInode, groups, inoOf>>

\* inode_loc: the unit and the place in it.
InodeLoc(ino) ==
    LET byte == groups[(ino - 1) \div Sh.ipg + 1].table * Sh.bs + ((ino - 1) % Sh.ipg) * Sh.isize
    IN  <<byte \div UnitBytes, (byte % UnitBytes) \div Sh.isize>>

InodesIn(u) == IF u \in DOMAIN units /\ units[u].is = "inodes" THEN units[u].slot ELSE Nothing
InodeAt(ino) == InodesIn(InodeLoc(ino)[1])[InodeLoc(ino)[2]]

\* More of the image than the inode may be written, but not the same unit.
WriteInode(ino, x, more) ==
    LET u == InodeLoc(ino)[1]
    IN  units' = Put(u, [is |-> "inodes", slot |-> Put(InodeLoc(ino)[2], x, InodesIn(u))], Upon(more, units))

\* alloc_inode: number 1 is passed over.  One beyond the last group is beyond
\* inode_table too, and the program panics.
NoNode == [magic |-> FALSE, depth |-> 0, entries |-> <<>>]
AllocInode ==
    /\ Calling("inode")
    /\ LET ino == IF nextInode = 1 THEN 2 ELSE nextInode
       IN  /\ (ino - 1) \div Sh.ipg + 1 \in DOMAIN groups
           /\ inoOf' = Put(Call.name, ino, inoOf)
           /\ nextInode' = ino + 1
           /\ WriteInode(ino, [mode |-> Call.mode, map |-> Call.map, indexed |-> Call.indexed,
                               size |-> 0, blocks |-> 0, root |-> NoNode,
                               block |-> [k \in 1 .. 15 |-> 0], text |-> ""], Nothing)
    /\ UNCHANGED <<marked, nextBlock, groups, blocksOf>>

\* An inode with its size in bytes and in sectors.  set_inode_size and
\* set_inode_blocks are one step with the call that fills in the rest of the inode.
Sized == [InodeAt(Ino) EXCEPT !.size = Call.size, !.blocks = Call.blocks]

\* An extent is given as <<logical, length, which of the blocks held>>.
Extents ==
    [k \in DOMAIN Call.extents |->
        [first |-> Call.extents[k][1], len_raw |-> Call.extents[k][2],
         start |-> Held(Call.extents[k][3])]]
Leaf == [magic |-> TRUE, depth |-> 0, entries |-> Extents]

SetExtents ==
    /\ Calling("extents") /\ Made
    /\ WriteInode(Ino, [Sized EXCEPT !.root = Leaf], Nothing)
    /\ UNCHANGED <<marked, nextInode, nextBlock, groups, inoOf, blocksOf>>

\* The leaf is the first of the blocks held.
SetExtentsIndexed ==
    /\ Calling("indexed") /\ Made /\ Holds(1)
    /\ WriteInode(Ino, [Sized EXCEPT !.root = [magic |-> TRUE, depth |-> 1,
                                               entries |-> <<[first |-> 0, child |-> Held(1)]>>]],
                  Put(UnitOf(Held(1)), [is |-> "node", node |-> Leaf], Nothing))
    /\ UNCHANGED <<marked, nextInode, nextBlock, groups, inoOf, blocksOf>>

\* write_direct_blocks, and the pointers of i_block that build_ext2 writes itself.
\* A pointer is given as <<where in i_block, which of the blocks held>>.
SetPointers ==
    /\ Calling("pointers") /\ Made
    /\ WriteInode(Ino,
           [Sized EXCEPT !.block = [k \in 1 .. 15 |->
               LET p == SelectSeq(Call.pointers, LAMBDA q : q[1] = k - 1)
               IN  IF p = <<>> THEN 0 ELSE Held(p[1][2])]], Nothing)
    /\ UNCHANGED <<marked, nextInode, nextBlock, groups, inoOf, blocksOf>>

\* write_indirect_block, with a run of the blocks held.
WriteIndirectBlock ==
    /\ Calling("indirect") /\ Holds(Call.into)
    /\ Write(UnitOf(Held(Call.into)),
             [is |-> "ptrs",
              ptr |-> [k \in 1 .. Sh.bs \div 4 |-> IF k <= Call.count THEN Held(Call.from + k - 1) ELSE 0]])
    /\ UNCHANGED <<marked, nextInode, nextBlock, groups, inoOf, blocksOf>>

\* A fast link or inline data: bytes in the inode.
WriteText ==
    /\ Calling("text") /\ Made
    /\ WriteInode(Ino, [Sized EXCEPT !.text = Call.text], Nothing)
    /\ UNCHANGED <<marked, nextInode, nextBlock, groups, inoOf, blocksOf>>

-----------------------------------------------------------------------------
(* write_dir_block.  Offsets count words of 4 bytes.                       *)

NameWords(n) == DivCeil(Letters[n], 4)
EntryWords(n) == DivCeil(8 + Letters[n], Sh.align) * (Sh.align \div 4)

\* The last entry takes what is left of the block.
RecWords(names, k, off) == IF k = Len(names) THEN Sh.bs \div 4 - off ELSE EntryWords(names[k][1])

\* An entry is given as <<its name, the name its inode is known by>>.
DirBlock(names) ==
    LET off == FoldLeft(LAMBDA sofar, n : Append(sofar, Last(sofar) + EntryWords(n[1])), <<0>>, names)
    IN  [o \in {off[k] : k \in DOMAIN names} |->
            LET k == CHOOSE j \in DOMAIN names : off[j] = o
            IN  [ino |-> inoOf[names[k][2]], name |-> names[k][1],
                 words |-> NameWords(names[k][1]), rec |-> RecWords(names, k, o)]]

WriteDirBlock ==
    /\ Calling("dir") /\ Holds(Call.into)
    /\ Write(UnitOf(Held(Call.into)), [is |-> "dir", at |-> DirBlock(Call.names), levels |-> 0, child |-> <<>>])
    /\ UNCHANGED <<marked, nextInode, nextBlock, groups, inoOf, blocksOf>>

\* The root of an indexed directory: the dots at their places and one leaf, which
\* is known by its logical block; the slip writes the physical one.
LeafPhysical == Held(Len(blocksOf[Call.name]))
LeafLogical == Call.leaf
WriteDxRoot ==
    /\ Calling("dx_root") /\ Holds(Call.into)
    /\ Write(UnitOf(Held(Call.into)),
             [is |-> "dir", levels |-> 0, child |-> <<LeafLogical>>,
              at |-> [o \in {0, 3} |->
                  IF o = 0 THEN [ino |-> Ino, name |-> ".", words |-> 1, rec |-> 3]
                  ELSE [ino |-> inoOf["root"], name |-> "..", words |-> 1, rec |-> 3]]])
    /\ UNCHANGED <<marked, nextInode, nextBlock, groups, inoOf, blocksOf>>

-----------------------------------------------------------------------------
(* The end of an image.                                                    *)

\* write_block_bitmaps and write_inode_bitmaps.
BlockBits(g) == {b - g * Sh.bpg : b \in {x \in marked : x \div Sh.bpg = g}}
InodeBits(g) == {i \in 0 .. Sh.ipg - 1 : g * Sh.ipg + 1 + i < nextInode}
Bitmaps ==
    LET GroupWith(u) == CHOOSE k \in DOMAIN groups : u \in {UnitOf(groups[k].bb), UnitOf(groups[k].ib)}
        Bits(u) == LET k == GroupWith(u) IN
                   IF u = UnitOf(groups[k].bb) THEN BlockBits(k - 1) ELSE InodeBits(k - 1)
    IN  [u \in UNION {{UnitOf(x.bb), UnitOf(x.ib)} : x \in ToSet(groups)} |->
            [is |-> "bits", bits |-> Bits(u)]]

Save ==
    /\ making > 0 /\ todo = <<>> /\ Image[making] \notin DOMAIN saved
    /\ units' = Put(SuperAt, [units[SuperAt] EXCEPT !.free = Sh.total - Cardinality(marked)], Upon(Bitmaps, units))
    /\ saved' = Put(Image[making], [len |-> UnitOf(Sh.total), sector |-> 1, at |-> units'], saved)
    /\ UNCHANGED <<making, todo, marked, nextInode, nextBlock, groups, inoOf, blocksOf>>

Mkfs ==
    \/ Begin \/ AllocBlock \/ AllocInode \/ SetExtents \/ SetExtentsIndexed \/ SetPointers
    \/ WriteIndirectBlock \/ WriteText \/ WriteDirBlock \/ WriteDxRoot \/ Save

-----------------------------------------------------------------------------
(* build_mbr and build_gpt.  They read the image back from its file.       *)

StartLba == 2048
Moved(at) == [u \in {v + StartLba : v \in DOMAIN at} |-> at[u - StartLba]]
OneSlot(slot) ==
    [is |-> "boot", signs |-> {}, text |-> Nothing, mft |-> [lcn |-> 0],
     slot |-> <<slot>> \o [k \in 1 .. 3 |-> [type |-> 0, lba |-> 0, sectors |-> 0]]]

MbrOf(ext) ==
    [len |-> StartLba + ext.len + 64, sector |-> 1,
     at |-> Put(0, OneSlot([type |-> 131, lba |-> StartLba, sectors |-> ext.len]), Moved(ext.at))]

LastLba(n) == StartLba + n - 1
GptOf(ext) ==
    LET total == LastLba(ext.len) + 33
        entry == [is |-> "entry", first |-> StartLba, last |-> LastLba(ext.len)]
        table == [u \in 0 .. 2 |->
                    CASE u = 0 -> OneSlot([type |-> Protective, lba |-> 1, sectors |-> total])
                      [] u = 1 -> [is |-> "gpt", entries |-> 2, count |-> 128, cells |-> 1]
                      [] u = 2 -> [is |-> "entries", cell |-> <<entry, Zero, Zero, Zero>>]]
    IN  [len |-> total, sector |-> 1, at |-> Upon(table, Moved(ext.at))]

Wraps(name, image) ==
    /\ making = Len(Image) /\ Image[making] \in DOMAIN saved
    /\ name \notin DOMAIN saved
    /\ saved' = Put(name, image, saved)
    /\ UNCHANGED <<making, mkfs>>

WrapMbr == Wraps("mbr", MbrOf(saved["ext4"]))
WrapGpt == "mbr" \in DOMAIN saved /\ Wraps("gpt", GptOf(saved["ext4"]))

BuilderNext == Mkfs \/ WrapMbr \/ WrapGpt

-----------------------------------------------------------------------------

\* No block is given away twice, nor one that holds the bitmaps, the inode table
\* or the descriptors of a group; and the bitmaps and the count of free blocks say
\* so in the end.
BlocksOnce ==
    making > 0 =>
        LET given == UNION {{<<n, k>> : k \in DOMAIN blocksOf[n]} : n \in DOMAIN blocksOf}
            files == {blocksOf[g[1]][g[2]] : g \in given}
            system == 0 .. Sh.gdt + (GroupsOf(Sh) * Sh.desc - 1) \div Sh.bs \cup
                      UNION {{x.bb, x.ib} \cup x.table .. x.table + (Sh.ipg * Sh.isize - 1) \div Sh.bs :
                             x \in ToSet(groups)}
            Bits(u) == units[UnitOf(u)].bits
        IN  /\ Cardinality(files) = Cardinality(given)
            /\ files \cap system = {}
            /\ Image[making] \in DOMAIN saved =>
                  /\ UNION {{(g - 1) * Sh.bpg + k : k \in Bits(groups[g].bb)} : g \in DOMAIN groups} = files \cup system
                  /\ UNION {{(g - 1) * Sh.ipg + 1 + k : k \in Bits(groups[g].ib)} : g \in DOMAIN groups} =
                         {1} \cup {inoOf[n] : n \in DOMAIN inoOf}
                  /\ units[SuperAt].free = Sh.total - Cardinality(files \cup system)

\* Ext4::open finds the groups of every image that was made, and their inode tables
\* where the builder put them, whatever was written into it.
OpensAsLaid ==
    \A i \in ToSet(Image) \cap DOMAIN saved :
        LET shape == Shape[i]
            volume == Opened(saved[i], 0)
        IN  /\ volume.is = "open"
            /\ volume.tables = [g \in 1 .. GroupsOf(shape) |-> <<Laid(shape, g - 1).table, 0>>]

=============================================================================
