------------------------------ MODULE ImageMap -------------------------------
(***************************************************************************)
(* Where things are in an image (src/ext4/inode.rs): the place of an inode *)
(* in the inode tables, and the two block maps.  Inodes are so small that  *)
(* PerBlock of them fill a block.  The module has no state: ImageReader    *)
(* extends it, and TestImages reads what the test image builder wrote.     *)
(***************************************************************************)
EXTENDS Integers, Sequences, FiniteSetsExt

CONSTANTS
    NBlocks,    \* blocks of the image, numbered from 0
    PerBlock, PerGroup,
    NDirect,    \* direct pointers of an inode (12 in ext2)
    Ptrs,       \* pointers in an indirect block (block_size / 4)
    MaxWalk,    \* extent nodes looked at before giving up (16 in the code)
    LenBit,     \* the bit of ee_len that says "unwritten" (2^15 in the code)
    Tables,     \* Tables[g]: the first block of the inode table of group g
    InodesAt, NodeAt, PtrsAt    \* a block read as inodes, extents, pointers

Block == 0 .. NBlocks - 1

ASSUME MapAssumption ==
    /\ {NBlocks, PerBlock, PerGroup, NDirect, Ptrs, MaxWalk, LenBit} \subseteq Nat \ {0}
    /\ Tables \in Seq(Block)
    /\ {DOMAIN InodesAt, DOMAIN NodeAt, DOMAIN PtrsAt} = {Block}

-----------------------------------------------------------------------------
(* Where an inode is.                                                      *)

Group(ino) == ((ino - 1) \div PerGroup) + 1

\* The place of an inode in its group; the slip counts from the first group.
SlotOfAll(ino) == ino - 1
Slot(ino) == (ino - 1) % PerGroup
TableBlock(ino) == Tables[Group(ino)] + Slot(ino) \div PerBlock
InodeOf(ino) == InodesAt[TableBlock(ino)][(Slot(ino) % PerBlock) + 1]

-----------------------------------------------------------------------------
(* block_to_paddr: a physical block, a hole, or an error.                  *)

Hole == 0
Corrupt == -1

Pointer(b, k) == IF b = 0 THEN Hole ELSE PtrsAt[b][k + 1]

Indirect(x, l) ==
    LET single == l - NDirect
        double == single - Ptrs
        triple == double - Ptrs * Ptrs
    IN  IF l < NDirect THEN x.block[l + 1]
        ELSE IF single < Ptrs THEN Pointer(x.block[NDirect + 1], single)
        ELSE IF double < Ptrs * Ptrs
             THEN Pointer(Pointer(x.block[NDirect + 2], double \div Ptrs), double % Ptrs)
        ELSE IF triple < Ptrs * Ptrs * Ptrs
             THEN Pointer(Pointer(Pointer(x.block[NDirect + 3], triple \div (Ptrs * Ptrs)),
                                  (triple \div Ptrs) % Ptrs), triple % Ptrs)
        ELSE Corrupt

\* ee_len: the bit on top, and the length below it.
Unwritten(e) == e.len_raw >= LenBit
Length(e) == e.len_raw % LenBit
Covers(e, l) == e.first <= l /\ l < e.first + Length(e)

\* The first extent that covers the block.
InLeaf(node, l) ==
    LET hits == {k \in DOMAIN node.entries : Covers(node.entries[k], l)}
        e == node.entries[Min(hits)]
    IN  IF hits = {} \/ Unwritten(e) THEN Hole ELSE e.start + (l - e.first)

\* The last index entry before the first one that begins after the block.
Chosen(node, l) ==
    Max({0} \cup {k \in DOMAIN node.entries : \A j \in 1 .. k : node.entries[j].first <= l})

InInode == -1
NodeRef == Block \cup {InInode}
Node(x, b) == IF b = InInode THEN x.root ELSE NodeAt[b]

\* From a node, with so many nodes left to look at.
Walk(x, l) ==
    LET walk[left \in 0 .. MaxWalk] ==
            [b \in NodeRef |->
                LET node == Node(x, b) IN
                IF left = 0 \/ ~node.magic THEN Corrupt
                ELSE IF node.depth = 0 THEN InLeaf(node, l)
                ELSE IF Chosen(node, l) = 0 THEN Corrupt
                ELSE walk[left - 1][node.entries[Chosen(node, l)].child]]
    IN  walk
Extent(x, l) == Walk(x, l)[MaxWalk][InInode]

Paddr(x, l) == IF x.map = "extents" THEN Extent(x, l) ELSE Indirect(x, l)

=============================================================================
