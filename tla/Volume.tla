------------------------------- MODULE Volume -------------------------------
(***************************************************************************)
(* Opening a file system: Superblock::parse, group::parse_all and          *)
(* Ext4::open.  Positions count units of 512 bytes.  A disk or an image is *)
(* [len, at]: its length, and what lies at the units that are not zero.    *)
(* A superblock is [is |-> "super", blocks, bpg, inodes, ipg, log, wide,   *)
(* desc, label]; a unit of group descriptors holds 16 cells of 32 bytes.   *)
(***************************************************************************)
EXTENDS Integers, Sequences, FiniteSetsExt

Zero == [is |-> "zero"]
At(disk, u) == IF u \in DOMAIN disk.at THEN disk.at[u] ELSE Zero

\* What read() gives of n units at u: less at the end, nothing beyond it.
Got(disk, u, n) == Max({0, Min({n, disk.len - u})})
DivCeil(a, b) == (a + b - 1) \div b

Failed == [is |-> "failed"]
Panicked == [is |-> "panicked"]

-----------------------------------------------------------------------------
(* The superblock                                                          *)

\* SUPERBLOCK_OFFSET; four units are read whatever the block size.
SuperAt == 2
Parse(disk, start) ==
    IF Got(disk, start + SuperAt, 4) = 4 /\ At(disk, start + SuperAt).is = "super"
    THEN At(disk, start + SuperAt) ELSE Failed

\* 1024 << log, the shift being taken modulo 64.  From 7 to 53 the block is too
\* large, from 54 to 63 it is zero; open refuses both.
Shift(sb) == sb.log % 64
BlockSizeOK(sb) == Shift(sb) \in 0 .. 6
BlockUnits(sb) == 2 * 2 ^ Shift(sb)

-----------------------------------------------------------------------------
(* The group descriptors                                                   *)

CellBytes == 32
CellsInUnit == 16

DescSize(sb) == IF sb.wide THEN sb.desc ELSE CellBytes

\* Ext4::open counts the blocks before first_data_block too; the slip counts
\* whole groups only.
WholeGroups(sb) == sb.blocks \div sb.bpg
GroupsCount(sb) == DivCeil(sb.blocks, sb.bpg)

FirstGdtBlock(sb) == IF BlockUnits(sb) = 2 THEN 2 ELSE 1
GdtAt(start, sb) == start + FirstGdtBlock(sb) * BlockUnits(sb)
GdtUnits(sb) ==
    DivCeil(GroupsCount(sb) * DescSize(sb), BlockUnits(sb) * CellsInUnit * CellBytes) * BlockUnits(sb)

Cell(disk, u, c) ==
    LET gdt == At(disk, u + c \div CellsInUnit)
    IN  IF gdt.is = "gdt" THEN gdt.cell[(c % CellsInUnit) + 1] ELSE 0

\* The inode table's block: its low half and, in a wide descriptor, its high one.
InodeTable(disk, start, sb, g) ==
    LET c == (g * DescSize(sb)) \div CellBytes
    IN  <<Cell(disk, GdtAt(start, sb), c),
          IF sb.wide THEN Cell(disk, GdtAt(start, sb), c + 1) ELSE 0>>

\* Ext4::open
Opened(disk, start) ==
    LET sb == Parse(disk, start) IN
    IF sb = Failed \/ ~BlockSizeOK(sb) \/ (sb.wide /\ sb.desc < 64) THEN Failed
    ELSE IF sb.bpg = 0 THEN Panicked
    ELSE IF Got(disk, GdtAt(start, sb), GdtUnits(sb)) < GdtUnits(sb) THEN Failed
    ELSE [is |-> "open", start |-> start, sb |-> sb,
          tables |-> [g \in 1 .. GroupsCount(sb) |-> InodeTable(disk, start, sb, g - 1)]]

=============================================================================
