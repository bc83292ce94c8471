----------------------------- MODULE Partitions -----------------------------
(***************************************************************************)
(* The partition table of a disk and what lies in each partition           *)
(* (src/ext4/partitions.rs), on the disks of Volume.  A boot sector is     *)
(* [is |-> "boot", slot, signs, text, mft]: the four entries of an MBR,    *)
(* the signatures of file systems, what is read as a label at each place,  *)
(* and where the table of an NTFS volume lies.  A GPT entry fills one or   *)
(* more cells of 128 bytes, of which a unit holds four.                    *)
(***************************************************************************)
EXTENDS Volume, SequencesExt

NoTable == [is |-> "none"]
Protective == 238
Part(i, lba, n) == [index |-> i, lba |-> lba, sectors |-> n]

\* The entries in use keep the number of their place.
Numbered(k, i) == i

-----------------------------------------------------------------------------
(* read_gpt.  A sector has "sector" units.                                 *)

EntryCell(disk, u, c) ==
    LET area == At(disk, u + c \div 4)
    IN  IF area.is = "entries" THEN area.cell[(c % 4) + 1] ELSE Zero

Sectors(e) == IF e.last >= e.first THEN e.last - e.first + 1 ELSE 0

ReadGpt(disk, sector) ==
    LET h == At(disk, sector)
        at == h.entries * sector
        units == DivCeil(h.count * h.cells, 4)
        Entry(i) == EntryCell(disk, at, (i - 1) * h.cells)
        used == SelectSeq([i \in 1 .. h.count |-> i], LAMBDA i : Entry(i).is = "entry")
    IN  IF Got(disk, sector, 1) = 0 \/ h.is # "gpt" THEN NoTable
        ELSE IF h.cells = 0 \/ h.count = 0 THEN NoTable
        ELSE IF Got(disk, at, units) < units THEN NoTable
        ELSE [is |-> "gpt",
              parts |-> [k \in DOMAIN used |->
                  Part(Numbered(k, used[k]), Entry(used[k]).first, Sectors(Entry(used[k])))]]

\* read_partition_table
Table(disk, sector) ==
    LET slot == At(disk, 0).slot
        used == SelectSeq(<<1, 2, 3, 4>>, LAMBDA i : slot[i].type # 0)
    IN  IF Got(disk, 0, 1) = 0 \/ At(disk, 0).is # "boot" THEN NoTable
        ELSE IF \E i \in 1 .. 4 : slot[i].type = Protective THEN ReadGpt(disk, sector)
        ELSE [is |-> "mbr",
              parts |-> [k \in DOMAIN used |->
                  Part(Numbered(k, used[k]), slot[used[k]].lba, slot[used[k]].sectors)]]

-----------------------------------------------------------------------------
(* detect_fs and detect_fs_label                                           *)

\* Of several signatures the first in the order of the code counts; what cannot be
\* read ("fails") is "unknown" and has no label.
Signs == <<"NTFS", "exFAT", "FAT32", "FAT">>
Signed(disk, u) == IF At(disk, u).is = "boot" THEN At(disk, u).signs ELSE {}
IsExt(disk, u) == Got(disk, u, 4) >= 3 /\ At(disk, u + SuperAt).is = "super"

DetectFs(disk, u, fails) ==
    LET found == SelectSeq(Signs, LAMBDA s : s \in Signed(disk, u))
    IN  IF fails THEN "unknown"
        ELSE IF IsExt(disk, u) THEN "ext2/3/4"
        ELSE IF Got(disk, u, 1) = 0 \/ found = <<>> THEN "unknown"
        ELSE Head(found)

\* The first attribute that is the name, the end mark, or too short to go on.
NtfsLabel(disk, u) ==
    LET mft == At(disk, u).mft
        record == At(disk, u + mft.lcn * mft.cluster + 3 * mft.record)
        stops == {k \in DOMAIN record.attrs : record.attrs[k].type \in {"name", "end", "bad"}}
        first == record.attrs[Min(stops)]
    IN  IF mft.lcn = 0 \/ record.is # "file" THEN ""
        ELSE IF stops = {} \/ first.type # "name" \/ ~first.resident THEN ""
        ELSE first.value

\* FAT32 is read at the place of FAT12 and FAT16, exFAT amid its sizes and flags.
DetectLabel(disk, u, fails) ==
    LET fs == DetectFs(disk, u, fails)
    IN  CASE fs = "ext2/3/4" -> At(disk, u + SuperAt).label
          [] fs = "NTFS" -> NtfsLabel(disk, u)
          [] fs = "exFAT" -> At(disk, u).text[107]
          [] fs \in {"FAT32", "FAT"} -> At(disk, u).text[43]
          [] OTHER -> ""

\* One line of a listing, of the command line and of the dialog alike: the two are
\* found out by a read of their own each, and "bad" are those that fail.
StartBytes(p, sector) == p.lba * sector
Row(disk, sector, p, bad) ==
    LET start == StartBytes(p, sector)
    IN  [index |-> p.index, start |-> start, sectors |-> p.sectors,
         fs |-> DetectFs(disk, start, "fs" \in bad), label |-> DetectLabel(disk, start, "label" \in bad)]
Rows(disk, sector, table, bad) ==
    [k \in DOMAIN table.parts |->
        Row(disk, sector, table.parts[k], {read \in {"fs", "label"} : <<k, read>> \in bad})]

=============================================================================
