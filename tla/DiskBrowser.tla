----------------------------- MODULE DiskBrowser -----------------------------
(***************************************************************************)
(* Opening an image in the GUI (src/bin/ext4gui.rs): "Open image", "Open   *)
(* disk" with the request for administrator rights and the restart, the    *)
(* dialog of disks and partitions, and open_image_with_offset; beside them *)
(* the tree of DirectoryTree.  Drives are \\.\PhysicalDrive0 .. and may be *)
(* exchanged while the dialog is open.  Each input is followed by a frame  *)
(* that draws the tree.                                                    *)
(***************************************************************************)
EXTENDS Partitions, DirectoryTree

CONSTANTS
    Disk,       \* the disks and images
    On,         \* On[d]: [len, at, sector, parts]; auxiliary are "parts", the rows of
                \*   what is on it with the labels it was given, and in a superblock
                \*   "dirs" and "tables"
    Gone,       \* no drive, or one that does not open
    Drive,      \* 0 .. 63 in the code
    Setup,      \* the drives there may be at the start
    File,       \* the image files to open
    Exchange,   \* bound: what a drive is exchanged for
    Misread,    \* bound: the reads of partitions that fail in one scan, as sets of
                \*   <<drive, place in the list, "fs" or "label">>
    Nodes,      \* bound: the directories whose arrow is clicked
    GoTo        \* the paths the table goes to

ASSUME DiskBrowserAssumption ==
    /\ DOMAIN On = Disk /\ Gone \notin Disk
    /\ \A d \in Disk : On[d].len \in Nat /\ \A p \in On[d].parts : p.start \in Nat
    /\ Drive \subseteq Nat /\ \E n \in Drive : Drive = 0 .. n
    /\ Setup \subseteq [Drive -> Disk \cup {Gone}] /\ File \subseteq Disk /\ Exchange \subseteq Disk \cup {Gone}

VARIABLES
    drives,     \* what each drive holds
    elevated,   \* is the program run by an administrator?
    dialog,     \* [disks, sel], or Closed
    scanned,    \* auxiliary: the drives as the dialog saw them
    chosen,     \* auxiliary: the drive and row the open image was chosen by
    error,      \* is an error shown?
    drawn       \* has the tree been drawn since the last input?

Closed == [disks |-> <<>>]
Nowhere == <<>>
screen == <<dialog, scanned, chosen, error>>
guiVars == <<fs, path, tree, alive, faulty, drives, elevated, screen, drawn>>

GuiInit ==
    /\ fs = NoImage /\ path = <<>> /\ cache = NoNodes /\ expanded = {} /\ alive = TRUE
    /\ drives \in Setup /\ elevated = FALSE
    /\ dialog = Closed /\ scanned = drives /\ chosen = Nowhere
    /\ error = FALSE /\ drawn = TRUE /\ faulty \in BOOLEAN

Input == alive /\ drawn /\ drawn' = FALSE
TreeKept == UNCHANGED <<fs, path, tree, alive>>

-----------------------------------------------------------------------------
(* DiskDialog::scan                                                        *)

\* enumerate_disks, for an administrator: up to the first drive that does not open.
Enumerated == {i \in Drive : \A j \in 0 .. i : j \in Drive /\ drives[j] # Gone}

NoParts(i) == [drive |-> i, sector |-> 1, parts |-> <<>>, error |-> TRUE]

\* The places in bytes; the slip takes every sector for one of 512 bytes.
RowsOf512(disk, table, bad) == Rows(disk, 1, table, bad)
RowsOf(disk, table, bad) == Rows(disk, disk.sector, table, bad)

\* A drive opened a second time; it may be refused by then.
Entry(i, lost, missed) ==
    LET disk == On[drives[i]]
        table == Table(disk, disk.sector)
    IN  IF i \in lost \/ table = NoTable THEN NoParts(i)
        ELSE [drive |-> i, sector |-> disk.sector,
              parts |-> RowsOf(disk, table, {<<r[2], r[3]>> : r \in {m \in missed : m[1] = i}}),
              error |-> FALSE]

Scan ==
    /\ \E lost \in IF faulty THEN SUBSET Enumerated ELSE {{}},
          missed \in IF faulty THEN Misread ELSE {{}} :
          dialog' = [sel |-> Nowhere,
                     disks |-> IF Enumerated = {} THEN <<NoParts(0)>>
                               ELSE [k \in 1 .. Cardinality(Enumerated) |-> Entry(k - 1, lost, missed)]]
    /\ scanned' = drives

\* is_admin: the first drive opens.
IsAdmin == elevated /\ drives[0] # Gone

\* open_disk_requested.  A restart as administrator ends this process, with the
\* image it had open, and begins another one that scans at once.
OpenDisk ==
    /\ Input
    /\ \/ IsAdmin /\ Scan /\ TreeKept /\ UNCHANGED <<elevated, chosen, error>>
       \/ /\ ~IsAdmin
          /\ error' = TRUE /\ TreeKept
          /\ UNCHANGED <<elevated, dialog, scanned, chosen>>
       \/ /\ ~IsAdmin
          /\ elevated' = TRUE /\ Scan
          /\ fs' = NoImage /\ path' = <<>> /\ cache' = NoNodes /\ expanded' = {}
          /\ chosen' = Nowhere /\ error' = FALSE /\ UNCHANGED alive
    /\ UNCHANGED drives

-----------------------------------------------------------------------------
(* open_image_with_offset                                                  *)

\* A file system that does not open leaves everything as it is.
OpenAt(disk, start, row) ==
    LET volume == IF disk = Gone THEN Failed ELSE Opened(On[disk], start)
    IN  CASE volume = Panicked ->
                 alive' = FALSE /\ UNCHANGED <<fs, path, tree, chosen, error>>
          [] volume = Failed ->
                 error' = TRUE /\ UNCHANGED <<fs, path, tree, chosen, alive>>
          [] OTHER ->
                 /\ TreeOpened([disk |-> disk, volume |-> volume, dirs |-> volume.sb.dirs])
                 /\ chosen' = row
                 /\ error' \in {FALSE, faulty}
                 /\ UNCHANGED alive

OpenFile ==
    /\ Input
    /\ \E f \in File : OpenAt(f, 0, Nowhere)
    /\ UNCHANGED <<drives, elevated, dialog, scanned>>

-----------------------------------------------------------------------------
(* show_disk_dialog and open_selected                                      *)

Select ==
    /\ dialog # Closed /\ Input
    /\ \E di \in DOMAIN dialog.disks : \E pi \in DOMAIN dialog.disks[di].parts :
          dialog' = [dialog EXCEPT !.sel = <<di, pi>>]
    /\ TreeKept /\ UNCHANGED <<drives, elevated, scanned, chosen, error>>

\* A row is known by its place in the list; the slip takes its number.
RowNumbered(entry, pi) ==
    LET k == entry.parts[pi].index IN entry.parts[IF k \in DOMAIN entry.parts THEN k ELSE pi]
RowChosen(entry, pi) == entry.parts[pi]

\* The drive is opened again by its path, at the bytes found by the scan.
OpenSelected ==
    /\ dialog # Closed /\ dialog.sel # Nowhere /\ Input
    /\ LET di == dialog.sel[1]
           pi == dialog.sel[2]
           entry == dialog.disks[di]
       IN  IF di \in DOMAIN dialog.disks /\ pi \in DOMAIN entry.parts
           THEN /\ OpenAt(drives[entry.drive], RowChosen(entry, pi).start,
                          <<entry.drive, scanned[entry.drive], entry.parts[pi].index>>)
                /\ dialog' = [dialog EXCEPT !.sel = Nowhere]
           ELSE TreeKept /\ UNCHANGED <<dialog, chosen, error>>
    /\ UNCHANGED <<drives, elevated, scanned>>

CloseDialog ==
    /\ dialog # Closed /\ Input
    /\ dialog' = Closed
    /\ TreeKept /\ UNCHANGED <<drives, elevated, scanned, chosen, error>>

-----------------------------------------------------------------------------

\* Does going there end in an error?  A path with dots is left to Browser.
MayFail(p) ==
    IF fs = NoImage THEN {TRUE}
    ELSE IF ToSet(p) \cap Dots # {} THEN BOOLEAN
    ELSE {~Straight(fs, p), ~Straight(fs, p) \/ faulty}

\* Where the table goes, and Refresh, which goes where it is.
Go ==
    /\ Input
    /\ \E p \in GoTo \cup {path} :
          NavigateTo(p) /\ error' \in MayFail(p)
    /\ UNCHANGED <<drives, elevated, dialog, scanned, chosen>>

Unfold ==
    /\ Input
    /\ \E d \in Nodes : Arrow(d)
    /\ UNCHANGED <<drives, elevated, screen>>

\* The tree of the frame.
Frame ==
    /\ alive /\ ~drawn /\ drawn' = TRUE
    /\ IF fs = NoImage THEN TreeKept ELSE Draw
    /\ UNCHANGED <<drives, elevated, screen>>

\* Someone exchanges a drive or takes it away: one, between two scans.
Replug ==
    /\ alive /\ dialog # Closed /\ drives = scanned
    /\ \E i \in Drive, x \in Exchange : drives' = [drives EXCEPT ![i] = x]
    /\ TreeKept /\ UNCHANGED <<elevated, screen, drawn>>

GuiNext ==
    /\ UNCHANGED faulty
    /\ \/ OpenDisk \/ OpenFile \/ Select \/ OpenSelected \/ CloseDialog
       \/ Go \/ Unfold \/ Frame \/ Replug

-----------------------------------------------------------------------------
(* What the user can rely on.                                              *)

\* A row shows a partition: its number and place, its file system and its label.
\* Where reads may fail it may show none of the last two, and of FAT32 and exFAT,
\* whose labels lie elsewhere than at 43 and 107, the label may be anything.
Shows(row, part, fails) ==
    /\ row.index = part.index /\ row.start = part.start /\ row.sectors = part.sectors
    /\ row.fs = part.fs \/ (fails /\ row.fs = "unknown")
    /\ row.label = part.label \/ part.fs \in {"FAT32", "exFAT"} \/ (fails /\ row.label = "")

Lists(rows, parts, fails) ==
    /\ Cardinality(DOMAIN rows) = Cardinality(parts)
    /\ \A row \in ToSet(rows) : \E part \in parts : Shows(row, part, fails)
    /\ \A part \in parts : \E row \in ToSet(rows) : Shows(row, part, fails)

\* A drive whose table could be read is listed with every partition that is on it and
\* nothing else (DiskDialog::scan, read_partition_table), as long as the dialog is
\* open and whatever is exchanged meanwhile.
ListedRight ==
    \A di \in DOMAIN dialog.disks :
        LET entry == dialog.disks[di]
        IN  ~entry.error => Lists(entry.parts, On[scanned[entry.drive]].parts, faulty)

\* What each disk holds is what its partition table says, where it has one.
TablesRight ==
    \A d \in Disk :
        LET table == Table(On[d], On[d].sector)
        IN  table # NoTable => Lists(Rows(On[d], On[d].sector, table, {}), On[d].parts, FALSE)

\* What is open is the partition whose row was selected, as long as it is still
\* the same disk: a new scan, a failed attempt and the dialog staying open do
\* not lead to another one.
OpensWhatWasChosen ==
    chosen # Nowhere /\ fs.disk = chosen[2] =>
        \E p \in On[fs.disk].parts :
            p.index = chosen[3] /\ p.start = fs.volume.start /\ p.fs = "ext2/3/4"

\* Where a file system may be looked for: at the beginning, or where some row says.
Starts == {0} \cup UNION {{p.start : p \in On[d].parts} : d \in Disk}

\* What a superblock that opens says is true of the disk: its inodes fit its groups,
\* the groups are all blocks, or all but the first, and their descriptors are there.
VolumesRight ==
    \A d \in Disk, start \in Starts :
        LET sb == Parse(On[d], start)
        IN  Opened(On[d], start) \notin {Failed, Panicked} =>
                /\ {sb.blocks, sb.bpg, sb.inodes, sb.ipg} \subseteq Nat
                /\ sb.tables \in Seq(ToSet(sb.tables)) /\ sb.inodes <= Len(sb.tables) * sb.ipg
                /\ \E first \in {0, 1} :
                      first <= sb.blocks /\ Len(sb.tables) = DivCeil(sb.blocks - first, sb.bpg)
                /\ \A g \in DOMAIN sb.tables : InodeTable(On[d], start, sb, g - 1) = sb.tables[g]

\* An image that opens is one that the listing calls ext2/3/4; it has a group,
\* with a descriptor of its own, for every inode it says it has, and at most one
\* group more.
VolumeSound ==
    fs # NoImage =>
        LET sb == fs.volume.sb
            tables == fs.volume.tables
        IN  /\ DetectFs(On[fs.disk], fs.volume.start, FALSE) = "ext2/3/4"
            /\ sb.inodes <= Len(tables) * sb.ipg
            /\ Len(tables) <= Len(sb.tables) + 1
            /\ \A g \in DOMAIN sb.tables : tables[g] = sb.tables[g]

\* Drawing the tree comes to an end (render_tree_node), unless the image that is
\* open has directories that lie each below another of them: numbers that were
\* unfolded in other images do not make a circle of a sound one.
DrawingEnds == ~alive /\ drawn => fs # NoImage /\ Circular(fs)

=============================================================================
