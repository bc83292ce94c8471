--------------------------- MODULE FrontEndsProofs ---------------------------
(***************************************************************************)
(* Proofs about the front ends, for any disks, drives, images, paths and   *)
(* arguments: in the GUI, the tree beside the table, and what the dialog   *)
(* of disks shows and opens; of the command line, the offset that is used  *)
(* and what the exit code tells; of the builder of test images, whatever   *)
(* their shapes and what is put into them, what it gives away.             *)
(***************************************************************************)
EXTENDS DiskBrowser, CommandLine, ImageBuilder, FiniteSetTheorems, WellFoundedInduction, TLAPS

\* A session with the GUI, a run of the command line, and the making of the images.
GuiSpec == GuiInit /\ [][GuiNext]_guiVars
CliSpec == CliInit /\ [][CliNext]_cliVars
BuilderSpec == BuilderInit /\ [][BuilderNext]_builderVars

-----------------------------------------------------------------------------
(* The tree beside the table                                               *)

\* The tree shows the image that is open, and nothing while none is.
TreeInv ==
    /\ TreeOfImage
    /\ fs = NoImage => cache = NoNodes
    /\ fs # NoImage => DOMAIN cache \subseteq DOMAIN fs.dirs

\* At first there is neither an image nor a tree.
LEMMA InitTree == GuiInit => TreeInv
  BY DEF GuiInit, TreeInv, TreeOfImage

\* An empty cache shows nothing of any image.
LEMMA EmptyCache ==
    ASSUME cache' = <<>>
    PROVE  TreeInv'
  <1>1. DOMAIN cache' = {}
    OBVIOUS
  <1> QED BY <1>1 DEF TreeInv, TreeOfImage, NoNodes

\* A step that leaves image, cache and disk errors alone leaves the tree right.
LEMMA SameTree ==
    ASSUME TreeInv, UNCHANGED <<fs, cache, faulty>>
    PROVE  TreeInv'
  <1>1. \A d : Children(fs, d)' = Children(fs, d)
    BY DEF Children, Listing, IsDir
  <1> QED BY <1>1 DEF TreeInv, TreeOfImage

\* The subdirectories that tell what they are.
Telling(d) == {n \in Children(fs, d) : n.told}

\* What is loaded for a frame are subdirectories of the image: all of them if nothing
\* fails, and otherwise none, or at least those that tell what they are.
LEMMA LoadedRight ==
    ASSUME TreeInv, fs # NoImage,
           NEW bad \in (IF faulty THEN SUBSET Unloaded ELSE {{}}),
           NEW lost \in (IF faulty THEN SUBSET Asked ELSE {{}}),
           NEW d \in DOMAIN LoadedBy(bad, lost)
    PROVE  /\ d \in DOMAIN fs.dirs
           /\ LoadedBy(bad, lost)[d] \subseteq Children(fs, d)
           /\ ~faulty => LoadedBy(bad, lost)[d] = Children(fs, d)
           /\ LoadedBy(bad, lost)[d] = {} \/ Telling(d) \subseteq LoadedBy(bad, lost)[d]
  <1>1. d \in DOMAIN fs.dirs \cup DOMAIN cache
    BY DEF LoadedBy
  <1>2. d \in DOMAIN fs.dirs
    BY <1>1 DEF TreeInv
  <1>3. CASE d \in DOMAIN cache
    <2>1. LoadedBy(bad, lost)[d] = cache[d]
      BY <1>1, <1>3 DEF LoadedBy
    <2> QED BY <1>2, <1>3, <2>1 DEF TreeInv, TreeOfImage, Telling
  <1>4. CASE d \notin DOMAIN cache
    <2>1. LoadedBy(bad, lost)[d] = IF d \in bad THEN {}
                                   ELSE {n \in Children(fs, d) : n.told \/ <<d, n>> \notin lost}
      BY <1>1, <1>4 DEF LoadedBy, Loads
    <2>2. ~faulty => bad = {} /\ lost = {}
      OBVIOUS
    <2> QED BY <1>2, <2>1, <2>2 DEF Telling
  <1> QED BY <1>3, <1>4

\* Drawing adds directories as they were loaded.
LEMMA DrawKeeps ==
    ASSUME TreeInv, Draw, UNCHANGED faulty
    PROVE  TreeInv'
  <1>1. fs # NoImage /\ fs' = fs
    BY DEF Draw
  <1>2. PICK bad \in (IF faulty THEN SUBSET Unloaded ELSE {{}}),
             lost \in (IF faulty THEN SUBSET Asked ELSE {{}}) :
            cache' = [d \in (Drawn(LoadedBy(bad, lost), expanded) \cap DOMAIN LoadedBy(bad, lost))
                                \cup DOMAIN cache |-> LoadedBy(bad, lost)[d]]
    BY DEF Draw
  <1>3. \A d \in DOMAIN cache' : d \in DOMAIN LoadedBy(bad, lost) /\ cache'[d] = LoadedBy(bad, lost)[d]
    BY <1>2 DEF LoadedBy
  <1>4. ASSUME NEW d \in DOMAIN cache'
        PROVE  /\ d \in DOMAIN fs.dirs
               /\ cache'[d] \subseteq Children(fs, d)
               /\ ~faulty => cache'[d] = Children(fs, d)
               /\ cache'[d] = {} \/ Telling(d) \subseteq cache'[d]
    BY <1>1, <1>3, <1>4, LoadedRight
  <1>5. \A d : Children(fs, d)' = Children(fs, d)
    BY <1>1 DEF Children, Listing, IsDir
  <1> QED BY <1>1, <1>4, <1>5 DEF TreeInv, TreeOfImage, Telling

\* Opening empties the cache, unless it fails and leaves everything.
LEMMA OpenKeeps ==
    ASSUME TreeInv, UNCHANGED faulty, NEW disk, NEW start, NEW row, OpenAt(disk, start, row)
    PROVE  TreeInv'
  <1> DEFINE v == IF disk = Gone THEN Failed ELSE Opened(On[disk], start)
             image == [disk |-> disk, volume |-> v, dirs |-> v.sb.dirs]
  <1>1. TreeOpened(image) \/ UNCHANGED <<fs, path, tree>>
    BY DEF OpenAt
  <1>2. CASE TreeOpened(image)
    BY <1>2, EmptyCache DEF TreeOpened, CacheCleared
  <1>3. CASE UNCHANGED <<fs, path, tree>>
    BY <1>3, SameTree DEF tree
  <1> QED BY <1>1, <1>2, <1>3

\* No input and no frame leaves a child of another image in the tree.
LEMMA NextTree == TreeInv /\ [GuiNext]_guiVars => TreeInv'
  <1> SUFFICES ASSUME TreeInv, [GuiNext]_guiVars PROVE TreeInv'
    OBVIOUS
  <1>1. CASE UNCHANGED guiVars
    BY <1>1, SameTree DEF guiVars, tree
  <1>2. CASE GuiNext
    <2>0. UNCHANGED faulty
      BY <1>2 DEF GuiNext
    <2>1. CASE OpenDisk
      <3>1. TreeKept \/ cache' = NoNodes
        BY <2>1 DEF OpenDisk
      <3> QED BY <2>0, <3>1, SameTree, EmptyCache DEF TreeKept, tree, NoNodes
    <2>2. CASE OpenFile
      BY <2>0, <2>2, OpenKeeps DEF OpenFile
    <2>3. CASE Select
      BY <2>0, <2>3, SameTree DEF Select, TreeKept, tree
    <2>4. CASE OpenSelected
      <3> DEFINE entry == dialog.disks[dialog.sel[1]]
                 pi == dialog.sel[2]
      <3>1. \/ OpenAt(drives[entry.drive], RowChosen(entry, pi).start,
                      <<entry.drive, scanned[entry.drive], entry.parts[pi].index>>)
            \/ TreeKept
        BY <2>4 DEF OpenSelected
      <3> QED BY <2>0, <3>1, OpenKeeps, SameTree DEF TreeKept, tree
    <2>5. CASE CloseDialog
      BY <2>0, <2>5, SameTree DEF CloseDialog, TreeKept, tree
    <2>6. CASE Go
      BY <2>0, <2>6, SameTree DEF Go, NavigateTo
    <2>7. CASE Unfold
      BY <2>0, <2>7, SameTree DEF Unfold, Arrow
    <2>8. CASE Frame
      BY <2>0, <2>8, SameTree, DrawKeeps DEF Frame, TreeKept, tree
    <2>9. CASE Replug
      BY <2>0, <2>9, SameTree DEF Replug, TreeKept, tree
    <2> QED BY <1>2, <2>1, <2>2, <2>3, <2>4, <2>5, <2>6, <2>7, <2>8, <2>9 DEF GuiNext
  <1> QED BY <1>1, <1>2

\* However images, partitions and restarts follow each other, and whichever reads
\* fail, the tree shows nothing but subdirectories of the image that is open,
\* although inode numbers recur in every image; all of them if no read fails, and
\* of a directory that could be read never without those that tell what they are.
THEOREM TreeIsOfImage == GuiSpec => []TreeOfImage
  <1>1. TreeInv => TreeOfImage
    BY DEF TreeInv
  <1> QED BY <1>1, InitTree, NextTree, PTL DEF GuiSpec

\* What is drawn in circles is a circle of the image.
LEMMA RoundIsCircular ==
    ASSUME TreeInv, Draw, ~alive'
    PROVE  fs' # NoImage /\ Circular(fs)'
  <1>1. fs # NoImage /\ fs' = fs
    BY DEF Draw
  <1>2. PICK bad \in (IF faulty THEN SUBSET Unloaded ELSE {{}}),
             lost \in (IF faulty THEN SUBSET Asked ELSE {{}}) :
            alive' = ~RoundAbout(LoadedBy(bad, lost), expanded)
    BY DEF Draw
  <1>3. PICK all : all = LoadedBy(bad, lost)
    OBVIOUS
  <1>4. PICK ring \in SUBSET (expanded \cap Drawn(all, expanded) \cap DOMAIN all) :
            ring # {} /\ \A d \in ring : \E p \in ring : \E n \in all[p] : n.ino = d
    BY <1>2, <1>3 DEF RoundAbout
  <1>5. \A p \in DOMAIN all : p \in DOMAIN fs.dirs /\ all[p] \subseteq Children(fs, p)
    BY <1>1, <1>3, LoadedRight
  <1>6. ring \in SUBSET DOMAIN fs.dirs /\ \A d \in ring : \E p \in ring : \E n \in Children(fs, p) : n.ino = d
    BY <1>4, <1>5
  <1>7. \A p : Children(fs, p)' = Children(fs, p)
    BY <1>1 DEF Children, Listing, IsDir
  <1> QED BY <1>1, <1>4, <1>6, <1>7 DEF Circular

\* Whatever was unfolded in the images opened before, drawing has an end in every
\* image whose directories do not lie in a circle.
THEOREM DrawingHasEnd == GuiSpec => []DrawingEnds
  <1>1. GuiInit => DrawingEnds
    BY DEF GuiInit, DrawingEnds
  <1>2. TreeInv /\ DrawingEnds /\ [GuiNext]_guiVars => DrawingEnds'
    <2> SUFFICES ASSUME TreeInv, DrawingEnds, [GuiNext]_guiVars, ~alive', drawn'
                 PROVE  fs' # NoImage /\ Circular(fs)'
      BY DEF DrawingEnds
    <2>1. CASE OpenDisk \/ OpenFile \/ Select \/ OpenSelected \/ CloseDialog \/ Go \/ Unfold
      BY <2>1 DEF OpenDisk, OpenFile, Select, OpenSelected, CloseDialog, Go, Unfold, Input
    <2>2. CASE Frame
      BY <2>2, RoundIsCircular DEF Frame, TreeKept
    <2>3. CASE Replug
      BY <2>3 DEF Replug, TreeKept
    <2>4. CASE UNCHANGED guiVars
      <3>1. \A p : Children(fs, p)' = Children(fs, p)
        BY <2>4 DEF guiVars, Children, Listing, IsDir
      <3> QED BY <2>4, <3>1 DEF guiVars, DrawingEnds, Circular
    <2> QED BY <2>1, <2>2, <2>3, <2>4 DEF GuiNext
  <1> QED BY <1>1, <1>2, InitTree, NextTree, PTL DEF GuiSpec

-----------------------------------------------------------------------------
(* The dialog of disks                                                     *)

\* Each drive holds a disk or nothing; disk errors happen, or they do not.
DrivesHold ==
    /\ drives \in [Drive -> Disk \cup {Gone}]
    /\ scanned \in [Drive -> Disk \cup {Gone}]
    /\ faulty \in BOOLEAN

\* What the dialog shows is what was on the drives when it looked.
ShowsScanned(entry) ==
    \/ entry.error
    \/ /\ entry.drive \in Drive /\ scanned[entry.drive] \in Disk
       /\ LET disk == On[scanned[entry.drive]]
              table == Table(disk, disk.sector)
          IN  /\ table # NoTable
              /\ \E bad : /\ ~faulty => bad = {}
                          /\ entry.parts = Rows(disk, disk.sector, table, bad)
DialogShows ==
    \A di \in DOMAIN dialog.disks :
        /\ ShowsScanned(dialog.disks[di])
        /\ dialog.disks[di].error => dialog.disks[di].parts = <<>>

DialogInv == DrivesHold /\ DialogShows

\* Numbers by size.
Below == {pair \in Nat \X Nat : pair[1] < pair[2]}

\* The drives that are enumerated are the first so many.
LEMMA EnumeratedPrefix ==
    ASSUME NEW k \in 1 .. Cardinality(Enumerated)
    PROVE  k - 1 \in Enumerated
  <1>1. PICK n \in Nat : Drive = 0 .. n
    BY DiskBrowserAssumption
  <1> DEFINE Rest == Nat \ Enumerated
  <1>2. Rest \in SUBSET Nat /\ n + 1 \in Rest
    BY <1>1 DEF Enumerated
  <1>3. IsWellFoundedOn(Below, Nat)
    BY NatLessThanWellFounded DEF OpToRel, Below
  <1>4. PICK m \in Rest : \A x \in Rest : ~(<<x, m>> \in Below)
    <2> HIDE DEF Rest
    <2> QED BY <1>2, <1>3, WFMin
  <1>5. m \in Nat /\ m \notin Enumerated /\ \A x \in Nat : x < m => x \in Enumerated
    BY <1>4 DEF Below
  <1>6. \A i \in Enumerated : i \in Nat /\ \A j \in 0 .. i : j \in Enumerated
    BY <1>1 DEF Enumerated
  <1>7. Enumerated = 0 .. (m - 1)
    <2>1. \A i \in Enumerated : i < m
      BY <1>5, <1>6
    <2>2. \A i \in Enumerated : i \in 0 .. (m - 1)
      BY <1>5, <1>6, <2>1
    <2>3. \A i \in 0 .. (m - 1) : i \in Enumerated
      BY <1>5
    <2> QED BY <2>2, <2>3
  <1>8. Cardinality(0 .. (m - 1)) = m
    <2>1. PICK b \in Int : b = m - 1
      BY <1>5
    <2>2. Cardinality(0 .. b) = IF 0 > b THEN 0 ELSE b - 0 + 1
      BY FS_Interval
    <2> QED BY <1>5, <2>1, <2>2
  <1>9. k \in 1 .. m
    BY <1>7, <1>8
  <1> QED BY <1>5, <1>7, <1>9

\* A scan shows the drives as they are.
LEMMA ScanShows ==
    ASSUME DrivesHold, Scan, UNCHANGED faulty
    PROVE  DialogShows'
  <1>1. scanned' = drives
    BY DEF Scan
  <1>2. PICK lost \in (IF faulty THEN SUBSET Enumerated ELSE {{}}),
             missed \in (IF faulty THEN Misread ELSE {{}}) :
            dialog' = [sel |-> Nowhere,
                       disks |-> IF Enumerated = {} THEN <<NoParts(0)>>
                                 ELSE [k \in 1 .. Cardinality(Enumerated) |-> Entry(k - 1, lost, missed)]]
    BY DEF Scan
  <1>3. CASE Enumerated = {}
    <2>1. dialog'.disks = <<NoParts(0)>>
      BY <1>2, <1>3
    <2>2. \A di \in DOMAIN dialog'.disks : dialog'.disks[di] = NoParts(0)
      BY <2>1
    <2>3. NoParts(0).error /\ NoParts(0).parts = <<>>
      BY DEF NoParts
    <2> QED BY <2>2, <2>3 DEF DialogShows, ShowsScanned
  <1>4. CASE Enumerated # {}
    <2>1. dialog'.disks = [k \in 1 .. Cardinality(Enumerated) |-> Entry(k - 1, lost, missed)]
      BY <1>2, <1>4
    <2>2. ASSUME NEW k \in DOMAIN dialog'.disks
          PROVE  /\ ShowsScanned(dialog.disks[k])'
                 /\ dialog'.disks[k].error => dialog'.disks[k].parts = <<>>
      <3>1. k \in 1 .. Cardinality(Enumerated) /\ dialog'.disks[k] = Entry(k - 1, lost, missed)
        BY <2>1, <2>2
      <3>2. PICK i : i = k - 1
        OBVIOUS
      <3>3. i \in Enumerated
        BY <3>1, <3>2, EnumeratedPrefix
      <3>4. i \in Drive /\ drives[i] \in Disk /\ i \in 0 .. i
        <4>1. i \in Nat
          BY <3>3, DiskBrowserAssumption DEF Enumerated
        <4>2. i \in Drive /\ drives[i] # Gone
          BY <3>3, <4>1 DEF Enumerated
        <4> QED BY <4>1, <4>2 DEF DrivesHold
      <3>5. PICK disk : disk = On[drives[i]]
        OBVIOUS
      <3>6. PICK table : table = Table(disk, disk.sector)
        OBVIOUS
      <3>7. PICK bad : /\ bad = {<<r[2], r[3]>> : r \in {m \in missed : m[1] = i}}
                       /\ dialog'.disks[k] = IF i \in lost \/ table = NoTable THEN NoParts(i)
                               ELSE [drive |-> i, sector |-> disk.sector,
                                     parts |-> Rows(disk, disk.sector, table, bad), error |-> FALSE]
        BY <3>1, <3>2, <3>5, <3>6 DEF Entry, RowsOf
      <3>8. CASE i \in lost \/ table = NoTable
        BY <3>7, <3>8 DEF NoParts, ShowsScanned
      <3>9. CASE ~(i \in lost \/ table = NoTable)
        <4>1. /\ dialog'.disks[k].drive = i /\ dialog'.disks[k].error = FALSE
              /\ dialog'.disks[k].parts = Rows(disk, disk.sector, table, bad)
          BY <3>7, <3>9
        <4>2. ~faulty' => bad = {}
          BY <1>2, <3>7
        <4> QED BY <1>1, <3>4, <3>5, <3>6, <3>9, <4>1, <4>2 DEF ShowsScanned
      <3> QED BY <3>8, <3>9
    <2> QED BY <2>2 DEF DialogShows
  <1> QED BY <1>3, <1>4

\* At first there is no dialog.
LEMMA InitDialog == GuiInit => DialogInv
  BY DiskBrowserAssumption DEF GuiInit, DialogInv, DrivesHold, DialogShows, Closed

\* What leaves the list and the scan alone leaves them right.
LEMMA SameDialog ==
    ASSUME DialogInv, UNCHANGED <<scanned, faulty>>, dialog'.disks = dialog.disks \/ dialog' = Closed
    PROVE  DialogShows'
  <1>1. CASE dialog' = Closed
    BY <1>1 DEF DialogShows, Closed
  <1>2. CASE dialog'.disks = dialog.disks
    BY <1>2 DEF DialogInv, DialogShows, ShowsScanned
  <1> QED BY <1>1, <1>2

\* No input leaves the dialog with anything but what its scan found.
LEMMA NextDialog == DialogInv /\ [GuiNext]_guiVars => DialogInv'
  <1> SUFFICES ASSUME DialogInv, [GuiNext]_guiVars PROVE DialogInv'
    OBVIOUS
  <1> USE DEF screen
  <1>0. UNCHANGED faulty
    BY DEF GuiNext, guiVars
  <1>1. CASE UNCHANGED guiVars
    BY <1>1, SameDialog DEF guiVars, DialogInv, DrivesHold
  <1>2. CASE OpenDisk
    <2>1. CASE Scan
      BY <1>0, <1>2, <2>1, ScanShows DEF OpenDisk, Scan, DialogInv, DrivesHold
    <2>2. CASE UNCHANGED <<dialog, scanned>>
      BY <1>0, <1>2, <2>2, SameDialog DEF OpenDisk, DialogInv, DrivesHold
    <2> QED BY <1>2, <2>1, <2>2 DEF OpenDisk
  <1>3. CASE Replug
    <2>1. drives' \in [Drive -> Disk \cup {Gone}]
      BY <1>3, DiskBrowserAssumption DEF Replug, DialogInv, DrivesHold
    <2> QED BY <1>0, <1>3, <2>1, SameDialog DEF Replug, DialogInv, DrivesHold
  <1>4. CASE Select \/ OpenSelected
    <2>1. dialog'.disks = dialog.disks /\ UNCHANGED <<drives, scanned>>
      <3>1. UNCHANGED <<drives, scanned>>
        BY <1>4 DEF Select, OpenSelected
      <3>2. dialog' = dialog \/ \E x : dialog' = [dialog EXCEPT !.sel = x]
        BY <1>4 DEF Select, OpenSelected
      <3>3. \A x : [dialog EXCEPT !.sel = x].disks = dialog.disks
        OBVIOUS
      <3> QED BY <3>1, <3>2, <3>3
    <2> QED BY <1>0, <2>1, SameDialog DEF DialogInv, DrivesHold
  <1>5. CASE OpenFile \/ CloseDialog \/ Go \/ Unfold \/ Frame
    <2>1. (dialog' = dialog \/ dialog' = Closed) /\ UNCHANGED <<drives, scanned>>
      BY <1>5 DEF OpenFile, CloseDialog, Go, Unfold, Frame
    <2> QED BY <1>0, <2>1, SameDialog DEF DialogInv, DrivesHold
  <1> QED BY <1>1, <1>2, <1>3, <1>4, <1>5 DEF GuiNext

\* A row of which something cannot be read lacks its file system or its label.
LEMMA RowMisread ==
    ASSUME NEW disk, NEW sector, NEW p, NEW bad
    PROVE  /\ Row(disk, sector, p, bad).index = Row(disk, sector, p, {}).index
           /\ Row(disk, sector, p, bad).start = Row(disk, sector, p, {}).start
           /\ Row(disk, sector, p, bad).sectors = Row(disk, sector, p, {}).sectors
           /\ \/ Row(disk, sector, p, bad).fs = Row(disk, sector, p, {}).fs
              \/ "fs" \in bad /\ Row(disk, sector, p, bad).fs = "unknown"
           /\ \/ Row(disk, sector, p, bad).label = Row(disk, sector, p, {}).label
              \/ "label" \in bad /\ Row(disk, sector, p, bad).label = ""
  <1>1. PICK u : u = StartBytes(p, sector)
    OBVIOUS
  <1>2. DetectFs(disk, u, TRUE) = "unknown"
    BY DEF DetectFs
  <1>3. DetectLabel(disk, u, TRUE) = ""
    BY <1>2 DEF DetectLabel
  <1>4. ("fs" \in {}) = FALSE /\ ("label" \in {}) = FALSE
    OBVIOUS
  <1>5. PICK x, y : x = Row(disk, sector, p, {}) /\ y = Row(disk, sector, p, bad)
    OBVIOUS
  <1>6. /\ x.index = p.index /\ x.start = u /\ x.sectors = p.sectors
        /\ x.fs = DetectFs(disk, u, FALSE) /\ x.label = DetectLabel(disk, u, FALSE)
    BY <1>1, <1>4, <1>5 DEF Row
  <1>7. y.index = p.index /\ y.start = u /\ y.sectors = p.sectors
    BY <1>1, <1>5 DEF Row
  <1>8. y.fs = x.fs \/ ("fs" \in bad /\ y.fs = "unknown")
    <2>1. y.fs = DetectFs(disk, u, "fs" \in bad)
      BY <1>1, <1>5 DEF Row
    <2>2. CASE "fs" \in bad
      <3>1. ("fs" \in bad) = TRUE
        BY <2>2
      <3> QED BY <1>2, <2>1, <2>2, <3>1
    <2>3. CASE "fs" \notin bad
      <3>1. ("fs" \in bad) = FALSE
        BY <2>3
      <3> QED BY <1>6, <2>1, <3>1
    <2> QED BY <2>2, <2>3
  <1>9. y.label = x.label \/ ("label" \in bad /\ y.label = "")
    <2>1. y.label = DetectLabel(disk, u, "label" \in bad)
      BY <1>1, <1>5 DEF Row
    <2>2. CASE "label" \in bad
      <3>1. ("label" \in bad) = TRUE
        BY <2>2
      <3> QED BY <1>3, <2>1, <2>2, <3>1
    <2>3. CASE "label" \notin bad
      <3>1. ("label" \in bad) = FALSE
        BY <2>3
      <3> QED BY <1>6, <2>1, <3>1
    <2> QED BY <2>2, <2>3
  <1> QED BY <1>5, <1>6, <1>7, <1>8, <1>9

\* A list is right although something of it could not be read, if it may be so.
LEMMA RowsMisread ==
    ASSUME NEW disk, NEW sector, NEW table, NEW parts, NEW bad, NEW fails \in BOOLEAN,
           ~fails => bad = {},
           Lists(Rows(disk, sector, table, {}), parts, FALSE)
    PROVE  Lists(Rows(disk, sector, table, bad), parts, fails)
  <1> DEFINE rows(b) == Rows(disk, sector, table, b)
             missed(k) == {read \in {"fs", "label"} : <<k, read>> \in bad}
  <1>1. \A b : DOMAIN rows(b) = DOMAIN table.parts
    BY DEF Rows
  <1>2. ASSUME NEW k \in DOMAIN table.parts, NEW part, Shows(rows({})[k], part, FALSE)
        PROVE  Shows(rows(bad)[k], part, fails)
    <2>1. PICK x, y : x = rows({})[k] /\ y = rows(bad)[k]
      OBVIOUS
    <2>2. PICK p, b : p = table.parts[k] /\ b = missed(k)
      OBVIOUS
    <2>3. {read \in {"fs", "label"} : <<k, read>> \in {}} = {}
      OBVIOUS
    <2>4. x = Row(disk, sector, p, {}) /\ y = Row(disk, sector, p, b)
      BY <2>1, <2>2, <2>3 DEF Rows
    <2>5. "fs" \in b \/ "label" \in b => fails
      BY <2>2
    <2>6. /\ y.index = x.index /\ y.start = x.start /\ y.sectors = x.sectors
          /\ y.fs = x.fs \/ (fails /\ y.fs = "unknown")
          /\ y.label = x.label \/ (fails /\ y.label = "")
      BY <2>4, <2>5, RowMisread
    <2>7. Shows(x, part, FALSE)
      BY <1>2, <2>1
    <2>8. Shows(y, part, fails)
      BY <2>6, <2>7 DEF Shows
    <2> QED BY <2>1, <2>8
  <1>3. \A b : ToSet(rows(b)) = {rows(b)[k] : k \in DOMAIN table.parts}
    BY <1>1 DEF ToSet
  <1>4. /\ Cardinality(DOMAIN rows({})) = Cardinality(parts)
        /\ \A row \in ToSet(rows({})) : \E part \in parts : Shows(row, part, FALSE)
        /\ \A part \in parts : \E row \in ToSet(rows({})) : Shows(row, part, FALSE)
    BY DEF Lists
  <1>5. Cardinality(DOMAIN rows(bad)) = Cardinality(parts)
    BY <1>1, <1>4
  <1> HIDE DEF rows
  <1>6. \A k \in DOMAIN table.parts : \E part \in parts : Shows(rows({})[k], part, FALSE)
    BY <1>3, <1>4
  <1>7. \A part \in parts : \E k \in DOMAIN table.parts : Shows(rows({})[k], part, FALSE)
    <2> SUFFICES ASSUME NEW part \in parts
                 PROVE  \E k \in DOMAIN table.parts : Shows(rows({})[k], part, FALSE)
      OBVIOUS
    <2>1. PICK row \in ToSet(rows({})) : Shows(row, part, FALSE)
      BY <1>4
    <2>2. PICK k \in DOMAIN table.parts : row = rows({})[k]
      BY <1>3, <2>1
    <2> QED BY <2>1, <2>2
  <1>8. \A k \in DOMAIN table.parts : \E part \in parts : Shows(rows(bad)[k], part, fails)
    BY <1>2, <1>6
  <1>9. \A part \in parts : \E k \in DOMAIN table.parts : Shows(rows(bad)[k], part, fails)
    BY <1>2, <1>7
  <1>10. Lists(rows(bad), parts, fails)
    BY <1>3, <1>5, <1>8, <1>9 DEF Lists
  <1> QED BY <1>10 DEF rows

\* What an entry shows is what is on the disk that was scanned.
LEMMA EntryLists ==
    ASSUME TablesRight, DialogInv, NEW di \in DOMAIN dialog.disks,
           ~dialog.disks[di].error
    PROVE  /\ dialog.disks[di].drive \in Drive /\ scanned[dialog.disks[di].drive] \in Disk
           /\ Lists(dialog.disks[di].parts, On[scanned[dialog.disks[di].drive]].parts, faulty)
  <1>1. ShowsScanned(dialog.disks[di])
    BY DEF DialogInv, DialogShows
  <1>2. PICK entry : entry = dialog.disks[di]
    OBVIOUS
  <1>3. PICK d : d = scanned[entry.drive]
    OBVIOUS
  <1>4. PICK bad, sector, table :
           /\ entry.drive \in Drive /\ d \in Disk
           /\ sector = On[d].sector /\ table = Table(On[d], sector) /\ table # NoTable
           /\ ~faulty => bad = {}
           /\ entry.parts = Rows(On[d], sector, table, bad)
    BY <1>1, <1>2, <1>3 DEF ShowsScanned
  <1>5. Lists(Rows(On[d], sector, table, {}), On[d].parts, FALSE)
    BY <1>4 DEF TablesRight
  <1>6. Lists(entry.parts, On[d].parts, faulty)
    BY <1>4, <1>5, RowsMisread DEF DialogInv, DrivesHold
  <1> QED BY <1>2, <1>3, <1>4, <1>6

\* Where the disks are what their tables say, the dialog lists what is on them,
\* although drives are exchanged while it is open.
LEMMA ShownIsListed == TablesRight /\ DialogInv => ListedRight
  BY EntryLists DEF ListedRight

\* Whatever drives are exchanged and however often the dialog scans, its rows are
\* those of the drives it looked at.
THEOREM DialogListsRight == TablesRight => (GuiSpec => []ListedRight)
  <1> SUFFICES ASSUME TablesRight PROVE GuiSpec => []ListedRight
    OBVIOUS
  <1>1. DialogInv => ListedRight
    BY ShownIsListed
  <1> QED BY <1>1, InitDialog, NextDialog, PTL DEF GuiSpec

-----------------------------------------------------------------------------
(* What a row that is chosen opens                                         *)

\* The length of what is read, without Max and Min.
LEMMA GotIs ==
    ASSUME NEW disk, disk.len \in Int, NEW u \in Int, NEW n \in Nat
    PROVE  /\ disk.len - u >= n => Got(disk, u, n) = n
           /\ disk.len - u < n => Got(disk, u, n) < n \/ n = 0
  <1>1. \A a, b \in Int : Min({a, b}) = IF a <= b THEN a ELSE b
    <2> SUFFICES ASSUME NEW a \in Int, NEW b \in Int PROVE Min({a, b}) = IF a <= b THEN a ELSE b
      OBVIOUS
    <2> QED BY DEF Min
  <1>2. \A a, b \in Int : Max({a, b}) = IF a >= b THEN a ELSE b
    <2> SUFFICES ASSUME NEW a \in Int, NEW b \in Int PROVE Max({a, b}) = IF a >= b THEN a ELSE b
      OBVIOUS
    <2> QED BY DEF Max
  <1>3. PICK r \in Int : r = disk.len - u
    OBVIOUS
  <1>4. Min({n, r}) = IF n <= r THEN n ELSE r
    BY <1>1
  <1>5. PICK m \in Int : m = Min({n, r})
    BY <1>4
  <1>6. Max({0, m}) = IF 0 >= m THEN 0 ELSE m
    BY <1>2
  <1>7. Got(disk, u, n) = Max({0, m})
    BY <1>3, <1>5 DEF Got
  <1> QED BY <1>3, <1>4, <1>5, <1>6, <1>7

\* A file system that opens is one that a listing calls ext2/3/4.
LEMMA OpenedIsExt ==
    ASSUME NEW disk, disk.len \in Int, NEW start \in Int,
           Opened(disk, start) \notin {Failed, Panicked}
    PROVE  DetectFs(disk, start, FALSE) = "ext2/3/4" /\ Opened(disk, start).start = start
  <1>1. Parse(disk, start) # Failed
    BY DEF Opened
  <1>2. Got(disk, start + 2, 4) = 4 /\ At(disk, start + 2).is = "super"
    BY <1>1 DEF Parse, SuperAt
  <1>3. disk.len - (start + 2) >= 4
    BY <1>2, GotIs
  <1>4. Got(disk, start, 4) = 4
    BY <1>3, GotIs
  <1>5. IsExt(disk, start)
    BY <1>2, <1>4 DEF IsExt, SuperAt
  <1>6. DetectFs(disk, start, FALSE) = "ext2/3/4"
    BY <1>5 DEF DetectFs
  <1>7. Opened(disk, start).start = start
    BY DEF Opened
  <1> QED BY <1>6, <1>7

\* What OpenAt leaves open, and what it was chosen by.
LEMMA OpenAtOpens ==
    ASSUME NEW disk, NEW start, NEW row, OpenAt(disk, start, row)
    PROVE  \/ UNCHANGED <<fs, chosen>>
           \/ /\ disk # Gone /\ Opened(On[disk], start) \notin {Failed, Panicked}
              /\ fs'.disk = disk /\ fs'.volume = Opened(On[disk], start) /\ chosen' = row
  <1>1. PICK v : v = IF disk = Gone THEN Failed ELSE Opened(On[disk], start)
    OBVIOUS
  <1>2. CASE v \in {Failed, Panicked}
    BY <1>1, <1>2 DEF OpenAt
  <1>3. CASE v \notin {Failed, Panicked}
    <2>1. /\ TreeOpened([disk |-> disk, volume |-> v, dirs |-> v.sb.dirs])
          /\ chosen' = row
      BY <1>1, <1>3 DEF OpenAt
    <2> QED BY <1>1, <1>3, <2>1 DEF TreeOpened
  <1> QED BY <1>2, <1>3

\* A row that can be selected is one of the disk that was scanned, and what lies
\* there is what can be read there, whether or not it could be when it was listed.
LEMMA ChosenRow ==
    ASSUME TablesRight, DialogInv, NEW di \in DOMAIN dialog.disks,
           NEW pi \in DOMAIN dialog.disks[di].parts,
           NEW d, d = scanned[dialog.disks[di].drive]
    PROVE  /\ dialog.disks[di].drive \in Drive /\ d \in Disk
           /\ \E q \in On[d].parts :
                 /\ q.index = dialog.disks[di].parts[pi].index
                 /\ q.start = dialog.disks[di].parts[pi].start
                 /\ q.fs = DetectFs(On[d], dialog.disks[di].parts[pi].start, FALSE)
  <1>1. PICK entry, p : entry = dialog.disks[di] /\ p = entry.parts[pi]
    OBVIOUS
  <1>2. ShowsScanned(entry) /\ ~entry.error
    BY <1>1 DEF DialogInv, DialogShows
  <1>3. PICK bad, sector, table :
           /\ entry.drive \in Drive /\ d \in Disk
           /\ sector = On[d].sector /\ table = Table(On[d], sector) /\ table # NoTable
           /\ entry.parts = Rows(On[d], sector, table, bad)
    BY <1>1, <1>2 DEF ShowsScanned
  <1>4. Lists(Rows(On[d], sector, table, {}), On[d].parts, FALSE)
    BY <1>3 DEF TablesRight
  <1>5. pi \in DOMAIN table.parts
    BY <1>1, <1>3 DEF Rows
  <1>6. PICK x, place : x = Rows(On[d], sector, table, {})[pi] /\ place = table.parts[pi]
    OBVIOUS
  <1>7. x \in ToSet(Rows(On[d], sector, table, {}))
    BY <1>5, <1>6 DEF ToSet, Rows
  <1>8. PICK q \in On[d].parts : Shows(x, q, FALSE)
    BY <1>4, <1>7 DEF Lists
  <1>9. x.index = place.index /\ x.start = StartBytes(place, sector) /\ x.fs = DetectFs(On[d], x.start, FALSE)
    <2>1. {read \in {"fs", "label"} : <<pi, read>> \in {}} = {} /\ ("fs" \in {}) = FALSE
      OBVIOUS
    <2>2. x = Row(On[d], sector, place, {})
      BY <1>5, <1>6, <2>1 DEF Rows
    <2> QED BY <2>1, <2>2 DEF Row
  <1>10. p.index = place.index /\ p.start = StartBytes(place, sector)
    <2>1. p = Row(On[d], sector, place, {read \in {"fs", "label"} : <<pi, read>> \in bad})
      BY <1>1, <1>3, <1>5, <1>6 DEF Rows
    <2> QED BY <2>1 DEF Row
  <1>11. q.index = x.index /\ q.start = x.start /\ q.fs = x.fs
    BY <1>8 DEF Shows
  <1> QED BY <1>1, <1>3, <1>9, <1>10, <1>11

\* The row that is selected is one of the disk that was scanned: if that disk is
\* still in the drive, it is the partition of the row that opens.
LEMMA SelectedOpens ==
    ASSUME TablesRight, DialogInv, OpensWhatWasChosen, OpenSelected
    PROVE  OpensWhatWasChosen'
  <1> DEFINE di == dialog.sel[1]
             pi == dialog.sel[2]
  <1>1. CASE UNCHANGED <<fs, chosen>>
    BY <1>1 DEF OpensWhatWasChosen
  <1>2. CASE ~UNCHANGED <<fs, chosen>>
    <2>1. PICK entry : entry = dialog.disks[di]
      OBVIOUS
    <2>2. PICK p : p = entry.parts[pi]
      OBVIOUS
    <2>3. /\ di \in DOMAIN dialog.disks /\ pi \in DOMAIN entry.parts
          /\ OpenAt(drives[entry.drive], p.start, <<entry.drive, scanned[entry.drive], p.index>>)
      BY <1>2, <2>1, <2>2 DEF OpenSelected, RowChosen, TreeKept
    <2>4. PICK disk, row : disk = drives[entry.drive] /\ row = <<entry.drive, scanned[entry.drive], p.index>>
      OBVIOUS
    <2>5. /\ disk # Gone /\ Opened(On[disk], p.start) \notin {Failed, Panicked}
          /\ fs'.disk = disk /\ fs'.volume = Opened(On[disk], p.start) /\ chosen' = row
      BY <1>2, <2>3, <2>4, OpenAtOpens
    <2>6. PICK d : d = scanned[entry.drive]
      OBVIOUS
    <2>7. PICK q \in On[d].parts : /\ d \in Disk /\ q.index = p.index /\ q.start = p.start
                                   /\ q.fs = DetectFs(On[d], p.start, FALSE)
      BY <2>1, <2>2, <2>3, <2>6, ChosenRow
    <2>8. p.start \in Int /\ On[d].len \in Int
      BY <2>7, DiskBrowserAssumption
    <2>9. ASSUME fs'.disk = chosen'[2]
          PROVE  \E r \in On[fs'.disk].parts :
                    r.index = chosen'[3] /\ r.start = fs'.volume.start /\ r.fs = "ext2/3/4"
      <3>1. disk = d /\ chosen'[3] = p.index
        BY <2>4, <2>5, <2>6, <2>9
      <3>2. DetectFs(On[d], p.start, FALSE) = "ext2/3/4" /\ fs'.volume.start = p.start
        <4>1. PICK x, u : x = On[d] /\ u = p.start
          OBVIOUS
        <4>2. x.len \in Int /\ u \in Int /\ Opened(x, u) \notin {Failed, Panicked}
          BY <2>5, <2>8, <3>1, <4>1
        <4>3. DetectFs(x, u, FALSE) = "ext2/3/4" /\ Opened(x, u).start = u
          BY <4>2, OpenedIsExt
        <4> QED BY <2>5, <3>1, <4>1, <4>3
      <3> QED BY <2>5, <2>7, <3>1, <3>2
    <2> QED BY <2>9 DEF OpensWhatWasChosen
  <1> QED BY <1>1, <1>2

\* Nothing else opens an image in the name of a row.
LEMMA NextOpens == TablesRight /\ DialogInv /\ OpensWhatWasChosen /\ [GuiNext]_guiVars => OpensWhatWasChosen'
  <1> SUFFICES ASSUME TablesRight, DialogInv, OpensWhatWasChosen, [GuiNext]_guiVars
               PROVE  OpensWhatWasChosen'
    OBVIOUS
  <1>1. UNCHANGED <<fs, chosen>> => OpensWhatWasChosen'
    BY DEF OpensWhatWasChosen
  <1>2. CASE OpenSelected
    BY <1>2, SelectedOpens
  <1>3. CASE OpenFile
    <2>1. PICK f \in File : OpenAt(f, 0, Nowhere)
      BY <1>3 DEF OpenFile
    <2>2. UNCHANGED <<fs, chosen>> \/ chosen' = Nowhere
      BY <2>1, OpenAtOpens
    <2> QED BY <1>1, <2>2 DEF OpensWhatWasChosen
  <1>4. CASE OpenDisk
    <2>1. UNCHANGED <<fs, chosen>> \/ chosen' = Nowhere
      BY <1>4 DEF OpenDisk, TreeKept
    <2> QED BY <1>1, <2>1 DEF OpensWhatWasChosen
  <1>5. CASE Select \/ CloseDialog \/ Go \/ Unfold \/ Frame \/ Replug \/ UNCHANGED guiVars
    <2>1. UNCHANGED <<fs, chosen>>
      BY <1>5 DEF Select, CloseDialog, Go, Unfold, Frame, Replug, TreeKept, NavigateTo, Arrow, Draw, screen, guiVars
    <2> QED BY <1>1, <2>1
  <1> QED BY <1>2, <1>3, <1>4, <1>5 DEF GuiNext

\* After any scans, choices, failures and exchanges of drives, the open image that
\* was chosen by a row is the partition of that row, unless the disk is another one.
THEOREM ChosenIsOpened == TablesRight => (GuiSpec => []OpensWhatWasChosen)
  <1> SUFFICES ASSUME TablesRight PROVE GuiSpec => []OpensWhatWasChosen
    OBVIOUS
  <1>1. GuiInit => OpensWhatWasChosen
    BY DEF GuiInit, OpensWhatWasChosen
  <1>2. DialogInv /\ OpensWhatWasChosen /\ [GuiNext]_guiVars => (DialogInv /\ OpensWhatWasChosen)'
    BY NextDialog, NextOpens
  <1> QED BY <1>1, <1>2, InitDialog, PTL DEF GuiSpec

-----------------------------------------------------------------------------
(* What is open has the groups it needs                                    *)

\* What is open was found on a disk, at a place where it may be.
OpenedSomewhere ==
    \/ fs = NoImage
    \/ /\ fs.disk \in Disk
       /\ \E start \in Starts :
             fs.volume = Opened(On[fs.disk], start) /\ fs.volume \notin {Failed, Panicked}

\* What is opened by a row, or from a file, is.
LEMMA NextSomewhere ==
    TablesRight /\ DialogInv /\ OpenedSomewhere /\ [GuiNext]_guiVars => OpenedSomewhere'
  <1> SUFFICES ASSUME TablesRight, DialogInv, OpenedSomewhere, [GuiNext]_guiVars
               PROVE  OpenedSomewhere'
    OBVIOUS
  <1>1. UNCHANGED fs => OpenedSomewhere'
    BY DEF OpenedSomewhere
  <1>2. ASSUME NEW disk, disk \in Disk \cup {Gone}, NEW start \in Starts, NEW row, OpenAt(disk, start, row)
        PROVE  OpenedSomewhere'
    BY <1>1, <1>2, OpenAtOpens DEF OpenedSomewhere
  <1>3. CASE OpenSelected
    <2>1. CASE UNCHANGED fs
      BY <1>1, <2>1
    <2>2. CASE ~UNCHANGED fs
      <3>1. PICK di, pi, entry, p : /\ di = dialog.sel[1] /\ pi = dialog.sel[2]
                                    /\ entry = dialog.disks[di] /\ p = entry.parts[pi]
        OBVIOUS
      <3>2. /\ di \in DOMAIN dialog.disks /\ pi \in DOMAIN entry.parts
            /\ OpenAt(drives[entry.drive], p.start, <<entry.drive, scanned[entry.drive], p.index>>)
        BY <1>3, <2>2, <3>1 DEF OpenSelected, RowChosen, TreeKept
      <3>3. PICK d : d = scanned[entry.drive]
        OBVIOUS
      <3>4. /\ entry.drive \in Drive /\ d \in Disk
            /\ \E q \in On[d].parts : q.index = p.index /\ q.start = p.start
                                     /\ q.fs = DetectFs(On[d], p.start, FALSE)
        BY <3>1, <3>2, <3>3, ChosenRow
      <3>5. p.start \in Starts
        BY <3>4 DEF Starts
      <3>6. drives[entry.drive] \in Disk \cup {Gone}
        BY <3>4 DEF DialogInv, DrivesHold
      <3> QED BY <1>2, <3>2, <3>5, <3>6
    <2> QED BY <2>1, <2>2
  <1>4. CASE OpenFile
    <2>1. PICK f \in File : OpenAt(f, 0, Nowhere)
      BY <1>4 DEF OpenFile
    <2>2. f \in Disk /\ 0 \in Starts
      BY DiskBrowserAssumption DEF Starts
    <2> QED BY <1>2, <2>1, <2>2
  <1>5. CASE OpenDisk
    <2>1. UNCHANGED fs \/ fs' = NoImage
      BY <1>5 DEF OpenDisk, TreeKept
    <2> QED BY <1>1, <2>1 DEF OpenedSomewhere
  <1>6. CASE Select \/ CloseDialog \/ Go \/ Unfold \/ Frame \/ Replug \/ UNCHANGED guiVars
    <2>1. UNCHANGED fs
      BY <1>6 DEF Select, CloseDialog, Go, Unfold, Frame, Replug, TreeKept, NavigateTo, Arrow, Draw, guiVars
    <2> QED BY <1>1, <2>1
  <1> QED BY <1>3, <1>4, <1>5, <1>6 DEF GuiNext

\* A product grows with its factors.
LEMMA Grows ==
    ASSUME NEW a \in Nat, NEW b \in Nat, NEW c \in Nat, a <= b
    PROVE  a * c <= b * c /\ a * c \in Nat /\ b * c \in Nat
  <1>1. (b - a) \in Nat /\ b = a + (b - a)
    OBVIOUS
  <1>2. (b - a) * c \in Nat /\ a * c \in Nat /\ b * c \in Nat
    BY <1>1
  <1>3. b * c = a * c + (b - a) * c
    BY <1>1
  <1> QED BY <1>2, <1>3

\* Division with remainder.
LEMMA Divided ==
    ASSUME NEW a \in Nat, NEW b \in Nat \ {0}
    PROVE  \E q \in Nat, r \in 0 .. b - 1 : a \div b = q /\ a % b = r /\ a = b * q + r
  <1>1. a % b \in 0 .. b - 1 /\ a \div b \in Int
    OBVIOUS
  <1>2. a % b = a - b * (a \div b)
    OBVIOUS
  <1>3. PICK q \in Int, r \in 0 .. b - 1 : a \div b = q /\ a % b = r /\ r = a - b * q
    BY <1>1, <1>2
  <1>4. r = a - b * q /\ b * q \in Int
    BY <1>3
  <1>5. q >= 0
    <2>1. ASSUME q <= -1 PROVE FALSE
      <3>1. b * q <= b * (-1)
        BY <2>1
      <3> QED BY <1>3, <1>4, <3>1
    <2> QED BY <2>1
  <1>6. a = b * q + r
    BY <1>4
  <1> QED BY <1>3, <1>5, <1>6

\* One block more is at most one group more, and never one less.
LEMMA OneGroupMore ==
    ASSUME NEW n \in Nat, NEW b \in Nat \ {0}, NEW first \in {0, 1}, first <= n
    PROVE  /\ DivCeil(n - first, b) \in Nat /\ DivCeil(n, b) \in Nat
           /\ DivCeil(n - first, b) <= DivCeil(n, b) /\ DivCeil(n, b) <= DivCeil(n - first, b) + 1
  <1>1. PICK a \in Nat : a = n - first + b - 1
    OBVIOUS
  <1>2. PICK q \in Nat, r \in 0 .. b - 1 : a \div b = q /\ a = b * q + r
    BY Divided
  <1>3. DivCeil(n - first, b) = q
    BY <1>1, <1>2 DEF DivCeil
  <1>4. n + b - 1 = b * q + r + first
    BY <1>1, <1>2
  <1>5. CASE r + first < b
    <2>1. PICK s \in 0 .. b - 1 : s = r + first
      BY <1>5
    <2>2. (b * q + s) \div b = q
      OBVIOUS
    <2>3. DivCeil(n, b) = q
      BY <1>4, <2>1, <2>2 DEF DivCeil
    <2> QED BY <1>3, <2>3
  <1>6. CASE ~(r + first < b)
    <2>1. r + first = b
      BY <1>6
    <2>2. b * (q + 1) = b * q + b /\ (b * (q + 1) + 0) \div b = q + 1
      OBVIOUS
    <2>3. DivCeil(n, b) = q + 1
      BY <1>4, <2>1, <2>2 DEF DivCeil
    <2> QED BY <1>3, <2>3
  <1> QED BY <1>5, <1>6

\* What a volume has is what its superblock says, if that is true.
LEMMA OpenedIsSound ==
    ASSUME VolumesRight, NEW d \in Disk, NEW start \in Starts,
           NEW v, v = Opened(On[d], start), v \notin {Failed, Panicked}
    PROVE  /\ DetectFs(On[d], v.start, FALSE) = "ext2/3/4"
           /\ v.sb.inodes <= Len(v.tables) * v.sb.ipg
           /\ Len(v.tables) <= Len(v.sb.tables) + 1
           /\ \A g \in DOMAIN v.sb.tables : v.tables[g] = v.sb.tables[g]
  <1>1. PICK disk, sb : disk = On[d] /\ sb = Parse(On[d], start)
    OBVIOUS
  <1>2. disk.len \in Int /\ start \in Int
    BY <1>1, DiskBrowserAssumption DEF Starts
  <1>3. DetectFs(disk, start, FALSE) = "ext2/3/4" /\ v.start = start
    BY <1>1, <1>2, OpenedIsExt
  <1>4. /\ sb.bpg # 0 /\ v.sb = sb
        /\ v.tables = [g \in 1 .. GroupsCount(sb) |-> InodeTable(disk, start, sb, g - 1)]
    BY <1>1 DEF Opened
  <1>5. /\ {sb.blocks, sb.bpg, sb.inodes, sb.ipg} \subseteq Nat
        /\ sb.tables \in Seq(ToSet(sb.tables)) /\ sb.inodes <= Len(sb.tables) * sb.ipg
        /\ \E first \in {0, 1} :
              first <= sb.blocks /\ Len(sb.tables) = DivCeil(sb.blocks - first, sb.bpg)
        /\ \A g \in DOMAIN sb.tables : InodeTable(disk, start, sb, g - 1) = sb.tables[g]
    BY <1>1 DEF VolumesRight
  <1>6. PICK said \in Nat, n \in Nat :
           said = Len(sb.tables) /\ n = GroupsCount(sb) /\ said <= n /\ n <= said + 1
    <2>1. PICK first \in {0, 1} :
             first <= sb.blocks /\ Len(sb.tables) = DivCeil(sb.blocks - first, sb.bpg)
      BY <1>5
    <2>2. PICK m \in Nat, b \in Nat \ {0} : m = sb.blocks /\ b = sb.bpg
      BY <1>4, <1>5
    <2>3. /\ DivCeil(m - first, b) \in Nat /\ DivCeil(m, b) \in Nat
          /\ DivCeil(m - first, b) <= DivCeil(m, b) /\ DivCeil(m, b) <= DivCeil(m - first, b) + 1
      BY <2>1, <2>2, OneGroupMore
    <2> QED BY <2>1, <2>2, <2>3 DEF GroupsCount
  <1>7. Len(v.tables) = n /\ DOMAIN v.tables = 1 .. n
    BY <1>4, <1>6
  <1>8. said * sb.ipg <= n * sb.ipg /\ said * sb.ipg \in Nat /\ n * sb.ipg \in Nat
    BY <1>5, <1>6, Grows
  <1>9. sb.inodes <= n * sb.ipg
    BY <1>5, <1>6, <1>8
  <1>10. ASSUME NEW g \in DOMAIN sb.tables PROVE v.tables[g] = sb.tables[g]
    <2>1. g \in 1 .. n
      BY <1>5, <1>6
    <2> QED BY <1>4, <1>5, <1>6, <2>1
  <1> QED BY <1>1, <1>3, <1>4, <1>6, <1>7, <1>9, <1>10

\* Whatever is opened after whatever else, it has a group for each of its inodes,
\* with the descriptor the disk has for it.
THEOREM OpenedHasItsGroups == TablesRight /\ VolumesRight => (GuiSpec => []VolumeSound)
  <1> SUFFICES ASSUME TablesRight, VolumesRight PROVE GuiSpec => []VolumeSound
    OBVIOUS
  <1>1. GuiInit => OpenedSomewhere
    BY DEF GuiInit, OpenedSomewhere
  <1>2. DialogInv /\ OpenedSomewhere /\ [GuiNext]_guiVars => (DialogInv /\ OpenedSomewhere)'
    BY NextDialog, NextSomewhere
  <1>3. OpenedSomewhere => VolumeSound
    <2> SUFFICES ASSUME OpenedSomewhere, fs # NoImage PROVE VolumeSound
      BY DEF VolumeSound
    <2>1. PICK d, start, v :
             /\ d \in Disk /\ start \in Starts
             /\ d = fs.disk /\ v = fs.volume /\ v = Opened(On[d], start) /\ v \notin {Failed, Panicked}
      BY DEF OpenedSomewhere
    <2>2. /\ DetectFs(On[d], v.start, FALSE) = "ext2/3/4"
          /\ v.sb.inodes <= Len(v.tables) * v.sb.ipg
          /\ Len(v.tables) <= Len(v.sb.tables) + 1
          /\ \A g \in DOMAIN v.sb.tables : v.tables[g] = v.sb.tables[g]
      BY <2>1, OpenedIsSound
    <2> QED BY <2>1, <2>2 DEF VolumeSound
  <1> QED BY <1>1, <1>2, <1>3, InitDialog, PTL DEF GuiSpec

-----------------------------------------------------------------------------
(* What the command line promises                                          *)

\* Until the end there is no result; a file is written by two commands only.
Silent ==
    /\ at \in {"arguments", "command", "write", "over"}
    /\ at # "over" => exit = 0 /\ printed = "nothing" /\ file = "nothing"
    /\ at = "write" => Command \in {"cat", "dump"}
    /\ failing \in BOOLEAN
    /\ ExitTruthful

\* Nothing is printed at first.
LEMMA InitSilent == CliInit => Silent
  BY DEF CliInit, Silent, ExitTruthful

\* No command prints or writes before it knows that it will end well, except
\* those of which ExitTruthful says so.
LEMMA NextSilent == Silent /\ [CliNext]_cliVars => Silent'
  <1> SUFFICES ASSUME Silent, [CliNext]_cliVars PROVE Silent'
    OBVIOUS
  <1> USE DEF Silent, ExitTruthful, Command, Word, Copying, MayBeFlawed, Panics
  <1>1. CASE UNCHANGED cliVars
    BY <1>1 DEF cliVars, Gaps, KindOf, PathOr
  <1>2. CASE Argument
    BY <1>2 DEF Argument, Ends
  <1>3. CASE TooFew \/ Devices \/ Parts
    BY <1>3 DEF TooFew, Devices, Parts, PrintsTables, Parsed, Usage, Fails, Prints, Ends
  <1>4. CASE OpenFs
    BY <1>4 DEF OpenFs, Parsed, Fails, Ends
  <1>5. CASE NoSuchCommand \/ TooFewToCopy \/ Info \/ Ls
    BY <1>5 DEF NoSuchCommand, TooFewToCopy, Info, Ls, Gaps, KindOf, PathOr, Running, Usage, Fails, NothingYet, Prints, Ends
  <1>6. CASE Stat \/ ReadWhole
    BY <1>6 DEF Stat, ReadWhole, Running, Fails, Prints, Ends
  <1>7. CASE CatWrites \/ DumpWrites
    BY <1>7 DEF CatWrites, DumpWrites, Writing, Prints, Ends
  <1>8. CASE CopiesOut
    <2>1. /\ at = "command" /\ UNCHANGED <<words, failing>> /\ at' = "over"
          /\ Command \in {"extract", "copy"}
      BY <1>8 DEF CopiesOut, Running, Prints, Ends
    <2>2. printed = "nothing" /\ file = "nothing"
      BY <2>1
    <2>3. \/ exit' = 0 /\ printed' = "all" /\ (file' = "all" \/ losses')
          \/ exit' = 101 /\ failing
          \/ exit' = 1 /\ printed' = printed /\ (file' = "nothing" \/ failing)
      BY <1>8 DEF CopiesOut, Prints, Ends
    <2> QED BY <2>1, <2>2, <2>3
  <1> QED BY <1>1, <1>2, <1>3, <1>4, <1>5, <1>6, <1>7, <1>8 DEF CliNext

\* Whatever the arguments and whatever fails, the exit code tells what was printed
\* and written.
THEOREM ExitIsTruthful == CliSpec => []ExitTruthful
  <1>1. Silent => ExitTruthful
    BY DEF Silent
  <1> QED BY <1>1, InitSilent, NextSilent, PTL DEF CliSpec

-----------------------------------------------------------------------------
(* The offset                                                              *)

\* The places before "next" that ask for an offset.
Seen == {k \in Asking : k < next}
AllNumbers == \A k \in Asking : AskedBy(k) \in DOMAIN NumberOf

\* While the arguments are read, the offset is one that was asked for, or none was.
Reading ==
    /\ argv \in Seq(STRING) /\ next \in Nat \ {0}
    /\ at = "arguments" => volume = Unopened
    /\ at = "arguments" /\ AllNumbers =>
        /\ next <= Len(argv) => \A j \in 1 .. next - 1 : argv[j] # "--"
        /\ offset \in IF Seen = {} THEN {0} ELSE {NumberOf[AskedBy(k)] : k \in Seen}

\* At first nothing has been read.
LEMMA InitReading == CliInit => Reading /\ OffsetObeyed
  <1> SUFFICES ASSUME CliInit PROVE Reading /\ OffsetObeyed
    OBVIOUS
  <1>1. argv \in Seq(STRING)
    BY CommandLineAssumption DEF CliInit
  <1>2. Seen = {}
    BY <1>1 DEF CliInit, Seen, Asking
  <1> QED BY <1>1, <1>2 DEF CliInit, Reading, OffsetObeyed

\* What the arguments ask for does not depend on how far they were read.
LEMMA SameAsking ==
    ASSUME UNCHANGED argv
    PROVE  /\ Asking' = Asking /\ AllNumbers' = AllNumbers
           /\ \A k : AskedBy(k)' = AskedBy(k)
  BY DEF Asking, AllNumbers, AskedBy, BeforeDashes

\* Before the first "--" every argument that asks for an offset counts, and
\* the number it is given is no option.
LEMMA NextArgument ==
    ASSUME Reading, AllNumbers, at = "arguments", next <= Len(argv)
    PROVE  /\ next \in Asking <=> argv[next] \in DOMAIN Assigned \cup {"--offset"}
           /\ \A k \in Asking : k \in 1 .. Len(argv) /\ argv[k] \in Option
           /\ argv[next] = "--offset" =>
                /\ next < Len(argv) /\ AskedBy(next) = argv[next + 1]
                /\ argv[next + 1] \in DOMAIN NumberOf /\ argv[next + 1] \notin Option
           /\ argv[next] = "--" => \A k \in Asking : k < next
  <1>1. argv \in Seq(STRING) /\ next \in 1 .. Len(argv) /\ Len(argv) \in Nat /\ DOMAIN argv = 1 .. Len(argv)
    BY DEF Reading
  <1>2. \A j \in 1 .. next - 1 : argv[j] # "--"
    BY DEF Reading
  <1>3. argv[next] # "--" => BeforeDashes(next)
    BY <1>1, <1>2 DEF BeforeDashes
  <1>4. "--" \notin DOMAIN Assigned \cup {"--offset"}
    BY CommandLineAssumption
  <1>5. next \in Asking <=> argv[next] \in DOMAIN Assigned \cup {"--offset"}
    BY <1>1, <1>3, <1>4 DEF Asking
  <1>6. \A k \in Asking : k \in 1 .. Len(argv) /\ argv[k] \in Option
    BY <1>1, CommandLineAssumption DEF Asking
  <1>7. ASSUME argv[next] = "--offset"
        PROVE  /\ next < Len(argv) /\ AskedBy(next) = argv[next + 1]
               /\ argv[next + 1] \in DOMAIN NumberOf /\ argv[next + 1] \notin Option
    <2>1. AskedBy(next) \in DOMAIN NumberOf
      BY <1>5, <1>7 DEF AllNumbers
    <2>2. AskedBy(next) # "" /\ AskedBy(next) \notin Option
      BY <2>1, CommandLineAssumption
    <2>3. next < Len(argv) /\ AskedBy(next) = argv[next + 1]
      BY <1>7, <2>2 DEF AskedBy
    <2> QED BY <2>1, <2>2, <2>3
  <1>8. ASSUME argv[next] = "--", NEW k \in Asking PROVE k < next
    <2>1. k \in 1 .. Len(argv) /\ \A j \in 1 .. k : argv[j] # "--"
      BY <1>6 DEF Asking, BeforeDashes
    <2>2. ~(next \in 1 .. k)
      BY <1>8, <2>1
    <2> QED BY <1>1, <2>1, <2>2
  <1> QED BY <1>5, <1>6, <1>7, <1>8

\* Each argument is read for what it is.
LEMMA ArgumentReads ==
    ASSUME Reading, Argument
    PROVE  Reading'
  <1>1. /\ at = "arguments" /\ next <= Len(argv) /\ UNCHANGED <<argv, volume>>
        /\ argv \in Seq(STRING) /\ Len(argv) \in Nat /\ next \in 1 .. Len(argv)
    BY DEF Argument, Reading
  <1>2. /\ Asking' = Asking /\ AllNumbers' = AllNumbers
        /\ \A k : AskedBy(k)' = AskedBy(k)
    BY <1>1, SameAsking
  <1>3. next' \in Nat \ {0}
    BY <1>1 DEF Argument
  <1>4. ASSUME at' = "arguments", AllNumbers
        PROVE  /\ next' <= Len(argv) => \A j \in 1 .. next' - 1 : argv[j] # "--"
               /\ offset' \in IF Seen' = {} THEN {0} ELSE {NumberOf[AskedBy(k)] : k \in Seen'}
    <2>1. /\ next \in Asking <=> argv[next] \in DOMAIN Assigned \cup {"--offset"}
          /\ \A k \in Asking : k \in 1 .. Len(argv) /\ argv[k] \in Option
          /\ argv[next] = "--offset" =>
               /\ next < Len(argv) /\ AskedBy(next) = argv[next + 1]
               /\ argv[next + 1] \in DOMAIN NumberOf /\ argv[next + 1] \notin Option
          /\ argv[next] = "--" => \A k \in Asking : k < next
      BY <1>1, <1>4, NextArgument
    <2>2. /\ \A j \in 1 .. next - 1 : argv[j] # "--"
          /\ offset \in IF Seen = {} THEN {0} ELSE {NumberOf[AskedBy(k)] : k \in Seen}
      BY <1>1, <1>4 DEF Reading
    <2>3. Seen' = {k \in Asking : k < next'}
      BY <1>2 DEF Seen
    <2>4. CASE argv[next] = "--offset"
      <3>1. offset' = NumberOf[AskedBy(next)] /\ next' = next + 2
        BY <1>1, <2>1, <2>4, CommandLineAssumption DEF Argument, Number
      <3>2. next \in Asking /\ next + 1 \notin Asking
        BY <2>1, <2>4
      <3>3. next \in Seen'
        BY <1>1, <2>3, <3>1, <3>2
      <3>4. argv[next + 1] # "--"
        BY <2>1, <2>4, CommandLineAssumption
      <3>5. \A j \in 1 .. next' - 1 : argv[j] # "--"
        BY <1>1, <2>2, <2>4, <3>1, <3>4
      <3> QED BY <3>1, <3>3, <3>5
    <2>5. CASE argv[next] \in DOMAIN Assigned
      <3>1. offset' = NumberOf[AskedBy(next)] /\ next' = next + 1 /\ next \in Asking
        <4>1. AskedBy(next) = Assigned[argv[next]]
          BY <2>5, CommandLineAssumption DEF AskedBy
        <4>2. AskedBy(next) \in DOMAIN NumberOf
          BY <1>4, <2>1, <2>5 DEF AllNumbers
        <4> QED BY <2>1, <2>5, <4>1, <4>2, CommandLineAssumption DEF Argument, Number
      <3>2. next \in Seen'
        BY <1>1, <2>3, <3>1
      <3>3. argv[next] # "--"
        BY <2>5, CommandLineAssumption
      <3>4. \A j \in 1 .. next' - 1 : argv[j] # "--"
        BY <1>1, <2>2, <3>1, <3>3
      <3> QED BY <3>1, <3>2, <3>4
    <2>6. CASE argv[next] = "--"
      <3>1. offset' = offset /\ next' = Len(argv) + 1
        BY <2>6, CommandLineAssumption DEF Argument
      <3>2. Seen' = Seen
        BY <1>1, <2>1, <2>3, <2>6, <3>1 DEF Seen
      <3> QED BY <1>1, <2>2, <3>1, <3>2
    <2>7. CASE argv[next] \notin Option
      <3>1. offset' = offset /\ next' = next + 1
        BY <2>7, CommandLineAssumption DEF Argument
      <3>2. next \notin Asking
        BY <2>1, <2>7
      <3>3. Seen' = Seen
        BY <1>1, <2>1, <2>3, <3>1, <3>2 DEF Seen
      <3>4. argv[next] # "--"
        BY <2>7, CommandLineAssumption
      <3>5. \A j \in 1 .. next' - 1 : argv[j] # "--"
        BY <1>1, <2>2, <3>1, <3>4
      <3> QED BY <2>2, <3>1, <3>3, <3>5
    <2>8. argv[next] \notin Option \/ argv[next] \in DOMAIN Assigned \cup {"--offset", "--"}
      BY <1>4 DEF Argument, Ends
    <2> QED BY <2>4, <2>5, <2>6, <2>7, <2>8
  <1>5. at' = "arguments" => volume' = Unopened
    BY <1>1 DEF Reading
  <1>6. {NumberOf[AskedBy(k)] : k \in Seen}' = {NumberOf[AskedBy(k)] : k \in Seen'}
    BY <1>2
  <1> QED BY <1>1, <1>2, <1>3, <1>4, <1>5, <1>6 DEF Reading

\* No step after that changes the offset, and the file system is opened there.
LEMMA NextReading == Reading /\ OffsetObeyed /\ [CliNext]_cliVars => (Reading /\ OffsetObeyed)'
  <1> SUFFICES ASSUME Reading, OffsetObeyed, [CliNext]_cliVars PROVE (Reading /\ OffsetObeyed)'
    OBVIOUS
  <1>1. UNCHANGED argv
    BY DEF CliNext, cliVars, Argument, TooFew, Devices, Parts, OpenFs, NoSuchCommand, TooFewToCopy, Info,
           Ls, Stat, ReadWhole, CatWrites, DumpWrites, CopiesOut, Parsed, Running, Writing
  <1>2. /\ Asking' = Asking /\ AllNumbers' = AllNumbers
        /\ \A k : AskedBy(k)' = AskedBy(k)
    BY <1>1, SameAsking
  <1>3. {NumberOf[AskedBy(k)] : k \in Asking}' = {NumberOf[AskedBy(k)] : k \in Asking}
    BY <1>2
  <1>4. volume' = volume => OffsetObeyed'
    BY <1>2, <1>3 DEF OffsetObeyed, AllNumbers
  <1>5. CASE Argument
    BY <1>4, <1>5, ArgumentReads DEF Argument
  <1>6. CASE OpenFs
    <2>1. at = "arguments" /\ next > Len(argv) /\ UNCHANGED <<next, offset>>
      BY <1>6 DEF OpenFs, Parsed
    <2>2. at' # "arguments"
      BY <1>6 DEF OpenFs, Fails, Ends
    <2>3. volume' = volume \/ volume'.start = offset
      BY <1>6 DEF OpenFs, Opened, Fails, AtOffset
    <2>4. Seen = Asking
      <3>1. argv \in Seq(STRING) /\ DOMAIN argv = 1 .. Len(argv) /\ Len(argv) \in Nat /\ next \in Nat
        BY DEF Reading
      <3> QED BY <2>1, <3>1 DEF Seen, Asking
    <2>5. AllNumbers => offset \in IF Asking = {} THEN {0} ELSE {NumberOf[AskedBy(k)] : k \in Asking}
      BY <2>1, <2>4 DEF Reading
    <2>6. OffsetObeyed'
      BY <1>2, <1>3, <1>4, <2>3, <2>5 DEF OffsetObeyed, AllNumbers
    <2> QED BY <1>1, <2>1, <2>2, <2>6 DEF Reading
  <1>7. CASE UNCHANGED cliVars
    <2>1. UNCHANGED <<at, next, offset, volume>>
      BY <1>7 DEF cliVars
    <2>2. Seen' = Seen
      BY <1>2, <2>1 DEF Seen
    <2>3. {NumberOf[AskedBy(k)] : k \in Seen}' = {NumberOf[AskedBy(k)] : k \in Seen}
      BY <1>2, <2>2
    <2> QED BY <1>1, <1>2, <1>4, <2>1, <2>2, <2>3 DEF Reading
  <1>8. CASE \/ TooFew \/ Devices \/ Parts
             \/ NoSuchCommand \/ TooFewToCopy \/ Info \/ Ls \/ Stat
             \/ ReadWhole \/ CatWrites \/ DumpWrites \/ CopiesOut
    <2>1. at' # "arguments" /\ UNCHANGED <<next, volume>>
      BY <1>8 DEF TooFew, Devices, Parts, PrintsTables, Panics, NoSuchCommand, TooFewToCopy, Info, Usage, Fails, Prints, Ends, NothingYet,
           Ls, Stat, ReadWhole, CatWrites, DumpWrites, CopiesOut, Parsed, Running, Writing
    <2> QED BY <1>1, <1>4, <2>1 DEF Reading
  <1> QED BY <1>5, <1>6, <1>7, <1>8 DEF CliNext

\* Wherever the arguments give an offset, the file system is opened at one that was
\* given, and at the beginning if none was.
THEOREM OffsetIsObeyed == CliSpec => []OffsetObeyed
  <1> QED BY InitReading, NextReading, PTL DEF CliSpec

-----------------------------------------------------------------------------
(* Test images: what is where in an image, whatever its shape and the      *)
(* calls that fill it.                                                     *)

\* What a set of numbers has least.
LEMMA MinIs ==
    ASSUME NEW S \in SUBSET Nat, S # {}
    PROVE  Min(S) \in S
  <1> DEFINE Less == {pair \in Nat \X Nat : pair[1] < pair[2]}
  <1>1. IsWellFoundedOn(Less, Nat)
    BY NatLessThanWellFounded DEF OpToRel
  <1>2. PICK n \in S : \A m \in S : ~(<<m, n>> \in Less)
    BY <1>1, WFMin
  <1>3. n \in Nat /\ S \subseteq Nat
    OBVIOUS
  <1>4. \A m \in S : ~(m < n)
    BY <1>2, <1>3
  <1>5. \A m \in S : n <= m
    BY <1>3, <1>4
  <1> HIDE DEF Less
  <1> QED BY <1>5 DEF Min

\* A number below a multiple has its quotient below the factor.
LEMMA QuotientBelow ==
    ASSUME NEW b \in Nat \ {0}, NEW q \in Nat, NEW g \in Nat, NEW r \in Nat,
           b * q + r < b * g
    PROVE  q < g
  <1>1. ASSUME g <= q PROVE FALSE
    <2>1. b * g <= b * q
      BY <1>1
    <2>2. b * g \in Int /\ b * q \in Int
      OBVIOUS
    <2> QED BY <2>1, <2>2
  <1> QED BY <1>1

\* What fits: the quotient, rounded up.
LEMMA RoundedUp ==
    ASSUME NEW a \in Nat \ {0}, NEW b \in Nat \ {0}
    PROVE  /\ DivCeil(a, b) \in Nat \ {0}
           /\ (a - 1) \div b = DivCeil(a, b) - 1
           /\ a <= b * DivCeil(a, b)
  <1>1. PICK q \in Nat, r \in 0 .. b - 1 : (a - 1) \div b = q /\ a - 1 = b * q + r
    BY Divided
  <1>2. a + b - 1 = b * (q + 1) + r /\ b * (q + 1) = b * q + b /\ b * q \in Nat
    BY <1>1
  <1>3. (b * (q + 1) + r) \div b = q + 1
    OBVIOUS
  <1>4. DivCeil(a, b) = q + 1
    BY <1>2, <1>3 DEF DivCeil
  <1>5. a <= b * (q + 1)
    BY <1>1, <1>2
  <1> QED BY <1>1, <1>4, <1>5

\* The blocks that are not given away.
System(shape) == UNION {Reserved(shape, g) : g \in 0 .. GroupsOf(shape) - 1}

\* The numbers of a layout.
LEMMA LayoutIs ==
    ASSUME NEW shape, LaidOut(shape)
    PROVE  /\ {shape.bs, shape.total, shape.bpg, shape.ipg, shape.isize, shape.desc, shape.gdt} \subseteq Nat \ {0}
           /\ {GroupsOf(shape), GdtBlocksOf(shape), TableBlocksOf(shape)} \subseteq Nat \ {0}
           /\ shape.total <= shape.bpg * GroupsOf(shape)
           /\ \A g \in 0 .. GroupsOf(shape) - 1 :
                 /\ Base(shape, g) \in Nat /\ shape.gdt + 1 <= Base(shape, g)
                 /\ Base(shape, g) + 1 + TableBlocksOf(shape) < shape.total
                 /\ Base(shape, g) + 1 + TableBlocksOf(shape) < (g + 1) * shape.bpg
  <1>1. {shape.bs, shape.total, shape.bpg, shape.ipg, shape.isize, shape.desc, shape.gdt} \subseteq Nat \ {0}
    BY DEF LaidOut
  <1>2. GroupsOf(shape) \in Nat \ {0} /\ shape.total <= shape.bpg * GroupsOf(shape)
    BY <1>1, RoundedUp DEF GroupsOf
  <1>3. GdtBlocksOf(shape) \in Nat \ {0} /\ TableBlocksOf(shape) \in Nat \ {0}
    <2>1. \A a, b \in Nat \ {0} : a * b \in Nat \ {0}
      <3> SUFFICES ASSUME NEW a \in Nat \ {0}, NEW b \in Nat \ {0} PROVE a * b \in Nat \ {0}
        OBVIOUS
      <3>1. 1 * b <= a * b /\ a * b \in Nat
        BY Grows
      <3> QED BY <3>1
    <2>2. GroupsOf(shape) * shape.desc \in Nat \ {0} /\ shape.ipg * shape.isize \in Nat \ {0}
      BY <1>1, <1>2, <2>1
    <2> QED BY <1>1, <2>2, RoundedUp DEF GdtBlocksOf, TableBlocksOf
  <1>4. \A g \in 0 .. GroupsOf(shape) - 1 :
           /\ Base(shape, g) + 1 + TableBlocksOf(shape) < shape.total
           /\ Base(shape, g) + 1 + TableBlocksOf(shape) < (g + 1) * shape.bpg
    BY DEF LaidOut
  <1>5. Base(shape, 0) = shape.gdt + GdtBlocksOf(shape)
    BY DEF Base
  <1>6. Base(shape, 0) + 1 + TableBlocksOf(shape) < shape.bpg
    <2>1. 0 \in 0 .. GroupsOf(shape) - 1 /\ (0 + 1) * shape.bpg = shape.bpg
      BY <1>1, <1>2
    <2> QED BY <1>4, <2>1
  <1>7. ASSUME NEW g \in 0 .. GroupsOf(shape) - 1
        PROVE  Base(shape, g) \in Nat /\ shape.gdt + 1 <= Base(shape, g)
    <2>1. CASE g = 0
      BY <1>1, <1>3, <1>5, <2>1
    <2>2. CASE g # 0
      <3>1. Base(shape, g) = g * shape.bpg
        BY <2>2 DEF Base
      <3>2. 1 * shape.bpg <= g * shape.bpg /\ g * shape.bpg \in Nat
        <4>1. 1 \in Nat /\ g \in Nat /\ shape.bpg \in Nat /\ 1 <= g
          BY <1>1, <2>2
        <4> QED BY <4>1, Grows
      <3>3. shape.gdt + 1 <= shape.bpg
        BY <1>1, <1>3, <1>5, <1>6
      <3> QED BY <1>1, <3>1, <3>2, <3>3
    <2> QED BY <2>1, <2>2
  <1> QED BY <1>1, <1>2, <1>3, <1>4, <1>7

\* Groups lie apart.
LEMMA Apart ==
    ASSUME NEW shape, LaidOut(shape),
           NEW g \in 0 .. GroupsOf(shape) - 1, NEW h \in 0 .. GroupsOf(shape) - 1, g < h
    PROVE  Base(shape, g) + 1 + TableBlocksOf(shape) < Base(shape, h)
  <1>1. /\ shape.bpg \in Nat /\ GroupsOf(shape) \in Nat
        /\ Base(shape, g) \in Nat /\ TableBlocksOf(shape) \in Nat
        /\ Base(shape, g) + 1 + TableBlocksOf(shape) < (g + 1) * shape.bpg
    BY LayoutIs
  <1>2. Base(shape, h) = h * shape.bpg
    BY <1>1 DEF Base
  <1>3. (g + 1) * shape.bpg <= h * shape.bpg /\ (g + 1) * shape.bpg \in Nat /\ h * shape.bpg \in Nat
    <2>1. g + 1 \in Nat /\ h \in Nat /\ g + 1 <= h
      BY <1>1
    <2> QED BY <1>1, <2>1, Grows
  <1> QED BY <1>1, <1>2, <1>3

\* What a group has reserved.
LEMMA ReservedIs ==
    ASSUME NEW shape, LaidOut(shape), NEW b
    PROVE  /\ b \in System(shape) <=>
                 \/ b \in 0 .. Base(shape, 0) - 1
                 \/ \E g \in 0 .. GroupsOf(shape) - 1 :
                       b \in Base(shape, g) .. Base(shape, g) + 1 + TableBlocksOf(shape)
           /\ b \in System(shape) => b \in 0 .. shape.total - 1
           /\ b \in 0 .. shape.gdt => b \in System(shape)
  <1>1. /\ GroupsOf(shape) \in Nat \ {0} /\ TableBlocksOf(shape) \in Nat /\ shape.total \in Nat
        /\ shape.gdt \in Nat
        /\ \A g \in 0 .. GroupsOf(shape) - 1 :
              /\ Base(shape, g) \in Nat /\ shape.gdt + 1 <= Base(shape, g)
              /\ Base(shape, g) + 1 + TableBlocksOf(shape) < shape.total
    BY LayoutIs
  <1>2. 0 \in 0 .. GroupsOf(shape) - 1
    BY <1>1
  <1>3. b \in System(shape) <=>
           \/ b \in 0 .. Base(shape, 0) - 1
           \/ \E g \in 0 .. GroupsOf(shape) - 1 :
                 b \in Base(shape, g) .. Base(shape, g) + 1 + TableBlocksOf(shape)
    <2>1. b \in System(shape) <=> \E g \in 0 .. GroupsOf(shape) - 1 : b \in Reserved(shape, g)
      BY DEF System
    <2>2. \A g : b \in Reserved(shape, g) <=>
             \/ g = 0 /\ b \in 0 .. Base(shape, 0) - 1
             \/ b \in Base(shape, g) .. Base(shape, g) + 1 + TableBlocksOf(shape)
      BY DEF Reserved
    <2> QED BY <1>2, <2>1, <2>2
  <1>4. b \in System(shape) => b \in 0 .. shape.total - 1
    BY <1>1, <1>2, <1>3
  <1>5. b \in 0 .. shape.gdt => b \in System(shape)
    BY <1>1, <1>2, <1>3
  <1> QED BY <1>3, <1>4, <1>5

\* Group 0 begins first.
LEMMA BaseFirst ==
    ASSUME NEW shape, LaidOut(shape), NEW g \in 0 .. GroupsOf(shape) - 1
    PROVE  Base(shape, 0) \in Nat /\ Base(shape, g) \in Nat /\ Base(shape, 0) <= Base(shape, g)
  <1>1. /\ GroupsOf(shape) \in Nat \ {0} /\ TableBlocksOf(shape) \in Nat
        /\ \A h \in 0 .. GroupsOf(shape) - 1 : Base(shape, h) \in Nat
    BY LayoutIs
  <1>2. 0 \in 0 .. GroupsOf(shape) - 1
    BY <1>1
  <1>3. CASE g = 0
    BY <1>1, <1>3
  <1>4. CASE g # 0
    <2>1. Base(shape, 0) + 1 + TableBlocksOf(shape) < Base(shape, g)
      BY <1>1, <1>2, <1>4, Apart
    <2> QED BY <1>1, <1>2, <2>1
  <1> QED BY <1>3, <1>4

\* The units before the bitmaps of group 0: the superblock and the descriptors.
FrontUnits(shape) == 0 .. Base(shape, 0) * BlockUnitsOf(shape) - 1

\* The units of other blocks lie behind those, and of different blocks apart.
LEMMA UnitsIs ==
    ASSUME NEW shape, LaidOut(shape)
    PROVE  /\ BlockUnitsOf(shape) \in Nat \ {0} /\ shape.bs = 512 * BlockUnitsOf(shape)
           /\ Base(shape, 0) * BlockUnitsOf(shape) \in Nat /\ SuperAt \in FrontUnits(shape)
           /\ \A b \in Nat : Base(shape, 0) <= b =>
                 /\ Base(shape, 0) * BlockUnitsOf(shape) <= b * BlockUnitsOf(shape)
                 /\ b * BlockUnitsOf(shape) \notin FrontUnits(shape)
           /\ \A b, c \in Nat : b * BlockUnitsOf(shape) = c * BlockUnitsOf(shape) => b = c
  <1> DEFINE first == Base(shape, 0)
             u == BlockUnitsOf(shape)
  <1>1. shape.bs \in Nat \ {0} /\ shape.gdt \in Nat /\ first \in Nat /\ shape.gdt <= first
    <2>1. 0 \in 0 .. GroupsOf(shape) - 1
      BY LayoutIs
    <2> QED BY <2>1, LayoutIs
  <1>2. shape.bs % 512 = 0 /\ shape.gdt * u > SuperAt
    BY DEF LaidOut, UnitBytes
  <1>3. shape.bs = 512 * u /\ u \in Nat \ {0}
    BY <1>1, <1>2 DEF BlockUnitsOf, UnitBytes
  <1> HIDE DEF u, first
  <1>4. \A b \in Nat : first <= b => first * u <= b * u
    BY <1>1, <1>3, Grows
  <1>5. SuperAt \in 0 .. first * u - 1 /\ first * u \in Nat
    <2>1. shape.gdt * u <= first * u /\ shape.gdt * u \in Nat /\ first * u \in Nat
      BY <1>1, <1>3, Grows
    <2> QED BY <1>2, <2>1 DEF SuperAt
  <1>6. ASSUME NEW b \in Nat, NEW c \in Nat, b < c
        PROVE  b * u < c * u
    <2>1. (b + 1) * u <= c * u /\ c * u \in Nat
      BY <1>3, <1>6, Grows
    <2>2. (b + 1) * u = b * u + u /\ b * u \in Nat
      BY <1>3
    <2> QED BY <1>3, <2>1, <2>2
  <1>7. \A b, c \in Nat : b * u \in Nat
    BY <1>3
  <1>8. \A b, c \in Nat : b * u = c * u => b = c
    BY <1>6, <1>7
  <1>9. \A b \in Nat : first <= b => b * u \notin 0 .. first * u - 1
    BY <1>4, <1>5, <1>7
  <1> QED BY <1>3, <1>4, <1>5, <1>8, <1>9 DEF u, first, FrontUnits

\* A function with one more value, or another one.
LEMMA PutIs ==
    ASSUME NEW u, NEW x, NEW f
    PROVE  Put(u, x, f) = [v \in {u} \cup DOMAIN f |-> IF v = u THEN x ELSE f[v]]
  <1>1. DOMAIN [v \in {u} |-> x] = {u} /\ [v \in {u} |-> x][u] = x
    OBVIOUS
  <1> QED BY <1>1 DEF Put, Upon

\* What a build function is given: by the k-th call for n, and all of it.
Gives(F, n, k) == n \in DOMAIN F /\ k \in DOMAIN F[n]
Contents(F) == {F[g[1]][g[2]] : g \in UNION {{<<n, k>> : k \in DOMAIN F[n]} : n \in DOMAIN F}}

\* No two calls give the same.
GivesOnce(F) == \A n, m, k, l : Gives(F, n, k) /\ Gives(F, m, l) /\ F[n][k] = F[m][l] => n = m /\ k = l

\* All of it is what one call or another has given.
LEMMA ContentsAre ==
    ASSUME NEW F, NEW b
    PROVE  b \in Contents(F) <=> \E n, k : Gives(F, n, k) /\ b = F[n][k]
  <1> DEFINE P == UNION {{<<n, k>> : k \in DOMAIN F[n]} : n \in DOMAIN F}
  <1>1. \A g : g \in P <=> \E n, k : Gives(F, n, k) /\ g = <<n, k>>
    BY DEF Gives
  <1> HIDE DEF P
  <1>2. b \in {F[g[1]][g[2]] : g \in P} <=> \E n, k : Gives(F, n, k) /\ b = F[n][k]
    <2>1. ASSUME NEW n, NEW k, Gives(F, n, k), b = F[n][k]
          PROVE  b \in {F[g[1]][g[2]] : g \in P}
      <3>1. <<n, k>> \in P /\ <<n, k>>[1] = n /\ <<n, k>>[2] = k
        BY <1>1, <2>1
      <3> QED BY <2>1, <3>1
    <2>2. ASSUME NEW g \in P, b = F[g[1]][g[2]]
          PROVE  \E n, k : Gives(F, n, k) /\ b = F[n][k]
      BY <1>1, <2>2
    <2> QED BY <2>1, <2>2
  <1> QED BY <1>2 DEF P, Contents

\* Every call for one thing or another gives one of the blocks T.
Within(F, T) == \A n \in DOMAIN F : F[n] \in Seq(T)

\* With one block more.
More(F, name, b) == Put(name, Append(IF name \in DOMAIN F THEN F[name] ELSE <<>>, b), F)

\* A block that was not given yet is given once.
LEMMA NewOnce ==
    ASSUME NEW T, NEW F, Within(F, T), GivesOnce(F),
           NEW name, NEW b \in T, b \notin Contents(F)
    PROVE  /\ Within(More(F, name, b), T)
           /\ GivesOnce(More(F, name, b)) /\ Contents(More(F, name, b)) = Contents(F) \cup {b}
  <1> DEFINE Had == IF name \in DOMAIN F THEN F[name] ELSE <<>>
             New == More(F, name, b)
  <1>a. PICK held, G : held = Had /\ G = New /\ G = Put(name, Append(held, b), F)
    BY DEF More
  <1> HIDE DEF Had, New
  <1>b. held = IF name \in DOMAIN F THEN F[name] ELSE <<>>
    BY <1>a DEF Had
  <1>c. \A n \in DOMAIN F : F[n] \in Seq(T)
    BY DEF Within
  <1>1. held \in Seq(T) /\ Len(held) \in Nat
    <2>1. held \in Seq(T)
      BY <1>b, <1>c
    <2> QED BY <2>1
  <1> DEFINE more == Append(held, b)
  <1>2. /\ more \in Seq(T) /\ DOMAIN more = 1 .. Len(held) + 1 /\ DOMAIN held = 1 .. Len(held)
        /\ more[Len(held) + 1] = b
        /\ \A k \in 1 .. Len(held) : more[k] = held[k]
    BY <1>1
  <1> HIDE DEF more
  <1>3. /\ DOMAIN G = {name} \cup DOMAIN F
        /\ G[name] = more
        /\ \A n \in DOMAIN F : n # name => G[n] = F[n]
    <2>1. G = Put(name, more, F)
      BY <1>a DEF more
    <2> QED BY <2>1, PutIs
  <1>4. Within(G, T)
    BY <1>2, <1>3, <1>c DEF Within
  <1>5. name \notin DOMAIN F => Len(held) = 0
    BY <1>b
  <1>6. \A k : Gives(F, name, k) <=> k \in 1 .. Len(held)
    <2>1. CASE name \in DOMAIN F
      BY <1>2, <1>b, <2>1 DEF Gives
    <2>2. CASE name \notin DOMAIN F
      BY <1>1, <1>5, <2>2 DEF Gives
    <2> QED BY <2>1, <2>2
  <1>7. \A k : Gives(G, name, k) <=> k \in 1 .. Len(held) + 1
    BY <1>2, <1>3 DEF Gives
  <1>8. \A n, k : n # name => (Gives(G, n, k) <=> Gives(F, n, k))
    BY <1>3 DEF Gives
  <1>9. \A k : k \in 1 .. Len(held) + 1 <=> k \in 1 .. Len(held) \/ k = Len(held) + 1
    BY <1>1
  <1>10. \A n, k : Gives(G, n, k) <=> Gives(F, n, k) \/ (n = name /\ k = Len(held) + 1)
    BY <1>6, <1>7, <1>8, <1>9
  <1>11. ASSUME NEW n, NEW k, Gives(F, n, k)
         PROVE  G[n][k] = F[n][k]
    <2>1. CASE n = name
      <3>1. k \in 1 .. Len(held) /\ name \in DOMAIN F /\ F[name] = held
        BY <1>6, <1>11, <1>b, <2>1 DEF Gives
      <3> QED BY <1>2, <1>3, <2>1, <3>1
    <2>2. CASE n # name
      BY <1>3, <1>11, <2>2 DEF Gives
    <2> QED BY <2>1, <2>2
  <1>12. G[name][Len(held) + 1] = b /\ ~Gives(F, name, Len(held) + 1)
    <2>1. G[name] = more
      BY <1>3
    <2>2. Len(held) + 1 \notin 1 .. Len(held)
      BY <1>1
    <2> QED BY <1>2, <1>6, <2>1, <2>2
  <1>13. \A n, k : Gives(F, n, k) => F[n][k] # b
    BY ContentsAre
  <1> DEFINE len == Len(held) + 1
  <1> HIDE DEF len
  <1>14. /\ \A n, k : Gives(G, n, k) <=> Gives(F, n, k) \/ (n = name /\ k = len)
         /\ \A n, k : Gives(F, n, k) => G[n][k] = F[n][k]
         /\ G[name][len] = b
    BY <1>10, <1>11, <1>12 DEF len
  <1>15. GivesOnce(G)
    <2> SUFFICES ASSUME NEW n, NEW m, NEW k, NEW l, Gives(G, n, k), Gives(G, m, l), G[n][k] = G[m][l]
                 PROVE  n = m /\ k = l
      BY DEF GivesOnce
    <2>1. CASE Gives(F, n, k) /\ Gives(F, m, l)
      BY <1>14, <2>1 DEF GivesOnce
    <2>2. CASE ~Gives(F, n, k)
      <3>1. n = name /\ k = len /\ G[m][l] = b
        BY <1>14, <2>2
      <3>2. ~Gives(F, m, l)
        BY <1>13, <1>14, <3>1
      <3> QED BY <1>14, <3>1, <3>2
    <2>3. CASE ~Gives(F, m, l)
      <3>1. m = name /\ l = len /\ G[n][k] = b
        BY <1>14, <2>3
      <3>2. ~Gives(F, n, k)
        BY <1>13, <1>14, <3>1
      <3> QED BY <1>14, <3>1, <3>2
    <2> QED BY <2>1, <2>2, <2>3
  <1>16. \A c : c \in Contents(G) <=> c \in Contents(F) \/ c = b
    <2> SUFFICES ASSUME NEW c PROVE c \in Contents(G) <=> c \in Contents(F) \/ c = b
      OBVIOUS
    <2>1. c \in Contents(G) <=> \E n, k : Gives(G, n, k) /\ c = G[n][k]
      BY ContentsAre
    <2>2. c \in Contents(F) <=> \E n, k : Gives(F, n, k) /\ c = F[n][k]
      BY ContentsAre
    <2>3. ASSUME NEW n, NEW k, Gives(G, n, k), c = G[n][k] PROVE c \in Contents(F) \/ c = b
      BY <1>14, <2>2, <2>3
    <2>4. ASSUME NEW n, NEW k, Gives(F, n, k), c = F[n][k] PROVE c \in Contents(G)
      <3>1. Gives(G, n, k) /\ c = G[n][k]
        BY <1>14, <2>4
      <3> QED BY <2>1, <3>1
    <2>5. c = b => c \in Contents(G)
      <3>1. Gives(G, name, len) /\ b = G[name][len]
        BY <1>14
      <3> QED BY <2>1, <3>1
    <2> QED BY <2>1, <2>2, <2>3, <2>4, <2>5
  <1>17. Contents(G) = Contents(F) \cup {b}
    BY <1>16
  <1> QED BY <1>4, <1>15, <1>17, <1>a DEF New

\* Each given once, there are as many of them as were given.
LEMMA AsMany ==
    ASSUME NEW F, GivesOnce(F), NEW n \in Nat, Contents(F) \subseteq 0 .. n
    PROVE  Cardinality(Contents(F)) =
               Cardinality(UNION {{<<m, k>> : k \in DOMAIN F[m]} : m \in DOMAIN F})
  <1> DEFINE P == UNION {{<<m, k>> : k \in DOMAIN F[m]} : m \in DOMAIN F}
             f == [g \in P |-> F[g[1]][g[2]]]
  <1>1. \A g : g \in P <=> \E m, k : Gives(F, m, k) /\ g = <<m, k>>
    BY DEF Gives
  <1>2. Contents(F) = {F[g[1]][g[2]] : g \in P}
    BY DEF Contents
  <1> HIDE DEF P
  <1>3. f \in [P -> Contents(F)]
    BY <1>2
  <1>4. ASSUME NEW g \in P, NEW h \in P, f[g] = f[h] PROVE g = h
    <2>1. PICK m, k : Gives(F, m, k) /\ g = <<m, k>>
      BY <1>1
    <2>2. PICK j, l : Gives(F, j, l) /\ h = <<j, l>>
      BY <1>1
    <2>3. F[m][k] = F[j][l]
      BY <1>4, <2>1, <2>2
    <2> QED BY <2>1, <2>2, <2>3 DEF GivesOnce
  <1>5. \A b \in Contents(F) : \E g \in P : f[g] = b
    BY <1>2
  <1>6. IsFiniteSet(Contents(F))
    <2>1. 0 \in Int /\ n \in Int
      OBVIOUS
    <2>2. IsFiniteSet(0 .. n)
      BY <2>1, FS_Interval
    <2> QED BY <2>2, FS_Subset
  <1> HIDE DEF f
  <1>7. f \in Injection(P, Contents(F)) /\ f \in Surjection(P, Contents(F))
    BY <1>3, <1>4, <1>5 DEF Injection, Surjection, IsInjective
  <1>8. Cardinality(P) = Cardinality(Contents(F))
    BY <1>6, <1>7, FS_Injection
  <1> QED BY <1>8 DEF P
-----------------------------------------------------------------------------
(* Test images: the blocks, the inode numbers and the bitmaps of the one   *)
(* that is being made.                                                     *)

\* A file is only there when its image was begun, and so are calls to make.
Progress ==
    /\ making \in 0 .. Len(Image)
    /\ making = 0 => todo = <<>>
    /\ \A j \in making + 1 .. Len(Image) : Image[j] \notin DOMAIN saved

\* The blocks in use are the reserved ones and those that were given away.
Given(shape) ==
    /\ groups = [k \in 1 .. GroupsOf(shape) |-> Laid(shape, k - 1)]
    /\ nextBlock \in Nat
    /\ Within(blocksOf, 0 .. shape.total - 1)
    /\ GivesOnce(blocksOf)
    /\ Contents(blocksOf) \cap System(shape) = {}
    /\ marked = System(shape) \cup Contents(blocksOf)

\* The calls to come begin with the root, or the numbers from 2 on are given away.
NumbersGiven(shape) ==
    \/ /\ nextInode = 1 /\ DOMAIN inoOf = {}
       /\ todo # <<>> /\ Head(todo).call = "inode"
    \/ /\ nextInode \in Nat /\ 3 <= nextInode
       /\ nextInode - 1 <= shape.ipg * GroupsOf(shape)
       /\ {inoOf[n] : n \in DOMAIN inoOf} = 2 .. nextInode - 1

\* Each inode has a name of its own.
OwnNames ==
    /\ todo \in Seq(ToSet(todo))
    /\ \A k \in DOMAIN todo : todo[k].call = "inode" => todo[k].name \notin DOMAIN inoOf
    /\ \A j, k \in DOMAIN todo :
          todo[j].call = "inode" /\ todo[k].call = "inode" /\ todo[j].name = todo[k].name => j = k

\* What the superblock says, the free blocks apart.
Said == {"is", "blocks", "bpg", "log", "wide", "desc"}

\* The superblock and the descriptors are there, and nothing else before the bitmaps.
Opening(shape, data) ==
    /\ SuperAt \in DOMAIN data /\ Said \cup {"free"} \subseteq DOMAIN data[SuperAt]
    /\ \A f \in Said : data[SuperAt][f] = shape.super[f]
    /\ \A u \in FrontUnits(shape) \ {SuperAt} :
          /\ u \in DOMAIN data <=> u \in DOMAIN Descriptors(shape)
          /\ u \in DOMAIN data => data[u] = Descriptors(shape)[u]

\* It is while the image is made, and in the end it and the bitmaps say what is in use.
Written(shape) ==
    IF Image[making] \in DOMAIN saved
    THEN /\ todo = <<>>
         /\ units[SuperAt].free = shape.total - Cardinality(marked)
         /\ \A k \in DOMAIN groups :
               /\ units[UnitOf(groups[k].bb)].bits = BlockBits(k - 1)
               /\ units[UnitOf(groups[k].ib)].bits = InodeBits(k - 1)
    ELSE Opening(shape, units)

\* The files of the images have what their images had at the end.
Kept ==
    \A i \in ToSet(Image) \cap DOMAIN saved :
        saved[i].len = Shape[i].total * BlockUnitsOf(Shape[i]) /\ Opening(Shape[i], saved[i].at)

BuilderInv ==
    /\ Progress /\ Kept
    /\ making > 0 => Given(Sh) /\ NumbersGiven(Sh) /\ OwnNames /\ Written(Sh)

\* What a build function calls.
Method ==
    \/ AllocBlock \/ AllocInode \/ SetExtents \/ SetExtentsIndexed \/ SetPointers
    \/ WriteIndirectBlock \/ WriteText \/ WriteDirBlock \/ WriteDxRoot

\* An image that is begun has a layout and calls.
LEMMA Begun ==
    ASSUME NEW j \in 1 .. Len(Image)
    PROVE  /\ LaidOut(Shape[Image[j]]) /\ Told(Shape[Image[j]])
           /\ Named(Calls[Image[j]])
           /\ \A k \in 1 .. Len(Image) : Image[k] = Image[j] => k = j
  <1>1. Image \in Seq(DOMAIN Shape)
    BY BuilderAssumption
  <1>2. DOMAIN Image = 1 .. Len(Image) /\ Image[j] \in DOMAIN Shape
    BY <1>1
  <1> QED BY <1>2, BuilderAssumption

\* A call takes the first of those to make.
LEMMA Taken ==
    ASSUME Method
    PROVE  /\ todo # <<>> /\ todo' = Tail(todo) /\ making' = making /\ saved' = saved
           /\ groups' = groups
           /\ Call.call # "inode" => nextInode' = nextInode /\ inoOf' = inoOf /\ ~AllocInode
           /\ Call.call # "block" => UNCHANGED <<nextBlock, blocksOf, marked>> /\ ~AllocBlock
  BY DEF Method, Calling, AllocBlock, AllocInode, SetExtents, SetExtentsIndexed, SetPointers,
         WriteIndirectBlock, WriteText, WriteDirBlock, WriteDxRoot

\* A call gives away no block but one that is free.
LEMMA GivenKept ==
    ASSUME NEW shape, LaidOut(shape), Sh = shape, Given(shape), Method
    PROVE  Given(shape)'
  <1>1. CASE AllocBlock
    <2> DEFINE T == 0 .. shape.total - 1
               b == Min(Free)
    <2>1. /\ marked' = marked \cup {b} /\ nextBlock' = b + 1 /\ groups' = groups
          /\ blocksOf' = More(blocksOf, Call.name, b)
          /\ Free # {}
      BY <1>1 DEF AllocBlock, More
    <2>2. nextBlock \in Nat /\ shape.total \in Nat
      BY LayoutIs DEF Given
    <2>3. Free \in SUBSET Nat
      BY <2>2 DEF Free
    <2>4. b \in Free
      BY <2>1, <2>3, MinIs
    <2>5. b \in T /\ b \in Nat /\ b \notin marked
      BY <2>2, <2>4 DEF Free
    <2>6. b \notin System(shape) /\ b \notin Contents(blocksOf)
      BY <2>5 DEF Given
    <2>7. /\ Within(blocksOf', T)
          /\ GivesOnce(blocksOf') /\ Contents(blocksOf') = Contents(blocksOf) \cup {b}
      <3>1. Within(blocksOf, T) /\ GivesOnce(blocksOf)
        BY DEF Given
      <3> HIDE DEF b, T
      <3> QED BY <2>1, <2>5, <2>6, <3>1, NewOnce
    <2> HIDE DEF b
    <2>8. Contents(blocksOf') \cap System(shape) = {}
      BY <2>6, <2>7 DEF Given
    <2>9. marked' = System(shape) \cup Contents(blocksOf')
      BY <2>1, <2>7 DEF Given
    <2> QED BY <2>1, <2>5, <2>7, <2>8, <2>9 DEF Given
  <1>2. CASE Call.call # "block"
    BY <1>2, Taken DEF Given
  <1>3. Call.call = "block" => AllocBlock
    BY DEF Method, Calling, AllocBlock, AllocInode, SetExtents, SetExtentsIndexed, SetPointers,
           WriteIndirectBlock, WriteText, WriteDirBlock, WriteDxRoot
  <1> QED BY <1>1, <1>2, <1>3

\* The names of the inodes to come stay new.
LEMMA NamesKept ==
    ASSUME OwnNames, Method
    PROVE  OwnNames'
  <1> DEFINE t == Tail(todo)
  <1>1. todo # <<>> /\ todo' = t /\ todo \in Seq(ToSet(todo)) /\ Call = todo[1]
    BY Taken DEF OwnNames, Call
  <1>2. /\ t \in Seq(ToSet(todo)) /\ Len(todo) \in Nat /\ Len(t) = Len(todo) - 1
        /\ DOMAIN t = 1 .. Len(t) /\ DOMAIN todo = 1 .. Len(todo)
        /\ \A k \in DOMAIN t : t[k] = todo[k + 1]
    BY <1>1
  <1> HIDE DEF t
  <1>3. \A k \in DOMAIN t : t[k] = todo[k + 1] /\ k + 1 \in DOMAIN todo /\ k \in Nat
    BY <1>2
  <1>4. t \in Seq(ToSet(t))
    <2>1. \A k \in DOMAIN t : t[k] \in ToSet(t)
      BY DEF ToSet
    <2> QED BY <1>2, <2>1
  <1>5. \A j, k \in DOMAIN t :
           t[j].call = "inode" /\ t[k].call = "inode" /\ t[j].name = t[k].name => j = k
    BY <1>3 DEF OwnNames
  <1>6. ASSUME NEW k \in DOMAIN t, t[k].call = "inode"
        PROVE  t[k].name \notin DOMAIN inoOf'
    <2>1. t[k].name \notin DOMAIN inoOf /\ k + 1 \in DOMAIN todo /\ t[k] = todo[k + 1]
      BY <1>3, <1>6 DEF OwnNames
    <2>2. CASE AllocInode
      <3>1. DOMAIN inoOf' = {Call.name} \cup DOMAIN inoOf /\ Call.call = "inode"
        BY <2>2, PutIs DEF AllocInode, Calling
      <3>2. 1 \in DOMAIN todo /\ k + 1 # 1
        BY <1>2, <1>3
      <3>3. todo[k + 1].name # todo[1].name
        BY <1>1, <1>6, <2>1, <3>1, <3>2 DEF OwnNames
      <3> QED BY <1>1, <2>1, <3>1, <3>3
    <2>3. CASE ~AllocInode
      <3>1. inoOf' = inoOf
        BY <2>3 DEF Method, AllocBlock, SetExtents, SetExtentsIndexed, SetPointers,
                    WriteIndirectBlock, WriteText, WriteDirBlock, WriteDxRoot
      <3> QED BY <2>1, <3>1
    <2> QED BY <2>2, <2>3
  <1> QED BY <1>1, <1>4, <1>5, <1>6 DEF OwnNames

\* Inode numbers are given one after the other.
LEMMA NumbersKept ==
    ASSUME NEW shape, LaidOut(shape), Sh = shape, Given(shape), NumbersGiven(shape), OwnNames, Method
    PROVE  NumbersGiven(shape)'
  <1>1. /\ shape.ipg \in Nat \ {0} /\ GroupsOf(shape) \in Nat \ {0}
        /\ shape.ipg * GroupsOf(shape) \in Nat
    BY LayoutIs
  <1>2. CASE AllocInode
    <2> DEFINE ino == IF nextInode = 1 THEN 2 ELSE nextInode
               had == {inoOf[n] : n \in DOMAIN inoOf}
    <2>1. /\ (ino - 1) \div shape.ipg + 1 \in DOMAIN groups
          /\ inoOf' = Put(Call.name, ino, inoOf) /\ nextInode' = ino + 1
          /\ Call.call = "inode" /\ todo # <<>>
      BY <1>2 DEF AllocInode, Calling
    <2>2. had = 2 .. ino - 1 /\ ino \in Nat /\ ino >= 2
      BY DEF NumbersGiven
    <2>3. ino <= shape.ipg * GroupsOf(shape)
      <3>1. (ino - 1) \div shape.ipg + 1 \in 1 .. GroupsOf(shape)
        BY <2>1 DEF Given
      <3>2. ino - 1 \in Nat
        BY <2>2
      <3> HIDE DEF ino
      <3>3. PICK q \in Nat, r \in 0 .. shape.ipg - 1 :
               (ino - 1) \div shape.ipg = q /\ ino - 1 = shape.ipg * q + r
        BY <1>1, <3>2, Divided
      <3>4. q + 1 <= GroupsOf(shape) /\ q + 1 \in Nat
        BY <1>1, <3>1, <3>3
      <3>5. (q + 1) * shape.ipg <= GroupsOf(shape) * shape.ipg
        BY <1>1, <3>4, Grows
      <3>6. (q + 1) * shape.ipg = shape.ipg * q + shape.ipg
            /\ GroupsOf(shape) * shape.ipg = shape.ipg * GroupsOf(shape)
            /\ shape.ipg * q \in Nat
        BY <1>1
      <3> QED BY <1>1, <2>2, <3>3, <3>5, <3>6
    <2>4. Call.name \notin DOMAIN inoOf
      <3>1. 1 \in DOMAIN todo /\ Call = todo[1]
        BY <2>1 DEF OwnNames, Call
      <3> QED BY <2>1, <3>1 DEF OwnNames
    <2> HIDE DEF ino
    <2>5. {inoOf'[n] : n \in DOMAIN inoOf'} = had \cup {ino}
      BY <2>1, <2>4, PutIs
    <2>6. had \cup {ino} = 2 .. ino
      BY <2>2
    <2> HIDE DEF had
    <2>7. {inoOf'[n] : n \in DOMAIN inoOf'} = 2 .. nextInode' - 1
      BY <2>1, <2>2, <2>5, <2>6
    <2> QED BY <2>1, <2>2, <2>3, <2>7 DEF NumbersGiven
  <1>3. CASE ~AllocInode
    <2>1. Call.call # "inode" /\ nextInode' = nextInode /\ inoOf' = inoOf
      BY <1>3 DEF Method, Calling, AllocBlock, SetExtents, SetExtentsIndexed, SetPointers,
                  WriteIndirectBlock, WriteText, WriteDirBlock, WriteDxRoot
    <2> QED BY <2>1 DEF NumbersGiven, Call
  <1> QED BY <1>2, <1>3

\* A block given away lies behind the bitmaps of group 0.
LEMMA HeldBehind ==
    ASSUME NEW shape, LaidOut(shape), Sh = shape, Given(shape), NEW k, Holds(k)
    PROVE  UnitOf(Held(k)) \notin FrontUnits(shape)
  <1>1. Gives(blocksOf, Call.name, k) /\ Held(k) = blocksOf[Call.name][k]
    BY DEF Holds, Held, Gives
  <1>2. Held(k) \in Contents(blocksOf)
    BY <1>1, ContentsAre
  <1>3. Held(k) \notin System(shape)
    BY <1>2 DEF Given
  <1>4. Held(k) \in 0 .. shape.total - 1
    <2>1. blocksOf[Call.name] \in Seq(0 .. shape.total - 1) /\ k \in DOMAIN blocksOf[Call.name]
      BY <1>1 DEF Given, Within, Gives
    <2>2. PICK s, T : s = blocksOf[Call.name] /\ T = 0 .. shape.total - 1
      OBVIOUS
    <2>3. s \in Seq(T) /\ k \in DOMAIN s /\ Held(k) = s[k]
      BY <1>1, <2>1, <2>2
    <2>4. s[k] \in T
      BY <2>3
    <2> QED BY <2>2, <2>3, <2>4
  <1>5. Base(shape, 0) \in Nat /\ shape.total \in Nat
    <2>1. 0 \in 0 .. GroupsOf(shape) - 1
      BY LayoutIs
    <2> QED BY <2>1, LayoutIs
  <1>6. Held(k) \notin 0 .. Base(shape, 0) - 1
    BY <1>3, ReservedIs
  <1>7. Held(k) \in Nat /\ Base(shape, 0) <= Held(k)
    BY <1>4, <1>5, <1>6
  <1>8. Held(k) * BlockUnitsOf(shape) \notin FrontUnits(shape)
    BY <1>7, UnitsIs
  <1> QED BY <1>8 DEF UnitOf

\* So does an inode that has a number.
LEMMA InodeBehind ==
    ASSUME NEW shape, LaidOut(shape), Sh = shape, Given(shape),
           NEW ino \in Nat \ {0}, (ino - 1) \div shape.ipg + 1 \in DOMAIN groups
    PROVE  InodeLoc(ino)[1] \notin FrontUnits(shape)
  <1>1. /\ shape.bs \in Nat /\ shape.gdt \in Nat /\ shape.ipg \in Nat \ {0} /\ shape.isize \in Nat
        /\ \A g \in 0 .. GroupsOf(shape) - 1 :
              Base(shape, g) \in Nat /\ shape.gdt + 1 <= Base(shape, g)
        /\ GroupsOf(shape) \in Nat
    BY LayoutIs
  <1> DEFINE U == BlockUnitsOf(shape)
             k == (ino - 1) \div shape.ipg + 1
             table == groups[k].table
             more == ((ino - 1) % shape.ipg) * shape.isize
             byte == table * shape.bs + more
  <1>2. table \in Nat /\ Base(shape, 0) <= table
    <2>1. k \in 1 .. GroupsOf(shape) /\ groups[k] = Laid(shape, k - 1)
      BY DEF Given
    <2> HIDE DEF k
    <2>2. k - 1 \in 0 .. GroupsOf(shape) - 1 /\ groups[k].table = Base(shape, k - 1) + 2
      BY <1>1, <2>1 DEF Laid
    <2>3. Base(shape, k - 1) \in Nat /\ Base(shape, 0) \in Nat /\ Base(shape, 0) <= Base(shape, k - 1)
      BY <2>2, BaseFirst
    <2> QED BY <1>1, <2>2, <2>3
  <1>3. more \in Nat
    <2>1. ino - 1 \in Nat
      OBVIOUS
    <2>2. (ino - 1) % shape.ipg \in Nat
      BY <1>1, <2>1
    <2> QED BY <1>1, <2>2
  <1>4. /\ U \in Nat \ {0} /\ shape.bs = 512 * U /\ Base(shape, 0) * U \in Nat
        /\ Base(shape, 0) * U <= table * U
    BY <1>2, UnitsIs
  <1>5. InodeLoc(ino)[1] = byte \div 512
    BY DEF InodeLoc, UnitBytes
  <1> HIDE DEF U, table, more
  <1>6. byte = 512 * (table * U) + more /\ byte \in Nat /\ table * U \in Nat
    <2>1. table * (512 * U) = 512 * (table * U) /\ table * U \in Nat
      BY <1>2, <1>4
    <2> QED BY <1>3, <1>4, <2>1
  <1> DEFINE first == table * U
  <1> HIDE DEF byte, first
  <1>7. byte = 512 * first + more /\ byte \in Nat /\ first \in Nat /\ Base(shape, 0) * U <= first
    BY <1>4, <1>6 DEF first
  <1>8. PICK q \in Nat, r \in 0 .. 511 : byte \div 512 = q /\ byte = 512 * q + r
    <2>1. PICK n \in Nat \ {0}, a \in Nat : n = 512 /\ a = byte
      BY <1>7
    <2>2. PICK q \in Nat, r \in 0 .. n - 1 : a \div n = q /\ a = n * q + r
      BY Divided
    <2> QED BY <2>1, <2>2
  <1>9. first <= q
    BY <1>3, <1>7, <1>8
  <1>10. q \notin 0 .. Base(shape, 0) * U - 1
    BY <1>4, <1>7, <1>8, <1>9
  <1> QED BY <1>5, <1>8, <1>10 DEF FrontUnits, U

\* The number of an inode that was made lies in a group.
LEMMA MadeBehind ==
    ASSUME NEW shape, LaidOut(shape), Sh = shape, Given(shape), NumbersGiven(shape), Made
    PROVE  InodeLoc(Ino)[1] \notin FrontUnits(shape)
  <1>1. shape.ipg \in Nat \ {0} /\ GroupsOf(shape) \in Nat \ {0} /\ shape.ipg * GroupsOf(shape) \in Nat
    BY LayoutIs
  <1>2. Ino \in {inoOf[n] : n \in DOMAIN inoOf} /\ DOMAIN inoOf # {}
    BY DEF Made, Ino
  <1>3. Ino \in Nat /\ 2 <= Ino /\ Ino <= shape.ipg * GroupsOf(shape)
    <2>1. /\ nextInode \in Nat /\ 3 <= nextInode
          /\ nextInode - 1 <= shape.ipg * GroupsOf(shape)
          /\ {inoOf[n] : n \in DOMAIN inoOf} = 2 .. nextInode - 1
      BY <1>2 DEF NumbersGiven
    <2>2. Ino \in 2 .. nextInode - 1
      BY <1>2, <2>1
    <2> QED BY <1>1, <2>1, <2>2
  <1>4. PICK q \in Nat, r \in 0 .. shape.ipg - 1 :
           (Ino - 1) \div shape.ipg = q /\ Ino - 1 = shape.ipg * q + r
    <2>1. Ino - 1 \in Nat
      BY <1>3
    <2> QED BY <1>1, <2>1, Divided
  <1>5. shape.ipg * q + r < shape.ipg * GroupsOf(shape)
    BY <1>1, <1>3, <1>4
  <1>6. q < GroupsOf(shape)
    <2>1. r \in Nat
      BY <1>1, <1>4
    <2> QED BY <1>1, <1>4, <1>5, <2>1, QuotientBelow
  <1>7. (Ino - 1) \div shape.ipg + 1 \in DOMAIN groups
    <2>1. q + 1 \in 1 .. GroupsOf(shape)
      BY <1>1, <1>6
    <2>2. DOMAIN groups = 1 .. GroupsOf(shape)
      BY DEF Given
    <2> QED BY <1>4, <2>1, <2>2
  <1> QED BY <1>3, <1>7, InodeBehind

\* Two functions, one over the other.
LEMMA UponIs ==
    ASSUME NEW g, NEW f
    PROVE  Upon(g, f) = [v \in DOMAIN g \cup DOMAIN f |-> IF v \in DOMAIN g THEN g[v] ELSE f[v]]
  BY DEF Upon

\* A unit behind the descriptors is written, or one after the other.
LEMMA PutKeeps ==
    ASSUME NEW shape, LaidOut(shape), NEW f, Opening(shape, f), NEW u, u \notin FrontUnits(shape), NEW x
    PROVE  Opening(shape, Put(u, x, f))
  <1>1. SuperAt \in FrontUnits(shape)
    BY UnitsIs
  <1>2. \A v \in FrontUnits(shape) :
           /\ v \in DOMAIN Put(u, x, f) <=> v \in DOMAIN f
           /\ v \in DOMAIN f => Put(u, x, f)[v] = f[v]
    BY PutIs
  <1> QED BY <1>1, <1>2 DEF Opening

\* So are several units.
LEMMA UponKeeps ==
    ASSUME NEW shape, LaidOut(shape), NEW f, Opening(shape, f), NEW g, DOMAIN g \cap FrontUnits(shape) = {}
    PROVE  Opening(shape, Upon(g, f))
  <1>1. SuperAt \in FrontUnits(shape)
    BY UnitsIs
  <1>2. \A v \in FrontUnits(shape) :
           /\ v \in DOMAIN Upon(g, f) <=> v \in DOMAIN f
           /\ v \in DOMAIN f => Upon(g, f)[v] = f[v]
    BY UponIs
  <1> QED BY <1>1, <1>2 DEF Opening

\* A call leaves superblock and descriptors alone.
LEMMA WrittenKept ==
    ASSUME NEW shape, LaidOut(shape), Sh = shape, Given(shape), NumbersGiven(shape), Written(shape), Method
    PROVE  Written(shape)'
  <1>1. /\ todo # <<>> /\ making' = making /\ saved' = saved
    BY Taken
  <1>2. Image[making] \notin DOMAIN saved /\ Opening(shape, units)
    BY <1>1 DEF Written
  <1>3. ASSUME NEW ino, InodeLoc(ino)[1] \notin FrontUnits(shape), NEW x, NEW more, DOMAIN more \cap FrontUnits(shape) = {},
               WriteInode(ino, x, more)
        PROVE  Opening(shape, units')
    <2>1. Opening(shape, Upon(more, units))
      BY <1>2, <1>3, UponKeeps
    <2>2. PICK u, y : u = InodeLoc(ino)[1] /\ y = [is |-> "inodes", slot |-> Put(InodeLoc(ino)[2], x, InodesIn(u))]
      OBVIOUS
    <2>3. units' = Put(u, y, Upon(more, units))
      BY <1>3, <2>2 DEF WriteInode
    <2> QED BY <1>3, <2>1, <2>2, <2>3, PutKeeps
  <1>4. ASSUME NEW u, u \notin FrontUnits(shape), NEW x, Write(u, x)
        PROVE  Opening(shape, units')
    BY <1>2, <1>4, PutKeeps DEF Write
  <1>5. DOMAIN Nothing \cap FrontUnits(shape) = {}
    BY DEF Nothing
  <1>6. Made => InodeLoc(Ino)[1] \notin FrontUnits(shape)
    BY MadeBehind
  <1>7. Opening(shape, units')
    <2>1. CASE AllocBlock
      <3> DEFINE b == Min(Free)
      <3>1. b \in Free
        <4>1. Free \in SUBSET Nat /\ Free # {}
          BY <2>1, LayoutIs DEF Free, Given, AllocBlock
        <4> QED BY <4>1, MinIs
      <3>2. /\ b \in 0 .. shape.total - 1 /\ b \notin System(shape)
            /\ Base(shape, 0) \in Nat /\ shape.total \in Nat
        <4>1. 0 \in 0 .. GroupsOf(shape) - 1
          BY LayoutIs
        <4> QED BY <3>1, <4>1, LayoutIs DEF Free, Given
      <3>3. b \in Nat /\ Base(shape, 0) <= b
        BY <3>2, ReservedIs
      <3>4. UnitOf(b) \notin FrontUnits(shape)
        <4>1. b * BlockUnitsOf(shape) \notin FrontUnits(shape)
          BY <3>3, UnitsIs
        <4> QED BY <4>1 DEF UnitOf
      <3>5. \/ units' = units
            \/ Write(UnitOf(b), [is |-> "data", file |-> Call.name, logical |-> Call.holds])
        BY <2>1 DEF AllocBlock
      <3> HIDE DEF b
      <3> QED BY <1>2, <1>4, <3>4, <3>5
    <2>2. CASE AllocInode
      <3> DEFINE ino == IF nextInode = 1 THEN 2 ELSE nextInode
                 x == [mode |-> Call.mode, map |-> Call.map, indexed |-> Call.indexed,
                       size |-> 0, blocks |-> 0, root |-> NoNode,
                       block |-> [k \in 1 .. 15 |-> 0], text |-> ""]
      <3>1. (ino - 1) \div shape.ipg + 1 \in DOMAIN groups /\ WriteInode(ino, x, Nothing)
        BY <2>2 DEF AllocInode
      <3>2. ino \in Nat \ {0}
        BY DEF NumbersGiven
      <3> HIDE DEF ino, x
      <3>3. InodeLoc(ino)[1] \notin FrontUnits(shape)
        BY <3>1, <3>2, InodeBehind
      <3> QED BY <1>3, <1>5, <3>1, <3>3
    <2>3. CASE SetExtents
      BY <1>3, <1>5, <1>6, <2>3 DEF SetExtents
    <2>4. CASE SetExtentsIndexed
      <3> DEFINE more == Put(UnitOf(Held(1)), [is |-> "node", node |-> Leaf], Nothing)
                 x == [Sized EXCEPT !.root = [magic |-> TRUE, depth |-> 1,
                                               entries |-> <<[first |-> 0, child |-> Held(1)]>>]]
      <3>1. Made /\ Holds(1) /\ WriteInode(Ino, x, more)
        BY <2>4 DEF SetExtentsIndexed
      <3>2. DOMAIN more \cap FrontUnits(shape) = {}
        <4>1. UnitOf(Held(1)) \notin FrontUnits(shape)
          BY <3>1, HeldBehind
        <4>2. DOMAIN more = {UnitOf(Held(1))} \cup DOMAIN Nothing
          BY PutIs
        <4> QED BY <1>5, <4>1, <4>2
      <3> HIDE DEF more, x
      <3> QED BY <1>3, <1>6, <3>1, <3>2
    <2>5. CASE SetPointers
      <3>1. Made /\ \E x : WriteInode(Ino, x, Nothing)
        BY <2>5 DEF SetPointers
      <3> QED BY <1>3, <1>5, <1>6, <3>1
    <2>6. CASE WriteText
      BY <1>3, <1>5, <1>6, <2>6 DEF WriteText
    <2>7. CASE WriteIndirectBlock \/ WriteDirBlock \/ WriteDxRoot
      <3>1. Holds(Call.into) /\ \E x : Write(UnitOf(Held(Call.into)), x)
        BY <2>7 DEF WriteIndirectBlock, WriteDirBlock, WriteDxRoot
      <3>2. UnitOf(Held(Call.into)) \notin FrontUnits(shape)
        BY <3>1, HeldBehind
      <3> QED BY <1>4, <3>1, <3>2
    <2> QED BY <2>1, <2>2, <2>3, <2>4, <2>5, <2>6, <2>7 DEF Method
  <1> QED BY <1>1, <1>2, <1>7 DEF Written

\* A new image: nothing given, everything to call.
LEMMA Begins ==
    ASSUME Progress, Begin, NEW shape, shape = Shape[Image[making + 1]]
    PROVE  /\ Progress' /\ making' > 0 /\ Sh' = shape
           /\ Given(shape)' /\ NumbersGiven(shape)' /\ OwnNames' /\ Written(shape)'
  <1>1. making \in Nat /\ Len(Image) \in Nat /\ making < Len(Image)
    <2>1. Image \in Seq(DOMAIN Shape)
      BY BuilderAssumption
    <2> QED BY <2>1 DEF Progress, Begin
  <1>2. making + 1 \in 1 .. Len(Image) /\ making' = making + 1 /\ saved' = saved
    BY <1>1 DEF Begin
  <1> DEFINE calls == Calls[Image[making + 1]]
  <1>3. /\ LaidOut(shape) /\ Told(shape) /\ Named(calls)
    BY <1>2, Begun
  <1>4. Image[making + 1] \notin DOMAIN saved
    BY <1>1, <1>2 DEF Progress
  <1>5. Progress'
    BY <1>1, <1>2 DEF Progress
  <1>6. Sh' = shape
    BY <1>2 DEF Sh
  <1>7. Given(shape)'
    <2>1. /\ groups' = [k \in 1 .. GroupsOf(shape) |-> Laid(shape, k - 1)]
          /\ nextBlock' = 0 /\ blocksOf' = <<>> /\ marked' = System(shape)
      BY DEF Begin, Nothing, System
    <2>2. \A n, k : ~Gives(<<>>, n, k)
      BY DEF Gives
    <2>3. Contents(<<>>) = {} /\ GivesOnce(<<>>) /\ Within(<<>>, 0 .. shape.total - 1)
      <3>1. \A b : b \notin Contents(<<>>)
        BY <2>2, ContentsAre
      <3> QED BY <2>2, <3>1 DEF GivesOnce, Within
    <2> QED BY <2>1, <2>3 DEF Given
  <1>8. todo' = calls /\ inoOf' = Nothing /\ nextInode' = 1
    BY DEF Begin
  <1>9. /\ calls \in Seq(ToSet(calls)) /\ 1 \in DOMAIN calls /\ calls[1].call = "inode"
        /\ \A j, k \in DOMAIN calls :
              calls[j].call = "inode" /\ calls[k].call = "inode" /\ calls[j].name = calls[k].name => j = k
    BY <1>3 DEF Named
  <1> HIDE DEF calls
  <1>10. calls # <<>> /\ Head(calls) = calls[1] /\ DOMAIN Nothing = {}
    BY <1>9 DEF Nothing
  <1>11. NumbersGiven(shape)' /\ OwnNames'
    BY <1>8, <1>9, <1>10 DEF NumbersGiven, OwnNames
  <1>12. Opening(shape, units')
    <2>1. units' = Put(SuperAt, shape.super, Descriptors(shape))
      BY DEF Begin
    <2>2. Said \cup {"free"} \subseteq DOMAIN shape.super
      BY <1>3 DEF Told, Said
    <2>3. /\ SuperAt \in DOMAIN units' /\ units'[SuperAt] = shape.super
          /\ \A u : u # SuperAt =>
                /\ u \in DOMAIN units' <=> u \in DOMAIN Descriptors(shape)
                /\ u \in DOMAIN units' => units'[u] = Descriptors(shape)[u]
      BY <2>1, PutIs
    <2> QED BY <2>2, <2>3 DEF Opening
  <1>13. Written(shape)'
    BY <1>2, <1>4, <1>12 DEF Written
  <1> QED BY <1>1, <1>2, <1>5, <1>6, <1>7, <1>11, <1>13

\* The bitmaps of a group lie behind the descriptors, and no two in one unit.
LEMMA BitmapsApart ==
    ASSUME NEW shape, LaidOut(shape), Sh = shape, Given(shape), NEW k \in DOMAIN groups
    PROVE  /\ k \in 1 .. GroupsOf(shape)
           /\ UnitOf(groups[k].bb) \notin FrontUnits(shape) /\ UnitOf(groups[k].ib) \notin FrontUnits(shape)
           /\ UnitOf(groups[k].bb) # UnitOf(groups[k].ib)
           /\ \A j \in DOMAIN groups :
                 {UnitOf(groups[k].bb), UnitOf(groups[k].ib)} \cap
                 {UnitOf(groups[j].bb), UnitOf(groups[j].ib)} # {} => j = k
  <1> DEFINE B(j) == Base(shape, j - 1)
             U == BlockUnitsOf(shape)
  <1>1. /\ GroupsOf(shape) \in Nat /\ shape.gdt \in Nat /\ TableBlocksOf(shape) \in Nat
        /\ \A g \in 0 .. GroupsOf(shape) - 1 : Base(shape, g) \in Nat /\ shape.gdt + 1 <= Base(shape, g)
    BY LayoutIs
  <1>2. DOMAIN groups = 1 .. GroupsOf(shape)
        /\ \A j \in DOMAIN groups : groups[j].bb = B(j) /\ groups[j].ib = B(j) + 1
    BY DEF Given, Laid
  <1>3. \A j \in DOMAIN groups : j \in Nat /\ j - 1 \in 0 .. GroupsOf(shape) - 1
    BY <1>1, <1>2
  <1>4. \A j \in DOMAIN groups : B(j) \in Nat /\ shape.gdt + 1 <= B(j)
    BY <1>1, <1>3
  <1>5. \A b \in Nat : UnitOf(b) = b * U
    BY DEF UnitOf
  <1>6. ASSUME NEW i \in DOMAIN groups, NEW j \in DOMAIN groups, i < j
        PROVE  B(i) + 1 < B(j)
    <2>1. i - 1 \in 0 .. GroupsOf(shape) - 1 /\ j - 1 \in 0 .. GroupsOf(shape) - 1 /\ i - 1 < j - 1
      BY <1>3, <1>6
    <2>2. Base(shape, i - 1) + 1 + TableBlocksOf(shape) < Base(shape, j - 1)
      BY <2>1, Apart
    <2>3. B(i) \in Nat /\ B(j) \in Nat
      BY <1>4
    <2> QED BY <1>1, <2>2, <2>3
  <1> HIDE DEF B, U
  <1>7. \A b \in Nat : Base(shape, 0) <= b => UnitOf(b) \notin FrontUnits(shape)
    BY <1>5, UnitsIs DEF U
  <1>8. \A b, c \in Nat : UnitOf(b) = UnitOf(c) => b = c
    BY <1>5, UnitsIs DEF U
  <1>9. UnitOf(groups[k].bb) \notin FrontUnits(shape) /\ UnitOf(groups[k].ib) \notin FrontUnits(shape)
    <2>1. B(k) \in Nat /\ B(k) + 1 \in Nat /\ Base(shape, 0) <= B(k) /\ Base(shape, 0) <= B(k) + 1
      BY <1>3, BaseFirst DEF B
    <2> QED BY <1>2, <1>7, <2>1
  <1>10. ASSUME NEW j \in DOMAIN groups,
                {UnitOf(B(k)), UnitOf(B(k) + 1)} \cap {UnitOf(B(j)), UnitOf(B(j) + 1)} # {}
         PROVE  j = k
    <2>1. B(k) \in Nat /\ B(k) + 1 \in Nat /\ B(j) \in Nat /\ B(j) + 1 \in Nat
      BY <1>4
    <2>2. {B(k), B(k) + 1} \cap {B(j), B(j) + 1} # {}
      BY <1>8, <1>10, <2>1
    <2> QED BY <1>3, <1>6, <2>1, <2>2
  <1>11. UnitOf(groups[k].bb) # UnitOf(groups[k].ib)
    BY <1>2, <1>4, <1>8
  <1> QED BY <1>2, <1>9, <1>10, <1>11

\* The end of an image: each bitmap gets what its group has in use.
LEMMA Saves ==
    ASSUME NEW shape, LaidOut(shape), Sh = shape, Given(shape), Written(shape), Save
    PROVE  Written(shape)'
  <1> DEFINE left == Sh.total - Cardinality(marked)
             placed == UNION {{UnitOf(x.bb), UnitOf(x.ib)} : x \in ToSet(groups)}
             super == [units[SuperAt] EXCEPT !.free = left]
             all == Upon(Bitmaps, units)
  <1>1. /\ todo = <<>> /\ todo' = todo /\ making' = making /\ marked' = marked /\ groups' = groups
        /\ nextInode' = nextInode
        /\ Image[making] \notin DOMAIN saved /\ units' = Put(SuperAt, super, all)
        /\ saved' = Put(Image[making], [len |-> UnitOf(Sh.total), sector |-> 1, at |-> units'], saved)
    BY DEF Save
  <1>2. Image[making] \in DOMAIN saved'
    BY <1>1, PutIs
  <1>3. units'[SuperAt].free = left
    <2>1. "free" \in DOMAIN units[SuperAt]
      BY <1>1 DEF Written, Opening
    <2>2. super.free = left
      BY <2>1
    <2> HIDE DEF super, all
    <2>3. units'[SuperAt] = super
      BY <1>1, PutIs
    <2> QED BY <2>2, <2>3
  <1> HIDE DEF super
  <1>4. ASSUME NEW k \in DOMAIN groups
        PROVE  /\ units'[UnitOf(groups[k].bb)].bits = BlockBits(k - 1)
               /\ units'[UnitOf(groups[k].ib)].bits = InodeBits(k - 1)
    <2> DEFINE bb == UnitOf(groups[k].bb)
               ib == UnitOf(groups[k].ib)
               Of(u) == CHOOSE j \in DOMAIN groups : u \in {UnitOf(groups[j].bb), UnitOf(groups[j].ib)}
               Bits(u) == IF u = UnitOf(groups[Of(u)].bb) THEN BlockBits(Of(u) - 1) ELSE InodeBits(Of(u) - 1)
    <2>1. bb # SuperAt /\ ib # SuperAt /\ bb # ib
      <3>1. SuperAt \in FrontUnits(shape)
        BY UnitsIs
      <3> QED BY <3>1, BitmapsApart
    <2>2. \A j \in DOMAIN groups : {bb, ib} \cap {UnitOf(groups[j].bb), UnitOf(groups[j].ib)} # {} => j = k
      BY BitmapsApart
    <2>3. Of(bb) = k /\ Of(ib) = k
      BY <2>2
    <2>4. Bitmaps = [u \in placed |-> [is |-> "bits", bits |-> Bits(u)]]
      BY DEF Bitmaps
    <2>5. bb \in placed /\ ib \in placed
      <3>1. groups[k] \in ToSet(groups)
        BY DEF ToSet
      <3> QED BY <3>1
    <2>6. Bits(bb) = BlockBits(k - 1) /\ Bits(ib) = InodeBits(k - 1)
      BY <2>1, <2>3
    <2> HIDE DEF bb, ib, Bits, placed, left
    <2>7. ASSUME NEW u \in placed, u # SuperAt
          PROVE  units'[u].bits = Bits(u)
      <3>1. DOMAIN Bitmaps = placed /\ Bitmaps[u].bits = Bits(u)
        BY <2>4
      <3>2. all[u] = Bitmaps[u] /\ u \in DOMAIN all
        BY <3>1, UponIs
      <3> HIDE DEF all
      <3>3. units'[u] = all[u]
        BY <1>1, <2>7, <3>2, PutIs
      <3> QED BY <3>1, <3>2, <3>3
    <2>8. units'[bb].bits = Bits(bb) /\ units'[ib].bits = Bits(ib)
      BY <2>1, <2>5, <2>7
    <2> QED BY <2>6, <2>8 DEF bb, ib
  <1>5. \A g : BlockBits(g)' = BlockBits(g) /\ InodeBits(g)' = InodeBits(g)
    BY <1>1 DEF BlockBits, InodeBits, Sh
  <1>6. \A b : UnitOf(b)' = UnitOf(b)
    BY <1>1 DEF UnitOf, Sh
  <1> HIDE DEF left
  <1>7. \A k \in DOMAIN groups' :
           /\ units'[UnitOf(groups[k].bb)'].bits = BlockBits(k - 1)'
           /\ units'[UnitOf(groups[k].ib)'].bits = InodeBits(k - 1)'
    BY <1>1, <1>4, <1>5, <1>6
  <1>8. left = shape.total - Cardinality(marked')
    BY <1>1 DEF left
  <1>9. todo' = <<>> /\ Image[making'] \in DOMAIN saved' /\ units'[SuperAt].free = shape.total - Cardinality(marked')
    BY <1>1, <1>2, <1>3, <1>8
  <1> QED BY <1>7, <1>9 DEF Written

\* An image is saved as it opens, and the others stay as they are.
LEMMA KeptWith ==
    ASSUME Kept, NEW name, NEW image, saved' = Put(name, image, saved),
           name \in ToSet(Image) =>
               image.len = Shape[name].total * BlockUnitsOf(Shape[name]) /\ Opening(Shape[name], image.at)
    PROVE  Kept'
  <1>1. /\ DOMAIN saved' = {name} \cup DOMAIN saved /\ saved'[name] = image
        /\ \A i \in DOMAIN saved : i # name => saved'[i] = saved[i]
    BY PutIs
  <1> SUFFICES ASSUME NEW i \in ToSet(Image) \cap DOMAIN saved'
               PROVE  saved'[i].len = Shape[i].total * BlockUnitsOf(Shape[i]) /\ Opening(Shape[i], saved'[i].at)
    BY DEF Kept
  <1>2. CASE i = name
    BY <1>1, <1>2
  <1>3. CASE i # name
    BY <1>1, <1>3 DEF Kept
  <1> QED BY <1>2, <1>3

\* Nothing is saved.
LEMMA KeptStays ==
    ASSUME Kept, saved' = saved
    PROVE  Kept'
  BY DEF Kept

\* The end of an image writes behind the descriptors, and the count of free blocks.
LEMMA SavesOpening ==
    ASSUME NEW shape, LaidOut(shape), Sh = shape, Given(shape), Written(shape), Save
    PROVE  Opening(shape, units')
  <1> DEFINE left == Sh.total - Cardinality(marked)
             super == [units[SuperAt] EXCEPT !.free = left]
             all == Upon(Bitmaps, units)
  <1>1. Image[making] \notin DOMAIN saved /\ units' = Put(SuperAt, super, all)
    BY DEF Save
  <1>2. Opening(shape, units) /\ SuperAt \in FrontUnits(shape)
    BY <1>1, UnitsIs DEF Written
  <1>3. DOMAIN Bitmaps \cap FrontUnits(shape) = {}
    <2>1. DOMAIN Bitmaps = UNION {{UnitOf(x.bb), UnitOf(x.ib)} : x \in ToSet(groups)}
      BY DEF Bitmaps
    <2>2. \A x \in ToSet(groups) : UnitOf(x.bb) \notin FrontUnits(shape) /\ UnitOf(x.ib) \notin FrontUnits(shape)
      BY BitmapsApart DEF ToSet
    <2> QED BY <2>1, <2>2
  <1>4. Opening(shape, all)
    BY <1>2, <1>3, UponKeeps
  <1>5. /\ Said \cup {"free"} \subseteq DOMAIN super
        /\ \A f \in Said : super[f] = shape.super[f]
    BY <1>2 DEF Opening, Said
  <1> HIDE DEF super, all
  <1>6. /\ SuperAt \in DOMAIN units' /\ units'[SuperAt] = super
        /\ \A v : v # SuperAt =>
              /\ v \in DOMAIN units' <=> v \in DOMAIN all
              /\ v \in DOMAIN units' => units'[v] = all[v]
    BY <1>1, PutIs
  <1> QED BY <1>4, <1>5, <1>6 DEF Opening

\* So what is saved opens.
LEMMA SavesKept ==
    ASSUME NEW shape, LaidOut(shape), Sh = shape, Given(shape), Written(shape), Save, Kept
    PROVE  Kept'
  <1>1. PICK name : name = Image[making]
    OBVIOUS
  <1>2. PICK image : image = [len |-> UnitOf(Sh.total), sector |-> 1, at |-> units']
    OBVIOUS
  <1>3. saved' = Put(name, image, saved)
    BY <1>1, <1>2 DEF Save
  <1>4. image.len = shape.total * BlockUnitsOf(shape) /\ image.at = units' /\ shape = Shape[name]
    BY <1>1, <1>2 DEF UnitOf, Sh
  <1>5. Opening(shape, units')
    BY SavesOpening
  <1> QED BY <1>3, <1>4, <1>5, KeptWith

\* The tables that wrap an image change nothing in it.
LEMMA Wrapped ==
    ASSUME BuilderInv, WrapMbr \/ WrapGpt
    PROVE  BuilderInv'
  <1>1. PICK name, image : Wraps(name, image) /\ name \in {"mbr", "gpt"}
    BY DEF WrapMbr, WrapGpt
  <1>2. /\ making = Len(Image) /\ Image[making] \in DOMAIN saved
        /\ saved' = Put(name, image, saved) /\ making' = making
        /\ UNCHANGED <<todo, units, marked, nextInode, nextBlock, groups, inoOf, blocksOf>>
    BY <1>1 DEF Wraps, mkfs
  <1>3. Image[making] \in DOMAIN saved'
    BY <1>2, PutIs
  <1>4. Progress'
    BY <1>2 DEF BuilderInv, Progress
  <1>5. Sh' = Sh
    BY <1>2 DEF Sh
  <1>6. ASSUME NEW shape, Given(shape), NumbersGiven(shape), OwnNames, Written(shape)
        PROVE  Given(shape)' /\ NumbersGiven(shape)' /\ OwnNames' /\ Written(shape)'
    <2>1. Given(shape)' /\ NumbersGiven(shape)' /\ OwnNames'
      BY <1>2, <1>6 DEF Given, NumbersGiven, OwnNames
    <2>2. \A g : BlockBits(g)' = BlockBits(g) /\ InodeBits(g)' = InodeBits(g)
      BY <1>2 DEF BlockBits, InodeBits, Sh
    <2>3. \A b : UnitOf(b)' = UnitOf(b)
      BY <1>2 DEF UnitOf, Sh
    <2>4. Written(shape)'
      BY <1>2, <1>3, <1>6, <2>2, <2>3 DEF Written
    <2> QED BY <2>1, <2>4
  <1>7. Kept'
    <2>1. name \notin ToSet(Image)
      BY <1>1, BuilderAssumption
    <2> QED BY <1>2, <2>1, KeptWith DEF BuilderInv
  <1> QED BY <1>2, <1>4, <1>5, <1>6, <1>7 DEF BuilderInv

\* A call or the end of an image keeps what is true of it.
LEMMA InTheMaking ==
    ASSUME BuilderInv, Method \/ Save
    PROVE  BuilderInv'
  <1>1. making' = making /\ making > 0 /\ making \in Nat
    <2>1. making' = making /\ (making > 0 \/ todo # <<>>)
      BY Taken DEF Save
    <2>2. Image \in Seq(DOMAIN Shape)
      BY BuilderAssumption
    <2> QED BY <2>1, <2>2 DEF BuilderInv, Progress
  <1>2. PICK shape : shape = Sh
    OBVIOUS
  <1>3. Sh' = shape
    BY <1>1, <1>2 DEF Sh
  <1>4. Given(shape) /\ NumbersGiven(shape) /\ OwnNames /\ Written(shape) /\ Progress
    BY <1>1, <1>2 DEF BuilderInv
  <1>5. LaidOut(shape) /\ \A k \in 1 .. Len(Image) : Image[k] = Image[making] => k = making
    <2>1. making \in 1 .. Len(Image)
      BY <1>1, <1>4 DEF Progress
    <2> QED BY <1>2, <2>1, Begun DEF Sh
  <1>6. Progress'
    <2>1. CASE Method
      BY <1>1, <1>4, <2>1, Taken DEF Progress
    <2>2. CASE Save
      <3>1. DOMAIN saved' = {Image[making]} \cup DOMAIN saved
        BY <2>2, PutIs DEF Save
      <3>2. \A j \in making + 1 .. Len(Image) : Image[j] # Image[making]
        <4>1. Len(Image) \in Nat
          <5>1. Image \in Seq(DOMAIN Shape)
            BY BuilderAssumption
          <5> QED BY <5>1
        <4> QED BY <1>1, <1>5, <4>1
      <3> QED BY <1>1, <1>4, <3>1, <3>2 DEF Progress
    <2> QED BY <2>1, <2>2
  <1>7. Given(shape)' /\ NumbersGiven(shape)' /\ OwnNames' /\ Written(shape)'
    <2>1. CASE Method
      BY <1>2, <1>4, <1>5, <2>1, GivenKept, NumbersKept, NamesKept, WrittenKept
    <2>2. CASE Save
      <3>1. UNCHANGED <<todo, marked, nextInode, nextBlock, groups, inoOf, blocksOf>>
        BY <2>2 DEF Save
      <3>2. Given(shape)' /\ NumbersGiven(shape)' /\ OwnNames'
        BY <1>4, <3>1 DEF Given, NumbersGiven, OwnNames
      <3>3. Written(shape)'
        BY <1>2, <1>4, <1>5, <2>2, Saves
      <3> QED BY <3>2, <3>3
    <2> QED BY <2>1, <2>2
  <1>8. Kept'
    <2>1. Kept
      BY DEF BuilderInv
    <2>2. CASE Method
      BY <2>1, <2>2, Taken, KeptStays
    <2>3. CASE Save
      BY <1>2, <1>4, <1>5, <2>1, <2>3, SavesKept
    <2> QED BY <2>2, <2>3
  <1> QED BY <1>3, <1>6, <1>7, <1>8 DEF BuilderInv

\* All of it holds of every state of the building.
LEMMA BuilderInductive == BuilderSpec => []BuilderInv
  <1>1. BuilderInit => BuilderInv
    <2> SUFFICES ASSUME BuilderInit PROVE BuilderInv
      OBVIOUS
    <2>1. Len(Image) \in Nat
      <3>1. Image \in Seq(DOMAIN Shape)
        BY BuilderAssumption
      <3> QED BY <3>1
    <2>2. Kept
      BY DEF BuilderInit, Kept, Nothing
    <2> QED BY <2>1, <2>2 DEF BuilderInit, BuilderInv, Progress, Nothing
  <1>2. BuilderInv /\ [BuilderNext]_builderVars => BuilderInv'
    <2> SUFFICES ASSUME BuilderInv, [BuilderNext]_builderVars PROVE BuilderInv'
      OBVIOUS
    <2>1. CASE Begin
      <3>1. PICK shape : shape = Shape[Image[making + 1]]
        OBVIOUS
      <3>2. Progress
        BY DEF BuilderInv
      <3>3. Kept'
        BY <2>1, KeptStays DEF BuilderInv, Begin
      <3> QED BY <2>1, <3>1, <3>2, <3>3, Begins DEF BuilderInv
    <2>2. CASE Method \/ Save
      BY <2>2, InTheMaking
    <2>3. CASE WrapMbr \/ WrapGpt
      BY <2>3, Wrapped
    <2>4. CASE UNCHANGED builderVars
      <3>1. UNCHANGED <<making, todo, units, marked, nextInode, nextBlock, groups, inoOf, blocksOf, saved>>
        BY <2>4 DEF builderVars, mkfs
      <3>2. Progress'
        BY <3>1 DEF BuilderInv, Progress
      <3>3. Sh' = Sh
        BY <3>1 DEF Sh
      <3>4. ASSUME NEW shape, Given(shape), NumbersGiven(shape), OwnNames, Written(shape)
            PROVE  Given(shape)' /\ NumbersGiven(shape)' /\ OwnNames' /\ Written(shape)'
        <4>1. Given(shape)' /\ NumbersGiven(shape)' /\ OwnNames'
          BY <3>1, <3>4 DEF Given, NumbersGiven, OwnNames
        <4>2. (\A g : BlockBits(g)' = BlockBits(g) /\ InodeBits(g)' = InodeBits(g))
              /\ \A b : UnitOf(b)' = UnitOf(b)
          BY <3>1 DEF BlockBits, InodeBits, UnitOf, Sh
        <4>3. Written(shape)'
          BY <3>1, <3>4, <4>2 DEF Written
        <4> QED BY <4>1, <4>3
      <3>5. Kept'
        BY <3>1, KeptStays DEF BuilderInv
      <3> QED BY <3>1, <3>2, <3>3, <3>4, <3>5 DEF BuilderInv
    <2> QED BY <2>1, <2>2, <2>3, <2>4 DEF BuilderNext, Mkfs, Method
  <1> QED BY <1>1, <1>2, PTL DEF BuilderSpec

\* What is in use lies in the image.
LEMMA InUse ==
    ASSUME NEW shape, LaidOut(shape), Given(shape)
    PROVE  marked \subseteq 0 .. shape.total - 1
  <1>1. System(shape) \subseteq 0 .. shape.total - 1
    BY ReservedIs
  <1>2. Contents(blocksOf) \subseteq 0 .. shape.total - 1
    <2> SUFFICES ASSUME NEW b \in Contents(blocksOf) PROVE b \in 0 .. shape.total - 1
      OBVIOUS
    <2>1. PICK n, k : Gives(blocksOf, n, k) /\ b = blocksOf[n][k]
      BY ContentsAre
    <2>2. PICK s, T : s = blocksOf[n] /\ T = 0 .. shape.total - 1
      OBVIOUS
    <2>3. s \in Seq(T) /\ k \in DOMAIN s /\ b = s[k]
      BY <2>1, <2>2 DEF Given, Within, Gives
    <2>4. s[k] \in T
      BY <2>3
    <2> QED BY <2>2, <2>3, <2>4
  <1> QED BY <1>1, <1>2 DEF Given

\* Block b of a group is bit b of its bitmap; a bitmap says what is in use.
LEMMA BlockBitsSay ==
    ASSUME NEW shape, LaidOut(shape), Sh = shape, Given(shape)
    PROVE  UNION {{(g - 1) * shape.bpg + k : k \in BlockBits(g - 1)} : g \in DOMAIN groups} = marked
  <1>1. /\ shape.bpg \in Nat \ {0} /\ shape.total \in Nat /\ GroupsOf(shape) \in Nat
        /\ shape.total <= shape.bpg * GroupsOf(shape)
    BY LayoutIs
  <1>2. DOMAIN groups = 1 .. GroupsOf(shape)
    BY DEF Given
  <1>3. marked \subseteq 0 .. shape.total - 1
    BY InUse
  <1> DEFINE Of(g) == {(g - 1) * shape.bpg + k : k \in BlockBits(g - 1)}
  <1>4. ASSUME NEW g \in DOMAIN groups, NEW x \in Of(g) PROVE x \in marked
    <2>1. PICK k \in BlockBits(g - 1) : x = (g - 1) * shape.bpg + k
      OBVIOUS
    <2>2. PICK b \in marked : k = b - (g - 1) * shape.bpg
      BY <2>1 DEF BlockBits
    <2>3. b \in Int /\ (g - 1) * shape.bpg \in Int
      BY <1>1, <1>2, <1>3
    <2> QED BY <2>1, <2>2, <2>3
  <1>5. ASSUME NEW b \in marked PROVE \E g \in DOMAIN groups : b \in Of(g)
    <2>1. b \in Nat /\ b < shape.total
      BY <1>1, <1>3
    <2>2. PICK q \in Nat, r \in 0 .. shape.bpg - 1 : b \div shape.bpg = q /\ b = shape.bpg * q + r
      BY <1>1, <2>1, Divided
    <2>3. q < GroupsOf(shape)
      <3>1. shape.bpg * q + r < shape.bpg * GroupsOf(shape)
        <4>1. shape.bpg * GroupsOf(shape) \in Nat
          BY <1>1
        <4> QED BY <1>1, <2>1, <2>2, <4>1
      <3>2. r \in Nat
        BY <1>1, <2>2
      <3> QED BY <1>1, <2>2, <3>1, <3>2, QuotientBelow
    <2>4. PICK g : g = q + 1
      OBVIOUS
    <2>5. g \in DOMAIN groups /\ g - 1 = q
      BY <1>1, <1>2, <2>3, <2>4
    <2>6. b - q * shape.bpg \in BlockBits(q)
      BY <2>2 DEF BlockBits
    <2>7. b = q * shape.bpg + (b - q * shape.bpg)
      BY <1>1, <2>1, <2>2
    <2> QED BY <2>5, <2>6, <2>7
  <1> HIDE DEF Of
  <1>6. UNION {Of(g) : g \in DOMAIN groups} = marked
    BY <1>4, <1>5
  <1> QED BY <1>6 DEF Of

\* So it is of the inodes.
LEMMA InodeBitsSay ==
    ASSUME NEW shape, LaidOut(shape), Sh = shape, Given(shape),
           nextInode \in Nat, nextInode - 1 <= shape.ipg * GroupsOf(shape)
    PROVE  UNION {{(g - 1) * shape.ipg + 1 + k : k \in InodeBits(g - 1)} : g \in DOMAIN groups} =
               1 .. nextInode - 1
  <1>1. shape.ipg \in Nat \ {0} /\ GroupsOf(shape) \in Nat /\ shape.ipg * GroupsOf(shape) \in Nat
    BY LayoutIs
  <1>2. DOMAIN groups = 1 .. GroupsOf(shape)
    BY DEF Given
  <1> DEFINE Of(g) == {(g - 1) * shape.ipg + 1 + k : k \in InodeBits(g - 1)}
  <1>3. ASSUME NEW g \in DOMAIN groups, NEW x \in Of(g) PROVE x \in 1 .. nextInode - 1
    <2>1. PICK k \in 0 .. shape.ipg - 1 :
             x = (g - 1) * shape.ipg + 1 + k /\ (g - 1) * shape.ipg + 1 + k < nextInode
      BY DEF InodeBits
    <2>2. (g - 1) * shape.ipg \in Nat /\ k \in Nat
      <3>1. g - 1 \in Nat
        BY <1>1, <1>2
      <3> QED BY <1>1, <3>1
    <2> QED BY <2>1, <2>2
  <1>4. ASSUME NEW x \in 1 .. nextInode - 1 PROVE \E g \in DOMAIN groups : x \in Of(g)
    <2>1. x - 1 \in Nat
      OBVIOUS
    <2>2. PICK q \in Nat, r \in 0 .. shape.ipg - 1 : x - 1 = shape.ipg * q + r
      BY <1>1, <2>1, Divided
    <2>3. q < GroupsOf(shape)
      <3>1. shape.ipg * q + r < shape.ipg * GroupsOf(shape)
        BY <1>1, <2>1, <2>2
      <3>2. r \in Nat
        BY <1>1, <2>2
      <3> QED BY <1>1, <2>2, <3>1, <3>2, QuotientBelow
    <2>4. PICK g : g = q + 1
      OBVIOUS
    <2>5. g \in DOMAIN groups /\ g - 1 = q
      BY <1>1, <1>2, <2>3, <2>4
    <2>6. x = q * shape.ipg + 1 + r
      <3>1. q * shape.ipg = shape.ipg * q /\ shape.ipg * q \in Nat
        BY <1>1
      <3> QED BY <2>2, <3>1
    <2>7. r \in InodeBits(q)
      BY <2>6 DEF InodeBits
    <2> QED BY <2>5, <2>6, <2>7
  <1> HIDE DEF Of
  <1>5. UNION {Of(g) : g \in DOMAIN groups} = 1 .. nextInode - 1
    BY <1>3, <1>4
  <1> QED BY <1>5 DEF Of

\* What the groups have reserved, by the bitmaps, the tables and the descriptors.
LEMMA SystemIs ==
    ASSUME NEW shape, LaidOut(shape), Given(shape)
    PROVE  0 .. shape.gdt + (GroupsOf(shape) * shape.desc - 1) \div shape.bs \cup
           UNION {{x.bb, x.ib} \cup x.table .. x.table + (shape.ipg * shape.isize - 1) \div shape.bs :
                  x \in ToSet(groups)} = System(shape)
  <1> DEFINE gd == (GroupsOf(shape) * shape.desc - 1) \div shape.bs
             tb == (shape.ipg * shape.isize - 1) \div shape.bs
             Of(x) == {x.bb, x.ib} \cup x.table .. x.table + tb
             G == 0 .. GroupsOf(shape) - 1
  <1>1. /\ {shape.bs, shape.ipg, shape.isize, shape.desc, shape.gdt} \subseteq Nat \ {0}
        /\ {GroupsOf(shape), GdtBlocksOf(shape), TableBlocksOf(shape)} \subseteq Nat \ {0}
        /\ \A g \in 0 .. GroupsOf(shape) - 1 : Base(shape, g) \in Nat
    BY LayoutIs
  <1>2. gd = GdtBlocksOf(shape) - 1 /\ tb = TableBlocksOf(shape) - 1
    <2>1. \A a, b \in Nat \ {0} : a * b \in Nat \ {0}
      <3> SUFFICES ASSUME NEW a \in Nat \ {0}, NEW b \in Nat \ {0} PROVE a * b \in Nat \ {0}
        OBVIOUS
      <3>1. 1 * b <= a * b /\ a * b \in Nat
        BY Grows
      <3> QED BY <3>1
    <2>2. GroupsOf(shape) * shape.desc \in Nat \ {0} /\ shape.ipg * shape.isize \in Nat \ {0}
      BY <1>1, <2>1
    <2> QED BY <1>1, <2>2, RoundedUp DEF GdtBlocksOf, TableBlocksOf
  <1> HIDE DEF gd, tb
  <1>3. 0 .. shape.gdt + gd = 0 .. Base(shape, 0) - 1
    <2>1. Base(shape, 0) = shape.gdt + GdtBlocksOf(shape)
      BY DEF Base
    <2>2. shape.gdt + gd = Base(shape, 0) - 1
      BY <1>1, <1>2, <2>1
    <2> QED BY <2>2
  <1>4. \A g \in G : Of(Laid(shape, g)) = Base(shape, g) .. Base(shape, g) + 1 + TableBlocksOf(shape)
    <2> SUFFICES ASSUME NEW g \in G
                 PROVE  Of(Laid(shape, g)) = Base(shape, g) .. Base(shape, g) + 1 + TableBlocksOf(shape)
      OBVIOUS
    <2>1. PICK b \in Nat, t \in Nat \ {0} : b = Base(shape, g) /\ t = TableBlocksOf(shape)
      BY <1>1
    <2>2. Of(Laid(shape, g)) = {b, b + 1} \cup b + 2 .. b + 2 + (t - 1)
      BY <1>2, <2>1 DEF Laid
    <2>3. {b, b + 1} \cup b + 2 .. b + 2 + (t - 1) = b .. b + 1 + t
      OBVIOUS
    <2> QED BY <2>1, <2>2, <2>3
  <1>5. \A x : x \in ToSet(groups) <=> \E g \in G : x = Laid(shape, g)
    <2>1. groups = [k \in 1 .. GroupsOf(shape) |-> Laid(shape, k - 1)]
      BY DEF Given
    <2>2. ASSUME NEW x, x \in ToSet(groups) PROVE \E g \in G : x = Laid(shape, g)
      <3>1. PICK k \in 1 .. GroupsOf(shape) : x = Laid(shape, k - 1)
        BY <2>1, <2>2 DEF ToSet
      <3>2. k - 1 \in G
        BY <1>1
      <3> QED BY <3>1, <3>2
    <2>3. ASSUME NEW g \in G PROVE Laid(shape, g) \in ToSet(groups)
      <3>1. g + 1 \in 1 .. GroupsOf(shape) /\ (g + 1) - 1 = g
        BY <1>1
      <3>2. groups[g + 1] = Laid(shape, g) /\ g + 1 \in DOMAIN groups
        BY <2>1, <3>1
      <3> QED BY <3>2 DEF ToSet
    <2> QED BY <2>2, <2>3
  <1> DEFINE Tables == UNION {Of(x) : x \in ToSet(groups)}
  <1>6. \A b : b \in Tables <=>
           \E g \in G : b \in Base(shape, g) .. Base(shape, g) + 1 + TableBlocksOf(shape)
    <2> SUFFICES ASSUME NEW b
                 PROVE  b \in Tables <=>
                        \E g \in G : b \in Base(shape, g) .. Base(shape, g) + 1 + TableBlocksOf(shape)
      OBVIOUS
    <2>1. b \in Tables <=> \E x \in ToSet(groups) : b \in Of(x)
      OBVIOUS
    <2> HIDE DEF Of, Tables
    <2> QED BY <1>4, <1>5, <2>1
  <1>7. \A b : b \in System(shape) <=>
           \/ b \in 0 .. Base(shape, 0) - 1
           \/ \E g \in G : b \in Base(shape, g) .. Base(shape, g) + 1 + TableBlocksOf(shape)
    BY ReservedIs
  <1> HIDE DEF Tables, G
  <1>8. 0 .. shape.gdt + gd \cup Tables = System(shape)
    BY <1>3, <1>6, <1>7
  <1> QED BY <1>8 DEF Tables, gd, tb

\* Whatever the shapes of the images and the calls of the build functions, no
\* block is given away twice, and the bitmaps say so in the end.
THEOREM BlocksGivenOnce == BuilderSpec => []BlocksOnce
  <1>1. BuilderInv => BlocksOnce
    <2> SUFFICES ASSUME BuilderInv, making > 0 PROVE BlocksOnce
      BY DEF BlocksOnce
    <2> DEFINE given == UNION {{<<n, k>> : k \in DOMAIN blocksOf[n]} : n \in DOMAIN blocksOf}
               files == {blocksOf[g[1]][g[2]] : g \in given}
               system == 0 .. Sh.gdt + (GroupsOf(Sh) * Sh.desc - 1) \div Sh.bs \cup
                         UNION {{x.bb, x.ib} \cup x.table .. x.table + (Sh.ipg * Sh.isize - 1) \div Sh.bs :
                                x \in ToSet(groups)}
               Bits(u) == units[UnitOf(u)].bits
    <2>1. PICK shape : shape = Sh
      OBVIOUS
    <2>2. Given(shape) /\ NumbersGiven(shape) /\ Written(shape) /\ Progress
      BY <2>1 DEF BuilderInv
    <2>3. LaidOut(shape)
      <3>1. making \in 1 .. Len(Image)
        BY <2>2 DEF Progress
      <3> QED BY <2>1, <3>1, Begun DEF Sh
    <2>4. files = Contents(blocksOf)
      BY DEF Contents
    <2>5. system = System(shape)
      BY <2>1, <2>2, <2>3, SystemIs
    <2> HIDE DEF system
    <2>6. Cardinality(files) = Cardinality(given)
      <3>1. shape.total \in Nat \ {0}
        BY <2>3, LayoutIs
      <3>2. Contents(blocksOf) \subseteq marked /\ GivesOnce(blocksOf)
        BY <2>2 DEF Given
      <3>3. marked \subseteq 0 .. shape.total - 1
        BY <2>2, <2>3, InUse
      <3>4. PICK m \in Nat : m = shape.total - 1
        BY <3>1
      <3>5. Contents(blocksOf) \subseteq 0 .. m
        BY <3>2, <3>3, <3>4
      <3> QED BY <2>4, <3>2, <3>5, AsMany
    <2>7. marked = files \cup system /\ files \cap system = {}
      BY <2>2, <2>4, <2>5 DEF Given
    <2>8. ASSUME Image[making] \in DOMAIN saved
          PROVE  /\ UNION {{(g - 1) * Sh.bpg + k : k \in Bits(groups[g].bb)} : g \in DOMAIN groups} =
                       files \cup system
                 /\ UNION {{(g - 1) * Sh.ipg + 1 + k : k \in Bits(groups[g].ib)} : g \in DOMAIN groups} =
                       {1} \cup {inoOf[n] : n \in DOMAIN inoOf}
                 /\ units[SuperAt].free = Sh.total - Cardinality(files \cup system)
      <3>1. /\ todo = <<>> /\ units[SuperAt].free = shape.total - Cardinality(marked)
            /\ \A g \in DOMAIN groups :
                  Bits(groups[g].bb) = BlockBits(g - 1) /\ Bits(groups[g].ib) = InodeBits(g - 1)
        BY <2>2, <2>8 DEF Written
      <3> HIDE DEF Bits, files
      <3>2. UNION {{(g - 1) * Sh.bpg + k : k \in Bits(groups[g].bb)} : g \in DOMAIN groups} = marked
        <4>1. {{(g - 1) * Sh.bpg + k : k \in Bits(groups[g].bb)} : g \in DOMAIN groups} =
              {{(g - 1) * shape.bpg + k : k \in BlockBits(g - 1)} : g \in DOMAIN groups}
          BY <2>1, <3>1
        <4>2. UNION {{(g - 1) * shape.bpg + k : k \in BlockBits(g - 1)} : g \in DOMAIN groups} = marked
          BY <2>1, <2>2, <2>3, BlockBitsSay
        <4> QED BY <4>1, <4>2
      <3>3. /\ nextInode \in Nat /\ 3 <= nextInode /\ nextInode - 1 <= shape.ipg * GroupsOf(shape)
            /\ {inoOf[n] : n \in DOMAIN inoOf} = 2 .. nextInode - 1
        BY <2>2, <3>1 DEF NumbersGiven
      <3>4. UNION {{(g - 1) * Sh.ipg + 1 + k : k \in Bits(groups[g].ib)} : g \in DOMAIN groups} =
               1 .. nextInode - 1
        <4>1. {{(g - 1) * Sh.ipg + 1 + k : k \in Bits(groups[g].ib)} : g \in DOMAIN groups} =
              {{(g - 1) * shape.ipg + 1 + k : k \in InodeBits(g - 1)} : g \in DOMAIN groups}
          BY <2>1, <3>1
        <4>2. UNION {{(g - 1) * shape.ipg + 1 + k : k \in InodeBits(g - 1)} : g \in DOMAIN groups} =
                 1 .. nextInode - 1
          BY <2>1, <2>2, <2>3, <3>3, InodeBitsSay
        <4> QED BY <4>1, <4>2
      <3>5. 1 .. nextInode - 1 = {1} \cup {inoOf[n] : n \in DOMAIN inoOf}
        <4>1. 1 .. nextInode - 1 = {1} \cup 2 .. nextInode - 1
          BY <3>3
        <4> QED BY <3>3, <4>1
      <3> QED BY <2>1, <2>7, <3>1, <3>2, <3>4, <3>5
    <2> HIDE DEF given, files, Bits
    <2> QED BY <2>6, <2>7, <2>8 DEF BlocksOnce, given, files, system, Bits
  <1> QED BY <1>1, BuilderInductive, PTL

\* What the reader takes from a superblock that says how the image is laid out.
LEMMA ToldIs ==
    ASSUME NEW shape, LaidOut(shape), Told(shape), NEW sb, \A f \in Said : sb[f] = shape.super[f]
    PROVE  /\ sb.is = "super" /\ sb.bpg = shape.bpg /\ (sb.wide => sb.desc \in Nat /\ sb.desc >= 64)
           /\ sb.wide = shape.super.wide /\ DescSize(sb) = shape.desc
           /\ BlockSizeOK(sb) /\ BlockUnits(sb) = BlockUnitsOf(shape) /\ FirstGdtBlock(sb) = shape.gdt
           /\ GroupsCount(sb) = GroupsOf(shape)
           /\ GdtUnits(sb) = GdtBlocksOf(shape) * BlockUnitsOf(shape)
           /\ GdtAt(0, sb) = shape.gdt * BlockUnitsOf(shape)
  <1> DEFINE super == shape.super
             U == BlockUnitsOf(shape)
  <1>1. /\ sb.is = super.is /\ sb.blocks = super.blocks /\ sb.bpg = super.bpg
        /\ sb.log = super.log /\ sb.wide = super.wide /\ sb.desc = super.desc
    BY DEF Said
  <1>2. /\ super.is = "super" /\ super.blocks = shape.total /\ super.bpg = shape.bpg
        /\ BlockSizeOK(super) /\ BlockUnits(super) = U /\ FirstGdtBlock(super) = shape.gdt
        /\ DescSize(super) = shape.desc /\ (super.wide => shape.desc >= 64)
    BY DEF Told
  <1>3. Shift(sb) = Shift(super)
    BY <1>1 DEF Shift
  <1>4. BlockSizeOK(sb) /\ BlockUnits(sb) = U /\ FirstGdtBlock(sb) = shape.gdt
    BY <1>2, <1>3 DEF BlockSizeOK, BlockUnits, FirstGdtBlock
  <1>5. DescSize(sb) = shape.desc
    BY <1>1, <1>2 DEF DescSize
  <1>6. sb.wide => sb.desc \in Nat /\ sb.desc >= 64
    BY <1>1, <1>2, <1>5, LayoutIs DEF DescSize
  <1>7. GroupsCount(sb) = GroupsOf(shape)
    BY <1>1, <1>2 DEF GroupsCount, GroupsOf
  <1>8. U \in Nat \ {0} /\ shape.bs = 512 * U
    BY UnitsIs
  <1>9. GdtUnits(sb) = GdtBlocksOf(shape) * U
    <2>1. U * CellsInUnit * CellBytes = shape.bs
      BY <1>8 DEF CellsInUnit, CellBytes
    <2> QED BY <1>4, <1>5, <1>7, <2>1 DEF GdtUnits, GdtBlocksOf
  <1>10. GdtAt(0, sb) = shape.gdt * U
    <2>1. shape.gdt * U \in Nat
      BY <1>8, LayoutIs
    <2> QED BY <1>4, <2>1 DEF GdtAt
  <1> QED BY <1>1, <1>2, <1>4, <1>5, <1>6, <1>7, <1>9, <1>10

\* The cells that hold the block of an inode table.
Placed(shape) == {CellAt(shape, g) : g \in 0 .. GroupsOf(shape) - 1}

\* What is in a unit of descriptors.
LEMMA DescriptorsAre ==
    ASSUME NEW shape, NEW u, NEW r \in 0 .. 15
    PROVE  /\ u \in DOMAIN Descriptors(shape) <=> \E c \in Placed(shape) : u = c \div 16
           /\ u \in DOMAIN Descriptors(shape) =>
                 /\ Descriptors(shape)[u].is = "gdt"
                 /\ Descriptors(shape)[u].cell[r + 1] =
                       IF u * 16 + (r + 1) - 1 \in Placed(shape)
                       THEN Laid(shape, ((u * 16 + (r + 1) - 1) * 32 - shape.gdt * shape.bs) \div shape.desc).table
                       ELSE 0
  <1>1. r + 1 \in 1 .. 16
    OBVIOUS
  <1> QED BY <1>1 DEF Descriptors, Placed, CellsInUnit, CellBytes

\* A cell of the descriptors, read back.
LEMMA CellIs ==
    ASSUME NEW shape, LaidOut(shape), NEW disk, Opening(shape, disk.at),
           NEW c \in Nat, 32 * c < GroupsOf(shape) * shape.desc
    PROVE  LET a == 16 * (shape.gdt * BlockUnitsOf(shape)) + c
           IN  Cell(disk, shape.gdt * BlockUnitsOf(shape), c) =
                   IF a \in Placed(shape) THEN Laid(shape, (32 * c) \div shape.desc).table ELSE 0
  <1> DEFINE U == BlockUnitsOf(shape)
             P == shape.gdt * U
             N == GdtBlocksOf(shape)
  <1>1. /\ U \in Nat \ {0} /\ shape.bs = 512 * U /\ N \in Nat \ {0}
        /\ shape.gdt \in Nat \ {0} /\ shape.desc \in Nat \ {0} /\ GroupsOf(shape) \in Nat \ {0}
    BY UnitsIs, LayoutIs
  <1>2. P \in Nat /\ P > SuperAt /\ SuperAt = 2
    BY <1>1 DEF LaidOut, SuperAt
  <1>3. Base(shape, 0) * U = P + N * U /\ N * U \in Nat
    <2>1. Base(shape, 0) = shape.gdt + N
      BY DEF Base
    <2> QED BY <1>1, <2>1
  <1>4. shape.gdt * shape.bs = 512 * P
    BY <1>1
  <1>5. GroupsOf(shape) * shape.desc <= 512 * (N * U)
    <2>1. GroupsOf(shape) * shape.desc \in Nat \ {0}
      <3>1. 1 * shape.desc <= GroupsOf(shape) * shape.desc
        BY <1>1, Grows
      <3> QED BY <1>1, <3>1
    <2>2. shape.bs \in Nat \ {0}
      BY <1>1
    <2>3. GroupsOf(shape) * shape.desc <= shape.bs * N
      BY <2>1, <2>2, RoundedUp DEF GdtBlocksOf
    <2>4. shape.bs * N = 512 * (N * U)
      BY <1>1
    <2> QED BY <2>3, <2>4
  <1>6. GroupsOf(shape) * shape.desc \in Nat
    BY <1>1
  <1>7. PICK q \in Nat, r \in 0 .. 15 : c \div 16 = q /\ c % 16 = r /\ c = 16 * q + r
    <2>1. PICK n \in Nat \ {0} : n = 16
      OBVIOUS
    <2>2. \E q \in Nat, r \in 0 .. n - 1 : c \div n = q /\ c % n = r /\ c = n * q + r
      BY Divided
    <2> QED BY <2>1, <2>2
  <1> HIDE DEF U, P, N
  <1>8. PICK u : u = P + q
    OBVIOUS
  <1>9. u \in FrontUnits(shape) \ {SuperAt}
    <2>1. PICK m \in Nat : m = N * U
      BY <1>3
    <2>2. 32 * c < 512 * m
      BY <1>5, <1>6, <2>1
    <2>3. q < m
      BY <1>7, <2>1, <2>2
    <2>4. u \in 0 .. P + m - 1 /\ u # SuperAt
      BY <1>2, <1>8, <2>1, <2>3
    <2>5. Base(shape, 0) * U = P + m
      BY <1>3, <2>1
    <2>6. FrontUnits(shape) = 0 .. P + m - 1
      <3>1. FrontUnits(shape) = 0 .. Base(shape, 0) * U - 1
        BY DEF FrontUnits, U
      <3> QED BY <1>2, <1>3, <2>1, <2>5, <3>1
    <2> QED BY <2>4, <2>6
  <1>10. PICK a \in Nat : a = 16 * P + c
    BY <1>2
  <1>11. a \div 16 = u /\ u * 16 + (r + 1) - 1 = a
    BY <1>2, <1>7, <1>8, <1>10
  <1>12. a * 32 - shape.gdt * shape.bs = 32 * c
    BY <1>2, <1>4, <1>10
  <1>13. Cell(disk, P, c) = LET gdt == At(disk, u) IN IF gdt.is = "gdt" THEN gdt.cell[r + 1] ELSE 0
    BY <1>7, <1>8 DEF Cell, CellsInUnit
  <1>14. CASE u \in DOMAIN Descriptors(shape)
    <2>1. At(disk, u) = Descriptors(shape)[u]
      BY <1>9, <1>14 DEF At, Opening
    <2>2. Cell(disk, P, c) = IF a \in Placed(shape) THEN Laid(shape, (32 * c) \div shape.desc).table ELSE 0
      <3>1. /\ Descriptors(shape)[u].is = "gdt"
            /\ Descriptors(shape)[u].cell[r + 1] =
                  IF u * 16 + (r + 1) - 1 \in Placed(shape)
                  THEN Laid(shape, ((u * 16 + (r + 1) - 1) * 32 - shape.gdt * shape.bs) \div shape.desc).table
                  ELSE 0
        BY <1>14, DescriptorsAre
      <3>2. Descriptors(shape)[u].cell[r + 1] =
               IF a \in Placed(shape) THEN Laid(shape, (32 * c) \div shape.desc).table ELSE 0
        BY <1>11, <1>12, <3>1
      <3> QED BY <1>13, <2>1, <3>1, <3>2
    <2> QED BY <1>10, <2>2 DEF P, U
  <1>15. CASE u \notin DOMAIN Descriptors(shape)
    <2>1. At(disk, u) = Zero
      BY <1>9, <1>15 DEF At, Opening
    <2>2. Cell(disk, P, c) = 0
      BY <1>13, <2>1 DEF Zero
    <2>3. a \notin Placed(shape)
      BY <1>11, <1>15, DescriptorsAre
    <2> QED BY <1>10, <2>2, <2>3 DEF P, U
  <1> QED BY <1>14, <1>15

\* The reader finds in the descriptors what the builder has put there.
LEMMA TableIs ==
    ASSUME NEW shape, LaidOut(shape), Told(shape), NEW disk, Opening(shape, disk.at),
           NEW sb, \A f \in Said : sb[f] = shape.super[f], NEW g \in 0 .. GroupsOf(shape) - 1
    PROVE  InodeTable(disk, 0, sb, g) = <<Laid(shape, g).table, 0>>
  <1> DEFINE P == shape.gdt * BlockUnitsOf(shape)
  <1>1. DescSize(sb) = shape.desc /\ GdtAt(0, sb) = P /\ (sb.wide => sb.desc \in Nat /\ sb.desc >= 64)
    BY ToldIs
  <1>2. /\ shape.gdt \in Nat \ {0} /\ shape.desc \in Nat \ {0} /\ GroupsOf(shape) \in Nat \ {0}
        /\ BlockUnitsOf(shape) \in Nat \ {0} /\ shape.bs = 512 * BlockUnitsOf(shape)
    BY LayoutIs, UnitsIs
  <1>3. P \in Nat /\ shape.gdt * shape.bs = 512 * P
    BY <1>2
  <1>4. PICK d \in Nat \ {0} : shape.desc = 32 * d
    BY <1>2 DEF Told, CellBytes
  <1>5. g \in Nat /\ g < GroupsOf(shape)
    BY <1>2
  <1>6. PICK c \in Nat : c = g * d
    BY <1>4, <1>5
  <1>7. \A h \in Nat : h * shape.desc = 32 * (h * d) /\ h * d \in Nat
    BY <1>4
  <1> HIDE DEF P
  <1>8. \A h \in 0 .. GroupsOf(shape) - 1 : CellAt(shape, h) = 16 * P + h * d
    <2> SUFFICES ASSUME NEW h \in 0 .. GroupsOf(shape) - 1 PROVE CellAt(shape, h) = 16 * P + h * d
      OBVIOUS
    <2>1. PICK k \in Nat : k = h * d /\ h * shape.desc = 32 * k
      BY <1>2, <1>7
    <2>2. CellAt(shape, h) = (512 * P + 32 * k) \div 32
      BY <1>3, <2>1 DEF CellAt, CellBytes
    <2>3. (512 * P + 32 * k) \div 32 = 16 * P + k
      BY <1>3
    <2> QED BY <2>1, <2>2, <2>3
  <1>9. Placed(shape) = {16 * P + h * d : h \in 0 .. GroupsOf(shape) - 1}
    BY <1>8 DEF Placed
  <1>10. g * shape.desc = 32 * c /\ (g + 1) * d = c + d
    BY <1>4, <1>5, <1>6
  <1>11. 32 * (c + d) <= GroupsOf(shape) * shape.desc /\ GroupsOf(shape) * shape.desc \in Nat
    <2>1. g + 1 \in Nat /\ g + 1 <= GroupsOf(shape)
      BY <1>2, <1>5
    <2>2. (g + 1) * shape.desc <= GroupsOf(shape) * shape.desc /\ GroupsOf(shape) * shape.desc \in Nat
      BY <1>2, <2>1, Grows
    <2>3. (g + 1) * shape.desc = 32 * (c + d)
      BY <1>7, <1>10, <2>1
    <2> QED BY <2>2, <2>3
  <1>12. Cell(disk, P, c) = Laid(shape, g).table
    <2>1. 32 * c < GroupsOf(shape) * shape.desc
      BY <1>4, <1>11
    <2>2. 16 * P + c \in Placed(shape)
      BY <1>6, <1>9
    <2>3. (32 * c) \div shape.desc = g
      <3>1. PICK n \in Nat \ {0} : n = shape.desc
        BY <1>2
      <3>2. (g * n) \div n = g
        BY <1>5
      <3> QED BY <1>10, <3>1, <3>2
    <2> QED BY <2>1, <2>2, <2>3, CellIs DEF P
  <1>13. ASSUME sb.wide
         PROVE  Cell(disk, P, c + 1) = 0
    <2>1. d >= 2
      <3>1. shape.desc >= 64
        BY <1>13, <1>1 DEF DescSize
      <3> QED BY <1>4, <3>1
    <2>2. c + 1 \in Nat /\ 32 * (c + 1) < GroupsOf(shape) * shape.desc
      BY <1>4, <1>11, <2>1
    <2>3. 16 * P + (c + 1) \notin Placed(shape)
      <3> SUFFICES ASSUME NEW h \in 0 .. GroupsOf(shape) - 1, 16 * P + (c + 1) = 16 * P + h * d
                   PROVE  FALSE
        BY <1>9
      <3>1. h \in Nat
        BY <1>2
      <3>2. h * d = c + 1 /\ h * d \in Nat
        BY <1>3, <1>7, <3>1
      <3>3. CASE h <= g
        <4>1. h * d <= g * d
          BY <1>4, <1>5, <3>1, <3>3, Grows
        <4> QED BY <1>6, <3>2, <4>1
      <3>4. CASE g + 1 <= h
        <4>1. (g + 1) * d <= h * d
          BY <1>4, <1>5, <3>1, <3>4, Grows
        <4> QED BY <1>4, <1>10, <2>1, <3>2, <4>1
      <3> QED BY <1>5, <3>1, <3>3, <3>4
    <2> QED BY <2>2, <2>3, CellIs DEF P
  <1>14. (g * DescSize(sb)) \div CellBytes = c
    <2>1. (32 * c) \div 32 = c
      OBVIOUS
    <2> QED BY <1>1, <1>10, <2>1 DEF CellBytes
  <1>15. InodeTable(disk, 0, sb, g) = <<Cell(disk, P, c), IF sb.wide THEN Cell(disk, P, c + 1) ELSE 0>>
    BY <1>1, <1>14 DEF InodeTable
  <1> QED BY <1>12, <1>13, <1>15

\* What was saved opens, and as it was laid out.
LEMMA OpensIs ==
    ASSUME NEW shape, LaidOut(shape), Told(shape), NEW disk, Opening(shape, disk.at),
           disk.len = shape.total * BlockUnitsOf(shape)
    PROVE  /\ Opened(disk, 0).is = "open"
           /\ Opened(disk, 0).tables = [g \in 1 .. GroupsOf(shape) |-> <<Laid(shape, g - 1).table, 0>>]
  <1> DEFINE U == BlockUnitsOf(shape)
             sb == disk.at[SuperAt]
  <1>1. SuperAt \in DOMAIN disk.at /\ \A f \in Said : sb[f] = shape.super[f]
    BY DEF Opening
  <1> HIDE DEF sb
  <1>2. /\ sb.is = "super" /\ sb.bpg = shape.bpg /\ (sb.wide => sb.desc \in Nat /\ sb.desc >= 64)
        /\ BlockSizeOK(sb) /\ GroupsCount(sb) = GroupsOf(shape)
        /\ GdtUnits(sb) = GdtBlocksOf(shape) * U /\ GdtAt(0, sb) = shape.gdt * U
    BY <1>1, ToldIs
  <1>3. /\ U \in Nat \ {0} /\ shape.bpg \in Nat \ {0} /\ GroupsOf(shape) \in Nat \ {0}
        /\ shape.gdt \in Nat \ {0} /\ GdtBlocksOf(shape) \in Nat \ {0} /\ shape.total \in Nat \ {0}
    BY LayoutIs, UnitsIs
  <1>4. PICK p, n, t \in Nat : p = shape.gdt * U /\ n = GdtBlocksOf(shape) * U /\ t = shape.total * U
    <2>1. shape.gdt * U \in Nat /\ GdtBlocksOf(shape) * U \in Nat /\ shape.total * U \in Nat
      BY <1>3
    <2> QED BY <2>1
  <1>5. p + n + 2 * U <= t /\ p > 2
    <2>1. shape.gdt + GdtBlocksOf(shape) + 2 <= shape.total
      <3>1. 0 \in 0 .. GroupsOf(shape) - 1 /\ Base(shape, 0) = shape.gdt + GdtBlocksOf(shape)
        BY <1>3 DEF Base
      <3>2. Base(shape, 0) + 1 + TableBlocksOf(shape) < shape.total /\ TableBlocksOf(shape) \in Nat
        BY <3>1, LayoutIs
      <3> QED BY <1>3, <3>1, <3>2
    <2>2. (shape.gdt + GdtBlocksOf(shape) + 2) * U <= shape.total * U
      BY <1>3, <2>1, Grows
    <2>3. (shape.gdt + GdtBlocksOf(shape) + 2) * U = shape.gdt * U + GdtBlocksOf(shape) * U + 2 * U
      BY <1>3
    <2>4. shape.gdt * U > 2
      BY DEF LaidOut, SuperAt
    <2> QED BY <1>4, <2>2, <2>3, <2>4
  <1>6. 1 <= U /\ n >= 1
    <2>1. 1 * U <= GdtBlocksOf(shape) * U
      BY <1>3, Grows
    <2> QED BY <1>3, <1>4, <2>1
  <1>7. disk.len = t
    BY <1>4
  <1> HIDE DEF U
  <1>8. Got(disk, 0 + SuperAt, 4) = 4
    BY <1>3, <1>5, <1>6, <1>7, GotIs DEF SuperAt
  <1>9. Got(disk, GdtAt(0, sb), GdtUnits(sb)) = GdtUnits(sb) /\ GdtUnits(sb) \in Nat
    <2>1. GdtAt(0, sb) = p /\ GdtUnits(sb) = n
      BY <1>2, <1>4
    <2>2. Got(disk, p, n) = n
      BY <1>3, <1>5, <1>7, GotIs
    <2> QED BY <2>1, <2>2
  <1>10. Parse(disk, 0) = sb /\ sb # Failed
    <2>1. At(disk, 0 + SuperAt) = sb
      BY <1>1 DEF At, SuperAt, sb
    <2> QED BY <1>2, <1>8, <2>1 DEF Parse, Failed
  <1>11. Opened(disk, 0) = [is |-> "open", start |-> 0, sb |-> sb,
             tables |-> [g \in 1 .. GroupsOf(shape) |-> InodeTable(disk, 0, sb, g - 1)]]
    <2>1. ~(Got(disk, GdtAt(0, sb), GdtUnits(sb)) < GdtUnits(sb)) /\ sb.bpg # 0 /\ ~(sb.wide /\ sb.desc < 64)
      BY <1>2, <1>3, <1>9
    <2> QED BY <1>2, <1>10, <2>1 DEF Opened
  <1>12. \A g \in 1 .. GroupsOf(shape) : InodeTable(disk, 0, sb, g - 1) = <<Laid(shape, g - 1).table, 0>>
    <2> SUFFICES ASSUME NEW g \in 1 .. GroupsOf(shape)
                 PROVE  InodeTable(disk, 0, sb, g - 1) = <<Laid(shape, g - 1).table, 0>>
      OBVIOUS
    <2>1. g - 1 \in 0 .. GroupsOf(shape) - 1
      BY <1>3
    <2> QED BY <1>1, <2>1, TableIs
  <1>13. [g \in 1 .. GroupsOf(shape) |-> InodeTable(disk, 0, sb, g - 1)] =
            [g \in 1 .. GroupsOf(shape) |-> <<Laid(shape, g - 1).table, 0>>]
    BY <1>12
  <1>14. PICK T : T = [g \in 1 .. GroupsOf(shape) |-> InodeTable(disk, 0, sb, g - 1)]
    OBVIOUS
  <1>15. Opened(disk, 0) = [is |-> "open", start |-> 0, sb |-> sb, tables |-> T]
    BY <1>11, <1>14
  <1>16. Opened(disk, 0).is = "open" /\ Opened(disk, 0).tables = T
    BY <1>15
  <1> QED BY <1>13, <1>14, <1>16

\* Every image that was made opens, with its groups' inode tables where the builder
\* has put them (Mkfs::write_group_descs, Ext4::open, group::parse_all), whatever its
\* shape and whatever the build function writes into it.
THEOREM OpensWhereLaid == BuilderSpec => []OpensAsLaid
  <1>1. BuilderInv => OpensAsLaid
    <2> SUFFICES ASSUME BuilderInv, NEW i \in ToSet(Image) \cap DOMAIN saved
                 PROVE  /\ Opened(saved[i], 0).is = "open"
                        /\ Opened(saved[i], 0).tables =
                              [g \in 1 .. GroupsOf(Shape[i]) |-> <<Laid(Shape[i], g - 1).table, 0>>]
      BY DEF OpensAsLaid
    <2>1. LaidOut(Shape[i]) /\ Told(Shape[i])
      <3>1. PICK j \in 1 .. Len(Image) : Image[j] = i
        <4>1. Image \in Seq(DOMAIN Shape)
          BY BuilderAssumption
        <4> QED BY <4>1 DEF ToSet
      <3> QED BY <3>1, Begun
    <2>2. saved[i].len = Shape[i].total * BlockUnitsOf(Shape[i]) /\ Opening(Shape[i], saved[i].at)
      BY DEF BuilderInv, Kept
    <2> QED BY <2>1, <2>2, OpensIs
  <1> QED BY <1>1, BuilderInductive, PTL

=============================================================================
