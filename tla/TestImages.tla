----------------------------- MODULE TestImages ------------------------------
(***************************************************************************)
(* The images that examples/mkimg.rs makes with the mkfs of ImageBuilder:  *)
(* build_ext4 and build_ext2 as the calls they make, with the numbers they *)
(* have in the code.  Texts are known by the file they are in.             *)
(***************************************************************************)
EXTENDS ImageBuilder

Images == <<"ext4", "ext2">>
Nth(n) == "f" \o ToString(n)

\* Bound: 200 files in the code; their inodes are in two groups here, in four there.
Many == 60
ManyNames == [k \in 1 .. Many |-> Nth(k)]

\* In UTF-8; zh_file, zh_dir and zh_inner stand for names in Chinese.
NameBytes ==
    [n \in ToSet(ManyNames) |-> 4] @@
    ("." :> 1) @@ (".." :> 2) @@ ("hello.txt" :> 9) @@ ("subdir" :> 6) @@ ("sparse.bin" :> 10) @@
    ("frag.bin" :> 8) @@ ("longlink" :> 8) @@ ("fastlink" :> 8) @@ ("inline.txt" :> 10) @@ ("big" :> 3) @@
    ("zh_file" :> 16) @@ ("zh_dir" :> 12) @@ ("zh_inner" :> 10) @@ ("inner.txt" :> 9) @@ ("link" :> 4) @@
    ("big.txt" :> 7)

\* One call each.
Inode(n, mode, map) == [call |-> "inode", name |-> n, mode |-> mode, map |-> map, indexed |-> FALSE]
Filled(n, logical) == [call |-> "block", name |-> n, holds |-> logical]
Blank(n) == Filled(n, -1)
Flat(n, extents, size, blocks) ==
    [call |-> "extents", name |-> n, extents |-> extents, size |-> size, blocks |-> blocks]
Tree(n, extents, size, blocks) == [Flat(n, extents, size, blocks) EXCEPT !.call = "indexed"]
Text(n, size) == [call |-> "text", name |-> n, text |-> n, size |-> size, blocks |-> 0]
Entries(n, k, names) == [call |-> "dir", name |-> n, into |-> k, names |-> names]

\* Most directories, and most files, have one block.
Block1 == <<<<0, 1, 1>>>>
Same(names) == [k \in DOMAIN names |-> <<names[k], names[k]>>]
WithDots(d, names) == <<<<".", d>>, <<"..", "root">>>> \o Same(names)

-----------------------------------------------------------------------------
(* build_ext4                                                              *)

Ext4Shape ==
    [bs |-> 4096, total |-> 4096, bpg |-> 1024, ipg |-> 64, isize |-> 256, desc |-> 64, align |-> 8, gdt |-> 1,
     super |-> [is |-> "super", blocks |-> 4096, bpg |-> 1024, inodes |-> 256, ipg |-> 64, isize |-> 256,
                log |-> 2, wide |-> TRUE, desc |-> 64, label |-> "testvol", free |-> 0]]

RootNames == <<"hello.txt", "subdir", "sparse.bin", "frag.bin", "longlink", "fastlink", "inline.txt",
               "big", "zh_file", "zh_dir">>

Ext4Inodes == <<
    Inode("hello.txt", "file", "extents"), Inode("subdir", "dir", "extents"),
    Inode("sparse.bin", "file", "extents"), Inode("frag.bin", "file", "extents"),
    Inode("longlink", "link", "extents"), Inode("fastlink", "link", "pointers"),
    Inode("inline.txt", "file", "inline"), [Inode("big", "dir", "extents") EXCEPT !.indexed = TRUE],
    Inode("inner.txt", "file", "extents"), Inode("link", "link", "pointers"),
    Inode("zh_file", "file", "extents"), Inode("zh_dir", "dir", "extents"),
    Inode("zh_inner", "file", "extents")>>

Ext4Root == <<Entries("root", 1, WithDots("root", RootNames)), Flat("root", Block1, 4096, 8)>>

Ext4Chinese ==
    <<Filled("zh_file", 0), Flat("zh_file", Block1, 31, 8),
      Blank("zh_dir"), Filled("zh_inner", 0), Flat("zh_inner", Block1, 17, 8),
      Entries("zh_dir", 1, WithDots("zh_dir", <<"zh_inner">>)), Flat("zh_dir", Block1, 4096, 8)>>

\* hello.txt has its first two blocks in one extent.
Ext4Files ==
    <<Filled("hello.txt", 0), Filled("hello.txt", 1), Filled("hello.txt", 2),
      Flat("hello.txt", <<<<0, 2, 1>>, <<2, 1, 3>>>>, 2 * 4096 + 100, 3 * 8),
      Filled("sparse.bin", 0), Flat("sparse.bin", Block1, 3 * 4096 + 100, 8),
      Blank("frag.bin")>> \o
    [k \in 1 .. 5 |-> Filled("frag.bin", 10 * (k - 1))] \o
    <<Tree("frag.bin", [k \in 1 .. 5 |-> <<10 * (k - 1), 1, k + 1>>], 40 * 4096 + 100, 5 * 8)>>

Ext4Links ==
    <<Filled("longlink", 0), Flat("longlink", Block1, 83, 8), Text("fastlink", 10), Text("inline.txt", 18)>>

Ext4Subdir ==
    <<Blank("subdir"), Entries("subdir", 1, WithDots("subdir", <<"inner.txt", "link">>)),
      Flat("subdir", Block1, 4096, 8),
      Filled("inner.txt", 0), Flat("inner.txt", Block1, 4096, 8), Text("link", 12)>>

\* The second of its three blocks is a filler, so that the leaf, logical block 1, is
\* not the block after the root.
Ext4Big ==
    [k \in 1 .. Many |-> Inode(Nth(k), "file", "extents")] \o
    <<Blank("big"), Blank("big"), Blank("big"), Flat("big", <<<<0, 1, 1>>, <<1, 1, 3>>>>, 2 * 4096, 16),
      Entries("big", 3, Same(ManyNames)),
      [call |-> "dx_root", name |-> "big", into |-> 1, leaf |-> 1]>>

Ext4Calls ==
    <<Inode("root", "dir", "extents"), Blank("root")>> \o Ext4Inodes \o
    Ext4Root \o Ext4Chinese \o Ext4Files \o Ext4Links \o Ext4Subdir \o Ext4Big

-----------------------------------------------------------------------------
(* build_ext2                                                              *)

Ext2Shape ==
    [bs |-> 1024, total |-> 2048, bpg |-> 1024, ipg |-> 64, isize |-> 128, desc |-> 32, align |-> 4, gdt |-> 2,
     super |-> [is |-> "super", blocks |-> 2048, bpg |-> 1024, inodes |-> 128, ipg |-> 64, isize |-> 128,
                log |-> 0, wide |-> FALSE, desc |-> 0, label |-> "ext2vol", free |-> 0]]

Points(n, pointers, size, blocks) ==
    [call |-> "pointers", name |-> n, pointers |-> pointers, size |-> size, blocks |-> blocks]
Indirect(n, into, from, count) == [call |-> "indirect", name |-> n, into |-> into, from |-> from, count |-> count]

\* 300 blocks of data, then a single, a double indirect block, and the one below it.
Ext2Calls ==
    <<Inode("root", "dir", "pointers"), Blank("root"), Points("root", <<<<0, 1>>>>, 1024, 2)>> \o
    [k \in 1 .. 300 |-> Filled("big.txt", k - 1)] \o
    <<Inode("big.txt", "file", "pointers"),
      Blank("big.txt"), Indirect("big.txt", 301, 13, 256),
      Blank("big.txt"), Blank("big.txt"), Indirect("big.txt", 303, 269, 32), Indirect("big.txt", 302, 303, 1),
      Points("big.txt", [k \in 1 .. 12 |-> <<k - 1, k>>] \o <<<<12, 301>>, <<13, 302>>>>, 300 * 1024, 303 * 2),
      Entries("root", 1, WithDots("root", <<"big.txt">>))>>

TestShape == ("ext4" :> Ext4Shape) @@ ("ext2" :> Ext2Shape)
TestCalls == ("ext4" :> Ext4Calls) @@ ("ext2" :> Ext2Calls)

-----------------------------------------------------------------------------
(* The images as the reader sees them.                                     *)

BlockOf(disk, v, b) == At(disk, v.start + b * BlockUnits(v.sb))
BlockBytes(sb) == BlockUnits(sb) * UnitBytes
InodesPerBlock(sb) == BlockBytes(sb) \div sb.isize
Unused == [mode |-> "none"]
InodeIn(disk, v, b, k) ==
    LET byte == (k - 1) * v.sb.isize
        area == At(disk, v.start + b * BlockUnits(v.sb) + byte \div UnitBytes)
        place == (byte % UnitBytes) \div v.sb.isize
    IN  IF area.is = "inodes" /\ place \in DOMAIN area.slot THEN area.slot[place] ELSE Unused

\* Its inodes and blocks, found as ImageReader finds them.
Map(disk, v) == INSTANCE ImageMap WITH
    NBlocks <- v.sb.blocks, PerBlock <- InodesPerBlock(v.sb), PerGroup <- v.sb.ipg,
    NDirect <- 12, Ptrs <- BlockBytes(v.sb) \div 4, MaxWalk <- 16, LenBit <- 32768,
    Tables <- [g \in DOMAIN v.tables |-> v.tables[g][1]],
    InodesAt <- [b \in 0 .. v.sb.blocks - 1 |-> [k \in 1 .. InodesPerBlock(v.sb) |-> InodeIn(disk, v, b, k)]],
    NodeAt <- [b \in 0 .. v.sb.blocks - 1 |-> BlockOf(disk, v, b).node],
    PtrsAt <- [b \in 0 .. v.sb.blocks - 1 |-> BlockOf(disk, v, b).ptr]

\* And its directories listed as DirListing lists them.
List(words, directory) == INSTANCE DirListing WITH
    Directory <- <<directory>>, BlockLen <- words, Levels <- 2

NoHeader == [ino |-> 0, rec |-> 0, words |-> 0, name |-> ""]
ListingOf(disk, v, x) ==
    LET words == BlockBytes(v.sb) \div 4
        Seen(b) == [BlockOf(disk, v, b) EXCEPT !.at =
                       [o \in 0 .. words |-> IF o \in DOMAIN @ THEN @[o] ELSE NoHeader]]
        blocks == [l \in 1 .. DivCeil(x.size, 4 * words) |-> Seen(Map(disk, v)!Paddr(x, l - 1))]
    IN  List(words, [indexed |-> x.indexed, block |-> blocks])!Listing[1]

-----------------------------------------------------------------------------
(* What the images are made to hold.                                       *)

DirOf(n, below) == [name |-> n, mode |-> "dir", names |-> below]
FileOf(n, size, written) == [name |-> n, mode |-> "file", size |-> size, written |-> written]
LinkOf(n, size, written) == [FileOf(n, size, written) EXCEPT !.mode = "link"]
InInode == {-1}

Holding == [i \in {"ext4", "ext2"} |->
    IF i = "ext2"
    THEN {DirOf("root", {"big.txt"}), FileOf("big.txt", 307200, 0 .. 299)}
    ELSE {DirOf("root", ToSet(RootNames)), DirOf("subdir", {"inner.txt", "link"}), DirOf("zh_dir", {"zh_inner"}),
          DirOf("big", ToSet(ManyNames)),
          FileOf("hello.txt", 8292, 0 .. 2), FileOf("sparse.bin", 12388, {0}), LinkOf("longlink", 83, {0}),
          FileOf("frag.bin", 163940, {0, 10, 20, 30, 40}), FileOf("zh_file", 31, {0}), FileOf("zh_inner", 17, {0}),
          FileOf("inner.txt", 4096, {0}), FileOf("inline.txt", 18, InInode), LinkOf("fastlink", 10, InInode),
          LinkOf("link", 12, InInode)} \cup {FileOf(n, 0, {}) : n \in ToSet(ManyNames)}]

\* is_fast_symlink, and the flag for inline data.
DataInInode(x) == x.map = "inline" \/ (x.mode = "link" /\ x.size <= 60 /\ x.blocks = 0)

\* The blocks of a file, each one its own, and zeros everywhere else.
FileReadsBack(disk, v, x, f) ==
    IF f.written = InInode THEN DataInInode(x) /\ x.text = f.name
    ELSE /\ ~DataInInode(x)
         /\ \A l \in 0 .. DivCeil(x.size, BlockBytes(v.sb)) - 1 :
               LET p == Map(disk, v)!Paddr(x, l) IN
               IF l \notin f.written THEN p = Map(disk, v)!Hole
               ELSE p > 0 /\ BlockOf(disk, v, p) = [is |-> "data", file |-> f.name, logical |-> l]

\* A directory lists its names, each with the inode that was made for it.
DirReadsBack(disk, v, x, d, all) ==
    LET listing == ListingOf(disk, v, x)
        OfName(n) == CHOOSE f \in all : f.name = n
    IN  /\ listing.ok
        /\ ToSet([k \in DOMAIN listing.list |-> listing.list[k].name]) = d.names \cup {".", ".."}
        /\ Len(listing.list) = Cardinality(d.names) + 2
        /\ \A e \in ToSet(listing.list) : e.name \in d.names =>
               LET f == OfName(e.name)
                   y == Map(disk, v)!InodeOf(e.ino)
               IN  /\ y.mode = f.mode
                   /\ f.mode # "dir" => y.size = f.size /\ FileReadsBack(disk, v, y, f)

\* From the root, or from a name in it, to each directory.
DirInode(disk, v, d) ==
    LET root == Map(disk, v)!InodeOf(2)
        entry == SelectSeq(ListingOf(disk, v, root).list, LAMBDA e : e.name = d.name)
    IN  IF d.name = "root" THEN root
        ELSE IF entry = <<>> THEN Unused ELSE Map(disk, v)!InodeOf(entry[1].ino)

VolumeReadsBack(name) ==
    LET disk == saved[name]
        v == Opened(disk, 0)
    IN  /\ v.is = "open" /\ Len(v.tables) = GroupsOf(Shape[name])
        /\ \A d \in {f \in Holding[name] : f.mode = "dir"} :
               LET x == DirInode(disk, v, d)
               IN  x.mode = "dir" /\ DirReadsBack(disk, v, x, d, Holding[name])

\* The one partition of a wrapped image is the image.
WrappedReadsBack(name) ==
    LET disk == saved[name]
        ext == saved["ext4"]
    IN  /\ Rows(disk, 1, Table(disk, 1), {}) =
               <<[index |-> 1, start |-> StartLba, sectors |-> ext.len, fs |-> "ext2/3/4", label |-> "testvol"]>>
        /\ StartLba + ext.len <= disk.len
        /\ \A u \in DOMAIN ext.at : At(disk, StartLba + u) = ext.at[u]

\* "constructs a valid ext4 image and a valid ext2 image": the reader finds in
\* the images every directory, file and link that was put there, with its size,
\* its blocks and its holes, in whatever group they lie; and in the wrapped ones
\* the first image, as their only partition.
ReadsBack ==
    "gpt" \in DOMAIN saved =>
        /\ \A i \in ToSet(Image) : VolumeReadsBack(i)
        /\ \A w \in {"mbr", "gpt"} : WrappedReadsBack(w)

=============================================================================
