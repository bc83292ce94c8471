----------------------------- MODULE DirListing -----------------------------
(***************************************************************************)
(* Listing a directory (src/ext4/dir.rs): list_dir and lookup_dir, over a  *)
(* linear directory and over one with a hash tree.  A directory is         *)
(* [indexed, block]: block[l + 1] is its logical block l, or Hole; it is   *)
(* known by the number it has in Directory.                                *)
(*                                                                         *)
(* A block is seen in two ways.  "at" gives the entry header that stands   *)
(* at an offset, in words of 4 bytes; what lies between two headers is     *)
(* slack and may hold a header that was valid once.  "levels" and "child"  *)
(* are the fields of an index root or node.                                *)
(***************************************************************************)
EXTENDS Integers, Sequences, SequencesExt

CONSTANTS
    Directory,  \* the directories there are
    BlockLen,   \* words in a block
    Levels      \* levels of index nodes below the root, at most

\* The header of an entry, 8 bytes.
Header == 2

Hole == [hole |-> TRUE]
IsHole(b) == b = Hole

\* A listing, or the error that ended it.
Listed(entries) == [ok |-> TRUE, list |-> entries]
Corrupt == [ok |-> FALSE, list |-> <<>>]
Extended(sofar, part) ==
    IF sofar.ok /\ part.ok THEN Listed(sofar.list \o part.list) ELSE Corrupt
Joined(parts) == FoldLeft(Extended, Listed(<<>>), parts)

-----------------------------------------------------------------------------
(* parse_entries                                                           *)

\* "if ino != 0": an entry deleted where it stood is passed over.
Live(e) == e.ino # 0

Overruns(off, e) == off + e.rec > BlockLen \/ (Live(e) /\ off + Header + e.words > BlockLen)

\* From header to header by rec_len, to the end of the block or a rec_len of 0.
Parsed(b) ==
    LET from[off \in 0 .. BlockLen] ==
            IF off + Header > BlockLen \/ b.at[off].rec = 0 THEN Listed(<<>>)
            ELSE LET e == b.at[off] IN
                 IF Overruns(off, e) THEN Corrupt
                 ELSE LET rest == from[off + e.rec] IN
                      IF rest.ok /\ Live(e) THEN Listed(<<e>> \o rest.list) ELSE rest
    IN  from[0]

-----------------------------------------------------------------------------
(* list_dir                                                                *)

\* Every block of the directory, holes left out.
Linear(d) ==
    LET blocks == SelectSeq(d.block, LAMBDA b : ~IsHole(b))
    IN  Joined([k \in DOMAIN blocks |-> Parsed(blocks[k])])

\* "." and ".." stand at fixed offsets of the root.
Dots(root) == SelectSeq(<<root.at[0], root.at[3]>>, Live)

NextLevel(k) == k - 1

\* The leaves below logical block l, k levels of nodes down, each one parsed;
\* a hole, or a block past the end, is corrupt.
Below(d, height, logical) ==
    LET leaves[k \in 0 .. Levels, l \in Nat] ==
            IF l >= Len(d.block) \/ IsHole(d.block[l + 1]) THEN Corrupt
            ELSE LET b == d.block[l + 1] IN
                 IF k = 0 THEN Parsed(b)
                 ELSE Joined([j \in DOMAIN b.child |-> leaves[NextLevel(k), b.child[j]]])
    IN  leaves[height, logical]

Indexed(d) ==
    LET root == d.block[1] IN
    IF d.block = <<>> \/ IsHole(root) THEN Corrupt
    ELSE Joined(<<Listed(Dots(root))>> \o
                [j \in DOMAIN root.child |-> Below(d, root.levels, root.child[j])])

Listing == [d \in DOMAIN Directory |->
    IF Directory[d].indexed THEN Indexed(Directory[d]) ELSE Linear(Directory[d])]

\* lookup_dir: the first entry of the name.
Named(d, name) == {k \in DOMAIN Listing[d].list : Listing[d].list[k].name = name}
IsCorrupt(d) == ~Listing[d].ok
Has(d, name) == Named(d, name) # {}
Lookup(d, name) == Listing[d].list[Min(Named(d, name))].ino

=============================================================================
