--------------------------- MODULE ImageReaderMC ----------------------------
(***************************************************************************)
(* A small image for ImageReader.  Block 0 is never mapped; 1, 2, then 3,  *)
(* 4, then 22, 23 hold the inode tables of three groups, 5 to 8 and 20     *)
(* extent nodes, 9 to 13 pointers, and the others data.                    *)
(***************************************************************************)
EXTENDS ImageReader, TLC

MCTable == <<1, 3, 22>>
MCNBlocks == 32

Index(f, c) == [first |-> f, child |-> c]
Run(f, n, s) == [first |-> f, len_raw |-> n, start |-> s]
Reserved(f, n) == Run(f, LenBit + n, 14)
ExtNode(d, e) == [magic |-> TRUE, depth |-> d, entries |-> e]
NoNode == [magic |-> FALSE, depth |-> 0, entries |-> <<>>]
NoPtrs == <<0, 0, 0, 0>>

NewInode(n, map, size, root, block, sound) ==
    [ino |-> n, map |-> map, size |-> size, root |-> root, block |-> block,
     block_raw |-> <<>>, body |-> <<>>, extra |-> 1, held |-> <<>>, sound |-> sound]
ByExtents(n, size, root, sound) == NewInode(n, "extents", size, root, NoPtrs, sound)
ByPointers(n, size, block, sound) == NewInode(n, "indirect", size, NoNode, block, sound)
Within(n, map, size, raw, body, held, sound) ==
    [NewInode(n, map, size, NoNode, NoPtrs, sound) EXCEPT !.block_raw = raw, !.body = body, !.held = held]
NoInode == ByPointers(0, 0, NoPtrs, FALSE)

\* 1: all three levels of pointers, with holes, and half a block at the end.
\* 2: extents in the inode, with a hole and an unwritten extent.
\* 3: an extent tree of three levels.
\* 4: inline data.
\* 5: an extent tree whose file begins with a hole.
\* 6: a block, and an index that points to itself.  7: a run that ends beyond the device.
\* 8: a short file.  9: a fast link.  10: inline data that overrun the inode.
\* 11: an extent as long as one that is written can be.
MCInodes == <<
    ByPointers(1, 17, <<14, 9, 10, 11>>, TRUE),
    ByExtents(2, 11, ExtNode(0, <<Run(0, 2, 14), Reserved(3, 1), Run(4, 2, 17)>>), TRUE),
    ByExtents(3, 10, ExtNode(2, <<Index(0, 5)>>), TRUE),
    Within(4, "inline", 2, <<0, 0, 0>>, <<0, -1, -2>>, <<-1, -2>>, TRUE),
    ByExtents(5, 4, ExtNode(1, <<Index(1, 6)>>), TRUE),
    ByExtents(6, 4, ExtNode(1, <<Index(0, 20), Index(1, 8)>>), FALSE),
    ByExtents(7, 4, ExtNode(0, <<Run(0, 2, 31)>>), FALSE),
    ByPointers(8, 3, <<15, 9, 0, 0>>, TRUE),
    Within(9, "fast", 2, <<-3, -4, 0>>, <<0>>, <<>>, TRUE),
    Within(10, "inline", 3, <<0, 0, 0>>, <<0, -5>>, <<-5, -6, -7>>, FALSE),
    ByExtents(11, 8, ExtNode(0, <<Run(0, LenBit, 14)>>), TRUE),
    ByPointers(12, 0, NoPtrs, TRUE)>>

Pair(k) == <<MCInodes[2 * k - 1], MCInodes[2 * k]>>
MCInodesAt == [b \in Block |->
    CASE b \in 1 .. 4 -> Pair(b) [] b \in 22 .. 23 -> Pair(b - 17) [] OTHER -> <<NoInode, NoInode>>]
MCNodeAt == [b \in Block |->
    CASE b = 5 -> ExtNode(1, <<Index(0, 6), Index(3, 7)>>)
      [] b = 6 -> ExtNode(0, <<Run(1, 2, 16)>>)
      [] b = 7 -> ExtNode(0, <<Run(3, 2, 18)>>)
      [] b = 8 -> ExtNode(1, <<Index(0, 8)>>)
      [] b = 20 -> ExtNode(0, <<Run(0, 1, 14)>>)
      [] OTHER -> NoNode]
MCPtrsAt == [b \in Block |->
    CASE b = 9 -> <<0, 16>>
      [] b = 10 -> <<12, 0>>
      [] b = 11 -> <<13, 0>>
      [] b = 12 -> <<17, 18>>
      [] b = 13 -> <<12, 9>>
      [] OTHER -> <<0, 0>>]

\* The blocks of a file below each node, of every file of the image.
MCSpan == (InInode :> <<0, 99>>) @@ (5 :> <<0, 5>>) @@ (6 :> <<1, 3>>) @@ (7 :> <<3, 5>>) @@
          (8 :> <<1, 9>>) @@ (20 :> <<0, 1>>)

\* All files but the last are in order, as the theorem that streams are faithful
\* asks of them, those with a circle or an end beyond the device too; and so lookups
\* are right.
Beyond == {11}
ASSUME SoundAssumption == \A n \in Wanted \ Beyond : Sound(MCInodes[n], MCSpan)
ASSUME MapsAssumption == Wanted \cap Beyond # {} \/ MapsRight

AllInos == (1 .. 7) \cup {9, 10}
FullInos == {2, 11}
MCBatches == {{2, 6}}
NoBatch == {{}}
\* A file that begins with a hole, and the same without.
HoleInos == {3, 5}
OneBatch == {{1, 2, 3}}
OneIno == {4}

=============================================================================
