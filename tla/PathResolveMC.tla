--------------------------- MODULE PathResolveMC ----------------------------
(***************************************************************************)
(* Small file systems for PathResolve, and what their directories were     *)
(* made to hold.                                                           *)
(***************************************************************************)
EXTENDS PathResolve, FiniteSets, TLC

\*  /        1      d  -> 2, f -> 3, l -> 4, m -> 5
\*  /d       2      g  -> 6, k -> 7
\*  f, g are files; l, m and k are links.
MCIno == 1 .. 7
MCKind == <<"dir", "dir", "file", "link", "link", "file", "link">>
\* What the directories were made to hold: MCRoot and MCDir are the blocks, the
\* entries here are the names that are in use.
RootEntry == [n \in {"..", "d", "f", "l", "m"} |->
                CASE n = ".." -> 1 [] n = "d" -> 2 [] n = "f" -> 3 [] n = "l" -> 4 [] n = "m" -> 5]
DirEntry == [n \in {"..", "g", "k"} |-> CASE n = ".." -> 1 [] n = "g" -> 6 [] n = "k" -> 7]

EntryOf == 1 :> RootEntry @@ 2 :> DirEntry

To(c) == [absolute |-> FALSE, comps |-> c]
ToRoot(c) == [absolute |-> TRUE, comps |-> c]
\* A block of 16 words.  Entries of 3 words; the last one's rec_len takes what is
\* left of the block.
Entry(off, ino, rec, name) == off :> [ino |-> ino, rec |-> rec, words |-> 1, name |-> name]
Free(off, rec) == Entry(off, 0, rec, "gone")
BlockOf(entries, levels, child) ==
    [at |-> entries @@ [off \in 0 .. BlockLen |-> [ino |-> 0, rec |-> 0, words |-> 0, name |-> ""]],
     levels |-> levels, child |-> child]
Leaf(entries) == BlockOf(entries, 0, <<>>)
IndexNode(child) == BlockOf(Free(0, BlockLen), 0, child)
IndexRoot(dot, dotdot, levels, child) ==
    BlockOf(Entry(0, dot, 3, ".") @@ Entry(3, dotdot, BlockLen - 3, ".."), levels, child)

\* The root, linear: an entry deleted at the head of a block, one whose header
\* is still there in the slack of another, a hole, and a block in mid-use.
MCRoot == [indexed |-> FALSE, block |-> <<
    Leaf(Entry(0, 1, 3, ".") @@ Entry(3, 1, 3, "..") @@ Entry(6, 2, 6, "d") @@ Entry(9, 6, 3, "m")
         @@ Entry(12, 3, 4, "f")),
    Hole,
    Leaf(Free(0, 3) @@ Entry(3, 4, 3, "l") @@ Entry(6, 5, 10, "m"))>>]

\* /d, with a hash tree: node 1 below the root, 2 and 3 below it, leaves 4 to 6.
Tall == [indexed |-> TRUE, block |-> <<
    IndexRoot(2, 1, 2, <<1>>), IndexNode(<<2, 3>>), IndexNode(<<4, 5>>), IndexNode(<<6>>),
    Leaf(Entry(0, 6, 16, "g")), Leaf(Free(0, 16)), Leaf(Free(0, 3) @@ Entry(3, 7, 13, "k"))>>]
Flat == [indexed |-> TRUE, block |-> <<
    IndexRoot(2, 1, 0, <<2, 1>>), Leaf(Entry(0, 6, 16, "g")), Leaf(Entry(0, 7, 16, "k"))>>]

\* What may be wrong with it: an index that leads to a hole, and an entry or a
\* name that overruns its block, behind a name that could be listed.
ToHole == [Tall EXCEPT !.block[7] = Hole]
LongEntry == [Flat EXCEPT !.block[2] = Leaf(Entry(0, 6, 3, "g") @@ Entry(3, 7, 14, "k"))]
LongName == [Flat EXCEPT !.block[2].at[0].words = 15]
MCDirectory == <<MCRoot, Tall, Flat, ToHole, LongEntry, LongName>>
Torn == {4, 5, 6}

FsWith(l, m, k, d) ==
    [kind |-> MCKind,
     dir |-> (1 :> 1 @@ 2 :> d),
     target |-> [x \in {4, 5, 7} |-> CASE x = 4 -> l [] x = 5 -> m [] x = 7 -> k]]
Fs(l, m, k) == FsWith(l, m, k, 2)

\* Absolute targets may go round in a circle; relative ones only point onward,
\* from l to m to k.
Anywhere == {ToRoot(c) : c \in {<<"d">>, <<"l">>, <<"m">>, <<"d", "k">>}}
ForL == {To(c) : c \in {<<>>, <<"m">>, <<"d", "k">>}}
ForM == {To(c) : c \in {<<"..", "d">>, <<"d", "k">>}}
ForK == {To(c) : c \in {<<>>, <<"..">>, <<"..", "f">>}}

OnwardTrees == {Fs(l, m, k) : l \in Anywhere \cup ForL, m \in Anywhere \cup ForM,
                             k \in Anywhere \cup ForK}
OddTrees == {FsWith(To(<<>>), To(<<"d", "k">>), To(<<>>), d) : d \in {3} \cup Torn}
AllTrees == OnwardTrees \cup OddTrees
MCPaths == {<<>>, <<"l">>, <<"l", "g">>, <<"l", "..", "d">>, <<"d", "k">>, <<"d", "k", "..", "m">>}

\* Two links to each other.
CircleTrees == {Fs(To(<<"m">>), To(<<"l">>), To(<<"g">>))}
CirclePaths == {<<"l">>}

\* No path here meets more names and links than this without going round in a circle.
MCDepths == 0 .. 12
MCNames == {"..", "d", "f", "g", "k", "l", "m"}


=============================================================================
