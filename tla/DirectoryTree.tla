---------------------------- MODULE DirectoryTree ----------------------------
(***************************************************************************)
(* The tree of directories beside the table (src/bin/ext4gui.rs): which    *)
(* directories are unfolded, the cache of their children, and what is      *)
(* drawn of it in every frame.  An image keeps, for each directory, its    *)
(* subdirectories in "dirs", in the order of its entries.  What opens the  *)
(* image and moves about in the table is left to the module that extends   *)
(* this one.                                                               *)
(***************************************************************************)
EXTENDS Integers, Sequences, SequencesExt, FiniteSets

CONSTANTS
    NoImage,
    Root        \* EXT4_ROOT_INO

VARIABLES
    fs,         \* the image that is open
    path,       \* the path shown, a sequence of names
    cache,      \* tree_cache: the children of each directory loaded so far, as sets:
                \*   they are drawn by name
    expanded,   \* tree_expanded: inode numbers
    alive,      \* FALSE once the program has died
    faulty      \* auxiliary: may reads of the image fail, this time?

tree == <<cache, expanded>>

Dots == {".", ".."}
NoNodes == <<>>
\* An entry may tell that it is of a directory (file_type 2), or leave it to the
\* inode, as in an image without the filetype feature.
Node(n, x) == [name |-> n, ino |-> x, told |-> TRUE]
Untold(n, x) == [name |-> n, ino |-> x, told |-> FALSE]

-----------------------------------------------------------------------------
(* What an image holds.                                                    *)

IsDir(f, d) == d \in DOMAIN f.dirs
Listing(f, d) == IF IsDir(f, d) THEN f.dirs[d] ELSE <<>>
Children(f, d) == ToSet(Listing(f, d))

\* lookup_dir, of a directory; 0 if there is no such directory.
Lookup(f, d, n) ==
    LET hits == SelectSeq(Listing(f, d), LAMBDA c : c.name = n)
    IN  IF hits = <<>> THEN 0 ELSE Head(hits).ino

-----------------------------------------------------------------------------
(* expand_path                                                             *)

\* The directories on the way, and 0 for the rest once a name is not found.  The
\* dots are passed over.
Way(f, p) ==
    LET way[k \in 0 .. Len(p)] ==
            IF k = 0 THEN Root
            ELSE IF p[k] \in Dots \/ way[k - 1] = 0 THEN way[k - 1]
            ELSE Lookup(f, way[k - 1], p[k])
    IN  way

\* A read that fails ends the way early.
ExpandPath(f, p) ==
    \E last \in IF faulty THEN 0 .. Len(p) ELSE {Len(p)} :
        expanded' = expanded \cup {Root} \cup ({Way(f, p)[k] : k \in 0 .. last} \ {0})

-----------------------------------------------------------------------------
(* render_tree                                                             *)

\* The directories whose children are drawn, below those of "c".
Drawn(c, open) ==
    LET level[k \in 0 .. Cardinality(DOMAIN c)] ==
            IF k = 0 THEN {Root}
            ELSE level[k - 1] \cup
                 {d \in open : \E p \in level[k - 1] \cap DOMAIN c : \E n \in c[p] : n.ino = d}
    IN  level[Cardinality(DOMAIN c)]

\* Some unfolded directories lie each below another of them, so one is drawn below
\* itself: the recursion of render_tree_node has no end.
RoundAbout(c, open) ==
    \E ring \in SUBSET (open \cap Drawn(c, open) \cap DOMAIN c) :
        /\ ring # {}
        /\ \A d \in ring : \E p \in ring : \E n \in c[p] : n.ino = d

\* load_tree_children: nothing of a directory that cannot be read, and not the
\* child whose inode had to be asked for and cannot.
Loads(d, bad, lost) ==
    IF d \in bad THEN {} ELSE {n \in Children(fs, d) : n.told \/ <<d, n>> \notin lost}

\* ensure_children: what is in the cache stays, so what is lost is lost for good.
LoadedBy(bad, lost) ==
    [d \in DOMAIN fs.dirs \cup DOMAIN cache |->
        IF d \in DOMAIN cache THEN cache[d] ELSE Loads(d, bad, lost)]

Unloaded == DOMAIN fs.dirs \ DOMAIN cache
Asked == UNION {{<<d, n>> : n \in {c \in Children(fs, d) : ~c.told}} : d \in Unloaded}

Draw ==
    /\ fs # NoImage
    /\ \E bad \in IF faulty THEN SUBSET Unloaded ELSE {{}},
          lost \in IF faulty THEN SUBSET Asked ELSE {{}} :
          LET all == LoadedBy(bad, lost)
              drawn == Drawn(all, expanded)
          IN  /\ cache' = [d \in (drawn \cap DOMAIN all) \cup DOMAIN cache |-> all[d]]
              /\ alive' = ~RoundAbout(all, expanded)
    /\ UNCHANGED <<fs, path, expanded>>

\* The arrow of a node that is drawn.
Arrow(d) ==
    /\ fs # NoImage
    /\ \E p \in Drawn(cache, expanded) \cap DOMAIN cache : \E n \in cache[p] : n.ino = d
    /\ expanded' = IF d \in expanded THEN expanded \ {d} ELSE expanded \cup {d}
    /\ UNCHANGED <<fs, path, cache, alive>>

\* A new image empties the cache and keeps the inode numbers; the slip keeps both.
CacheKept == cache
CacheCleared == <<>>

\* navigate_to and reload, whether or not the rows could be loaded.
NavigateTo(p) ==
    /\ path' = p
    /\ IF fs = NoImage THEN UNCHANGED expanded ELSE ExpandPath(fs, p)
    /\ UNCHANGED <<fs, cache, alive>>

\* The part of open_image_with_offset that is about the tree.
TreeOpened(f) ==
    /\ fs' = f /\ path' = <<>>
    /\ cache' = CacheCleared
    /\ ExpandPath(f, <<>>)

-----------------------------------------------------------------------------

\* What the tree shows below a directory are its subdirectories in the image
\* that is open: never those of an image opened before, although inode numbers
\* are the same in all of them.  All are shown unless reads fail; then none, or
\* not those whose entry leaves it to the inode that it is a directory
\* (load_tree_children, and the cache that ensure_children keeps).
TreeOfImage ==
    fs # NoImage =>
        \A d \in DOMAIN cache :
            /\ cache[d] \subseteq Children(fs, d)
            /\ ~faulty => cache[d] = Children(fs, d)
            /\ cache[d] = {} \/ {n \in Children(fs, d) : n.told} \subseteq cache[d]

\* Directories that lie each below another of them.
Circular(f) ==
    \E ring \in SUBSET DOMAIN f.dirs :
        /\ ring # {}
        /\ \A d \in ring : \E p \in ring : \E n \in Children(f, p) : n.ino = d

\* A way that needs no dots and is there in the image.
Straight(f, p) == ToSet(p) \cap Dots = {} /\ \A k \in 0 .. Len(p) : Way(f, p)[k] # 0

=============================================================================
