------------------------------ MODULE Browser ------------------------------
(***************************************************************************)
(* The browser of src/bin/ext4gui.rs: the table of the current directory,  *)
(* its filter, order and selection, the details panel, the viewer of a     *)
(* file's contents, the context menu and the rename dialog, and what each  *)
(* of them hands to start_copy_job.  Every action is one input of the user *)
(* in one frame.  A path is the sequence of its components; a row is       *)
(* [name, ino, ft, size].                                                  *)
(*                                                                         *)
(* Left to other modules: which directories the tree has unfolded          *)
(* (DirectoryTree) and the refusal while a copy runs (GuiJob).             *)
(***************************************************************************)
EXTENDS Integers, Sequences, TLC, SequencesExt

CONSTANTS
    NoImage,
    Image,      \* the images to open
    Root,       \* EXT4_ROOT_INO
    Rank,       \* the place of each name in the order of names
    HasText,   \* for each filter, the names that contain it
    SortCol,    \* the columns that are clicked
    RenameOf,   \* bound: the names the rename dialog is opened for
    Unread,     \* bound: the rows a load may have no inode for
    Overlap,    \* bound: may the menu be opened while the dialog is open?
    MaxPath,    \* bound: the longest path
    Faulty      \* may a read of the image fail?

Name == DOMAIN Rank
Filter == DOMAIN HasText
Dots == {".", ".."}
Dir == 2
Blank == {"", " "}

\* An image: the entries of each directory, as list_dir gives them.
ASSUME BrowserAssumption ==
    /\ Rank \in [Name -> Nat] /\ Dots \subseteq Name
    /\ Blank \subseteq Filter /\ HasText \in [Filter -> SUBSET Name]
    /\ SortCol \subseteq {"type", "size", "name"}
    /\ MaxPath \in Nat /\ {Overlap, Faulty} \subseteq BOOLEAN
    /\ \A f \in Image : Root \in DOMAIN f.list /\
          \A d \in DOMAIN f.list :
              f.list[d] \in Seq([name : Name, ino : Nat, ft : Nat, size : Nat])

VARIABLES
    image,      \* "fs"
    path,       \* the path shown
    rows,       \* the rows of the table, those filtered out included
    error,      \* is an error shown?
    filter,     \* the text of the filter
    shown,      \* the indices of the rows that are visible; they are drawn in order
    sel,        \* the indices of the rows that are selected
    anchor,     \* where a range begins, or 0
    selected,   \* the row of the details panel, or 0
    content,    \* the inode in the viewer and its directory, or <<>>
    order,      \* the column and direction of the last sort
    menu,       \* the row the context menu is open for, or 0
    dialog,     \* the rename dialog, or <<>>
    job         \* auxiliary: what this step gave to start_copy_job

listing == <<image, path, rows>>
selection == <<sel, anchor, selected>>
table == <<rows, filter, shown, selection, order>>
vars == <<listing, error, filter, shown, selection, order, menu, dialog, content, job>>

Init ==
    /\ image = NoImage
    /\ path = <<>> /\ rows = <<>> /\ shown = {}
    /\ error = FALSE
    /\ filter = ""
    /\ sel = {} /\ anchor = 0 /\ selected = 0 /\ content = <<>>
    /\ order = <<"name", TRUE>>
    /\ menu = 0 /\ dialog = <<>>
    /\ job = {}

\* The j-th of some indices.
Place(S, j) == CHOOSE k \in S : Cardinality({i \in S : i <= k}) = j

-----------------------------------------------------------------------------
(* The image: resolve, without links, and the order of rows.               *)

Named(f, d, n) == {k \in DOMAIN f.list[d] : f.list[d][k].name = n}
Step(f, d, n) ==
    IF d \in DOMAIN f.list /\ Named(f, d, n) # {} THEN f.list[d][Min(Named(f, d, n))].ino ELSE 0
Resolved(f, p) ==
    LET at[k \in 0 .. Len(p)] ==
            IF k = 0 THEN Root ELSE IF p[k] = "." THEN at[k - 1] ELSE Step(f, at[k - 1], p[k])
    IN  at[Len(p)]
IsDirectory(f, p) == f # NoImage /\ Resolved(f, p) \in DOMAIN f.list

Key(e, col) ==
    CASE col = "type" -> e.ft
      [] col = "size" -> e.size
      [] col = "name" -> Rank[e.name]

\* A stable sort: each row stands behind those that come before it.  Descending
\* turns the comparison round, not the rows.
Before(s, col, asc, j, k) ==
    LET x == Key(s[j], col)
        y == Key(s[k], col)
    IN  IF x = y THEN j < k ELSE x < y <=> asc
Earlier(s, col, asc, j) == {i \in DOMAIN s : Before(s, col, asc, i, j)}
Sorted(s, col, asc) ==
    [k \in DOMAIN s |-> s[CHOOSE j \in DOMAIN s : Cardinality(Earlier(s, col, asc, j)) = k - 1]]

\* load_entries; "." and ".." are rows like any other.  A row whose inode
\* read_inodes_batch has no answer for gets the size 0, and nothing is said.
Sized(s, missing) == [k \in DOMAIN s |-> IF k \in missing THEN [s[k] EXCEPT !.size = 0] ELSE s[k]]
Loaded(f, p, missing) == Sized(Sorted(f.list[Resolved(f, p)], "name", TRUE), missing)

-----------------------------------------------------------------------------
(* recompute_shown and reload                                              *)

Visible(r, text) == {k \in DOMAIN r : text = "" \/ r[k].name \in HasText[text]}

ClearSelection == sel' = {} /\ anchor' = 0 /\ selected' = 0

\* Slip: the details are left on a row by its old place.
ClearSome == sel' = {} /\ anchor' = 0 /\ UNCHANGED selected
Cleared == ClearSelection

RecomputeShown == shown' = Visible(rows', filter') /\ Cleared

\* A reload that failed says so; the slip only keeps the old rows.
FailsQuietly == UNCHANGED error
Fails == error' = TRUE

\* The viewer is closed; slip: it stays.
ContentKept == UNCHANGED content
ContentClosed == content' = <<>>

\* The rows of a directory that cannot be loaded stay those of the last one.
Reload(f, p) ==
    /\ image' = f /\ path' = p
    /\ \/ /\ IsDirectory(f, p)
          /\ \E missing \in Unread : rows' = Loaded(f, p, missing)
          /\ error' = FALSE
       \/ /\ Faulty \/ ~IsDirectory(f, p)
          /\ Fails
          /\ UNCHANGED rows
    /\ ContentClosed
    /\ RecomputeShown

\* An input by the pointer closes an open menu; one by the keyboard does not.
Beside == menu' \in {0, menu} /\ job' = {} /\ UNCHANGED dialog

NavigateTo(p) == UNCHANGED <<filter, order>> /\ Reload(image, p) /\ Beside

-----------------------------------------------------------------------------
(* The panels at the top and the left                                      *)

Open(f) == UNCHANGED <<filter, order>> /\ Reload(f, <<>>) /\ Beside
OpenFails == error' = TRUE /\ Beside /\ UNCHANGED <<image, path, table, content>>

\* parent_path takes the last component away, whatever it is.
Up == NavigateTo(IF path = <<>> THEN path ELSE Front(path))
Home == NavigateTo(<<>>)
Refresh == NavigateTo(path)

\* breadcrumb_ui: the components but ".", up to the one clicked.
Crumb ==
    LET named == {k \in DOMAIN path : path[k] # "."}
        comps == [j \in 1 .. Cardinality(named) |-> path[Place(named, j)]]
    IN  image # NoImage /\ \E k \in 0 .. Len(comps) : NavigateTo(SubSeq(comps, 1, k))

\* render_tree: any directory below the root, by its names.
TreeNode ==
    /\ image # NoImage
    /\ \E p \in SeqOf(Name \ Dots, MaxPath) \ {<<>>} : IsDirectory(image, p) /\ NavigateTo(p)

\* The filter is edited.  A blank one is kept as it was typed.
EditFilter ==
    /\ image # NoImage
    /\ Beside /\ UNCHANGED order
    /\ \E text \in Filter \ {filter} :
          /\ filter' = text
          /\ \/ /\ text \in Blank /\ filter \in Blank
                /\ UNCHANGED <<listing, error, shown, selection, content>>
             \/ text \in Blank /\ filter \notin Blank /\ Reload(image, path)
             \/ text \notin Blank /\ UNCHANGED <<listing, error, content>> /\ RecomputeShown

-----------------------------------------------------------------------------
(* The table                                                               *)

InTable == image # NoImage /\ menu' = 0 /\ job' = {} /\ UNCHANGED dialog

\* apply_sort ends in recompute_shown; slip: the rows alone are put in order.
RowsMoved == UNCHANGED <<shown, selection>>
AfterSort == RecomputeShown

Sort ==
    /\ image # NoImage
    /\ \E col \in SortCol : order' = <<col, order[1] = col => ~order[2]>>
    /\ rows' = Sorted(rows, order'[1], order'[2])
    /\ UNCHANGED <<image, path, error, filter, content>>
    /\ AfterSort /\ Beside

\* select_range; slip: every row between, hidden or not.
AnyBetween(a, b) == {r \in DOMAIN rows : a <= r /\ r <= b}
ShownBetween(a, b) == {r \in shown : a <= r /\ r <= b}

\* apply_row_click: the selection after a click on row r.
Clicked(s, a, r, mod) ==
    CASE mod = "shift" /\ a # 0 -> IF a <= r THEN ShownBetween(a, r) ELSE ShownBetween(r, a)
      [] mod = "ctrl" -> IF r \in s THEN s \ {r} ELSE s \cup {r}
      [] OTHER -> {r}

Click ==
    /\ InTable
    /\ \E r \in shown, mod \in {"none", "ctrl", "shift"} :
          sel' = Clicked(sel, anchor, r, mod) /\ anchor' = r /\ selected' = r
    /\ UNCHANGED <<listing, error, filter, shown, order, content>>

ClickNowhere ==
    /\ InTable
    /\ ClearSelection
    /\ UNCHANGED <<listing, error, filter, shown, order, content>>

\* The frame of a double click counts as a click as well; then activate.
DoubleClick ==
    /\ InTable /\ UNCHANGED <<filter, order>>
    /\ \E r \in shown, mod \in {"none", "ctrl", "shift"} :
          \/ /\ rows[r].ft = Dir /\ Len(path) < MaxPath
             /\ Reload(image, Append(path, rows[r].name))
          \/ /\ rows[r].ft # Dir
             /\ sel' = Clicked(Clicked(sel, anchor, r, mod), r, r, mod)
             /\ anchor' = r /\ selected' = r
             /\ \/ content' = <<rows[r].ino, path>> /\ UNCHANGED error
                \/ Faulty /\ error' = TRUE /\ UNCHANGED content
             /\ UNCHANGED <<listing, shown>>

\* The rubber band over a run of rows.
Marquee ==
    /\ InTable
    /\ \E run \in {{}} \cup {ShownBetween(lo, hi) : lo, hi \in shown}, additive \in BOOLEAN :
          sel' = (IF additive THEN sel ELSE {}) \cup run
    /\ UNCHANGED <<listing, error, filter, shown, anchor, selected, order, content>>

\* Ctrl+A
SelectAll ==
    /\ image # NoImage
    /\ sel' = shown
    /\ selected' = IF shown = {} THEN 0 ELSE Min(shown)
    /\ job' = {}
    /\ UNCHANGED <<listing, error, filter, shown, anchor, order, menu, dialog, content>>

\* show_content: the viewer is closed by its button.
CloseContent ==
    /\ InTable /\ content # <<>> /\ content' = <<>>
    /\ UNCHANGED <<listing, error, filter, shown, selection, order>>

-----------------------------------------------------------------------------
(* Copies                                                                  *)

\* The row that an index in "sel" stands for; slip: a place in "shown".
RowAtPlace(i) == rows[IF i <= Cardinality(shown) THEN Place(shown, i) ELSE i]
RowOf(i) == rows[i]

Item(i) == [src |-> Append(path, RowOf(i).name), dest |-> RowOf(i).name, seen |-> rows[i].ino]
Unmoved == UNCHANGED <<image, path, error, table, content>>

\* extract_selected by its button, which needs a selection.
Extract ==
    /\ image # NoImage /\ sel # {}
    /\ job' = {Item(i) : i \in sel}
    /\ menu' \in {0, menu} /\ Unmoved /\ UNCHANGED dialog

\* A right click opens the menu, and selects the row if it was not selected.
RightClick ==
    /\ image # NoImage
    /\ \/ menu' = 0 /\ UNCHANGED selection
       \/ \E r \in shown :
             /\ dialog = <<>> \/ Overlap
             /\ menu' = r
             /\ IF r \in sel THEN UNCHANGED selection
                ELSE sel' = {r} /\ anchor' = r /\ selected' = r
    /\ job' = {}
    /\ UNCHANGED <<listing, error, filter, shown, order, dialog, content>>

InMenu == menu # 0 /\ menu' = 0 /\ Unmoved

\* copy_row_to_folder
CopyOne ==
    /\ InMenu
    /\ job' = {Item(i) : i \in {menu} \cap DOMAIN rows}
    /\ UNCHANGED dialog

CopyMany ==
    /\ InMenu /\ \E i, j \in sel : i # j
    /\ job' = {Item(i) : i \in sel}
    /\ UNCHANGED dialog

\* The dialog keeps a path, not a row; slip: the name only.  A row that is gone
\* leaves it the empty path.  Auxiliary: the image and inode meant, if no error
\* was shown.
SrcByName(i) == <<RowOf(i).name>>
SrcOf(i) == Append(path, RowOf(i).name)

Rename ==
    /\ InMenu /\ job' = {}
    /\ dialog' = [src |-> IF menu \in DOMAIN rows THEN SrcOf(menu) ELSE <<>>,
                  meant |-> IF menu \in DOMAIN rows /\ ~error THEN <<image, rows[menu].ino>>
                            ELSE <<>>]
    /\ menu \in DOMAIN rows => rows[menu].name \in RenameOf

\* show_rename_dialog: Copy hands over the path, for the image open by now.
Confirm ==
    /\ dialog # <<>>
    /\ dialog' = <<>>
    /\ job' = {dialog}
    /\ menu' \in {0, menu} /\ Unmoved

CloseDialog == dialog # <<>> /\ dialog' = <<>> /\ job' = {} /\ menu' \in {0, menu} /\ Unmoved

Navigate == Up \/ Home \/ Refresh \/ Crumb \/ TreeNode
Select == Click \/ ClickNowhere \/ Marquee \/ SelectAll \/ RightClick \/ CloseContent
Copy == Extract \/ CopyOne \/ CopyMany \/ Rename \/ Confirm \/ CloseDialog

Next ==
    \/ \E f \in Image : Open(f)
    \/ OpenFails \/ Navigate \/ EditFilter \/ Sort \/ DoubleClick \/ Select \/ Copy

Spec == Init /\ [][Next]_vars

-----------------------------------------------------------------------------
(* What the browser promises.                                              *)

\* A row shows an entry; its size may be missing, and is then 0.
Shows(r, e) ==
    /\ r.name = e.name /\ r.ino = e.ino /\ r.ft = e.ft
    /\ r.size \in {0, e.size}
RowsOf(r, s) ==
    /\ DOMAIN r = DOMAIN s
    /\ \E p \in Injection(DOMAIN s, DOMAIN s) : \A k \in DOMAIN s : Shows(r[k], s[p[k]])

\* As long as no error is shown there is one row for each entry of the path that
\* is shown, in the image that is open, whatever loads have failed before; the
\* size in it is the inode's, or 0 if that was not read.  The viewer shows a file
\* of that directory, error or not.
RowsOfPath ==
    /\ image # NoImage /\ ~error =>
          IsDirectory(image, path) /\ RowsOf(rows, image.list[Resolved(image, path)])
    /\ content # <<>> => content[2] = path /\ \E e \in ToSet(rows) : e.ino = content[1]

\* What is drawn are rows that exist, and all and only those the filter lets
\* through.  A blank filter may still show what another blank one did: an edit
\* from blank to blank is not looked at.
ShownRight ==
    \/ shown = Visible(rows, filter)
    \/ filter \in Blank /\ \E text \in Blank : shown = Visible(rows, text)

\* A row that is not visible is not selected, so that no copy takes an item the
\* user cannot see; nor are its details shown.
SelectionShown == sel \cup ({selected} \ {0}) \subseteq shown

\* A sound image: no name is in a directory twice, and "." is the directory itself.
ImagesSound ==
    \A f \in Image : \A d \in DOMAIN f.list : \A j \in DOMAIN f.list[d] :
        /\ f.list[d][j].name = "." => f.list[d][j].ino = d
        /\ \A k \in DOMAIN f.list[d] : f.list[d][j].name = f.list[d][k].name => j = k

\* What is copied is what the user saw.  By the button or the menu it is what the
\* rows showed, if no error was shown: the path made for each leads to its inode.
\* The rename dialog outlives navigation, sorting and filtering, and copies what
\* it was opened for all the same, as long as the image is still the same one.
OfRows(it) == "dest" \in DOMAIN it
CopiesRows ==
    \A it \in job :
        /\ OfRows(it) /\ ~error => Resolved(image, it.src) = it.seen
        /\ ~OfRows(it) /\ it.meant # <<>> /\ it.meant[1] = image =>
              Resolved(image, it.src) = it.meant[2]

=============================================================================
