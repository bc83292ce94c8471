------------------------------ MODULE CopyTree ------------------------------
(***************************************************************************)
(* The two depth-first walks of src/ext4/copy.rs over a tree of the image: *)
(* collect_plan, which makes the list of jobs that CopyPool works off, and *)
(* extract_node, which copies as it goes.  The recursion is kept as a      *)
(* stack of calls.  A name is a sequence of characters, because what       *)
(* sanitize_name does to it decides where a file goes; a path is the       *)
(* sequence of names below the item asked for.                             *)
(***************************************************************************)
EXTENDS Integers, Sequences, FiniteSets, FiniteSetsExt, SequencesExt

CONSTANTS
    Ino,        \* inode numbers
    Top,        \* the inode asked for
    Image,      \* the images to look at
    Given,      \* names for the destination, chosen by the caller
    MaxDepth,   \* the deepest call that still copies (64 in the code)
    Broken,     \* the answer of resolve for a broken link
    Endless     \* for a link at which resolve goes round and never returns

\* An image: what each inode is; the entries of a directory, in order; what
\* resolve answers for a link (PathResolve), never a link again, and no answer
\* at all for a circle of relative links; the inodes that cannot be read
\* ("sick"), and those whose data cannot ("torn").
ASSUME TreeAssumption ==
    /\ Top \in Ino /\ Broken \notin Ino /\ Endless \notin Ino /\ Endless # Broken
    /\ MaxDepth \in Nat
    /\ \A m \in Image :
          /\ m.kind \in [Ino -> {"dir", "file", "link"}]
          /\ m.size \in [Ino -> Nat]
          /\ \A x \in Ino : m.kind[x] = "dir" =>
                m.list[x] \in Seq([name : Seq(STRING), ino : Ino])
          /\ \A x \in Ino : m.kind[x] = "link" =>
                /\ m.answer[x] \in Ino \cup {Broken, Endless}
                /\ m.answer[x] \in Ino => m.kind[m.answer[x]] # "link"
          /\ m.sick \subseteq Ino /\ m.torn \subseteq Ino

VARIABLES
    image,      \* the image
    mode,       \* "plan": collect_plan; "extract": extract_node
    stack,      \* the calls under way, the innermost last
    ret,        \* what the call that just ended returned, or "none"
    out,        \* the jobs, or the directories and files created, in order
    errors,     \* the errors recorded, as <<what, path>>
    done,       \* CopyProgress.done
    bytes,      \* CopyProgress.bytes
    cancel,     \* the cancel flag
    atCancel    \* auxiliary: Len(out) when the flag was set

progress == <<done, bytes>>
results == <<out, errors, progress>>
flag == <<cancel, atCancel>>
vars == <<image, mode, stack, ret, results, flag>>

-----------------------------------------------------------------------------
(* sanitize_name.  One letter stands for each class of characters: ":" for *)
(* the nine that are replaced, "^" for a control character, "n" and "N"    *)
(* for the letters of a device the code knows, <<"N">> (CON, COM1), "$"    *)
(* for one it does not know (CONIN$, COM and a superscript digit).         *)

Refused == {":"}
Trailing == {".", " "}
Reserved == {<<"N">>}
Upper(s) == [k \in DOMAIN s |-> IF s[k] = "n" THEN "N" ELSE s[k]]

Replaced(s) == [k \in DOMAIN s |-> IF s[k] \in Refused THEN "_" ELSE s[k]]
Stripped(s) == SubSeq(s, 1, Max({k \in DOMAIN s : s[k] \notin Trailing} \cup {0}))
BeforeDot(s) == SubSeq(s, 1, Min({k \in DOMAIN s : s[k] = "."} \cup {Len(s) + 1}) - 1)
IsReserved(s) == Upper(BeforeDot(s)) \in Reserved

\* Slip: to look for a device name before the trailing dots are gone.
SanitizeEarly(name) ==
    LET s == Replaced(name)
        t == IF Upper(s) \in Reserved THEN <<"_">> \o s ELSE s
    IN  IF Stripped(t) = <<>> THEN <<"_">> ELSE Stripped(t)
Sanitize(name) ==
    LET s == Stripped(Replaced(name))
        t == IF s = <<>> THEN <<"_">> ELSE s
    IN  IF IsReserved(t) THEN <<"_">> \o t ELSE t

-----------------------------------------------------------------------------
(* count_tree and count_tree_with_bytes, which follow no link.             *)

DotNames == {<<".">>, <<".", ".">>}
IsDir(x) == image.kind[x] = "dir"

\* The entries of a directory that lead on, by their places in the list.
Children(x) == {j \in DOMAIN image.list[x] : image.list[x][j].name \notin DotNames}

\* The levels that are counted, and a slip that stops one short.
LevelsShort == MaxDepth
Levels == MaxDepth + 1

\* The sum over the entries of a directory.
Share(e, of) == IF e.name \in DotNames THEN 0 ELSE of[e.ino]
Gathered(x, of) ==
    LET upto[i \in 0 .. Len(image.list[x])] ==
            IF i = 0 THEN 0 ELSE upto[i - 1] + Share(image.list[x][i], of)
    IN  upto[Len(image.list[x])]

\* The sum of the weights of what is met within so many levels of each inode.
Within(weight) ==
    LET within[k \in 0 .. Levels] == [x \in Ino |->
            IF k = 0 THEN 0
            ELSE IF x \in image.sick \/ ~IsDir(x) \/ x \in image.torn THEN weight[x]
            ELSE weight[x] + Gathered(x, within[k - 1])]
    IN  within
Counted(weight) == Within(weight)[Levels][Top]

Ones == [x \in Ino |-> 1]
Sizes == [x \in Ino |-> IF x \in image.sick \/ IsDir(x) THEN 0 ELSE image.size[x]]
Items == Counted(Ones)
Bytes == Counted(Sizes)

-----------------------------------------------------------------------------
(* The walk.                                                               *)

Call(x, path, dest, depth) ==
    [ino |-> x, path |-> path, dest |-> dest, depth |-> depth, at |-> "look", left |-> <<>>]

Init ==
    /\ image \in Image
    /\ mode \in {"plan", "extract"}
    /\ \E name \in Given : stack = <<Call(Top, <<>>, <<name>>, 0)>>
    /\ ret = "none"
    /\ out = <<>>
    /\ errors = {}
    /\ done = 0
    /\ bytes = 0
    /\ cancel = FALSE
    /\ atCancel = 0

Now == Last(stack)
At(label) == stack # <<>> /\ ret = "none" /\ Now.at = label
MoveTo(label) == stack' = [stack EXCEPT ![Len(stack)].at = label] /\ UNCHANGED ret
Return(r) == stack' = Front(stack) /\ ret' = r
Report(what, path) == errors' = errors \cup {<<what, path>>}
Output(kind) ==
    out' = Append(out, [kind |-> kind, ino |-> Now.ino, path |-> Now.path, dest |-> Now.dest])

\* The cancel flag is read once in each call; slip: only in the first.
LooksOnce == cancel /\ Now.depth = 0
Stops == cancel

\* The depth check.
TooDeep == Now.depth > MaxDepth

\* The head of a call: cancel, the depth, the tick (extract_node with prog).
Look ==
    /\ At("look")
    /\ \/ Stops /\ Return("stopped") /\ UNCHANGED results
       \/ /\ ~Stops /\ TooDeep
          /\ Report("too deep", Now.path)
          /\ Return("ok") /\ UNCHANGED <<out, progress>>
       \/ /\ ~Stops /\ ~TooDeep
          /\ MoveTo("visit")
          /\ done' = IF mode = "extract" THEN done + 1 ELSE done
          /\ UNCHANGED <<out, errors, bytes>>
    /\ UNCHANGED <<image, mode, flag>>

Visiting == At("visit") /\ UNCHANGED <<image, mode, flag>>

\* Where a read that failed leaves the call; the slip tries again for ever.
RetryRead == MoveTo("visit")
GiveUp == Return("ok")

\* read_inode fails.
Unreadable ==
    /\ Visiting /\ Now.ino \in image.sick
    /\ Report("read", Now.path)
    /\ GiveUp
    /\ UNCHANGED <<out, progress>>

Readable(kind) == Visiting /\ Now.ino \notin image.sick /\ image.kind[Now.ino] = kind

\* create_dir_all or File::create fails.
DiskFails ==
    /\ mode = "extract"
    /\ Readable("dir") \/ Readable("file")
    /\ Report("disk", Now.path)
    /\ Return("ok")
    /\ UNCHANGED <<out, progress>>

\* A directory has a job of its own; slip: its files are left to make it.
OutputNothing == UNCHANGED out
OutputDir == Output("dir")

Directory ==
    /\ Readable("dir")
    /\ OutputDir
    /\ IF Now.ino \in image.torn
         THEN Report("read", Now.path) /\ Return("ok")
         ELSE /\ stack' = [stack EXCEPT ![Len(stack)] =
                              [@ EXCEPT !.at = "list", !.left = image.list[Now.ino]]]
              /\ UNCHANGED <<ret, errors>>
    /\ UNCHANGED progress

\* Is a new name worth a warning?  Slip: only if a character was replaced.
ChangedIfReplaced(name, safe) == Replaced(name) # name
Changed(name, safe) == safe # name

\* The next entry of a directory is walked under its safe name.
Entry ==
    LET e == Head(Now.left)
        path == Append(Now.path, e.name)
        safe == Sanitize(e.name)
    IN  /\ At("list") /\ Now.left # <<>> /\ e.name \notin DotNames
        /\ stack' = Append([stack EXCEPT ![Len(stack)].left = Tail(@)],
                           Call(e.ino, path, Append(Now.dest, safe), Now.depth + 1))
        /\ IF Changed(e.name, safe) THEN Report("renamed", path) ELSE UNCHANGED errors
        /\ UNCHANGED <<image, mode, ret, out, progress, flag>>

SkipDots ==
    /\ At("list") /\ Now.left # <<>> /\ Head(Now.left).name \in DotNames
    /\ stack' = [stack EXCEPT ![Len(stack)].left = Tail(@)]
    /\ UNCHANGED <<image, mode, ret, results, flag>>

EndOfList ==
    /\ At("list") /\ Now.left = <<>>
    /\ Return("ok")
    /\ UNCHANGED <<image, mode, results, flag>>

\* A link whose target cannot be read or resolved.
BrokenLink ==
    /\ Readable("link")
    /\ Now.ino \in image.torn \/ image.answer[Now.ino] = Broken
    /\ Report("broken", Now.path)
    /\ Return("ok")
    /\ UNCHANGED <<out, progress>>

\* The inode the file job of a link is for; the slip makes it the link's own.
LinkItself(x) == Now.ino
LinkTarget(x) == x

\* A link to something is copied as that thing: collect_plan walks on only into
\* a directory, and makes a file job of anything else, unreadable or not.
Link ==
    LET x == image.answer[Now.ino] IN
    /\ Readable("link") /\ Now.ino \notin image.torn /\ x \in Ino
    /\ IF mode = "plan" /\ (x \in image.sick \/ ~IsDir(x))
         THEN /\ out' = Append(out, [kind |-> "file", ino |-> LinkTarget(x),
                                     path |-> Now.path, dest |-> Now.dest])
              /\ Return("ok")
         ELSE /\ stack' = Append([stack EXCEPT ![Len(stack)].at = "link"],
                                 Call(x, Now.path, Now.dest, Now.depth + 1))
              /\ UNCHANGED <<ret, out>>
    /\ UNCHANGED <<errors, progress>>

\* A link at which resolve goes round for ever: the call is never taken up again,
\* and Cancel, which the walk looks at only when it begins a call, does not help.
Hung ==
    /\ At("visit") /\ Now.ino \notin image.sick /\ image.kind[Now.ino] = "link"
    /\ Now.ino \notin image.torn /\ image.answer[Now.ino] = Endless
Hang == Hung /\ UNCHANGED vars

\* A file is a job, or is copied on the spot, perhaps with a read or write error.
File ==
    /\ Readable("file")
    /\ Output("file")
    /\ IF mode = "extract"
         THEN /\ bytes' = bytes + image.size[Now.ino]
              /\ \/ Now.ino \notin image.torn /\ UNCHANGED errors
                 \/ Now.ino \in image.torn /\ Report("read", Now.path)
                 \/ Report("disk", Now.path)
         ELSE UNCHANGED <<bytes, errors>>
    /\ Return("ok")
    /\ UNCHANGED done

\* The caller of the call that ended.  A directory passes "stopped" on; a link
\* does in extract_node, and in collect_plan it returns true all the same.
\* Slip: the directory goes on to its next entry.
PassNothing == FALSE
PassesOn == ret = "stopped"

Resume ==
    /\ stack # <<>> /\ ret # "none"
    /\ IF Now.at = "list"
         THEN IF PassesOn THEN Return(ret) ELSE ret' = "none" /\ UNCHANGED stack
         ELSE Return(IF mode = "extract" THEN ret ELSE "ok")
    /\ UNCHANGED <<image, mode, results, flag>>

PressCancel ==
    /\ ~cancel /\ stack # <<>>
    /\ cancel' = TRUE
    /\ atCancel' = Len(out)
    /\ UNCHANGED <<image, mode, stack, ret, results>>

Walk ==
    \/ Look \/ Unreadable \/ DiskFails \/ Directory \/ Entry \/ SkipDots \/ EndOfList
    \/ BrokenLink \/ Link \/ File \/ Resume

Finished == stack = <<>>
Next == Walk \/ PressCancel \/ Hang \/ (Finished /\ UNCHANGED vars)

Spec == Init /\ [][Next]_vars
FairSpec == Spec /\ WF_vars(Walk)

-----------------------------------------------------------------------------
(* What the walks promise.                                                 *)

OutRange == DOMAIN out
Outcome == {"too deep", "read", "disk", "broken"}

\* "Best effort": a walk that was not cut short has dealt with the item asked
\* for and with every entry of every directory it lists, however many of them
\* failed: each was copied (or made a job) or is named in an error.  A walk by
\* extract_node that was cut short never says it went to the end.
Accounted == {out[k].path : k \in OutRange} \cup {e[2] : e \in {d \in errors : d[1] \in Outcome}}
WholeWalk == Finished /\ (~cancel \/ (mode = "extract" /\ ret = "ok"))
NothingForgotten ==
    WholeWalk =>
        /\ <<>> \in Accounted
        /\ \A k \in OutRange : out[k].kind = "dir" /\ out[k].ino \notin image.torn =>
              \A j \in Children(out[k].ino) :
                  Append(out[k].path, image.list[out[k].ino][j].name) \in Accounted

\* What is copied to a place is what the path names there, links followed, even
\* when the walk came through other links on the way: the item asked for, or what
\* the entry of that name leads to in the directory that was copied to the parent's
\* place.
Follow(x) == IF image.kind[x] = "link" THEN image.answer[x] ELSE x
Holds(d, item) ==
    /\ d.kind = "dir" /\ d.path = Front(item.path) /\ d.dest = Front(item.dest)
    /\ \E j \in Children(d.ino) : LET e == image.list[d.ino][j] IN
          e.name = Last(item.path) /\ item.ino = Follow(e.ino)
RightInode ==
    \A k \in OutRange :
        IF out[k].path = <<>> THEN out[k].ino = Follow(Top)
        ELSE \E j \in OutRange : Holds(out[j], out[k])

\* Everything but the item asked for goes into a directory that came before it,
\* so the plan in order needs no directory that is not made yet.
ParentsFirst ==
    \A k \in OutRange : out[k].path # <<>> =>
        \E j \in 1 .. k - 1 :
            /\ out[j].kind = "dir"
            /\ out[j].path = Front(out[k].path)
            /\ out[j].dest = Front(out[k].dest)

\* What a Windows name is, by the rules of Windows and not by the code's: no
\* character of the nine and no control character, no dot or blank at the end, and
\* no device, with or without an extension, nor with blanks before the extension.
Forbidden == {":", "^"}
Devices == {<<"N">>, <<"$">>}
Stem(s) == LET b == BeforeDot(s) IN SubSeq(b, 1, Max({k \in DOMAIN b : b[k] # " "} \cup {0}))
Usable(s) ==
    /\ s # <<>>
    /\ \A k \in DOMAIN s : s[k] \notin Forbidden
    /\ Last(s) \notin {".", " "}
    /\ Upper(Stem(s)) \notin Devices

\* "Make a file name usable on Windows" (copy.rs:388): below the destination the
\* caller named, a name is one that Windows accepts, however many repairs it needs:
\* they do not undo each other.  This leaves out what sanitize_name does not look
\* for: control characters, a blank right before a dot, and devices it does not know.
Common(name) ==
    /\ \A k \in DOMAIN name : name[k] \notin {"^", "$"}
    /\ \A k \in 1 .. Len(name) - 1 : name[k] = " " => name[k + 1] # "."
LegalNames ==
    \A k \in OutRange : \A n \in 2 .. Len(out[k].dest) :
        Common(out[k].path[n - 1]) => Usable(out[k].dest[n])

\* On a tree without links the count made beforehand is what the walk then
\* meets, at the same depth limit, unreadable inodes included: the bar of an
\* undisturbed copy ends full.
LinkFree == \A x \in Ino : image.kind[x] # "link"
Undisturbed == Finished /\ ~cancel /\ \A e \in errors : e[1] # "disk"
CountAgrees ==
    LinkFree /\ Undisturbed =>
        IF mode = "extract"
          THEN done = Items /\ bytes = Bytes
          ELSE Len(out) + Cardinality({e \in errors : e[1] = "read" /\
                     \A k \in OutRange : out[k].path # e[2]}) = Items

\* After Cancel the call under way may still finish its item; no other item is
\* begun, at whatever depth the walk stands.
StopsSoon == cancel => Len(out) <= atCancel + 1

\* What a sound file system has: no two entries of one directory have one name.
NamesUnique ==
    \A m \in Image : \A x \in Ino : m.kind[x] = "dir" =>
        \A i, j \in DOMAIN m.list[x] :
            m.list[x][i].name = m.list[x][j].name /\ m.list[x][i].name \notin DotNames => i = j

\* sanitize_name may make two names equal, and then one copy overwrites the
\* other; but never without a warning that names one of them, or a directory on
\* the way to it, as renamed.
Renamed(path) == \E e \in errors : e[1] = "renamed" /\ IsPrefix(e[2], path)
ClashesReported ==
    \A j, k \in OutRange :
        j # k /\ out[j].dest = out[k].dest => Renamed(out[j].path) \/ Renamed(out[k].path)

\* Links may lead back into a directory the walk is in, and a directory may even
\* contain its own parent: the walk ends all the same, unless it comes to a link
\* at which resolve itself goes round (the run resolve_loop), and there it hangs.
Finishes == <>(Finished \/ Hung)

=============================================================================
