------------------------------- MODULE GuiJob -------------------------------
(***************************************************************************)
(* The life of a copy started in the GUI (src/bin/ext4gui.rs): the frames  *)
(* of the UI thread, in the order App::ui calls their parts, beside the    *)
(* background threads that start_copy_job spawns.  Two threads share a     *)
(* job's cancel flag and its "done" slot.  What one copy_to_parallel does  *)
(* inside is CopyPool's; here an item begins, is under way and ends.       *)
(***************************************************************************)
EXTENDS Integers

CONSTANTS
    None,       \* no job
    MaxJobs,    \* bound: copies started in one session
    MaxItems,   \* bound: items selected for one copy
    Rename      \* does the user use "Copy to... (rename)"?

ASSUME GuiAssumption ==
    /\ MaxJobs \in Nat \ {0}
    /\ MaxItems \in Nat \ {0}
    /\ None \notin 1 .. MaxJobs
    /\ Rename \in BOOLEAN

Job == 1 .. MaxJobs
Item == 1 .. MaxItems

VARIABLES
    \* the UI thread
    ui,         \* the part of the frame that comes next
    copyJob,    \* GuiApp.copy_job
    taken,      \* the job show_copy_progress took out of it
    finished,   \* its local "finished"
    dialog,     \* is the rename dialog open?
    \* the jobs
    started,    \* auxiliary: how many there have been
    byRename,   \* auxiliary: those started from the rename dialog
    phase,      \* where the background thread of a job is
    items,      \* the number of its items
    item,       \* the item it is at
    cancel,     \* the shared AtomicBool
    cancelled,  \* the thread's local "cancelled"
    done,       \* the shared Option<(summary, errors)>
    whole       \* auxiliary: items whose copy ended before a cancel

frame == <<ui, copyJob, taken, finished, dialog>>
birth == <<started, byRename, items>>
thread == <<phase, item, cancelled, done, whole>>
vars == <<frame, birth, thread, cancel>>

Init ==
    /\ ui = "panels"
    /\ copyJob = None
    /\ taken = None
    /\ finished = FALSE
    /\ dialog = FALSE
    /\ started = 0
    /\ byRename = {}
    /\ phase = [j \in Job |-> "none"]
    /\ items = [j \in Job |-> 1]
    /\ item = [j \in Job |-> 1]
    /\ cancel = [j \in Job |-> FALSE]
    /\ cancelled = [j \in Job |-> FALSE]
    /\ done = [j \in Job |-> "none"]
    /\ whole = [j \in Job |-> {}]

-----------------------------------------------------------------------------
(* The UI thread                                                           *)

\* start_copy_job: a thread is spawned and copy_job overwritten.
StartCopyJob(n) ==
    /\ started < MaxJobs
    /\ started' = started + 1
    /\ copyJob' = started'
    /\ items' = [items EXCEPT ![started'] = n]
    /\ phase' = [phase EXCEPT ![started'] = "count"]
    /\ UNCHANGED <<cancel, item, cancelled, done, whole>>

NoStart == UNCHANGED <<copyJob, started, byRename, items, thread, cancel>>

\* The test extract_selected and copy_row_to_folder open with; the slip drops it.
Unguarded == TRUE
NoCopyRuns == copyJob = None

\* show_top, show_center and the context menu: extract_selected or
\* copy_row_to_folder, the rename entry of the menu, or nothing of interest.
\* The folder dialog blocks this thread, so the guard still holds after it.
Panels ==
    /\ ui = "panels"
    /\ ui' = "take"
    /\ \/ /\ NoCopyRuns
          /\ \E n \in Item : StartCopyJob(n)
          /\ UNCHANGED <<byRename, dialog>>
       \/ Rename /\ dialog' = TRUE /\ NoStart
       \/ UNCHANGED dialog /\ NoStart
    /\ UNCHANGED <<taken, finished>>

\* show_copy_progress takes the job and reads "done" for the first time.
Take ==
    /\ ui = "take"
    /\ \/ /\ copyJob = None
          /\ ui' = "rename"
          /\ UNCHANGED <<copyJob, taken>>
       \/ /\ copyJob # None
          /\ copyJob' = None
          /\ IF done[copyJob] # "none"
               THEN ui' = "rename" /\ UNCHANGED taken
               ELSE ui' = "again" /\ taken' = copyJob
    /\ UNCHANGED <<finished, dialog, birth, thread, cancel>>

\* "let finished = job.done.lock().unwrap().is_some()": the second read.
Again ==
    /\ ui = "again"
    /\ finished' = (done[taken] # "none")
    /\ ui' = "window"
    /\ UNCHANGED <<copyJob, taken, dialog, birth, thread, cancel>>

\* The progress window and its Cancel button; the job is put back unless it
\* was finished at the second read.
Window ==
    /\ ui = "window"
    /\ \E pressed \in BOOLEAN : cancel' = [cancel EXCEPT ![taken] = @ \/ pressed]
    /\ copyJob' = IF finished THEN None ELSE taken
    /\ taken' = None
    /\ ui' = "rename"
    /\ UNCHANGED <<finished, dialog, birth, thread>>

\* show_rename_dialog: stay open, close, or Copy, which asks nobody whether a
\* copy is running.
RenameDialog ==
    /\ ui = "rename"
    /\ ui' = "panels"
    /\ \/ /\ dialog
          /\ StartCopyJob(1)
          /\ byRename' = byRename \cup {started'}
          /\ dialog' = FALSE
       \/ dialog' = FALSE /\ NoStart
       \/ UNCHANGED dialog /\ NoStart
    /\ UNCHANGED <<taken, finished>>

UiStep == Panels \/ Take \/ Again \/ Window \/ RenameDialog

-----------------------------------------------------------------------------
(* The background thread of job j                                          *)

At(j, from, to) == phase[j] = from /\ phase' = [phase EXCEPT ![j] = to]

\* count_tree_with_bytes over all items, then set_totals; it never looks at
\* the cancel flag.
CountItems(j) ==
    /\ At(j, "count", "begin")
    /\ UNCHANGED <<frame, birth, cancel, item, cancelled, done, whole>>

\* copy_to_parallel begins; CopyTree and CopyPool say what it does.
BeginItem(j) ==
    /\ At(j, "begin", "copying")
    /\ UNCHANGED <<frame, birth, cancel, item, cancelled, done, whole>>

\* copy_to_parallel is back; it has copied all there was only if no cancel
\* came in between.
EndItem(j) ==
    /\ At(j, "copying", "check")
    /\ whole' = IF cancel[j] THEN whole ELSE [whole EXCEPT ![j] = @ \cup {item[j]}]
    /\ UNCHANGED <<frame, birth, cancel, item, cancelled, done>>

\* The look at the flag after every item, the last one too; the slip is to
\* look only when there is another item to come.
StopsEarly(j) == cancel[j] /\ item[j] < items[j]
Stops(j) == cancel[j]

\* Is there another item?
HasNext(j) == item[j] < items[j]

\* Where a cancelled thread goes: on to the summary; the slip is to return.
GivesUp == "ended"
Leaves == "store"

AfterItem(j) ==
    /\ phase[j] = "check"
    /\ \/ /\ Stops(j)
          /\ cancelled' = [cancelled EXCEPT ![j] = TRUE]
          /\ phase' = [phase EXCEPT ![j] = Leaves]
          /\ UNCHANGED item
       \/ /\ ~Stops(j)
          /\ HasNext(j)
          /\ item' = [item EXCEPT ![j] = @ + 1]
          /\ phase' = [phase EXCEPT ![j] = "begin"]
          /\ UNCHANGED cancelled
       \/ /\ ~Stops(j)
          /\ ~HasNext(j)
          /\ phase' = [phase EXCEPT ![j] = "store"]
          /\ UNCHANGED <<item, cancelled>>
    /\ UNCHANGED <<frame, birth, cancel, done, whole>>

\* "*d2.lock().unwrap() = Some((summary, errors))"
StoreDone(j) ==
    /\ At(j, "store", "ended")
    /\ done' = [done EXCEPT ![j] = IF cancelled[j] THEN "cancelled" ELSE "success"]
    /\ UNCHANGED <<frame, birth, cancel, item, cancelled, whole>>

\* Corrupt metadata makes the block mapping index past a slice: the thread
\* unwinds and "done" stays empty.
Panic(j) ==
    /\ \/ At(j, "count", "panicked")
       \/ At(j, "copying", "panicked")
    /\ UNCHANGED <<frame, birth, cancel, item, cancelled, done, whole>>

Background(j) ==
    \/ CountItems(j) \/ BeginItem(j) \/ EndItem(j) \/ AfterItem(j)
    \/ StoreDone(j) \/ Panic(j)

Next == UiStep \/ \E j \in Job : Background(j)

\* While a copy is shown the window asks for a repaint every 50 ms, so frames
\* keep coming; the operating system keeps running the threads.
Fairness == WF_vars(UiStep) /\ \A j \in Job : WF_vars(Background(j))

Spec == Init /\ [][Next]_vars
FairSpec == Spec /\ Fairness

-----------------------------------------------------------------------------

\* The type of the UI thread's and the background threads' state.
TypeOK ==
    /\ ui \in {"panels", "take", "again", "window", "rename"}
    /\ copyJob \in Job \cup {None}
    /\ taken \in Job \cup {None}
    /\ finished \in BOOLEAN
    /\ dialog \in BOOLEAN
    /\ started \in 0 .. MaxJobs
    /\ byRename \in SUBSET (1 .. started)
    /\ phase \in [Job -> {"none", "count", "begin", "copying", "check", "store",
                          "ended", "panicked"}]
    /\ items \in [Job -> Item]
    /\ item \in [Job -> Item]
    /\ cancel \in [Job -> BOOLEAN]
    /\ cancelled \in [Job -> BOOLEAN]
    /\ done \in [Job -> {"none", "success", "cancelled"}]
    /\ whole \in [Job -> SUBSET Item]

Running(j) == phase[j] \notin {"none", "ended", "panicked"}
InHand(j) == j = copyJob \/ j = taken

\* "extracted n items -> folder" is only said of a copy whose every item went
\* through before any cancel, and "cancelled by user" only when the user did:
\* the flag may be set at any moment, also after the last item.
SummaryTruthful ==
    \A j \in Job :
        /\ done[j] = "success" => whole[j] = 1 .. items[j]
        /\ done[j] = "cancelled" => cancel[j]

\* A running copy leaves the user's hands, its window and its Cancel button,
\* only because a later copy was started from the rename dialog.
OrphanedOnlyByRename ==
    \A j \in Job : Running(j) /\ ~InHand(j) => \E k \in byRename : k > j

\* The progress window does not stay for good: a copy that comes to its end
\* is let go, and the menu works again.
WindowCloses == \A j \in Job : (copyJob = j) ~> (phase[j] = "panicked" \/ ~InHand(j))

=============================================================================
