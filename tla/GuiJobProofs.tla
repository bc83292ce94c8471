---------------------------- MODULE GuiJobProofs -----------------------------
(***************************************************************************)
(* Proofs about GuiJob, for any number of copies of any number of items.   *)
(***************************************************************************)
EXTENDS GuiJob, TLAPS

\* A thread has started exactly if its job has; a job not begun is untouched.
NotYet == \A j \in Job : phase[j] = "none" <=> j > started

\* How far a job is, in terms of the items copied whole.  It goes on to the next
\* item only when it saw no cancel, so every item before that one is whole.
Before == {"none", "count", "begin", "copying"}
Far(j) ==
    /\ phase[j] \in {"none", "count"} => item[j] = 1
    /\ phase[j] \in Before => ~cancelled[j] /\ whole[j] = 1 .. item[j] - 1
    /\ phase[j] # "none" => item[j] <= items[j]
    /\ phase[j] = "check" => ~cancelled[j] /\ (cancel[j] \/ whole[j] = 1 .. item[j])
    /\ phase[j] = "store" => IF cancelled[j] THEN cancel[j] ELSE whole[j] = 1 .. items[j]
    /\ done[j] # "none" => phase[j] = "ended"
Progress == \A j \in Job : Far(j)

\* show_copy_progress holds a job from the first read of "done" to the window, and
\* nobody else can hold one then.
OneHand ==
    /\ taken # None <=> ui \in {"again", "window"}
    /\ taken # None => copyJob = None
    /\ ui = "window" /\ finished => done[taken] # "none"

Inv == TypeOK /\ NotYet /\ Progress /\ SummaryTruthful /\ OneHand /\ OrphanedOnlyByRename

-----------------------------------------------------------------------------

\* At first no copy was begun and the UI holds none.
LEMMA InitInv == Init => Inv
  <1> SUFFICES ASSUME Init PROVE Inv
    OBVIOUS
  <1>1. TypeOK
    <2>1. 1 \in Item /\ 0 \in 0 .. MaxJobs /\ None \in Job \cup {None}
      BY GuiAssumption DEF Item
    <2>2. byRename \in SUBSET (1 .. started)
      BY DEF Init
    <2>3. /\ items \in [Job -> Item] /\ item \in [Job -> Item]
          /\ whole \in [Job -> SUBSET Item]
      BY <2>1 DEF Init
    <2> QED BY <2>1, <2>2, <2>3 DEF Init, TypeOK
  <1>2. NotYet /\ SummaryTruthful /\ OneHand /\ OrphanedOnlyByRename
    BY GuiAssumption DEF Init, NotYet, SummaryTruthful, OneHand, OrphanedOnlyByRename, Running, Job
  <1>3. Progress
    BY DEF Init, Progress, Far, Before
  <1> QED BY <1>1, <1>2, <1>3 DEF Inv

-----------------------------------------------------------------------------
(* Steps of the UI thread.                                                 *)

\* A new job is the next number, and is untouched.
LEMMA StartKeeps ==
    ASSUME Inv, NEW n \in Item, StartCopyJob(n), taken = None,
           UNCHANGED <<taken, finished>>, ui' \notin {"again", "window"},
           dialog' \in BOOLEAN, ui' \in {"take", "panels"},
           \/ copyJob = None /\ byRename' = byRename
           \/ byRename' = byRename \cup {started'}
    PROVE  Inv'
  <1> DEFINE k == started + 1
  <1>1. k \in Job /\ started' = k /\ copyJob' = k /\ started \in Nat
    BY GuiAssumption DEF Inv, TypeOK, StartCopyJob, Job
  <1>2. phase[k] = "none" /\ done[k] = "none"
    BY <1>1 DEF Inv, NotYet, Progress, Far
  <1>3. TypeOK'
    <2>1. byRename \in SUBSET (1 .. started)
      BY DEF Inv, TypeOK
    <2>2. byRename' \in SUBSET (1 .. started')
      <3>1. 1 .. started \subseteq 1 .. k /\ k \in 1 .. k
        BY <1>1
      <3>2. byRename' \subseteq byRename \cup {k}
        BY <1>1
      <3> QED BY <1>1, <2>1, <3>1, <3>2
    <2>3. started' \in 0 .. MaxJobs
      BY <1>1 DEF Job
    <2> QED BY <1>1, <2>2, <2>3 DEF Inv, TypeOK, StartCopyJob
  <1>4. NotYet'
    BY <1>1 DEF Inv, TypeOK, NotYet, StartCopyJob, Job
  <1>5. Progress'
    <2> SUFFICES ASSUME NEW j \in Job PROVE Far(j)'
      BY DEF Progress
    <2>1. Far(j)
      BY DEF Inv, Progress
    <2>2. CASE j = k
      BY <1>1, <1>2, <2>1, <2>2 DEF Inv, TypeOK, Far, Before, StartCopyJob, Item
    <2>3. CASE j # k
      BY <1>1, <2>1, <2>3 DEF Inv, TypeOK, Far, Before, StartCopyJob
    <2> QED BY <2>2, <2>3
  <1>6. SummaryTruthful'
    BY <1>1, <1>2 DEF Inv, TypeOK, SummaryTruthful, StartCopyJob
  <1>7. OneHand'
    BY DEF OneHand
  <1>8. OrphanedOnlyByRename'
    <2> SUFFICES ASSUME NEW j \in Job, Running(j)', ~InHand(j)'
                 PROVE  \E i \in byRename' : i > j
      BY DEF OrphanedOnlyByRename
    <2>1. j # k /\ Running(j)
      BY <1>1 DEF Inv, TypeOK, InHand, Running, StartCopyJob
    <2>2. j < k
      BY <1>1, <2>1 DEF Inv, NotYet, Running, Job
    <2>3. CASE copyJob = None /\ byRename' = byRename
      BY <2>1, <2>3, GuiAssumption DEF Inv, OrphanedOnlyByRename, InHand, Job
    <2>4. CASE byRename' = byRename \cup {started'}
      BY <1>1, <2>2, <2>4
    <2> QED BY <2>3, <2>4
  <1> QED BY <1>3, <1>4, <1>5, <1>6, <1>7, <1>8 DEF Inv

\* A step of the UI thread that starts nothing leaves the threads alone, and its
\* Cancel button only ever sets a flag.
LEMMA ThreadsKeep ==
    ASSUME Inv, UNCHANGED <<birth, thread>>,
           cancel' \in [Job -> BOOLEAN], \A j \in Job : cancel[j] => cancel'[j]
    PROVE  NotYet' /\ Progress' /\ SummaryTruthful'
  <1> USE DEF birth, thread
  <1>1. NotYet'
    BY DEF Inv, NotYet
  <1>2. Progress'
    <2> SUFFICES ASSUME NEW j \in Job PROVE Far(j)'
      BY DEF Progress
    <2> QED BY DEF Inv, Progress, Far
  <1>3. SummaryTruthful'
    BY DEF Inv, SummaryTruthful
  <1> QED BY <1>1, <1>2, <1>3

\* A frame keeps the invariant: it begins a copy, flags a cancel, or takes a result.
LEMMA UiKeepsInv == Inv /\ UiStep => Inv'
  <1> SUFFICES ASSUME Inv, UiStep PROVE Inv'
    OBVIOUS
  <1> USE DEF birth, thread
  <1>1. CASE Panels
    <2>1. CASE NoCopyRuns /\ \E n \in Item : StartCopyJob(n) /\ UNCHANGED <<byRename, dialog>>
      <3>1. PICK n \in Item : StartCopyJob(n)
        BY <2>1
      <3>2. taken = None
        BY <1>1 DEF Panels, Inv, OneHand
      <3> QED BY <1>1, <2>1, <3>1, <3>2, StartKeeps DEF Panels, NoCopyRuns, Inv, TypeOK
    <2>2. CASE NoStart /\ dialog' \in BOOLEAN
      <3>1. NotYet' /\ Progress' /\ SummaryTruthful'
        BY <2>2, ThreadsKeep DEF NoStart, Inv, TypeOK
      <3>2. TypeOK' /\ OneHand' /\ OrphanedOnlyByRename'
        BY <1>1, <2>2 DEF Panels, NoStart, Inv, TypeOK, OneHand, OrphanedOnlyByRename, Running, InHand
      <3> QED BY <3>1, <3>2 DEF Inv
    <2> QED BY <1>1, <2>1, <2>2 DEF Panels, Inv, TypeOK
  <1>2. CASE Take
    <2>1. NotYet' /\ Progress' /\ SummaryTruthful'
      BY <1>2, ThreadsKeep DEF Take, Inv, TypeOK
    <2>2. TypeOK' /\ OneHand'
      BY <1>2 DEF Take, Inv, TypeOK, OneHand
    <2>3. OrphanedOnlyByRename'
      BY <1>2, GuiAssumption
         DEF Take, Inv, TypeOK, OneHand, Progress, Far, OrphanedOnlyByRename, Running, InHand, Job
    <2> QED BY <2>1, <2>2, <2>3 DEF Inv
  <1>3. CASE Again
    <2>1. NotYet' /\ Progress' /\ SummaryTruthful'
      BY <1>3, ThreadsKeep DEF Again, Inv, TypeOK
    <2>2. TypeOK' /\ OneHand' /\ OrphanedOnlyByRename'
      BY <1>3 DEF Again, Inv, TypeOK, OneHand, OrphanedOnlyByRename, Running, InHand
    <2> QED BY <2>1, <2>2 DEF Inv
  <1>4. CASE Window
    <2>1. taken \in Job /\ copyJob = None
      BY <1>4 DEF Window, Inv, OneHand, TypeOK
    <2>2. PICK pressed \in BOOLEAN : cancel' = [cancel EXCEPT ![taken] = @ \/ pressed]
      BY <1>4 DEF Window
    <2>3. cancel' \in [Job -> BOOLEAN] /\ \A j \in Job : cancel[j] => cancel'[j]
      BY <2>1, <2>2 DEF Inv, TypeOK
    <2>4. NotYet' /\ Progress' /\ SummaryTruthful'
      BY <1>4, <2>3, ThreadsKeep DEF Window
    <2>5. TypeOK' /\ OneHand'
      BY <1>4, <2>1, <2>3 DEF Window, Inv, TypeOK, OneHand
    <2>6. finished => ~Running(taken)
      BY <1>4, <2>1 DEF Window, Inv, OneHand, Progress, Far, Running
    <2>7. OrphanedOnlyByRename'
      BY <1>4, <2>1, <2>6, GuiAssumption
         DEF Window, Inv, OrphanedOnlyByRename, Running, InHand, Job
    <2> QED BY <2>4, <2>5, <2>7 DEF Inv
  <1>5. CASE RenameDialog
    <2>1. CASE StartCopyJob(1) /\ byRename' = byRename \cup {started'} /\ dialog' = FALSE
      <3>1. taken = None /\ 1 \in Item
        BY <1>5, GuiAssumption DEF RenameDialog, Inv, OneHand, Item
      <3> QED BY <1>5, <2>1, <3>1, StartKeeps DEF RenameDialog
    <2>2. CASE NoStart /\ dialog' \in BOOLEAN
      <3>1. NotYet' /\ Progress' /\ SummaryTruthful'
        BY <2>2, ThreadsKeep DEF NoStart, Inv, TypeOK
      <3>2. TypeOK' /\ OneHand' /\ OrphanedOnlyByRename'
        BY <1>5, <2>2 DEF RenameDialog, NoStart, Inv, TypeOK, OneHand, OrphanedOnlyByRename, Running, InHand
      <3> QED BY <3>1, <3>2 DEF Inv
    <2> QED BY <1>5, <2>1, <2>2 DEF RenameDialog, Inv, TypeOK
  <1> QED BY <1>1, <1>2, <1>3, <1>4, <1>5 DEF UiStep

-----------------------------------------------------------------------------
(* Steps of a background thread.                                           *)

\* It moves on its own job only, one that has begun, and touches no flag.
LEMMA BackgroundMoves ==
    ASSUME Inv, NEW j \in Job, Background(j)
    PROVE  /\ UNCHANGED <<frame, birth, cancel>>
           /\ Running(j)
           /\ TypeOK'
           /\ phase'[j] # "none"
           /\ \A i \in Job \ {j} : /\ phase'[i] = phase[i] /\ item'[i] = item[i]
                                   /\ cancelled'[i] = cancelled[i]
                                   /\ done'[i] = done[i] /\ whole'[i] = whole[i]
  <1> USE DEF At, Running, frame, birth
  <1>1. CASE CountItems(j) \/ BeginItem(j) \/ Panic(j)
    BY <1>1 DEF CountItems, BeginItem, Panic, Inv, TypeOK
  <1>2. CASE EndItem(j)
    BY <1>2 DEF EndItem, Inv, TypeOK
  <1>3. CASE AfterItem(j)
    <2>1. HasNext(j) => item[j] + 1 \in Item
      BY GuiAssumption DEF HasNext, Inv, TypeOK, Item
    <2> QED BY <1>3, <2>1 DEF AfterItem, Leaves, Inv, TypeOK
  <1>4. CASE StoreDone(j)
    BY <1>4 DEF StoreDone, Inv, TypeOK
  <1> QED BY <1>1, <1>2, <1>3, <1>4 DEF Background

\* The items copied whole keep in step with the item the thread is at.
LEMMA BackgroundFar ==
    ASSUME Inv, NEW j \in Job, Background(j)
    PROVE  Far(j)' /\ (done'[j] # done[j] => phase[j] = "store" /\ ~(cancelled[j] /\ done'[j] = "success")
                                             /\ ~(~cancelled[j] /\ done'[j] = "cancelled") /\ UNCHANGED whole)
  <1>1. Far(j) /\ item[j] \in Item /\ items[j] \in Item /\ Item \subseteq Nat
    BY DEF Inv, Progress, TypeOK, Item
  <1> USE <1>1 DEF At, Far, Before, frame, birth
  <1>2. CASE CountItems(j) \/ BeginItem(j) \/ Panic(j)
    BY <1>2 DEF CountItems, BeginItem, Panic, Inv, TypeOK
  <1>3. CASE EndItem(j)
    <2>1. 1 .. item[j] = (1 .. item[j] - 1) \cup {item[j]}
      BY DEF Item
    <2> QED BY <1>3, <2>1 DEF EndItem, Inv, TypeOK
  <1>4. CASE AfterItem(j)
    <2>1. CASE Stops(j) /\ cancelled' = [cancelled EXCEPT ![j] = TRUE]
               /\ phase' = [phase EXCEPT ![j] = Leaves] /\ UNCHANGED item
      BY <1>4, <2>1 DEF AfterItem, Stops, Leaves, Inv, TypeOK
    <2>2. CASE ~Stops(j) /\ HasNext(j) /\ item' = [item EXCEPT ![j] = @ + 1]
               /\ phase' = [phase EXCEPT ![j] = "begin"] /\ UNCHANGED cancelled
      <3>1. item'[j] = item[j] + 1 /\ items'[j] = items[j] /\ item[j] < items[j]
        BY <1>4, <2>2 DEF AfterItem, HasNext, Inv, TypeOK
      <3>2. item[j] \in Int /\ items[j] \in Int
        BY DEF Item
      <3>3. 1 .. item'[j] - 1 = 1 .. item[j] /\ item'[j] <= items'[j]
        BY <3>1, <3>2
      <3>4. phase'[j] = "begin" /\ ~cancelled'[j] /\ whole'[j] = 1 .. item[j] /\ done'[j] = "none"
        BY <1>4, <2>2 DEF AfterItem, Stops, Inv, TypeOK
      <3> QED BY <1>4, <2>2, <3>1, <3>4, <3>3 DEF AfterItem
    <2>3. CASE ~Stops(j) /\ ~HasNext(j) /\ phase' = [phase EXCEPT ![j] = "store"]
               /\ UNCHANGED <<item, cancelled>>
      <3>1. item[j] = items[j]
        BY <1>4, <2>3 DEF AfterItem, HasNext, Item
      <3> QED BY <1>4, <2>3, <3>1 DEF AfterItem, Stops, Inv, TypeOK
    <2> QED BY <1>4, <2>1, <2>2, <2>3 DEF AfterItem
  <1>5. CASE StoreDone(j)
    BY <1>5 DEF StoreDone, Inv, TypeOK
  <1> QED BY <1>2, <1>3, <1>4, <1>5 DEF Background

\* So does a background thread: what it stores fits the items it copied.
LEMMA BackgroundKeepsInv ==
    ASSUME Inv, NEW j \in Job, Background(j)
    PROVE  Inv'
  <1>1. /\ UNCHANGED <<frame, birth, cancel>> /\ TypeOK'
        /\ Running(j) /\ phase'[j] # "none"
        /\ \A i \in Job \ {j} : /\ phase'[i] = phase[i] /\ item'[i] = item[i]
                                /\ cancelled'[i] = cancelled[i]
                                /\ done'[i] = done[i] /\ whole'[i] = whole[i]
    BY BackgroundMoves
  <1>2. Far(j)'
    BY BackgroundFar
  <1>3. NotYet'
    BY <1>1 DEF Inv, NotYet, birth, Running
  <1>4. Progress'
    <2> SUFFICES ASSUME NEW i \in Job PROVE Far(i)'
      BY DEF Progress
    <2>1. CASE i = j
      BY <1>2, <2>1
    <2>2. CASE i # j
      BY <1>1, <2>2 DEF Inv, Progress, Far, birth
    <2> QED BY <2>1, <2>2
  <1>5. SummaryTruthful'
    <2> SUFFICES ASSUME NEW i \in Job
                 PROVE  /\ done'[i] = "success" => whole'[i] = 1 .. items'[i]
                        /\ done'[i] = "cancelled" => cancel'[i]
      BY DEF SummaryTruthful
    <2>1. CASE i # j
      BY <1>1, <2>1 DEF Inv, SummaryTruthful, birth
    <2>2. CASE i = j
      <3>1. done[j] = "none"
        BY <1>1 DEF Inv, Progress, Far, Running
      <3>2. CASE done'[j] = done[j]
        BY <2>2, <3>1, <3>2
      <3>3. CASE done'[j] # done[j]
        BY <1>1, <2>2, <3>3, BackgroundFar DEF Inv, Progress, Far, birth
      <3> QED BY <3>2, <3>3
    <2> QED BY <2>1, <2>2
  <1>6. OneHand'
    <2>1. \A i \in Job : done[i] # "none" => done'[i] # "none"
      BY <1>1 DEF Inv, Progress, Far, Running
    <2> QED BY <1>1, <2>1 DEF Inv, TypeOK, OneHand, frame
  <1>7. OrphanedOnlyByRename'
    BY <1>1 DEF Inv, OrphanedOnlyByRename, Running, InHand, frame, birth
  <1> QED BY <1>1, <1>3, <1>4, <1>5, <1>6, <1>7 DEF Inv

-----------------------------------------------------------------------------

\* The invariant holds, whatever the user does and however the threads run.
THEOREM Invariance == Spec => []Inv
  <1>1. Inv /\ [Next]_vars => Inv'
    <2> SUFFICES ASSUME Inv, [Next]_vars PROVE Inv'
      OBVIOUS
    <2>1. CASE UiStep
      BY <2>1, UiKeepsInv
    <2>2. CASE \E j \in Job : Background(j)
      BY <2>2, BackgroundKeepsInv
    <2>3. CASE UNCHANGED vars
      <3> USE <2>3 DEF vars, frame, birth, thread
      <3>1. TypeOK' /\ NotYet' /\ OneHand'
        BY DEF Inv, TypeOK, NotYet, OneHand
      <3>2. Progress' /\ SummaryTruthful' /\ OrphanedOnlyByRename'
        BY DEF Inv, Progress, Far, SummaryTruthful, OrphanedOnlyByRename, Running, InHand
      <3> QED BY <3>1, <3>2 DEF Inv
    <2> QED BY <2>1, <2>2, <2>3 DEF Next
  <1> QED BY InitInv, <1>1, PTL DEF Spec

\* What the window says of a copy is so: "extracted" after every item went through
\* before any cancel, "cancelled" only after a cancel.
THEOREM SaysWhatHappened == Spec => []SummaryTruthful
  BY Invariance, PTL DEF Inv

\* A running copy leaves the user's hands only for a later one that the rename
\* dialog started.
THEOREM LostOnlyByRename == Spec => []OrphanedOnlyByRename
  BY Invariance, PTL DEF Inv

=============================================================================
