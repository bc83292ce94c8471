-------------------------- MODULE ImageReaderProofs --------------------------
(***************************************************************************)
(* Proofs about ImageReader, for any number of readers and any image: what *)
(* is read is what was sought, a number leads to its own inode, and what a *)
(* reader hands on is the file.                                            *)
(***************************************************************************)
EXTENDS ImageReader, SequenceTheorems, WellFoundedInduction, TLAPS

\* The lock is held exactly from a shared reader's seek to its read.
Inside(r) == r \in Reader \ Own /\ pc[r] \in {"seek", "read"}
Locked ==
    /\ \A r \in Reader : Inside(r) => lock = r
    /\ lock # Nobody => Inside(lock)
    /\ \A r \in Own : pc[r] # "lock"

\* Between its seek and its read nobody moves a reader's handle.
Sought == \A r \in Reader : pc[r] = "read" => pos[Handle(r)] = run[r][1]

Shape ==
    /\ pc = [r \in Reader |-> pc[r]]
    /\ run = [r \in Reader |-> run[r]]
    /\ out = [r \in Reader |-> out[r]]
    /\ pos = [h \in Own \cup {Shared} |-> pos[h]]

HandleInv == Shape /\ Locked /\ Sought

\* What a read hands on are the blocks of the reader's own run.
ReadsOwnRun ==
    [][\A r \in Reader : Read(r) => out'[r] = out[r] \o Take(r, Blocks(run[r][1], run[r][2]))]_vars

\* Nobody leaves with the lock, not even after an error.
LockLeft == \A r \in Reader : Ended(r) => lock # r

-----------------------------------------------------------------------------
\* At first nobody holds the lock and nobody is about to read.
LEMMA InitHandles == Init => HandleInv
  BY ReaderAssumption DEF Init, HandleInv, Shape, Locked, Inside, Sought, Nobody

\* Nobody has the handle of another reader, except the shared one.
LEMMA HandlesApart ==
    ASSUME NEW r \in Reader, NEW q \in Reader, q # r, r \in Own \/ q \in Own
    PROVE  Handle(r) # Handle(q)
  BY ReaderAssumption DEF Handle

\* A step that neither locks nor takes the reader inside, whatever it reads through
\* the mutex in passing.
LEMMA Outside ==
    ASSUME HandleInv, NEW r \in Reader, pc[r] \notin {"seek", "read"}, Shape',
           \A q \in Reader \ {r} : pc'[q] = pc[q] /\ run'[q] = run[q],
           pc'[r] # "read", pc'[r] = "seek" => r \in Own, pc'[r] = "lock" => r \notin Own,
           \/ UNCHANGED handles
           \/ lock = Nobody /\ lock' = Nobody /\ \E b : pos' = [pos EXCEPT ![Shared] = b]
    PROVE  HandleInv'
  <1>1. lock' = lock
    BY DEF handles
  <1>2. Locked'
    BY <1>1, ReaderAssumption DEF HandleInv, Locked, Inside
  <1>3. ASSUME NEW q \in Reader, pc'[q] = "read"
        PROVE  pos'[Handle(q)] = run'[q][1]
    <2>1. q # r /\ pc[q] = "read" /\ run'[q] = run[q]
      BY <1>3
    <2>2. lock = Nobody => q \in Own
      BY <2>1, ReaderAssumption DEF HandleInv, Locked, Inside
    <2>3. pos'[Handle(q)] = pos[Handle(q)]
      BY <2>2, ReaderAssumption DEF Handle, handles, HandleInv, Shape
    <2> QED BY <2>1, <2>3 DEF HandleInv, Sought
  <1> QED BY <1>2, <1>3 DEF HandleInv, Sought

\* The batch reads through the mutex, in one step.
LEMMA BatchKeeps ==
    ASSUME HandleInv, NEW b, ViaShared(b), UNCHANGED <<pc, run, out>>
    PROVE  HandleInv'
  <1>1. Shape'
    BY DEF ViaShared, HandleInv, Shape
  <1>2. Locked'
    BY DEF ViaShared, HandleInv, Locked, Inside
  <1>3. ASSUME NEW q \in Reader, pc'[q] = "read"
        PROVE  pos'[Handle(q)] = run'[q][1]
    <2>1. q \in Own
      BY <1>3, ReaderAssumption DEF ViaShared, HandleInv, Locked, Inside
    <2> QED BY <1>3, <2>1, ReaderAssumption DEF ViaShared, Handle, HandleInv, Shape, Sought
  <1> QED BY <1>1, <1>2, <1>3 DEF HandleInv, Sought

\* A reader's own steps keep the handles apart.
LEMMA StepKeeps ==
    ASSUME HandleInv, NEW r \in Reader, Step(r)
    PROVE  HandleInv'
  <1> USE DEF Goto
  <1>1. CASE ReadInode(r)
    <2>1. Shape'
      BY <1>1 DEF ReadInode, ViaShared, HandleInv, Shape
    <2> QED BY <1>1, <2>1, Outside DEF ReadInode, ViaShared, HandleInv, Shape
  <1>2. CASE EndOfFile(r)
    <2>1. Shape'
      BY <1>2 DEF EndOfFile, streams, handles, HandleInv, Shape
    <2> QED BY <1>2, <2>1, Outside DEF EndOfFile, streams, HandleInv, Shape
  <1>3. CASE Inline(r)
    <2>1. Shape'
      BY <1>3 DEF Inline, ViaShared, HandleInv, Shape
    <2>2. pc[r] = "map" /\ pc'[r] \in {"done", "failed"}
      BY <1>3 DEF Inline, HandleInv, Shape
    <2>3. \A q \in Reader \ {r} : pc'[q] = pc[q] /\ run'[q] = run[q]
      BY <1>3 DEF Inline, HandleInv, Shape
    <2>4. ViaShared(TableBlock(asked[r]))
      BY <1>3 DEF Inline
    <2> QED BY <2>1, <2>2, <2>3, <2>4, Outside DEF ViaShared
  <1>12. CASE FastLink(r)
    <2>1. Shape'
      BY <1>12 DEF FastLink, handles, HandleInv, Shape
    <2> QED BY <1>12, <2>1, Outside DEF FastLink, HandleInv, Shape
  <1>4. CASE MapHole(r)
    <2>0. UNCHANGED handles \/ ViaShared(0)
      BY <1>4 DEF MapHole, Maps
    <2>1. Shape'
      BY <1>4, <2>0 DEF MapHole, ViaShared, handles, HandleInv, Shape
    <2> QED BY <1>4, <2>0, <2>1, Outside DEF MapHole, ViaShared, HandleInv, Shape
  <1>5. CASE MapBlock(r)
    <2>0. UNCHANGED handles \/ ViaShared(0)
      BY <1>5 DEF MapBlock, Maps
    <2>1. Shape'
      BY <1>5, <2>0 DEF MapBlock, ViaShared, handles, HandleInv, Shape
    <2> QED BY <1>5, <2>0, <2>1, Outside DEF MapBlock, ViaShared, HandleInv, Shape
  <1>6. CASE ExtendRun(r)
    <2>0. UNCHANGED handles \/ ViaShared(0)
      BY <1>6 DEF ExtendRun, Maps
    <2>1. Shape'
      BY <1>6, <2>0 DEF ExtendRun, Transfer, ViaShared, handles, HandleInv, Shape
    <2>2. pc[r] = "extend" /\ pc'[r] # "read" /\ (pc'[r] = "seek" => r \in Own)
          /\ (pc'[r] = "lock" => r \notin Own)
      BY <1>6 DEF ExtendRun, Transfer, HandleInv, Shape
    <2>3. \A q \in Reader \ {r} : pc'[q] = pc[q] /\ run'[q] = run[q]
      BY <1>6 DEF ExtendRun, Transfer, HandleInv, Shape
    <2> QED BY <2>0, <2>1, <2>2, <2>3, Outside DEF ViaShared
  <1>7. CASE EndRun(r)
    <2>1. Shape'
      BY <1>7 DEF EndRun, Transfer, streams, handles, HandleInv, Shape
    <2> QED BY <1>7, <2>1, Outside DEF EndRun, Transfer, streams, HandleInv, Shape
  <1>8. CASE Lock(r)
    <2>1. Shape'
      BY <1>8 DEF Lock, streams, HandleInv, Shape
    <2>2. r \notin Own
      BY <1>8 DEF Lock, HandleInv, Locked
    <2>3. Locked'
      BY <1>8, <2>2, ReaderAssumption DEF Lock, HandleInv, Shape, Locked, Inside
    <2>4. Sought'
      BY <1>8 DEF Lock, streams, HandleInv, Shape, Sought, Handle
    <2> QED BY <2>1, <2>3, <2>4 DEF HandleInv
  <1>9. CASE Seek(r)
    <2>1. Shape'
      BY <1>9 DEF Seek, streams, HandleInv, Shape
    <2>2. Locked'
      BY <1>9, ReaderAssumption DEF Seek, HandleInv, Shape, Locked, Inside
    <2>3. ASSUME NEW q \in Reader, pc'[q] = "read", q # r
          PROVE  pos'[Handle(q)] = run'[q][1]
      <3>1. pc[q] = "read" /\ pc[r] = "seek" /\ run' = run
        BY <1>9, <2>3 DEF Seek, streams, HandleInv, Shape
      <3>2. r \in Own \/ q \in Own
        BY <2>3, <3>1 DEF HandleInv, Locked, Inside
      <3>3. Handle(q) # Handle(r)
        BY <2>3, <3>2, HandlesApart
      <3>4. pos'[Handle(q)] = pos[Handle(q)]
        BY <1>9, <3>3 DEF Seek, HandleInv, Shape, Handle
      <3> QED BY <3>1, <3>4 DEF HandleInv, Sought
    <2>4. pos'[Handle(r)] = run'[r][1]
      BY <1>9 DEF Seek, streams, HandleInv, Shape, Handle
    <2> QED BY <2>1, <2>2, <2>3, <2>4 DEF HandleInv, Sought
  <1>10. CASE Read(r)
    <2>1. Shape'
      BY <1>10 DEF Read, HandleInv, Shape
    <2>2. Locked'
      BY <1>10, ReaderAssumption DEF Read, Unlocked, HandleInv, Shape, Locked, Inside
    <2>3. Sought'
      BY <1>10, ReaderAssumption, HandlesApart
      DEF Read, HandleInv, Shape, Locked, Inside, Sought, Handle
    <2> QED BY <2>1, <2>2, <2>3 DEF HandleInv
  <1>11. CASE ReadFails(r)
    <2>1. Shape'
      BY <1>11 DEF ReadFails, streams, HandleInv, Shape
    <2>2. Locked'
      BY <1>11, ReaderAssumption DEF ReadFails, Unlocked, HandleInv, Shape, Locked, Inside
    <2>3. Sought'
      BY <1>11 DEF ReadFails, streams, HandleInv, Shape, Sought, Handle
    <2> QED BY <2>1, <2>2, <2>3 DEF HandleInv
  <1> QED BY <1>1, <1>2, <1>3, <1>4, <1>5, <1>6, <1>7, <1>8, <1>9, <1>10, <1>11, <1>12 DEF Step

\* Every step does, those of the batch included.
LEMMA NextHandles == HandleInv /\ [Next]_vars => HandleInv'
  <1> SUFFICES ASSUME HandleInv, [Next]_vars PROVE HandleInv'
    OBVIOUS
  <1>1. CASE \E r \in Reader : Step(r)
    BY <1>1, StepKeeps
  <1>2. CASE BatchStep
    <2>1. PICK b \in todo : BatchBlock(b) \/ BatchFails(b)
      BY <1>2 DEF BatchStep
    <2> QED BY <2>1, BatchKeeps DEF BatchBlock, BatchFails, streams
  <1>3. CASE UNCHANGED vars
    BY <1>3 DEF vars, streams, handles, HandleInv, Shape, Locked, Inside, Sought, Handle
  <1> QED BY <1>1, <1>2, <1>3 DEF Next, AllEnded

\* However readers interleave, and whatever else goes through the mutex between
\* their steps, each one's read is of the blocks it sought: no other thread moves
\* the position in between.
THEOREM ReadIsOwnRun == Spec => ReadsOwnRun
  <1>1. ASSUME HandleInv, NEW r \in Reader, Read(r)
        PROVE  out'[r] = out[r] \o Take(r, Blocks(run[r][1], run[r][2]))
    <2>1. pos[Handle(r)] = run[r][1]
      BY <1>1 DEF Read, HandleInv, Sought
    <2>2. out' = [out EXCEPT ![r] = @ \o Take(r, Blocks(pos[Handle(r)], run[r][2]))]
      BY <1>1 DEF Read
    <2> QED BY <2>1, <2>2, <1>1 DEF HandleInv, Shape
  <1>2. HandleInv /\ [Next]_vars =>
            [\A r \in Reader : Read(r) => out'[r] = out[r] \o Take(r, Blocks(run[r][1], run[r][2]))]_vars
    BY <1>1
  <1> QED BY <1>2, InitHandles, NextHandles, PTL DEF Spec, ReadsOwnRun

\* A reader that ended, well or in an error, does not have the lock: the guard is
\* dropped on the way out of read_bytes_at, so the others never wait for it.
THEOREM LockIsLeft == Spec => []LockLeft
  <1>1. HandleInv => LockLeft
    BY ReaderAssumption DEF HandleInv, Locked, Inside, LockLeft, Ended
  <1> QED BY <1>1, InitHandles, NextHandles, PTL DEF Spec

-----------------------------------------------------------------------------
(* Numbers and sequences.                                                  *)

\* Multiples of b are at least b apart.
LEMMA Multiples ==
    ASSUME NEW b \in Nat \ {0}, NEW p \in Int, NEW q \in Int, p < q
    PROVE  b * p + b <= b * q
  OBVIOUS

\* Division with remainder.
LEMMA DivMod ==
    ASSUME NEW a \in Nat, NEW b \in Nat \ {0}
    PROVE  \E q \in Nat, r \in 0 .. b - 1 :
               a \div b = q /\ a % b = r /\ a = b * q + r
  <1>1. a % b \in 0 .. b - 1 /\ a \div b \in Int
    OBVIOUS
  <1>2. a % b = a - b * (a \div b)
    OBVIOUS
  <1>3. PICK q \in Int, r \in 0 .. b - 1 : a \div b = q /\ a % b = r /\ r = a - b * q
    BY <1>1, <1>2
  <1>4. r = a - b * q /\ b * q \in Int
    BY <1>3
  <1>5. q < 0 => b * q + b <= b * 0
    BY Multiples
  <1>6. q >= 0 /\ a = b * q + r
    BY <1>4, <1>5
  <1> QED BY <1>3, <1>6

\* There is one quotient and one remainder.
LEMMA DivUnique ==
    ASSUME NEW b \in Nat \ {0}, NEW q \in Nat, NEW r \in 0 .. b - 1
    PROVE  (b * q + r) \div b = q /\ (b * q + r) % b = r
  OBVIOUS

\* A number below a multiple has a quotient below it.
LEMMA QuotientBelow ==
    ASSUME NEW b \in Nat \ {0}, NEW q \in Nat, NEW g \in Nat, NEW r \in Nat,
           b * q + r < b * g
    PROVE  q < g
  <1>1. ASSUME q >= g PROVE FALSE
    <2>1. b * g <= b * q
      BY <1>1
    <2>2. b * g \in Int /\ b * q \in Int
      OBVIOUS
    <2> QED BY <2>1, <2>2
  <1> QED BY <1>1

\* The smaller of two numbers.
LEMMA MinOfTwo ==
    ASSUME NEW a \in Int, NEW b \in Int
    PROVE  Min({a, b}) = IF a <= b THEN a ELSE b
  BY DEF Min

\* A function on 1 .. n is a sequence.
LEMMA SequenceOf ==
    ASSUME NEW n \in Nat, NEW f, f = [u \in 1 .. n |-> f[u]]
    PROVE  /\ Len(f) = n /\ DOMAIN f = 1 .. n
           /\ \A S : (\A u \in 1 .. n : f[u] \in S) => f \in Seq(S)
  <1>1. \A S : (\A u \in 1 .. n : f[u] \in S) => f \in Seq(S)
    BY SeqDef
  <1>2. DOMAIN f = 1 .. n
    OBVIOUS
  <1>3. f \in Seq({f[u] : u \in 1 .. n})
    BY <1>1
  <1>4. Len(f) \in Nat /\ 1 .. Len(f) = 1 .. n
    BY <1>2, <1>3, LenProperties
  <1>5. Len(f) = n
    BY <1>4
  <1> QED BY <1>1, <1>2, <1>5

\* The beginning of a sequence.
LEMMA Beginning ==
    ASSUME NEW n \in Nat, NEW f, f = [u \in 1 .. n |-> f[u]], NEW m \in 0 .. n
    PROVE  SubSeq(f, 1, m) = [u \in 1 .. m |-> f[u]]
  <1> DEFINE S == {f[u] : u \in 1 .. n}
             s == SubSeq(f, 1, m)
  <1>1. /\ s \in Seq(S) /\ Len(s) = IF 1 <= m THEN m - 1 + 1 ELSE 0
        /\ \A i \in 1 .. m - 1 + 1 : s[i] = f[1 + i - 1]
    <2>1. \A i \in 1 .. m : f[i] \in S
      OBVIOUS
    <2> QED BY <2>1, SubSeqProperties
  <1>2. Len(s) = m /\ \A i \in 1 .. m : s[i] = f[i]
    BY <1>1
  <1>3. s = [u \in 1 .. m |-> s[u]]
    BY <1>1, <1>2, LenProperties
  <1> QED BY <1>2, <1>3

\* A part of a sequence is put behind what comes before it.
LEMMA Continued ==
    ASSUME NEW F, NEW a \in Nat, NEW c \in Nat
    PROVE  [u \in 1 .. a |-> F[u]] \o [k \in 1 .. c |-> F[a + k]] = [u \in 1 .. a + c |-> F[u]]
  <1> DEFINE S == {F[u] : u \in 1 .. a + c}
             s == [u \in 1 .. a |-> F[u]]
             t == [k \in 1 .. c |-> F[a + k]]
             w == [u \in 1 .. a + c |-> F[u]]
  <1>1. s \in Seq(S) /\ Len(s) = a
    <2>1. \A u \in 1 .. a : s[u] \in S
      OBVIOUS
    <2> QED BY <2>1, SequenceOf
  <1>2. t \in Seq(S) /\ Len(t) = c
    <2>1. \A u \in 1 .. c : t[u] \in S
      OBVIOUS
    <2> QED BY <2>1, SequenceOf
  <1>3. w \in Seq(S) /\ Len(w) = a + c
    <2>1. \A u \in 1 .. a + c : w[u] \in S
      OBVIOUS
    <2> QED BY <2>1, SequenceOf
  <1>4. /\ s \o t \in Seq(S) /\ Len(s \o t) = a + c
        /\ \A i \in 1 .. a + c : (s \o t)[i] = IF i <= a THEN s[i] ELSE t[i - a]
    BY <1>1, <1>2, ConcatProperties
  <1>5. \A i \in 1 .. a + c : (s \o t)[i] = w[i]
    BY <1>4
  <1> HIDE DEF s, t, w, S
  <1>6. s \o t = w
    BY <1>3, <1>4, <1>5, SeqEqual
  <1> QED BY <1>6 DEF s, t, w

-----------------------------------------------------------------------------
(* Inodes by their number.                                                 *)

\* A number leads to a group and to a place in its table.
LEMMA PlaceOf ==
    ASSUME NEW n \in 1 .. PerGroup * Len(Tables)
    PROVE  /\ Group(n) \in DOMAIN Tables /\ Slot(n) \in 0 .. PerGroup - 1
           /\ (Group(n) - 1) * PerGroup + Slot(n) + 1 = n
  <1>0. /\ PerGroup \in Nat \ {0} /\ Len(Tables) \in Nat /\ DOMAIN Tables = 1 .. Len(Tables)
        /\ n \in Nat /\ n - 1 \in Nat
    <2>1. PerGroup \in Nat \ {0} /\ Len(Tables) \in Nat /\ DOMAIN Tables = 1 .. Len(Tables)
      BY MapAssumption, LenProperties
    <2>2. PerGroup * Len(Tables) \in Nat
      BY <2>1
    <2> QED BY <2>1, <2>2
  <1>1. PICK q \in Nat, s \in 0 .. PerGroup - 1 :
            (n - 1) \div PerGroup = q /\ (n - 1) % PerGroup = s /\ n - 1 = PerGroup * q + s
    BY <1>0, DivMod
  <1>2. q < Len(Tables)
    <2>1. PerGroup * q + s < PerGroup * Len(Tables)
      <3> DEFINE all == PerGroup * Len(Tables)
                 before == PerGroup * q
      <3>1. all \in Int /\ n \in 1 .. all /\ n - 1 = before + s
        BY <1>0, <1>1
      <3> HIDE DEF all, before
      <3>2. before + s < all
        BY <3>1
      <3> QED BY <3>2 DEF all, before
    <2> QED BY <1>0, <2>1, QuotientBelow
  <1>3. Group(n) = q + 1 /\ Slot(n) = s
    BY <1>1 DEF Group, Slot
  <1>4. \A a, b \in Nat : a * b = b * a
    OBVIOUS
  <1>5. q * PerGroup = PerGroup * q
    BY <1>0, <1>1, <1>4
  <1> QED BY <1>0, <1>1, <1>2, <1>3, <1>5

\* The inode read for a number has that number, and a size.
LEMMA InodeIs ==
    ASSUME NEW n \in 1 .. PerGroup * Len(Tables)
    PROVE  LET x == InodeOf(n) IN
           /\ x.ino = n /\ x.size \in Nat /\ x # Unread
           /\ x.map \in {"extents", "indirect", "inline", "fast"}
           /\ x.map = "inline" => x.body \in Seq(Int) /\ x.extra \in Nat
                                 /\ x.held \in Seq(Int) /\ Len(x.held) = x.size
           /\ x.map = "fast" => x.block_raw \in Seq(Int) /\ x.size <= Len(x.block_raw)
  <1> DEFINE g == Group(n)
             s == Slot(n)
             x == InodesAt[Tables[g] + s \div PerBlock][(s % PerBlock) + 1]
  <1>1. InodeOf(n) = x
    BY DEF InodeOf, TableBlock
  <1>2. /\ x.ino = (g - 1) * PerGroup + s + 1 /\ x.size \in Nat
        /\ x.map \in {"extents", "indirect", "inline", "fast"}
        /\ x.map = "inline" => x.body \in Seq(Int) /\ x.extra \in Nat
                              /\ x.held \in Seq(Int) /\ Len(x.held) = x.size
        /\ x.map = "fast" => x.block_raw \in Seq(Int) /\ x.size <= Len(x.block_raw)
    BY PlaceOf, InodeAssumption
  <1>3. x.map # "unread"
    BY <1>2
  <1> HIDE DEF x
  <1>4. x # Unread
    BY <1>3 DEF Unread
  <1> QED BY <1>1, <1>2, <1>4, PlaceOf

\* What the batch takes from the first block of a table is that inode as well.
LEMMA BatchPlace ==
    ASSUME NEW n \in 1 .. PerGroup * Len(Tables), Slot(n) + 1 <= PerBlock
    PROVE  InodesAt[TableBlock(n)][Slot(n) + 1] = InodeOf(n)
  <1>1. PerBlock \in Nat \ {0} /\ Slot(n) \in 0 .. PerBlock - 1
    BY PlaceOf, MapAssumption
  <1>2. (PerBlock * 0 + Slot(n)) % PerBlock = Slot(n)
    BY <1>1, DivUnique
  <1>3. PerBlock * 0 + Slot(n) = Slot(n)
    BY <1>1
  <1> QED BY <1>2, <1>3 DEF InodeOf

\* The inodes there are: a reader's is the one it was asked for, and each one found
\* by the batch belongs to its number.
Asked == asked \in [Reader -> Wanted] /\ wantedInos \in Batches
Got ==
    /\ inode = [r \in Reader |-> inode[r]]
    /\ \A r \in Reader : inode[r] = Unread \/ inode[r] = InodeOf(asked[r])
    /\ \A r \in Reader : pc[r] \notin {"inode", "failed"} => inode[r] = InodeOf(asked[r])
    /\ \A f \in found : \E n \in wantedInos : f = <<n, InodeOf(n)>>
InodeInv == Asked /\ Got

\* Nobody has an inode at first.
LEMMA InitInodes == Init => InodeInv
  BY DEF Init, InodeInv, Asked, Got

\* Every step keeps the inodes right.
LEMMA NextInodes == HandleInv /\ InodeInv /\ [Next]_vars => InodeInv'
  <1> SUFFICES ASSUME HandleInv, InodeInv, [Next]_vars PROVE InodeInv'
    OBVIOUS
  <1> USE DEF Goto, streams, batch
  <1>1. CASE UNCHANGED vars
    BY <1>1 DEF vars, InodeInv, Asked, Got
  <1>2. ASSUME NEW r \in Reader, Step(r) PROVE InodeInv'
    <2>1. UNCHANGED <<asked, batch>>
      BY <1>2 DEF Step, ReadInode, EndOfFile, Inline, FastLink, MapHole, MapBlock, ExtendRun,
                  EndRun, Lock, Seek, Read, ReadFails
    <2>2. CASE ReadInode(r)
      BY <2>1, <2>2 DEF ReadInode, HandleInv, Shape, InodeInv, Asked, Got
    <2>3. CASE ~ReadInode(r)
      <3>1. /\ inode' = inode
            /\ \A q \in Reader \ {r} : pc'[q] = pc[q]
            /\ pc[r] \in {"inode", "failed"} => pc'[r] \in {"inode", "failed"}
        BY <1>2, <2>3 DEF Step, EndOfFile, Inline, FastLink, MapHole, MapBlock, ExtendRun, EndRun,
                  Transfer, Lock, Seek, Read, ReadFails, HandleInv, Shape
      <3> QED BY <2>1, <3>1 DEF InodeInv, Asked, Got
    <2> QED BY <2>2, <2>3
  <1>3. CASE BatchStep
    <2>1. PICK b \in todo : BatchBlock(b) \/ BatchFails(b)
      BY <1>3 DEF BatchStep
    <2>2. ASSUME NEW n \in InBlock(b), Slot(n) + 1 <= PerBlock
          PROVE  InodesAt[b][Slot(n) + 1] = InodeOf(n) /\ n \in wantedInos
      <3>1. n \in wantedInos /\ TableBlock(n) = b
        BY <2>2 DEF InBlock
      <3>2. n \in 1 .. PerGroup * Len(Tables)
        BY <3>1, ReaderAssumption DEF InodeInv, Asked
      <3> QED BY <2>2, <3>1, <3>2, BatchPlace
    <2>3. \A f \in found' : f \in found \/ \E n \in wantedInos : f = <<n, InodeOf(n)>>
      BY <2>1, <2>2 DEF BatchBlock, BatchFails
    <2>4. UNCHANGED <<pc, asked, inode, wantedInos>>
      BY <2>1 DEF BatchBlock, BatchFails
    <2> QED BY <2>3, <2>4 DEF InodeInv, Asked, Got
  <1> QED BY <1>1, <1>2, <1>3 DEF Next, AllEnded

\* For every layout of groups and tables, a number leads to its own inode, read alone
\* or in a batch, though the batch computes the place within the block differently.
THEOREM NumberIsInode == Spec => []RightInode
  <1>1. InodeInv => RightInode
    <2> SUFFICES ASSUME InodeInv PROVE RightInode
      OBVIOUS
    <2>1. \A r \in Reader : asked[r] \in 1 .. PerGroup * Len(Tables)
      BY ReaderAssumption DEF InodeInv, Asked
    <2>2. \A n \in wantedInos : n \in 1 .. PerGroup * Len(Tables)
      BY ReaderAssumption DEF InodeInv, Asked
    <2>3. ASSUME NEW r \in Reader, HasInode(r) PROVE inode[r].ino = asked[r]
      BY <2>1, <2>3, InodeIs DEF HasInode, InodeInv, Got
    <2>4. ASSUME NEW f \in found PROVE f[2].ino = f[1]
      <3>1. PICK n \in wantedInos : f = <<n, InodeOf(n)>>
        BY DEF InodeInv, Got
      <3> QED BY <2>2, <3>1, InodeIs
    <2> QED BY <2>3, <2>4 DEF RightInode
  <1>2. HandleInv /\ InodeInv /\ [Next]_vars => (HandleInv /\ InodeInv)'
    BY NextHandles, NextInodes
  <1> QED BY <1>1, <1>2, InitHandles, InitInodes, PTL DEF Spec

-----------------------------------------------------------------------------
(* Streams.                                                                *)

\* A file of size units lies in that many blocks, the last one not empty.
LEMMA BlocksOfSize ==
    ASSUME NEW x, x.size \in Nat
    PROVE  /\ TotalBlocks(x) \in Nat
           /\ x.size <= BlockUnits * TotalBlocks(x)
           /\ BlockUnits * TotalBlocks(x) <= x.size + BlockUnits - 1
  <1>1. BlockUnits \in Nat \ {0}
    BY ReaderAssumption
  <1> DEFINE a == x.size + BlockUnits - 1
  <1>2. a \in Nat
    BY <1>1
  <1>3. PICK q \in Nat, s \in 0 .. BlockUnits - 1 :
            a \div BlockUnits = q /\ a = BlockUnits * q + s
    BY <1>1, <1>2, DivMod
  <1>4. TotalBlocks(x) = q
    BY <1>3 DEF TotalBlocks
  <1> DEFINE m == BlockUnits * q
  <1>5. m \in Int /\ a = m + s
    BY <1>1, <1>3
  <1> HIDE DEF m
  <1>6. x.size <= m /\ m <= x.size + BlockUnits - 1
    BY <1>1, <1>5
  <1> QED BY <1>4, <1>6 DEF m

\* The units of a file that l of its blocks hold, and how many these are.
Upto(x, l) == IF BlockUnits * l <= x.size THEN BlockUnits * l ELSE x.size
Streamed(x, l) == [u \in 1 .. Upto(x, l) |-> Unit(x, u)]

\* Nothing comes before the first block, and everything before the end.
LEMMA StreamEnds ==
    ASSUME NEW x, x.size \in Nat
    PROVE  /\ Streamed(x, 0) = <<>>
           /\ Upto(x, TotalBlocks(x)) = x.size
           /\ \A l \in Nat : Upto(x, l) \in 0 .. x.size /\ Len(Streamed(x, l)) = Upto(x, l)
  <1>1. BlockUnits \in Nat \ {0} /\ BlockUnits * 0 = 0
    BY ReaderAssumption
  <1>2. Upto(x, 0) = 0
    BY <1>1 DEF Upto
  <1>3. Streamed(x, 0) = <<>>
    BY <1>2 DEF Streamed
  <1>4. ASSUME NEW l \in Nat PROVE Upto(x, l) \in 0 .. x.size /\ Len(Streamed(x, l)) = Upto(x, l)
    <2>1. BlockUnits * l \in Nat
      BY <1>1
    <2>2. Upto(x, l) \in 0 .. x.size
      BY <2>1 DEF Upto
    <2> QED BY <2>2, SequenceOf DEF Streamed
  <1>5. Upto(x, TotalBlocks(x)) = x.size
    <2> DEFINE m == BlockUnits * TotalBlocks(x)
    <2>1. m \in Nat /\ x.size <= m
      BY <1>1, BlocksOfSize
    <2> HIDE DEF m
    <2>2. (IF m <= x.size THEN m ELSE x.size) = x.size
      BY <2>1
    <2> QED BY <2>2 DEF Upto, m
  <1> QED BY <1>3, <1>4, <1>5

\* After n blocks more the stream is longer by their units, up to the size.
LEMMA UptoMore ==
    ASSUME NEW x, x.size \in Nat, NEW l \in Nat, NEW n \in Nat \ {0}, l + n <= TotalBlocks(x)
    PROVE  LET left == x.size - Upto(x, l)
               more == BlockUnits * n IN
           /\ Upto(x, l) = BlockUnits * l
           /\ left \in Nat /\ more \in Nat
           /\ Upto(x, l + n) = Upto(x, l) + (IF left <= more THEN left ELSE more)
  <1>1. BlockUnits \in Nat \ {0} /\ TotalBlocks(x) \in Nat
    BY ReaderAssumption, BlocksOfSize
  <1> DEFINE a == BlockUnits * l
             c == BlockUnits * n
             t == BlockUnits * TotalBlocks(x)
  <1>2. a \in Nat /\ c \in Nat /\ t \in Nat
    BY <1>1
  <1>3. BlockUnits * (l + n) = a + c
    BY <1>1
  <1>4. a + BlockUnits <= t
    BY <1>1, Multiples
  <1>5. t <= x.size + BlockUnits - 1
    BY BlocksOfSize
  <1>6. Upto(x, l) = (IF a <= x.size THEN a ELSE x.size)
        /\ Upto(x, l + n) = (IF a + c <= x.size THEN a + c ELSE x.size)
    BY <1>3 DEF Upto
  <1> HIDE DEF a, c, t
  <1>7. a <= x.size
    BY <1>1, <1>2, <1>4, <1>5
  <1>8. Upto(x, l) = a
    BY <1>2, <1>6, <1>7
  <1>9. x.size - a \in Nat
    BY <1>2, <1>7
  <1>10. Upto(x, l + n) = a + (IF x.size - a <= c THEN x.size - a ELSE c)
    BY <1>2, <1>6, <1>7
  <1> QED BY <1>2, <1>8, <1>9, <1>10 DEF a, c

\* The units of n blocks.
Span(n) == BlockUnits * n

\* What is read is the n blocks of a file from the l-th one on.
Carries(x, l, n, units) ==
    /\ units = [k \in 1 .. Span(n) |-> units[k]]
    /\ \A k \in 1 .. Span(n) : units[k] = Unit(x, Span(l) + k)

\* What a reader that has handed on l blocks takes of them.
Taken(x, l, units) == SubSeq(units, 1, Min({x.size - Len(Streamed(x, l)), Len(units)}))

\* A reader that has handed on l blocks and takes what it misses of the n next ones has
\* handed on l + n.
LEMMA HandOn ==
    ASSUME NEW x, x.size \in Nat, NEW l \in Nat, NEW n \in Nat \ {0}, l + n <= TotalBlocks(x),
           NEW units, Carries(x, l, n, units)
    PROVE  Streamed(x, l) \o Taken(x, l, units) = Streamed(x, l + n)
  <1> USE DEF Span, Carries, Taken
  <1> DEFINE a == Upto(x, l)
             left == x.size - a
             more == BlockUnits * n
             m == IF left <= more THEN left ELSE more
  <1>1. a = BlockUnits * l /\ left \in Nat /\ more \in Nat /\ Upto(x, l + n) = a + m
    BY UptoMore
  <1>2. Len(Streamed(x, l)) = a /\ a \in Nat
    BY StreamEnds
  <1>3. Len(units) = more
    BY <1>1, SequenceOf
  <1>4. Min({left, more}) = m
    BY <1>1, MinOfTwo
  <1>5. m \in 0 .. more
    <2> HIDE DEF left, more
    <2> QED BY <1>1
  <1>6. SubSeq(units, 1, m) = [k \in 1 .. m |-> units[k]]
    BY <1>1, <1>5, Beginning
  <1>7. \A k \in 1 .. m : units[k] = Unit(x, a + k)
    BY <1>1, <1>5
  <1> DEFINE F == [u \in 1 .. a + m |-> Unit(x, u)]
  <1>8. SubSeq(units, 1, m) = [k \in 1 .. m |-> F[a + k]]
    <2>1. \A k \in 1 .. m : a + k \in 1 .. a + m
      BY <1>1, <1>2, <1>5
    <2> QED BY <1>6, <1>7, <2>1
  <1>9. Streamed(x, l) = [u \in 1 .. a |-> F[u]]
    <2>1. \A u \in 1 .. a : u \in 1 .. a + m
      BY <1>1, <1>2, <1>5
    <2> QED BY <2>1 DEF Streamed
  <1>10. Streamed(x, l + n) = [u \in 1 .. a + m |-> F[u]]
    BY <1>1 DEF Streamed
  <1>11. m \in Nat
    BY <1>1, <1>5
  <1>12. Min({x.size - Len(Streamed(x, l)), Len(units)}) = m
    BY <1>2, <1>3, <1>4
  <1> HIDE DEF a, left, more, m, F
  <1>13. [u \in 1 .. a |-> F[u]] \o [k \in 1 .. m |-> F[a + k]] = [u \in 1 .. a + m |-> F[u]]
    BY <1>2, <1>11, Continued
  <1> QED BY <1>8, <1>9, <1>10, <1>12, <1>13

\* Where a unit of the l-th block and of those behind it lies.
LEMMA UnitAt ==
    ASSUME NEW x, NEW l \in Nat, NEW n \in Nat, NEW k \in 1 .. BlockUnits * n
    PROVE  \E i \in 0 .. n - 1, s \in 0 .. BlockUnits - 1 :
               /\ k = BlockUnits * i + s + 1
               /\ Unit(x, BlockUnits * l + k) =
                      IF TrueBlock(x, l + i) = Hole THEN 0 ELSE Data(TrueBlock(x, l + i))[s + 1]
  <1>1. BlockUnits \in Nat \ {0}
    BY ReaderAssumption
  <1>2. k \in Nat /\ k - 1 \in Nat /\ BlockUnits * n \in Nat /\ k <= BlockUnits * n
    BY <1>1
  <1>3. PICK i \in Nat, s \in 0 .. BlockUnits - 1 : k - 1 = BlockUnits * i + s
    BY <1>1, <1>2, DivMod
  <1>4. i < n
    <2>1. BlockUnits * i + s < BlockUnits * n
      BY <1>2, <1>3
    <2> QED BY <1>1, <2>1, QuotientBelow
  <1>5. (BlockUnits * l + k) - 1 = BlockUnits * (l + i) + s /\ k = BlockUnits * i + s + 1
    <2> DEFINE a == BlockUnits * l
               c == BlockUnits * i
    <2>1. a \in Int /\ c \in Int /\ BlockUnits * (l + i) = a + c
      BY <1>1
    <2>2. k - 1 = c + s
      BY <1>3
    <2> HIDE DEF a, c
    <2>3. (a + k) - 1 = a + c + s /\ k = c + s + 1
      BY <1>2, <2>1, <2>2
    <2> QED BY <2>1, <2>3 DEF a, c
  <1>6. ((BlockUnits * l + k) - 1) \div BlockUnits = l + i /\ ((BlockUnits * l + k) - 1) % BlockUnits = s
    BY <1>1, <1>5, DivUnique
  <1>7. Unit(x, BlockUnits * l + k) =
            IF TrueBlock(x, l + i) = Hole THEN 0 ELSE Data(TrueBlock(x, l + i))[s + 1]
    <2> DEFINE u == BlockUnits * l + k
    <2>1. (u - 1) \div BlockUnits = l + i /\ (u - 1) % BlockUnits = s
      BY <1>6
    <2> HIDE DEF u
    <2>2. Unit(x, u) =
              IF TrueBlock(x, l + i) = Hole THEN 0 ELSE Data(TrueBlock(x, l + i))[s + 1]
      BY <2>1, Zenon DEF Unit
    <2> QED BY <2>2 DEF u
  <1>8. i \in 0 .. n - 1
    BY <1>3, <1>4
  <1> QED BY <1>5, <1>7, <1>8

\* A hole is as many zeros as a block has units.
LEMMA HoleUnits ==
    ASSUME NEW x, NEW l \in Nat, TrueBlock(x, l) = Hole
    PROVE  Carries(x, l, 1, Zeros)
  <1> USE DEF Span, Carries
  <1>1. BlockUnits \in Nat \ {0} /\ BlockUnits * 1 = BlockUnits
    BY ReaderAssumption
  <1>2. ASSUME NEW k \in 1 .. Span(1) PROVE Zeros[k] = Unit(x, Span(l) + k)
    <2>1. PICK i \in 0 .. 1 - 1, s \in 0 .. BlockUnits - 1 :
              Unit(x, Span(l) + k) =
                  IF TrueBlock(x, l + i) = Hole THEN 0 ELSE Data(TrueBlock(x, l + i))[s + 1]
      BY UnitAt
    <2>2. l + i = l
      OBVIOUS
    <2>3. Zeros[k] = 0
      BY <1>1 DEF Zeros
    <2> QED BY <2>1, <2>2, <2>3
  <1> QED BY <1>1, <1>2 DEF Zeros

\* n blocks in a row are their units.
LEMMA RunUnits ==
    ASSUME NEW x, NEW l \in Nat, NEW n \in Nat \ {0}, NEW p \in Nat \ {0},
           \A i \in 0 .. n - 1 : TrueBlock(x, l + i) = p + i
    PROVE  Carries(x, l, n, Blocks(p, n))
  <1> USE DEF Span, Carries
  <1>1. BlockUnits \in Nat \ {0} /\ n * BlockUnits = BlockUnits * n
    BY ReaderAssumption
  <1>2. Blocks(p, n) = [k \in 1 .. Span(n) |-> p * BlockUnits + k]
    BY <1>1 DEF Blocks
  <1>3. ASSUME NEW k \in 1 .. Span(n)
        PROVE  Blocks(p, n)[k] = Unit(x, Span(l) + k)
    <2>1. PICK i \in 0 .. n - 1, s \in 0 .. BlockUnits - 1 :
              /\ k = BlockUnits * i + s + 1
              /\ Unit(x, Span(l) + k) =
                     IF TrueBlock(x, l + i) = Hole THEN 0 ELSE Data(TrueBlock(x, l + i))[s + 1]
      BY UnitAt
    <2>2. TrueBlock(x, l + i) = p + i /\ p + i # Hole
      BY DEF Hole
    <2>3. Data(p + i)[s + 1] = (p + i) * BlockUnits + (s + 1)
      BY <1>1 DEF Data
    <2>4. (p + i) * BlockUnits + (s + 1) = p * BlockUnits + k
      <3>1. /\ (p + i) * BlockUnits = p * BlockUnits + BlockUnits * i
            /\ p * BlockUnits \in Int /\ BlockUnits * i \in Int
        BY <1>1
      <3> QED BY <2>1, <3>1
    <2>5. Blocks(p, n)[k] = p * BlockUnits + k
      BY <1>2
    <2> HIDE DEF Hole
    <2> QED BY <2>1, <2>2, <2>3, <2>4, <2>5
  <1> QED BY <1>2, <1>3

\* The run a reader is about to read: n blocks in a row, which are those of the file.
OfFile(x, l, q) ==
    /\ q[1] \in Nat \ {0} /\ q[2] \in Nat \ {0}
    /\ l + q[2] <= TotalBlocks(x)
    /\ \A i \in 0 .. q[2] - 1 : TrueBlock(x, l + i) = q[1] + i

\* What a reader has handed on are the blocks before its counter, or what the inode holds.
Flow(r) == LET x == InodeOf(asked[r]) IN
    /\ logical[r] \in 0 .. TotalBlocks(x)
    /\ IF InBlocks(x)
         THEN out[r] = Streamed(x, logical[r])
         ELSE out[r] = (IF pc[r] = "done" THEN Content(x) ELSE <<>>)
    /\ pc[r] \in {"extend", "lock", "seek", "read"} =>
           InBlocks(x) /\ OfFile(x, logical[r], run[r])
    /\ pc[r] = "done" => ~InBlocks(x) \/ logical[r] = TotalBlocks(x)
Runs == \A r \in Reader : run[r] = <<run[r][1], run[r][2]>>
FlowInv ==
    /\ Runs
    /\ logical = [r \in Reader |-> logical[r]]
    /\ \A r \in Reader : Flow(r)

\* At first nothing is handed on.
LEMMA InitFlow == Init => FlowInv
  <1> SUFFICES ASSUME Init PROVE FlowInv
    OBVIOUS
  <1>1. ASSUME NEW r \in Reader PROVE Flow(r)
    <2>1. asked[r] \in 1 .. PerGroup * Len(Tables)
      BY ReaderAssumption DEF Init
    <2>2. InodeOf(asked[r]).size \in Nat
      BY <2>1, InodeIs
    <2>3. Streamed(InodeOf(asked[r]), 0) = <<>> /\ TotalBlocks(InodeOf(asked[r])) \in Nat
      BY <2>2, StreamEnds, BlocksOfSize
    <2> QED BY <2>3 DEF Init, Flow
  <1>2. Runs /\ logical = [r \in Reader |-> logical[r]]
    BY DEF Init, Runs
  <1> QED BY <1>1, <1>2 DEF FlowInv

\* A lookup that finds neither a hole nor an error finds the block.
LEMMA LookedUp ==
    ASSUME MapsRight, InodeInv, NEW r \in Reader, InBlocks(InodeOf(asked[r])),
           NEW l \in Nat, l < TotalBlocks(InodeOf(asked[r])),
           Paddr(InodeOf(asked[r]), l) # Corrupt
    PROVE  /\ TrueBlock(InodeOf(asked[r]), l) = Paddr(InodeOf(asked[r]), l)
           /\ Paddr(InodeOf(asked[r]), l) \in Nat
  <1>1. asked[r] \in Wanted /\ asked[r] \in 1 .. PerGroup * Len(Tables)
    BY ReaderAssumption DEF InodeInv, Asked
  <1>2. TotalBlocks(InodeOf(asked[r])) \in Nat
    BY <1>1, InodeIs, BlocksOfSize
  <1>3. l \in 0 .. TotalBlocks(InodeOf(asked[r])) - 1
    BY <1>2
  <1> QED BY <1>1, <1>3 DEF MapsRight

\* What lies in the inode is taken from where it is.
InodesRight == \A n \in Wanted : InodeOf(n).map = "inline" => InlineFits(InodeOf(n))

\* A reader's step carries its stream on.
LEMMA StepFlows ==
    ASSUME MapsRight, InodesRight, HandleInv, InodeInv, FlowInv, NEW r \in Reader, Step(r)
    PROVE  Flow(r)'
  <1> DEFINE x == InodeOf(asked[r])
             l == logical[r]
             n == run[r][2]
  <1> USE DEF Goto
  <1>1. asked' = asked /\ x' = x
    BY DEF Step, ReadInode, EndOfFile, Inline, FastLink, MapHole, MapBlock, ExtendRun, EndRun,
           Lock, Seek, Read, ReadFails, streams
  <1>2. asked[r] \in 1 .. PerGroup * Len(Tables)
    BY ReaderAssumption DEF InodeInv, Asked
  <1>3. x.size \in Nat /\ TotalBlocks(x) \in Nat
    BY <1>2, InodeIs, BlocksOfSize
  <1>4. Flow(r) /\ l \in Nat
    BY <1>3 DEF FlowInv, Flow
  <1>5. pc[r] \notin {"inode", "failed"} => inode[r] = x
    BY DEF InodeInv, Got
  <1> HIDE DEF x
  <1>6. CASE ReadInode(r)
    BY <1>1, <1>4, <1>6 DEF ReadInode, HandleInv, Shape, Flow, x
  <1>7. CASE EndOfFile(r)
    <2>1. UNCHANGED <<logical, out, run>> /\ pc'[r] = "done" /\ InBlocks(x)
      BY <1>5, <1>7 DEF EndOfFile, streams, HandleInv, Shape
    <2>2. l = TotalBlocks(x)
      BY <1>3, <1>4, <1>5, <1>7 DEF EndOfFile, AtEnd, Flow, x
    <2> QED BY <1>1, <1>4, <2>1, <2>2 DEF Flow, x
  <1>8. CASE Inline(r)
    <2> DEFINE end == InlineEnd(x)
    <2>1. /\ UNCHANGED <<logical, run>> /\ pc[r] = "map" /\ x.map = "inline" /\ ~InBlocks(x)
          /\ inode[r] = x
      BY <1>5, <1>8 DEF Inline, InBlocks
    <2>2. CASE end > Len(x.body)
      <3>1. pc'[r] = "failed" /\ out' = out
        BY <1>8, <2>1, <2>2 DEF Inline, HandleInv, Shape, x
      <3> QED BY <1>1, <1>4, <2>1, <3>1 DEF Flow, x
    <2>3. CASE ~(end > Len(x.body))
      <3>1. pc'[r] = "done" /\ out'[r] = SubSeq(x.body, x.extra + 1, end)
        BY <1>8, <2>1, <2>3 DEF Inline, HandleInv, Shape, x
      <3>2. end \in Nat /\ Len(x.body) \in Nat
        <4>1. x.body \in Seq(Int) /\ x.extra \in Nat
          BY <1>2, <2>1, InodeIs DEF x
        <4> QED BY <1>3, <4>1, LenProperties DEF InlineEnd
      <3>3. x.held = SubSeq(x.body, x.extra + 1, end)
        <4>1. InlineFits(x)
          BY <2>1 DEF InodesRight, InodeInv, Asked, x
        <4> HIDE DEF end
        <4>2. end <= Len(x.body)
          BY <2>3, <3>2
        <4> QED BY <4>1, <4>2 DEF InlineFits, end
      <3>4. Content(x) = x.held
        BY <2>1 DEF Content
      <3>5. out'[r] = Content(x)
        BY <3>1, <3>3, <3>4
      <3> QED BY <1>1, <1>4, <2>1, <3>1, <3>5 DEF Flow, x
    <2> QED BY <2>2, <2>3
  <1>17. CASE FastLink(r)
    <2>1. /\ UNCHANGED <<logical, run>> /\ pc'[r] = "done" /\ x.map = "fast" /\ ~InBlocks(x)
          /\ out'[r] = SubSeq(x.block_raw, 1, x.size)
      BY <1>5, <1>17 DEF FastLink, InBlocks, HandleInv, Shape
    <2>2. out'[r] = Content(x)
      BY <2>1 DEF Content
    <2> QED BY <1>1, <1>4, <2>1, <2>2 DEF Flow, x
  <1>9. CASE MapHole(r)
    <2>1. /\ inode[r] = x /\ InBlocks(x) /\ pc' = pc /\ pc[r] = "map"
          /\ Paddr(x, l) = Hole /\ run' = run
      BY <1>5, <1>9 DEF MapHole
    <2>2. l < TotalBlocks(x) /\ logical'[r] = l + 1
      BY <1>3, <1>4, <1>9, <2>1 DEF MapHole, AtEnd, HolePassed, FlowInv
    <2>3. TrueBlock(x, l) = Hole
      BY <1>4, <2>1, <2>2, LookedUp DEF x, Hole, Corrupt
    <2>4. out'[r] = Streamed(x, l) \o Taken(x, l, Zeros)
      <3>1. out[r] = Streamed(x, l)
        BY <1>4, <2>1 DEF Flow, x
      <3> QED BY <1>9, <2>1, <3>1 DEF MapHole, Take, Missing, Taken, HandleInv, Shape
    <2>5. out'[r] = Streamed(x, l + 1)
      <3>1. l + 1 <= TotalBlocks(x)
        BY <1>3, <1>4, <2>2
      <3>2. Carries(x, l, 1, Zeros)
        BY <1>4, <2>3, HoleUnits
      <3>3. x.size \in Nat /\ l \in Nat /\ 1 \in Nat \ {0}
        BY <1>3, <1>4
      <3> HIDE DEF l
      <3>4. Streamed(x, l) \o Taken(x, l, Zeros) = Streamed(x, l + 1)
        BY <3>1, <3>2, <3>3, HandOn
      <3> QED BY <2>4, <3>4
    <2> QED BY <1>1, <1>3, <1>4, <2>1, <2>2, <2>5 DEF Flow, x
  <1>10. CASE MapBlock(r)
    <2>1. /\ inode[r] = x /\ InBlocks(x) /\ pc[r] = "map"
          /\ Paddr(x, l) # Hole /\ UNCHANGED <<logical, out>>
      BY <1>5, <1>10 DEF MapBlock
    <2>2. l < TotalBlocks(x)
      BY <1>3, <1>4, <1>10, <2>1 DEF MapBlock, AtEnd
    <2>3. CASE Paddr(x, l) = Corrupt
      <3>1. pc'[r] = "failed"
        BY <1>10, <2>1, <2>3 DEF MapBlock, HandleInv, Shape
      <3> QED BY <1>1, <1>4, <2>1, <3>1 DEF Flow, x
    <2>4. CASE Paddr(x, l) # Corrupt
      <3>1. pc'[r] = "extend" /\ run'[r] = <<Paddr(x, l), 1>>
        BY <1>10, <2>1, <2>4 DEF MapBlock, HandleInv, Shape
      <3>2. TrueBlock(x, l) = Paddr(x, l) /\ Paddr(x, l) \in Nat \ {0}
        BY <1>4, <2>1, <2>2, <2>4, LookedUp DEF x, Hole
      <3>3. OfFile(x, l, <<Paddr(x, l), 1>>)
        BY <1>3, <1>4, <2>2, <3>2 DEF OfFile
      <3> QED BY <1>1, <1>4, <2>1, <3>1, <3>3 DEF Flow, x
    <2> QED BY <2>3, <2>4
  <1>11. CASE ExtendRun(r)
    <2>1. inode[r] = x /\ pc[r] = "extend" /\ UNCHANGED <<logical, out>>
      BY <1>5, <1>11 DEF ExtendRun
    <2>2. InBlocks(x) /\ OfFile(x, l, run[r]) /\ n \in Nat \ {0}
      BY <1>4, <2>1 DEF Flow, OfFile, x
    <2>3. l + n < TotalBlocks(x)
      BY <1>11, <2>1 DEF ExtendRun, Extensible
    <2>4. CASE Paddr(x, l + n) = Corrupt
      <3>1. pc'[r] = "failed"
        BY <1>11, <2>1, <2>4 DEF ExtendRun, HandleInv, Shape
      <3> QED BY <1>1, <1>4, <2>1, <3>1 DEF Flow, x
    <2>5. CASE Paddr(x, l + n) # Corrupt /\ ~NextIsAdjacent(r, Paddr(x, l + n))
      <3>1. run' = run
        BY <1>11, <2>1, <2>5 DEF ExtendRun
      <3>2. pc'[r] # "done"
        BY <1>11, <2>1, <2>5 DEF ExtendRun, Transfer, HandleInv, Shape
      <3> QED BY <1>1, <1>4, <2>1, <2>2, <3>1, <3>2 DEF Flow, x
    <2>6. CASE Paddr(x, l + n) # Corrupt /\ NextIsAdjacent(r, Paddr(x, l + n))
      <3>1. pc' = pc /\ run'[r] = [run[r] EXCEPT ![2] = @ + 1]
        BY <1>11, <2>1, <2>6 DEF ExtendRun, HandleInv, Shape
      <3> DEFINE q == run'[r]
      <3>2. q[1] = run[r][1] /\ q[2] = n + 1
        BY <3>1 DEF FlowInv, Runs
      <3>3. TrueBlock(x, l + n) = run[r][1] + n
        <4>1. TrueBlock(x, l + n) = Paddr(x, l + n)
          BY <1>4, <2>2, <2>3, <2>6, LookedUp DEF x
        <4> QED BY <2>6, <4>1 DEF NextIsAdjacent
      <3> HIDE DEF q
      <3>4. OfFile(x, l, q)
        <4>1. ASSUME NEW i \in 0 .. q[2] - 1 PROVE TrueBlock(x, l + i) = q[1] + i
          <5>1. i \in 0 .. n - 1 \/ i = n
            BY <2>2, <3>2
          <5> QED BY <2>2, <3>2, <3>3, <5>1 DEF OfFile
        <4>2. l + (n + 1) <= TotalBlocks(x)
          BY <1>3, <1>4, <2>2, <2>3
        <4> QED BY <2>2, <3>2, <4>1, <4>2 DEF OfFile
      <3> QED BY <1>1, <1>4, <2>1, <2>2, <3>1, <3>4 DEF Flow, x, q
    <2> QED BY <2>4, <2>5, <2>6
  <1>12. CASE EndRun(r)
    <2>1. pc[r] = "extend" /\ pc'[r] # "done" /\ UNCHANGED <<logical, out, run>>
      BY <1>12 DEF EndRun, Transfer, streams, HandleInv, Shape
    <2> QED BY <1>1, <1>4, <2>1 DEF Flow, x
  <1>13. CASE Lock(r)
    <2>1. pc[r] = "lock" /\ pc'[r] = "seek" /\ UNCHANGED <<logical, out, run>>
      BY <1>13 DEF Lock, streams, HandleInv, Shape
    <2> QED BY <1>1, <1>4, <2>1 DEF Flow, x
  <1>14. CASE Seek(r)
    <2>1. pc[r] = "seek" /\ pc'[r] = "read" /\ UNCHANGED <<logical, out, run>>
      BY <1>14 DEF Seek, streams, HandleInv, Shape
    <2> QED BY <1>1, <1>4, <2>1 DEF Flow, x
  <1>15. CASE Read(r)
    <2>1. inode[r] = x /\ pc[r] = "read" /\ pc'[r] = "map" /\ run' = run
      BY <1>5, <1>15 DEF Read, HandleInv, Shape
    <2>2. InBlocks(x) /\ OfFile(x, l, run[r]) /\ out[r] = Streamed(x, l)
      BY <1>4, <2>1 DEF Flow, x
    <2>3. n \in Nat \ {0} /\ l + n <= TotalBlocks(x) /\ logical'[r] = l + n
      BY <1>15, <2>2 DEF Read, FlowInv, OfFile
    <2> DEFINE units == Blocks(run[r][1], n)
    <2>4. out'[r] = Streamed(x, l) \o Taken(x, l, units)
      <3>1. pos[Handle(r)] = run[r][1]
        BY <2>1 DEF HandleInv, Sought
      <3>2. out' = [out EXCEPT ![r] = @ \o Take(r, Blocks(pos[Handle(r)], n))]
        BY <1>15 DEF Read
      <3> QED BY <2>1, <2>2, <3>1, <3>2 DEF Take, Missing, Taken, HandleInv, Shape
    <2>5. Carries(x, l, n, units)
      <3> DEFINE p == run[r][1]
      <3>1. p \in Nat \ {0} /\ \A i \in 0 .. n - 1 : TrueBlock(x, l + i) = p + i
        BY <2>2 DEF OfFile
      <3> HIDE DEF p
      <3> QED BY <1>4, <2>3, <3>1, RunUnits DEF p
    <2> HIDE DEF units
    <2>6. out'[r] = Streamed(x, l + n)
      <3>1. x.size \in Nat /\ l \in Nat /\ n \in Nat \ {0} /\ l + n <= TotalBlocks(x)
        BY <1>3, <1>4, <2>3
      <3> HIDE DEF l, n
      <3>2. Streamed(x, l) \o Taken(x, l, units) = Streamed(x, l + n)
        BY <3>1, <2>5, HandOn
      <3> QED BY <2>4, <3>2
    <2>7. l + n \in 0 .. TotalBlocks(x)
      BY <1>3, <1>4, <2>3
    <2> QED BY <1>1, <2>1, <2>2, <2>3, <2>6, <2>7 DEF Flow, x
  <1>16. CASE ReadFails(r)
    <2>1. pc'[r] = "failed" /\ pc[r] # "done" /\ UNCHANGED <<logical, out, run>>
      BY <1>16 DEF ReadFails, streams, HandleInv, Shape
    <2> QED BY <1>1, <1>4, <2>1 DEF Flow, x
  <1> QED BY <1>6, <1>7, <1>8, <1>9, <1>10, <1>11, <1>12, <1>13, <1>14, <1>15, <1>16, <1>17 DEF Step

\* And leaves the others' alone.
LEMMA NextFlow ==
    ASSUME MapsRight, InodesRight, HandleInv, InodeInv, FlowInv, [Next]_vars
    PROVE  FlowInv'
  <1> USE DEF Goto, streams, batch
  <1>1. ASSUME NEW q \in Reader, UNCHANGED <<pc[q], asked, logical[q], run[q], out[q]>>
        PROVE  Flow(q)'
    <2>1. Flow(q)
      BY DEF FlowInv
    <2> QED BY <1>1, <2>1 DEF Flow
  <1>2. ASSUME NEW r \in Reader, Step(r) PROVE FlowInv'
    <2>1. /\ asked' = asked
          /\ logical' = [q \in Reader |-> logical'[q]]
          /\ Runs'
          /\ \A q \in Reader \ {r} : UNCHANGED <<pc[q], logical[q], run[q], out[q]>>
      BY <1>2 DEF Step, ReadInode, EndOfFile, Inline, FastLink, MapHole, MapBlock, ExtendRun,
                  EndRun, Transfer, Lock, Seek, Read, ReadFails, FlowInv, Runs, HandleInv, Shape
    <2>2. Flow(r)'
      BY <1>2, StepFlows
    <2>3. \A q \in Reader \ {r} : Flow(q)'
      BY <1>1, <2>1
    <2> QED BY <2>1, <2>2, <2>3 DEF FlowInv
  <1>3. CASE UNCHANGED <<pc, streams>>
    BY <1>1, <1>3 DEF FlowInv, Runs
  <1>4. CASE BatchStep
    BY <1>3, <1>4 DEF BatchStep, BatchBlock, BatchFails
  <1>5. CASE UNCHANGED vars
    BY <1>3, <1>5 DEF vars
  <1> QED BY <1>2, <1>4, <1>5 DEF Next, AllEnded

\* Where the lookups of the block maps are right, and what lies in an inode is where it
\* is looked for, every reader is handed its file.
LEMMA RightMapsRightStreams ==
    ASSUME MapsRight, InodesRight
    PROVE  Spec => []StreamFaithful
  <1>1. InodeInv /\ FlowInv => StreamFaithful
    <2> SUFFICES ASSUME InodeInv, FlowInv, NEW r \in Reader
                 PROVE  /\ HasInode(r) => IsPrefix(out[r], ContentOf[asked[r]])
                        /\ pc[r] = "done" => Len(out[r]) = inode[r].size
      BY DEF StreamFaithful
    <2> DEFINE x == InodeOf(asked[r])
               l == logical[r]
    <2>1. asked[r] \in Wanted /\ asked[r] \in 1 .. PerGroup * Len(Tables)
      BY ReaderAssumption DEF InodeInv, Asked
    <2>2. /\ x.size \in Nat /\ TotalBlocks(x) \in Nat
          /\ ~InBlocks(x) => Content(x) \in Seq(Int) /\ Len(Content(x)) = x.size
      <3>1. x.size \in Nat /\ TotalBlocks(x) \in Nat
        BY <2>1, InodeIs, BlocksOfSize
      <3>2. CASE x.map = "inline"
        <4>1. x.held \in Seq(Int) /\ Len(x.held) = x.size
          BY <2>1, <3>2, InodeIs
        <4> QED BY <3>1, <3>2, <4>1 DEF Content
      <3>3. CASE x.map = "fast"
        <4>1. x.block_raw \in Seq(Int) /\ x.size <= Len(x.block_raw)
          BY <2>1, <3>3, InodeIs
        <4> DEFINE s == x.block_raw
                   m == x.size
        <4>2. Content(x) = SubSeq(s, 1, m)
          BY <3>3 DEF Content
        <4>3. SubSeq(s, 1, m) \in Seq(Int) /\ Len(SubSeq(s, 1, m)) = m
          <5> HIDE DEF s, m, x
          <5>1. s \in Seq(Int) /\ m \in 0 .. Len(s) /\ Len(s) \in Nat
            BY <3>1, <4>1, LenProperties DEF s, m
          <5> QED BY <5>1
        <4> QED BY <3>1, <4>2, <4>3
      <3>4. x.map \in {"inline", "fast"} \/ InBlocks(x)
        BY <2>1, InodeIs DEF InBlocks
      <3> QED BY <3>1, <3>2, <3>3, <3>4
    <2>3. ContentOf[asked[r]] = Content(x)
      BY <2>1 DEF ContentOf
    <2>4. Flow(r) /\ l \in Nat
      BY <2>2 DEF FlowInv, Flow
    <2>5. pc[r] = "done" => inode[r] = x
      BY DEF InodeInv, Got
    <2> HIDE DEF x
    <2>6. CASE ~InBlocks(x)
      <3>1. out[r] = (IF pc[r] = "done" THEN Content(x) ELSE <<>>)
        BY <2>4, <2>6 DEF Flow, x
      <3> DEFINE s == Content(x)
      <3>2. IsPrefix(<<>>, s) /\ IsPrefix(s, s)
        <4>1. s \in Seq(Int)
          BY <2>2, <2>6
        <4> HIDE DEF s
        <4>2. Len(<<>>) = 0 /\ Len(s) \in Nat /\ SubSeq(s, 1, 0) = <<>> /\ SubSeq(s, 1, Len(s)) = s
          BY <4>1, LenProperties
        <4> QED BY <4>2 DEF IsPrefix
      <3> QED BY <2>2, <2>3, <2>5, <2>6, <3>1, <3>2
    <2>7. CASE InBlocks(x)
      <3>1. out[r] = Streamed(x, l)
        BY <2>4, <2>7 DEF Flow, x
      <3>2. Content(x) = [u \in 1 .. x.size |-> Unit(x, u)]
        BY <2>7 DEF Content, InBlocks
      <3>3. IsPrefix(Streamed(x, l), Content(x))
        <4> DEFINE m == Upto(x, l)
                   f == Content(x)
        <4>1. m \in 0 .. x.size /\ Len(Streamed(x, l)) = m
          BY <2>2, <2>4, StreamEnds
        <4>2. f = [u \in 1 .. x.size |-> f[u]] /\ Len(f) = x.size
          BY <2>2, <3>2, SequenceOf
        <4>3. SubSeq(f, 1, m) = [u \in 1 .. m |-> f[u]]
          BY <2>2, <4>1, <4>2, Beginning
        <4>4. Streamed(x, l) = [u \in 1 .. m |-> f[u]]
          BY <2>2, <3>2, <4>1 DEF Streamed
        <4>5. SubSeq(Streamed(x, l), 1, m) = Streamed(x, l)
          BY <2>2, <4>1, <4>4, Beginning
        <4> HIDE DEF m, f
        <4>6. m <= x.size
          BY <4>1
        <4> QED BY <4>1, <4>2, <4>3, <4>4, <4>5, <4>6 DEF IsPrefix, f
      <3>4. pc[r] = "done" => Len(Streamed(x, l)) = x.size
        <4>1. pc[r] = "done" => l = TotalBlocks(x)
          BY <2>4, <2>7 DEF Flow, x
        <4> QED BY <2>2, <2>4, <4>1, StreamEnds
      <3> QED BY <2>3, <2>5, <3>1, <3>3, <3>4
    <2> QED BY <2>6, <2>7
  <1>2. Init => HandleInv /\ InodeInv /\ FlowInv
    BY InitHandles, InitInodes, InitFlow
  <1>3. HandleInv /\ InodeInv /\ FlowInv /\ [Next]_vars => (HandleInv /\ InodeInv /\ FlowInv)'
    BY NextHandles, NextInodes, NextFlow
  <1> QED BY <1>1, <1>2, <1>3, PTL DEF Spec

-----------------------------------------------------------------------------
(* Extent trees.                                                           *)

\* Numbers by size.
Smaller == {pair \in Nat \X Nat : pair[1] < pair[2]}

\* Some numbers have a least one.
LEMMA LeastOf ==
    ASSUME NEW S \in SUBSET Nat, S # {}
    PROVE  \E n \in S : \A m \in S : n <= m
  <1>1. IsWellFoundedOn(Smaller, Nat)
    BY NatLessThanWellFounded DEF OpToRel, Smaller
  <1>2. PICK n \in S : \A m \in S : ~(<<m, n>> \in Smaller)
    BY <1>1, WFMin
  <1>3. \A m \in S : ~(m < n)
    BY <1>2 DEF Smaller
  <1>4. \A m \in S : n <= m
    BY <1>3
  <1> QED BY <1>4

\* And Min is that one.
LEMMA MinIn ==
    ASSUME NEW S \in SUBSET Nat, S # {}
    PROVE  Min(S) \in S
  BY LeastOf DEF Min

\* Numbers with a bound have a greatest one, and Max is that.
LEMMA MaxIn ==
    ASSUME NEW n \in Nat, NEW S \in SUBSET (0 .. n), S # {}
    PROVE  Max(S) \in S /\ \A k \in S : k <= Max(S)
  <1> DEFINE Bounds == {b \in Nat : \A k \in S : k <= b}
  <1>1. n \in Bounds
    OBVIOUS
  <1> HIDE DEF Bounds
  <1>2. PICK b \in Bounds : \A c \in Bounds : b <= c
    <2>1. Bounds \in SUBSET Nat
      BY DEF Bounds
    <2> QED BY <1>1, <2>1, LeastOf
  <1> USE DEF Bounds
  <1>3. b \in S
    <2> SUFFICES ASSUME b \notin S PROVE FALSE
      OBVIOUS
    <2>1. PICK k \in S : TRUE
      OBVIOUS
    <2>2. b \in Nat /\ b - 1 \in Nat
      BY <1>2, <2>1
    <2>3. \A c \in S : c <= b - 1
      BY <1>2, <2>2
    <2> QED BY <1>2, <2>2, <2>3
  <1>4. \A k \in S : b >= k /\ k <= b
    BY <1>2
  <1>5. Max(S) = b
    <2>1. \A c \in S : (\A k \in S : c >= k) => c = b
      BY <1>2, <1>3
    <2> QED BY <1>3, <1>4, <2>1 DEF Max
  <1> QED BY <1>3, <1>4, <1>5

\* What holds of the first number and goes from each to the next holds of all.
LEMMA Climb ==
    ASSUME NEW n \in Nat, NEW S, 0 \in S, \A k \in 1 .. n : k - 1 \in S => k \in S
    PROVE  0 .. n \subseteq S
  <1> DEFINE Off == {k \in 0 .. n : k \notin S}
  <1> SUFFICES ASSUME Off # {} PROVE FALSE
    OBVIOUS
  <1>1. Off \in SUBSET Nat
    OBVIOUS
  <1> HIDE DEF Off
  <1>2. PICK m \in Off : \A k \in Off : m <= k
    BY <1>1, LeastOf
  <1> USE DEF Off
  <1>3. m \in 1 .. n /\ m - 1 \in 0 .. n /\ m - 1 \notin Off
    BY <1>2
  <1> QED BY <1>2, <1>3

\* The rows of the two recursions, the lookup and its reference, from the row before.
WalkRow(x, l, k, g) ==
    [b \in NodeRef |->
        LET node == Node(x, b) IN
        IF k = 0 \/ ~node.magic THEN Corrupt
        ELSE IF node.depth = 0 THEN InLeaf(node, l)
        ELSE IF Chosen(node, l) = 0 THEN Corrupt
        ELSE g[k - 1][node.entries[Chosen(node, l)].child]]
BelowRow(x, k, g) ==
    [b \in NodeRef |->
        LET node == Node(x, b) IN
        IF k = 0 THEN {}
        ELSE IF node.depth = 0 THEN ToSet(node.entries)
        ELSE UNION {g[k - 1][e.child] : e \in ToSet(node.entries)}]
Row(of, x, l, k, g) == IF of = "walk" THEN WalkRow(x, l, k, g) ELSE BelowRow(x, k, g)
Rows(of, x, l, n, g) == g = [k \in 0 .. n |-> Row(of, x, l, k, g)]

\* A row depends on no other than the one before.
LEMMA RowLocal ==
    ASSUME NEW of, NEW x, NEW l, NEW k, NEW g, NEW h, k = 0 \/ g[k - 1] = h[k - 1]
    PROVE  Row(of, x, l, k, g) = Row(of, x, l, k, h)
  <1>1. CASE k = 0
    BY <1>1 DEF Row, WalkRow, BelowRow
  <1>2. CASE k # 0
    BY <1>2 DEF Row, WalkRow, BelowRow
  <1> QED BY <1>1, <1>2

\* So there are as many as one wants.
LEMMA RowsExist ==
    ASSUME NEW of, NEW x, NEW l, NEW n \in Nat
    PROVE  \E g : Rows(of, x, l, n, g)
  <1> DEFINE S == {m \in 0 .. n : \E g : Rows(of, x, l, m, g)}
  <1>1. 0 \in S
    <2> DEFINE g == [k \in 0 .. 0 |-> Row(of, x, l, 0, <<>>)]
    <2>1. \A k \in 0 .. 0 : k = 0 /\ Row(of, x, l, k, g) = Row(of, x, l, 0, <<>>)
      BY RowLocal
    <2>2. Rows(of, x, l, 0, g)
      BY <2>1 DEF Rows
    <2> HIDE DEF g
    <2> QED BY <2>2
  <1>2. ASSUME NEW m \in 1 .. n, m - 1 \in S PROVE m \in S
    <2>1. PICK g : Rows(of, x, l, m - 1, g)
      BY <1>2
    <2> DEFINE h == [k \in 0 .. m |-> IF k = m THEN Row(of, x, l, m, g) ELSE g[k]]
    <2>2. \A k \in 0 .. m : k # m => k \in 0 .. m - 1
      OBVIOUS
    <2>3. \A k \in 0 .. m - 1 : g[k] = Row(of, x, l, k, g)
      BY <2>1 DEF Rows
    <2>4. \A k \in 0 .. m : k # 0 => h[k - 1] = g[k - 1]
      OBVIOUS
    <2>5. \A k \in 0 .. m : Row(of, x, l, k, h) = Row(of, x, l, k, g)
      BY <2>4, RowLocal
    <2>6. \A k \in 0 .. m : h[k] = Row(of, x, l, k, h)
      BY <2>2, <2>3, <2>5
    <2>7. Rows(of, x, l, m, h)
      <3>1. h = [k \in 0 .. m |-> h[k]]
        OBVIOUS
      <3> HIDE DEF h
      <3> QED BY <2>6, <3>1 DEF Rows
    <2> HIDE DEF h
    <2> QED BY <2>7
  <1> HIDE DEF S
  <1>3. n \in S
    BY <1>1, <1>2, Climb
  <1> QED BY <1>3 DEF S

\* The lookup goes by its rows.
LEMMA WalkIs ==
    ASSUME NEW x, NEW l
    PROVE  \A k \in 0 .. MaxWalk : Walk(x, l)[k] = WalkRow(x, l, k, Walk(x, l))
  <1> DEFINE Fits(g) == g = [k \in 0 .. MaxWalk |-> WalkRow(x, l, k, g)]
             g == CHOOSE f : Fits(f)
  <1>1. \E f : Fits(f)
    <2>1. PICK f : Rows("walk", x, l, MaxWalk, f)
      BY MapAssumption, RowsExist
    <2> QED BY <2>1 DEF Rows, Row
  <1>2. Fits(g)
    BY <1>1
  <1>3. Walk(x, l) = g
    BY DEF Walk, WalkRow
  <1> HIDE DEF g
  <1> QED BY <1>2, <1>3

\* And so does what there is to find.
LEMMA BelowIs ==
    ASSUME NEW x
    PROVE  \A k \in 0 .. MaxWalk : Below(x)[k] = BelowRow(x, k, Below(x))
  <1> DEFINE Fits(g) == g = [k \in 0 .. MaxWalk |-> BelowRow(x, k, g)]
             g == CHOOSE f : Fits(f)
  <1>1. \E f : Fits(f)
    <2>1. PICK f : Rows("below", x, 0, MaxWalk, f)
      BY MapAssumption, RowsExist
    <2> QED BY <2>1 DEF Rows, Row
  <1>2. Fits(g)
    BY <1>1
  <1>3. Below(x) = g
    BY DEF Below, BelowRow
  <1> HIDE DEF g
  <1> QED BY <1>2, <1>3

\* What ext4 and the code make of ee_len is the same, unless it is 2^15.
LEMMA LengthIs ==
    ASSUME NEW e, e.len_raw \in 1 .. 2 * LenBit - 1, e.len_raw # LenBit
    PROVE  /\ Length(e) = Extends(e) /\ Extends(e) \in Nat \ {0}
           /\ Written(e) <=> ~Unwritten(e)
  <1>1. LenBit \in Nat \ {0}
    BY MapAssumption
  <1>2. PICK m, v : m = LenBit /\ v = e.len_raw
    OBVIOUS
  <1>3. m \in Nat \ {0} /\ v \in 1 .. 2 * m - 1 /\ v # m
    BY <1>1, <1>2
  <1>4. CASE v < m
    <2>1. v % m = v
      BY <1>3, <1>4
    <2> QED BY <1>2, <1>3, <1>4, <2>1 DEF Length, Extends, Written, Unwritten
  <1>5. CASE v > m
    <2>1. v - m \in 0 .. m - 1 /\ m * 1 + (v - m) = v
      BY <1>3, <1>5
    <2>2. (m * 1 + (v - m)) % m = v - m
      BY <1>3, <2>1, DivUnique
    <2>3. v % m = v - m
      BY <2>1, <2>2
    <2> QED BY <1>2, <1>3, <1>5, <2>3 DEF Length, Extends, Written, Unwritten
  <1> QED BY <1>3, <1>4, <1>5

\* An extent within a span.
Fits(e, from, to) ==
    /\ e.first \in Nat /\ e.start \in Nat /\ Extends(e) \in Nat
    /\ from <= e.first /\ e.first + Extends(e) <= to

\* A lookup below a node gives an error, or what the one extent there says that holds
\* the block, or a hole if there is none.
Found(extents, l, p) ==
    \/ p = Corrupt
    \/ (\A e \in extents : ~Holds(e, l)) /\ p = Hole
    \/ \E e \in extents : Holds(e, l) /\ p = Where(e, l)
Answers(extents, l, p, from, to) ==
    /\ \A e \in extents : Fits(e, from, to)
    /\ \A e, f \in extents : Holds(e, l) /\ Holds(f, l) => e = f
    /\ Found(extents, l, p)

\* Entries ascend, so one that is further on begins at or after the next.
LEMMA Ascends ==
    ASSUME NEW entries, Len(entries) \in Nat, DOMAIN entries = 1 .. Len(entries),
           \A i \in DOMAIN entries : entries[i].first \in Nat,
           \A i, j \in DOMAIN entries : i < j => entries[i].first < entries[j].first,
           NEW i \in DOMAIN entries, NEW j \in DOMAIN entries, i < j
    PROVE  i + 1 \in DOMAIN entries /\ entries[i + 1].first <= entries[j].first
  <1>1. i + 1 \in DOMAIN entries
    OBVIOUS
  <1>2. CASE j = i + 1
    BY <1>1, <1>2
  <1>3. CASE j # i + 1
    <2>1. i + 1 < j
      BY <1>3
    <2>2. entries[i + 1].first < entries[j].first
      BY <1>1, <2>1
    <2> QED BY <1>1, <2>2
  <1> QED BY <1>2, <1>3

\* A leaf that is in order answers from its extents.
LEMMA LeafAnswers ==
    ASSUME NEW x, NEW span, InOrder(x, span), NEW b \in DOMAIN span, Node(x, b).depth = 0,
           NEW l \in Nat
    PROVE  Answers(ToSet(Node(x, b).entries), l, InLeaf(Node(x, b), l), span[b][1], span[b][2])
  <1> DEFINE node == Node(x, b)
             all == ToSet(node.entries)
             from == span[b][1]
             to == span[b][2]
  <1>1. PICK entries : entries = node.entries
    OBVIOUS
  <1>2. /\ entries \in Seq(all) /\ Len(entries) \in Nat /\ DOMAIN entries = 1 .. Len(entries)
        /\ from \in Nat /\ to \in Nat
    <2>1. entries \in Seq(all) /\ from \in Nat /\ to \in Nat
      BY <1>1 DEF InOrder
    <2> QED BY <2>1, LenProperties
  <1>3. all = {entries[i] : i \in DOMAIN entries}
    BY <1>1 DEF ToSet
  <1>4. ASSUME NEW i \in DOMAIN entries
        PROVE  /\ entries[i].first \in Nat /\ entries[i].start \in Nat
               /\ entries[i].len_raw \in 1 .. 2 * LenBit - 1 /\ entries[i].len_raw # LenBit
               /\ from <= entries[i].first /\ entries[i].first + Extends(entries[i]) <= to
               /\ i + 1 \in DOMAIN entries =>
                      entries[i].first + Extends(entries[i]) <= entries[i + 1].first
               /\ \A j \in DOMAIN entries : i < j => entries[i].first < entries[j].first
    BY <1>1, <1>4 DEF InOrder
  <1>5. \A i \in DOMAIN entries :
            /\ Length(entries[i]) = Extends(entries[i]) /\ Extends(entries[i]) \in Nat \ {0}
            /\ Written(entries[i]) <=> ~Unwritten(entries[i])
    BY <1>4, LengthIs
  <1>6. \A i \in DOMAIN entries : Holds(entries[i], l) <=> Covers(entries[i], l)
    BY <1>5 DEF Holds, Covers
  <1>7. ASSUME NEW i \in DOMAIN entries, NEW j \in DOMAIN entries, i < j,
               Holds(entries[i], l), Holds(entries[j], l)
        PROVE  FALSE
    <2>1. i + 1 \in DOMAIN entries /\ entries[i + 1].first <= entries[j].first
      BY <1>2, <1>4, <1>7, Ascends
    <2>2. PICK a, c, d, n : a = entries[i].first /\ c = entries[i + 1].first /\ d = entries[j].first
                            /\ n = Extends(entries[i])
      OBVIOUS
    <2>3. a \in Nat /\ c \in Nat /\ d \in Nat /\ n \in Nat /\ a + n <= c /\ c <= d
      BY <1>4, <1>5, <2>1, <2>2
    <2>4. l < a + n /\ d <= l
      BY <1>7, <2>2 DEF Holds
    <2> QED BY <2>3, <2>4
  <1>8. \A e, f \in all : Holds(e, l) /\ Holds(f, l) => e = f
    <2> SUFFICES ASSUME NEW i \in DOMAIN entries, NEW j \in DOMAIN entries,
                        Holds(entries[i], l), Holds(entries[j], l)
                 PROVE  entries[i] = entries[j]
      BY <1>3
    <2>1. i < j \/ j < i \/ i = j
      BY <1>2
    <2> QED BY <1>7, <2>1
  <1>9. \A e \in all : Fits(e, from, to)
    BY <1>3, <1>4, <1>5 DEF Fits
  <1> DEFINE hits == {k \in DOMAIN entries : Covers(entries[k], l)}
  <1>10. InLeaf(node, l) =
             IF hits = {} \/ Unwritten(entries[Min(hits)]) THEN Hole
             ELSE entries[Min(hits)].start + (l - entries[Min(hits)].first)
    BY <1>1 DEF InLeaf
  <1>11. CASE hits = {}
    <2>1. \A e \in all : ~Holds(e, l)
      BY <1>3, <1>6, <1>11
    <2>2. InLeaf(node, l) = Hole
      BY <1>10, <1>11
    <2> HIDE DEF all, node
    <2>3. Found(all, l, InLeaf(node, l))
      BY <2>1, <2>2 DEF Found
    <2> QED BY <1>8, <1>9, <2>3 DEF Answers, node, all
  <1>12. CASE hits # {}
    <2>1. hits \in SUBSET Nat
      BY <1>2
    <2> HIDE DEF hits
    <2>2. PICK m : m = Min(hits)
      OBVIOUS
    <2>3. m \in hits
      BY <1>12, <2>1, <2>2, MinIn
    <2>4. m \in DOMAIN entries /\ Covers(entries[m], l)
      BY <2>3 DEF hits
    <2>5. PICK e : e = entries[m]
      OBVIOUS
    <2>6. e \in all /\ Holds(e, l)
      BY <1>3, <1>6, <2>4, <2>5
    <2>7. InLeaf(node, l) = Where(e, l)
      <3>1. Written(e) <=> ~Unwritten(e)
        BY <1>5, <2>4, <2>5
      <3>2. InLeaf(node, l) = IF Unwritten(e) THEN Hole ELSE e.start + (l - e.first)
        BY <1>10, <1>12, <2>2, <2>5
      <3> QED BY <3>1, <3>2 DEF Where
    <2> HIDE DEF all, node
    <2>8. Found(all, l, InLeaf(node, l))
      BY <2>6, <2>7 DEF Found
    <2> QED BY <1>8, <1>9, <2>8 DEF Answers, node, all
  <1> QED BY <1>11, <1>12

\* The index entry chosen begins at or before the block, and the one behind it after.
LEMMA ChosenIs ==
    ASSUME NEW node, Len(node.entries) \in Nat, DOMAIN node.entries = 1 .. Len(node.entries),
           NEW l, Chosen(node, l) # 0
    PROVE  /\ Chosen(node, l) \in DOMAIN node.entries
           /\ node.entries[Chosen(node, l)].first <= l
           /\ Chosen(node, l) + 1 \in DOMAIN node.entries =>
                  ~(node.entries[Chosen(node, l) + 1].first <= l)
  <1> DEFINE n == Len(node.entries)
             before(k) == \A j \in 1 .. k : node.entries[j].first <= l
             S == {0} \cup {k \in DOMAIN node.entries : before(k)}
  <1>1. Chosen(node, l) = Max(S)
    BY DEF Chosen
  <1>2. n \in Nat /\ S \in SUBSET (0 .. n) /\ 0 \in S
    OBVIOUS
  <1> HIDE DEF S
  <1>3. PICK m \in S : Max(S) = m /\ \A k \in S : k <= m
    BY <1>2, MaxIn
  <1> USE DEF S
  <1>4. m # 0 /\ m \in DOMAIN node.entries /\ before(m)
    BY <1>1, <1>3
  <1>5. node.entries[m].first <= l
    <2>1. m \in 1 .. m
      BY <1>4
    <2> QED BY <1>4, <2>1
  <1>6. ASSUME m + 1 \in DOMAIN node.entries, node.entries[m + 1].first <= l PROVE FALSE
    <2>1. \A j \in 1 .. m + 1 : j \in 1 .. m \/ j = m + 1
      BY <1>4
    <2>2. before(m + 1)
      BY <1>4, <1>6, <2>1
    <2>3. m + 1 \in S
      BY <1>6, <2>2
    <2>4. m \in Nat /\ m + 1 <= m
      BY <1>3, <1>4, <2>3
    <2> QED BY <2>4
  <1>7. PICK c : c = Chosen(node, l)
    OBVIOUS
  <1>8. c = m
    BY <1>1, <1>3, <1>7
  <1> HIDE DEF S
  <1> QED BY <1>4, <1>5, <1>6, <1>7, <1>8

\* An index node that is in order answers from the entry it chooses, if the nodes below
\* it answer.
LEMMA IndexAnswers ==
    ASSUME NEW x, NEW span, InOrder(x, span), NEW b \in DOMAIN span, Node(x, b).depth # 0,
           NEW l \in Nat, NEW below, NEW answer,
           \A c \in DOMAIN span : Answers(below[c], l, answer[c], span[c][1], span[c][2]),
           NEW all, all = UNION {below[e.child] : e \in ToSet(Node(x, b).entries)},
           NEW p, p = IF Chosen(Node(x, b), l) = 0 THEN Corrupt
                      ELSE answer[Node(x, b).entries[Chosen(Node(x, b), l)].child]
    PROVE  Answers(all, l, p, span[b][1], span[b][2])
  <1> DEFINE node == Node(x, b)
             from == span[b][1]
             to == span[b][2]
             m == Chosen(node, l)
  <1>1. PICK entries : entries = node.entries
    OBVIOUS
  <1>2. /\ Len(entries) \in Nat /\ DOMAIN entries = 1 .. Len(entries)
        /\ from \in Nat /\ to \in Nat
    <2>1. entries \in Seq(ToSet(entries)) /\ from \in Nat /\ to \in Nat
      BY <1>1 DEF InOrder
    <2> QED BY <2>1, LenProperties
  <1> DEFINE Lower(i) == span[entries[i].child][1]
             Upper(i) == span[entries[i].child][2]
             At(i) == below[entries[i].child]
  <1>3. ASSUME NEW i \in DOMAIN entries
        PROVE  /\ entries[i].first \in Nat /\ entries[i].child \in DOMAIN span
               /\ from <= Lower(i) /\ entries[i].first <= Lower(i) /\ Upper(i) <= to
               /\ Lower(i) \in Nat /\ Upper(i) \in Nat
               /\ i + 1 \in DOMAIN entries => Upper(i) <= entries[i + 1].first
               /\ \A j \in DOMAIN entries : i < j => entries[i].first < entries[j].first
    <2>1. /\ entries[i].first \in Nat /\ entries[i].child \in DOMAIN span
          /\ {from, entries[i].first} \subseteq 0 .. Lower(i) /\ Upper(i) <= to
          /\ i + 1 \in DOMAIN entries => Upper(i) <= entries[i + 1].first
          /\ \A j \in DOMAIN entries : i < j => entries[i].first < entries[j].first
      BY <1>1, <1>3 DEF InOrder
    <2>2. Lower(i) \in Nat /\ Upper(i) \in Nat
      BY <2>1 DEF InOrder
    <2> QED BY <1>2, <2>1, <2>2
  <1>4. \A e : e \in all <=> \E i \in DOMAIN entries : e \in At(i)
    BY <1>1 DEF ToSet
  <1>5. ASSUME NEW i \in DOMAIN entries
        PROVE  Answers(At(i), l, answer[entries[i].child], Lower(i), Upper(i))
    BY <1>3
  <1>6. ASSUME NEW i \in DOMAIN entries, NEW j \in DOMAIN entries, i < j
        PROVE  /\ Upper(i) <= entries[j].first
               /\ Upper(i) \in Nat /\ Lower(j) \in Nat /\ entries[j].first \in Nat
               /\ entries[j].first <= Lower(j)
    <2>1. i + 1 \in DOMAIN entries /\ entries[i + 1].first <= entries[j].first
      BY <1>2, <1>3, <1>6, Ascends
    <2>2. Upper(i) <= entries[i + 1].first /\ entries[i + 1].first \in Nat
      BY <1>3, <2>1
    <2>3. PICK u, v, w : u = Upper(i) /\ v = entries[i + 1].first /\ w = entries[j].first
      OBVIOUS
    <2>4. u \in Nat /\ v \in Nat /\ w \in Nat /\ u <= v /\ v <= w
      BY <1>3, <2>1, <2>2, <2>3
    <2>5. u <= w
      BY <2>4
    <2> QED BY <1>3, <2>3, <2>5
  <1> HIDE DEF Lower, Upper, At, node
  <1>7. ASSUME NEW i \in DOMAIN entries, NEW e \in At(i), Holds(e, l)
        PROVE  Lower(i) <= l /\ l < Upper(i)
    <2>1. Fits(e, Lower(i), Upper(i))
      BY <1>5 DEF Answers
    <2>2. PICK f, n, lo, up : f = e.first /\ n = Extends(e) /\ lo = Lower(i) /\ up = Upper(i)
      OBVIOUS
    <2>3. /\ f \in Nat /\ n \in Nat /\ lo \in Nat /\ up \in Nat /\ lo <= f /\ f + n <= up
          /\ f <= l /\ l < f + n
      BY <1>3, <1>7, <2>1, <2>2 DEF Fits, Holds
    <2>4. lo <= l /\ l < up
      BY <2>3
    <2> QED BY <2>2, <2>4
  <1>8. ASSUME NEW i \in DOMAIN entries, NEW j \in DOMAIN entries, i < j,
               NEW e \in At(i), NEW f \in At(j), Holds(e, l), Holds(f, l)
        PROVE  FALSE
    <2>1. l < Upper(i) /\ Lower(j) <= l
      BY <1>7, <1>8
    <2>2. PICK u, v, w : u = Upper(i) /\ v = entries[j].first /\ w = Lower(j)
      OBVIOUS
    <2>3. u \in Nat /\ v \in Nat /\ w \in Nat /\ u <= v /\ v <= w /\ l < u /\ w <= l
      BY <1>6, <1>8, <2>1, <2>2
    <2> QED BY <2>3
  <1>9. \A e \in all : Fits(e, from, to)
    <2> SUFFICES ASSUME NEW i \in DOMAIN entries, NEW e \in At(i) PROVE Fits(e, from, to)
      BY <1>4
    <2>1. Fits(e, Lower(i), Upper(i))
      BY <1>5 DEF Answers
    <2>2. PICK f, n, lo, up, a, z : /\ f = e.first /\ n = Extends(e) /\ lo = Lower(i) /\ up = Upper(i)
                                    /\ a = from /\ z = to
      OBVIOUS
    <2>3. /\ f \in Nat /\ n \in Nat /\ lo \in Nat /\ up \in Nat /\ a \in Nat /\ z \in Nat
          /\ a <= lo /\ lo <= f /\ f + n <= up /\ up <= z /\ e.start \in Nat
      BY <1>2, <1>3, <2>1, <2>2 DEF Fits
    <2>4. a <= f /\ f + n <= z
      BY <2>3
    <2> QED BY <2>2, <2>3, <2>4 DEF Fits
  <1>10. \A e, f \in all : Holds(e, l) /\ Holds(f, l) => e = f
    <2> SUFFICES ASSUME NEW e \in all, NEW f \in all, Holds(e, l), Holds(f, l)
                 PROVE  e = f
      OBVIOUS
    <2>1. PICK i \in DOMAIN entries : e \in At(i)
      BY <1>4
    <2>2. PICK j \in DOMAIN entries : f \in At(j)
      BY <1>4
    <2>3. i < j \/ j < i \/ i = j
      BY <1>2
    <2>4. CASE i = j
      BY <1>5, <2>1, <2>2, <2>4 DEF Answers
    <2> QED BY <1>8, <2>1, <2>2, <2>3, <2>4
  <1>11. Found(all, l, p)
    <2>1. CASE m = 0
      BY <2>1 DEF Found, node
    <2>2. CASE m # 0
      <3>1. PICK i : i = m
        OBVIOUS
      <3>2. /\ i \in DOMAIN entries /\ entries[i].first <= l
            /\ i + 1 \in DOMAIN entries => ~(entries[i + 1].first <= l)
        BY <1>1, <1>2, <2>2, <3>1, ChosenIs
      <3>3. p = answer[entries[i].child]
        BY <1>1, <2>2, <3>1 DEF node
      <3>4. Found(At(i), l, p)
        BY <1>5, <3>2, <3>3 DEF Answers
      <3>5. CASE \E e \in At(i) : Holds(e, l) /\ p = Where(e, l)
        BY <1>4, <3>2, <3>5 DEF Found
      <3>6. CASE (\A e \in At(i) : ~Holds(e, l)) /\ p = Hole
        <4>1. ASSUME NEW j \in DOMAIN entries, NEW e \in At(j), Holds(e, l) PROVE FALSE
          <5>1. Lower(j) <= l /\ l < Upper(j)
            BY <1>7, <4>1
          <5>2. CASE j = i
            BY <3>6, <4>1, <5>2
          <5>3. CASE j < i
            <6>1. PICK u, v : u = Upper(j) /\ v = entries[i].first
              OBVIOUS
            <6>2. u \in Nat /\ v \in Nat /\ u <= v /\ v <= l /\ l < u
              BY <1>6, <3>2, <5>1, <5>3, <6>1
            <6> QED BY <6>2
          <5>4. CASE i < j
            <6>1. i + 1 \in DOMAIN entries /\ entries[i + 1].first <= entries[j].first
              BY <1>2, <1>3, <3>2, <5>4, Ascends
            <6>2. PICK u, v, w : u = entries[i + 1].first /\ v = entries[j].first /\ w = Lower(j)
              OBVIOUS
            <6>3. u \in Nat /\ v \in Nat /\ w \in Nat /\ ~(u <= l) /\ u <= v /\ v <= w /\ w <= l
              BY <1>3, <3>2, <5>1, <6>1, <6>2
            <6> QED BY <6>3
          <5> QED BY <1>2, <3>2, <5>2, <5>3, <5>4
        <4> QED BY <1>4, <3>6, <4>1 DEF Found
      <3> QED BY <3>4, <3>5, <3>6 DEF Found
    <2> QED BY <2>1, <2>2
  <1> QED BY <1>9, <1>10, <1>11 DEF Answers

\* So every node does, however many more nodes are looked at.
LEMMA TreeAnswers ==
    ASSUME NEW x, NEW span, InOrder(x, span), NEW l \in Nat
    PROVE  \A k \in 0 .. MaxWalk : \A b \in DOMAIN span :
               Answers(Below(x)[k][b], l, Walk(x, l)[k][b], span[b][1], span[b][2])
  <1> DEFINE W == Walk(x, l)
             B == Below(x)
             S == {k \in 0 .. MaxWalk : \A b \in DOMAIN span :
                       Answers(B[k][b], l, W[k][b], span[b][1], span[b][2])}
  <1>1. /\ MaxWalk \in Nat
        /\ \A k \in 0 .. MaxWalk : W[k] = WalkRow(x, l, k, W)
        /\ \A k \in 0 .. MaxWalk : B[k] = BelowRow(x, k, B)
    BY MapAssumption, WalkIs, BelowIs
  <1>2. \A b \in DOMAIN span : b \in NodeRef
    BY DEF InOrder
  <1> HIDE DEF W, B
  <1>3. 0 \in S
    <2> SUFFICES ASSUME NEW b \in DOMAIN span
                 PROVE  Answers(B[0][b], l, W[0][b], span[b][1], span[b][2])
      BY <1>1
    <2>1. W[0] = WalkRow(x, l, 0, W) /\ B[0] = BelowRow(x, 0, B)
      BY <1>1
    <2>2. W[0][b] = Corrupt /\ B[0][b] = {}
      BY <1>2, <2>1 DEF WalkRow, BelowRow
    <2> QED BY <2>2 DEF Answers, Found
  <1>4. ASSUME NEW k \in 1 .. MaxWalk, k - 1 \in S PROVE k \in S
    <2> SUFFICES ASSUME NEW b \in DOMAIN span
                 PROVE  Answers(B[k][b], l, W[k][b], span[b][1], span[b][2])
      BY <1>1
    <2> DEFINE node == Node(x, b)
               m == Chosen(node, l)
    <2>1. k \in 0 .. MaxWalk /\ k # 0 /\ b \in NodeRef
      BY <1>2
    <2>2. W[k] = WalkRow(x, l, k, W) /\ B[k] = BelowRow(x, k, B)
      BY <1>1, <2>1
    <2>3. W[k][b] = IF ~node.magic THEN Corrupt
                    ELSE IF node.depth = 0 THEN InLeaf(node, l)
                    ELSE IF m = 0 THEN Corrupt ELSE W[k - 1][node.entries[m].child]
      BY <2>1, <2>2 DEF WalkRow
    <2>4. B[k][b] = IF node.depth = 0 THEN ToSet(node.entries)
                    ELSE UNION {B[k - 1][e.child] : e \in ToSet(node.entries)}
      BY <2>1, <2>2 DEF BelowRow
    <2> HIDE DEF node, m
    <2>5. PICK p : /\ Answers(B[k][b], l, p, span[b][1], span[b][2])
                   /\ W[k][b] = IF ~node.magic THEN Corrupt ELSE p
      <3>1. CASE node.depth = 0
        <4>1. Answers(ToSet(node.entries), l, InLeaf(node, l), span[b][1], span[b][2])
          BY <3>1, LeafAnswers DEF node
        <4> QED BY <2>3, <2>4, <3>1, <4>1
      <3>2. CASE node.depth # 0
        <4>1. \A c \in DOMAIN span : Answers(B[k - 1][c], l, W[k - 1][c], span[c][1], span[c][2])
          BY <1>4
        <4>2. PICK below, answer : below = B[k - 1] /\ answer = W[k - 1]
          OBVIOUS
        <4>3. \A c \in DOMAIN span : Answers(below[c], l, answer[c], span[c][1], span[c][2])
          BY <4>1, <4>2
        <4>4. PICK all, p : /\ all = UNION {below[e.child] : e \in ToSet(node.entries)}
                            /\ p = IF m = 0 THEN Corrupt ELSE answer[node.entries[m].child]
          OBVIOUS
        <4>5. Answers(all, l, p, span[b][1], span[b][2])
          BY <3>2, <4>3, <4>4, IndexAnswers DEF node, m
        <4> QED BY <2>3, <2>4, <3>2, <4>2, <4>4, <4>5
      <3> QED BY <3>1, <3>2
    <2> QED BY <2>5 DEF Answers, Found
  <1> HIDE DEF S
  <1>5. 0 .. MaxWalk \subseteq S
    BY <1>1, <1>3, <1>4, Climb
  <1> QED BY <1>5 DEF S, W, B

\* The lookup in a tree that is in order finds what the whole tree says, or an error.
LEMMA ExtentRight ==
    ASSUME NEW x, NEW span, x.map = "extents", InOrder(x, span), NEW l \in Nat
    PROVE  Paddr(x, l) = Corrupt \/ (Paddr(x, l) \in Nat /\ Paddr(x, l) = TrueBlock(x, l))
  <1> DEFINE all == Below(x)[MaxWalk][InInode]
             p == Walk(x, l)[MaxWalk][InInode]
             from == span[InInode][1]
             to == span[InInode][2]
             holding == {e \in all : Holds(e, l)}
  <1>1. MaxWalk \in 0 .. MaxWalk /\ InInode \in DOMAIN span
    BY MapAssumption DEF InOrder
  <1>2. Answers(all, l, p, from, to)
    BY <1>1, TreeAnswers
  <1>3. Paddr(x, l) = p
    BY DEF Paddr, Extent
  <1>4. x.map # "indirect"
    OBVIOUS
  <1>5. TrueBlock(x, l) = IF holding = {} THEN Hole ELSE Where(CHOOSE e \in holding : TRUE, l)
    BY <1>4 DEF TrueBlock
  <1> HIDE DEF all, p, from, to
  <1>6. CASE p = Corrupt
    BY <1>3, <1>6
  <1>7. CASE (\A e \in all : ~Holds(e, l)) /\ p = Hole
    <2>1. holding = {}
      BY <1>7
    <2> QED BY <1>3, <1>5, <1>7, <2>1 DEF Hole
  <1>8. CASE \E e \in all : Holds(e, l) /\ p = Where(e, l)
    <2>1. PICK e \in all : Holds(e, l) /\ p = Where(e, l)
      BY <1>8
    <2>2. holding = {e}
      BY <1>2, <2>1 DEF Answers
    <2>3. TrueBlock(x, l) = Where(e, l)
      <3>1. (CHOOSE f \in holding : TRUE) = e
        BY <2>2
      <3> QED BY <1>5, <2>2, <3>1
    <2>4. Where(e, l) \in Nat
      <3>1. e.first \in Nat /\ e.start \in Nat /\ e.first <= l
        BY <1>2, <2>1 DEF Answers, Fits, Holds
      <3> QED BY <3>1 DEF Where, Hole
    <2> QED BY <1>3, <2>1, <2>3, <2>4
  <1> QED BY <1>2, <1>6, <1>7, <1>8 DEF Answers, Found

-----------------------------------------------------------------------------
(* Pointers.                                                               *)

\* The digits of a number of two.
LEMMA TwoDigits ==
    ASSUME NEW n \in Nat \ {0}, NEW a \in Nat, a < n * n
    PROVE  \E i, j \in 0 .. n - 1 : a = n * i + j
  <1>1. PICK q \in Nat, r \in 0 .. n - 1 : a = n * q + r
    BY DivMod
  <1>2. q < n
    BY <1>1, QuotientBelow
  <1>3. q \in 0 .. n - 1
    BY <1>2
  <1> QED BY <1>1, <1>3

\* Of one of three.
LEMMA ThreeDigits ==
    ASSUME NEW n \in Nat \ {0}, NEW a \in Nat, a < n * n * n
    PROVE  \E i, j, k \in 0 .. n - 1 : a = n * (n * i + j) + k
  <1>1. PICK q \in Nat, k \in 0 .. n - 1 : a = n * q + k
    BY DivMod
  <1>2. PICK s : s = n * n
    OBVIOUS
  <1>3. s \in Nat /\ n * n * n = n * s
    BY <1>2
  <1>4. n * q + k < n * s
    BY <1>1, <1>3
  <1>5. q < s
    BY <1>3, <1>4, QuotientBelow
  <1>6. PICK i, j \in 0 .. n - 1 : q = n * i + j
    BY <1>2, <1>5, TwoDigits
  <1>7. a = n * (n * i + j) + k
    BY <1>1, <1>6
  <1> QED BY <1>6, <1>7

\* And a number below a multiple, from its digits.
LEMMA BelowMultiple ==
    ASSUME NEW n \in Nat \ {0}, NEW m \in Nat, NEW q \in 0 .. m - 1, NEW r \in 0 .. n - 1
    PROVE  n * q + r \in 0 .. n * m - 1
  <1>1. q < m /\ q \in Int /\ m \in Int
    OBVIOUS
  <1>2. n * q + n <= n * m
    BY <1>1, Multiples
  <1>3. PICK u, v : u = n * q /\ v = n * m
    OBVIOUS
  <1>4. u \in Nat /\ v \in Nat
    BY <1>3
  <1>5. u + r \in 0 .. v - 1
    BY <1>2, <1>3, <1>4
  <1> QED BY <1>3, <1>5

\* What division gives of a number of three digits.
Parts3(n, i, j, k, a) ==
    a \in 0 .. n * n * n - 1 /\ a \div (n * n) = i /\ (a \div n) % n = j /\ a % n = k

\* The sums and the remainders of the code find its digits.
LEMMA DigitsOf ==
    ASSUME NEW n \in Nat \ {0}, NEW i \in 0 .. n - 1, NEW j \in 0 .. n - 1, NEW k \in 0 .. n - 1,
           NEW a, a = n * (n * i + j) + k
    PROVE  Parts3(n, i, j, k, a)
  <1>1. PICK s, t : s = n * n /\ t = n * i + j
    OBVIOUS
  <1>2. s \in Nat \ {0} /\ n * n * n = n * s
    BY <1>1
  <1>3. t \in 0 .. s - 1 /\ t \div n = i /\ t % n = j
    BY <1>1, DivUnique, BelowMultiple
  <1>4. n * t + k \in 0 .. n * s - 1 /\ (n * t + k) \div n = t /\ (n * t + k) % n = k
    <2>1. t \in Nat
      BY <1>2, <1>3
    <2> QED BY <1>2, <1>3, <2>1, DivUnique, BelowMultiple
  <1>5. (n * t + k) \div s = i
    <2>1. n * j + k \in 0 .. s - 1
      BY <1>1, BelowMultiple
    <2>2. PICK z : z = n * j + k
      OBVIOUS
    <2>3. n * t + k = s * i + z
      <3>1. n * (n * i + j) = n * n * i + n * j
        OBVIOUS
      <3> QED BY <1>1, <2>2, <3>1
    <2>4. (s * i + z) \div s = i
      BY <1>2, <2>1, <2>2, DivUnique
    <2> QED BY <2>3, <2>4
  <1> QED BY <1>1, <1>2, <1>3, <1>4, <1>5 DEF Parts3

\* A pointer leads into the image.
LEMMA PointerIn ==
    ASSUME NEW x, PointersFit(x), NEW b \in Block, NEW i \in Digit
    PROVE  Pointer(b, i) \in Block
  <1>1. {Ptrs, NBlocks} \subseteq Nat \ {0}
    BY MapAssumption
  <1>2. i + 1 \in 1 .. Ptrs
    BY <1>1 DEF Digit
  <1>3. 0 \in Block
    BY <1>1 DEF Block
  <1> QED BY <1>2, <1>3 DEF Pointer, PointersFit, Hole

\* Where the digits of a block's number lead is where the code's sums lead.
LEMMA LeadsThere ==
    ASSUME NEW x, NEW l \in Nat, NEW p, Leads(x, l, p)
    PROVE  p = Indirect(x, l)
  <1>1. Ptrs \in Nat \ {0} /\ NDirect \in Nat
    BY MapAssumption
  <1>2. PICK n, d : n = Ptrs /\ d = NDirect
    OBVIOUS
  <1>3. PICK s, t : s = n * n /\ t = n * n * n
    OBVIOUS
  <1>4. n \in Nat \ {0} /\ d \in Nat /\ s \in Nat /\ t \in Nat
    BY <1>1, <1>2, <1>3
  <1>5. Indirect(x, l) =
            IF l < d THEN x.block[l + 1]
            ELSE IF l - d < n THEN Pointer(x.block[d + 1], l - d)
            ELSE IF l - d - n < s
                 THEN Pointer(Pointer(x.block[d + 2], (l - d - n) \div n), (l - d - n) % n)
            ELSE IF l - d - n - s < t
                 THEN Pointer(Pointer(Pointer(x.block[d + 3], (l - d - n - s) \div s),
                                      ((l - d - n - s) \div n) % n), (l - d - n - s) % n)
            ELSE Corrupt
    BY <1>2, <1>3, Zenon DEF Indirect
  <1>6. CASE l < NDirect /\ p = x.block[l + 1]
    BY <1>2, <1>5, <1>6
  <1>7. CASE \E i \in Digit : l = NDirect + i /\ p = Pointer(x.block[NDirect + 1], i)
    <2>1. PICK i \in 0 .. n - 1 : l = d + i /\ p = Pointer(x.block[d + 1], i)
      BY <1>2, <1>7 DEF Digit
    <2>2. ~(l < d) /\ l - d = i /\ l - d < n
      BY <1>4, <2>1
    <2> QED BY <1>5, <2>1, <2>2
  <1>8. CASE \E i, j \in Digit : /\ l = NDirect + Ptrs + (Ptrs * i + j)
                                 /\ p = Pointer(Pointer(x.block[NDirect + 2], i), j)
    <2>1. PICK i \in 0 .. n - 1, j \in 0 .. n - 1 :
              l = d + n + (n * i + j) /\ p = Pointer(Pointer(x.block[d + 2], i), j)
      BY <1>2, <1>8 DEF Digit
    <2>2. PICK a : a = n * i + j
      OBVIOUS
    <2>3. a \in 0 .. s - 1 /\ a \div n = i /\ a % n = j
      BY <1>3, <1>4, <2>2, DivUnique, BelowMultiple
    <2>4. ~(l < d) /\ ~(l - d < n) /\ l - d - n = a /\ a < s
      BY <1>4, <2>1, <2>2, <2>3
    <2> QED BY <1>5, <2>1, <2>3, <2>4
  <1>9. CASE \E i, j, k \in Digit :
                 /\ l = NDirect + Ptrs + Ptrs * Ptrs + (Ptrs * (Ptrs * i + j) + k)
                 /\ p = Pointer(Pointer(Pointer(x.block[NDirect + 3], i), j), k)
    <2>1. PICK i \in 0 .. n - 1, j \in 0 .. n - 1, k \in 0 .. n - 1 :
              /\ l = d + n + s + (n * (n * i + j) + k)
              /\ p = Pointer(Pointer(Pointer(x.block[d + 3], i), j), k)
      BY <1>2, <1>3, <1>9 DEF Digit
    <2>2. PICK a : a = n * (n * i + j) + k
      OBVIOUS
    <2>3. a \in 0 .. t - 1 /\ a \div s = i /\ (a \div n) % n = j /\ a % n = k
      <3>1. Parts3(n, i, j, k, a)
        BY <1>4, <2>2, DigitsOf
      <3> QED BY <1>3, <3>1 DEF Parts3
    <2>4. ~(l < d) /\ ~(l - d < n) /\ ~(l - d - n < s) /\ l - d - n - s = a /\ a < t
      BY <1>4, <2>1, <2>2, <2>3
    <2> QED BY <1>5, <2>1, <2>3, <2>4
  <1> QED BY <1>6, <1>7, <1>8, <1>9 DEF Leads

\* And every block within the third level has its digits.
LEMMA LeadsSomewhere ==
    ASSUME NEW x, PointersFit(x), NEW l \in Nat,
           l < NDirect + Ptrs + Ptrs * Ptrs + Ptrs * Ptrs * Ptrs
    PROVE  \E p \in Block : Leads(x, l, p)
  <1>1. Ptrs \in Nat \ {0} /\ NDirect \in Nat
    BY MapAssumption
  <1>2. PICK n, d : n = Ptrs /\ d = NDirect
    OBVIOUS
  <1>3. PICK s, t : s = n * n /\ t = n * n * n
    OBVIOUS
  <1>4. n \in Nat \ {0} /\ d \in Nat /\ s \in Nat /\ t \in Nat /\ l < d + n + s + t
    BY <1>1, <1>2, <1>3
  <1>5. \A k \in 1 .. d + 3 : x.block[k] \in Block
    BY <1>2 DEF PointersFit
  <1>6. \A b \in Block, i \in 0 .. n - 1 : Pointer(b, i) \in Block
    BY <1>2, PointerIn DEF Digit
  <1>7. CASE l < d
    <2>1. x.block[l + 1] \in Block
      BY <1>4, <1>5, <1>7
    <2> QED BY <1>2, <1>7, <2>1 DEF Leads
  <1>8. CASE ~(l < d) /\ l < d + n
    <2>1. PICK i \in 0 .. n - 1 : l = d + i
      <3>1. l - d \in 0 .. n - 1 /\ l = d + (l - d)
        BY <1>4, <1>8
      <3> QED BY <3>1
    <2>2. Pointer(x.block[d + 1], i) \in Block
      BY <1>4, <1>5, <1>6
    <2> QED BY <1>2, <2>1, <2>2 DEF Leads, Digit
  <1>9. CASE ~(l < d + n) /\ l < d + n + s
    <2>1. PICK a : a = l - d - n
      OBVIOUS
    <2>2. a \in Nat /\ a < n * n /\ l = d + n + a
      BY <1>3, <1>4, <1>9, <2>1
    <2>3. PICK i \in 0 .. n - 1, j \in 0 .. n - 1 : a = n * i + j
      BY <1>4, <2>2, TwoDigits
    <2>4. Pointer(Pointer(x.block[d + 2], i), j) \in Block
      BY <1>4, <1>5, <1>6
    <2>5. l = d + n + (n * i + j)
      BY <2>2, <2>3
    <2> QED BY <1>2, <2>4, <2>5 DEF Leads, Digit
  <1>10. CASE ~(l < d + n + s)
    <2>1. PICK a : a = l - d - n - s
      OBVIOUS
    <2>2. a \in Nat /\ a < n * n * n /\ l = d + n + s + a
      BY <1>3, <1>4, <1>10, <2>1
    <2>3. PICK i \in 0 .. n - 1, j \in 0 .. n - 1, k \in 0 .. n - 1 : a = n * (n * i + j) + k
      BY <1>4, <2>2, ThreeDigits
    <2>4. Pointer(Pointer(Pointer(x.block[d + 3], i), j), k) \in Block
      BY <1>4, <1>5, <1>6
    <2>5. l = d + n + s + (n * (n * i + j) + k)
      BY <2>2, <2>3
    <2> QED BY <1>2, <1>3, <2>4, <2>5 DEF Leads, Digit
  <1> QED BY <1>7, <1>8, <1>9, <1>10

\* The lookup of a block by its pointers is right.
LEMMA IndirectRight ==
    ASSUME NEW x, x.map = "indirect", PointersFit(x), TotalBlocks(x) \in Nat,
           NEW l \in Nat, l < TotalBlocks(x)
    PROVE  Paddr(x, l) \in Nat /\ Paddr(x, l) = TrueBlock(x, l)
  <1>1. l < NDirect + Ptrs + Ptrs * Ptrs + Ptrs * Ptrs * Ptrs
    <2>1. PICK m, n : m = TotalBlocks(x) /\ n = NDirect + Ptrs + Ptrs * Ptrs + Ptrs * Ptrs * Ptrs
      OBVIOUS
    <2>2. m \in Nat /\ n \in Nat /\ m <= n /\ l < m
      <3>1. n \in Nat
        BY <2>1, MapAssumption
      <3> QED BY <2>1, <3>1 DEF PointersFit
    <2> QED BY <2>1, <2>2
  <1>2. PICK p \in Block : Leads(x, l, p)
    BY <1>1, LeadsSomewhere
  <1>3. p = Indirect(x, l)
    BY <1>2, LeadsThere
  <1>4. (CHOOSE q \in Block : Leads(x, l, q)) = p
    BY <1>2, <1>3, LeadsThere
  <1>5. Paddr(x, l) = p /\ TrueBlock(x, l) = p
    BY <1>3, <1>4 DEF Paddr, TrueBlock
  <1>6. p \in Nat
    BY MapAssumption DEF Block
  <1> QED BY <1>5, <1>6

-----------------------------------------------------------------------------
(* Files whose maps are in order.                                          *)

AllSound == \A n \in Wanted : \E span : Sound(InodeOf(n), span)

\* Where every file's map is in order, however deep and wide, a lookup finds the block
\* that the whole map says, the hole that it leaves, or an error: the search down the
\* tree misses no extent, and the levels of pointers are counted right.
THEOREM OrderedMaps == AllSound => MapsRight
  <1> SUFFICES ASSUME AllSound, NEW n \in Wanted, InBlocks(InodeOf(n)),
                      NEW l \in 0 .. TotalBlocks(InodeOf(n)) - 1
               PROVE  \/ Paddr(InodeOf(n), l) = Corrupt
                      \/ /\ Paddr(InodeOf(n), l) \in Nat
                         /\ Paddr(InodeOf(n), l) = TrueBlock(InodeOf(n), l)
    BY DEF MapsRight
  <1>1. PICK x : x = InodeOf(n)
    OBVIOUS
  <1>2. PICK span : Sound(x, span)
    BY <1>1 DEF AllSound
  <1>3. n \in 1 .. PerGroup * Len(Tables)
    BY ReaderAssumption
  <1>4. TotalBlocks(x) \in Nat /\ l \in Nat /\ l < TotalBlocks(x)
    <2>1. TotalBlocks(x) \in Nat
      BY <1>1, <1>3, InodeIs, BlocksOfSize
    <2> QED BY <1>1, <2>1
  <1>5. CASE x.map = "extents"
    <2>1. InOrder(x, span)
      BY <1>2, <1>5 DEF Sound
    <2> QED BY <1>1, <1>4, <1>5, <2>1, ExtentRight
  <1>6. CASE x.map = "indirect"
    <2>1. PointersFit(x)
      BY <1>2, <1>6 DEF Sound
    <2> QED BY <1>1, <1>4, <1>6, <2>1, IndirectRight
  <1> QED BY <1>1, <1>5, <1>6 DEF InBlocks

\* In an image whose files are in order, every reader is handed its file from the
\* beginning, in order and with nothing of another file, whoever else reads; a reader
\* that is done has all of it.
THEOREM StreamIsFile == AllSound => (Spec => []StreamFaithful)
  <1>1. AllSound => InodesRight
    <2> SUFFICES ASSUME AllSound, NEW n \in Wanted, InodeOf(n).map = "inline"
                 PROVE  InlineFits(InodeOf(n))
      BY DEF InodesRight
    <2>1. PICK span : Sound(InodeOf(n), span)
      BY DEF AllSound
    <2> QED BY <2>1 DEF Sound
  <1> QED BY <1>1, OrderedMaps, RightMapsRightStreams

=============================================================================
