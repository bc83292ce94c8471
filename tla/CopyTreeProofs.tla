---------------------------- MODULE CopyTreeProofs ----------------------------
(***************************************************************************)
(* Proofs about the walks of CopyTree, for every image, depth limit and    *)
(* names: directories are listed before what goes into them, a walk stops  *)
(* soon after Cancel, what is copied is what the path leads to, and a walk *)
(* that is not cut short forgets nothing.                                  *)
(***************************************************************************)
EXTENDS CopyTree, SequenceTheorems, TLAPS

\* Sequences and calls of any elements: names and entries need no type here.
IsSeq(s) == \E S : s \in Seq(S)
IsCall(c) ==
    /\ c = [ino |-> c.ino, path |-> c.path, dest |-> c.dest,
            depth |-> c.depth, at |-> c.at, left |-> c.left]
    /\ c.at \in {"look", "visit", "list", "link"}
    /\ IsSeq(c.path) /\ IsSeq(c.dest)

\* Only the innermost call does anything; the others wait for it.
Waits(c) == c.at \in {"list", "link"}
Calls ==
    /\ IsSeq(stack)
    /\ \A k \in 1 .. Len(stack) : IsCall(stack[k])
    /\ \A k \in 1 .. Len(stack) - 1 : Waits(stack[k])
    /\ ret # "none" => \A k \in 1 .. Len(stack) : Waits(stack[k])
    /\ IsSeq(out)

\* After a cancel only a call that has looked before may put out its one item.
Quiet == stack # <<>> => Now.at # "visit"
OneMore ==
    /\ atCancel \in Nat
    /\ cancel => Len(out) <= atCancel + 1
    /\ cancel /\ ~Quiet => Len(out) <= atCancel

\* A directory of these names has been put out, by position n.
DirOut(path, dest, n) ==
    \E j \in 1 .. n : out[j].kind = "dir" /\ out[j].path = path /\ out[j].dest = dest

\* The directory of every call has been put out, and so has one that is listed.
Placed ==
    /\ \A k \in 1 .. Len(stack) :
          /\ stack[k].path # <<>> =>
                DirOut(Front(stack[k].path), Front(stack[k].dest), Len(out))
          /\ stack[k].at = "list" => DirOut(stack[k].path, stack[k].dest, Len(out))
    /\ ParentsFirst

-----------------------------------------------------------------------------
(* Sequences.                                                              *)

\* Append and Front undo each other.
LEMMA FrontOfAppend ==
    ASSUME NEW s, NEW e, IsSeq(s)
    PROVE  /\ IsSeq(Append(s, e))
           /\ Len(s) \in Nat /\ Len(Append(s, e)) = Len(s) + 1
           /\ \A k \in 1 .. Len(s) : Append(s, e)[k] = s[k]
           /\ Append(s, e)[Len(s) + 1] = e
           /\ Append(s, e) # <<>>
           /\ Front(Append(s, e)) = s
  <1>1. PICK S : s \in Seq(S)
    BY DEF IsSeq
  <1> DEFINE E == S \cup {e}
  <1>2. s \in Seq(E) /\ e \in E
    BY <1>1
  <1> HIDE DEF E
  <1>3. Append(s, e) \in Seq(E) /\ Len(s) \in Nat /\ Len(Append(s, e)) = Len(s) + 1
    BY <1>2
  <1>4. \A k \in 1 .. Len(s) : Append(s, e)[k] = s[k]
    BY <1>2
  <1>5. Append(s, e)[Len(s) + 1] = e
    BY <1>2
  <1>6. Front(Append(s, e)) = SubSeq(Append(s, e), 1, Len(s))
    BY <1>3 DEF Front
  <1>7. SubSeq(Append(s, e), 1, Len(s)) = s
    <2>1. SubSeq(Append(s, e), 1, Len(s)) \in Seq(E) /\ Len(SubSeq(Append(s, e), 1, Len(s))) = Len(s)
      BY <1>2, <1>3
    <2>2. \A k \in 1 .. Len(s) : SubSeq(Append(s, e), 1, Len(s))[k] = s[k]
      BY <1>2, <1>3, <1>4
    <2> QED BY <1>2, <2>1, <2>2, SeqEqual
  <1> QED BY <1>3, <1>4, <1>5, <1>6, <1>7 DEF IsSeq

\* What is left when the last element goes.
LEMMA FrontIs ==
    ASSUME NEW s, IsSeq(s), s # <<>>
    PROVE  /\ IsSeq(Front(s)) /\ Len(s) \in Nat \ {0} /\ Len(Front(s)) = Len(s) - 1
           /\ \A k \in 1 .. Len(s) - 1 : Front(s)[k] = s[k]
  <1>1. PICK S : s \in Seq(S)
    BY DEF IsSeq
  <1>2. Len(s) \in Nat \ {0}
    BY <1>1
  <1>3. \A k \in 1 .. Len(s) - 1 : s[k] \in S
    BY <1>1, <1>2
  <1> DEFINE n == Len(s) - 1
  <1>4. n \in Nat /\ (1 <= n \/ n = 0)
    BY <1>2
  <1> HIDE DEF n
  <1>5. /\ SubSeq(s, 1, n) \in Seq(S) /\ Len(SubSeq(s, 1, n)) = n
        /\ \A k \in 1 .. n : SubSeq(s, 1, n)[k] = s[k]
    BY <1>3, <1>4, SubSeqProperties DEF n
  <1> QED BY <1>2, <1>5 DEF IsSeq, Front, n

\* The last element is replaced.
LEMMA LastReplaced ==
    ASSUME NEW s, NEW e, IsSeq(s), s # <<>>
    PROVE  /\ IsSeq([s EXCEPT ![Len(s)] = e])
           /\ Len(s) \in Nat \ {0} /\ Len([s EXCEPT ![Len(s)] = e]) = Len(s)
           /\ \A k \in 1 .. Len(s) - 1 : [s EXCEPT ![Len(s)] = e][k] = s[k]
           /\ [s EXCEPT ![Len(s)] = e][Len(s)] = e
  <1>1. PICK S : s \in Seq(S)
    BY DEF IsSeq
  <1> DEFINE E == S \cup {e}
  <1>2. s \in Seq(E) /\ e \in E
    BY <1>1
  <1> HIDE DEF E
  <1>3. Len(s) \in Nat \ {0} /\ Len(s) \in 1 .. Len(s)
    BY <1>2
  <1>4. /\ [s EXCEPT ![Len(s)] = e] \in Seq(E) /\ Len([s EXCEPT ![Len(s)] = e]) = Len(s)
        /\ \A j \in 1 .. Len(s) : [s EXCEPT ![Len(s)] = e][j] = IF j = Len(s) THEN e ELSE s[j]
    BY <1>2, <1>3, ExceptSeq
  <1>5. IsSeq([s EXCEPT ![Len(s)] = e])
    BY <1>4 DEF IsSeq
  <1>6. \A k \in 1 .. Len(s) - 1 : k \in 1 .. Len(s) /\ k # Len(s)
    BY <1>3
  <1> QED BY <1>3, <1>4, <1>5, <1>6

-----------------------------------------------------------------------------
(* What a step does to the calls and to what has been put out.             *)

\* The innermost call.
LEMMA Innermost ==
    ASSUME Calls, stack # <<>>
    PROVE  /\ Len(stack) \in Nat \ {0} /\ Now = stack[Len(stack)] /\ IsCall(Now)
           /\ Len(out) \in Nat /\ DOMAIN out = 1 .. Len(out)
  <1>1. Len(stack) \in Nat \ {0}
    BY FrontIs DEF Calls
  <1>2. Len(out) \in Nat /\ DOMAIN out = 1 .. Len(out)
    BY LenProperties DEF Calls, IsSeq
  <1> QED BY <1>1, <1>2 DEF Calls, Now, Last

\* The call d for the place of c, at another point of its work.
SamePlace(d, c, label) ==
    IsCall(d) /\ d.at = label /\ d.path = c.path /\ d.dest = c.dest /\ d.ino = c.ino

\* A call that goes on is another call for the same place.
LEMMA Onward ==
    ASSUME NEW c, IsCall(c), NEW label \in {"look", "visit", "list", "link"}, NEW left
    PROVE  /\ SamePlace([c EXCEPT !.at = label], c, label)
           /\ SamePlace([c EXCEPT !.left = left], c, c.at)
           /\ SamePlace([c EXCEPT !.at = label, !.left = left], c, label)
  <1>1. PICK i, p, q, n, a, l :
           c = [ino |-> i, path |-> p, dest |-> q, depth |-> n, at |-> a, left |-> l]
    BY DEF IsCall
  <1>2. /\ [c EXCEPT !.at = label] =
              [ino |-> i, path |-> p, dest |-> q, depth |-> n, at |-> label, left |-> l]
        /\ [c EXCEPT !.left = left] =
              [ino |-> i, path |-> p, dest |-> q, depth |-> n, at |-> a, left |-> left]
        /\ [c EXCEPT !.at = label, !.left = left] =
              [ino |-> i, path |-> p, dest |-> q, depth |-> n, at |-> label, left |-> left]
    <2>1. [c EXCEPT !.at = label] =
              [ino |-> i, path |-> p, dest |-> q, depth |-> n, at |-> label, left |-> l]
      BY <1>1
    <2>2. [c EXCEPT !.left = left] =
              [ino |-> i, path |-> p, dest |-> q, depth |-> n, at |-> a, left |-> left]
      BY <1>1
    <2>3. [c EXCEPT !.at = label, !.left = left] =
              [ino |-> i, path |-> p, dest |-> q, depth |-> n, at |-> label, left |-> left]
      <3> DEFINE b == [ino |-> i, path |-> p, dest |-> q, depth |-> n, at |-> label, left |-> l]
      <3>1. [c EXCEPT !.at = label, !.left = left] = [[c EXCEPT !.at = label] EXCEPT !.left = left]
        OBVIOUS
      <3>2. [c EXCEPT !.at = label] = b
        BY <2>1
      <3>3. [b EXCEPT !.left = left] =
              [ino |-> i, path |-> p, dest |-> q, depth |-> n, at |-> label, left |-> left]
        OBVIOUS
      <3> HIDE DEF b
      <3>4. [[c EXCEPT !.at = label] EXCEPT !.left = left] = [b EXCEPT !.left = left]
        BY <3>2
      <3> QED BY <3>1, <3>3, <3>4
    <2> QED BY <2>1, <2>2, <2>3
  <1>3. IsSeq(p) /\ IsSeq(q) /\ a \in {"look", "visit", "list", "link"} /\ c.path = p /\ c.dest = q /\ c.at = a
        /\ c.ino = i
    BY <1>1 DEF IsCall
  <1> QED BY <1>2, <1>3 DEF IsCall, SamePlace

\* What a step may put out: nothing, or the item of the innermost call.
OutStep ==
    \/ out' = out
    \/ \E kind : out' = Append(out, [kind |-> kind, ino |-> Now.ino, path |-> Now.path, dest |-> Now.dest])
    \/ \E kind, x : out' = Append(out, [kind |-> kind, ino |-> x, path |-> Now.path, dest |-> Now.dest])

\* What has been put out stays, and goes below a directory put out before.
LEMMA OutGrows ==
    ASSUME Calls, Placed, stack # <<>>, OutStep
    PROVE  /\ IsSeq(out')
           /\ \A path, dest : DirOut(path, dest, Len(out)) => DirOut(path, dest, Len(out))'
           /\ ParentsFirst'
  <1>1. /\ Len(stack) \in Nat \ {0} /\ Now = stack[Len(stack)]
        /\ Len(out) \in Nat /\ DOMAIN out = 1 .. Len(out) /\ IsSeq(out)
    BY Innermost DEF Calls
  <1>2. CASE out' = out
    BY <1>1, <1>2 DEF Placed, DirOut, ParentsFirst, OutRange
  <1>3. ASSUME NEW x, x.path = Now.path, x.dest = Now.dest, out' = Append(out, x)
        PROVE  /\ IsSeq(out')
               /\ \A path, dest : DirOut(path, dest, Len(out)) => DirOut(path, dest, Len(out))'
               /\ ParentsFirst'
    <2>1. /\ IsSeq(out') /\ Len(out') = Len(out) + 1
          /\ \A k \in 1 .. Len(out) : out'[k] = out[k]
          /\ out'[Len(out) + 1] = x
      BY <1>1, <1>3, FrontOfAppend
    <2>2. DOMAIN out' = 1 .. Len(out')
      BY <2>1, LenProperties DEF IsSeq
    <2>3. \A path, dest : DirOut(path, dest, Len(out)) => DirOut(path, dest, Len(out))'
      BY <1>1, <2>1 DEF DirOut
    <2>4. x.path # <<>> => DirOut(Front(x.path), Front(x.dest), Len(out))
      BY <1>1, <1>3 DEF Placed
    <2>5. ASSUME NEW k \in 1 .. Len(out'), out'[k].path # <<>>
          PROVE  \E j \in 1 .. k - 1 : /\ out'[j].kind = "dir"
                                       /\ out'[j].path = Front(out'[k].path)
                                       /\ out'[j].dest = Front(out'[k].dest)
      <3>1. CASE k = Len(out) + 1
        BY <1>1, <2>1, <2>4, <2>5, <3>1 DEF DirOut
      <3>2. CASE k \in 1 .. Len(out)
        <4>1. \A j \in 1 .. k - 1 : out'[j] = out[j]
          BY <1>1, <2>1, <3>2
        <4>2. out'[k] = out[k]
          BY <2>1, <3>2
        <4> QED BY <1>1, <2>5, <3>2, <4>1, <4>2 DEF Placed, ParentsFirst, OutRange
      <3> QED BY <1>1, <2>1, <3>1, <3>2
    <2> QED BY <2>1, <2>2, <2>3, <2>5 DEF ParentsFirst, OutRange
  <1> QED BY <1>2, <1>3 DEF OutStep

\* The innermost call goes on.
LEMMA GoOn ==
    ASSUME Calls, Placed, stack # <<>>, ret = "none", ret' = "none", OutStep,
           NEW d, IsCall(d), d.path = Now.path, d.dest = Now.dest,
           stack' = [stack EXCEPT ![Len(stack)] = d],
           d.at = "list" => DirOut(d.path, d.dest, Len(out))'
    PROVE  (Calls /\ Placed)' /\ (d.at # "visit" => Quiet')
  <1>1. /\ Len(stack) \in Nat \ {0} /\ Now = stack[Len(stack)] /\ IsSeq(stack)
    BY Innermost DEF Calls
  <1> DEFINE s == [stack EXCEPT ![Len(stack)] = d]
  <1>2. /\ IsSeq(stack') /\ Len(stack') = Len(stack) /\ stack'[Len(stack)] = d
        /\ \A k \in 1 .. Len(stack) - 1 : stack'[k] = stack[k]
    <2>1. /\ IsSeq(s) /\ Len(s) = Len(stack) /\ s[Len(stack)] = d
          /\ \A k \in 1 .. Len(stack) - 1 : s[k] = stack[k]
      BY <1>1, LastReplaced
    <2>2. stack' = s
      OBVIOUS
    <2> QED BY <2>1, <2>2
  <1>3. /\ IsSeq(out') /\ ParentsFirst'
        /\ \A path, dest : DirOut(path, dest, Len(out)) => DirOut(path, dest, Len(out))'
    BY OutGrows
  <1>4. \A k \in 1 .. Len(stack) : k = Len(stack) \/ k \in 1 .. Len(stack) - 1
    BY <1>1
  <1>5. Calls'
    BY <1>1, <1>2, <1>3, <1>4 DEF Calls
  <1>6. ASSUME NEW k \in 1 .. Len(stack)
        PROVE  /\ (stack[k].path # <<>> => DirOut(Front(stack[k].path), Front(stack[k].dest), Len(out)))'
               /\ (stack[k].at = "list" => DirOut(stack[k].path, stack[k].dest, Len(out)))'
    <2>1. CASE k = Len(stack)
      BY <1>1, <1>2, <1>3, <2>1 DEF Placed
    <2>2. CASE k \in 1 .. Len(stack) - 1
      BY <1>1, <1>2, <1>3, <2>2 DEF Placed
    <2> QED BY <1>4, <2>1, <2>2
  <1>7. d.at # "visit" => Quiet'
    BY <1>2 DEF Quiet, Now, Last
  <1> QED BY <1>2, <1>3, <1>5, <1>6, <1>7 DEF Placed

\* The innermost call returns.
LEMMA GoBack ==
    ASSUME Calls, Placed, stack # <<>>, OutStep, stack' = Front(stack)
    PROVE  (Calls /\ Placed /\ Quiet)'
  <1>1. /\ Len(stack) \in Nat \ {0} /\ IsSeq(stack)
    BY Innermost DEF Calls
  <1>2. /\ IsSeq(stack') /\ Len(stack') = Len(stack) - 1
        /\ \A k \in 1 .. Len(stack) - 1 : stack'[k] = stack[k]
    BY <1>1, FrontIs
  <1>3. /\ IsSeq(out') /\ ParentsFirst'
        /\ \A path, dest : DirOut(path, dest, Len(out)) => DirOut(path, dest, Len(out))'
    BY OutGrows
  <1>4. \A k \in 1 .. Len(stack') : k \in 1 .. Len(stack) - 1 /\ k \in 1 .. Len(stack) /\ stack'[k] = stack[k]
    BY <1>1, <1>2
  <1>5. \A k \in 1 .. Len(stack') - 1 : k \in 1 .. Len(stack')
    BY <1>1, <1>2
  <1>6. Calls'
    BY <1>2, <1>3, <1>4, <1>5 DEF Calls
  <1>7. Quiet'
    <2>1. stack' # <<>> => Len(stack') \in 1 .. Len(stack')
      BY <1>2, FrontIs
    <2> QED BY <1>4, <2>1 DEF Calls, Waits, Quiet, Now, Last
  <1> QED BY <1>3, <1>4, <1>6, <1>7 DEF Placed

\* The innermost call makes another one, and waits.
LEMMA GoDown ==
    ASSUME Calls, Placed, stack # <<>>, ret = "none", ret' = "none", out' = out,
           NEW d, IsCall(d), d.path = Now.path, d.dest = Now.dest, Waits(d),
           d.at = "list" => Now.at = "list",
           NEW e, IsCall(e), e.at = "look",
           e.path # <<>> => DirOut(Front(e.path), Front(e.dest), Len(out)),
           stack' = Append([stack EXCEPT ![Len(stack)] = d], e)
    PROVE  (Calls /\ Placed /\ Quiet)'
  <1> DEFINE s == [stack EXCEPT ![Len(stack)] = d]
  <1>1. /\ Len(stack) \in Nat \ {0} /\ Now = stack[Len(stack)] /\ IsSeq(stack)
    BY Innermost DEF Calls
  <1>2. /\ IsSeq(s) /\ Len(s) = Len(stack) /\ s[Len(stack)] = d
        /\ \A k \in 1 .. Len(stack) - 1 : s[k] = stack[k]
    BY <1>1, LastReplaced
  <1>3. stack' = Append(s, e)
    OBVIOUS
  <1> HIDE DEF s
  <1>4. /\ IsSeq(stack') /\ Len(stack') = Len(stack) + 1 /\ stack'[Len(stack) + 1] = e
        /\ \A k \in 1 .. Len(stack) : stack'[k] = s[k]
    <2>1. /\ IsSeq(Append(s, e)) /\ Len(Append(s, e)) = Len(s) + 1
          /\ \A k \in 1 .. Len(s) : Append(s, e)[k] = s[k]
          /\ Append(s, e)[Len(s) + 1] = e
      BY <1>2, FrontOfAppend
    <2> QED BY <1>2, <1>3, <2>1
  <1>5. /\ stack'[Len(stack)] = d
        /\ \A k \in 1 .. Len(stack) - 1 : stack'[k] = stack[k] /\ k \in 1 .. Len(stack)
    BY <1>1, <1>2, <1>4
  <1>6. \A k \in 1 .. Len(stack') : k = Len(stack) + 1 \/ k = Len(stack) \/ k \in 1 .. Len(stack) - 1
    BY <1>1, <1>4
  <1>7. \A k \in 1 .. Len(stack') - 1 : k = Len(stack) \/ k \in 1 .. Len(stack) - 1
    BY <1>1, <1>4
  <1>8. Calls'
    BY <1>4, <1>5, <1>6, <1>7 DEF Calls
  <1>9. /\ ParentsFirst'
        /\ \A path, dest : DirOut(path, dest, Len(out))' = DirOut(path, dest, Len(out))
    BY DEF Placed, ParentsFirst, OutRange, DirOut
  <1>10. ASSUME NEW k \in 1 .. Len(stack')
         PROVE  /\ stack'[k].path # <<>> => DirOut(Front(stack'[k].path), Front(stack'[k].dest), Len(out))
                /\ stack'[k].at = "list" => DirOut(stack'[k].path, stack'[k].dest, Len(out))
    <2>1. CASE k = Len(stack) + 1
      BY <1>4, <2>1
    <2>2. CASE k = Len(stack)
      BY <1>1, <1>5, <2>2 DEF Placed
    <2>3. CASE k \in 1 .. Len(stack) - 1
      BY <1>5, <2>3 DEF Placed
    <2> QED BY <1>6, <2>1, <2>2, <2>3
  <1>11. Quiet'
    BY <1>4 DEF Quiet, Now, Last
  <1> QED BY <1>8, <1>9, <1>10, <1>11 DEF Placed

-----------------------------------------------------------------------------
(* The walks.                                                              *)

\* The call for the item asked for is the only one, and nothing is out.
LEMMA InitWalk == Init => Calls /\ Placed /\ OneMore
  <1> SUFFICES ASSUME Init PROVE Calls /\ Placed /\ OneMore
    OBVIOUS
  <1>1. PICK name \in Given : stack = <<Call(Top, <<>>, <<name>>, 0)>>
    BY DEF Init
  <1>2. /\ IsSeq(<<>>) /\ IsSeq(<<name>>)
        /\ IsSeq(stack) /\ Len(stack) = 1 /\ stack[1] = Call(Top, <<>>, <<name>>, 0)
    <2>1. <<>> \in Seq({}) /\ <<name>> \in Seq({name})
          /\ <<Call(Top, <<>>, <<name>>, 0)>> \in Seq({Call(Top, <<>>, <<name>>, 0)})
      OBVIOUS
    <2> QED BY <1>1, <2>1 DEF IsSeq
  <1>3. IsCall(stack[1]) /\ stack[1].path = <<>> /\ stack[1].at = "look"
    BY <1>2 DEF Call, IsCall
  <1>4. out = <<>> /\ Len(out) = 0 /\ DOMAIN out = {} /\ ret = "none" /\ ~cancel /\ atCancel \in Nat
    BY DEF Init
  <1>5. \A k \in 1 .. Len(stack) : k = 1
    BY <1>2
  <1>6. 1 .. Len(stack) - 1 = {}
    BY <1>2
  <1> QED BY <1>2, <1>3, <1>4, <1>5, <1>6 DEF Calls, Placed, OneMore, ParentsFirst, OutRange

\* A call that is only moved on to another point of its work.
LEMMA Moved ==
    ASSUME Calls, Placed, stack # <<>>, ret = "none", out' = out,
           NEW label \in {"visit", "link"}, MoveTo(label)
    PROVE  (Calls /\ Placed)'
  <1>1. /\ IsCall(Now) /\ Now = stack[Len(stack)]
        /\ stack' = [stack EXCEPT ![Len(stack)] = [Now EXCEPT !.at = label]] /\ ret' = "none"
    BY Innermost DEF MoveTo
  <1>2. PICK d : d = [Now EXCEPT !.at = label]
    OBVIOUS
  <1>3. IsCall(d) /\ d.at = label /\ d.path = Now.path /\ d.dest = Now.dest
    <2>1. SamePlace([Now EXCEPT !.at = label], Now, label)
      BY <1>1, Onward
    <2> QED BY <1>2, <2>1 DEF SamePlace
  <1>4. stack' = [stack EXCEPT ![Len(stack)] = d] /\ d.at # "list" /\ OutStep
    BY <1>1, <1>2, <1>3 DEF OutStep
  <1> QED BY <1>1, <1>3, <1>4, GoOn

\* A directory is put out before its entries are walked.
LEMMA DirectoryKeeps ==
    ASSUME Calls, Placed, Directory
    PROVE  (Calls /\ Placed /\ Quiet)'
  <1> DEFINE item == [kind |-> "dir", ino |-> Now.ino, path |-> Now.path, dest |-> Now.dest]
  <1>1. stack # <<>> /\ ret = "none" /\ out' = Append(out, item) /\ OutStep
    BY DEF Directory, Readable, Visiting, At, OutputDir, Output, OutStep
  <1>2. CASE Now.ino \in image.torn
    <2>1. stack' = Front(stack)
      BY <1>2 DEF Directory, Return
    <2> QED BY <1>1, <2>1, GoBack
  <1>3. CASE Now.ino \notin image.torn
    <2>1. PICK d : d = [Now EXCEPT !.at = "list", !.left = image.list[Now.ino]]
      OBVIOUS
    <2>2. /\ IsCall(Now) /\ Now = stack[Len(stack)] /\ Len(out) \in Nat /\ IsSeq(out)
      BY <1>1, Innermost DEF Calls
    <2>3. stack' = [stack EXCEPT ![Len(stack)] = d] /\ ret' = "none"
      BY <1>1, <1>3, <2>1, <2>2 DEF Directory
    <2>4. IsCall(d) /\ d.path = Now.path /\ d.dest = Now.dest /\ d.at # "visit"
      <3>1. SamePlace([Now EXCEPT !.at = "list", !.left = image.list[Now.ino]], Now, "list")
        BY <2>2, Onward
      <3> QED BY <2>1, <3>1 DEF SamePlace
    <2>5. DirOut(d.path, d.dest, Len(out))'
      <3>1. Len(out') = Len(out) + 1 /\ out'[Len(out) + 1] = item
        BY <1>1, <2>2, FrontOfAppend
      <3>2. Len(out) + 1 \in 1 .. Len(out')
        BY <2>2, <3>1
      <3> QED BY <2>4, <3>1, <3>2 DEF DirOut
    <2> QED BY <1>1, <2>3, <2>4, <2>5, GoOn
  <1> QED BY <1>2, <1>3

\* An entry is walked below the directory that lists it.
LEMMA EntryKeeps ==
    ASSUME Calls, Placed, Entry
    PROVE  (Calls /\ Placed /\ Quiet)'
  <1>1. stack # <<>> /\ ret = "none" /\ ret' = "none" /\ out' = out /\ Now.at = "list"
    BY DEF Entry, At
  <1>2. /\ Len(stack) \in Nat \ {0} /\ IsCall(Now) /\ Now = stack[Len(stack)]
    BY <1>1, Innermost
  <1>3. PICK x, name, depth :
           stack' = Append([stack EXCEPT ![Len(stack)].left = Tail(@)],
                           Call(x, Append(Now.path, name), Append(Now.dest, Sanitize(name)), depth))
    BY DEF Entry
  <1>4. PICK d : d = [Now EXCEPT !.left = Tail(Now.left)]
    OBVIOUS
  <1>5. PICK e : e = Call(x, Append(Now.path, name), Append(Now.dest, Sanitize(name)), depth)
    OBVIOUS
  <1>6. stack' = Append([stack EXCEPT ![Len(stack)] = d], e)
    BY <1>2, <1>3, <1>4, <1>5
  <1>7. IsCall(d) /\ d.at = "list" /\ d.path = Now.path /\ d.dest = Now.dest
    <2>1. SamePlace([Now EXCEPT !.left = Tail(Now.left)], Now, Now.at)
      BY <1>2, Onward
    <2> QED BY <1>1, <1>4, <2>1 DEF SamePlace
  <1>8. IsSeq(Now.path) /\ IsSeq(Now.dest)
    BY <1>2 DEF IsCall
  <1>9. /\ e.at = "look" /\ e.path = Append(Now.path, name) /\ e.dest = Append(Now.dest, Sanitize(name))
        /\ e = [ino |-> e.ino, path |-> e.path, dest |-> e.dest,
                depth |-> e.depth, at |-> e.at, left |-> e.left]
    BY <1>5 DEF Call
  <1>10. /\ IsSeq(e.path) /\ IsSeq(e.dest)
         /\ Front(e.path) = Now.path /\ Front(e.dest) = Now.dest
    BY <1>8, <1>9, FrontOfAppend
  <1>11. DirOut(Now.path, Now.dest, Len(out))
    BY <1>1, <1>2 DEF Placed
  <1>12. IsCall(e) /\ DirOut(Front(e.path), Front(e.dest), Len(out)) /\ Waits(d)
    BY <1>7, <1>9, <1>10, <1>11 DEF IsCall, Waits
  <1> QED BY <1>1, <1>6, <1>7, <1>9, <1>12, GoDown

\* An entry that is passed over is one less.
LEMMA SkipKeeps ==
    ASSUME Calls, Placed, SkipDots
    PROVE  (Calls /\ Placed /\ Quiet)'
  <1>1. stack # <<>> /\ ret = "none" /\ ret' = "none" /\ Now.at = "list" /\ OutStep
    BY DEF SkipDots, At, results, OutStep
  <1>2. Len(stack) \in Nat \ {0} /\ IsCall(Now) /\ Now = stack[Len(stack)]
    BY <1>1, Innermost
  <1>3. PICK d : d = [Now EXCEPT !.left = Tail(Now.left)]
    OBVIOUS
  <1>4. stack' = [stack EXCEPT ![Len(stack)] = d]
    BY <1>2, <1>3 DEF SkipDots
  <1>5. IsCall(d) /\ d.at = "list" /\ d.path = Now.path /\ d.dest = Now.dest
    <2>1. SamePlace([Now EXCEPT !.left = Tail(Now.left)], Now, Now.at)
      BY <1>2, Onward
    <2> QED BY <1>1, <1>3, <2>1 DEF SamePlace
  <1>6. DirOut(d.path, d.dest, Len(out))'
    <2>1. DirOut(d.path, d.dest, Len(out)) /\ out' = out
      BY <1>1, <1>2, <1>5 DEF Placed, SkipDots, results
    <2> QED BY <2>1 DEF DirOut
  <1> QED BY <1>1, <1>4, <1>5, <1>6, GoOn

\* A link is walked in its own place.
LEMMA LinkKeeps ==
    ASSUME Calls, Placed, Link
    PROVE  (Calls /\ Placed /\ Quiet)'
  <1>1. stack # <<>> /\ ret = "none" /\ Now.at = "visit"
    BY DEF Link, Readable, Visiting, At
  <1>2. /\ Len(stack) \in Nat \ {0} /\ IsCall(Now) /\ Now = stack[Len(stack)]
    BY <1>1, Innermost
  <1>3. CASE stack' = Front(stack)
    <2>1. OutStep
      BY DEF Link, OutStep, LinkTarget
    <2> QED BY <1>1, <1>3, <2>1, GoBack
  <1>4. CASE stack' # Front(stack)
    <2>1. ret' = "none" /\ out' = out
      BY <1>1, <1>4 DEF Link, Return
    <2>2. PICK x, depth :
             stack' = Append([stack EXCEPT ![Len(stack)].at = "link"], Call(x, Now.path, Now.dest, depth))
      BY <1>4 DEF Link, Return
    <2>3. PICK d : d = [Now EXCEPT !.at = "link"]
      OBVIOUS
    <2>4. PICK e : e = Call(x, Now.path, Now.dest, depth)
      OBVIOUS
    <2>5. stack' = Append([stack EXCEPT ![Len(stack)] = d], e)
      BY <1>2, <2>2, <2>3, <2>4
    <2>6. IsCall(d) /\ d.at = "link" /\ d.path = Now.path /\ d.dest = Now.dest
      <3>1. SamePlace([Now EXCEPT !.at = "link"], Now, "link")
        BY <1>2, Onward
      <3> QED BY <2>3, <3>1 DEF SamePlace
    <2>7. /\ e.at = "look" /\ e.path = Now.path /\ e.dest = Now.dest
          /\ e = [ino |-> e.ino, path |-> e.path, dest |-> e.dest,
                  depth |-> e.depth, at |-> e.at, left |-> e.left]
      BY <2>4 DEF Call
    <2>8. IsCall(e) /\ Waits(d)
      BY <1>2, <2>6, <2>7 DEF IsCall, Waits
    <2>9. e.path # <<>> => DirOut(Front(e.path), Front(e.dest), Len(out))
      BY <1>2, <2>7 DEF Placed
    <2> QED BY <1>1, <2>1, <2>5, <2>6, <2>7, <2>8, <2>9, GoDown
  <1> QED BY <1>3, <1>4

\* No step of a walk puts anything out before its directory.
LEMMA NextPlaced == Calls /\ Placed /\ [Next]_vars => (Calls /\ Placed)'
  <1> SUFFICES ASSUME Calls, Placed, [Next]_vars PROVE (Calls /\ Placed)'
    OBVIOUS
  <1> USE DEF results, progress, flag
  <1>1. CASE Look
    <2>1. stack # <<>> /\ ret = "none" /\ out' = out /\ OutStep
      BY <1>1 DEF Look, At, OutStep
    <2>2. stack' = Front(stack) \/ MoveTo("visit")
      BY <1>1 DEF Look, Return
    <2> QED BY <2>1, <2>2, GoBack, Moved
  <1>2. CASE Unreadable \/ DiskFails \/ EndOfList \/ BrokenLink \/ File
    <2>1. stack # <<>> /\ OutStep
      BY <1>2 DEF Unreadable, DiskFails, EndOfList, BrokenLink, File, Readable, Visiting, At, Output, OutStep
    <2>2. stack' = Front(stack)
      BY <1>2 DEF Unreadable, GiveUp, DiskFails, EndOfList, BrokenLink, File, Return
    <2> QED BY <2>1, <2>2, GoBack
  <1>3. CASE Directory
    BY <1>3, DirectoryKeeps
  <1>4. CASE Entry
    BY <1>4, EntryKeeps
  <1>5. CASE Link \/ SkipDots
    BY <1>5, LinkKeeps, SkipKeeps
  <1>6. CASE Resume
    <2>1. stack # <<>> /\ out' = out /\ OutStep
      BY <1>6 DEF Resume, OutStep
    <2>2. CASE stack' = Front(stack)
      BY <2>1, <2>2, GoBack
    <2>3. CASE stack' # Front(stack)
      <3>1. stack' = stack /\ ret' = "none"
        BY <1>6, <2>3 DEF Resume, Return
      <3> QED BY <2>1, <3>1 DEF Calls, Placed, DirOut, ParentsFirst, OutRange
    <2> QED BY <2>2, <2>3
  <1>7. CASE PressCancel \/ UNCHANGED vars
    <2>1. UNCHANGED <<stack, ret, out>>
      BY <1>7 DEF PressCancel, vars
    <2> QED BY <2>1 DEF Calls, Placed, DirOut, ParentsFirst, OutRange
  <1> QED BY <1>1, <1>2, <1>3, <1>4, <1>5, <1>6, <1>7 DEF Next, Walk, Hang

\* In the order of the plan every directory comes before what goes into it, for
\* every image: links in circles, repeated entries and errors do not change that.
THEOREM DirectoriesFirst == Spec => []ParentsFirst
  <1>1. Init => Calls /\ Placed
    BY InitWalk
  <1>2. Calls /\ Placed /\ [Next]_vars => (Calls /\ Placed)'
    BY NextPlaced
  <1>3. Placed => ParentsFirst
    BY DEF Placed
  <1> QED BY <1>1, <1>2, <1>3, PTL DEF Spec

-----------------------------------------------------------------------------
(* Cancel.                                                                 *)

\* A step that begins nothing puts out at most the item of a call that had looked
\* at the flag before it was set.
LEMMA NextOneMore == Calls /\ Placed /\ OneMore /\ [Next]_vars => OneMore'
  <1> SUFFICES ASSUME Calls, Placed, OneMore, [Next]_vars PROVE OneMore'
    OBVIOUS
  <1> USE DEF results, progress, flag
  <1>0. stack # <<>> => Len(out) \in Nat
    BY Innermost
  <1>1. CASE UNCHANGED flag /\ ~cancel
    BY <1>1 DEF OneMore
  <1>2. ASSUME UNCHANGED <<flag, out>>, stack # <<>>, Quiet' PROVE OneMore'
    BY <1>0, <1>2 DEF OneMore
  <1>3. ASSUME UNCHANGED flag, stack # <<>>, Now.at = "visit", OutStep, Quiet' PROVE OneMore'
    <2>1. Len(out') = Len(out) \/ Len(out') = Len(out) + 1
      <3>1. IsSeq(out)
        BY DEF Calls
      <3>2. CASE out' = out
        BY <3>2
      <3>3. CASE \E e : out' = Append(out, e)
        <4>1. PICK e : out' = Append(out, e)
          BY <3>3
        <4> QED BY ONLY <3>1, <4>1, FrontOfAppend
      <3> QED BY <1>3, <3>2, <3>3 DEF OutStep
    <2>2. ~Quiet
      BY <1>3 DEF Quiet
    <2> QED BY <1>0, <1>3, <2>1, <2>2 DEF OneMore
  <1>4. CASE Look
    <2>1. CASE ~cancel
      BY <1>1, <1>4, <2>1 DEF Look
    <2>2. CASE cancel
      <3>1. stack # <<>> /\ stack' = Front(stack) /\ UNCHANGED <<flag, out>> /\ OutStep
        BY <1>4, <2>2 DEF Look, At, Stops, Return, OutStep
      <3>2. Quiet'
        BY <3>1, GoBack
      <3> QED BY <1>2, <3>1, <3>2
    <2> QED BY <2>1, <2>2
  <1>5. CASE Unreadable \/ DiskFails \/ BrokenLink \/ File
    <2>1. stack # <<>> /\ OutStep /\ Now.at = "visit" /\ UNCHANGED flag
      BY <1>5 DEF Unreadable, DiskFails, BrokenLink, File, Readable, Visiting, At, Output, OutStep
    <2>2. stack' = Front(stack)
      BY <1>5 DEF Unreadable, GiveUp, DiskFails, BrokenLink, File, Return
    <2>3. Quiet'
      BY <2>1, <2>2, GoBack
    <2> QED BY <1>3, <2>1, <2>3
  <1>6. CASE EndOfList
    <2>1. stack # <<>> /\ OutStep /\ stack' = Front(stack) /\ UNCHANGED <<flag, out>>
      BY <1>6 DEF EndOfList, At, Return, OutStep
    <2>2. Quiet'
      BY <2>1, GoBack
    <2> QED BY <1>2, <2>1, <2>2
  <1>7. CASE Directory
    <2>1. stack # <<>> /\ OutStep /\ Now.at = "visit" /\ UNCHANGED flag
      BY <1>7 DEF Directory, Readable, Visiting, At, OutputDir, Output, OutStep
    <2>2. Quiet'
      BY <1>7, DirectoryKeeps
    <2> QED BY <1>3, <2>1, <2>2
  <1>8. CASE Entry
    <2>1. stack # <<>> /\ UNCHANGED <<flag, out>>
      BY <1>8 DEF Entry, At
    <2>2. Quiet'
      BY <1>8, EntryKeeps
    <2> QED BY <1>2, <2>1, <2>2
  <1>8a. CASE SkipDots
    <2>1. stack # <<>> /\ UNCHANGED <<flag, out>>
      BY <1>8a DEF SkipDots, At
    <2>2. Quiet'
      BY <1>8a, SkipKeeps
    <2> QED BY <1>2, <2>1, <2>2
  <1>9. CASE Link
    <2>1. stack # <<>> /\ OutStep /\ Now.at = "visit" /\ UNCHANGED flag
      BY <1>9 DEF Link, LinkTarget, Readable, Visiting, At, OutStep
    <2>2. Quiet'
      BY <1>9, LinkKeeps
    <2> QED BY <1>3, <2>1, <2>2
  <1>10. CASE Resume
    <2>1. stack # <<>> /\ UNCHANGED <<flag, out>> /\ OutStep /\ ret # "none"
      BY <1>10 DEF Resume, OutStep
    <2>2. CASE stack' = Front(stack)
      <3>1. Quiet'
        BY <2>1, <2>2, GoBack
      <3> QED BY <1>2, <2>1, <3>1
    <2>3. CASE stack' # Front(stack)
      <3>1. stack' = stack
        BY <1>10, <2>3 DEF Resume, Return
      <3>2. Quiet'
        BY <2>1, <3>1, Innermost DEF Calls, Waits, Quiet, Now, Last
      <3> QED BY <1>2, <2>1, <3>2
    <2> QED BY <2>2, <2>3
  <1>11. CASE PressCancel
    <2>1. stack # <<>> /\ out' = out /\ atCancel' = Len(out)
      BY <1>11 DEF PressCancel
    <2> QED BY <1>0, <2>1 DEF OneMore
  <1>12. CASE UNCHANGED vars
    BY <1>12 DEF vars, OneMore, Quiet, Now, Last
  <1> QED BY <1>4, <1>5, <1>6, <1>7, <1>8, <1>8a, <1>9, <1>10, <1>11, <1>12 DEF Next, Walk, Hang

\* However deep the walk stands when the flag is set, it begins nothing more.
THEOREM CancelIsObeyed == Spec => []StopsSoon
  <1>1. Init => Calls /\ Placed /\ OneMore
    BY InitWalk
  <1>2. Calls /\ Placed /\ OneMore /\ [Next]_vars => (Calls /\ Placed /\ OneMore)'
    BY NextPlaced, NextOneMore
  <1>3. OneMore => StopsSoon
    BY DEF OneMore, StopsSoon
  <1> QED BY <1>1, <1>2, <1>3, PTL DEF Spec


-----------------------------------------------------------------------------
(* What a step does to the calls, told by the calls that take the place of  *)
(* the innermost one.                                                      *)

\* The innermost call gives way to n others; those that wait below it stay.
Onto(n) ==
    /\ Len(stack) \in Nat \ {0} /\ Len(stack') = Len(stack) - 1 + n
    /\ \A k \in 1 .. Len(stack) - 1 : stack'[k] = stack[k]

\* It returns, goes on, or waits for a new one.
LEMMA Pops ==
    ASSUME Calls, stack # <<>>, stack' = Front(stack)
    PROVE  Onto(0)
  <1>1. IsSeq(stack)
    BY DEF Calls
  <1> QED BY <1>1, FrontIs DEF Onto

\* A call that goes on to its next entry replaces its own frame and keeps those below it.
LEMMA GoesOn ==
    ASSUME Calls, stack # <<>>, NEW d, stack' = [stack EXCEPT ![Len(stack)] = d]
    PROVE  Onto(1) /\ stack'[Len(stack)] = d
  <1>1. IsSeq(stack)
    BY DEF Calls
  <1>2. /\ Len(stack) \in Nat \ {0} /\ Len([stack EXCEPT ![Len(stack)] = d]) = Len(stack)
        /\ \A k \in 1 .. Len(stack) - 1 : [stack EXCEPT ![Len(stack)] = d][k] = stack[k]
        /\ [stack EXCEPT ![Len(stack)] = d][Len(stack)] = d
    BY <1>1, LastReplaced
  <1>3. Len(stack) \in Nat \ {0}
    BY <1>2
  <1>4. Len(stack) = Len(stack) - 1 + 1
    BY <1>3
  <1> QED BY <1>2, <1>4 DEF Onto

\* A call that descends keeps the frames below it, renews its own and puts the callee's on top.
LEMMA Pushes ==
    ASSUME Calls, stack # <<>>, NEW d, NEW e,
           stack' = Append([stack EXCEPT ![Len(stack)] = d], e)
    PROVE  Onto(2) /\ stack'[Len(stack)] = d /\ stack'[Len(stack) + 1] = e
  <1> DEFINE s == [stack EXCEPT ![Len(stack)] = d]
  <1>1. IsSeq(stack)
    BY DEF Calls
  <1>2. /\ IsSeq(s) /\ Len(stack) \in Nat \ {0} /\ Len(s) = Len(stack) /\ s[Len(stack)] = d
        /\ \A k \in 1 .. Len(stack) - 1 : s[k] = stack[k]
    BY <1>1, LastReplaced
  <1>3. stack' = Append(s, e)
    OBVIOUS
  <1> HIDE DEF s
  <1>4. /\ Len(stack') = Len(stack) + 1 /\ stack'[Len(stack) + 1] = e
        /\ \A k \in 1 .. Len(stack) : stack'[k] = s[k]
    BY <1>2, <1>3, FrontOfAppend
  <1>5. \A k \in 1 .. Len(stack) - 1 : k \in 1 .. Len(stack)
    BY <1>2
  <1>6. Len(stack) \in 1 .. Len(stack) /\ Len(stack) + 1 = Len(stack) - 1 + 2
    BY <1>2
  <1> QED BY <1>2, <1>4, <1>5, <1>6 DEF Onto

\* A list without its first entry.
LEMMA TailIs ==
    ASSUME NEW S, NEW s \in Seq(S), s # <<>>
    PROVE  /\ Head(s) = s[1] /\ 1 \in DOMAIN s /\ Tail(s) \in Seq(S)
           /\ \A m \in DOMAIN Tail(s) : m + 1 \in DOMAIN s /\ Tail(s)[m] = s[m + 1]
           /\ \A m \in DOMAIN s : m # 1 => m - 1 \in DOMAIN Tail(s) /\ Tail(s)[m - 1] = s[m]
  <1>1. Len(s) \in Nat \ {0} /\ DOMAIN s = 1 .. Len(s)
    BY EmptySeq, LenProperties
  <1>2. /\ Tail(s) \in Seq(S) /\ Len(Tail(s)) = Len(s) - 1
        /\ \A i \in 1 .. Len(Tail(s)) : Tail(s)[i] = s[i + 1]
    BY HeadTailProperties
  <1>3. DOMAIN Tail(s) = 1 .. Len(s) - 1
    BY <1>2, LenProperties
  <1>4. Head(s) = s[1]
    BY HeadTailProperties
  <1>5. ASSUME NEW m \in DOMAIN Tail(s) PROVE m + 1 \in DOMAIN s /\ Tail(s)[m] = s[m + 1]
    BY <1>1, <1>2, <1>3, <1>5
  <1>6. ASSUME NEW m \in DOMAIN s, m # 1
        PROVE  m - 1 \in DOMAIN Tail(s) /\ Tail(s)[m - 1] = s[m]
    <2>1. m - 1 \in 1 .. Len(s) - 1 /\ (m - 1) + 1 = m
      BY <1>1, <1>6
    <2> QED BY <1>2, <1>3, <2>1
  <1>7. 1 \in DOMAIN s /\ Tail(s) \in Seq(S)
    BY <1>1, <1>2
  <1> QED BY <1>4, <1>5, <1>6, <1>7

-----------------------------------------------------------------------------
(* Where the calls stand in the tree.                                      *)

NameAndIno == [name : Seq(STRING), ino : Ino]

\* A directory that was put out at this place.
DirItem(x, path, dest) ==
    \E j \in 1 .. Len(out) :
        out[j].kind = "dir" /\ out[j].ino = x /\ out[j].path = path /\ out[j].dest = dest

\* The inode x is the one that the path leads to.
Leads(path, dest, x) ==
    IF path = <<>> THEN x = Follow(Top)
    ELSE \E d : /\ DirItem(d, Front(path), Front(dest))
                /\ \E i \in Children(d) :
                      /\ image.list[d][i].name = Last(path)
                      /\ x = Follow(image.list[d][i].ino)

\* A call stands where its path leads; one that lists a directory has put it out, and
\* has before it entries of that directory.
Stands(f) ==
    /\ f.ino \in Ino
    /\ Leads(f.path, f.dest, Follow(f.ino))
    /\ f.at = "list" =>
          /\ IsDir(f.ino) /\ DirItem(f.ino, f.path, f.dest)
          /\ f.left \in Seq(NameAndIno)
          /\ \A m \in DOMAIN f.left : f.left[m] \in ToSet(image.list[f.ino])

Standing ==
    /\ image \in Image
    /\ \A k \in 1 .. Len(stack) : Stands(stack[k])
    /\ \A k \in 1 .. Len(out) :
          /\ out[k].ino \in Ino /\ Leads(out[k].path, out[k].dest, out[k].ino)
          /\ out[k].kind = "dir" => IsDir(out[k].ino)

\* The output only grows, by at most one item.
Grows ==
    /\ Len(out) \in Nat /\ Len(out') \in {Len(out), Len(out) + 1}
    /\ \A k \in 1 .. Len(out) : out'[k] = out[k]

\* So what stood, stands.
LEMMA StandsStill ==
    ASSUME Grows, image' = image
    PROVE  /\ \A x, path, dest : DirItem(x, path, dest) => DirItem(x, path, dest)'
           /\ \A path, dest, x : Leads(path, dest, x) => Leads(path, dest, x)'
           /\ \A f : Stands(f) => Stands(f)'
  <1>1. ASSUME NEW x, NEW path, NEW dest, DirItem(x, path, dest)
        PROVE  DirItem(x, path, dest)'
    BY <1>1 DEF DirItem, Grows
  <1>2. /\ \A x : Follow(x)' = Follow(x) /\ Children(x)' = Children(x) /\ IsDir(x)' = IsDir(x)
    BY DEF Follow, Children, IsDir
  <1>3. ASSUME NEW path, NEW dest, NEW x, Leads(path, dest, x)
        PROVE  Leads(path, dest, x)'
    BY <1>1, <1>2, <1>3 DEF Leads
  <1>4. ASSUME NEW f, Stands(f)
        PROVE  Stands(f)'
    <2>1. Leads(f.path, f.dest, Follow(f.ino))'
      BY <1>2, <1>3, <1>4 DEF Stands
    <2>2. f.at = "list" => DirItem(f.ino, f.path, f.dest)'
      BY <1>1, <1>4 DEF Stands
    <2> QED BY <1>2, <1>4, <2>1, <2>2 DEF Stands
  <1> QED BY <1>1, <1>3, <1>4

\* The calls stand when the new ones do.
LEMMA NewStand ==
    ASSUME Standing, Calls, stack # <<>>, image' = image, Grows,
           \A k \in Len(out) + 1 .. Len(out') :
              /\ out'[k].ino \in Ino /\ Leads(out'[k].path, out'[k].dest, out'[k].ino)
              /\ out'[k].kind = "dir" => IsDir(out'[k].ino),
           NEW n \in 0 .. 2, Onto(n),
           \A k \in Len(stack) .. Len(stack) - 1 + n :
              \E f : f = stack'[k] /\ (Stands(f) \/ Stands(f)')
    PROVE  Standing'
  <1>1. /\ \A path, dest, x : Leads(path, dest, x) => Leads(path, dest, x)'
        /\ \A f : Stands(f) => Stands(f)'
    BY StandsStill
  <1>2. ASSUME NEW k \in 1 .. Len(stack') PROVE Stands(stack[k])'
    <2>1. k \in 1 .. Len(stack) - 1 \/ k \in Len(stack) .. Len(stack) - 1 + n
      BY DEF Onto
    <2>2. ASSUME k \in 1 .. Len(stack) - 1 PROVE Stands(stack[k])'
      <3>1. stack'[k] = stack[k] /\ k \in 1 .. Len(stack)
        BY <2>2 DEF Onto
      <3>2. Stands(stack[k])
        BY <3>1 DEF Standing
      <3> QED BY <1>1, <3>1, <3>2
    <2>3. ASSUME k \in Len(stack) .. Len(stack) - 1 + n PROVE Stands(stack[k])'
      <3>1. PICK f : f = stack'[k] /\ (Stands(f) \/ Stands(f)')
        BY <2>3
      <3>2. Stands(f)'
        BY <1>1, <3>1
      <3> QED BY <3>1, <3>2
    <2> QED BY <2>1, <2>2, <2>3
  <1>3. ASSUME NEW k \in 1 .. Len(out')
        PROVE  /\ out'[k].ino \in Ino /\ Leads(out[k].path, out[k].dest, out[k].ino)'
               /\ out'[k].kind = "dir" => IsDir(out[k].ino)'
    <2>1. k \in 1 .. Len(out) \/ k \in Len(out) + 1 .. Len(out')
      BY DEF Grows
    <2>2. /\ out'[k].ino \in Ino /\ Leads(out'[k].path, out'[k].dest, out'[k].ino)
          /\ out'[k].kind = "dir" => IsDir(out'[k].ino)
      BY <2>1 DEF Standing, Grows
    <2> QED BY <1>1, <2>2 DEF IsDir
  <1> QED BY <1>2, <1>3 DEF Standing

\* One more item grows the output, none leaves it as it was.
LEMMA OneItem ==
    ASSUME Calls, NEW x, out' = Append(out, x)
    PROVE  /\ Grows /\ Len(out') = Len(out) + 1 /\ out'[Len(out) + 1] = x
           /\ \A k \in Len(out) + 1 .. Len(out') : out'[k] = x
  <1>1. IsSeq(out)
    BY DEF Calls
  <1>2. /\ Len(out) \in Nat /\ Len(out') = Len(out) + 1 /\ out'[Len(out) + 1] = x
        /\ \A k \in 1 .. Len(out) : out'[k] = out[k]
    BY ONLY <1>1, out' = Append(out, x), FrontOfAppend
  <1> QED BY <1>2 DEF Grows

\* A step that lists nothing leaves the list as long as it was.
LEMMA NoItem ==
    ASSUME Calls, out' = out
    PROVE  Grows /\ Len(out) + 1 .. Len(out') = {}
  <1>1. IsSeq(out)
    BY DEF Calls
  <1>2. Len(out) \in Nat
    BY <1>1, LenProperties DEF IsSeq
  <1> QED BY <1>2 DEF Grows

\* What the assumptions on images say of one of its inodes.
LEMMA FollowIs ==
    ASSUME image \in Image, NEW x \in Ino
    PROVE  /\ image.kind[x] # "link" => Follow(x) = x
           /\ image.kind[x] = "link" =>
                 /\ Follow(x) = image.answer[x]
                 /\ image.answer[x] \in Ino => Follow(image.answer[x]) = image.answer[x]
           /\ image.kind[x] = "dir" => image.list[x] \in Seq(NameAndIno)
  BY TreeAssumption DEF Follow, NameAndIno

\* The calls stand at first: there is the one for the item asked for.
LEMMA InitStands == Init => Standing
  <1> SUFFICES ASSUME Init PROVE Standing
    OBVIOUS
  <1>1. PICK name \in Given : stack = <<Call(Top, <<>>, <<name>>, 0)>>
    BY DEF Init
  <1>2. Len(stack) = 1 /\ stack[1] = Call(Top, <<>>, <<name>>, 0) /\ Len(out) = 0 /\ image \in Image
    BY <1>1 DEF Init
  <1>3. Stands(stack[1])
    BY <1>2, TreeAssumption DEF Stands, Leads, Call
  <1> QED BY <1>2, <1>3 DEF Standing

\* An item that is put out, and the call that goes on from there.
LEMMA ItemStands ==
    ASSUME Standing, Calls, stack # <<>>, image' = image,
           NEW kind, NEW x \in Ino, x = Follow(Now.ino), kind = "dir" => IsDir(x),
           out' = Append(out, [kind |-> kind, ino |-> x, path |-> Now.path, dest |-> Now.dest])
    PROVE  /\ Grows
           /\ \A k \in Len(out) + 1 .. Len(out') :
                 /\ out'[k].ino \in Ino /\ Leads(out'[k].path, out'[k].dest, out'[k].ino)
                 /\ out'[k].kind = "dir" => IsDir(out'[k].ino)
           /\ kind = "dir" => \A p, d : p = Now.path /\ d = Now.dest => DirItem(x, p, d)'
  <1> DEFINE item == [kind |-> kind, ino |-> x, path |-> Now.path, dest |-> Now.dest]
  <1>1. Now = stack[Len(stack)] /\ Len(stack) \in 1 .. Len(stack) /\ Len(out) \in Nat
    BY Innermost
  <1>2. Leads(Now.path, Now.dest, x)
    BY <1>1 DEF Standing, Stands
  <1>3. /\ Grows /\ Len(out') = Len(out) + 1 /\ out'[Len(out) + 1] = item
        /\ \A k \in Len(out) + 1 .. Len(out') : out'[k] = item
    BY OneItem
  <1>4. ASSUME kind = "dir", NEW p, NEW d, p = Now.path, d = Now.dest PROVE DirItem(x, p, d)'
    <2>1. Len(out) + 1 \in 1 .. Len(out')
      BY <1>1, <1>3
    <2> QED BY <1>3, <1>4, <2>1 DEF DirItem
  <1> QED BY <1>2, <1>3, <1>4

\* A call returns and puts nothing out.
LEMMA BackStands ==
    ASSUME Standing, Calls, stack # <<>>, image' = image, out' = out, stack' = Front(stack)
    PROVE  Standing'
  <1>1. Onto(0) /\ Grows /\ Len(out) + 1 .. Len(out') = {} /\ Len(stack) \in Nat
    BY Pops, NoItem, Innermost
  <1>2. Len(stack) .. Len(stack) - 1 + 0 = {}
    BY <1>1
  <1> QED BY <1>1, <1>2, NewStand

\* A call goes on and puts nothing out.
LEMMA OnStands ==
    ASSUME Standing, Calls, stack # <<>>, image' = image, out' = out,
           NEW d, Stands(d), stack' = [stack EXCEPT ![Len(stack)] = d]
    PROVE  Standing'
  <1>1. Onto(1) /\ stack'[Len(stack)] = d /\ Grows /\ Len(out) + 1 .. Len(out') = {}
        /\ Len(stack) \in Nat
    BY GoesOn, NoItem, Innermost
  <1>2. \A k \in Len(stack) .. Len(stack) - 1 + 1 : k = Len(stack)
    BY <1>1
  <1> QED BY <1>1, <1>2, NewStand

\* A call waits for another one.
LEMMA DownStands ==
    ASSUME Standing, Calls, stack # <<>>, image' = image, out' = out,
           NEW d, Stands(d), NEW e, Stands(e),
           stack' = Append([stack EXCEPT ![Len(stack)] = d], e)
    PROVE  Standing'
  <1>1. /\ Onto(2) /\ stack'[Len(stack)] = d /\ stack'[Len(stack) + 1] = e
        /\ Grows /\ Len(out) + 1 .. Len(out') = {} /\ Len(stack) \in Nat
    BY Pushes, NoItem, Innermost
  <1>2. \A k \in Len(stack) .. Len(stack) - 1 + 2 : k = Len(stack) \/ k = Len(stack) + 1
    BY <1>1
  <1> QED BY <1>1, <1>2, NewStand

\* A directory lists its entries once it is put out.
LEMMA DirectoryStands == ASSUME Standing, Calls, Directory PROVE Standing'
  <1>1. /\ stack # <<>> /\ ret = "none" /\ image' = image /\ image.kind[Now.ino] = "dir"
        /\ out' = Append(out, [kind |-> "dir", ino |-> Now.ino,
                               path |-> Now.path, dest |-> Now.dest])
    BY DEF Directory, Readable, Visiting, At, OutputDir, Output
  <1>2. Now = stack[Len(stack)] /\ Len(stack) \in Nat \ {0} /\ IsCall(Now) /\ Stands(Now)
    BY <1>1, Innermost DEF Standing
  <1>3. Now.ino \in Ino /\ Follow(Now.ino) = Now.ino /\ image.list[Now.ino] \in Seq(NameAndIno)
    BY <1>1, <1>2, FollowIs DEF Stands, Standing
  <1>4. /\ Grows
        /\ \A k \in Len(out) + 1 .. Len(out') :
              /\ out'[k].ino \in Ino /\ Leads(out'[k].path, out'[k].dest, out'[k].ino)
              /\ out'[k].kind = "dir" => IsDir(out'[k].ino)
        /\ \A x, p, d : x = Now.ino /\ p = Now.path /\ d = Now.dest => DirItem(x, p, d)'
    <2>1. PICK x : x = Now.ino
      OBVIOUS
    <2>2. IsDir(x) /\ x \in Ino /\ x = Follow(Now.ino)
          /\ out' = Append(out, [kind |-> "dir", ino |-> x, path |-> Now.path, dest |-> Now.dest])
      BY <1>1, <1>3, <2>1 DEF IsDir
    <2>3. /\ Grows
          /\ \A k \in Len(out) + 1 .. Len(out') :
                /\ out'[k].ino \in Ino /\ Leads(out'[k].path, out'[k].dest, out'[k].ino)
                /\ out'[k].kind = "dir" => IsDir(out'[k].ino)
          /\ \A p, d : p = Now.path /\ d = Now.dest => DirItem(x, p, d)'
      BY <1>1, <2>2, ItemStands
    <2> QED BY <2>1, <2>3
  <1>5. CASE stack' = Front(stack)
    <2>1. Onto(0) /\ Len(stack) .. Len(stack) - 1 + 0 = {}
      BY <1>1, <1>2, <1>5, Pops
    <2> QED BY <1>1, <1>4, <2>1, NewStand
  <1>6. CASE stack' # Front(stack)
    <2>1. PICK d : d = [Now EXCEPT !.at = "list", !.left = image.list[Now.ino]]
      OBVIOUS
    <2>2. stack' = [stack EXCEPT ![Len(stack)] = d]
      BY <1>2, <1>6, <2>1 DEF Directory, Return
    <2>3. /\ d.at = "list" /\ d.ino = Now.ino /\ d.path = Now.path /\ d.dest = Now.dest
          /\ d.left = image.list[Now.ino]
      <3>1. SamePlace([Now EXCEPT !.at = "list", !.left = image.list[Now.ino]], Now, "list")
        BY <1>2, Onward
      <3>2. [Now EXCEPT !.at = "list", !.left = image.list[Now.ino]].left = image.list[Now.ino]
        BY <1>2 DEF IsCall
      <3> QED BY <2>1, <3>1, <3>2 DEF SamePlace
    <2>4. Stands(d)'
      <3>1. Leads(d.path, d.dest, Follow(d.ino))
        BY <1>2, <2>3 DEF Stands
      <3>2. Leads(d.path, d.dest, Follow(d.ino))'
        <4>1. Follow(d.ino)' = Follow(d.ino)
          BY <1>1 DEF Follow
        <4> QED BY <1>1, <1>4, <3>1, <4>1, StandsStill
      <3>3. DirItem(d.ino, d.path, d.dest)'
        BY <1>4, <2>3
      <3>4. IsDir(d.ino)' /\ d.ino \in Ino /\ d.left \in Seq(NameAndIno)
        BY <1>1, <1>3, <2>3 DEF IsDir
      <3>5. \A m \in DOMAIN d.left : d.left[m] \in ToSet(image'.list[d.ino])
        BY <1>1, <2>3 DEF ToSet
      <3> QED BY <3>2, <3>3, <3>4, <3>5 DEF Stands
    <2>5. Onto(1) /\ stack'[Len(stack)] = d
      BY <1>1, <2>2, GoesOn
    <2>6. \A k \in Len(stack) .. Len(stack) - 1 + 1 : k = Len(stack)
      BY <1>2
    <2> QED BY <1>1, <1>4, <2>4, <2>5, <2>6, NewStand
  <1> QED BY <1>5, <1>6

\* What a call that lists a directory has before it.
LEMMA ListStands ==
    ASSUME Standing, Calls, At("list"), Now.left # <<>>
    PROVE  /\ Head(Now.left) \in NameAndIno /\ Head(Now.left) \in ToSet(image.list[Now.ino])
           /\ Stands([Now EXCEPT !.left = Tail(Now.left)])
  <1>1. /\ Now = stack[Len(stack)] /\ Len(stack) \in Nat \ {0} /\ IsCall(Now) /\ Stands(Now)
        /\ Now.at = "list"
    BY Innermost DEF Standing, At
  <1>2. Now.left \in Seq(NameAndIno) /\ \A m \in DOMAIN Now.left : Now.left[m] \in ToSet(image.list[Now.ino])
    BY <1>1 DEF Stands
  <1>3. /\ Head(Now.left) = Now.left[1] /\ 1 \in DOMAIN Now.left /\ Tail(Now.left) \in Seq(NameAndIno)
        /\ \A m \in DOMAIN Tail(Now.left) : m + 1 \in DOMAIN Now.left /\ Tail(Now.left)[m] = Now.left[m + 1]
    BY <1>2, TailIs
  <1>4. PICK d : d = [Now EXCEPT !.left = Tail(Now.left)]
    OBVIOUS
  <1>5. /\ d.at = "list" /\ d.ino = Now.ino /\ d.path = Now.path /\ d.dest = Now.dest
        /\ d.left = Tail(Now.left)
    <2>1. SamePlace([Now EXCEPT !.left = Tail(Now.left)], Now, Now.at)
      BY <1>1, Onward
    <2>2. [Now EXCEPT !.left = Tail(Now.left)].left = Tail(Now.left)
      BY <1>1 DEF IsCall
    <2> QED BY <1>1, <1>4, <2>1, <2>2 DEF SamePlace
  <1>6. \A m \in DOMAIN d.left : d.left[m] \in ToSet(image.list[d.ino])
    BY <1>2, <1>3, <1>5
  <1>7. Stands(d)
    BY <1>1, <1>3, <1>5, <1>6 DEF Stands
  <1>8. Head(Now.left) \in NameAndIno
    BY <1>2, <1>3, ElementOfSeq, LenProperties
  <1> QED BY <1>2, <1>3, <1>4, <1>7, <1>8

\* An entry leads to where it is walked: to its inode, links followed.
LEMMA EntryStands == ASSUME Standing, Calls, Entry PROVE Standing'
  <1>1. /\ stack # <<>> /\ image' = image /\ out' = out
        /\ At("list") /\ Now.left # <<>> /\ Head(Now.left).name \notin DotNames
    BY DEF Entry, At
  <1>2. Now = stack[Len(stack)] /\ Len(stack) \in Nat \ {0} /\ IsCall(Now) /\ Stands(Now)
    BY <1>1, Innermost DEF Standing
  <1>3. /\ Head(Now.left) \in NameAndIno /\ Head(Now.left) \in ToSet(image.list[Now.ino])
        /\ Stands([Now EXCEPT !.left = Tail(Now.left)])
    BY <1>1, ListStands
  <1>4. PICK h : h = Head(Now.left)
    OBVIOUS
  <1>5. PICK d : d = [Now EXCEPT !.left = Tail(Now.left)]
    OBVIOUS
  <1>6. PICK depth, safe : stack' = Append([stack EXCEPT ![Len(stack)].left = Tail(@)],
                   Call(h.ino, Append(Now.path, h.name), Append(Now.dest, safe), depth))
    BY <1>4 DEF Entry
  <1>7. PICK e : e = Call(h.ino, Append(Now.path, h.name), Append(Now.dest, safe), depth)
    OBVIOUS
  <1>8. stack' = Append([stack EXCEPT ![Len(stack)] = d], e)
    BY <1>2, <1>5, <1>6, <1>7
  <1>9. /\ e.ino = h.ino /\ e.path = Append(Now.path, h.name) /\ e.dest = Append(Now.dest, safe)
        /\ e.at = "look"
    BY <1>7 DEF Call
  <1>10. h.ino \in Ino
    BY <1>3, <1>4 DEF NameAndIno
  <1>11. PICK i \in Children(Now.ino) : image.list[Now.ino][i] = h
    BY <1>1, <1>3, <1>4 DEF ToSet, Children
  <1>12. /\ Front(e.path) = Now.path /\ e.path # <<>> /\ Last(e.path) = h.name
         /\ Front(e.dest) = Now.dest
    <2>1. IsSeq(Now.path) /\ IsSeq(Now.dest)
      BY <1>2 DEF IsCall
    <2>2. Front(Append(Now.path, h.name)) = Now.path /\ Append(Now.path, h.name) # <<>>
      BY <2>1, FrontOfAppend
    <2>4. Front(Append(Now.dest, safe)) = Now.dest
      BY <2>1, FrontOfAppend
    <2>3. Last(Append(Now.path, h.name)) = h.name
      BY <2>1, FrontOfAppend DEF Last
    <2> QED BY <1>9, <2>2, <2>4, <2>3
  <1>13. DirItem(Now.ino, Now.path, Now.dest)
    BY <1>1, <1>2 DEF At, Stands
  <1>14. Leads(e.path, e.dest, Follow(e.ino))
    BY <1>9, <1>11, <1>12, <1>13 DEF Leads
  <1>15. Stands(e)
    BY <1>9, <1>10, <1>14 DEF Stands
  <1> QED BY <1>1, <1>3, <1>5, <1>8, <1>15, DownStands

\* A link is walked, or put out, as what it leads to.
LEMMA LinkStands == ASSUME Standing, Calls, Link PROVE Standing'
  <1>1. /\ stack # <<>> /\ image' = image /\ image.kind[Now.ino] = "link"
        /\ image.answer[Now.ino] \in Ino /\ Now.at = "visit"
    BY DEF Link, Readable, Visiting, At
  <1>2. Now = stack[Len(stack)] /\ Len(stack) \in Nat \ {0} /\ IsCall(Now) /\ Stands(Now)
    BY <1>1, Innermost DEF Standing
  <1>3. PICK x \in Ino : x = image.answer[Now.ino] /\ Follow(Now.ino) = x /\ Follow(x) = x
    BY <1>1, <1>2, FollowIs DEF Standing, Stands
  <1>4. CASE mode = "plan" /\ (x \in image.sick \/ ~IsDir(x))
    <2>1. /\ out' = Append(out, [kind |-> "file", ino |-> x, path |-> Now.path, dest |-> Now.dest])
          /\ stack' = Front(stack)
      BY <1>3, <1>4 DEF Link, LinkTarget, Return
    <2>2. PICK kind : kind = "file"
      OBVIOUS
    <2>3. /\ Grows
          /\ \A k \in Len(out) + 1 .. Len(out') :
                /\ out'[k].ino \in Ino /\ Leads(out'[k].path, out'[k].dest, out'[k].ino)
                /\ out'[k].kind = "dir" => IsDir(out'[k].ino)
      <3>1. out' = Append(out, [kind |-> kind, ino |-> x, path |-> Now.path, dest |-> Now.dest])
        BY <2>1, <2>2
      <3> QED BY <1>1, <1>3, <2>2, <3>1, ItemStands
    <2>4. Onto(0) /\ Len(stack) .. Len(stack) - 1 + 0 = {}
      BY <1>1, <1>2, <2>1, Pops
    <2> QED BY <1>1, <2>3, <2>4, NewStand
  <1>5. CASE ~(mode = "plan" /\ (x \in image.sick \/ ~IsDir(x)))
    <2>1. PICK d : d = [Now EXCEPT !.at = "link"]
      OBVIOUS
    <2>2. PICK e : e = Call(x, Now.path, Now.dest, Now.depth + 1)
      OBVIOUS
    <2>3. stack' = Append([stack EXCEPT ![Len(stack)] = d], e) /\ out' = out
      BY <1>2, <1>3, <1>5, <2>1, <2>2 DEF Link
    <2>4. d.at = "link" /\ d.path = Now.path /\ d.dest = Now.dest /\ d.ino = Now.ino
      <3>1. SamePlace([Now EXCEPT !.at = "link"], Now, "link")
        BY <1>2, Onward
      <3> QED BY <2>1, <3>1 DEF SamePlace
    <2>5. Stands(d)
      BY <1>2, <2>4 DEF Stands
    <2>6. e.at = "look" /\ e.path = Now.path /\ e.dest = Now.dest /\ e.ino = x
      BY <2>2 DEF Call
    <2>7. Stands(e)
      BY <1>2, <1>3, <2>6 DEF Stands
    <2> QED BY <1>1, <2>3, <2>5, <2>7, DownStands
  <1> QED BY <1>4, <1>5

\* A file is put out under its own number.
LEMMA FileStands == ASSUME Standing, Calls, File PROVE Standing'
  <1>1. /\ stack # <<>> /\ image' = image /\ image.kind[Now.ino] = "file" /\ stack' = Front(stack)
        /\ out' = Append(out, [kind |-> "file", ino |-> Now.ino,
                               path |-> Now.path, dest |-> Now.dest])
    BY DEF File, Readable, Visiting, At, Output, Return
  <1>2. Now = stack[Len(stack)] /\ Len(stack) \in Nat \ {0} /\ Stands(Now)
    BY <1>1, Innermost DEF Standing
  <1>3. PICK x \in Ino : x = Now.ino /\ x = Follow(Now.ino)
    BY <1>1, <1>2, FollowIs DEF Stands, Standing
  <1>6. PICK kind : kind = "file"
    OBVIOUS
  <1>4. /\ Grows
        /\ \A k \in Len(out) + 1 .. Len(out') :
              /\ out'[k].ino \in Ino /\ Leads(out'[k].path, out'[k].dest, out'[k].ino)
              /\ out'[k].kind = "dir" => IsDir(out'[k].ino)
    <2>1. out' = Append(out, [kind |-> kind, ino |-> x, path |-> Now.path, dest |-> Now.dest])
      BY <1>1, <1>3, <1>6
    <2> QED BY <1>1, <1>3, <1>6, <2>1, ItemStands
  <1>5. Onto(0) /\ Len(stack) .. Len(stack) - 1 + 0 = {}
    BY <1>1, <1>2, Pops
  <1> QED BY <1>1, <1>4, <1>5, NewStand

\* Every step keeps the calls where their paths lead.
LEMMA NextStands == Standing /\ Calls /\ [Next]_vars => Standing'
  <1> SUFFICES ASSUME Standing, Calls, [Next]_vars PROVE Standing'
    OBVIOUS
  <1> USE DEF results, progress, flag
  <1>1. CASE UNCHANGED <<image, stack, out>>
    <2>1. Grows
      BY <1>1, NoItem
    <2>2. /\ \A path, dest, x : Leads(path, dest, x) => Leads(path, dest, x)'
          /\ \A f : Stands(f) => Stands(f)'
      BY <1>1, <2>1, StandsStill
    <2>3. \A x : IsDir(x)' = IsDir(x)
      BY <1>1 DEF IsDir
    <2> QED BY <1>1, <2>2, <2>3 DEF Standing
  <1>2. CASE Look
    <2>1. stack # <<>> /\ UNCHANGED <<image, out>>
      BY <1>2 DEF Look, At
    <2>2. CASE stack' = Front(stack)
      BY <2>1, <2>2, BackStands
    <2>3. CASE stack' # Front(stack)
      <3>1. PICK d : d = [Now EXCEPT !.at = "visit"]
        OBVIOUS
      <3>2. Now = stack[Len(stack)] /\ IsCall(Now) /\ Stands(Now)
        BY <2>1, Innermost DEF Standing
      <3>3. stack' = [stack EXCEPT ![Len(stack)] = d]
        BY <1>2, <2>3, <3>1, <3>2 DEF Look, Return, MoveTo
      <3>4. d.at = "visit" /\ d.path = Now.path /\ d.dest = Now.dest /\ d.ino = Now.ino
        <4>1. SamePlace([Now EXCEPT !.at = "visit"], Now, "visit")
          BY <3>2, Onward
        <4> QED BY <3>1, <4>1 DEF SamePlace
      <3>5. Stands(d)
        BY <3>2, <3>4 DEF Stands
      <3> QED BY <2>1, <3>3, <3>5, OnStands
    <2> QED BY <2>2, <2>3
  <1>3. CASE Unreadable \/ DiskFails \/ EndOfList \/ BrokenLink
    <2>1. stack # <<>> /\ UNCHANGED <<image, out>> /\ stack' = Front(stack)
      BY <1>3 DEF Unreadable, GiveUp, DiskFails, EndOfList, BrokenLink, Readable, Visiting, At, Return
    <2> QED BY <2>1, BackStands
  <1>4. CASE SkipDots
    <2>1. /\ stack # <<>> /\ UNCHANGED <<image, out>> /\ Stands([Now EXCEPT !.left = Tail(Now.left)])
          /\ Now = stack[Len(stack)]
      BY <1>4, ListStands, Innermost DEF SkipDots, At
    <2>2. PICK d : d = [Now EXCEPT !.left = Tail(Now.left)]
      OBVIOUS
    <2>3. stack' = [stack EXCEPT ![Len(stack)] = d]
      BY <1>4, <2>1, <2>2 DEF SkipDots
    <2> QED BY <2>1, <2>2, <2>3, OnStands
  <1>5. CASE Resume
    <2>1. stack # <<>> /\ UNCHANGED <<image, out>>
      BY <1>5 DEF Resume
    <2>2. stack' = Front(stack) \/ stack' = stack
      BY <1>5 DEF Resume, Return
    <2> QED BY <1>1, <2>1, <2>2, BackStands
  <1>6. CASE PressCancel \/ UNCHANGED vars
    BY <1>1, <1>6 DEF PressCancel, vars
  <1> QED BY <1>2, <1>3, <1>4, <1>5, <1>6, DirectoryStands, EntryStands, LinkStands, FileStands
      DEF Next, Walk, Hang

\* Whatever links, loops and repeated inodes an image has: what is put out for a path is
\* the inode that the path leads to, links followed, from the directory that was put
\* out for the parent.
THEOREM PathLeadsThere == Spec => []RightInode
  <1>1. Init => Calls /\ Placed /\ Standing
    BY InitWalk, InitStands
  <1>2. Calls /\ Placed /\ Standing /\ [Next]_vars => (Calls /\ Placed /\ Standing)'
    BY NextPlaced, NextStands
  <1>3. Calls /\ Standing => RightInode
    <2> SUFFICES ASSUME Calls, Standing, NEW k \in OutRange
                 PROVE  IF out[k].path = <<>> THEN out[k].ino = Follow(Top)
                        ELSE \E j \in OutRange : Holds(out[j], out[k])
      BY DEF RightInode
    <2>1. OutRange = 1 .. Len(out)
      BY LenProperties DEF Calls, IsSeq, OutRange
    <2>2. Leads(out[k].path, out[k].dest, out[k].ino)
      BY <2>1 DEF Standing
    <2>3. CASE out[k].path # <<>>
      <3>1. PICK d : /\ DirItem(d, Front(out[k].path), Front(out[k].dest))
                     /\ \E i \in Children(d) : /\ image.list[d][i].name = Last(out[k].path)
                                               /\ out[k].ino = Follow(image.list[d][i].ino)
        BY <2>2, <2>3 DEF Leads
      <3>2. PICK j \in OutRange : /\ out[j].kind = "dir" /\ out[j].ino = d
                                  /\ out[j].path = Front(out[k].path)
                                  /\ out[j].dest = Front(out[k].dest)
        BY <2>1, <3>1 DEF DirItem
      <3> QED BY <2>3, <3>1, <3>2 DEF Holds
    <2> QED BY <2>2, <2>3 DEF Leads
  <1> QED BY <1>1, <1>2, <1>3, PTL DEF Spec

-----------------------------------------------------------------------------
(* What a walk still has to deal with.                                     *)

\* A call that has not begun owes its own place, a list the entries left of it.
Owes(f, p) ==
    \/ f.at \in {"look", "visit"} /\ f.path = p
    \/ /\ f.at = "list"
       /\ \E m \in DOMAIN f.left :
             f.left[m].name \notin DotNames /\ p = Append(f.path, f.left[m].name)
Pending(p) == p \in Accounted \/ \E k \in 1 .. Len(stack) : Owes(stack[k], p)

\* The item asked for and the entries of every directory that is copied.
Due(p) ==
    \/ p = <<>>
    \/ \E k \in 1 .. Len(out) :
          /\ out[k].kind = "dir" /\ out[k].ino \notin image.torn
          /\ \E i \in Children(out[k].ino) :
                p = Append(out[k].path, image.list[out[k].ino][i].name)

\* Nothing has been cut short so far: collect_plan hides it behind a link.
Uncut == ret # "stopped" /\ (~cancel \/ mode = "extract")
Remembered ==
    /\ ret = "stopped" => cancel
    /\ Uncut => \A p : Due(p) => Pending(p)

\* What is accounted for stays so.
LEMMA AccountGrows ==
    ASSUME Grows, Calls, IsSeq(out'), errors \subseteq errors'
    PROVE  /\ Accounted \subseteq Accounted'
           /\ \A k \in 1 .. Len(out') : out'[k].path \in Accounted'
  <1>1. DOMAIN out = 1 .. Len(out) /\ DOMAIN out' = 1 .. Len(out')
    BY LenProperties DEF Calls, IsSeq
  <1>2. \A k \in 1 .. Len(out) : k \in 1 .. Len(out') /\ out'[k].path = out[k].path
    BY DEF Grows
  <1> QED BY <1>1, <1>2 DEF Accounted, OutRange

\* Nothing is forgotten when the calls that take over owe what the innermost one did.
LEMMA StillPending ==
    ASSUME Calls, stack # <<>>, NEW n \in 0 .. 2, Onto(n), Accounted \subseteq Accounted',
           \A p : Owes(Now, p) => \/ p \in Accounted'
                                  \/ \E k \in Len(stack) .. Len(stack) - 1 + n : Owes(stack'[k], p),
           NEW p, Pending(p)
    PROVE  Pending(p)'
  <1>1. Now = stack[Len(stack)] /\ Len(stack) \in Nat \ {0}
    BY Innermost
  <1>2. \A k \in Len(stack) .. Len(stack) - 1 + n : k \in 1 .. Len(stack')
    BY <1>1 DEF Onto
  <1>3. CASE p \in Accounted
    BY <1>3 DEF Pending
  <1>4. CASE \E k \in 1 .. Len(stack) - 1 : Owes(stack[k], p)
    <2>1. PICK k \in 1 .. Len(stack) - 1 : Owes(stack[k], p)
      BY <1>4
    <2>2. stack'[k] = stack[k] /\ k \in 1 .. Len(stack')
      BY <1>1 DEF Onto
    <2>3. \E j \in 1 .. Len(stack') : Owes(stack'[j], p)
      BY <2>1, <2>2
    <2> QED BY <2>3 DEF Pending, Owes
  <1>5. CASE Owes(Now, p)
    <2>1. p \in Accounted' \/ \E k \in 1 .. Len(stack') : Owes(stack'[k], p)
      BY <1>2, <1>5
    <2> QED BY <2>1 DEF Pending, Owes
  <1>6. \A k \in 1 .. Len(stack) : k = Len(stack) \/ k \in 1 .. Len(stack) - 1
    BY <1>1
  <1> QED BY <1>1, <1>3, <1>4, <1>5, <1>6 DEF Pending

\* A step that puts no directory out makes nothing due.
LEMMA NothingNew ==
    ASSUME Calls, image' = image,
           \/ out' = out
           \/ \E x, path, dest : out' = Append(out, [kind |-> "file", ino |-> x,
                                                     path |-> path, dest |-> dest]),
           NEW p, Due(p)'
    PROVE  Due(p)
  <1>1. ASSUME NEW k \in 1 .. Len(out'), out'[k].kind = "dir"
        PROVE  k \in 1 .. Len(out) /\ out'[k] = out[k]
    <2>1. CASE out' = out
      BY <2>1
    <2>2. ASSUME NEW item, item.kind = "file", out' = Append(out, item)
          PROVE  k \in 1 .. Len(out) /\ out'[k] = out[k]
      <3>1. Grows /\ Len(out') = Len(out) + 1 /\ out'[Len(out) + 1] = item
        BY <2>2, OneItem
      <3>2. k # Len(out) + 1
        BY <1>1, <2>2, <3>1
      <3> QED BY <3>1, <3>2 DEF Grows
    <2> QED BY <2>1, <2>2
  <1>2. \A x : Children(x)' = Children(x)
    BY DEF Children
  <1> QED BY <1>1, <1>2 DEF Due

\* A call that returns has dealt with what it owed.
LEMMA BackRemembers ==
    ASSUME Calls, Remembered, stack # <<>>, image' = image, IsSeq(out'), Grows,
           errors \subseteq errors', stack' = Front(stack),
           Uncut' => Uncut /\ (\A p : Owes(Now, p) => p \in Accounted'),
           Uncut' => \A p : Due(p)' => Due(p),
           (ret = "stopped" => cancel)'
    PROVE  Remembered'
  <1>1. Onto(0) /\ Len(stack) .. Len(stack) - 1 + 0 = {}
    BY Pops, Innermost
  <1>2. Accounted \subseteq Accounted'
    BY AccountGrows
  <1>3. ASSUME Uncut', NEW p, Due(p)' PROVE Pending(p)'
    <2>1. Pending(p)
      BY <1>3 DEF Remembered
    <2> QED BY <1>1, <1>2, <1>3, <2>1, StillPending
  <1> QED BY <1>3 DEF Remembered

\* An error accounts for its path.
LEMMA ErrorAccounts ==
    ASSUME NEW what \in Outcome, NEW path, <<what, path>> \in errors'
    PROVE  path \in Accounted'
  <1>1. PICK d : d = <<what, path>>
    OBVIOUS
  <1>2. d[1] = what /\ d[2] = path
    BY <1>1
  <1>3. d \in {e \in errors' : e[1] \in Outcome}
    BY <1>1, <1>2
  <1>4. path \in {e[2] : e \in {f \in errors' : f[1] \in Outcome}}
    BY <1>2, <1>3
  <1> QED BY <1>4 DEF Accounted, Outcome

\* A call that ends in an error or with its item out.
LEMMA EndsAccounted ==
    ASSUME Calls, Placed, Remembered, stack # <<>>, ret = "none", UNCHANGED <<image, mode, flag>>,
           Now.at \in {"look", "visit"}, Return("ok"), errors \subseteq errors',
           \/ out' = out /\ \E what \in Outcome : <<what, Now.path>> \in errors'
           \/ \E x : out' = Append(out, [kind |-> "file", ino |-> x,
                                         path |-> Now.path, dest |-> Now.dest])
    PROVE  Remembered'
  <1>1. stack' = Front(stack) /\ ret' = "ok" /\ image' = image
    BY DEF Return
  <1>2. /\ IsSeq(out') /\ Grows
        /\ out' # out => \E k \in 1 .. Len(out') : out'[k].path = Now.path
    <2>1. CASE out' = out
      BY <2>1, NoItem DEF Calls
    <2>2. ASSUME NEW item, item.path = Now.path, out' = Append(out, item)
          PROVE  /\ IsSeq(out') /\ Grows
                 /\ \E k \in 1 .. Len(out') : out'[k].path = Now.path
      <3>1. Grows /\ Len(out') = Len(out) + 1 /\ out'[Len(out) + 1] = item /\ Len(out) \in Nat
        BY <2>2, OneItem, Innermost
      <3>2. IsSeq(out')
        BY <2>2, FrontOfAppend DEF Calls
      <3>3. Len(out) + 1 \in 1 .. Len(out')
        BY <3>1
      <3> QED BY <2>2, <3>1, <3>2, <3>3
    <2> QED BY <2>1, <2>2
  <1>3. PICK p0 : p0 = Now.path
    OBVIOUS
  <1>4. p0 \in Accounted'
    <2>1. CASE out' # out
      BY <1>2, <1>3, <2>1, AccountGrows
    <2>2. CASE \E what \in Outcome : <<what, Now.path>> \in errors'
      BY <1>3, <2>2, ErrorAccounts
    <2>3. out' # out \/ \E what \in Outcome : <<what, Now.path>> \in errors'
      <3>1. ASSUME out' = out, NEW x, out' = Append(out, x) PROVE FALSE
        <4>1. Len(out) \in Nat /\ Len(out') = Len(out) + 1
          BY <3>1, OneItem, Innermost
        <4> QED BY <3>1, <4>1
      <3> QED BY <3>1
    <2> QED BY <2>1, <2>2, <2>3
  <1>5. \A p : Owes(Now, p) => p \in Accounted'
    BY <1>3, <1>4 DEF Owes
  <1>6. Uncut' => Uncut
    BY DEF Uncut, flag
  <1>7. \A p : Due(p)' => Due(p)
    <2>1. \/ out' = out
          \/ \E x, path, dest : out' = Append(out, [kind |-> "file", ino |-> x,
                                                    path |-> path, dest |-> dest])
      OBVIOUS
    <2> QED BY <1>1, <2>1, NothingNew
  <1>8. (ret = "stopped" => cancel)'
    BY <1>1
  <1> QED BY <1>1, <1>2, <1>5, <1>6, <1>7, <1>8, BackRemembers

\* A call that goes on, or waits for another one, and puts nothing out.
LEMMA OnRemembers ==
    ASSUME Calls, Remembered, stack # <<>>, ret = "none", ret' = "none",
           UNCHANGED <<image, mode, flag, out>>, errors \subseteq errors',
           NEW n \in 1 .. 2, Onto(n),
           \A p : Owes(Now, p) =>
              \E k \in Len(stack) .. Len(stack) - 1 + n : Owes(stack'[k], p)
    PROVE  Remembered'
  <1>1. Uncut' => Uncut
    BY DEF Uncut, flag
  <1>2. Accounted \subseteq Accounted'
    <2>1. Grows /\ IsSeq(out')
      BY NoItem DEF Calls
    <2> QED BY <2>1, AccountGrows
  <1>3. ASSUME Uncut', NEW p, Due(p)' PROVE Pending(p)'
    <2>1. Due(p)
      BY <1>3, NothingNew
    <2>2. Pending(p)
      BY <1>1, <1>3, <2>1 DEF Remembered
    <2> QED BY <1>2, <2>2, StillPending
  <1> QED BY <1>3 DEF Remembered

\* A directory that is put out owes its entries; they are due from then on.
LEMMA DirectoryRemembers ==
    ASSUME Calls, Placed, Standing, Remembered, Directory
    PROVE  Remembered'
  <1> DEFINE item == [kind |-> "dir", ino |-> Now.ino, path |-> Now.path, dest |-> Now.dest]
  <1>1. /\ stack # <<>> /\ ret = "none" /\ ret' # "stopped" /\ UNCHANGED <<image, mode, flag>>
        /\ out' = Append(out, item) /\ Now.at = "visit" /\ errors \subseteq errors'
    BY DEF Directory, Readable, Visiting, At, OutputDir, Output, Return, Report
  <1>2. Now = stack[Len(stack)] /\ Len(stack) \in Nat \ {0} /\ IsCall(Now)
    BY <1>1, Innermost
  <1>3. /\ Grows /\ Len(out') = Len(out) + 1 /\ out'[Len(out) + 1] = item /\ Len(out) \in Nat
        /\ IsSeq(out')
    BY <1>1, OneItem, Innermost, FrontOfAppend DEF Calls
  <1>4. PICK x, p0 : x = Now.ino /\ p0 = Now.path
    OBVIOUS
  <1>5. Accounted \subseteq Accounted' /\ p0 \in Accounted'
    <2>1. Len(out) + 1 \in 1 .. Len(out')
      BY <1>3
    <2>2. out'[Len(out) + 1].path = p0
      BY <1>3, <1>4
    <2> QED BY <1>1, <1>3, <2>1, <2>2, AccountGrows
  <1>6. \A p : Owes(Now, p) => p \in Accounted'
    BY <1>1, <1>4, <1>5 DEF Owes
  <1>7. \A y : Children(y)' = Children(y)
    BY <1>1 DEF Children
  <1>8. ASSUME NEW p, Due(p)'
        PROVE  \/ Due(p)
               \/ x \notin image.torn /\ \E i \in Children(x) : p = Append(p0, image.list[x][i].name)
    <2>1. CASE p = <<>>
      BY <2>1 DEF Due
    <2>2. CASE p # <<>>
      <3>1. PICK k \in 1 .. Len(out') :
               /\ out'[k].kind = "dir" /\ out'[k].ino \notin image.torn
               /\ \E i \in Children(out'[k].ino) :
                     p = Append(out'[k].path, image.list[out'[k].ino][i].name)
        BY <1>1, <1>7, <1>8, <2>2 DEF Due
      <3>2. CASE k = Len(out) + 1
        <4>1. out'[k].ino = x /\ out'[k].path = p0
          BY <1>3, <1>4, <3>2
        <4> QED BY <3>1, <4>1
      <3>3. CASE k \in 1 .. Len(out)
        BY <1>3, <3>1, <3>3 DEF Due, Grows
      <3> QED BY <1>3, <3>2, <3>3
    <2> QED BY <2>1, <2>2
  <1>9. Uncut' => Uncut
    BY <1>1 DEF Uncut, flag
  <1>10. CASE x \in image.torn
    <2>1. stack' = Front(stack)
      BY <1>4, <1>10 DEF Directory, Return
    <2>2. \A p : Due(p)' => Due(p)
      BY <1>8, <1>10
    <2> QED BY <1>1, <1>3, <1>6, <1>9, <2>1, <2>2, BackRemembers
  <1>11. CASE x \notin image.torn
    <2>1. PICK d : d = [Now EXCEPT !.at = "list", !.left = image.list[Now.ino]]
      OBVIOUS
    <2>2. stack' = [stack EXCEPT ![Len(stack)] = d]
      BY <1>2, <1>4, <1>11, <2>1 DEF Directory
    <2>3. d.at = "list" /\ d.path = p0 /\ d.left = image.list[x]
      <3>1. SamePlace([Now EXCEPT !.at = "list", !.left = image.list[Now.ino]], Now, "list")
        BY <1>2, Onward
      <3>2. [Now EXCEPT !.at = "list", !.left = image.list[Now.ino]].left = image.list[Now.ino]
        BY <1>2 DEF IsCall
      <3> QED BY <1>4, <2>1, <3>1, <3>2 DEF SamePlace
    <2>4. Onto(1) /\ stack'[Len(stack)] = d
      BY <1>1, <2>2, GoesOn
    <2>5. Len(stack) \in 1 .. Len(stack')
      BY <1>2, <2>4 DEF Onto
    <2>6. ASSUME Uncut', NEW p, Due(p)' PROVE Pending(p)'
      <3>1. CASE Due(p)
        <4>1. Pending(p)
          BY <1>9, <2>6, <3>1 DEF Remembered
        <4> QED BY <1>1, <1>5, <1>6, <2>4, <4>1, StillPending
      <3>2. CASE \E i \in Children(x) : p = Append(p0, image.list[x][i].name)
        <4>1. Owes(d, p)
          BY <2>3, <3>2 DEF Owes, Children
        <4>2. \E j \in 1 .. Len(stack') : Owes(stack'[j], p)
          BY <2>4, <2>5, <4>1
        <4> QED BY <4>2 DEF Pending, Owes
      <3> QED BY <1>8, <2>6, <3>1, <3>2
    <2> QED BY <1>1, <2>6 DEF Remembered
  <1> QED BY <1>10, <1>11

\* An entry is owed by the call that walks it, and the rest by the list.
LEMMA ListRemembers ==
    ASSUME Calls, Standing, Remembered, Entry \/ SkipDots
    PROVE  Remembered'
  <1>1. /\ stack # <<>> /\ ret = "none" /\ ret' = "none" /\ UNCHANGED <<image, mode, flag, out>>
        /\ Now.at = "list" /\ Now.left # <<>> /\ errors \subseteq errors'
    BY DEF Entry, SkipDots, At, results, Report
  <1>2. /\ Now = stack[Len(stack)] /\ Len(stack) \in Nat \ {0} /\ IsCall(Now) /\ Stands(Now)
    BY <1>1, Innermost DEF Standing
  <1>3. /\ Head(Now.left) = Now.left[1]
        /\ \A m \in DOMAIN Now.left : m # 1 =>
              m - 1 \in DOMAIN Tail(Now.left) /\ Tail(Now.left)[m - 1] = Now.left[m]
    <2>1. Now.left \in Seq(NameAndIno)
      BY <1>1, <1>2 DEF Stands
    <2> QED BY <1>1, <2>1, TailIs
  <1>4. PICK h : h = Head(Now.left)
    OBVIOUS
  <1>5. PICK d : d = [Now EXCEPT !.left = Tail(Now.left)]
    OBVIOUS
  <1>6. d.at = "list" /\ d.path = Now.path /\ d.left = Tail(Now.left)
    <2>1. SamePlace([Now EXCEPT !.left = Tail(Now.left)], Now, Now.at)
      BY <1>2, Onward
    <2>2. [Now EXCEPT !.left = Tail(Now.left)].left = Tail(Now.left)
      BY <1>2 DEF IsCall
    <2> QED BY <1>1, <1>5, <2>1, <2>2 DEF SamePlace
  <1>7. \A p : Owes(Now, p) =>
            Owes(d, p) \/ (h.name \notin DotNames /\ p = Append(Now.path, h.name))
    <2> SUFFICES ASSUME NEW p, Owes(Now, p)
                 PROVE  Owes(d, p) \/ (h.name \notin DotNames /\ p = Append(Now.path, h.name))
      OBVIOUS
    <2>1. PICK m \in DOMAIN Now.left :
              Now.left[m].name \notin DotNames /\ p = Append(Now.path, Now.left[m].name)
      BY <1>1 DEF Owes
    <2>2. CASE m = 1
      BY <1>3, <1>4, <2>1, <2>2
    <2>3. CASE m # 1
      <3>1. m - 1 \in DOMAIN d.left /\ d.left[m - 1] = Now.left[m]
        BY <1>3, <1>6, <2>3
      <3>2. d.left[m - 1].name \notin DotNames /\ p = Append(d.path, d.left[m - 1].name)
        BY <1>6, <2>1, <3>1
      <3>3. \E j \in DOMAIN d.left :
               d.left[j].name \notin DotNames /\ p = Append(d.path, d.left[j].name)
        BY <3>1, <3>2
      <3> QED BY <1>6, <3>3 DEF Owes
    <2> QED BY <2>2, <2>3
  <1>8. CASE Entry
    <2>1. PICK dest, depth : stack' = Append([stack EXCEPT ![Len(stack)].left = Tail(@)],
                     Call(h.ino, Append(Now.path, h.name), dest, depth))
      BY <1>4, <1>8 DEF Entry
    <2>2. PICK e : e = Call(h.ino, Append(Now.path, h.name), dest, depth)
      OBVIOUS
    <2>3. stack' = Append([stack EXCEPT ![Len(stack)] = d], e)
      BY <1>2, <1>5, <2>1, <2>2
    <2>4. e.at = "look" /\ e.path = Append(Now.path, h.name)
      BY <2>2 DEF Call
    <2>5. Onto(2) /\ stack'[Len(stack)] = d /\ stack'[Len(stack) + 1] = e
      BY <1>1, <2>3, Pushes
    <2>6. \A p : Owes(Now, p) => Owes(d, p) \/ Owes(e, p)
      BY <1>7, <2>4 DEF Owes
    <2>7. Len(stack) \in Len(stack) .. Len(stack) - 1 + 2
          /\ Len(stack) + 1 \in Len(stack) .. Len(stack) - 1 + 2
      BY <1>2
    <2>8. \A p : Owes(Now, p) =>
              \E k \in Len(stack) .. Len(stack) - 1 + 2 : Owes(stack'[k], p)
      BY <2>5, <2>6, <2>7
    <2> QED BY <1>1, <2>5, <2>8, OnRemembers
  <1>9. CASE SkipDots
    <2>1. stack' = [stack EXCEPT ![Len(stack)] = d]
      BY <1>2, <1>5, <1>9 DEF SkipDots
    <2>2. Onto(1) /\ stack'[Len(stack)] = d
      BY <1>1, <2>1, GoesOn
    <2>3. Len(stack) \in Len(stack) .. Len(stack) - 1 + 1
      BY <1>2
    <2>4. h.name \in DotNames
      BY <1>4, <1>9 DEF SkipDots
    <2>5. \A p : Owes(Now, p) =>
              \E k \in Len(stack) .. Len(stack) - 1 + 1 : Owes(stack'[k], p)
      BY <1>7, <2>2, <2>3, <2>4
    <2> QED BY <1>1, <2>2, <2>5, OnRemembers
  <1> QED BY <1>8, <1>9

\* A link that is walked owes its place through the call for its target.
LEMMA LinkRemembers ==
    ASSUME Calls, Placed, Remembered, Link
    PROVE  Remembered'
  <1>1. /\ stack # <<>> /\ ret = "none" /\ UNCHANGED <<image, mode, flag>>
        /\ Now.at = "visit" /\ errors' = errors
    BY DEF Link, Readable, Visiting, At
  <1>2. Now = stack[Len(stack)] /\ Len(stack) \in Nat \ {0} /\ IsCall(Now)
    BY <1>1, Innermost
  <1>3. PICK x : x = image.answer[Now.ino]
    OBVIOUS
  <1>4. CASE mode = "plan" /\ (x \in image.sick \/ ~IsDir(x))
    <2>1. /\ out' = Append(out, [kind |-> "file", ino |-> x, path |-> Now.path, dest |-> Now.dest])
          /\ Return("ok")
      BY <1>3, <1>4 DEF Link, LinkTarget
    <2> QED BY <1>1, <2>1, EndsAccounted
  <1>5. CASE ~(mode = "plan" /\ (x \in image.sick \/ ~IsDir(x)))
    <2>1. PICK d : d = [Now EXCEPT !.at = "link"]
      OBVIOUS
    <2>2. PICK e : e = Call(x, Now.path, Now.dest, Now.depth + 1)
      OBVIOUS
    <2>3. stack' = Append([stack EXCEPT ![Len(stack)] = d], e) /\ out' = out /\ ret' = "none"
      BY <1>1, <1>2, <1>3, <1>5, <2>1, <2>2 DEF Link
    <2>4. e.at = "look" /\ e.path = Now.path
      BY <2>2 DEF Call
    <2>5. Onto(2) /\ stack'[Len(stack) + 1] = e
      BY <1>1, <2>3, Pushes
    <2>6. Len(stack) + 1 \in Len(stack) .. Len(stack) - 1 + 2
      BY <1>2
    <2>7. \A p : Owes(Now, p) =>
              \E k \in Len(stack) .. Len(stack) - 1 + 2 : Owes(stack'[k], p)
      <3>1. \A p : Owes(Now, p) => Owes(e, p)
        BY <1>1, <2>4 DEF Owes
      <3> QED BY <2>5, <2>6, <3>1
    <2> QED BY <1>1, <2>3, <2>5, <2>7, OnRemembers
  <1> QED BY <1>4, <1>5

\* The head of a call.
LEMMA LookRemembers ==
    ASSUME Calls, Placed, Remembered, Look
    PROVE  Remembered'
  <1>1. /\ stack # <<>> /\ ret = "none" /\ UNCHANGED <<image, mode, flag>>
        /\ Now.at = "look" /\ out' = out /\ errors \subseteq errors'
    BY DEF Look, At, results, Report
  <1>2. Now = stack[Len(stack)] /\ Len(stack) \in Nat \ {0} /\ IsCall(Now)
    BY <1>1, Innermost
  <1>3. CASE Stops /\ Return("stopped")
    BY <1>1, <1>3 DEF Stops, Return, Remembered, Uncut, flag
  <1>4. CASE Report("too deep", Now.path) /\ Return("ok")
    <2>1. \E what \in Outcome : <<what, Now.path>> \in errors'
      BY <1>4 DEF Report, Outcome
    <2> QED BY <1>1, <1>4, <2>1, EndsAccounted
  <1>5. CASE MoveTo("visit")
    <2>1. PICK d : d = [Now EXCEPT !.at = "visit"]
      OBVIOUS
    <2>2. stack' = [stack EXCEPT ![Len(stack)] = d] /\ ret' = "none"
      BY <1>1, <1>2, <1>5, <2>1 DEF MoveTo
    <2>3. d.at = "visit" /\ d.path = Now.path
      <3>1. SamePlace([Now EXCEPT !.at = "visit"], Now, "visit")
        BY <1>2, Onward
      <3> QED BY <2>1, <3>1 DEF SamePlace
    <2>4. Onto(1) /\ stack'[Len(stack)] = d
      BY <1>1, <2>2, GoesOn
    <2>6. Len(stack) \in Len(stack) .. Len(stack) - 1 + 1
      BY <1>2
    <2>5. \A p : Owes(Now, p) =>
              \E k \in Len(stack) .. Len(stack) - 1 + 1 : Owes(stack'[k], p)
      <3>1. \A p : Owes(Now, p) => Owes(d, p)
        BY <1>1, <2>3 DEF Owes
      <3> QED BY <2>4, <2>6, <3>1
    <2> QED BY <1>1, <2>2, <2>4, <2>5, OnRemembers
  <1> QED BY <1>3, <1>4, <1>5 DEF Look

\* A call that had waited goes on or returns; only collect_plan makes of "stopped" an "ok".
LEMMA ResumeRemembers ==
    ASSUME Calls, Placed, Remembered, Resume
    PROVE  Remembered'
  <1>1. /\ stack # <<>> /\ ret # "none" /\ UNCHANGED <<image, mode, flag, out, errors>>
    BY DEF Resume, results
  <1>2. Now = stack[Len(stack)] /\ Len(stack) \in Nat \ {0} /\ IsCall(Now) /\ Waits(Now)
    BY <1>1, Innermost DEF Calls
  <1>3. Grows /\ IsSeq(out')
    BY <1>1, NoItem DEF Calls
  <1>4. \A p : Due(p)' => Due(p)
    BY <1>1, NothingNew
  <1>5. CASE Now.at = "list" /\ ret # "stopped"
    <2>1. stack' = stack /\ ret' = "none"
      BY <1>5 DEF Resume, PassesOn
    <2>2. Uncut' => Uncut
      BY <1>1, <1>5 DEF Uncut, flag
    <2>3. \A p : Pending(p) => Pending(p)'
      BY <1>1, <2>1 DEF Pending, Owes, Accounted, OutRange
    <2> QED BY <1>4, <2>1, <2>2, <2>3 DEF Remembered
  <1>6. CASE Now.at = "list" /\ ret = "stopped"
    BY <1>1, <1>6 DEF Resume, PassesOn, Return, Remembered, Uncut, flag
  <1>7. CASE Now.at = "link"
    <2>1. stack' = Front(stack) /\ ret' = IF mode = "extract" THEN ret ELSE "ok"
      BY <1>7 DEF Resume, Return
    <2>2. \A p : ~Owes(Now, p)
      BY <1>7 DEF Owes
    <2>3. Uncut' => Uncut
      BY <1>1, <2>1 DEF Uncut, flag, Remembered
    <2>4. (ret = "stopped" => cancel)'
      BY <1>1, <2>1 DEF flag, Remembered
    <2> QED BY <1>1, <1>3, <1>4, <2>1, <2>2, <2>3, <2>4, BackRemembers
  <1> QED BY <1>2, <1>5, <1>6, <1>7 DEF Waits

\* No step forgets anything.
LEMMA NextRemembers ==
    Calls /\ Placed /\ Standing /\ Remembered /\ [Next]_vars => Remembered'
  <1> SUFFICES ASSUME Calls, Placed, Standing, Remembered, [Next]_vars PROVE Remembered'
    OBVIOUS
  <1>1. CASE Unreadable \/ DiskFails \/ BrokenLink \/ File
    <2>1. /\ stack # <<>> /\ ret = "none" /\ UNCHANGED <<image, mode, flag>>
          /\ Now.at = "visit" /\ Return("ok") /\ errors \subseteq errors'
      BY <1>1 DEF Unreadable, GiveUp, DiskFails, BrokenLink, File, Readable, Visiting, At, Report
    <2>2. \/ out' = out /\ \E what \in Outcome : <<what, Now.path>> \in errors'
          \/ \E x : out' = Append(out, [kind |-> "file", ino |-> x,
                                        path |-> Now.path, dest |-> Now.dest])
      <3>1. CASE Unreadable \/ DiskFails \/ BrokenLink
        BY <3>1 DEF Unreadable, DiskFails, BrokenLink, Report, Outcome
      <3>2. CASE File
        BY <3>2 DEF File, Output
      <3> QED BY <1>1, <3>1, <3>2
    <2> QED BY <2>1, <2>2, EndsAccounted
  <1>2. CASE EndOfList
    <2>1. /\ stack # <<>> /\ ret = "none" /\ ret' = "ok" /\ stack' = Front(stack)
          /\ UNCHANGED <<image, mode, flag, out, errors>>
          /\ Now.at = "list" /\ Now.left = <<>>
      BY <1>2 DEF EndOfList, At, Return, results
    <2>2. \A p : ~Owes(Now, p)
      BY <2>1 DEF Owes
    <2>3. Grows /\ IsSeq(out')
      BY <2>1, NoItem DEF Calls
    <2>4. \A p : Due(p)' => Due(p)
      BY <2>1, NothingNew
    <2>5. (Uncut' => Uncut) /\ (ret = "stopped" => cancel)'
      BY <2>1 DEF Uncut, flag
    <2> QED BY <2>1, <2>2, <2>3, <2>4, <2>5, BackRemembers
  <1>3. CASE PressCancel \/ UNCHANGED vars
    <2>1. UNCHANGED <<image, mode, stack, ret, out, errors>> /\ (cancel => cancel')
      BY <1>3 DEF PressCancel, vars, results, flag
    <2>2. \A p : (Due(p)' => Due(p)) /\ (Pending(p) => Pending(p)')
      BY <2>1 DEF Due, Children, Pending, Owes, Accounted, OutRange
    <2>3. Uncut' => Uncut
      BY <2>1 DEF Uncut
    <2> QED BY <2>1, <2>2, <2>3 DEF Remembered
  <1> QED BY <1>1, <1>2, <1>3, LookRemembers, DirectoryRemembers, ListRemembers,
             LinkRemembers, ResumeRemembers DEF Next, Walk, Hang

\* However a walk goes, in whatever image: if it is over and was not cut short, the item
\* asked for and every entry of every directory it put out has been copied or planned, or
\* is named in an error.
THEOREM WalkForgetsNothing == Spec => []NothingForgotten
  <1>1. Init => Calls /\ Placed /\ Standing /\ Remembered
    <2> SUFFICES ASSUME Init PROVE Remembered
      BY InitWalk, InitStands
    <2>1. PICK name \in Given : stack = <<Call(Top, <<>>, <<name>>, 0)>>
      BY DEF Init
    <2>2. Owes(stack[1], <<>>) /\ Len(stack) = 1
      BY <2>1 DEF Owes, Call
    <2>3. \A p : Due(p) => p = <<>>
      BY DEF Init, Due
    <2> QED BY <2>2, <2>3 DEF Init, Remembered, Pending
  <1>2. Calls /\ Placed /\ Standing /\ Remembered /\ [Next]_vars =>
            (Calls /\ Placed /\ Standing /\ Remembered)'
    BY NextPlaced, NextStands, NextRemembers
  <1>3. Calls /\ Remembered => NothingForgotten
    <2> SUFFICES ASSUME Calls, Remembered, WholeWalk
                 PROVE  /\ <<>> \in Accounted
                        /\ \A k \in OutRange : out[k].kind = "dir" /\ out[k].ino \notin image.torn =>
                              \A j \in Children(out[k].ino) :
                                 Append(out[k].path, image.list[out[k].ino][j].name) \in Accounted
      BY DEF NothingForgotten
    <2>1. Uncut /\ Len(stack) = 0
      BY DEF WholeWalk, Finished, Uncut, Remembered
    <2>2. \A p : Due(p) => p \in Accounted
      BY <2>1 DEF Remembered, Pending
    <2>3. OutRange = 1 .. Len(out)
      BY LenProperties DEF Calls, IsSeq, OutRange
    <2> QED BY <2>2, <2>3 DEF Due
  <1> QED BY <1>1, <1>2, <1>3, PTL DEF Spec

=============================================================================
