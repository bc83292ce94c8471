-------------------------- MODULE PathResolveProofs --------------------------
(***************************************************************************)
(* Proofs about PathResolve, for every file system, path and limit: what   *)
(* it gives is no link, and it is the answer that resolving the links one  *)
(* by one would give.                                                      *)
(***************************************************************************)
EXTENDS PathResolve, WellFoundedInduction, SequenceTheorems, TLAPS

\* collect_plan makes a file job of whatever resolve returns for a link, so
\* what it returns must never be a link again.
NeverALink == result # <<>> /\ result[1] = "ok" => fs.kind[result[2]] # "link"

\* The walk stands in a directory all the time, and what it gives is no link.
Inv ==
    /\ fs \in Tree
    /\ cur \in Ino /\ fs.kind[cur] = "dir"
    /\ NeverALink

Less == {pair \in Nat \X Nat : pair[1] < pair[2]}

\* A set of numbers has a least one.
LEMMA Least ==
    ASSUME NEW S \in SUBSET Nat, S # {}
    PROVE  Min(S) \in S
  <1>1. IsWellFoundedOn(Less, Nat)
    BY NatLessThanWellFounded DEF OpToRel, Less
  <1>2. PICK n \in S : \A m \in S : ~(<<m, n>> \in Less)
    BY <1>1, WFMin
  <1>3. \A m \in S : ~(m < n)
    BY <1>2 DEF Less
  <1>4. \A m \in S : n <= m
    BY <1>3
  <1> QED BY <1>4 DEF Min

\* What is found in a directory is one of its entries.
LEMMA FoundThere ==
    ASSUME NEW f \in Tree, NEW d \in Ino, f.kind[d] = "dir",
           NEW name, Has(f.dir[d], name)
    PROVE  /\ Lookup(f.dir[d], name) \in Ino
           /\ name = ".." => f.kind[Lookup(f.dir[d], name)] = "dir"
  <1> DEFINE list == Listing[f.dir[d]].list
             hits == Named(f.dir[d], name)
  <1>1. /\ DOMAIN list \subseteq Nat
        /\ \A e \in ToSet(list) : e.ino \in Ino /\ (e.name = ".." => f.kind[e.ino] = "dir")
    BY ResolveAssumption
  <1>2. hits \in SUBSET Nat /\ hits # {}
    BY <1>1 DEF Named, Has
  <1>3. Min(hits) \in hits
    BY <1>2, Least
  <1>4. Min(hits) \in DOMAIN list /\ list[Min(hits)].name = name
    BY <1>3 DEF Named
  <1>5. list[Min(hits)] \in ToSet(list)
    BY <1>4 DEF ToSet
  <1> QED BY <1>1, <1>4, <1>5 DEF Lookup

\* The walk begins in a directory, without an answer.
LEMMA InitInv == Init => Inv
  BY ResolveAssumption DEF Init, Inv, NeverALink

\* A step that goes on, in a directory, or ends without an inode.
LEMMA GoesOn ==
    ASSUME Inv, fs' = fs, cur' \in Ino, fs.kind[cur'] = "dir",
           result' = <<>> \/ result'[1] # "ok"
    PROVE  Inv'
  BY DEF Inv, NeverALink

\* Every step keeps the walk in a directory, and ends it at no link.
LEMMA NextInv == Inv /\ [Next]_vars => Inv'
  <1> SUFFICES ASSUME Inv, [Next]_vars PROVE Inv'
    OBVIOUS
  <1> USE DEF Return, where
  <1>1. Has(Here, Name) =>
           Found \in Ino /\ (Name = ".." => fs.kind[Found] = "dir")
    BY FoundThere DEF Inv, Here, Found
  <1>2. ASSUME NEW why \in {"missing", "corrupt", "too many levels", "not a directory", "i/o error"},
               Return(<<why>>)
        PROVE  Inv'
    BY <1>2, GoesOn DEF Inv
  <1>3. CASE Up
    <2>1. CASE Has(Here, "..")
      BY <1>1, <1>3, <2>1, GoesOn DEF Up, Walking
    <2> QED BY <1>2, <1>3, <2>1 DEF Up
  <1>4. CASE Missing \/ Unlisted \/ ReadFails
    BY <1>2, <1>4 DEF Missing, Unlisted, ReadFails
  <1>5. CASE FollowAbsolute
    <2>1. CASE TooDeep
      BY <1>2, <1>5, <2>1 DEF FollowAbsolute
    <2>2. CASE ~TooDeep
      <3>1. Root \in Ino /\ fs.kind[Root] = "dir"
        BY ResolveAssumption DEF Inv
      <3> QED BY <1>5, <2>2, <3>1, GoesOn DEF FollowAbsolute, Looking, Walking
    <2> QED BY <2>1, <2>2
  <1>6. CASE FollowRelative
    BY <1>6, GoesOn DEF FollowRelative, FromHere, Looking, Walking, Inv
  <1>7. CASE Arrive
    <2>1. result' = <<"ok", Found>> /\ fs.kind[Found] # "link" /\ UNCHANGED <<fs, cur>>
      BY <1>7 DEF Arrive, IsLink
    <2> QED BY <2>1 DEF Inv, NeverALink
  <1>8. CASE Descend
    <2>1. CASE fs.kind[Found] = "dir"
      BY <1>1, <1>8, <2>1, GoesOn DEF Descend, Looking, Walking
    <2> QED BY <1>2, <1>8, <2>1 DEF Descend
  <1>9. CASE StandStill
    <2>1. result' = <<"ok", cur>> /\ UNCHANGED <<fs, cur>>
      BY <1>9 DEF StandStill
    <2> QED BY <2>1 DEF Inv, NeverALink
  <1>10. CASE UNCHANGED vars
    BY <1>10 DEF vars, Inv, NeverALink
  <1> QED BY <1>3, <1>4, <1>5, <1>6, <1>7, <1>8, <1>9, <1>10 DEF Next, Step, Answered

\* Whatever links, circles and corrupt directories there are, what resolve gives
\* for a path is a file or a directory.
THEOREM ResolvesNoLink == Spec => []NeverALink
  BY InitInv, NextInv, PTL DEF Spec, Inv

-----------------------------------------------------------------------------
(* The reference answer.  It is a function of the number of calls that may *)
(* stand one inside the other; what holds at every number is shown by the  *)
(* least one at which it would not.                                        *)

\* What holds of 0, and of the next number with each, holds of every number.
LEMMA Upwards ==
    ASSUME NEW S, 0 \in S, \A n \in Nat : n \in S => n + 1 \in S
    PROVE  \A n \in Nat : n \in S
  <1> DEFINE Bad == Nat \ S
  <1> SUFFICES ASSUME Bad # {} PROVE FALSE
    OBVIOUS
  <1>1. IsWellFoundedOn(Less, Nat)
    BY NatLessThanWellFounded DEF OpToRel, Less
  <1>2. Bad \in SUBSET Nat
    OBVIOUS
  <1> HIDE DEF Bad
  <1>3. PICK n \in Bad : \A m \in Bad : ~(<<m, n>> \in Less)
    BY <1>1, <1>2, WFMin
  <1>4. n \in Nat /\ n \notin S /\ \A m \in Nat : m < n => m \in S
    BY <1>2, <1>3 DEF Bad, Less
  <1>5. n # 0 /\ n - 1 \in Nat /\ n - 1 < n /\ (n - 1) + 1 = n
    BY <1>4
  <1> QED BY <1>4, <1>5

\* The tries of Walk, up to the n-th.
Tries(f, n, g) == g = [j \in 0 .. n |-> IF j = 0 THEN NoAnswers ELSE OneDeeper(f, g[j - 1])]

\* Each is made of the one before.
LEMMA TryByTry ==
    ASSUME NEW f, NEW n \in Nat, NEW g, Tries(f, n, g)
    PROVE  g[0] = NoAnswers /\ \A j \in 1 .. n : g[j] = OneDeeper(f, g[j - 1])
  <1>1. \A j \in 0 .. n : g[j] = IF j = 0 THEN NoAnswers ELSE OneDeeper(f, g[j - 1])
    BY DEF Tries
  <1>2. 0 \in 0 .. n /\ \A j \in 1 .. n : j \in 0 .. n /\ j # 0
    OBVIOUS
  <1> QED BY <1>1, <1>2

\* There are such tries.
LEMMA TriesExist ==
    ASSUME NEW f, NEW n \in Nat
    PROVE  \E g : Tries(f, n, g)
  <1> DEFINE S == {m \in Nat : \E g : Tries(f, m, g)}
  <1>1. 0 \in S
    <2> DEFINE g == [j \in 0 .. 0 |-> NoAnswers]
    <2>1. g = [j \in 0 .. 0 |-> IF j = 0 THEN NoAnswers ELSE OneDeeper(f, g[j - 1])]
      OBVIOUS
    <2> QED BY <2>1 DEF Tries
  <1>2. ASSUME NEW m \in Nat, m \in S PROVE m + 1 \in S
    <2>1. PICK g : Tries(f, m, g)
      BY <1>2
    <2>2. g[0] = NoAnswers /\ \A j \in 1 .. m : g[j] = OneDeeper(f, g[j - 1])
      BY <2>1, TryByTry
    <2> DEFINE h == [j \in 0 .. m + 1 |-> IF j = m + 1 THEN OneDeeper(f, g[m]) ELSE g[j]]
    <2>3. ASSUME NEW j \in 0 .. m + 1
          PROVE  h[j] = IF j = 0 THEN NoAnswers ELSE OneDeeper(f, h[j - 1])
      <3>1. CASE j = 0
        BY <2>2, <3>1
      <3>2. CASE j \in 1 .. m
        <4>1. j - 1 \in 0 .. m + 1 /\ j - 1 # m + 1 /\ j # m + 1 /\ j # 0
          BY <3>2
        <4> QED BY <2>2, <3>2, <4>1
      <3>3. CASE j = m + 1
        <4>1. j - 1 = m /\ m \in 0 .. m + 1 /\ m # m + 1 /\ j # 0
          BY <3>3
        <4> QED BY <3>3, <4>1
      <3> QED BY <3>1, <3>2, <3>3
    <2>4. Tries(f, m + 1, h)
      <3>1. h = [j \in 0 .. m + 1 |-> h[j]]
        OBVIOUS
      <3> HIDE DEF h
      <3> QED BY <2>3, <3>1 DEF Tries
    <2> QED BY <2>4
  <1>3. \A m \in Nat : m \in S
    <2> HIDE DEF S
    <2> QED BY <1>1, <1>2, Upwards
  <1> QED BY <1>3

\* However many are made, those that both have are the same.
LEMMA TriesAgree ==
    ASSUME NEW f, NEW n \in Nat, NEW m \in Nat, n <= m,
           NEW g, NEW h, Tries(f, n, g), Tries(f, m, h)
    PROVE  g[n] = h[n]
  <1> DEFINE S == {j \in Nat : j <= n => g[j] = h[j]}
  <1>1. /\ g[0] = NoAnswers /\ \A j \in 1 .. n : g[j] = OneDeeper(f, g[j - 1])
        /\ h[0] = NoAnswers /\ \A j \in 1 .. m : h[j] = OneDeeper(f, h[j - 1])
    BY TryByTry
  <1>2. 0 \in S
    BY <1>1
  <1>3. ASSUME NEW j \in Nat, j \in S PROVE j + 1 \in S
    <2>1. CASE j + 1 <= n
      <3>1. j + 1 \in 1 .. n /\ j + 1 \in 1 .. m /\ (j + 1) - 1 = j /\ j <= n
        BY <2>1
      <3>2. g[j + 1] = OneDeeper(f, g[j]) /\ h[j + 1] = OneDeeper(f, h[j])
        BY <1>1, <3>1
      <3> QED BY <1>3, <3>1, <3>2
    <2> QED BY <2>1
  <1>4. \A j \in Nat : j \in S
    <2> HIDE DEF S
    <2> QED BY <1>2, <1>3, Upwards
  <1> QED BY <1>4

\* Walk gives the last of them.
LEMMA WalkIs ==
    ASSUME NEW f, NEW n \in Nat
    PROVE  \E g : Tries(f, n, g) /\ Walk(f, n) = g[n]
  <1> DEFINE g == CHOOSE h : Tries(f, n, h)
  <1>1. Tries(f, n, g)
    BY TriesExist
  <1>2. Walk(f, n) = g[n]
    BY DEF Walk, Tries
  <1> QED BY <1>1, <1>2

\* So one call deeper is one step further.
LEMMA WalkSteps ==
    ASSUME NEW f
    PROVE  /\ Walk(f, 0) = NoAnswers
           /\ \A n \in Nat : Walk(f, n + 1) = OneDeeper(f, Walk(f, n))
  <1>1. Walk(f, 0) = NoAnswers
    BY WalkIs, TryByTry
  <1>2. ASSUME NEW n \in Nat PROVE Walk(f, n + 1) = OneDeeper(f, Walk(f, n))
    <2>1. PICK g : Tries(f, n, g) /\ Walk(f, n) = g[n]
      BY WalkIs
    <2>2. n + 1 \in Nat /\ n <= n + 1 /\ n + 1 \in 1 .. n + 1 /\ (n + 1) - 1 = n
      OBVIOUS
    <2>3. PICK h : Tries(f, n + 1, h) /\ Walk(f, n + 1) = h[n + 1]
      BY <2>2, WalkIs
    <2>4. h[n + 1] = OneDeeper(f, h[n])
      <3>1. \A j \in 1 .. n + 1 : h[j] = OneDeeper(f, h[j - 1])
        BY <2>2, <2>3, TryByTry
      <3> QED BY <2>2, <3>1
    <2>5. g[n] = h[n]
      BY <2>1, <2>2, <2>3, TriesAgree
    <2> QED BY <2>1, <2>3, <2>4, <2>5
  <1> QED BY <1>1, <1>2

Kinds == {"unfinished", "ok", "missing", "corrupt", "not a directory"}
Answer == [is : Kinds, ino : Ino, links : Nat]
Place == Ino \X Seq(Names)

\* What stops a walk at once, and with which answer.
Stops(f, d, p) == p = <<>> \/ f.kind[d] # "dir" \/ IsCorrupt(f.dir[d]) \/ ~Has(f.dir[d], Head(p))
Stop(f, d, p) ==
    Ends(IF p = <<>> THEN "ok" ELSE IF f.kind[d] # "dir" THEN "not a directory"
         ELSE IF IsCorrupt(f.dir[d]) THEN "corrupt" ELSE "missing", d)

\* Where it goes on otherwise: what has the name, and the target of a link.
First(f, d, p) == Lookup(f.dir[d], Head(p))
Goal(f, d, p) == f.target[First(f, d, p)]
From(f, d, p) == IF Goal(f, d, p).absolute THEN Root ELSE d
Cost(f, d, p) == IF Goal(f, d, p).absolute THEN 1 ELSE 0
AtLink(f, d, p) == ~Stops(f, d, p) /\ f.kind[First(f, d, p)] = "link"

\* Its places.
LEMMA OnPlaces ==
    ASSUME NEW f \in Tree, NEW d \in Ino, NEW p \in Seq(Names), ~Stops(f, d, p)
    PROVE  /\ p # <<>> /\ Tail(p) \in Seq(Names) /\ First(f, d, p) \in Ino
           /\ AtLink(f, d, p) => /\ Goal(f, d, p).comps \in Seq(Names)
                                 /\ From(f, d, p) \in Ino /\ Cost(f, d, p) \in Nat
  <1>1. p # <<>> /\ Tail(p) \in Seq(Names)
    BY DEF Stops
  <1>2. f.kind[d] = "dir" /\ Has(f.dir[d], Head(p))
    BY DEF Stops
  <1>3. First(f, d, p) \in Ino
    BY <1>2, FoundThere DEF First
  <1>4. AtLink(f, d, p) => Goal(f, d, p).comps \in Seq(Names)
    BY <1>3, ResolveAssumption DEF AtLink, Goal
  <1> QED BY <1>1, <1>3, <1>4, ResolveAssumption DEF From, Cost

\* The answers that one call makes of those below it.
LEMMA ResolvedIs ==
    ASSUME NEW f, NEW w, NEW d, NEW p
    PROVE  LET there == w[<<From(f, d, p), Goal(f, d, p).comps>>]
               onward == w[<<there.ino, Tail(p)>>]
           IN  Resolved(f, w, d, p) =
                   IF Stops(f, d, p) THEN Stop(f, d, p)
                   ELSE IF ~AtLink(f, d, p) THEN w[<<First(f, d, p), Tail(p)>>]
                   ELSE IF there.is = "unfinished" THEN Unfinished
                   ELSE IF there.is # "ok" THEN After(Cost(f, d, p), there)
                   ELSE IF onward.is = "unfinished" THEN Unfinished
                   ELSE After(Cost(f, d, p) + there.links, onward)
  <1> DEFINE there == w[<<From(f, d, p), Goal(f, d, p).comps>>]
             x == First(f, d, p)
  <1>1. ~Stops(f, d, p) => Resolved(f, w, d, p) = Goes(f, w, d, x, Tail(p))
    BY DEF Resolved, Stops, First
  <1>2. Stops(f, d, p) => Resolved(f, w, d, p) = Stop(f, d, p)
    BY DEF Resolved, Stops, Stop
  <1>3. ~Stops(f, d, p) /\ ~AtLink(f, d, p) => Goes(f, w, d, x, Tail(p)) = w[<<x, Tail(p)>>]
    BY DEF Goes, AtLink
  <1>4. AtLink(f, d, p) => Goes(f, w, d, x, Tail(p)) = Target(w, Cost(f, d, p), there, Tail(p))
    BY DEF Goes, AtLink, Follows, Goal, From, Cost
  <1> QED BY <1>1, <1>2, <1>3, <1>4 DEF Target, Onward, AtLink

\* An answer with some links more.
LEMMA AfterIs ==
    ASSUME NEW a \in Answer, NEW n \in Nat
    PROVE  /\ After(n, a) \in Answer /\ After(n, a).is = a.is /\ After(n, a).ino = a.ino
           /\ After(n, a).links = n + a.links /\ After(0, a) = a
  <1>1. a.links \in Nat /\ a.is \in Kinds /\ a.ino \in Ino
    BY DEF Answer
  <1>2. a = [is |-> a.is, ino |-> a.ino, links |-> a.links]
    BY DEF Answer
  <1>3. After(n, a) = [is |-> a.is, ino |-> a.ino, links |-> n + a.links]
    BY <1>2 DEF After
  <1>4. After(0, a) = [is |-> a.is, ino |-> a.ino, links |-> 0 + a.links]
    BY <1>2 DEF After
  <1>5. 0 + a.links = a.links /\ n + a.links \in Nat
    BY <1>1
  <1> QED BY <1>1, <1>2, <1>3, <1>4, <1>5 DEF Answer

\* Those made one after the other, or of different answers.
LEMMA AfterAfter ==
    ASSUME NEW a \in Answer, NEW n \in Nat, NEW m \in Nat
    PROVE  After(n, After(m, a)) = After(n + m, a)
  <1>1. a.links \in Nat /\ a = [is |-> a.is, ino |-> a.ino, links |-> a.links]
    BY DEF Answer
  <1>2. \A k \in Nat : After(k, a) = [is |-> a.is, ino |-> a.ino, links |-> k + a.links]
    BY <1>1 DEF After
  <1>3. After(n, After(m, a)) = [is |-> a.is, ino |-> a.ino, links |-> n + (m + a.links)]
    <2>1. PICK r : r = After(m, a)
      OBVIOUS
    <2>2. r = [is |-> a.is, ino |-> a.ino, links |-> m + a.links]
      BY <1>2, <2>1
    <2>3. After(n, r) = [is |-> a.is, ino |-> a.ino, links |-> n + (m + a.links)]
      BY ONLY <2>2 DEF After
    <2> QED BY <2>1, <2>3
  <1>4. n + (m + a.links) = (n + m) + a.links /\ n + m \in Nat
    BY <1>1
  <1> QED BY <1>2, <1>3, <1>4

\* An answer where the walk stops.
LEMMA StopIs ==
    ASSUME NEW f, NEW d \in Ino, NEW p
    PROVE  /\ Stop(f, d, p) \in Answer /\ Stop(f, d, p).is # "unfinished"
           /\ p = <<>> => Stop(f, d, p) = Ends("ok", d)
           /\ p # <<>> => Stop(f, d, p).is # "ok"
           /\ Stop(f, d, p).ino = d /\ Stop(f, d, p).links = 0
  BY DEF Stop, Ends, Answer, Kinds

\* Answers are made of answers.
LEMMA ResolvedTyped ==
    ASSUME NEW f \in Tree, NEW w \in [Place -> Answer], NEW d \in Ino, NEW p \in Seq(Names)
    PROVE  Resolved(f, w, d, p) \in Answer
  <1> DEFINE there == w[<<From(f, d, p), Goal(f, d, p).comps>>]
             onward == w[<<there.ino, Tail(p)>>]
  <1>1. Unfinished \in Answer
    BY ResolveAssumption DEF Unfinished, Ends, Answer, Kinds
  <1>2. CASE Stops(f, d, p)
    BY <1>2, ResolvedIs, StopIs
  <1>3. CASE ~Stops(f, d, p) /\ ~AtLink(f, d, p)
    <2>1. <<First(f, d, p), Tail(p)>> \in Place
      BY <1>3, OnPlaces DEF Place
    <2> QED BY <1>3, <2>1, ResolvedIs
  <1>4. CASE AtLink(f, d, p)
    <2>1. ~Stops(f, d, p)
      BY <1>4 DEF AtLink
    <2>2. <<From(f, d, p), Goal(f, d, p).comps>> \in Place /\ Cost(f, d, p) \in Nat
      BY <1>4, <2>1, OnPlaces DEF Place
    <2>3. there \in Answer
      BY <2>2
    <2>4. there.ino \in Ino /\ there.links \in Nat
      BY <2>3 DEF Answer
    <2>5. onward \in Answer
      BY <2>1, <2>4, OnPlaces DEF Place
    <2>6. Cost(f, d, p) + there.links \in Nat
      BY <2>2, <2>4
    <2>7. After(Cost(f, d, p), there) \in Answer /\ After(Cost(f, d, p) + there.links, onward) \in Answer
      BY <2>2, <2>3, <2>5, <2>6, AfterIs
    <2> HIDE DEF there, onward
    <2>8. Resolved(f, w, d, p) \in {Unfinished, After(Cost(f, d, p), there),
                                    After(Cost(f, d, p) + there.links, onward)}
      BY <1>4, <2>1, ResolvedIs DEF there, onward
    <2> QED BY <1>1, <2>7, <2>8
  <1> QED BY <1>2, <1>3, <1>4

\* At a place.
LEMMA DeeperIs ==
    ASSUME NEW f, NEW w, NEW q \in Place
    PROVE  OneDeeper(f, w)[q] = Resolved(f, w, q[1], q[2])
  BY DEF OneDeeper, Place

\* So Walk gives answers, one call deeper those that Resolved makes.
LEMMA WalkTyped ==
    ASSUME NEW f \in Tree, NEW k \in Nat
    PROVE  Walk(f, k) \in [Place -> Answer]
  <1> DEFINE S == {n \in Nat : Walk(f, n) \in [Place -> Answer]}
  <1>1. 0 \in S
    <2>1. Unfinished \in Answer
      BY ResolveAssumption DEF Unfinished, Ends, Answer, Kinds
    <2> QED BY <2>1, WalkSteps DEF NoAnswers, Place
  <1>2. ASSUME NEW n \in Nat, n \in S PROVE n + 1 \in S
    <2>1. Walk(f, n + 1) = OneDeeper(f, Walk(f, n))
      BY WalkSteps
    <2>2. \A q \in Place : Resolved(f, Walk(f, n), q[1], q[2]) \in Answer
      BY <1>2, ResolvedTyped DEF Place
    <2>3. OneDeeper(f, Walk(f, n)) = [q \in Place |-> OneDeeper(f, Walk(f, n))[q]]
      BY DEF OneDeeper, Place
    <2> QED BY <2>1, <2>2, <2>3, DeeperIs
  <1>3. \A n \in Nat : n \in S
    <2> HIDE DEF S
    <2> QED BY <1>1, <1>2, Upwards
  <1> QED BY <1>3

\* The answer, if it is found in k calls.
Within(f, k, d, p, a) == Walk(f, k)[<<d, p>>] = a /\ a.is # "unfinished"

\* The answer of a walk at a link, put together.
ViaLink(f, k, d, p, a) ==
    \E b \in Answer :
       /\ Within(f, k, From(f, d, p), Goal(f, d, p).comps, b)
       /\ IF b.is # "ok" THEN a = After(Cost(f, d, p), b)
          ELSE \E c \in Answer : /\ Within(f, k, b.ino, Tail(p), c)
                                 /\ a = After(Cost(f, d, p) + b.links, c)

\* In none there is none; one call goes on, or follows a link and goes on from
\* where it leads.
LEMMA WithinStep ==
    ASSUME NEW f \in Tree, NEW k \in Nat, NEW d \in Ino, NEW p \in Seq(Names), NEW a
    PROVE  /\ ~Within(f, 0, d, p, a)
           /\ ~Stops(f, d, p) /\ ~AtLink(f, d, p) =>
                 (Within(f, k + 1, d, p, a) <=> Within(f, k, First(f, d, p), Tail(p), a))
           /\ AtLink(f, d, p) => (Within(f, k + 1, d, p, a) <=> ViaLink(f, k, d, p, a))
  <1> DEFINE w == Walk(f, k)
             there == w[<<From(f, d, p), Goal(f, d, p).comps>>]
             onward == w[<<there.ino, Tail(p)>>]
  <1>0. <<d, p>> \in Ino \X Seq(Names)
    OBVIOUS
  <1>1. ~Within(f, 0, d, p, a)
    <2>1. Walk(f, 0)[<<d, p>>] = Unfinished
      BY <1>0, WalkSteps DEF NoAnswers
    <2> QED BY <2>1 DEF Within, Unfinished, Ends
  <1>2. Walk(f, k + 1)[<<d, p>>] = Resolved(f, w, d, p)
    <2>1. <<d, p>> \in Place /\ <<d, p>>[1] = d /\ <<d, p>>[2] = p
      BY <1>0 DEF Place
    <2>2. OneDeeper(f, w)[<<d, p>>] = Resolved(f, w, d, p)
      BY <2>1, DeeperIs
    <2> QED BY <2>2, WalkSteps
  <1>3. w \in [Place -> Answer]
    BY WalkTyped
  <1>4. Within(f, k + 1, d, p, a) <=> (Resolved(f, w, d, p) = a /\ a.is # "unfinished")
    BY <1>2 DEF Within
  <1>6. ~Stops(f, d, p) /\ ~AtLink(f, d, p) =>
           (Within(f, k + 1, d, p, a) <=> Within(f, k, First(f, d, p), Tail(p), a))
    <2> SUFFICES ASSUME ~Stops(f, d, p), ~AtLink(f, d, p)
                 PROVE  Within(f, k + 1, d, p, a) <=> Within(f, k, First(f, d, p), Tail(p), a)
      OBVIOUS
    <2>1. Resolved(f, w, d, p) = w[<<First(f, d, p), Tail(p)>>]
      BY ResolvedIs
    <2> QED BY <1>4, <2>1 DEF Within
  <1>7. ASSUME AtLink(f, d, p)
        PROVE  Within(f, k + 1, d, p, a) <=> ViaLink(f, k, d, p, a)
    <2>1. ~Stops(f, d, p)
      BY <1>7 DEF AtLink
    <2>2. <<From(f, d, p), Goal(f, d, p).comps>> \in Place /\ Cost(f, d, p) \in Nat
      BY <1>7, <2>1, OnPlaces DEF Place
    <2>3. there \in Answer
      BY <1>3, <2>2
    <2>4. there.ino \in Ino /\ there.links \in Nat
      BY <2>3 DEF Answer
    <2>5. onward \in Answer
      BY <1>3, <2>1, <2>4, OnPlaces DEF Place
    <2>6. /\ After(Cost(f, d, p), there).is = there.is
          /\ After(Cost(f, d, p) + there.links, onward).is = onward.is
      <3>1. Cost(f, d, p) + there.links \in Nat
        BY <2>2, <2>4
      <3> QED BY <2>2, <2>3, <2>5, <3>1, AfterIs
    <2>7. Resolved(f, w, d, p) =
             IF there.is = "unfinished" THEN Unfinished
             ELSE IF there.is # "ok" THEN After(Cost(f, d, p), there)
             ELSE IF onward.is = "unfinished" THEN Unfinished
             ELSE After(Cost(f, d, p) + there.links, onward)
      BY <1>7, <2>1, ResolvedIs
    <2>8. \A b : Within(f, k, From(f, d, p), Goal(f, d, p).comps, b) <=> b = there /\ there.is # "unfinished"
      BY DEF Within
    <2>9. \A c : Within(f, k, there.ino, Tail(p), c) <=> c = onward /\ onward.is # "unfinished"
      BY DEF Within
    <2>10. Unfinished.is = "unfinished"
      BY DEF Unfinished, Ends
    <2> HIDE DEF there, onward, w
    <2>11. CASE there.is = "unfinished"
      BY <1>4, <2>7, <2>8, <2>10, <2>11 DEF ViaLink
    <2>12. CASE there.is # "unfinished" /\ there.is # "ok"
      BY <1>4, <2>3, <2>6, <2>7, <2>8, <2>12 DEF ViaLink
    <2>13. CASE there.is = "ok"
      BY <1>4, <2>3, <2>5, <2>6, <2>7, <2>8, <2>9, <2>10, <2>13 DEF ViaLink
    <2> QED BY <2>11, <2>12, <2>13
  <1> QED BY <1>1, <1>6, <1>7

\* The same, case by case.
LEMMA WithinNone ==
    ASSUME NEW f \in Tree, NEW d \in Ino, NEW p \in Seq(Names), NEW a
    PROVE  ~Within(f, 0, d, p, a)
  <1>1. 0 \in Nat
    OBVIOUS
  <1> QED BY <1>1, WithinStep

\* Where the walk stops.
LEMMA WithinStop ==
    ASSUME NEW f \in Tree, NEW k \in Nat, NEW d \in Ino, NEW p \in Seq(Names), NEW a,
           Stops(f, d, p)
    PROVE  Within(f, k + 1, d, p, a) <=> a = Stop(f, d, p)
  <1> DEFINE w == Walk(f, k)
  <1>1. <<d, p>> \in Place /\ <<d, p>>[1] = d /\ <<d, p>>[2] = p
    BY DEF Place
  <1>2. OneDeeper(f, w)[<<d, p>>] = Stop(f, d, p)
    <2>1. OneDeeper(f, w)[<<d, p>>] = Resolved(f, w, d, p)
      BY <1>1, DeeperIs
    <2>2. Resolved(f, w, d, p) = Stop(f, d, p)
      BY ResolvedIs
    <2> QED BY <2>1, <2>2
  <1>3. Walk(f, k + 1)[<<d, p>>] = Stop(f, d, p)
    BY <1>2, WalkSteps
  <1>4. Stop(f, d, p).is # "unfinished"
    BY StopIs
  <1> QED BY <1>3, <1>4 DEF Within

\* Where it goes on.
LEMMA WithinOn ==
    ASSUME NEW f \in Tree, NEW k \in Nat, NEW d \in Ino, NEW p \in Seq(Names), NEW a,
           ~Stops(f, d, p), ~AtLink(f, d, p)
    PROVE  Within(f, k + 1, d, p, a) <=> Within(f, k, First(f, d, p), Tail(p), a)
  BY WithinStep

\* Where it follows a link.
LEMMA WithinLink ==
    ASSUME NEW f \in Tree, NEW k \in Nat, NEW d \in Ino, NEW p \in Seq(Names), NEW a,
           AtLink(f, d, p)
    PROVE  Within(f, k + 1, d, p, a) <=> ViaLink(f, k, d, p, a)
  BY WithinStep

\* An answer that is found is found with more calls too.
LEMMA MoreCalls ==
    ASSUME NEW f \in Tree, NEW k \in Nat, NEW m \in Nat, k <= m,
           NEW d \in Ino, NEW p \in Seq(Names), NEW a, Within(f, k, d, p, a)
    PROVE  Within(f, m, d, p, a)
  <1> DEFINE Kept(n) == \A e \in Ino, q \in Seq(Names), b \in Answer :
                           Within(f, n, e, q, b) => Within(f, n + 1, e, q, b)
             S == {n \in Nat : Kept(n)}
  <1>1. 0 \in S
    BY WithinNone
  <1>2. ASSUME NEW n \in Nat, n \in S PROVE n + 1 \in S
    <2> SUFFICES ASSUME NEW e \in Ino, NEW q \in Seq(Names), NEW b \in Answer,
                        Within(f, n + 1, e, q, b)
                 PROVE  Within(f, (n + 1) + 1, e, q, b)
      OBVIOUS
    <2>0. n + 1 \in Nat /\ Kept(n)
      BY <1>2
    <2>1. CASE Stops(f, e, q)
      <3>1. b = Stop(f, e, q)
        BY <2>1, WithinStop
      <3> QED BY <2>0, <2>1, <3>1, WithinStop
    <2>2. CASE ~Stops(f, e, q) /\ ~AtLink(f, e, q)
      <3>1. Within(f, n, First(f, e, q), Tail(q), b)
        BY <2>2, WithinOn
      <3>2. Within(f, n + 1, First(f, e, q), Tail(q), b)
        BY <2>0, <2>2, <3>1, OnPlaces
      <3> QED BY <2>0, <2>2, <3>2, WithinOn
    <2>3. CASE AtLink(f, e, q)
      <3>0. ~Stops(f, e, q)
        BY <2>3 DEF AtLink
      <3>1. PICK c \in Answer :
               /\ Within(f, n, From(f, e, q), Goal(f, e, q).comps, c)
               /\ IF c.is # "ok" THEN b = After(Cost(f, e, q), c)
                  ELSE \E x \in Answer : /\ Within(f, n, c.ino, Tail(q), x)
                                         /\ b = After(Cost(f, e, q) + c.links, x)
        <4>1. ViaLink(f, n, e, q, b)
          BY <2>3, WithinLink
        <4> QED BY <4>1 DEF ViaLink
      <3>2. Within(f, n + 1, From(f, e, q), Goal(f, e, q).comps, c)
        BY <2>0, <2>3, <3>0, <3>1, OnPlaces
      <3>3. c.ino \in Ino
        BY DEF Answer
      <3>4. \A x \in Answer : Within(f, n, c.ino, Tail(q), x) => Within(f, n + 1, c.ino, Tail(q), x)
        BY <2>0, <3>0, <3>3, OnPlaces
      <3>5. ViaLink(f, n + 1, e, q, b)
        BY <3>1, <3>2, <3>4 DEF ViaLink
      <3> QED BY <2>0, <2>3, <3>5, WithinLink
    <2> QED BY <2>1, <2>2, <2>3
  <1>3. \A n \in Nat : Kept(n)
    <2>1. \A n \in Nat : n \in S
      <3> HIDE DEF S
      <3> QED BY <1>1, <1>2, Upwards
    <2> QED BY <2>1
  <1>4. a \in Answer
    <2>1. <<d, p>> \in Place
      BY DEF Place
    <2> QED BY <2>1, WalkTyped DEF Within
  <1> DEFINE T == {n \in Nat : Within(f, k + n, d, p, a)}
  <1>5. 0 \in T
    OBVIOUS
  <1>6. ASSUME NEW n \in Nat, n \in T PROVE n + 1 \in T
    <2>1. k + n \in Nat /\ (k + n) + 1 = k + (n + 1)
      OBVIOUS
    <2>2. Within(f, (k + n) + 1, d, p, a)
      BY <1>3, <1>4, <1>6, <2>1
    <2> QED BY <2>1, <2>2
  <1>7. \A n \in Nat : n \in T
    <2> HIDE DEF T
    <2> QED BY <1>5, <1>6, Upwards
  <1>8. m - k \in Nat /\ k + (m - k) = m
    OBVIOUS
  <1> QED BY <1>7, <1>8

\* The answer, in however many calls.
Meets(f, d, p, a) == \E k \in Nat : Within(f, k, d, p, a)

\* It is one.
LEMMA MeetsAnswer ==
    ASSUME NEW f \in Tree, NEW d \in Ino, NEW p \in Seq(Names), NEW a, Meets(f, d, p, a)
    PROVE  a \in Answer
  <1>1. <<d, p>> \in Place
    BY DEF Place
  <1> QED BY <1>1, WalkTyped DEF Meets, Within

\* One that is met is met after a first call.
LEMMA MeetsCall ==
    ASSUME NEW f \in Tree, NEW d \in Ino, NEW p \in Seq(Names), NEW a
    PROVE  Meets(f, d, p, a) <=> \E k \in Nat : Within(f, k + 1, d, p, a)
  <1>1. ASSUME NEW k \in Nat, Within(f, k, d, p, a)
        PROVE  \E j \in Nat : Within(f, j + 1, d, p, a)
    <2>1. k # 0
      BY <1>1, WithinNone
    <2>2. k - 1 \in Nat /\ (k - 1) + 1 = k
      BY <2>1
    <2> QED BY <1>1, <2>2
  <1>2. \A k \in Nat : k + 1 \in Nat
    OBVIOUS
  <1> QED BY <1>1, <1>2 DEF Meets

\* Where the walk stops.
LEMMA MeetsStop ==
    ASSUME NEW f \in Tree, NEW d \in Ino, NEW p \in Seq(Names), NEW a, Stops(f, d, p)
    PROVE  Meets(f, d, p, a) <=> a = Stop(f, d, p)
  <1>1. \A k \in Nat : Within(f, k + 1, d, p, a) <=> a = Stop(f, d, p)
    BY WithinStop
  <1>2. 0 \in Nat
    OBVIOUS
  <1> QED BY <1>1, <1>2, MeetsCall

\* Where it goes on.
LEMMA MeetsOn ==
    ASSUME NEW f \in Tree, NEW d \in Ino, NEW p \in Seq(Names), NEW a,
           ~Stops(f, d, p), ~AtLink(f, d, p)
    PROVE  Meets(f, d, p, a) <=> Meets(f, First(f, d, p), Tail(p), a)
  <1>1. \A k \in Nat : Within(f, k + 1, d, p, a) <=> Within(f, k, First(f, d, p), Tail(p), a)
    BY WithinOn
  <1>2. Meets(f, d, p, a) <=> \E k \in Nat : Within(f, k + 1, d, p, a)
    BY MeetsCall
  <1> QED BY <1>1, <1>2 DEF Meets

\* Where it follows a link that leads nowhere.
LEMMA MeetsLinkLost ==
    ASSUME NEW f \in Tree, NEW d \in Ino, NEW p \in Seq(Names), AtLink(f, d, p),
           NEW b, Meets(f, From(f, d, p), Goal(f, d, p).comps, b), b.is # "ok"
    PROVE  Meets(f, d, p, After(Cost(f, d, p), b))
  <1>1. ~Stops(f, d, p)
    BY DEF AtLink
  <1>2. b \in Answer
    BY <1>1, OnPlaces, MeetsAnswer
  <1>3. PICK k \in Nat : Within(f, k, From(f, d, p), Goal(f, d, p).comps, b)
    BY DEF Meets
  <1>4. ViaLink(f, k, d, p, After(Cost(f, d, p), b))
    BY <1>2, <1>3 DEF ViaLink
  <1>5. Within(f, k + 1, d, p, After(Cost(f, d, p), b))
    BY <1>4, WithinLink
  <1> QED BY <1>5, MeetsCall

\* And one that leads somewhere.
LEMMA MeetsLinkFound ==
    ASSUME NEW f \in Tree, NEW d \in Ino, NEW p \in Seq(Names), AtLink(f, d, p),
           NEW b, Meets(f, From(f, d, p), Goal(f, d, p).comps, b), b.is = "ok",
           NEW c, Meets(f, b.ino, Tail(p), c)
    PROVE  Meets(f, d, p, After(Cost(f, d, p) + b.links, c))
  <1>1. ~Stops(f, d, p)
    BY DEF AtLink
  <1>2. From(f, d, p) \in Ino /\ Goal(f, d, p).comps \in Seq(Names) /\ Tail(p) \in Seq(Names)
    BY <1>1, OnPlaces
  <1>3. b \in Answer
    BY <1>2, MeetsAnswer
  <1>4. b.ino \in Ino
    BY <1>3 DEF Answer
  <1>5. c \in Answer
    BY <1>2, <1>4, MeetsAnswer
  <1>6. PICK k \in Nat : Within(f, k, From(f, d, p), Goal(f, d, p).comps, b)
    BY DEF Meets
  <1>7. PICK j \in Nat : Within(f, j, b.ino, Tail(p), c)
    BY DEF Meets
  <1>8. k + j \in Nat /\ k <= k + j /\ j <= k + j
    OBVIOUS
  <1>9. Within(f, k + j, From(f, d, p), Goal(f, d, p).comps, b)
    BY <1>2, <1>6, <1>8, MoreCalls
  <1>10. Within(f, k + j, b.ino, Tail(p), c)
    BY <1>2, <1>4, <1>7, <1>8, MoreCalls
  <1>11. ViaLink(f, k + j, d, p, After(Cost(f, d, p) + b.links, c))
    BY <1>3, <1>5, <1>9, <1>10 DEF ViaLink
  <1>12. Within(f, (k + j) + 1, d, p, After(Cost(f, d, p) + b.links, c))
    BY <1>8, <1>11, WithinLink
  <1> QED BY <1>8, <1>12, MeetsCall

\* There is no other answer at a link.
LEMMA MeetsLink ==
    ASSUME NEW f \in Tree, NEW d \in Ino, NEW p \in Seq(Names), AtLink(f, d, p),
           NEW a, Meets(f, d, p, a)
    PROVE  \E b \in Answer :
              /\ Meets(f, From(f, d, p), Goal(f, d, p).comps, b)
              /\ IF b.is # "ok" THEN a = After(Cost(f, d, p), b)
                 ELSE \E c \in Answer : /\ Meets(f, b.ino, Tail(p), c)
                                        /\ a = After(Cost(f, d, p) + b.links, c)
  <1>1. PICK k \in Nat : Within(f, k + 1, d, p, a)
    BY MeetsCall
  <1>2. ViaLink(f, k, d, p, a)
    BY <1>1, WithinLink
  <1> QED BY <1>2 DEF ViaLink, Meets

-----------------------------------------------------------------------------
(* A path is walked as its first part, and then the rest from where that   *)
(* leads: what splicing a target into a path comes to.                     *)

\* Two paths, one behind the other.
LEMMA CatIs ==
    ASSUME NEW u \in Seq(Names), NEW p \in Seq(Names)
    PROVE  /\ u \o p \in Seq(Names)
           /\ u = <<>> => u \o p = p
           /\ u # <<>> => /\ u \o p # <<>>
                         /\ Head(u \o p) = Head(u)
                         /\ Tail(u \o p) = Tail(u) \o p
                         /\ Tail(u) \in Seq(Names)
  <1>1. u \o p \in Seq(Names)
    OBVIOUS
  <1>2. CASE u = <<>>
    BY <1>2
  <1>3. CASE u # <<>>
    <2>1. Len(u \o p) = Len(u) + Len(p) /\ Len(u) \in Nat \ {0} /\ Len(p) \in Nat
      BY <1>3
    <2>2. \A j \in 1 .. Len(u) + Len(p) :
             (u \o p)[j] = IF j <= Len(u) THEN u[j] ELSE p[j - Len(u)]
      OBVIOUS
    <2>3. u \o p # <<>> /\ Head(u \o p) = Head(u)
      BY <1>3, <2>1, <2>2
    <2>4. Tail(u) \in Seq(Names) /\ Len(Tail(u)) = Len(u) - 1
      BY <1>3
    <2>5. Tail(u \o p) \in Seq(Names) /\ Len(Tail(u \o p)) = Len(u) + Len(p) - 1
      BY <1>1, <2>1, <2>3
    <2>6. Tail(u) \o p \in Seq(Names) /\ Len(Tail(u) \o p) = Len(u) + Len(p) - 1
      BY <2>1, <2>4
    <2>7. \A j \in 1 .. Len(u) + Len(p) - 1 : Tail(u \o p)[j] = (Tail(u) \o p)[j]
      <3> SUFFICES ASSUME NEW j \in 1 .. Len(u) + Len(p) - 1
                   PROVE  Tail(u \o p)[j] = (Tail(u) \o p)[j]
        OBVIOUS
      <3>1. Tail(u \o p)[j] = (u \o p)[j + 1]
        BY <1>1, <2>1, <2>3
      <3>2. (u \o p)[j + 1] = IF j + 1 <= Len(u) THEN u[j + 1] ELSE p[(j + 1) - Len(u)]
        BY <2>1, <2>2
      <3>3. (Tail(u) \o p)[j] = IF j <= Len(u) - 1 THEN Tail(u)[j] ELSE p[j - (Len(u) - 1)]
        BY <2>1, <2>4
      <3>4. j <= Len(u) - 1 => Tail(u)[j] = u[j + 1]
        BY <1>3, <2>4
      <3>5. (j + 1) - Len(u) = j - (Len(u) - 1) /\ (j + 1 <= Len(u) <=> j <= Len(u) - 1)
        BY <2>1
      <3> QED BY <3>1, <3>2, <3>3, <3>4, <3>5
    <2>8. Tail(u \o p) = Tail(u) \o p
      BY <2>5, <2>6, <2>7, SeqEqual
    <2> QED BY <1>1, <1>3, <2>3, <2>4, <2>8
  <1> QED BY <1>1, <1>2, <1>3

\* A walk sees the first part first.
LEMMA SeenFirst ==
    ASSUME NEW f, NEW d, NEW u \in Seq(Names), NEW p \in Seq(Names), u # <<>>
    PROVE  /\ Stops(f, d, u \o p) <=> Stops(f, d, u)
           /\ Stop(f, d, u \o p) = Stop(f, d, u)
           /\ AtLink(f, d, u \o p) <=> AtLink(f, d, u)
           /\ First(f, d, u \o p) = First(f, d, u) /\ Goal(f, d, u \o p) = Goal(f, d, u)
           /\ From(f, d, u \o p) = From(f, d, u) /\ Cost(f, d, u \o p) = Cost(f, d, u)
  <1>1. u \o p # <<>> /\ Head(u \o p) = Head(u)
    BY CatIs
  <1> QED BY <1>1 DEF Stops, Stop, AtLink, First, Goal, From, Cost

\* The first part, and then the rest.
Through(f, d, u, p, a) ==
    \E b \in Answer :
       /\ Meets(f, d, u, b)
       /\ IF b.is # "ok" THEN a = b
          ELSE \E c \in Answer : Meets(f, b.ino, p, c) /\ a = After(b.links, c)

\* What the whole of a path meets when its first part meets b.
JoinsTo(f, d, u, p, b) ==
    /\ b.is # "ok" => Meets(f, d, u \o p, b)
    /\ b.is = "ok" => \A c \in Answer : Meets(f, b.ino, p, c) => Meets(f, d, u \o p, After(b.links, c))

\* The cases of it: the first part stops at once,
LEMMA JoinStop ==
    ASSUME NEW f \in Tree, NEW d \in Ino, NEW u \in Seq(Names), NEW p \in Seq(Names),
           Stops(f, d, u)
    PROVE  JoinsTo(f, d, u, p, Stop(f, d, u))
  <1>1. CASE u = <<>>
    <2>1. Stop(f, d, u) = Ends("ok", d) /\ Ends("ok", d).is = "ok"
             /\ Ends("ok", d).ino = d /\ Ends("ok", d).links = 0
      BY <1>1, StopIs DEF Ends
    <2>2. u \o p = p
      BY <1>1, CatIs
    <2>3. \A c \in Answer : After(0, c) = c
      BY AfterIs
    <2> QED BY <2>1, <2>2, <2>3 DEF JoinsTo
  <1>2. CASE u # <<>>
    <2>1. Stop(f, d, u).is # "ok"
      BY <1>2, StopIs
    <2>2. Stops(f, d, u \o p) /\ Stop(f, d, u \o p) = Stop(f, d, u)
      BY <1>2, SeenFirst
    <2>3. u \o p \in Seq(Names)
      BY CatIs
    <2>4. Meets(f, d, u \o p, Stop(f, d, u))
      BY <2>2, <2>3, MeetsStop
    <2> QED BY <2>1, <2>4 DEF JoinsTo
  <1> QED BY <1>1, <1>2

\* goes on,
LEMMA JoinOn ==
    ASSUME NEW f \in Tree, NEW d \in Ino, NEW u \in Seq(Names), NEW p \in Seq(Names),
           ~Stops(f, d, u), ~AtLink(f, d, u),
           NEW b, JoinsTo(f, First(f, d, u), Tail(u), p, b)
    PROVE  JoinsTo(f, d, u, p, b)
  <1>1. u # <<>>
    BY DEF Stops
  <1>2. u \o p \in Seq(Names) /\ Tail(u \o p) = Tail(u) \o p
    BY <1>1, CatIs
  <1>3. ~Stops(f, d, u \o p) /\ ~AtLink(f, d, u \o p) /\ First(f, d, u \o p) = First(f, d, u)
    BY <1>1, SeenFirst
  <1>4. \A a : Meets(f, First(f, d, u), Tail(u) \o p, a) => Meets(f, d, u \o p, a)
    <2> DEFINE q == u \o p
    <2>1. q \in Seq(Names) /\ ~Stops(f, d, q) /\ ~AtLink(f, d, q)
      BY <1>2, <1>3
    <2>2. First(f, d, q) = First(f, d, u) /\ Tail(q) = Tail(u) \o p
      BY <1>2, <1>3
    <2> HIDE DEF q
    <2>3. \A a : Meets(f, d, q, a) <=> Meets(f, First(f, d, q), Tail(q), a)
      BY <2>1, MeetsOn
    <2>4. \A a : Meets(f, First(f, d, u), Tail(u) \o p, a) => Meets(f, d, q, a)
      BY <2>2, <2>3
    <2> QED BY <2>4 DEF q
  <1> QED BY <1>4 DEF JoinsTo

\* or follows a link, to b and from there to c.
LEMMA JoinLink ==
    ASSUME NEW f \in Tree, NEW d \in Ino, NEW u \in Seq(Names), NEW p \in Seq(Names),
           AtLink(f, d, u),
           NEW b \in Answer, Meets(f, From(f, d, u), Goal(f, d, u).comps, b), b.is = "ok",
           NEW c \in Answer, JoinsTo(f, b.ino, Tail(u), p, c)
    PROVE  JoinsTo(f, d, u, p, After(Cost(f, d, u) + b.links, c))
  <1> DEFINE n == Cost(f, d, u) + b.links
  <1>1. ~Stops(f, d, u) /\ u # <<>>
    BY DEF AtLink, Stops
  <1>2. u \o p \in Seq(Names) /\ Tail(u \o p) = Tail(u) \o p
    BY <1>1, CatIs
  <1>3. /\ AtLink(f, d, u \o p) /\ Goal(f, d, u \o p) = Goal(f, d, u)
        /\ From(f, d, u \o p) = From(f, d, u) /\ Cost(f, d, u \o p) = Cost(f, d, u)
    BY <1>1, SeenFirst
  <1>4. \A a : Meets(f, b.ino, Tail(u) \o p, a) => Meets(f, d, u \o p, After(n, a))
    BY <1>2, <1>3, MeetsLinkFound
  <1>5. Cost(f, d, u) \in Nat /\ b.links \in Nat /\ c.links \in Nat
    BY <1>1, OnPlaces DEF Answer
  <1>6. n \in Nat
    BY <1>5
  <1> HIDE DEF n
  <1>7. After(n, c).is = c.is /\ After(n, c).ino = c.ino /\ After(n, c).links = n + c.links
    BY <1>6, AfterIs
  <1>8. c.is # "ok" => Meets(f, d, u \o p, After(n, c))
    BY <1>4 DEF JoinsTo
  <1>9. ASSUME c.is = "ok", NEW a \in Answer, Meets(f, c.ino, p, a)
        PROVE  Meets(f, d, u \o p, After(n + c.links, a))
    <2>1. Meets(f, b.ino, Tail(u) \o p, After(c.links, a))
      BY <1>9 DEF JoinsTo
    <2>2. Meets(f, d, u \o p, After(n, After(c.links, a)))
      BY <1>4, <2>1
    <2> QED BY <1>5, <1>6, <2>2, AfterAfter
  <1>10. JoinsTo(f, d, u, p, After(n, c))
    BY <1>7, <1>8, <1>9 DEF JoinsTo
  <1> QED BY <1>10 DEF n

\* So the whole of a path meets what follows from its two parts.
LEMMA Joins ==
    ASSUME NEW f \in Tree, NEW d \in Ino, NEW u \in Seq(Names), NEW p \in Seq(Names),
           NEW b, Meets(f, d, u, b)
    PROVE  JoinsTo(f, d, u, p, b)
  <1> DEFINE Holds(n) == \A e \in Ino, q \in Seq(Names), x \in Answer :
                            Within(f, n, e, q, x) => JoinsTo(f, e, q, p, x)
             S == {n \in Nat : Holds(n)}
  <1>1. 0 \in S
    BY WithinNone
  <1>2. ASSUME NEW n \in Nat, n \in S PROVE n + 1 \in S
    <2> SUFFICES ASSUME NEW e \in Ino, NEW q \in Seq(Names), NEW x \in Answer,
                        Within(f, n + 1, e, q, x)
                 PROVE  JoinsTo(f, e, q, p, x)
      OBVIOUS
    <2>0. Holds(n)
      BY <1>2
    <2>1. CASE Stops(f, e, q)
      <3>1. x = Stop(f, e, q)
        BY <2>1, WithinStop
      <3> QED BY <2>1, <3>1, JoinStop
    <2>2. CASE ~Stops(f, e, q) /\ ~AtLink(f, e, q)
      <3>1. Within(f, n, First(f, e, q), Tail(q), x)
        BY <2>2, WithinOn
      <3>2. First(f, e, q) \in Ino /\ Tail(q) \in Seq(Names)
        BY <2>2, OnPlaces
      <3>3. JoinsTo(f, First(f, e, q), Tail(q), p, x)
        BY <2>0, <3>1, <3>2
      <3> QED BY <2>2, <3>3, JoinOn
    <2>3. CASE AtLink(f, e, q)
      <3>0. ~Stops(f, e, q) /\ q # <<>>
        BY <2>3 DEF AtLink, Stops
      <3>1. Tail(q) \in Seq(Names)
        BY <3>0, OnPlaces
      <3>2. ViaLink(f, n, e, q, x)
        BY <2>3, WithinLink
      <3>3. PICK y \in Answer :
               /\ Within(f, n, From(f, e, q), Goal(f, e, q).comps, y)
               /\ IF y.is # "ok" THEN x = After(Cost(f, e, q), y)
                  ELSE \E z \in Answer : /\ Within(f, n, y.ino, Tail(q), z)
                                         /\ x = After(Cost(f, e, q) + y.links, z)
        BY <3>2 DEF ViaLink
      <3>4. Meets(f, From(f, e, q), Goal(f, e, q).comps, y)
        BY <3>3 DEF Meets
      <3>5. CASE y.is # "ok"
        <4>1. q \o p \in Seq(Names)
          BY CatIs
        <4>2. /\ AtLink(f, e, q \o p) /\ Goal(f, e, q \o p) = Goal(f, e, q)
              /\ From(f, e, q \o p) = From(f, e, q) /\ Cost(f, e, q \o p) = Cost(f, e, q)
          BY <2>3, <3>0, SeenFirst
        <4>3. Meets(f, e, q \o p, After(Cost(f, e, q), y))
          BY <3>4, <3>5, <4>1, <4>2, MeetsLinkLost
        <4>4. Cost(f, e, q) \in Nat
          BY <2>3, <3>0, OnPlaces
        <4>5. x = After(Cost(f, e, q), y) /\ x.is # "ok"
          BY <3>3, <3>5, <4>4, AfterIs
        <4> QED BY <4>3, <4>5 DEF JoinsTo
      <3>6. CASE y.is = "ok"
        <4>1. PICK z \in Answer : Within(f, n, y.ino, Tail(q), z) /\ x = After(Cost(f, e, q) + y.links, z)
          BY <3>3, <3>6
        <4>2. y.ino \in Ino
          BY DEF Answer
        <4>3. JoinsTo(f, y.ino, Tail(q), p, z)
          BY <2>0, <3>1, <4>1, <4>2
        <4> QED BY <2>3, <3>4, <3>6, <4>1, <4>3, JoinLink
      <3> QED BY <3>5, <3>6
    <2> QED BY <2>1, <2>2, <2>3
  <1>3. \A n \in Nat : Holds(n)
    <2>1. \A n \in Nat : n \in S
      <3> HIDE DEF S
      <3> QED BY <1>1, <1>2, Upwards
    <2> QED BY <2>1
  <1>4. b \in Answer
    BY MeetsAnswer
  <1> QED BY <1>3, <1>4 DEF Meets

\* And it meets nothing else: what it meets comes from its first part, and the
\* rest from there.
LEMMA Splits ==
    ASSUME NEW f \in Tree, NEW d \in Ino, NEW u \in Seq(Names), NEW p \in Seq(Names),
           NEW a, Meets(f, d, u \o p, a)
    PROVE  Through(f, d, u, p, a)
  <1> DEFINE Holds(n) == \A e \in Ino, q \in Seq(Names), x \in Answer :
                            Within(f, n, e, q \o p, x) => Through(f, e, q, p, x)
             S == {n \in Nat : Holds(n)}
  <1>0. \A q \in Seq(Names) : q \o p \in Seq(Names)
    OBVIOUS
  <1>1. 0 \in S
    BY <1>0, WithinNone
  <1>2. ASSUME NEW n \in Nat, n \in S PROVE n + 1 \in S
    <2> SUFFICES ASSUME NEW e \in Ino, NEW q \in Seq(Names), NEW x \in Answer,
                        Within(f, n + 1, e, q \o p, x)
                 PROVE  Through(f, e, q, p, x)
      OBVIOUS
    <2> DEFINE r == q \o p
    <2>0. Holds(n) /\ r \in Seq(Names) /\ Within(f, n + 1, e, r, x)
      BY <1>0, <1>2
    <2>1. CASE q = <<>>
      <3>1. r = p
        BY <2>1, CatIs
      <3>2. Meets(f, e, p, x)
        BY <2>0, <3>1 DEF Meets
      <3>3. Stops(f, e, q) /\ Stop(f, e, q) = Ends("ok", e) /\ Stop(f, e, q) \in Answer
        BY <2>1, StopIs DEF Stops
      <3>4. Meets(f, e, q, Ends("ok", e))
        BY <3>3, MeetsStop
      <3>5. Ends("ok", e).is = "ok" /\ Ends("ok", e).ino = e /\ Ends("ok", e).links = 0
        BY DEF Ends
      <3>6. x = After(0, x)
        BY AfterIs
      <3> QED BY <3>2, <3>3, <3>4, <3>5, <3>6 DEF Through
    <2>2. CASE q # <<>> /\ Stops(f, e, q)
      <3>1. Stops(f, e, r) /\ Stop(f, e, r) = Stop(f, e, q)
        BY <2>2, SeenFirst
      <3>2. x = Stop(f, e, q)
        <4> HIDE DEF r
        <4> QED BY <2>0, <3>1, WithinStop
      <3>3. Meets(f, e, q, x)
        BY <2>2, <3>2, MeetsStop
      <3>4. x.is # "ok"
        BY <2>2, <3>2, StopIs
      <3> QED BY <3>3, <3>4 DEF Through
    <2>3. CASE ~Stops(f, e, q) /\ ~AtLink(f, e, q)
      <3>1. q # <<>>
        BY <2>3 DEF Stops
      <3>2. ~Stops(f, e, r) /\ ~AtLink(f, e, r) /\ First(f, e, r) = First(f, e, q)
        BY <2>3, <3>1, SeenFirst
      <3>3. Tail(r) = Tail(q) \o p
        BY <3>1, CatIs
      <3>4. Within(f, n, First(f, e, r), Tail(r), x)
        <4> HIDE DEF r
        <4> QED BY <2>0, <3>2, WithinOn
      <3>5. First(f, e, q) \in Ino /\ Tail(q) \in Seq(Names)
        BY <2>3, OnPlaces
      <3>6. Through(f, First(f, e, q), Tail(q), p, x)
        BY <2>0, <3>2, <3>3, <3>4, <3>5
      <3>7. \A b : Meets(f, e, q, b) <=> Meets(f, First(f, e, q), Tail(q), b)
        BY <2>3, MeetsOn
      <3> QED BY <3>6, <3>7 DEF Through
    <2>4. CASE AtLink(f, e, q)
      <3>0. ~Stops(f, e, q) /\ q # <<>>
        BY <2>4 DEF AtLink, Stops
      <3>1. /\ AtLink(f, e, r) /\ Goal(f, e, r) = Goal(f, e, q)
            /\ From(f, e, r) = From(f, e, q) /\ Cost(f, e, r) = Cost(f, e, q)
        BY <2>4, <3>0, SeenFirst
      <3>2. Tail(r) = Tail(q) \o p /\ Tail(q) \in Seq(Names)
        BY <3>0, CatIs
      <3>3. ViaLink(f, n, e, r, x)
        <4> HIDE DEF r
        <4> QED BY <2>0, <3>1, WithinLink
      <3>4. PICK b \in Answer :
               /\ Within(f, n, From(f, e, q), Goal(f, e, q).comps, b)
               /\ IF b.is # "ok" THEN x = After(Cost(f, e, q), b)
                  ELSE \E c \in Answer : /\ Within(f, n, b.ino, Tail(q) \o p, c)
                                         /\ x = After(Cost(f, e, q) + b.links, c)
        <4> HIDE DEF r
        <4> QED BY <3>1, <3>2, <3>3 DEF ViaLink
      <3>5. Meets(f, From(f, e, q), Goal(f, e, q).comps, b)
        BY <3>4 DEF Meets
      <3>6. Cost(f, e, q) \in Nat /\ b.links \in Nat /\ b.ino \in Ino
        BY <2>4, <3>0, OnPlaces DEF Answer
      <3>7. CASE b.is # "ok"
        <4>1. x = After(Cost(f, e, q), b) /\ x.is # "ok"
          BY <3>4, <3>6, <3>7, AfterIs
        <4>2. Meets(f, e, q, x)
          BY <2>4, <3>5, <3>7, <4>1, MeetsLinkLost
        <4> QED BY <4>1, <4>2 DEF Through
      <3>8. CASE b.is = "ok"
        <4> DEFINE m == Cost(f, e, q) + b.links
        <4>1. PICK c \in Answer : Within(f, n, b.ino, Tail(q) \o p, c) /\ x = After(m, c)
          BY <3>4, <3>8
        <4>2. Through(f, b.ino, Tail(q), p, c)
          BY <2>0, <3>2, <3>6, <4>1
        <4>3. PICK y \in Answer :
                 /\ Meets(f, b.ino, Tail(q), y)
                 /\ IF y.is # "ok" THEN c = y
                    ELSE \E z \in Answer : Meets(f, y.ino, p, z) /\ c = After(y.links, z)
          BY <4>2 DEF Through
        <4>4. m \in Nat /\ y.links \in Nat
          BY <3>6 DEF Answer
        <4>5. Meets(f, e, q, After(m, y))
          BY <2>4, <3>5, <3>8, <4>3, MeetsLinkFound
        <4> HIDE DEF m
        <4>6. /\ After(m, y) \in Answer /\ After(m, y).is = y.is
              /\ After(m, y).ino = y.ino /\ After(m, y).links = m + y.links
          BY <4>4, AfterIs
        <4>7. CASE y.is # "ok"
          BY <4>1, <4>3, <4>5, <4>6, <4>7 DEF Through
        <4>8. CASE y.is = "ok"
          <5>1. PICK z \in Answer : Meets(f, y.ino, p, z) /\ c = After(y.links, z)
            BY <4>3, <4>8
          <5>2. x = After(m + y.links, z)
            BY <4>1, <4>4, <5>1, AfterAfter
          <5> QED BY <4>5, <4>6, <4>8, <5>1, <5>2 DEF Through
        <4> QED BY <4>7, <4>8
      <3> QED BY <3>7, <3>8
    <2> QED BY <2>1, <2>2, <2>3, <2>4
  <1>3. \A n \in Nat : Holds(n)
    <2>1. \A n \in Nat : n \in S
      <3> HIDE DEF S
      <3> QED BY <1>1, <1>2, Upwards
    <2> QED BY <2>1
  <1>4. a \in Answer
    BY <1>0, MeetsAnswer
  <1> QED BY <1>3, <1>4 DEF Meets

-----------------------------------------------------------------------------
(* A step of resolve leaves the answer as it is, but for the links it has  *)
(* followed on the way.                                                    *)

\* What p meets from d is what q meets from e, and n links more.
Same(f, d, p, n, e, q) ==
    /\ \A a \in Answer : Meets(f, e, q, a) => Meets(f, d, p, After(n, a))
    /\ \A a \in Answer : Meets(f, d, p, a) => \E b \in Answer : Meets(f, e, q, b) /\ a = After(n, b)

\* At a name that is no link,
LEMMA SameOn ==
    ASSUME NEW f \in Tree, NEW d \in Ino, NEW p \in Seq(Names),
           ~Stops(f, d, p), ~AtLink(f, d, p)
    PROVE  Same(f, d, p, 0, First(f, d, p), Tail(p))
  <1>1. \A a : Meets(f, d, p, a) <=> Meets(f, First(f, d, p), Tail(p), a)
    BY MeetsOn
  <1>2. \A a \in Answer : After(0, a) = a
    BY AfterIs
  <1> QED BY <1>1, <1>2 DEF Same

\* at one, with its target in front of the rest,
LEMMA SameLink ==
    ASSUME NEW f \in Tree, NEW d \in Ino, NEW p \in Seq(Names), AtLink(f, d, p)
    PROVE  Same(f, d, p, Cost(f, d, p), From(f, d, p), Goal(f, d, p).comps \o Tail(p))
  <1> DEFINE n == Cost(f, d, p)
             e == From(f, d, p)
             g == Goal(f, d, p).comps
             t == Tail(p)
  <1>1. ~Stops(f, d, p)
    BY DEF AtLink
  <1>2. n \in Nat /\ e \in Ino /\ g \in Seq(Names) /\ t \in Seq(Names)
    BY <1>1, OnPlaces
  <1>3. \A b : Meets(f, e, g, b) /\ b.is # "ok" => Meets(f, d, p, After(n, b))
    BY MeetsLinkLost
  <1>4. \A b, c : Meets(f, e, g, b) /\ b.is = "ok" /\ Meets(f, b.ino, t, c) =>
           Meets(f, d, p, After(n + b.links, c))
    BY MeetsLinkFound
  <1>5. \A a : Meets(f, d, p, a) =>
           \E b \in Answer :
              /\ Meets(f, e, g, b)
              /\ IF b.is # "ok" THEN a = After(n, b)
                 ELSE \E c \in Answer : Meets(f, b.ino, t, c) /\ a = After(n + b.links, c)
    BY MeetsLink
  <1> HIDE DEF n, e, g, t
  <1>6. ASSUME NEW a \in Answer, Meets(f, e, g \o t, a)
        PROVE  Meets(f, d, p, After(n, a))
    <2>1. Through(f, e, g, t, a)
      BY <1>2, <1>6, Splits
    <2>2. PICK b \in Answer :
             /\ Meets(f, e, g, b)
             /\ IF b.is # "ok" THEN a = b
                ELSE \E c \in Answer : Meets(f, b.ino, t, c) /\ a = After(b.links, c)
      BY <2>1 DEF Through
    <2>3. CASE b.is # "ok"
      BY <1>3, <2>2, <2>3
    <2>4. CASE b.is = "ok"
      <3>1. PICK c \in Answer : Meets(f, b.ino, t, c) /\ a = After(b.links, c)
        BY <2>2, <2>4
      <3>2. Meets(f, d, p, After(n + b.links, c))
        BY <1>4, <2>2, <2>4, <3>1
      <3>3. b.links \in Nat
        BY DEF Answer
      <3> QED BY <1>2, <3>1, <3>2, <3>3, AfterAfter
    <2> QED BY <2>3, <2>4
  <1>7. ASSUME NEW a \in Answer, Meets(f, d, p, a)
        PROVE  \E b \in Answer : Meets(f, e, g \o t, b) /\ a = After(n, b)
    <2>1. PICK b \in Answer :
             /\ Meets(f, e, g, b)
             /\ IF b.is # "ok" THEN a = After(n, b)
                ELSE \E c \in Answer : Meets(f, b.ino, t, c) /\ a = After(n + b.links, c)
      BY <1>5, <1>7
    <2>2. JoinsTo(f, e, g, t, b)
      BY <1>2, <2>1, Joins
    <2>3. CASE b.is # "ok"
      BY <2>1, <2>2, <2>3 DEF JoinsTo
    <2>4. CASE b.is = "ok"
      <3>1. PICK c \in Answer : Meets(f, b.ino, t, c) /\ a = After(n + b.links, c)
        BY <2>1, <2>4
      <3>2. b.links \in Nat
        BY DEF Answer
      <3>3. Meets(f, e, g \o t, After(b.links, c)) /\ After(b.links, c) \in Answer
        BY <2>2, <2>4, <3>1, <3>2, AfterIs DEF JoinsTo
      <3>4. a = After(n, After(b.links, c))
        BY <1>2, <3>1, <3>2, AfterAfter
      <3> QED BY <3>3, <3>4
    <2> QED BY <2>3, <2>4
  <1>8. Same(f, d, p, n, e, g \o t)
    BY <1>6, <1>7 DEF Same
  <1> QED BY <1>8 DEF n, e, g, t

\* and step after step.
LEMMA SameThen ==
    ASSUME NEW f, NEW d, NEW p, NEW n \in Nat, NEW e, NEW q, NEW m \in Nat, NEW g, NEW r,
           Same(f, d, p, n, e, q), Same(f, e, q, m, g, r)
    PROVE  Same(f, d, p, n + m, g, r)
  <1>1. \A a \in Answer : After(m, a) \in Answer /\ After(n, After(m, a)) = After(n + m, a)
    BY AfterIs, AfterAfter
  <1>2. ASSUME NEW a \in Answer, Meets(f, g, r, a)
        PROVE  Meets(f, d, p, After(n + m, a))
    <2>1. Meets(f, e, q, After(m, a))
      BY <1>2 DEF Same
    <2>2. Meets(f, d, p, After(n, After(m, a)))
      BY <1>1, <2>1 DEF Same
    <2> QED BY <1>1, <2>2
  <1>3. ASSUME NEW a \in Answer, Meets(f, d, p, a)
        PROVE  \E b \in Answer : Meets(f, g, r, b) /\ a = After(n + m, b)
    <2>1. PICK b \in Answer : Meets(f, e, q, b) /\ a = After(n, b)
      BY <1>3 DEF Same
    <2>2. PICK c \in Answer : Meets(f, g, r, c) /\ b = After(m, c)
      BY <2>1 DEF Same
    <2> QED BY <1>1, <2>1, <2>2
  <1> QED BY <1>2, <1>3 DEF Same

\* What is left to walk.
Left == SubSeq(comps, i, Len(comps))

\* The answer of the path is the answer of what is left, from where the walk is.
OnTheWay ==
    /\ TypeOK
    /\ comps \in Seq(Names)
    /\ fs.kind[cur] = "dir"
    /\ Same(fs, Root, path, depth, cur, Left)

\* A result that says what an answer says.
Tells(r, is, ino) == r # <<"too many levels">> /\ r[1] = is /\ (r[1] = "ok" => r[2] = ino)

\* A result is the answer of the path.
Reached ==
    result \notin {<<>>, <<"i/o error">>} =>
        IF result = <<"too many levels">>
        THEN \A a \in Answer : Meets(fs, Root, path, a) => a.links > MaxLevel
        ELSE \E a \in Answer :
                Meets(fs, Root, path, a) /\ a.links = depth /\ Tells(result, a.is, a.ino)

\* What is left has its name first.
LEMMA LeftIs ==
    ASSUME OnTheWay
    PROVE  /\ Left \in Seq(Names)
           /\ i > Len(comps) => Left = <<>>
           /\ i <= Len(comps) => /\ Left # <<>> /\ Head(Left) = Name /\ Tail(Left) = Rest
                                 /\ Rest \in Seq(Names)
                                 /\ Rest = <<>> <=> i = Len(comps)
  <1>1. comps \in Seq(Names) /\ i \in 1 .. Len(comps) + 1 /\ Len(comps) \in Nat
    BY DEF OnTheWay, TypeOK
  <1>2. CASE i > Len(comps)
    <2>1. Left = <<>>
      BY <1>1, <1>2, SubSeqEmpty DEF Left
    <2> QED BY <1>1, <1>2, <2>1
  <1>3. CASE i <= Len(comps)
    <2>1. i \in 1 .. Len(comps) /\ Len(comps) \in i .. Len(comps)
      BY <1>1, <1>3
    <2>2. Head(Left) = Name /\ Tail(Left) = Rest
      BY <1>1, <2>1, HeadTailOfSubSeq DEF Left, Name, Rest
    <2>3. Left \in Seq(Names) /\ Len(Left) = Len(comps) - i + 1
      <3>1. \A j \in i .. Len(comps) : comps[j] \in Names
        BY <1>1, <2>1
      <3> QED BY <1>1, <1>3, <3>1, SubSeqProperties DEF Left
    <2>4. Left # <<>>
      BY <1>1, <1>3, <2>3
    <2>5. Rest \in Seq(Names) /\ Len(Rest) = Len(comps) - i
      <3>1. Rest \in Seq(Names) /\ Len(Rest) = Len(Left) - 1
        BY <2>2, <2>3, <2>4, HeadTailProperties
      <3> QED BY <1>1, <2>3, <3>1
    <2>6. Rest = <<>> <=> i = Len(comps)
      BY <1>1, <2>1, <2>5, EmptySeq
    <2> QED BY <1>1, <2>1, <2>2, <2>3, <2>4, <2>5, <2>6
  <1> QED BY <1>1, <1>2, <1>3

\* What the walk sees where it is.
LEMMA SeenHere ==
    ASSUME OnTheWay, i <= Len(comps)
    PROVE  /\ Stops(fs, cur, Left) <=> IsCorrupt(Here) \/ ~Has(Here, Name)
           /\ Stop(fs, cur, Left) = Ends(IF IsCorrupt(Here) THEN "corrupt" ELSE "missing", cur)
           /\ First(fs, cur, Left) = Found
           /\ Goal(fs, cur, Left) = fs.target[Found]
           /\ From(fs, cur, Left) = IF fs.target[Found].absolute THEN Root ELSE cur
           /\ Cost(fs, cur, Left) = IF fs.target[Found].absolute THEN 1 ELSE 0
           /\ AtLink(fs, cur, Left) <=>
                 ~IsCorrupt(Here) /\ Has(Here, Name) /\ IsLink(Found)
  <1>1. Left # <<>> /\ Head(Left) = Name
    BY LeftIs
  <1>2. fs.kind[cur] = "dir"
    BY DEF OnTheWay
  <1>3. First(fs, cur, Left) = Found
    BY <1>1 DEF First, Found, Here
  <1>4. Stops(fs, cur, Left) <=> IsCorrupt(Here) \/ ~Has(Here, Name)
    BY <1>1, <1>2 DEF Stops, Here
  <1>5. Stop(fs, cur, Left) = Ends(IF IsCorrupt(Here) THEN "corrupt" ELSE "missing", cur)
    BY <1>1, <1>2 DEF Stop, Here
  <1> QED BY <1>3, <1>4, <1>5 DEF Goal, From, Cost, AtLink, IsLink

\* Where the walk stops, it has its answer.
LEMMA StopReached ==
    ASSUME OnTheWay, Stops(fs, cur, Left), fs' = fs, path' = path, depth' = depth,
           Tells(result', Stop(fs, cur, Left).is, cur)
    PROVE  Reached'
  <1>0. fs \in Tree /\ path \in Seq(Names) /\ cur \in Ino /\ depth \in Nat
    BY ResolveAssumption DEF OnTheWay, TypeOK
  <1>1. /\ Stop(fs, cur, Left) \in Answer /\ Stop(fs, cur, Left).ino = cur
        /\ Stop(fs, cur, Left).links = 0
    BY <1>0, StopIs
  <1>2. Meets(fs, cur, Left, Stop(fs, cur, Left))
    BY <1>0, LeftIs, MeetsStop
  <1>3. PICK a : a = After(depth, Stop(fs, cur, Left))
    OBVIOUS
  <1>4. Meets(fs, Root, path, a)
    BY <1>1, <1>2, <1>3 DEF OnTheWay, Same
  <1>5. /\ a \in Answer /\ a.is = Stop(fs, cur, Left).is /\ a.ino = cur
        /\ a.links = depth + 0
    BY <1>0, <1>1, <1>3, AfterIs
  <1>6. a.links = depth
    BY <1>0, <1>5
  <1>7. result' # <<"too many levels">>
    BY DEF Tells
  <1> QED BY <1>4, <1>5, <1>6, <1>7 DEF Reached

\* At the start nothing is walked yet.
LEMMA InitOnTheWay == Init => OnTheWay /\ Reached
  <1> SUFFICES ASSUME Init PROVE OnTheWay /\ Reached
    OBVIOUS
  <1> USE DEF Init
  <1>1. path \in Seq(Names) /\ Root \in Ino /\ fs.kind[Root] = "dir" /\ MaxLevel \in Nat
    BY ResolveAssumption
  <1>2. TypeOK
    BY <1>1 DEF TypeOK
  <1>3. Left = path
    BY <1>1, SubSeqFull DEF Left
  <1>4. \A a \in Answer : After(0, a) = a
    BY AfterIs
  <1>5. Same(fs, Root, path, 0, Root, path)
    BY <1>4 DEF Same
  <1> QED BY <1>1, <1>2, <1>3, <1>5 DEF OnTheWay, Reached

\* A step that goes on, to where the answer is the same.
LEMMA StaysSame ==
    ASSUME OnTheWay, fs' = fs, path' = path, result' = <<>>,
           comps' \in Seq(Names), i' \in 1 .. Len(comps') + 1,
           cur' \in Ino, fs.kind[cur'] = "dir",
           NEW n \in Nat, depth' = depth + n, depth' <= MaxLevel,
           Same(fs, cur, Left, n, cur', Left')
    PROVE  OnTheWay' /\ Reached'
  <1>1. depth \in Nat /\ MaxLevel \in Nat /\ depth' \in 0 .. MaxLevel
    <2>1. depth \in Nat /\ MaxLevel \in Nat
      BY ResolveAssumption DEF OnTheWay, TypeOK
    <2> QED BY <2>1
  <1>2. Same(fs, Root, path, depth + n, cur', Left')
    BY <1>1, SameThen DEF OnTheWay
  <1>3. OnTheWay'
    BY <1>1, <1>2 DEF OnTheWay, TypeOK
  <1> QED BY <1>3 DEF Reached

\* One that ends, where the walk is.
LEMMA StaysThere ==
    ASSUME OnTheWay, UNCHANGED <<fs, path, where>>
    PROVE  OnTheWay'
  BY DEF OnTheWay, TypeOK, Left, where

\* Where a name leads that is no link, and with what the rest of the path begins.
LEMMA OnwardIs ==
    ASSUME OnTheWay, i <= Len(comps), ~IsCorrupt(Here), Has(Here, Name), ~IsLink(Found)
    PROVE  /\ Found \in Ino
           /\ Same(fs, cur, Left, 0, Found, Rest)
           /\ Name = ".." => fs.kind[Found] = "dir"
  <1>1. fs \in Tree /\ cur \in Ino /\ fs.kind[cur] = "dir"
    BY DEF OnTheWay, TypeOK
  <1>2. Found \in Ino /\ (Name = ".." => fs.kind[Found] = "dir")
    BY <1>1, FoundThere DEF Found, Here
  <1>3. Left \in Seq(Names) /\ Tail(Left) = Rest
    BY LeftIs
  <1>4. ~Stops(fs, cur, Left) /\ ~AtLink(fs, cur, Left) /\ First(fs, cur, Left) = Found
    BY SeenHere
  <1>5. Same(fs, cur, Left, 0, First(fs, cur, Left), Tail(Left))
    BY <1>1, <1>3, <1>4, SameOn
  <1> QED BY <1>2, <1>3, <1>4, <1>5

\* A directory on the way: the next component, from there.
LEMMA WalksOn ==
    ASSUME OnTheWay, i <= Len(comps), ~IsCorrupt(Here), Has(Here, Name),
           fs.kind[Found] = "dir", cur' = Found, i' = i + 1,
           UNCHANGED <<fs, path, comps, depth>>, result' = <<>>
    PROVE  OnTheWay' /\ Reached'
  <1>1. Found \in Ino /\ Same(fs, cur, Left, 0, Found, Rest)
    BY OnwardIs DEF IsLink
  <1>2. Left' = Rest
    BY DEF Left, Rest
  <1>3. comps \in Seq(Names) /\ i \in 1 .. Len(comps) + 1 /\ depth \in 0 .. MaxLevel
    BY DEF OnTheWay, TypeOK
  <1>4. comps' \in Seq(Names) /\ i' \in 1 .. Len(comps') + 1
    BY <1>3
  <1>5. 0 \in Nat /\ depth' = depth + 0 /\ depth' <= MaxLevel
    BY <1>3, ResolveAssumption
  <1> QED BY <1>1, <1>2, <1>4, <1>5, StaysSame

\* A link: its target in front of what is left, from where the target starts.
LEMMA Splice ==
    ASSUME OnTheWay, i <= Len(comps), ~IsCorrupt(Here), Has(Here, Name), IsLink(Found),
           NEW g, g = fs.target[Found],
           cur' = (IF g.absolute THEN Root ELSE cur),
           depth' = depth + (IF g.absolute THEN 1 ELSE 0), depth' <= MaxLevel,
           comps' = g.comps \o Rest, i' = 1,
           fs' = fs, path' = path, result' = <<>>
    PROVE  OnTheWay' /\ Reached'
  <1>1. fs \in Tree /\ cur \in Ino /\ fs.kind[cur] = "dir"
    BY DEF OnTheWay, TypeOK
  <1>2. Found \in Ino
    BY <1>1, FoundThere DEF Found, Here
  <1>3. g.comps \in Seq(Names) /\ Root \in Ino /\ fs.kind[Root] = "dir"
    BY <1>1, <1>2, ResolveAssumption DEF IsLink
  <1>4. Left \in Seq(Names) /\ Tail(Left) = Rest /\ Rest \in Seq(Names)
    BY LeftIs
  <1>5. comps' \in Seq(Names)
    BY <1>3, <1>4
  <1>6. Left' = comps'
    BY <1>5, SubSeqFull DEF Left
  <1>7. /\ AtLink(fs, cur, Left) /\ Goal(fs, cur, Left) = g
        /\ From(fs, cur, Left) = cur' /\ Cost(fs, cur, Left) = IF g.absolute THEN 1 ELSE 0
    BY SeenHere
  <1>8. Same(fs, cur, Left, Cost(fs, cur, Left), From(fs, cur, Left),
             Goal(fs, cur, Left).comps \o Tail(Left))
    BY <1>1, <1>4, <1>7, SameLink
  <1>9. Same(fs, cur, Left, IF g.absolute THEN 1 ELSE 0, cur', Left')
    BY <1>4, <1>6, <1>7, <1>8
  <1>10. cur' \in Ino /\ fs.kind[cur'] = "dir" /\ i' \in 1 .. Len(comps') + 1
    <2>1. Len(comps') \in Nat
      BY <1>5
    <2> QED BY <1>1, <1>3, <2>1
  <1>11. CASE g.absolute
    <2>1. 1 \in Nat /\ Same(fs, cur, Left, 1, cur', Left') /\ depth' = depth + 1
      BY <1>9, <1>11
    <2> QED BY <1>5, <1>10, <2>1, StaysSame
  <1>12. CASE ~g.absolute
    <2>1. 0 \in Nat /\ Same(fs, cur, Left, 0, cur', Left') /\ depth' = depth + 0
      BY <1>9, <1>12
    <2> QED BY <1>5, <1>10, <2>1, StaysSame
  <1> QED BY <1>11, <1>12

\* A path that is turned away leads over more absolute links than are allowed.
LEMMA TurnedAway ==
    ASSUME OnTheWay, i <= Len(comps), ~IsCorrupt(Here), Has(Here, Name), IsLink(Found),
           fs.target[Found].absolute, TooDeep,
           NEW a \in Answer, Meets(fs, Root, path, a)
    PROVE  a.links > MaxLevel
  <1>1. fs \in Tree /\ cur \in Ino /\ depth \in Nat /\ MaxLevel \in Nat /\ depth + 1 > MaxLevel
    BY ResolveAssumption DEF OnTheWay, TypeOK, TooDeep, Level
  <1>2. PICK b \in Answer : Meets(fs, cur, Left, b) /\ a = After(depth, b)
    BY DEF OnTheWay, Same
  <1>3. Left \in Seq(Names) /\ AtLink(fs, cur, Left) /\ Cost(fs, cur, Left) = 1
    BY LeftIs, SeenHere
  <1>4. PICK c \in Answer :
           IF c.is # "ok" THEN b = After(1, c)
           ELSE \E e \in Answer : b = After(1 + c.links, e)
    BY <1>1, <1>2, <1>3, MeetsLink
  <1>5. c.links \in Nat /\ 1 \in Nat /\ 1 + c.links \in Nat
    BY DEF Answer
  <1>6. b.links >= 1
    <2>1. CASE c.is # "ok"
      <3>1. b.links = 1 + c.links
        BY <1>4, <1>5, <2>1, AfterIs
      <3> QED BY <1>5, <3>1
    <2>2. CASE c.is = "ok"
      <3>1. PICK e \in Answer : b = After(1 + c.links, e)
        BY <1>4, <2>2
      <3>2. b.links = (1 + c.links) + e.links /\ e.links \in Nat
        BY <1>5, <3>1, AfterIs DEF Answer
      <3> QED BY <1>5, <3>2
    <2> QED BY <2>1, <2>2
  <1>7. a.links = depth + b.links /\ b.links \in Nat
    BY <1>1, <1>2, AfterIs DEF Answer
  <1> QED BY <1>1, <1>6, <1>7

\* A step that ends the walk with an answer it stops at.
LEMMA EndsStopped ==
    ASSUME OnTheWay, Stops(fs, cur, Left), NEW r, Return(r), Tells(r, Stop(fs, cur, Left).is, cur)
    PROVE  OnTheWay' /\ Reached'
  <1>1. OnTheWay'
    BY StaysThere DEF Return
  <1>2. fs' = fs /\ path' = path /\ depth' = depth /\ result' = r
    BY DEF Return, where
  <1> QED BY <1>1, <1>2, StopReached

\* What a step does to the answer.
LEMMA NextOnTheWay == OnTheWay /\ Reached /\ [Next]_vars => OnTheWay' /\ Reached'
  <1> SUFFICES ASSUME OnTheWay, Reached, [Next]_vars PROVE OnTheWay' /\ Reached'
    OBVIOUS
  <1>1. /\ Tells(<<"missing">>, "missing", cur) /\ Tells(<<"corrupt">>, "corrupt", cur)
        /\ Tells(<<"ok", cur>>, "ok", cur)
    BY DEF Tells
  <1>2. Up => i <= Len(comps) /\ ~IsCorrupt(Here) /\ Name = ".."
    BY DEF Up, Walking
  <1>3. Looking => i <= Len(comps) /\ ~IsCorrupt(Here) /\ Has(Here, Name)
    BY DEF Looking, Walking
  <1>4. ASSUME i <= Len(comps), ~IsCorrupt(Here), ~Has(Here, Name), Return(<<"missing">>)
        PROVE  OnTheWay' /\ Reached'
    <2>1. Stops(fs, cur, Left) /\ Stop(fs, cur, Left).is = "missing"
      BY <1>4, SeenHere DEF Ends
    <2> QED BY <1>1, <1>4, <2>1, EndsStopped
  <1>5. CASE Up
    <2>1. CASE Has(Here, "..")
      <3>1. fs.kind[Found] = "dir"
        <4>1. fs \in Tree /\ cur \in Ino /\ fs.kind[cur] = "dir"
          BY DEF OnTheWay, TypeOK
        <4> QED BY <1>2, <1>5, <2>1, <4>1, FoundThere DEF Found, Here
      <3>2. cur' = Found /\ i' = i + 1 /\ UNCHANGED <<fs, path, comps, depth>> /\ result' = <<>>
        BY <1>5, <2>1 DEF Up, Walking
      <3> QED BY <1>2, <1>5, <2>1, <3>1, <3>2, WalksOn
    <2>2. CASE ~Has(Here, "..")
      <3>1. Return(<<"missing">>)
        BY <1>5, <2>2 DEF Up
      <3> QED BY <1>2, <1>4, <1>5, <2>2, <3>1
    <2> QED BY <2>1, <2>2
  <1>6. CASE Missing
    BY <1>4, <1>6 DEF Missing, Walking
  <1>7. CASE Unlisted
    <2>1. i <= Len(comps) /\ IsCorrupt(Here) /\ Return(<<"corrupt">>)
      BY <1>7 DEF Unlisted, Walking
    <2>2. Stops(fs, cur, Left) /\ Stop(fs, cur, Left).is = "corrupt"
      BY <2>1, SeenHere DEF Ends
    <2> QED BY <1>1, <2>1, <2>2, EndsStopped
  <1>8. CASE FollowAbsolute
    <2>1. IsLink(Found) /\ fs.target[Found].absolute /\ Looking
      BY <1>8 DEF FollowAbsolute
    <2>2. CASE TooDeep
      <3>1. Return(<<"too many levels">>)
        BY <1>8, <2>2 DEF FollowAbsolute
      <3>2. OnTheWay'
        BY <3>1, StaysThere DEF Return
      <3>3. \A a \in Answer : Meets(fs, Root, path, a) => a.links > MaxLevel
        BY <1>3, <2>1, <2>2, TurnedAway
      <3>4. result' = <<"too many levels">> /\ fs' = fs /\ path' = path
        BY <3>1 DEF Return
      <3> QED BY <3>2, <3>3, <3>4 DEF Reached
    <2>3. CASE ~TooDeep
      <3>1. /\ comps' = fs.target[Found].comps \o Rest /\ i' = 1 /\ cur' = Root
            /\ depth' = depth + 1 /\ UNCHANGED <<fs, path, result>>
        BY <1>8, <2>3 DEF FollowAbsolute, RestKept, Level
      <3>2. result' = <<>>
        BY <2>1, <3>1 DEF Looking, Walking
      <3>3. depth + 1 <= MaxLevel
        <4>1. depth \in Nat /\ MaxLevel \in Nat
          BY ResolveAssumption DEF OnTheWay, TypeOK
        <4> QED BY <2>3, <4>1 DEF TooDeep, Level
      <3> QED BY <1>3, <2>1, <3>1, <3>2, <3>3, Splice
    <2> QED BY <2>2, <2>3
  <1>9. CASE FollowRelative
    <2>1. IsLink(Found) /\ ~fs.target[Found].absolute /\ Looking
      BY <1>9 DEF FollowRelative
    <2>2. /\ comps' = fs.target[Found].comps \o Rest /\ i' = 1 /\ cur' = cur
          /\ depth' = depth /\ UNCHANGED <<fs, path, result>>
      BY <1>9 DEF FollowRelative, RestKept, FromHere
    <2>3. result' = <<>>
      BY <2>1, <2>2 DEF Looking, Walking
    <2>4. depth' = depth + 0 /\ depth' <= MaxLevel
      <3>1. depth \in 0 .. MaxLevel /\ MaxLevel \in Nat
        BY ResolveAssumption DEF OnTheWay, TypeOK
      <3> QED BY <2>2, <3>1
    <2> QED BY <1>3, <2>1, <2>2, <2>3, <2>4, Splice
  <1>10. ASSUME Looking, ~IsLink(Found)
         PROVE  /\ Found \in Ino /\ Same(fs, cur, Left, 0, Found, Rest)
                /\ Rest \in Seq(Names) /\ (Rest = <<>> <=> i = Len(comps))
    <2>1. i <= Len(comps) /\ ~IsCorrupt(Here) /\ Has(Here, Name)
      BY <1>3, <1>10
    <2>2. Found \in Ino /\ Same(fs, cur, Left, 0, Found, Rest)
      BY <1>10, <2>1, OnwardIs
    <2> QED BY <2>1, <2>2, LeftIs
  <1>11. ASSUME Looking, ~IsLink(Found), Stops(fs, Found, Rest), NEW r, Return(r),
                Tells(r, Stop(fs, Found, Rest).is, Found)
         PROVE  OnTheWay' /\ Reached'
    <2>1. fs' = fs /\ path' = path /\ depth' = depth /\ result' = r /\ OnTheWay'
      BY <1>11, StaysThere DEF Return, where
    <2>2. fs \in Tree /\ depth \in Nat
      BY ResolveAssumption DEF OnTheWay, TypeOK
    <2>3. Same(fs, Root, path, depth, Found, Rest)
      <3>1. 0 \in Nat /\ depth + 0 = depth
        BY <2>2
      <3>2. Same(fs, Root, path, depth + 0, Found, Rest)
        BY <1>10, <1>11, <2>2, <3>1, SameThen DEF OnTheWay
      <3> QED BY <3>1, <3>2
    <2>4. PICK b : b = Stop(fs, Found, Rest)
      OBVIOUS
    <2>5. b \in Answer /\ b.ino = Found /\ b.links = 0 /\ Meets(fs, Found, Rest, b)
      <3>1. Found \in Ino /\ Rest \in Seq(Names)
        BY <1>10, <1>11
      <3>2. b \in Answer /\ b.ino = Found /\ b.links = 0
        BY <2>4, <3>1, StopIs
      <3>3. Meets(fs, Found, Rest, b)
        BY <1>11, <2>2, <2>4, <3>1, MeetsStop
      <3> QED BY <3>2, <3>3
    <2>6. PICK a : a = After(depth, b)
      OBVIOUS
    <2>7. Meets(fs, Root, path, a)
      BY <2>3, <2>5, <2>6 DEF Same
    <2>8. a \in Answer /\ a.is = b.is /\ a.ino = Found /\ a.links = depth + 0
      BY <2>2, <2>5, <2>6, AfterIs
    <2>9. a.links = depth
      BY <2>2, <2>8
    <2>10. Tells(result', a.is, a.ino) /\ result' # <<"too many levels">>
      BY <1>11, <2>1, <2>4, <2>8 DEF Tells
    <2> QED BY <2>1, <2>7, <2>8, <2>9, <2>10 DEF Reached
  <1>12. CASE Arrive
    <2>1. Looking /\ ~IsLink(Found) /\ i = Len(comps) /\ Return(<<"ok", Found>>)
      BY <1>12 DEF Arrive
    <2>2. Rest = <<>>
      BY <1>10, <2>1
    <2>3. Stops(fs, Found, Rest) /\ Stop(fs, Found, Rest).is = "ok"
      BY <2>2 DEF Stops, Stop, Ends
    <2>4. Tells(<<"ok", Found>>, "ok", Found)
      BY DEF Tells
    <2> QED BY <1>11, <2>1, <2>3, <2>4
  <1>13. CASE Descend
    <2>1. Looking /\ ~IsLink(Found) /\ i < Len(comps)
      BY <1>13 DEF Descend
    <2>2. CASE fs.kind[Found] = "dir"
      <3>1. cur' = Found /\ i' = i + 1 /\ UNCHANGED <<fs, path, comps, depth>> /\ result' = <<>>
        BY <1>13, <2>2 DEF Descend, Looking, Walking
      <3> QED BY <1>3, <2>1, <2>2, <3>1, WalksOn
    <2>3. CASE fs.kind[Found] # "dir"
      <3>1. Return(<<"not a directory">>)
        BY <1>13, <2>3 DEF Descend
      <3>2. Rest # <<>>
        <4>1. i # Len(comps)
          <5>1. Len(comps) \in Nat
            BY DEF OnTheWay
          <5> QED BY <2>1, <5>1
        <4> QED BY <1>10, <2>1, <4>1
      <3>3. Stops(fs, Found, Rest) /\ Stop(fs, Found, Rest).is = "not a directory"
        BY <2>3, <3>2 DEF Stops, Stop, Ends
      <3>4. Tells(<<"not a directory">>, "not a directory", Found)
        BY DEF Tells
      <3> QED BY <1>11, <2>1, <3>1, <3>3, <3>4
    <2> QED BY <2>2, <2>3
  <1>14. CASE StandStill
    <2>1. i > Len(comps) /\ Return(<<"ok", cur>>)
      BY <1>14 DEF StandStill
    <2>2. Left = <<>>
      BY <2>1, LeftIs
    <2>3. Stops(fs, cur, Left) /\ Stop(fs, cur, Left).is = "ok"
      BY <2>2 DEF Stops, Stop, Ends
    <2> QED BY <1>1, <2>1, <2>3, EndsStopped
  <1>15. CASE ReadFails
    <2>1. Return(<<"i/o error">>)
      BY <1>15 DEF ReadFails
    <2> QED BY <2>1, StaysThere DEF Return, Reached
  <1>16. CASE UNCHANGED vars
    <2>1. UNCHANGED <<fs, path, where, result>>
      BY <1>16 DEF vars
    <2> QED BY <2>1, StaysThere DEF Reached, where
  <1> QED BY <1>5, <1>6, <1>7, <1>8, <1>9, <1>12, <1>13, <1>14, <1>15, <1>16
      DEF Next, Step, Answered

\* The number of absolute links that have been followed keeps its limit, and the
\* walk stays inside its path.
THEOREM LevelsCounted == Spec => []TypeOK
  BY InitOnTheWay, NextOnTheWay, PTL DEF Spec, OnTheWay

\* What resolve gives for a path, by splicing link after link into it, is the
\* inode, or the error, that resolving each link to an inode first leads to, over
\* as many absolute links; and what it turns away leads over more of them than
\* are allowed, or nowhere.  The reference answer is looked for at every depth.
THEOREM SplicingIsResolving ==
    ASSUME Depths = Nat
    PROVE  Spec => []AgreesWithWalk
  <1>1. OnTheWay => fs \in Tree /\ path \in Seq(Names) /\ Root \in Ino /\ depth <= MaxLevel
    BY ResolveAssumption DEF OnTheWay, TypeOK
  <1>2. OnTheWay /\ Reached => AgreesWithWalk
    <2> SUFFICES ASSUME OnTheWay, Reached, result \notin {<<>>, <<"i/o error">>}
                 PROVE  IF result = <<"too many levels">>
                        THEN \A k \in Nat : Walk(fs, k)[<<Root, path>>].is # "unfinished" =>
                                               Walk(fs, k)[<<Root, path>>].links > MaxLevel
                        ELSE /\ depth <= MaxLevel
                             /\ \E k \in Nat :
                                   /\ Walk(fs, k)[<<Root, path>>].is = result[1]
                                   /\ Walk(fs, k)[<<Root, path>>].links = depth
                                   /\ result[1] = "ok" => Walk(fs, k)[<<Root, path>>].ino = result[2]
      BY DEF AgreesWithWalk
    <2>1. fs \in Tree /\ path \in Seq(Names) /\ Root \in Ino /\ depth <= MaxLevel
      BY <1>1
    <2>2. CASE result = <<"too many levels">>
      <3> SUFFICES ASSUME NEW k \in Nat, Walk(fs, k)[<<Root, path>>].is # "unfinished"
                   PROVE  Walk(fs, k)[<<Root, path>>].links > MaxLevel
        BY <2>2
      <3>1. PICK a : a = Walk(fs, k)[<<Root, path>>]
        OBVIOUS
      <3>2. Meets(fs, Root, path, a)
        BY <3>1 DEF Meets, Within
      <3>3. a \in Answer
        BY <2>1, <3>2, MeetsAnswer
      <3>4. a.links > MaxLevel
        BY <2>2, <3>2, <3>3 DEF Reached
      <3> QED BY <3>1, <3>4
    <2>3. CASE result # <<"too many levels">>
      <3>1. PICK a \in Answer :
               Meets(fs, Root, path, a) /\ a.links = depth /\ Tells(result, a.is, a.ino)
        BY <2>3 DEF Reached
      <3>2. PICK k \in Nat : Walk(fs, k)[<<Root, path>>] = a
        BY <3>1 DEF Meets, Within
      <3>3. result[1] = a.is /\ (result[1] = "ok" => result[2] = a.ino)
        BY <3>1 DEF Tells
      <3> QED BY <2>1, <2>3, <3>1, <3>2, <3>3
    <2> QED BY <2>2, <2>3
  <1> QED BY <1>2, InitOnTheWay, NextOnTheWay, PTL DEF Spec

\* There is one such answer: whichever depths it is found at, it is the same.
THEOREM OneAnswer ==
    ASSUME NEW f \in Tree, NEW d \in Ino, NEW p \in Seq(Names), NEW k \in Nat, NEW j \in Nat,
           Walk(f, k)[<<d, p>>].is # "unfinished", Walk(f, j)[<<d, p>>].is # "unfinished"
    PROVE  Walk(f, k)[<<d, p>>] = Walk(f, j)[<<d, p>>]
  <1>1. k + j \in Nat /\ k <= k + j /\ j <= k + j
    OBVIOUS
  <1>2. PICK a, b : a = Walk(f, k)[<<d, p>>] /\ b = Walk(f, j)[<<d, p>>]
    OBVIOUS
  <1>3. Within(f, k, d, p, a) /\ Within(f, j, d, p, b)
    BY <1>2 DEF Within
  <1>4. Within(f, k + j, d, p, a) /\ Within(f, k + j, d, p, b)
    BY <1>1, <1>3, MoreCalls
  <1> QED BY <1>2, <1>4 DEF Within

=============================================================================
