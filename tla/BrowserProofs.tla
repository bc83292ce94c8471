---------------------------- MODULE BrowserProofs ----------------------------
(***************************************************************************)
(* Proofs about the browser, for every image, filter, order and sequence   *)
(* of inputs: the table is that of the path, what is selected is seen, and *)
(* what is copied is what the rows showed.                                 *)
(***************************************************************************)
EXTENDS Browser, FiniteSetTheorems, SequenceTheorems, WellFoundedInduction, TLAPS

Row == [name : Name, ino : Nat, ft : Nat, size : Nat]
IsSeq(s) == Len(s) \in Nat /\ s = [k \in 1 .. Len(s) |-> s[k]]

-----------------------------------------------------------------------------
(* Numbers                                                                 *)

\* The smaller of two numbers, as pairs.
Below == {p \in Nat \X Nat : p[1] < p[2]}

\* Some numbers have a least one.
LEMMA LeastOf ==
    ASSUME NEW S \in SUBSET Nat, S # {}
    PROVE  \E n \in S : \A m \in S : n <= m
  <1>1. IsWellFoundedOn(Below, Nat)
    BY NatLessThanWellFounded DEF OpToRel, Below
  <1>2. PICK n \in S : \A m \in S : ~(<<m, n>> \in Below)
    BY <1>1, WFMin
  <1>3. \A m \in S : ~(m < n)
    BY <1>2 DEF Below
  <1>4. \A m \in S : n <= m
    BY <1>3
  <1> QED BY <1>4

\* Min is one of them, and the only one if there is but one.
LEMMA MinIsOne ==
    ASSUME NEW S \in SUBSET Nat, S # {}
    PROVE  Min(S) \in S
  <1>1. PICK n \in S : \A m \in S : n <= m
    BY LeastOf
  <1> QED BY <1>1 DEF Min

-----------------------------------------------------------------------------
(* Sorting                                                                 *)

\* Of any two rows one comes before the other, and so on.
Orders(s, col, asc) ==
    /\ Len(s) \in Nat /\ DOMAIN s = 1 .. Len(s)
    /\ \A j \in DOMAIN s : ~Before(s, col, asc, j, j)
    /\ \A j, k \in DOMAIN s : j # k => Before(s, col, asc, j, k) \/ Before(s, col, asc, k, j)
    /\ \A i, j, k \in DOMAIN s :
          Before(s, col, asc, i, j) /\ Before(s, col, asc, j, k) => Before(s, col, asc, i, k)

PlaceOf(s, col, asc, j) == Cardinality(Earlier(s, col, asc, j)) + 1

\* Every column orders the rows, both ways.
LEMMA KeysOrder ==
    ASSUME NEW s \in Seq(Row), NEW col \in {"type", "size", "name"}, NEW asc \in BOOLEAN
    PROVE  Orders(s, col, asc)
  <1> DEFINE T == DOMAIN s
             key == [j \in T |-> Key(s[j], col)]
  <1>1. Len(s) \in Nat /\ T = 1 .. Len(s) /\ T \subseteq Int /\ \A j \in T : s[j] \in Row
    OBVIOUS
  <1>2. key \in [T -> Nat]
    <2> SUFFICES ASSUME NEW j \in T PROVE Key(s[j], col) \in Nat
      OBVIOUS
    <2>1. s[j] \in Row /\ Rank \in [Name -> Nat]
      BY <1>1, BrowserAssumption
    <2>2. s[j].ft \in Nat /\ s[j].size \in Nat /\ Rank[s[j].name] \in Nat
      BY <2>1 DEF Row
    <2> QED BY <2>2 DEF Key
  <1>3. ASSUME NEW j \in T, NEW k \in T
        PROVE  Before(s, col, asc, j, k) <=>
                  IF key[j] = key[k] THEN j < k ELSE key[j] < key[k] <=> asc
    BY DEF Before
  <1> HIDE DEF key
  <1>4. /\ asc => \A j, k \in T : Before(s, col, asc, j, k) <=>
                     key[j] < key[k] \/ (key[j] = key[k] /\ j < k)
        /\ ~asc => \A j, k \in T : Before(s, col, asc, j, k) <=>
                     (~(key[j] < key[k]) /\ key[j] # key[k]) \/ (key[j] = key[k] /\ j < k)
    <2> SUFFICES ASSUME NEW j \in T, NEW k \in T
                 PROVE  /\ asc => (Before(s, col, asc, j, k) <=>
                                      key[j] < key[k] \/ (key[j] = key[k] /\ j < k))
                        /\ ~asc => (Before(s, col, asc, j, k) <=>
                              (~(key[j] < key[k]) /\ key[j] # key[k]) \/ (key[j] = key[k] /\ j < k))
      OBVIOUS
    <2>1. key[j] \in Nat /\ key[k] \in Nat
      BY <1>2
    <2>2. Before(s, col, asc, j, k) <=> IF key[j] = key[k] THEN j < k ELSE key[j] < key[k] <=> asc
      BY <1>3
    <2> QED BY <2>1, <2>2
  <1> HIDE DEF T
  <1>5. CASE asc
    <2>1. \A j, k \in T : Before(s, col, asc, j, k) <=>
                     key[j] < key[k] \/ (key[j] = key[k] /\ j < k)
      BY <1>4, <1>5
    <2>2. \A j \in T : j \in Int /\ key[j] \in Int
      BY <1>1, <1>2
    <2> QED BY <1>1, <2>1, <2>2 DEF Orders, T
  <1>6. CASE ~asc
    <2>1. \A j, k \in T : Before(s, col, asc, j, k) <=>
                     (~(key[j] < key[k]) /\ key[j] # key[k]) \/ (key[j] = key[k] /\ j < k)
      BY <1>4, <1>6
    <2>2. \A j \in T : j \in Int /\ key[j] \in Int
      BY <1>1, <1>2
    <2> QED BY <1>1, <2>1, <2>2 DEF Orders, T
  <1> QED BY <1>5, <1>6

\* Each row has a place of its own, and the places grow along the order.
LEMMA PlacesGrow ==
    ASSUME NEW s, NEW col, NEW asc, Orders(s, col, asc)
    PROVE  /\ \A j \in DOMAIN s : PlaceOf(s, col, asc, j) \in DOMAIN s
           /\ \A j, k \in DOMAIN s :
                 Before(s, col, asc, j, k) => PlaceOf(s, col, asc, j) < PlaceOf(s, col, asc, k)
  <1> DEFINE n == Len(s)
             before(j) == Earlier(s, col, asc, j)
  <1>1. n \in Nat /\ DOMAIN s = 1 .. n /\ IsFiniteSet(1 .. n) /\ Cardinality(1 .. n) = n
    BY FS_Interval DEF Orders
  <1>2. ASSUME NEW j \in DOMAIN s
        PROVE  IsFiniteSet(before(j)) /\ Cardinality(before(j)) \in 0 .. n - 1
    <2>1. before(j) \in SUBSET (1 .. n) /\ j \notin before(j)
      BY <1>1 DEF Earlier, Orders
    <2>2. IsFiniteSet(before(j)) /\ Cardinality(before(j)) <= n
      BY <1>1, <2>1, FS_Subset
    <2>3. Cardinality(before(j)) # n
      BY <1>1, <2>1, FS_Subset
    <2>4. Cardinality(before(j)) \in Nat
      BY <2>2, FS_CardinalityType
    <2> QED BY <1>1, <2>2, <2>3, <2>4
  <1>3. ASSUME NEW j \in DOMAIN s, NEW k \in DOMAIN s, Before(s, col, asc, j, k)
        PROVE  Cardinality(before(j)) < Cardinality(before(k))
    <2>1. before(j) \in SUBSET before(k)
      BY <1>3 DEF Earlier, Orders
    <2>2. j \in before(k) /\ j \notin before(j)
      BY <1>3 DEF Earlier, Orders
    <2>3. IsFiniteSet(before(k)) /\ Cardinality(before(k)) \in 0 .. n - 1
      BY <1>2
    <2>4. Cardinality(before(j)) \in 0 .. n - 1
      BY <1>2
    <2>5. /\ Cardinality(before(j)) <= Cardinality(before(k))
          /\ Cardinality(before(j)) # Cardinality(before(k))
      BY <2>1, <2>2, <2>3, FS_Subset
    <2> QED BY <1>1, <2>3, <2>4, <2>5
  <1> HIDE DEF before, n
  <1>4. \A j \in DOMAIN s : PlaceOf(s, col, asc, j) = Cardinality(before(j)) + 1
    BY DEF PlaceOf, before
  <1>5. \A j \in DOMAIN s : PlaceOf(s, col, asc, j) \in DOMAIN s
    BY <1>1, <1>2, <1>4
  <1>6. ASSUME NEW j \in DOMAIN s, NEW k \in DOMAIN s, Before(s, col, asc, j, k)
        PROVE  PlaceOf(s, col, asc, j) < PlaceOf(s, col, asc, k)
    <2>1. Cardinality(before(j)) \in 0 .. n - 1 /\ Cardinality(before(k)) \in 0 .. n - 1
      BY <1>2
    <2> QED BY <1>1, <1>3, <1>4, <1>6, <2>1
  <1> QED BY <1>5, <1>6

\* Sorting rearranges the rows, and puts them in order.
LEMMA SortedIs ==
    ASSUME NEW s \in Seq(Row), NEW col \in {"type", "size", "name"}, NEW asc \in BOOLEAN
    PROVE  \E p \in Bijection(DOMAIN s, DOMAIN s) :
              /\ Sorted(s, col, asc) = [k \in DOMAIN s |-> s[p[k]]]
              /\ \A j, k \in DOMAIN s : j < k => Before(s, col, asc, p[j], p[k])
  <1> DEFINE T == DOMAIN s
             place == [j \in T |-> PlaceOf(s, col, asc, j)]
             p == [k \in T |-> CHOOSE j \in T : Cardinality(Earlier(s, col, asc, j)) = k - 1]
  <1>1. Orders(s, col, asc)
    BY KeysOrder
  <1>2. Len(s) \in Nat /\ T = 1 .. Len(s) /\ IsFiniteSet(T)
    BY FS_Interval
  <1>3. place \in [T -> T] /\ \A j, k \in T : Before(s, col, asc, j, k) => place[j] < place[k]
    BY <1>1, PlacesGrow
  <1>4. ASSUME NEW j \in T, NEW k \in T, place[j] = place[k]
        PROVE  j = k
    <2> HIDE DEF place
    <2> SUFFICES ASSUME j # k PROVE FALSE
      OBVIOUS
    <2>1. place[j] < place[k] \/ place[k] < place[j]
      BY <1>1, <1>3 DEF Orders
    <2>2. place[j] \in T /\ place[k] \in T
      BY <1>3
    <2> QED BY <1>2, <1>4, <2>1, <2>2
  <1>5. \A k \in T : \E j \in T : place[j] = k
    <2> HIDE DEF place
    <2>1. place \in Injection(T, T)
      BY <1>3, <1>4 DEF Injection, IsInjective
    <2>2. place \in Surjection(T, T)
      BY <1>2, <2>1, FS_Injection
    <2> QED BY <2>2 DEF Surjection
  <1>6. ASSUME NEW k \in T
        PROVE  p[k] \in T /\ place[p[k]] = k
    <2>1. PICK j \in T : place[j] = k
      BY <1>5
    <2>2. Earlier(s, col, asc, j) \in SUBSET T
      BY DEF Earlier
    <2>3. Cardinality(Earlier(s, col, asc, j)) \in Nat
      BY <1>2, <2>2, FS_Subset, FS_CardinalityType
    <2>4. Cardinality(Earlier(s, col, asc, j)) = k - 1
      BY <1>2, <2>1, <2>3 DEF PlaceOf
    <2>5. p[k] \in T /\ Cardinality(Earlier(s, col, asc, p[k])) = k - 1
      BY <2>4
    <2> QED BY <1>2, <2>5 DEF PlaceOf
  <1>7. Sorted(s, col, asc) = [k \in T |-> s[p[k]]]
    BY DEF Sorted
  <1> HIDE DEF place, p
  <1>8. \A j \in T : p[place[j]] = j
    <2> SUFFICES ASSUME NEW j \in T PROVE p[place[j]] = j
      OBVIOUS
    <2>1. place[j] \in T
      BY <1>3
    <2>2. p[place[j]] \in T /\ place[p[place[j]]] = place[j]
      BY <1>6, <2>1
    <2> QED BY <1>4, <2>2
  <1>9. p \in [T -> T]
    BY <1>6 DEF p
  <1>10. p \in Bijection(T, T)
    <2>1. \A j, k \in T : p[j] = p[k] => j = k
      BY <1>6
    <2>2. \A j \in T : place[j] \in T
      BY <1>3
    <2>3. p \in Injection(T, T)
      BY <1>9, <2>1 DEF Injection, IsInjective
    <2>4. p \in Surjection(T, T)
      BY <1>8, <1>9, <2>2 DEF Surjection
    <2> QED BY <2>3, <2>4 DEF Bijection
  <1>11. ASSUME NEW j \in T, NEW k \in T, j < k
         PROVE  Before(s, col, asc, p[j], p[k])
    <2>1. p[j] \in T /\ p[k] \in T /\ place[p[j]] = j /\ place[p[k]] = k
      BY <1>6
    <2>2. p[j] # p[k]
      BY <1>2, <1>11, <2>1
    <2>3. ~Before(s, col, asc, p[k], p[j])
      <3> SUFFICES ASSUME Before(s, col, asc, p[k], p[j]) PROVE FALSE
        OBVIOUS
      <3>1. k < j
        BY <1>3, <2>1
      <3> QED BY <1>2, <1>11, <3>1
    <2> QED BY <1>1, <2>1, <2>2, <2>3 DEF Orders
  <1> QED BY <1>7, <1>10, <1>11

\* The same rows in another order.
Rearranged(r, s) ==
    \E p \in Injection(DOMAIN s, DOMAIN s) : r = [k \in DOMAIN s |-> s[p[k]]]

\* A sorted sequence of rows is one of the same rows.
LEMMA SortRearranges ==
    ASSUME NEW s \in Seq(Row), NEW col \in {"type", "size", "name"}, NEW asc \in BOOLEAN
    PROVE  Rearranged(Sorted(s, col, asc), s)
  BY SortedIs DEF Rearranged, Bijection

\* Rows that were rearranged are rows, and the same ones; twice is as good as once.
LEMMA RearrangedIs ==
    ASSUME NEW s \in Seq(Row), NEW r, Rearranged(r, s)
    PROVE  /\ r \in Seq(Row) /\ Len(r) = Len(s)
           /\ \A k \in DOMAIN r : \E j \in DOMAIN s : r[k] = s[j]
           /\ \A j \in DOMAIN s : \E k \in DOMAIN r : r[k] = s[j]
  <1> DEFINE T == DOMAIN s
  <1>1. PICK p \in Injection(T, T) : r = [k \in T |-> s[p[k]]]
    BY DEF Rearranged
  <1>2. p \in [T -> T] /\ \A j, k \in T : p[j] = p[k] => j = k
    BY <1>1 DEF Injection, IsInjective
  <1>3. Len(s) \in Nat /\ T = 1 .. Len(s) /\ \A k \in T : s[k] \in Row
    OBVIOUS
  <1>4. DOMAIN r = T /\ \A k \in T : p[k] \in T /\ r[k] = s[p[k]]
    BY <1>1, <1>2
  <1>5. r \in Seq(Row) /\ Len(r) = Len(s)
    <2>1. r \in [1 .. Len(s) -> Row]
      BY <1>1, <1>2, <1>3
    <2> QED BY <1>3, <2>1
  <1>6. IsFiniteSet(T)
    BY <1>3, FS_Interval
  <1>7. \A j \in T : \E k \in T : p[k] = j
    <2>1. p \in Surjection(T, T)
      BY <1>1, <1>6, FS_Injection
    <2> QED BY <2>1 DEF Surjection
  <1>8. ASSUME NEW j \in T
        PROVE  \E k \in T : r[k] = s[j]
    <2>1. PICK k \in T : p[k] = j
      BY <1>7
    <2> QED BY <1>4, <2>1
  <1> QED BY <1>4, <1>5, <1>8

\* Rows of entries show each of them, and do so in any other order.
LEMMA RowsOfIs ==
    ASSUME NEW s, NEW r, RowsOf(r, s)
    PROVE  /\ \A k \in DOMAIN r : \E j \in DOMAIN s : Shows(r[k], s[j])
           /\ \A q : Rearranged(q, r) => RowsOf(q, s)
  <1> DEFINE T == DOMAIN s
  <1>1. PICK p \in Injection(T, T) : DOMAIN r = T /\ \A k \in T : Shows(r[k], s[p[k]])
    BY DEF RowsOf
  <1>2. p \in [T -> T] /\ \A j, k \in T : p[j] = p[k] => j = k
    BY <1>1 DEF Injection, IsInjective
  <1>3. ASSUME NEW q, Rearranged(q, r)
        PROVE  RowsOf(q, s)
    <2>1. PICK o \in Injection(T, T) : q = [k \in T |-> r[o[k]]]
      BY <1>1, <1>3 DEF Rearranged
    <2>2. o \in [T -> T] /\ \A j, k \in T : o[j] = o[k] => j = k
      BY <2>1 DEF Injection, IsInjective
    <2> DEFINE both == [k \in T |-> p[o[k]]]
    <2>3. both \in [T -> T] /\ \A j, k \in T : both[j] = both[k] => j = k
      BY <1>2, <2>2
    <2>4. both \in Injection(T, T)
      BY <2>3 DEF Injection, IsInjective
    <2>5. \A k \in T : Shows(q[k], s[both[k]])
      BY <1>1, <2>1, <2>2
    <2> QED BY <2>1, <2>4, <2>5 DEF RowsOf
  <1>4. \A k \in DOMAIN r : Shows(r[k], s[p[k]]) /\ p[k] \in T
    BY <1>1, <1>2
  <1> QED BY <1>3, <1>4

\* Some of the sizes may be missing, of rows in any order.
LEMMA SizedIs ==
    ASSUME NEW s \in Seq(Row), NEW r, Rearranged(r, s), NEW missing
    PROVE  Sized(r, missing) \in Seq(Row) /\ RowsOf(Sized(r, missing), s)
  <1> DEFINE T == DOMAIN s
             z == Sized(r, missing)
  <1>1. PICK p \in Injection(T, T) : r = [k \in T |-> s[p[k]]]
    BY DEF Rearranged
  <1>2. p \in [T -> T] /\ Len(s) \in Nat /\ T = 1 .. Len(s) /\ \A k \in T : s[k] \in Row
    BY <1>1 DEF Injection
  <1>3. DOMAIN r = T /\ \A k \in T : p[k] \in T /\ r[k] = s[p[k]] /\ r[k] \in Row
    BY <1>1, <1>2
  <1>4. DOMAIN z = T /\ z = [k \in T |-> IF k \in missing THEN [r[k] EXCEPT !.size = 0] ELSE r[k]]
    BY <1>3 DEF Sized
  <1>5. ASSUME NEW k \in T PROVE z[k] \in Row /\ Shows(z[k], s[p[k]])
    <2>1. z[k] = IF k \in missing THEN [r[k] EXCEPT !.size = 0] ELSE r[k]
      BY <1>4
    <2>2. PICK e \in Row : e = r[k] /\ e = s[p[k]]
      BY <1>3
    <2>3. [e EXCEPT !.size = 0] \in Row /\ Shows([e EXCEPT !.size = 0], e) /\ Shows(e, e)
      BY <2>2 DEF Row, Shows
    <2> QED BY <2>1, <2>2, <2>3
  <1>6. z \in Seq(Row)
    <2>1. z \in [1 .. Len(s) -> Row]
      BY <1>2, <1>4, <1>5
    <2> QED BY <1>2, <2>1
  <1> QED BY <1>1, <1>4, <1>5, <1>6 DEF RowsOf

-----------------------------------------------------------------------------
(* Resolution                                                              *)

\* What is called a sequence here.
LEMMA SeqIs ==
    ASSUME NEW S, NEW s \in Seq(S)
    PROVE  IsSeq(s)
  <1>1. Len(s) \in Nat /\ s \in [1 .. Len(s) -> S]
    OBVIOUS
  <1> QED BY <1>1 DEF IsSeq

\* A path with one component more.
LEMMA AppendIs ==
    ASSUME NEW p, NEW x, IsSeq(p)
    PROVE  /\ Len(p) \in Nat /\ Len(Append(p, x)) = Len(p) + 1
           /\ Append(p, x)[Len(p) + 1] = x
           /\ \A k \in 1 .. Len(p) : Append(p, x)[k] = p[k]
           /\ IsSeq(Append(p, x))
  <1> DEFINE S == {p[k] : k \in 1 .. Len(p)} \cup {x}
  <1>1. p \in Seq(S)
    <2>1. p \in [1 .. Len(p) -> S] /\ Len(p) \in Nat
      BY DEF IsSeq
    <2> QED BY <2>1
  <1>2. x \in S
    OBVIOUS
  <1> HIDE DEF S
  <1>3. Append(p, x) \in Seq(S)
    BY <1>1, <1>2
  <1>4. /\ Len(Append(p, x)) = Len(p) + 1 /\ Append(p, x)[Len(p) + 1] = x
        /\ \A k \in 1 .. Len(p) : Append(p, x)[k] = p[k]
    BY <1>1, <1>2
  <1>5. IsSeq(Append(p, x))
    BY <1>3, SeqIs
  <1> QED BY <1>4, <1>5 DEF IsSeq

\* What the first components of p lead to, up to n.
Leads(g, f, p, n) ==
    /\ n \in Nat /\ g = [k \in 0 .. n |-> g[k]] /\ g[0] = Root
    /\ \A k \in 1 .. n : g[k] = IF p[k] = "." THEN g[k - 1] ELSE Step(f, g[k - 1], p[k])

\* Every path leads somewhere.
LEMMA LeadsExist ==
    ASSUME NEW f, NEW p, NEW N \in Nat
    PROVE  \E g : Leads(g, f, p, N)
  <1> DEFINE Bad == {n \in 0 .. N : ~\E g : Leads(g, f, p, n)}
  <1> SUFFICES ASSUME Bad # {} PROVE FALSE
    <2>1. N \in 0 .. N
      OBVIOUS
    <2> QED BY <2>1
  <1>1. Bad \in SUBSET Nat
    OBVIOUS
  <1> HIDE DEF Bad
  <1>2. PICK n \in Bad : \A m \in Bad : n <= m
    BY <1>1, LeastOf
  <1> USE DEF Bad
  <1>3. n # 0
    <2> SUFFICES ASSUME n = 0 PROVE FALSE
      OBVIOUS
    <2> DEFINE g0 == [k \in 0 .. 0 |-> Root]
    <2>1. Leads(g0, f, p, 0)
      BY DEF Leads
    <2> QED BY <1>2, <2>1
  <1>4. n \in Nat /\ n - 1 \in 0 .. N /\ n \in 1 .. N /\ n - 1 \notin Bad
    BY <1>2, <1>3
  <1>5. PICK g : Leads(g, f, p, n - 1)
    BY <1>4
  <1> DEFINE last == IF p[n] = "." THEN g[n - 1] ELSE Step(f, g[n - 1], p[n])
             h == [k \in 0 .. n |-> IF k = n THEN last ELSE g[k]]
  <1> HIDE DEF last
  <1>6. h = [k \in 0 .. n |-> h[k]] /\ h[0] = Root
    BY <1>4, <1>5 DEF Leads
  <1>7. ASSUME NEW k \in 1 .. n
        PROVE  h[k] = IF p[k] = "." THEN h[k - 1] ELSE Step(f, h[k - 1], p[k])
    <2>1. k - 1 \in 0 .. n /\ k - 1 # n /\ k \in 0 .. n
      BY <1>4
    <2>2. h[k - 1] = g[k - 1]
      BY <2>1
    <2>3. CASE k = n
      <3>1. h[k] = last
        BY <2>1, <2>3
      <3> QED BY <2>2, <2>3, <3>1 DEF last
    <2>4. CASE k # n
      <3>1. k \in 1 .. n - 1
        BY <1>4, <2>4
      <3>2. h[k] = g[k]
        BY <2>1, <2>4
      <3> QED BY <1>5, <2>2, <3>1, <3>2 DEF Leads
    <2> QED BY <2>3, <2>4
  <1>8. Leads(h, f, p, n)
    BY <1>4, <1>6, <1>7 DEF Leads
  <1> QED BY <1>2, <1>8

\* Two paths that begin alike, up to n, and what they lead to.
Alike(f, p, q, g, h, m, l, n) ==
    /\ Leads(g, f, p, m) /\ Leads(h, f, q, l)
    /\ n \in Nat /\ n <= m /\ n <= l /\ \A k \in 1 .. n : p[k] = q[k]

\* They lead to the same place as far as that goes.
LEMMA LeadsAlike ==
    ASSUME NEW f, NEW p, NEW q, NEW g, NEW h, NEW m, NEW l, NEW n,
           Alike(f, p, q, g, h, m, l, n)
    PROVE  g[n] = h[n]
  <1> DEFINE Off == {k \in 0 .. n : g[k] # h[k]}
  <1> SUFFICES ASSUME Off # {} PROVE FALSE
    <2>1. n \in 0 .. n
      BY DEF Alike
    <2> QED BY <2>1
  <1>1. Off \in SUBSET Nat
    BY DEF Alike
  <1> HIDE DEF Off
  <1>2. PICK i \in Off : \A j \in Off : i <= j
    BY <1>1, LeastOf
  <1> USE DEF Off
  <1>3. i # 0
    BY <1>2 DEF Alike, Leads
  <1>4. i \in 1 .. n /\ i \in 1 .. m /\ i \in 1 .. l /\ i - 1 \in 0 .. n /\ i - 1 \notin Off
    <2>1. n \in Nat /\ m \in Nat /\ l \in Nat /\ n <= m /\ n <= l
      BY DEF Alike, Leads
    <2>2. i \in 1 .. n /\ i - 1 \in 0 .. n /\ ~(i <= i - 1)
      BY <1>2, <1>3, <2>1
    <2>3. i - 1 \notin Off
      BY <1>2, <2>2
    <2> QED BY <2>1, <2>2, <2>3
  <1>5. g[i - 1] = h[i - 1] /\ p[i] = q[i]
    BY <1>4 DEF Alike
  <1>6. /\ g[i] = IF p[i] = "." THEN g[i - 1] ELSE Step(f, g[i - 1], p[i])
        /\ h[i] = IF q[i] = "." THEN h[i - 1] ELSE Step(f, h[i - 1], q[i])
    BY <1>4 DEF Alike, Leads
  <1> QED BY <1>2, <1>5, <1>6

\* resolve follows the components one after another.
LEMMA ResolvedLeads ==
    ASSUME NEW f, NEW p, Len(p) \in Nat
    PROVE  \E g : Leads(g, f, p, Len(p)) /\ Resolved(f, p) = g[Len(p)]
  <1> DEFINE Ats(g) == g = [k \in 0 .. Len(p) |->
                               IF k = 0 THEN Root
                               ELSE IF p[k] = "." THEN g[k - 1] ELSE Step(f, g[k - 1], p[k])]
             at == CHOOSE g : Ats(g)
  <1>1. PICK g0 : Leads(g0, f, p, Len(p))
    BY LeadsExist
  <1>2. \A k \in 0 .. Len(p) : g0[k] = IF k = 0 THEN Root
                               ELSE IF p[k] = "." THEN g0[k - 1] ELSE Step(f, g0[k - 1], p[k])
    BY <1>1 DEF Leads
  <1>3. g0 = [k \in 0 .. Len(p) |-> g0[k]]
    BY <1>1 DEF Leads
  <1>4. Ats(g0)
    BY <1>2, <1>3
  <1>5. Ats(at)
    BY <1>4
  <1>6. Resolved(f, p) = at[Len(p)]
    BY DEF Resolved
  <1> HIDE DEF at
  <1>7. at = [k \in 0 .. Len(p) |-> at[k]] /\ at[0] = Root
    BY <1>5
  <1>8. \A k \in 1 .. Len(p) : at[k] = IF p[k] = "." THEN at[k - 1] ELSE Step(f, at[k - 1], p[k])
    <2> SUFFICES ASSUME NEW k \in 1 .. Len(p)
                 PROVE  at[k] = IF p[k] = "." THEN at[k - 1] ELSE Step(f, at[k - 1], p[k])
      OBVIOUS
    <2>1. k \in 0 .. Len(p) /\ k # 0
      OBVIOUS
    <2> QED BY <1>5, <2>1
  <1>9. Leads(at, f, p, Len(p))
    BY <1>7, <1>8 DEF Leads
  <1> QED BY <1>6, <1>9

\* One component more is one step more.
LEMMA ResolvedAppend ==
    ASSUME NEW f, NEW p, NEW x, IsSeq(p)
    PROVE  Resolved(f, Append(p, x)) =
              IF x = "." THEN Resolved(f, p) ELSE Step(f, Resolved(f, p), x)
  <1> DEFINE n == Len(p)
             q == Append(p, x)
  <1>1. n \in Nat /\ Len(q) = n + 1 /\ q[n + 1] = x /\ \A k \in 1 .. n : q[k] = p[k]
    BY AppendIs
  <1>2. PICK g : Leads(g, f, p, n) /\ Resolved(f, p) = g[n]
    BY <1>1, ResolvedLeads
  <1>3. PICK h : Leads(h, f, q, n + 1) /\ Resolved(f, q) = h[n + 1]
    <2>1. Len(q) \in Nat
      BY <1>1
    <2> HIDE DEF q
    <2>2. \E h : Leads(h, f, q, Len(q)) /\ Resolved(f, q) = h[Len(q)]
      BY <2>1, ResolvedLeads
    <2> QED BY <1>1, <2>2
  <1>4. g[n] = h[n]
    <2>1. n <= n /\ n <= n + 1 /\ \A k \in 1 .. n : p[k] = q[k]
      BY <1>1
    <2> HIDE DEF q, n
    <2>2. Alike(f, p, q, g, h, n, n + 1, n)
      BY <1>1, <1>2, <1>3, <2>1 DEF Alike
    <2> QED BY <2>2, LeadsAlike
  <1>5. h[n + 1] = IF q[n + 1] = "." THEN h[n + 1 - 1] ELSE Step(f, h[n + 1 - 1], q[n + 1])
    BY <1>1, <1>3 DEF Leads
  <1> QED BY <1>1, <1>2, <1>3, <1>4, <1>5

\* In a sound image an entry of a directory leads to its own inode.
LEMMA EntryLeads ==
    ASSUME ImagesSound, NEW f \in Image, NEW d \in DOMAIN f.list, NEW j \in DOMAIN f.list[d]
    PROVE  f.list[d][j].ino = IF f.list[d][j].name = "." THEN d ELSE Step(f, d, f.list[d][j].name)
  <1> DEFINE x == f.list[d][j].name
  <1>1. f.list[d] \in Seq(Row)
    BY BrowserAssumption DEF Row
  <1>2. CASE x = "."
    BY <1>2 DEF ImagesSound
  <1>3. CASE x # "."
    <2>1. Named(f, d, x) \in SUBSET Nat /\ j \in Named(f, d, x)
      BY <1>1 DEF Named
    <2>2. \A k \in Named(f, d, x) : k = j
      BY DEF Named, ImagesSound
    <2>3. Min(Named(f, d, x)) = j
      BY <2>1, <2>2, MinIsOne
    <2>4. Step(f, d, x) = f.list[d][j].ino
      BY <2>1, <2>3 DEF Step
    <2> QED BY <1>3, <2>4
  <1> QED BY <1>2, <1>3

\* Rows of a path, and one of them.
RowsAt(f, p, r) ==
    /\ f \in Image /\ IsSeq(p) /\ IsDirectory(f, p)
    /\ RowsOf(r, f.list[Resolved(f, p)])

\* The path that is made for a row leads to the inode that the row showed.
LEMMA RowLeads ==
    ASSUME ImagesSound, NEW f, NEW p, NEW r, RowsAt(f, p, r), NEW k \in DOMAIN r
    PROVE  Resolved(f, Append(p, r[k].name)) = r[k].ino
  <1> DEFINE d == Resolved(f, p)
  <1>1. f \in Image /\ IsSeq(p) /\ d \in DOMAIN f.list /\ RowsOf(r, f.list[d])
    BY DEF RowsAt, IsDirectory
  <1>2. Resolved(f, Append(p, r[k].name)) =
           IF r[k].name = "." THEN d ELSE Step(f, d, r[k].name)
    BY <1>1, ResolvedAppend
  <1> HIDE DEF d
  <1>3. f.list[d] \in Seq(Row)
    BY <1>1, BrowserAssumption DEF Row
  <1>4. PICK j \in DOMAIN f.list[d] : Shows(r[k], f.list[d][j])
    BY <1>1, RowsOfIs
  <1> QED BY <1>1, <1>2, <1>4, EntryLeads DEF Shows

-----------------------------------------------------------------------------
(* The rows that are drawn, and those that are selected                    *)

\* A filter that is set, a sort and a reload draw what the filter lets through.
LEMMA NextShown == ShownRight /\ [Next]_vars => ShownRight'
  <1> SUFFICES ASSUME ShownRight, [Next]_vars PROVE ShownRight'
    OBVIOUS
  <1>1. ASSUME RecomputeShown PROVE ShownRight'
    BY <1>1 DEF RecomputeShown, ShownRight
  <1>2. ASSUME UNCHANGED <<rows, filter, shown>> PROVE ShownRight'
    BY <1>2 DEF ShownRight
  <1>3. CASE \E f \in Image : Open(f)
    BY <1>1, <1>3 DEF Open, Reload
  <1>4. CASE OpenFails \/ Copy
    BY <1>2, <1>4 DEF OpenFails, Copy, Extract, CopyOne, CopyMany, Rename, Confirm, CloseDialog,
           InMenu, Unmoved, table
  <1>5. CASE Navigate
    BY <1>1, <1>5 DEF Navigate, Up, Home, Refresh, Crumb, TreeNode, NavigateTo, Reload
  <1>6. CASE EditFilter
    <2>1. CASE /\ filter' \in Blank /\ filter \in Blank /\ UNCHANGED <<listing, shown>>
      <3>1. rows' = rows /\ shown' = shown /\ \E text \in Blank : shown = Visible(rows, text)
        BY <2>1 DEF listing, ShownRight
      <3> QED BY <2>1, <3>1 DEF ShownRight
    <2> QED BY <1>1, <1>6, <2>1 DEF EditFilter, Reload
  <1>7. CASE Sort
    BY <1>1, <1>7 DEF Sort, AfterSort
  <1>8. CASE DoubleClick
    BY <1>1, <1>2, <1>8 DEF DoubleClick, Reload, listing
  <1>9. CASE Select \/ UNCHANGED vars
    BY <1>2, <1>9 DEF Select, Click, ClickNowhere, Marquee, SelectAll, RightClick, CloseContent,
           listing, vars
  <1> QED BY <1>3, <1>4, <1>5, <1>6, <1>7, <1>8, <1>9 DEF Next

\* What is drawn are rows that exist.
LEMMA ShownExist == ShownRight => shown \subseteq DOMAIN rows
  BY DEF ShownRight, Visible

\* A click selects rows that are drawn, and keeps those that were selected.
LEMMA ClickedIsShown ==
    ASSUME NEW s \in SUBSET shown, NEW a, NEW r \in shown, NEW mod
    PROVE  Clicked(s, a, r, mod) \in SUBSET shown
  <1>1. ShownBetween(a, r) \in SUBSET shown /\ ShownBetween(r, a) \in SUBSET shown
    BY DEF ShownBetween
  <1> QED BY <1>1 DEF Clicked

\* Whatever else is drawn from now on, nothing of the old selection is kept.
LEMMA NextSelection == ShownRight /\ SelectionShown /\ rows \in Seq(Row) /\ [Next]_vars => SelectionShown'
  <1> SUFFICES ASSUME ShownRight, SelectionShown, rows \in Seq(Row), [Next]_vars
               PROVE  SelectionShown'
    OBVIOUS
  <1>1. ASSUME RecomputeShown PROVE SelectionShown'
    BY <1>1 DEF RecomputeShown, Cleared, ClearSelection, SelectionShown
  <1>2. ASSUME UNCHANGED <<shown, selection>> PROVE SelectionShown'
    BY <1>2 DEF SelectionShown, selection
  <1>3. CASE \E f \in Image : Open(f)
    BY <1>1, <1>3 DEF Open, Reload
  <1>4. CASE OpenFails \/ Copy
    BY <1>2, <1>4 DEF OpenFails, Copy, Extract, CopyOne, CopyMany, Rename, Confirm, CloseDialog,
           InMenu, Unmoved, table
  <1>5. CASE Navigate
    BY <1>1, <1>5 DEF Navigate, Up, Home, Refresh, Crumb, TreeNode, NavigateTo, Reload
  <1>6. CASE EditFilter
    BY <1>1, <1>2, <1>6 DEF EditFilter, Reload
  <1>7. CASE Sort
    BY <1>1, <1>7 DEF Sort, AfterSort
  <1>8. CASE DoubleClick
    <2>1. PICK r \in shown, mod \in {"none", "ctrl", "shift"} :
             \/ Reload(image, Append(path, rows[r].name))
             \/ /\ sel' = Clicked(Clicked(sel, anchor, r, mod), r, r, mod)
                /\ selected' = r /\ shown' = shown
      BY <1>8 DEF DoubleClick
    <2>2. sel \in SUBSET shown
      BY DEF SelectionShown
    <2>3. Clicked(sel, anchor, r, mod) \in SUBSET shown
      BY <2>2, ClickedIsShown
    <2>4. Clicked(Clicked(sel, anchor, r, mod), r, r, mod) \in SUBSET shown
      BY <2>3, ClickedIsShown
    <2> QED BY <1>1, <2>1, <2>4 DEF Reload, SelectionShown
  <1>9. CASE Click
    <2>1. PICK r \in shown, mod \in {"none", "ctrl", "shift"} :
             sel' = Clicked(sel, anchor, r, mod) /\ selected' = r /\ shown' = shown
      BY <1>9 DEF Click
    <2>2. sel \in SUBSET shown
      BY DEF SelectionShown
    <2>3. Clicked(sel, anchor, r, mod) \in SUBSET shown
      BY <2>2, ClickedIsShown
    <2> QED BY <2>1, <2>3 DEF SelectionShown
  <1>10. CASE Marquee
    <2>1. \A lo, hi : ShownBetween(lo, hi) \subseteq shown
      BY DEF ShownBetween
    <2>2. sel' \subseteq shown /\ UNCHANGED <<shown, selected>>
      BY <1>10, <2>1 DEF Marquee, SelectionShown
    <2> QED BY <2>2 DEF SelectionShown
  <1>11. CASE SelectAll
    <2>1. shown \in SUBSET Nat
      BY ShownExist
    <2>2. shown # {} => Min(shown) \in shown
      BY <2>1, MinIsOne
    <2> QED BY <1>11, <2>2 DEF SelectAll, SelectionShown
  <1>12. CASE RightClick
    BY <1>12 DEF RightClick, SelectionShown, selection
  <1>13. CASE ClickNowhere \/ CloseContent \/ UNCHANGED vars
    BY <1>2, <1>13 DEF ClickNowhere, ClearSelection, CloseContent, SelectionShown, selection, vars
  <1> QED BY <1>3, <1>4, <1>5, <1>6, <1>7, <1>8, <1>9, <1>10, <1>11, <1>12, <1>13 DEF Next, Select

\* At first nothing is drawn or selected.
LEMMA InitDrawn == Init => ShownRight /\ SelectionShown
  <1> SUFFICES ASSUME Init PROVE ShownRight /\ SelectionShown
    OBVIOUS
  <1>1. rows = <<>> /\ filter = "" /\ shown = {} /\ sel = {} /\ selected = 0
    BY DEF Init
  <1>2. DOMAIN rows = {}
    <2>1. rows \in Seq(Row) /\ Len(rows) = 0
      BY <1>1, EmptySeq
    <2>2. DOMAIN rows = 1 .. 0
      BY <2>1
    <2> QED BY <2>2
  <1>3. Visible(rows, filter) = {}
    BY <1>2 DEF Visible
  <1> QED BY <1>1, <1>3 DEF ShownRight, SelectionShown

-----------------------------------------------------------------------------
(* The table and the path                                                  *)

\* What the table needs besides: while nothing is open it is empty.
Standing ==
    /\ image \in Image \cup {NoImage} /\ IsSeq(path) /\ rows \in Seq(Row)
    /\ image = NoImage /\ ~error => rows = <<>>
TableInv == Standing /\ RowsOfPath

\* Nothing is open at first.
LEMMA InitTable == Init => TableInv
  <1> SUFFICES ASSUME Init PROVE TableInv
    OBVIOUS
  <1>1. <<>> \in Seq(Row)
    OBVIOUS
  <1>2. IsSeq(<<>>)
    BY <1>1, SeqIs
  <1> QED BY <1>1, <1>2 DEF Init, TableInv, Standing, RowsOfPath

\* A sound path at hand is that of the rows.
LEMMA TableAt ==
    ASSUME TableInv, ~error, rows # <<>>
    PROVE  RowsAt(image, path, rows)
  BY DEF TableInv, Standing, RowsOfPath, RowsAt

\* A reload shows the directory of the path, or an error and the rows it had.
LEMMA ReloadShows ==
    ASSUME TableInv, NEW f \in Image \cup {NoImage}, NEW p, IsSeq(p), Reload(f, p)
    PROVE  TableInv'
  <1> DEFINE d == Resolved(f, p)
  <1>1. image' = f /\ path' = p /\ content' = <<>> /\ rows \in Seq(Row)
    BY DEF Reload, ContentClosed, TableInv, Standing
  <1>2. CASE IsDirectory(f, p) /\ (\E m \in Unread : rows' = Loaded(f, p, m)) /\ error' = FALSE
    <2>1. f \in Image /\ d \in DOMAIN f.list
      BY <1>2 DEF IsDirectory
    <2>2. f.list[d] \in Seq(Row)
      BY <2>1, BrowserAssumption DEF Row
    <2>3. PICK m \in Unread : rows' = Sized(Sorted(f.list[d], "name", TRUE), m)
      BY <1>2 DEF Loaded
    <2> HIDE DEF d
    <2>4. Rearranged(Sorted(f.list[d], "name", TRUE), f.list[d])
      BY <2>2, SortRearranges
    <2>5. rows' \in Seq(Row) /\ RowsOf(rows', f.list[d])
      BY <2>2, <2>3, <2>4, SizedIs
    <2>6. RowsOf(rows', image'.list[Resolved(image', path')]) /\ IsDirectory(image', path')
      BY <1>1, <1>2, <2>5 DEF d
    <2>7. f # NoImage
      BY <1>2 DEF IsDirectory
    <2> QED BY <1>1, <2>5, <2>6, <2>7 DEF TableInv, Standing, RowsOfPath
  <1>3. CASE error' = TRUE /\ rows' = rows
    BY <1>1, <1>3 DEF TableInv, Standing, RowsOfPath
  <1> QED BY <1>2, <1>3 DEF Reload, Fails

\* Parts of a path are paths.
LEMMA PartsArePaths ==
    ASSUME IsSeq(path)
    PROVE  IsSeq(<<>>) /\ (path # <<>> => IsSeq(Front(path))) /\ \A x : IsSeq(Append(path, x))
  <1> DEFINE S == {path[k] : k \in 1 .. Len(path)}
  <1>1. path \in Seq(S)
    <2>1. path \in [1 .. Len(path) -> S] /\ Len(path) \in Nat
      BY DEF IsSeq
    <2> QED BY <2>1
  <1> HIDE DEF S
  <1>2. IsSeq(<<>>)
    <2>1. <<>> \in Seq(S)
      OBVIOUS
    <2> QED BY <2>1, SeqIs
  <1>3. ASSUME path # <<>> PROVE IsSeq(Front(path))
    <2>1. SubSeq(path, 1, Len(path) - 1) \in Seq(S)
      BY <1>1, <1>3
    <2>2. Front(path) = SubSeq(path, 1, Len(path) - 1)
      BY DEF Front
    <2> QED BY <2>1, <2>2, SeqIs
  <1> QED BY <1>2, <1>3, AppendIs

\* Wherever the user goes, it is a path.
LEMMA NavigateShows ==
    ASSUME TableInv, Navigate
    PROVE  TableInv'
  <1>1. image \in Image \cup {NoImage} /\ IsSeq(path)
    BY DEF TableInv, Standing
  <1>2. ASSUME NEW p, IsSeq(p), NavigateTo(p) PROVE TableInv'
    <2>1. Reload(image, p)
      BY <1>2 DEF NavigateTo
    <2> QED BY <1>1, <1>2, <2>1, ReloadShows
  <1>3. CASE Up \/ Home \/ Refresh
    BY <1>1, <1>2, <1>3, PartsArePaths DEF Up, Home, Refresh
  <1>4. CASE Crumb
    <2> DEFINE named == {k \in DOMAIN path : path[k] # "."}
               comps == [j \in 1 .. Cardinality(named) |-> path[Place(named, j)]]
    <2>1. PICK k \in 0 .. Len(comps) : NavigateTo(SubSeq(comps, 1, k))
      BY <1>4 DEF Crumb
    <2>2. Cardinality(named) \in Nat
      <3>1. named \in SUBSET (1 .. Len(path)) /\ Len(path) \in Nat
        BY <1>1 DEF IsSeq
      <3>2. IsFiniteSet(1 .. Len(path))
        BY <3>1, FS_Interval
      <3>3. IsFiniteSet(named)
        BY <3>1, <3>2, FS_Subset
      <3> QED BY <3>3, FS_CardinalityType
    <2> DEFINE n == Cardinality(named)
               S == {comps[j] : j \in 1 .. n}
    <2>3. comps \in Seq(S) /\ Len(comps) = n
      <3>1. DOMAIN comps = 1 .. n /\ comps \in [1 .. n -> S] /\ n \in Nat
        BY <2>2
      <3> HIDE DEF comps, S, n
      <3> QED BY <3>1
    <2>0. k \in 0 .. n
      BY <2>3
    <2> HIDE DEF comps, S, n
    <2>4. SubSeq(comps, 1, k) \in Seq(S)
      <3>1. n \in Nat
        BY <2>2 DEF n
      <3>2. \A j \in 1 .. k : j \in 1 .. Len(comps)
        BY <2>0, <2>3, <3>1
      <3> QED BY <2>0, <2>3, <3>1, <3>2
    <2>5. IsSeq(SubSeq(comps, 1, k))
      BY <2>4, SeqIs
    <2> QED BY <1>2, <2>1, <2>5
  <1>5. CASE TreeNode
    <2>1. PICK p \in SeqOf(Name \ Dots, MaxPath) : NavigateTo(p)
      BY <1>5 DEF TreeNode
    <2>2. PICK m \in 0 .. MaxPath : p \in [1 .. m -> Name \ Dots]
      BY <2>1 DEF SeqOf
    <2>3. p \in Seq(Name \ Dots)
      BY <2>2, BrowserAssumption
    <2> QED BY <1>2, <2>1, <2>3, SeqIs
  <1> QED BY <1>3, <1>4, <1>5 DEF Navigate

\* Every step leaves the table that of the path, or shows an error.
LEMMA NextTable == TableInv /\ ShownRight /\ [Next]_vars => TableInv'
  <1> SUFFICES ASSUME TableInv, ShownRight, [Next]_vars PROVE TableInv'
    OBVIOUS
  <1>1. image \in Image \cup {NoImage} /\ IsSeq(path) /\ rows \in Seq(Row)
    BY DEF TableInv, Standing
  <1>2. ASSUME UNCHANGED <<listing, error>>, content' \in {<<>>, content} PROVE TableInv'
    BY <1>2 DEF TableInv, Standing, RowsOfPath, listing
  <1>3. ASSUME NEW f \in Image, Open(f) PROVE TableInv'
    <2>1. Reload(f, <<>>)
      BY <1>3 DEF Open
    <2> QED BY <1>1, <2>1, PartsArePaths, ReloadShows
  <1>4. CASE OpenFails
    BY <1>4 DEF OpenFails, TableInv, Standing, RowsOfPath, table
  <1>5. CASE EditFilter
    <2>1. UNCHANGED <<listing, error, content>> \/ Reload(image, path)
      BY <1>5 DEF EditFilter
    <2> QED BY <1>1, <1>2, <2>1, ReloadShows
  <1>6. CASE Sort
    <2>1. PICK col \in SortCol, asc \in BOOLEAN : rows' = Sorted(rows, col, asc)
      <3>1. PICK col \in SortCol : order' = <<col, order[1] = col => ~order[2]>>
        BY <1>6 DEF Sort
      <3>2. order'[1] = col /\ order'[2] \in BOOLEAN
        BY <3>1
      <3> QED BY <1>6, <3>2 DEF Sort
    <2>2. Rearranged(rows', rows)
      BY <1>1, <2>1, BrowserAssumption, SortRearranges
    <2>3. /\ rows' \in Seq(Row) /\ \A q : RowsOf(rows, q) => RowsOf(rows', q)
          /\ \A j \in DOMAIN rows : \E k \in DOMAIN rows' : rows'[k] = rows[j]
      BY <1>1, <2>2, RearrangedIs, RowsOfIs
    <2>4. UNCHANGED <<image, path, error, content>> /\ image # NoImage
      BY <1>6 DEF Sort
    <2>5. IsDirectory(image, path) => image.list[Resolved(image, path)] \in Seq(Row)
      BY <1>1, BrowserAssumption DEF IsDirectory, Row
    <2>6. \A x : (\E e \in ToSet(rows) : e.ino = x) => \E e \in ToSet(rows') : e.ino = x
      BY <2>3 DEF ToSet
    <2> QED BY <1>1, <2>3, <2>4, <2>5, <2>6 DEF TableInv, Standing, RowsOfPath
  <1>7. CASE DoubleClick
    <2>1. PICK r \in shown :
             \/ Reload(image, Append(path, rows[r].name))
             \/ /\ content' = <<rows[r].ino, path>> /\ error' = error
                /\ UNCHANGED listing
             \/ error' = TRUE /\ UNCHANGED <<content, listing>>
      BY <1>7 DEF DoubleClick
    <2>2. rows[r] \in ToSet(rows)
      BY ShownExist DEF ToSet
    <2>3. CASE Reload(image, Append(path, rows[r].name))
      BY <1>1, <2>3, PartsArePaths, ReloadShows
    <2>4. CASE content' = <<rows[r].ino, path>> /\ error' = error /\ UNCHANGED listing
      BY <2>2, <2>4 DEF TableInv, Standing, RowsOfPath, listing
    <2>5. CASE error' = TRUE /\ UNCHANGED <<content, listing>>
      BY <2>5 DEF TableInv, Standing, RowsOfPath, listing
    <2> QED BY <2>1, <2>3, <2>4, <2>5
  <1>8. CASE Select \/ Copy \/ UNCHANGED vars
    BY <1>2, <1>8 DEF Select, Click, ClickNowhere, Marquee, SelectAll, RightClick, CloseContent,
           Copy, Extract, CopyOne, CopyMany, Rename, Confirm, CloseDialog, InMenu, Unmoved,
           listing, table, vars
  <1> QED BY <1>3, <1>4, <1>5, <1>6, <1>7, <1>8, NavigateShows DEF Next

-----------------------------------------------------------------------------
(* Copies                                                                  *)

\* A dialog keeps a path that leads to what was meant, in the image that it was
\* meant in.
Meant ==
    dialog # <<>> =>
        /\ dialog = [src |-> dialog.src, meant |-> dialog.meant]
        /\ dialog.meant # <<>> => Resolved(dialog.meant[1], dialog.src) = dialog.meant[2]

\* Steps that keep the dialog, or close it.
LEMMA SameDialog ==
    ASSUME Meant, dialog' \in {<<>>, dialog}
    PROVE  Meant'
  BY DEF Meant

\* The dialog is opened with the path of a row, and is left alone after that.
LEMMA NextMeant == ImagesSound /\ TableInv /\ Meant /\ [Next]_vars => Meant'
  <1> SUFFICES ASSUME ImagesSound, TableInv, Meant, [Next]_vars PROVE Meant'
    OBVIOUS
  <1>1. CASE Rename
    <2>1. rows # <<>> /\ menu \in DOMAIN rows /\ ~error =>
             Resolved(image, Append(path, rows[menu].name)) = rows[menu].ino
      BY TableAt, RowLeads
    <2>2. CASE menu \in DOMAIN rows /\ ~error
      <3>1. dialog' = [src |-> Append(path, rows[menu].name), meant |-> <<image, rows[menu].ino>>]
        BY <1>1, <2>2 DEF Rename, SrcOf, RowOf
      <3>2. rows # <<>>
        BY <2>2
      <3> QED BY <2>1, <2>2, <3>1, <3>2 DEF Meant
    <2>3. CASE ~(menu \in DOMAIN rows /\ ~error)
      <3>1. \E src : dialog' = [src |-> src, meant |-> <<>>]
        BY <1>1, <2>3 DEF Rename
      <3> QED BY <3>1 DEF Meant
    <2> QED BY <2>2, <2>3
  <1>2. CASE ~Rename
    <2>1. ((\E f \in Image : Open(f)) \/ Navigate \/ EditFilter) => Beside
      BY DEF Open, Navigate, Up, Home, Refresh, Crumb, TreeNode, NavigateTo, EditFilter
    <2>2. OpenFails \/ Sort => Beside
      BY DEF OpenFails, Sort
    <2>3. DoubleClick \/ Select => dialog' = dialog
      BY DEF DoubleClick, Select, Click, ClickNowhere, Marquee, SelectAll, RightClick, CloseContent, InTable
    <2>4. Copy => dialog' \in {<<>>, dialog}
      BY <1>2 DEF Copy, Extract, CopyOne, CopyMany, Confirm, CloseDialog
    <2>5. dialog' \in {<<>>, dialog}
      BY <2>1, <2>2, <2>3, <2>4 DEF Next, Beside, vars
    <2> QED BY <2>5, SameDialog
  <1> QED BY <1>1, <1>2

\* What is copied is of rows, of the dialog, or nothing.
LEMMA JobsAre ==
    ASSUME TableInv, ShownRight, SelectionShown, CopiesRows, [Next]_vars
    PROVE  \/ UNCHANGED vars
           \/ job' = {}
           \/ /\ UNCHANGED <<image, path, rows, error>>
              /\ \A it \in job' : \E i \in DOMAIN rows : it = Item(i)
           \/ dialog # <<>> /\ job' = {dialog} /\ image' = image
  <1>1. sel \subseteq DOMAIN rows
    BY ShownExist DEF SelectionShown
  <1>2. CASE Extract \/ CopyOne \/ CopyMany
    <2>1. UNCHANGED <<image, path, rows, error>>
      BY <1>2 DEF Extract, CopyOne, CopyMany, InMenu, Unmoved, table
    <2>2. \E S \in SUBSET DOMAIN rows : job' = {Item(i) : i \in S}
      BY <1>1, <1>2 DEF Extract, CopyOne, CopyMany
    <2> QED BY <2>1, <2>2
  <1>3. CASE Confirm
    BY <1>3 DEF Confirm, Unmoved
  <1>4. CASE ~(Extract \/ CopyOne \/ CopyMany \/ Confirm)
    <2>1. ((\E f \in Image : Open(f)) \/ Navigate \/ EditFilter) => Beside
      BY DEF Open, Navigate, Up, Home, Refresh, Crumb, TreeNode, NavigateTo, EditFilter
    <2>2. OpenFails \/ Sort => Beside
      BY DEF OpenFails, Sort
    <2>3. DoubleClick \/ Select => job' = {}
      BY DEF DoubleClick, Select, Click, ClickNowhere, Marquee, SelectAll, RightClick, CloseContent, InTable
    <2>4. Copy => job' = {}
      BY <1>4 DEF Copy, Rename, CloseDialog
    <2> QED BY <2>1, <2>2, <2>3, <2>4 DEF Next, Beside
  <1> QED BY <1>2, <1>3, <1>4

\* What a step copies is what the rows showed, or what the dialog was opened for.
LEMMA NextCopies ==
    ASSUME ImagesSound, TableInv, ShownRight, SelectionShown, Meant, CopiesRows, [Next]_vars
    PROVE  CopiesRows'
  <1>1. CASE UNCHANGED vars
    BY <1>1 DEF vars, listing, CopiesRows
  <1>2. CASE job' = {}
    BY <1>2 DEF CopiesRows
  <1>3. CASE /\ UNCHANGED <<image, path, rows, error>>
             /\ \A it \in job' : \E i \in DOMAIN rows : it = Item(i)
    <2> SUFFICES ASSUME NEW it \in job'
                 PROVE  /\ OfRows(it) /\ ~error' => Resolved(image', it.src) = it.seen
                        /\ OfRows(it)
      BY DEF CopiesRows
    <2>1. PICK i \in DOMAIN rows : it = Item(i)
      BY <1>3
    <2>2. it = [src |-> Append(path, rows[i].name), dest |-> rows[i].name, seen |-> rows[i].ino]
      BY <2>1 DEF Item, RowOf
    <2>3. ~error => Resolved(image, Append(path, rows[i].name)) = rows[i].ino
      <3>1. rows # <<>>
        OBVIOUS
      <3> QED BY <3>1, TableAt, RowLeads
    <2> QED BY <1>3, <2>2, <2>3 DEF OfRows
  <1>4. CASE dialog # <<>> /\ job' = {dialog} /\ image' = image
    <2>1. dialog = [src |-> dialog.src, meant |-> dialog.meant]
      BY <1>4 DEF Meant
    <2>2. ~OfRows(dialog)
      BY <2>1 DEF OfRows
    <2> QED BY <1>4, <2>2 DEF CopiesRows, Meant
  <1> QED BY <1>1, <1>2, <1>3, <1>4, JobsAre

-----------------------------------------------------------------------------
(* The theorems                                                            *)

\* All that is drawn at once.
Drawn == ShownRight /\ SelectionShown /\ TableInv

\* Every step draws right.
LEMMA NextDrawn == Drawn /\ [Next]_vars => Drawn'
  BY NextShown, NextSelection, NextTable DEF Drawn, TableInv, Standing

\* Whatever is opened, loaded, sorted, filtered and failed: what is drawn is what
\* the filter lets through.
THEOREM FilterIsObeyed == Spec => []ShownRight
  <1> QED BY InitDrawn, NextShown, PTL DEF Spec

\* However it was selected, and whatever happened to the rows since: what is selected is
\* drawn.
THEOREM SelectionIsSeen == Spec => []SelectionShown
  <1>1. Init => Drawn
    BY InitDrawn, InitTable DEF Drawn
  <1>2. Drawn => SelectionShown
    BY DEF Drawn
  <1> QED BY <1>1, <1>2, NextDrawn, PTL DEF Spec

\* Unless an error is shown there is one row for each entry of the path, with its size or
\* with 0; a load that fails leaves the old rows, and the error with them.  The viewer
\* shows one of the rows.
THEOREM TableIsOfPath == Spec => []RowsOfPath
  <1>1. Init => Drawn
    BY InitDrawn, InitTable DEF Drawn
  <1>2. Drawn => RowsOfPath
    BY DEF Drawn, TableInv
  <1> QED BY <1>1, <1>2, NextDrawn, PTL DEF Spec

\* In sound images, a copy is of the inode that the row showed, though it is
\* made of a path and a name, and the dialog keeps these over any other input.
THEOREM CopiesAreOfRows == ImagesSound => (Spec => []CopiesRows)
  <1> SUFFICES ASSUME ImagesSound PROVE Spec => []CopiesRows
    OBVIOUS
  <1> DEFINE I == Drawn /\ Meant /\ CopiesRows
  <1>1. Init => I
    BY InitDrawn, InitTable DEF Drawn, Init, Meant, CopiesRows
  <1>2. I /\ [Next]_vars => I'
    BY NextDrawn, NextMeant, NextCopies DEF Drawn
  <1>3. I => CopiesRows
    OBVIOUS
  <1> QED BY <1>1, <1>2, <1>3, PTL DEF Spec
=============================================================================
