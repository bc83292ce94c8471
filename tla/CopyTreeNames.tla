---------------------------- MODULE CopyTreeNames ----------------------------
(***************************************************************************)
(* Proofs about the names and the counts of CopyTree, for every image:     *)
(* what sanitize_name makes of a name is one Windows accepts, two names    *)
(* that it makes one do not go unnoticed, and the walk then meets what was *)
(* counted.                                                                *)
(***************************************************************************)
EXTENDS CopyTreeProofs, WellFoundedInduction, FiniteSetTheorems

-----------------------------------------------------------------------------
(* Names.                                                                  *)

Less == {pair \in Nat \X Nat : pair[1] < pair[2]}

\* A set of numbers has a least one.
LEMMA Least ==
    ASSUME NEW S \in SUBSET Nat, S # {}
    PROVE  Min(S) \in S /\ \A m \in S : Min(S) <= m
  <1>1. IsWellFoundedOn(Less, Nat)
    BY NatLessThanWellFounded DEF OpToRel, Less
  <1>2. PICK n \in S : \A m \in S : ~(<<m, n>> \in Less)
    BY <1>1, WFMin
  <1>3. \A m \in S : ~(m < n)
    BY <1>2 DEF Less
  <1>4. \A m \in S : n <= m
    BY <1>3
  <1> QED BY <1>4 DEF Min

\* And a greatest one, if there is a bound: no number below all bounds is one.
LEMMA Greatest ==
    ASSUME NEW n \in Nat, NEW S \in SUBSET (0 .. n), S # {}
    PROVE  Max(S) \in S /\ \A m \in S : Max(S) >= m
  <1> DEFINE Bounds == {b \in Nat : \A m \in S : b >= m}
             b0 == Min(Bounds)
  <1>1. n \in Bounds
    OBVIOUS
  <1>2. b0 \in Bounds /\ \A b \in Bounds : b0 <= b
    BY <1>1, Least
  <1>3. b0 \in S
    <2> SUFFICES ASSUME b0 \notin S PROVE FALSE
      OBVIOUS
    <2>1. PICK m0 \in S : TRUE
      OBVIOUS
    <2>2. b0 \in Nat /\ b0 - 1 \in Nat
      BY <1>2, <2>1
    <2>3. \A m \in S : b0 - 1 >= m
      BY <1>2, <2>2
    <2> QED BY <1>2, <2>2, <2>3
  <1> HIDE DEF b0
  <1> QED BY <1>2, <1>3 DEF Max

\* A name is a sequence of anything.
LEMMA NameIs ==
    ASSUME NEW s, IsSeq(s)
    PROVE  /\ Len(s) \in Nat /\ DOMAIN s = 1 .. Len(s)
           /\ s # <<>> <=> Len(s) # 0
  <1>1. PICK S : s \in Seq(S)
    BY DEF IsSeq
  <1> QED BY <1>1, LenProperties, EmptySeq

\* A function on the first numbers is one.
LEMMA FunctionIsName ==
    ASSUME NEW n \in Nat, NEW f, NEW S, f \in [1 .. n -> S]
    PROVE  IsSeq(f) /\ Len(f) = n
  <1>1. f \in Seq(S)
    BY SeqDef
  <1>2. DOMAIN f = 1 .. Len(f) /\ Len(f) \in Nat /\ DOMAIN f = 1 .. n
    BY <1>1, LenProperties
  <1>3. Len(f) = n
    <2>1. 1 .. Len(f) = 1 .. n /\ Len(f) \in Nat /\ n \in Nat
      BY <1>2
    <2>2. \A k \in Nat : (k \in 1 .. Len(f) <=> k \in 1 .. n)
      BY <2>1
    <2> QED BY <2>1, <2>2
  <1> QED BY <1>1, <1>3 DEF IsSeq

\* The beginning of a name.
LEMMA BeginningOf ==
    ASSUME NEW s, IsSeq(s), NEW m \in 0 .. Len(s)
    PROVE  /\ IsSeq(SubSeq(s, 1, m)) /\ Len(SubSeq(s, 1, m)) = m
           /\ \A k \in 1 .. m : SubSeq(s, 1, m)[k] = s[k]
  <1>1. PICK S : s \in Seq(S)
    BY DEF IsSeq
  <1>2. Len(s) \in Nat /\ m \in Nat /\ \A i \in 1 .. m : i \in 1 .. Len(s)
    BY <1>1
  <1>3. \A i \in 1 .. m : s[i] \in S
    BY <1>1, <1>2
  <1>4. m \in Nat /\ (1 <= m \/ m = 0)
    BY <1>2
  <1>5. /\ SubSeq(s, 1, m) \in Seq(S) /\ Len(SubSeq(s, 1, m)) = m
        /\ \A k \in 1 .. m : SubSeq(s, 1, m)[k] = s[k]
    BY <1>3, <1>4, SubSeqProperties
  <1> QED BY <1>5 DEF IsSeq

\* Letters are replaced one by one.
LEMMA ReplacedIs ==
    ASSUME NEW s, IsSeq(s)
    PROVE  /\ IsSeq(Replaced(s)) /\ Len(Replaced(s)) = Len(s)
           /\ \A k \in 1 .. Len(s) : Replaced(s)[k] = IF s[k] \in Refused THEN "_" ELSE s[k]
  <1>1. PICK S : s \in Seq(S)
    BY DEF IsSeq
  <1>2. Len(s) \in Nat /\ DOMAIN s = 1 .. Len(s) /\ \A k \in 1 .. Len(s) : s[k] \in S
    BY <1>1, LenProperties, ElementOfSeq
  <1>3. Replaced(s) = [k \in 1 .. Len(s) |-> IF s[k] \in Refused THEN "_" ELSE s[k]]
    BY <1>2 DEF Replaced
  <1>4. Replaced(s) \in [1 .. Len(s) -> S \cup {"_"}]
    BY <1>2, <1>3
  <1>5. IsSeq(Replaced(s)) /\ Len(Replaced(s)) = Len(s)
    BY <1>2, <1>4, FunctionIsName
  <1>6. \A k \in 1 .. Len(s) : Replaced(s)[k] = IF s[k] \in Refused THEN "_" ELSE s[k]
    BY <1>3
  <1> QED BY <1>5, <1>6

\* What is left of a name without trailing dots and spaces.
LEMMA StrippedIs ==
    ASSUME NEW s, IsSeq(s)
    PROVE  /\ IsSeq(Stripped(s)) /\ Len(Stripped(s)) \in 0 .. Len(s)
           /\ \A k \in 1 .. Len(Stripped(s)) : Stripped(s)[k] = s[k]
           /\ Stripped(s) # <<>> => Last(Stripped(s)) \notin Trailing
  <1>1. Len(s) \in Nat /\ DOMAIN s = 1 .. Len(s)
    BY NameIs
  <1> DEFINE S == {k \in DOMAIN s : s[k] \notin Trailing} \cup {0}
             m == Max(S)
  <1>2. S \in SUBSET (0 .. Len(s)) /\ S # {}
    BY <1>1
  <1>3. m \in S
    BY <1>1, <1>2, Greatest
  <1>4. m \in 0 .. Len(s) /\ (m # 0 => s[m] \notin Trailing)
    BY <1>2, <1>3
  <1>5. Stripped(s) = SubSeq(s, 1, m)
    BY DEF Stripped
  <1> HIDE DEF m, S
  <1>6. /\ IsSeq(SubSeq(s, 1, m)) /\ Len(SubSeq(s, 1, m)) = m
        /\ \A k \in 1 .. m : SubSeq(s, 1, m)[k] = s[k]
    BY <1>4, BeginningOf
  <1>7. SubSeq(s, 1, m) # <<>> => Last(SubSeq(s, 1, m)) \notin Trailing
    <2>1. SubSeq(s, 1, m) # <<>> => m # 0
      BY <1>6, NameIs
    <2>2. m # 0 => SubSeq(s, 1, m)[m] = s[m]
      BY <1>1, <1>4, <1>6
    <2> QED BY <1>4, <1>6, <2>1, <2>2 DEF Last
  <1> QED BY <1>4, <1>5, <1>6, <1>7

\* A name before its first dot begins as the name does, if it has not a dot there.
LEMMA BeforeDotIs ==
    ASSUME NEW s, IsSeq(s), s # <<>>, s[1] # "."
    PROVE  1 \in DOMAIN BeforeDot(s) /\ BeforeDot(s)[1] = s[1]
  <1>1. Len(s) \in Nat \ {0} /\ DOMAIN s = 1 .. Len(s)
    BY NameIs
  <1> DEFINE S == {k \in DOMAIN s : s[k] = "."} \cup {Len(s) + 1}
             m == Min(S)
  <1>2. S \in SUBSET Nat /\ S # {}
    BY <1>1
  <1>3. m \in S
    BY <1>2, Least
  <1>4. m \in 2 .. Len(s) + 1
    <2>1. m # 1
      BY <1>1, <1>3
    <2> QED BY <1>1, <1>3, <2>1
  <1>5. BeforeDot(s) = SubSeq(s, 1, m - 1)
    BY DEF BeforeDot
  <1> HIDE DEF m, S
  <1>6. PICK n \in 0 .. Len(s) : n = m - 1 /\ 1 \in 1 .. n
    BY <1>1, <1>4
  <1>7. /\ IsSeq(SubSeq(s, 1, n)) /\ Len(SubSeq(s, 1, n)) = n
        /\ SubSeq(s, 1, n)[1] = s[1]
    BY <1>6, BeginningOf
  <1>8. DOMAIN SubSeq(s, 1, n) = 1 .. n
    BY <1>7, NameIs
  <1> QED BY <1>5, <1>6, <1>7, <1>8

\* A name that begins with an underscore is no device's, whatever follows.
LEMMA UnderscoreFree ==
    ASSUME NEW s, IsSeq(s), s # <<>>, s[1] = "_"
    PROVE  ~IsReserved(s)
  <1>1. 1 \in DOMAIN BeforeDot(s) /\ BeforeDot(s)[1] = "_"
    BY BeforeDotIs
  <1>2. Upper(BeforeDot(s))[1] = "_"
    BY <1>1 DEF Upper
  <1>3. <<"N">>[1] = "N"
    OBVIOUS
  <1> QED BY <1>2, <1>3 DEF IsReserved, Reserved

\* A letter before a name.
LEMMA LetterBefore ==
    ASSUME NEW e, NEW t, IsSeq(t)
    PROVE  /\ IsSeq(<<e>> \o t) /\ Len(<<e>> \o t) = 1 + Len(t)
           /\ (<<e>> \o t)[1] = e
           /\ \A k \in 1 .. Len(t) : (<<e>> \o t)[k + 1] = t[k]
  <1>1. PICK S : t \in Seq(S)
    BY DEF IsSeq
  <1> DEFINE E == S \cup {e}
             one == <<e>>
  <1>2. t \in Seq(E) /\ one \in Seq(E) /\ Len(one) = 1 /\ one[1] = e /\ Len(t) \in Nat
    BY <1>1
  <1> HIDE DEF E, one
  <1>3. /\ one \o t \in Seq(E) /\ Len(one \o t) = Len(one) + Len(t)
        /\ \A i \in 1 .. Len(one) + Len(t) :
              (one \o t)[i] = IF i <= Len(one) THEN one[i] ELSE t[i - Len(one)]
    BY <1>2, ConcatProperties
  <1>4. (one \o t)[1] = e
    <2>1. 1 \in 1 .. Len(one) + Len(t) /\ 1 <= Len(one)
      BY <1>2
    <2> QED BY <1>2, <1>3, <2>1
  <1>5. ASSUME NEW k \in 1 .. Len(t) PROVE (one \o t)[k + 1] = t[k]
    <2>1. k + 1 \in 1 .. Len(one) + Len(t) /\ ~(k + 1 <= Len(one)) /\ (k + 1) - Len(one) = k
      BY <1>2
    <2>2. (one \o t)[k + 1] = t[(k + 1) - Len(one)]
      BY <1>3, <2>1
    <2> QED BY <2>1, <2>2
  <1>6. IsSeq(one \o t)
    BY <1>3 DEF IsSeq
  <1> QED BY <1>2, <1>3, <1>4, <1>5, <1>6 DEF one

\* A name is its own beginning.
LEMMA WholeName ==
    ASSUME NEW s, IsSeq(s)
    PROVE  SubSeq(s, 1, Len(s)) = s
  <1>1. PICK S : s \in Seq(S)
    BY DEF IsSeq
  <1>2. Len(s) \in Nat /\ \A i \in 1 .. Len(s) : s[i] \in S
    BY <1>1
  <1>3. /\ SubSeq(s, 1, Len(s)) \in Seq(S) /\ Len(SubSeq(s, 1, Len(s))) = Len(s)
        /\ \A i \in 1 .. Len(s) : SubSeq(s, 1, Len(s))[i] = s[i]
    <2>1. PICK m \in Nat : m = Len(s) /\ (1 <= m \/ m = 0)
      BY <1>2
    <2>2. /\ SubSeq(s, 1, m) \in Seq(S) /\ Len(SubSeq(s, 1, m)) = m
          /\ \A i \in 1 .. m : SubSeq(s, 1, m)[i] = s[i]
      BY <1>2, <2>1, SubSeqProperties
    <2> QED BY <2>1, <2>2
  <1> QED BY <1>1, <1>3, SeqEqual

\* The letters of a name of which no blank is right before a dot.
Tight(s) == \A k \in 1 .. Len(s) - 1 : s[k] = " " => s[k + 1] # "."

\* A name of allowed characters that ends as it must.
Fine(s) ==
    /\ IsSeq(s) /\ s # <<>> /\ Tight(s) /\ Last(s) \notin {".", " "}
    /\ \A k \in 1 .. Len(s) : s[k] \notin {":", "^", "$"}

\* If no blank is before a dot or at the end, the name before the first dot has no
\* blanks to lose.
LEMMA StemIs ==
    ASSUME NEW s, Fine(s)
    PROVE  /\ Stem(s) = BeforeDot(s)
           /\ \E m \in 0 .. Len(s) : BeforeDot(s) = SubSeq(s, 1, m)
  <1>1. IsSeq(s) /\ Len(s) \in Nat \ {0} /\ DOMAIN s = 1 .. Len(s)
    BY NameIs DEF Fine
  <1> DEFINE S == {k \in DOMAIN s : s[k] = "."} \cup {Len(s) + 1}
             e == Min(S)
             m == e - 1
             b == SubSeq(s, 1, m)
  <1>2. e \in S
    <2>1. S \in SUBSET Nat /\ S # {}
      BY <1>1
    <2> QED BY <2>1, Least
  <1>3. BeforeDot(s) = b
    BY DEF BeforeDot
  <1> HIDE DEF S, e
  <1>4. m \in 0 .. Len(s) /\ (m = Len(s) \/ s[m + 1] = ".")
    BY <1>1, <1>2 DEF S
  <1> HIDE DEF m
  <1>5. m = 0 \/ s[m] # " "
    <2>1. CASE m = Len(s)
      BY <2>1 DEF Fine, Last
    <2>2. CASE m # Len(s) /\ m # 0
      <3>0. m \in 0 .. Len(s)
        BY <1>4
      <3>1. m \in 1 .. Len(s) - 1
        <4>1. PICK n, j : n = Len(s) /\ j = m
          OBVIOUS
        <4>2. n \in Nat /\ j \in 0 .. n /\ j # n /\ j # 0
          BY <1>1, <2>2, <3>0, <4>1, Zenon
        <4>3. j \in 1 .. n - 1
          BY ONLY <4>2
        <4> QED BY <4>1, <4>3, Zenon
      <3> QED BY <1>4, <2>2, <3>1 DEF Fine, Tight
    <2> QED BY <2>1, <2>2
  <1>6. IsSeq(b) /\ Len(b) = m /\ \A k \in 1 .. m : b[k] = s[k]
    BY <1>1, <1>4, BeginningOf
  <1> HIDE DEF b
  <1>7. DOMAIN b = 1 .. m /\ m \in Nat
    BY <1>4, <1>6, NameIs
  <1> DEFINE T == {k \in DOMAIN b : b[k] # " "} \cup {0}
             x == Max(T)
  <1>8. T \in SUBSET (0 .. m) /\ T # {} /\ m \in T
    <2>a. 0 \in T /\ \A k \in T : k = 0 \/ k \in DOMAIN b
      BY Zenon
    <2>b. \A k : k = 0 \/ k \in DOMAIN b => k \in 0 .. m
      BY ONLY <1>7
    <2>1. T \in SUBSET (0 .. m) /\ 0 \in T
      BY <2>a, <2>b, Zenon
    <2>2. CASE m # 0
      <3>1. m \in 1 .. m
        BY ONLY <1>7, <2>2
      <3>2. b[m] # " " /\ m \in DOMAIN b
        BY <1>5, <1>6, <1>7, <2>2, <3>1
      <3> QED BY <2>1, <3>2
    <2> QED BY <2>1, <2>2
  <1> HIDE DEF T
  <1>9. x \in T /\ x >= m
    BY <1>7, <1>8, Greatest
  <1> HIDE DEF x
  <1>10. x = m
    BY <1>7, <1>8, <1>9
  <1>11. Stem(s) = SubSeq(b, 1, m)
    BY <1>3, <1>10 DEF Stem, x, T
  <1>12. SubSeq(b, 1, m) = b
    BY <1>6, WholeName
  <1> QED BY <1>3, <1>4, <1>11, <1>12 DEF b

\* Such a name is usable if it is not reserved.
LEMMA UsableIf ==
    ASSUME NEW s, Fine(s), ~IsReserved(s)
    PROVE  Usable(s)
  <1>1. IsSeq(s) /\ DOMAIN s = 1 .. Len(s) /\ Len(s) \in Nat
    BY NameIs DEF Fine
  <1>2. PICK m \in 0 .. Len(s) : BeforeDot(s) = SubSeq(s, 1, m)
    BY StemIs
  <1>3. Stem(s) = BeforeDot(s)
    BY StemIs
  <1>4. PICK b : b = BeforeDot(s)
    OBVIOUS
  <1>5. DOMAIN b = 1 .. m /\ \A k \in 1 .. m : b[k] = s[k]
    <2>1. IsSeq(b) /\ Len(b) = m /\ \A k \in 1 .. m : b[k] = s[k]
      BY <1>1, <1>2, <1>4, BeginningOf
    <2> QED BY <2>1, NameIs
  <1>6. Upper(b) # <<"$">>
    <2> SUFFICES ASSUME Upper(b) = <<"$">> PROVE FALSE
      OBVIOUS
    <2>0. PICK d : d = <<"$">>
      OBVIOUS
    <2>1. 1 \in DOMAIN d /\ d[1] = "$"
      BY ONLY <2>0
    <2>2. DOMAIN Upper(b) = 1 .. m /\ 1 \in DOMAIN Upper(b)
      BY <1>5, <2>0, <2>1 DEF Upper
    <2>3. Upper(b)[1] = "$" /\ 1 \in 1 .. m /\ 1 \in 1 .. Len(s)
      BY <1>1, <2>0, <2>1, <2>2
    <2>4. s[1] = "$"
      <3>1. Upper(b)[1] = IF b[1] = "n" THEN "N" ELSE b[1]
        BY <1>5, <2>3 DEF Upper
      <3>2. b[1] = s[1]
        BY <1>5, <2>3
      <3> QED BY <2>3, <3>1, <3>2
    <2> QED BY <2>3, <2>4 DEF Fine
  <1>7. Upper(b) # <<"N">>
    BY <1>4 DEF IsReserved, Reserved
  <1> QED BY <1>1, <1>3, <1>4, <1>6, <1>7 DEF Fine, Usable, Forbidden, Devices

\* What sanitize_name makes of a common name is one that Windows accepts: the repairs do
\* not undo each other.
LEMMA SanitizeIsUsable ==
    ASSUME NEW name, IsSeq(name), Common(name)
    PROVE  Usable(Sanitize(name))
  <1> DEFINE s == Stripped(Replaced(name))
             t == IF s = <<>> THEN <<"_">> ELSE s
  <1>1. /\ IsSeq(s) /\ Len(s) \in 0 .. Len(name)
        /\ \A k \in 1 .. Len(s) : s[k] = IF name[k] \in Refused THEN "_" ELSE name[k]
        /\ s # <<>> => Last(s) \notin Trailing
    <2>1. IsSeq(Replaced(name)) /\ Len(Replaced(name)) = Len(name)
      BY ReplacedIs
    <2>2. /\ IsSeq(s) /\ Len(s) \in 0 .. Len(name)
          /\ \A k \in 1 .. Len(s) : s[k] = Replaced(name)[k]
          /\ s # <<>> => Last(s) \notin Trailing
      BY <2>1, StrippedIs
    <2>3. \A k \in 1 .. Len(s) : k \in 1 .. Len(name)
      BY <2>2, NameIs
    <2> QED BY <2>2, <2>3, ReplacedIs
  <1>2. DOMAIN name = 1 .. Len(name) /\ Len(name) \in Nat /\ Len(s) \in Nat
    BY <1>1, NameIs
  <1> HIDE DEF s
  <1>a. Len(s) \in 0 .. Len(name) /\ Len(name) \in Nat /\ Len(s) \in Nat
    BY <1>1, <1>2
  <1>3. Fine(t)
    <2>1. CASE s = <<>>
      <3>1. PICK u : u = <<"_">>
        OBVIOUS
      <3>a. /\ <<"_">> \in Seq({"_"}) /\ Len(<<"_">>) = 1 /\ <<"_">>[1] = "_" /\ <<"_">> # <<>>
        BY ONLY TRUE
      <3>2. u \in Seq({"_"}) /\ Len(u) = 1 /\ u[1] = "_" /\ u # <<>>
        BY ONLY <3>1, <3>a, Zenon
      <3>b. Len(u) = 1
        BY ONLY <3>2
      <3>3. \A k \in 1 .. Len(u) : k = 1
        BY ONLY <3>b
      <3>4. IsSeq(u) /\ Last(u) = "_" /\ Tight(u) /\ \A k \in 1 .. Len(u) : u[k] = "_"
        <4>1. 1 .. Len(u) - 1 = {}
          BY ONLY <3>b
        <4> QED BY ONLY <3>2, <3>3, <4>1 DEF IsSeq, Last, Tight
      <3>5. t = u
        BY <2>1, <3>1
      <3> HIDE DEF t
      <3> QED BY <3>2, <3>4, <3>5 DEF Fine
    <2>2. CASE s # <<>>
      <3>1. \A k \in 1 .. Len(s) : k \in 1 .. Len(name)
        BY ONLY <1>a
      <3>2. \A k \in 1 .. Len(s) : s[k] \notin {":", "^", "$"}
        BY <1>1, <1>2, <3>1 DEF Common, Refused
      <3>3. Tight(s)
        <4> SUFFICES ASSUME NEW k \in 1 .. Len(s) - 1, s[k] = " ", s[k + 1] = "."
                     PROVE  FALSE
          BY DEF Tight
        <4>1. k \in 1 .. Len(s) /\ k + 1 \in 1 .. Len(s) /\ k \in 1 .. Len(name) - 1
          BY ONLY <1>a, k \in 1 .. Len(s) - 1
        <4>2. name[k] = " " /\ name[k + 1] = "."
          BY <1>1, <4>1 DEF Refused
        <4> QED BY <4>1, <4>2 DEF Common
      <3> QED BY <1>1, <2>2, <3>2, <3>3 DEF Fine, Trailing
    <2> QED BY <2>1, <2>2
  <1>4. Sanitize(name) = IF IsReserved(t) THEN <<"_">> \o t ELSE t
    BY DEF Sanitize, s
  <1> HIDE DEF t
  <1>5. IsSeq(t) /\ Len(t) \in Nat \ {0}
    BY <1>3, NameIs DEF Fine
  <1>6. CASE ~IsReserved(t)
    BY <1>3, <1>4, <1>6, UsableIf
  <1>7. CASE IsReserved(t)
    <2>1. PICK e : e = "_"
      OBVIOUS
    <2>a. PICK u : u = <<e>> \o t
      OBVIOUS
    <2>2. /\ IsSeq(u) /\ Len(u) = 1 + Len(t) /\ u[1] = e
          /\ \A k \in 1 .. Len(t) : u[k + 1] = t[k]
      BY ONLY <1>5, <2>a, LetterBefore
    <2>3. u # <<>>
      <3>1. Len(u) # 0
        BY ONLY <1>5, <2>2
      <3> QED BY ONLY <2>2, <3>1, NameIs
    <2>4. ASSUME NEW k \in 1 .. Len(u), k # 1 PROVE k - 1 \in 1 .. Len(t) /\ u[k] = t[k - 1]
      <3>1. k - 1 \in 1 .. Len(t) /\ (k - 1) + 1 = k
        BY ONLY <2>4, <1>5, <2>2
      <3> QED BY ONLY <2>2, <3>1
    <2>5. \A k \in 1 .. Len(u) : u[k] \notin {":", "^", "$"}
      BY <1>3, <2>1, <2>2, <2>4 DEF Fine
    <2>6. Last(u) \notin {".", " "}
      <3>1. Len(t) \in 1 .. Len(t) /\ Len(u) = Len(t) + 1
        BY ONLY <1>5, <2>2
      <3>2. u[Len(u)] = t[Len(t)]
        BY ONLY <2>2, <3>1
      <3> QED BY <1>3, <3>2 DEF Fine, Last
    <2>7. Tight(u)
      <3> SUFFICES ASSUME NEW k \in 1 .. Len(u) - 1, u[k] = " ", u[k + 1] = "."
                   PROVE  FALSE
        BY DEF Tight
      <3>1. k # 1 /\ k \in 1 .. Len(u)
        <4>1. k # 1
          BY <2>1, <2>2
        <4>2. k \in 1 .. Len(u)
          BY ONLY <1>5, <2>2, k \in 1 .. Len(u) - 1
        <4> QED BY ONLY <4>1, <4>2
      <3>2. k - 1 \in 1 .. Len(t) - 1 /\ (k - 1) + 1 = k /\ k \in 1 .. Len(t)
        BY ONLY <1>5, <2>2, <3>1, k \in 1 .. Len(u) - 1
      <3>3. t[k - 1] = " " /\ t[k] = "."
        BY <2>2, <2>4, <3>1, <3>2
      <3> QED BY <1>3, <3>2, <3>3 DEF Fine, Tight
    <2>8. ~IsReserved(u)
      BY <2>1, <2>2, <2>3, UnderscoreFree
    <2>9. Usable(u)
      BY <2>2, <2>3, <2>5, <2>6, <2>7, <2>8, UsableIf DEF Fine
    <2> QED BY <1>4, <1>7, <2>1, <2>a, <2>9
  <1> QED BY <1>6, <1>7

-----------------------------------------------------------------------------
(* Where calls and items go.                                               *)

\* The place of a call that is under way, and one below it, for an entry of that name.
Stays(x) == \E j \in 1 .. Len(stack) : x.path = stack[j].path /\ x.dest = stack[j].dest
Descends(x) ==
    \E j \in 1 .. Len(stack) : \E h :
        /\ IsSeq(h)
        /\ x.path = Append(stack[j].path, h) /\ x.dest = Append(stack[j].dest, Sanitize(h))
        /\ Sanitize(h) # h => <<"renamed", x.path>> \in errors'

\* The calls after a step are at the places of those before it, but for one at most that
\* is below; what is put out is at such a place.
Onwards ==
    /\ Len(out) \in Nat /\ IsSeq(out') /\ errors \subseteq errors'
    /\ \A k \in 1 .. Len(stack') : \E f : f = stack'[k] /\ (Stays(f) \/ Descends(f))
    /\ \A k \in 1 .. Len(out') :
          \/ k \in 1 .. Len(out) /\ out'[k] = out[k]
          \/ \E f : f = out'[k] /\ Stays(f)

\* Whatever takes the place of the innermost call.
LEMMA PlacesKept ==
    ASSUME Calls, stack # <<>>, OutStep, errors \subseteq errors',
           NEW n \in 0 .. 2, Onto(n),
           \A k \in Len(stack) .. Len(stack) - 1 + n :
              \E f : f = stack'[k] /\ (Stays(f) \/ Descends(f))
    PROVE  Onwards
  <1>1. Now = stack[Len(stack)] /\ Len(stack) \in Nat \ {0} /\ Len(stack) \in 1 .. Len(stack)
        /\ Len(out) \in Nat /\ IsSeq(out)
    BY Innermost DEF Calls
  <1>2. ASSUME NEW k \in 1 .. Len(stack')
        PROVE  \E f : f = stack'[k] /\ (Stays(f) \/ Descends(f))
    <2>1. k \in 1 .. Len(stack) - 1 \/ k \in Len(stack) .. Len(stack) - 1 + n
      BY DEF Onto
    <2>2. CASE k \in 1 .. Len(stack) - 1
      <3>1. stack'[k] = stack[k] /\ k \in 1 .. Len(stack)
        BY <1>1, <2>2 DEF Onto
      <3> QED BY <3>1 DEF Stays
    <2> QED BY <2>1, <2>2
  <1>3. CASE out' = out
    BY <1>1, <1>2, <1>3 DEF Onwards
  <1>4. ASSUME NEW x, x.path = Now.path, x.dest = Now.dest, out' = Append(out, x)
        PROVE  Onwards
    <2>1. /\ IsSeq(out') /\ Len(out') = Len(out) + 1 /\ out'[Len(out) + 1] = x
          /\ \A k \in 1 .. Len(out) : out'[k] = out[k]
      BY <1>1, <1>4, FrontOfAppend
    <2>2. Stays(x)
      BY <1>1, <1>4 DEF Stays
    <2>3. ASSUME NEW k \in 1 .. Len(out')
          PROVE  \/ k \in 1 .. Len(out) /\ out'[k] = out[k]
                 \/ \E f : f = out'[k] /\ Stays(f)
      <3>1. k \in 1 .. Len(out) \/ k = Len(out) + 1
        BY <1>1, <2>1
      <3> QED BY <2>1, <2>2, <3>1
    <2> QED BY <1>1, <1>2, <2>1, <2>3 DEF Onwards
  <1> QED BY <1>3, <1>4 DEF OutStep

\* The innermost call returns.
LEMMA BackKeepsPlaces ==
    ASSUME Calls, stack # <<>>, OutStep, errors \subseteq errors', stack' = Front(stack)
    PROVE  Onwards
  <1>1. Onto(0) /\ Len(stack) \in Nat
    BY Pops, Innermost
  <1>2. Len(stack) .. Len(stack) - 1 + 0 = {} /\ 0 \in 0 .. 2
    BY <1>1
  <1> QED BY <1>1, <1>2, PlacesKept

\* It goes on.
LEMMA OnKeepsPlaces ==
    ASSUME Calls, stack # <<>>, OutStep, errors \subseteq errors',
           NEW d, d.path = Now.path, d.dest = Now.dest, stack' = [stack EXCEPT ![Len(stack)] = d]
    PROVE  Onwards
  <1>0. Now = stack[Len(stack)] /\ Len(stack) \in Nat \ {0}
    BY Innermost
  <1>1. /\ Onto(1) /\ stack'[Len(stack)] = d /\ Len(stack) \in 1 .. Len(stack)
        /\ Now = stack[Len(stack)] /\ Len(stack) \in Nat
    <2>1. Onto(1) /\ stack'[Len(stack)] = d
      BY GoesOn
    <2> QED BY <1>0, <2>1
  <1>2. Stays(d)
    BY <1>1 DEF Stays
  <1>3. \A k \in Len(stack) .. Len(stack) - 1 + 1 : k = Len(stack)
    BY <1>1
  <1>4. \A k \in Len(stack) .. Len(stack) - 1 + 1 : \E f : f = stack'[k] /\ (Stays(f) \/ Descends(f))
    BY <1>1, <1>2, <1>3
  <1>5. 1 \in 0 .. 2
    OBVIOUS
  <1> QED BY <1>1, <1>4, <1>5, PlacesKept

\* Or it waits for another one, at its place or below it.
LEMMA DownKeepsPlaces ==
    ASSUME Calls, stack # <<>>, OutStep, errors \subseteq errors',
           NEW d, d.path = Now.path, d.dest = Now.dest, NEW e, Stays(e) \/ Descends(e),
           stack' = Append([stack EXCEPT ![Len(stack)] = d], e)
    PROVE  Onwards
  <1>0. Now = stack[Len(stack)] /\ Len(stack) \in Nat \ {0}
    BY Innermost
  <1>1. /\ Onto(2) /\ stack'[Len(stack)] = d /\ stack'[Len(stack) + 1] = e
        /\ Len(stack) \in 1 .. Len(stack) /\ Now = stack[Len(stack)] /\ Len(stack) \in Nat
    BY <1>0, Pushes
  <1>2. Stays(d)
    BY <1>1 DEF Stays
  <1>3. \A k \in Len(stack) .. Len(stack) - 1 + 2 : k = Len(stack) \/ k = Len(stack) + 1
    BY <1>1
  <1>4. \A k \in Len(stack) .. Len(stack) - 1 + 2 : \E f : f = stack'[k] /\ (Stays(f) \/ Descends(f))
    BY <1>1, <1>2, <1>3
  <1>5. 2 \in 0 .. 2
    OBVIOUS
  <1> QED BY <1>1, <1>4, <1>5, PlacesKept

\* An entry is walked below, under its safe name, with a warning if that is another one.
LEMMA EntryPlaces == ASSUME Calls, Standing, Entry PROVE Onwards
  <1>1. stack # <<>> /\ out' = out /\ OutStep /\ At("list") /\ Now.left # <<>> /\ errors \subseteq errors'
    BY DEF Entry, At, OutStep, Report
  <1>2. Now = stack[Len(stack)] /\ Len(stack) \in 1 .. Len(stack) /\ IsCall(Now)
    BY <1>1, Innermost
  <1>3. PICK h, p : h = Head(Now.left).name /\ p = Append(Now.path, h)
    OBVIOUS
  <1>4. IsSeq(h)
    BY <1>1, <1>3, ListStands DEF NameAndIno, IsSeq
  <1>5. PICK d : d = [Now EXCEPT !.left = Tail(Now.left)]
    OBVIOUS
  <1>6. d.path = Now.path /\ d.dest = Now.dest
    <2>1. SamePlace([Now EXCEPT !.left = Tail(Now.left)], Now, Now.at)
      BY <1>2, Onward DEF IsCall
    <2> QED BY <1>5, <2>1 DEF SamePlace
  <1>7. PICK i, n, e : /\ e = Call(i, p, Append(Now.dest, Sanitize(h)), n)
                       /\ stack' = Append([stack EXCEPT ![Len(stack)].left = Tail(@)], e)
    BY <1>3 DEF Entry
  <1>8. stack' = Append([stack EXCEPT ![Len(stack)] = d], e)
    BY <1>2, <1>5, <1>7
  <1>9. e.path = p /\ e.dest = Append(Now.dest, Sanitize(h))
    BY <1>7 DEF Call
  <1>10. Sanitize(h) # h => <<"renamed", p>> \in errors'
    BY <1>3 DEF Entry, Changed, Report
  <1>11. Descends(e)
    BY <1>2, <1>3, <1>4, <1>9, <1>10 DEF Descends
  <1> QED BY <1>1, <1>6, <1>8, <1>11, DownKeepsPlaces

\* Links, and the other calls, stay where they are.
LEMMA LinkPlaces == ASSUME Calls, Link PROVE Onwards
  <1>1. stack # <<>> /\ errors \subseteq errors'
    BY DEF Link, Readable, Visiting, At
  <1>2. Now = stack[Len(stack)] /\ Len(stack) \in 1 .. Len(stack) /\ IsCall(Now)
    BY <1>1, Innermost
  <1>3. PICK x : x = image.answer[Now.ino]
    OBVIOUS
  <1>4. CASE mode = "plan" /\ (x \in image.sick \/ ~IsDir(x))
    <2>1. OutStep /\ stack' = Front(stack)
      BY <1>3, <1>4 DEF Link, LinkTarget, OutStep, Return
    <2> QED BY <1>1, <2>1, BackKeepsPlaces
  <1>5. CASE ~(mode = "plan" /\ (x \in image.sick \/ ~IsDir(x)))
    <2>1. PICK d : d = [Now EXCEPT !.at = "link"]
      OBVIOUS
    <2>2. PICK e : e = Call(x, Now.path, Now.dest, Now.depth + 1)
      OBVIOUS
    <2>3. stack' = Append([stack EXCEPT ![Len(stack)] = d], e) /\ out' = out
      BY <1>2, <1>3, <1>5, <2>1, <2>2 DEF Link
    <2>4. d.path = Now.path /\ d.dest = Now.dest
      <3>1. SamePlace([Now EXCEPT !.at = "link"], Now, "link")
        BY <1>2, Onward
      <3> QED BY <2>1, <3>1 DEF SamePlace
    <2>5. Stays(e)
      BY <1>2, <2>2 DEF Stays, Call
    <2> QED BY <1>1, <2>3, <2>4, <2>5, DownKeepsPlaces DEF OutStep
  <1> QED BY <1>4, <1>5

\* A directory goes on to its list.
LEMMA DirectoryPlaces == ASSUME Calls, Directory PROVE Onwards
  <1>1. stack # <<>> /\ OutStep /\ errors \subseteq errors'
    BY DEF Directory, Readable, Visiting, At, OutputDir, Output, OutStep, Report
  <1>2. CASE stack' = Front(stack)
    BY <1>1, <1>2, BackKeepsPlaces
  <1>3. CASE stack' # Front(stack)
    <2>1. Now = stack[Len(stack)] /\ IsCall(Now)
      BY <1>1, Innermost
    <2>2. PICK d : d = [Now EXCEPT !.at = "list", !.left = image.list[Now.ino]]
      OBVIOUS
    <2>3. stack' = [stack EXCEPT ![Len(stack)] = d]
      BY <1>3, <2>1, <2>2 DEF Directory, Return
    <2>4. d.path = Now.path /\ d.dest = Now.dest
      <3>1. SamePlace([Now EXCEPT !.at = "list", !.left = image.list[Now.ino]], Now, "list")
        BY <2>1, Onward
      <3> QED BY <2>2, <3>1 DEF SamePlace
    <2> QED BY <1>1, <2>3, <2>4, OnKeepsPlaces
  <1> QED BY <1>2, <1>3

\* Every step does.
LEMMA NextPlaces == Calls /\ Standing /\ [Next]_vars => Onwards
  <1> SUFFICES ASSUME Calls, Standing, [Next]_vars PROVE Onwards
    OBVIOUS
  <1> USE DEF results, progress, flag
  <1>1. CASE UNCHANGED <<stack, out, errors>>
    <2>1. \A k \in 1 .. Len(stack) : Stays(stack[k])
      BY DEF Stays
    <2>2. Len(out) \in Nat /\ IsSeq(out)
      BY LenProperties DEF Calls, IsSeq
    <2> QED BY <1>1, <2>1, <2>2 DEF Onwards
  <1>2. CASE Look
    <2>1. stack # <<>> /\ out' = out /\ OutStep /\ errors \subseteq errors'
      BY <1>2 DEF Look, At, OutStep, Report
    <2>2. CASE stack' = Front(stack)
      BY <2>1, <2>2, BackKeepsPlaces
    <2>3. CASE stack' # Front(stack)
      <3>1. Now = stack[Len(stack)] /\ IsCall(Now)
        BY <2>1, Innermost
      <3>2. PICK d : d = [Now EXCEPT !.at = "visit"]
        OBVIOUS
      <3>3. stack' = [stack EXCEPT ![Len(stack)] = d]
        BY <1>2, <2>3, <3>1, <3>2 DEF Look, Return, MoveTo
      <3>4. d.path = Now.path /\ d.dest = Now.dest
        <4>1. SamePlace([Now EXCEPT !.at = "visit"], Now, "visit")
          BY <3>1, Onward
        <4> QED BY <3>2, <4>1 DEF SamePlace
      <3> QED BY <2>1, <3>3, <3>4, OnKeepsPlaces
    <2> QED BY <2>2, <2>3
  <1>3. CASE Unreadable \/ DiskFails \/ EndOfList \/ BrokenLink \/ File
    <2>1. stack # <<>> /\ OutStep /\ errors \subseteq errors'
      BY <1>3 DEF Unreadable, DiskFails, EndOfList, BrokenLink, File, Readable, Visiting, At,
                  Output, OutStep, Report
    <2>2. stack' = Front(stack)
      BY <1>3 DEF Unreadable, GiveUp, DiskFails, EndOfList, BrokenLink, File, Return
    <2> QED BY <2>1, <2>2, BackKeepsPlaces
  <1>4. CASE SkipDots
    <2>1. stack # <<>> /\ out' = out /\ OutStep /\ errors \subseteq errors'
      BY <1>4 DEF SkipDots, At, OutStep
    <2>2. Now = stack[Len(stack)] /\ IsCall(Now)
      BY <2>1, Innermost
    <2>3. PICK d : d = [Now EXCEPT !.left = Tail(Now.left)]
      OBVIOUS
    <2>4. stack' = [stack EXCEPT ![Len(stack)] = d]
      BY <1>4, <2>2, <2>3 DEF SkipDots
    <2>5. d.path = Now.path /\ d.dest = Now.dest
      <3>1. SamePlace([Now EXCEPT !.left = Tail(Now.left)], Now, Now.at)
        BY <2>2, Onward DEF IsCall
      <3> QED BY <2>3, <3>1 DEF SamePlace
    <2> QED BY <2>1, <2>4, <2>5, OnKeepsPlaces
  <1>5. CASE Resume
    <2>1. stack # <<>> /\ out' = out /\ OutStep /\ errors' = errors
      BY <1>5 DEF Resume, OutStep
    <2>2. stack' = Front(stack) \/ stack' = stack
      BY <1>5 DEF Resume, Return
    <2> QED BY <1>1, <2>1, <2>2, BackKeepsPlaces
  <1>6. CASE PressCancel \/ UNCHANGED vars
    BY <1>1, <1>6 DEF PressCancel, vars
  <1> QED BY <1>2, <1>3, <1>4, <1>5, <1>6, DirectoryPlaces, EntryPlaces, LinkPlaces DEF Next, Walk, Hang

\* Below the destination that was chosen, calls and items have the names that
\* sanitize_name makes of those on the image.
Sanitized(x) ==
    /\ IsSeq(x.path) /\ IsSeq(x.dest) /\ Len(x.dest) = Len(x.path) + 1
    /\ \A n \in 1 .. Len(x.path) : IsSeq(x.path[n]) /\ x.dest[n + 1] = Sanitize(x.path[n])
AllSanitized ==
    /\ \A k \in 1 .. Len(stack) : Sanitized(stack[k])
    /\ \A k \in 1 .. Len(out) : Sanitized(out[k])

\* No step makes another name.
LEMMA NextSanitized == Calls /\ Standing /\ AllSanitized /\ [Next]_vars => AllSanitized'
  <1> SUFFICES ASSUME Calls, Standing, AllSanitized, [Next]_vars PROVE AllSanitized'
    OBVIOUS
  <1>1. Onwards
    BY NextPlaces
  <1>2. ASSUME NEW f, Stays(f) PROVE Sanitized(f)
    BY <1>2 DEF Stays, AllSanitized, Sanitized
  <1>3. ASSUME NEW f, Descends(f) PROVE Sanitized(f)
    <2>0. PICK j \in 1 .. Len(stack) : \E h :
              /\ IsSeq(h)
              /\ f.path = Append(stack[j].path, h) /\ f.dest = Append(stack[j].dest, Sanitize(h))
      BY <1>3 DEF Descends
    <2>1. PICK h :
              /\ IsSeq(h)
              /\ f.path = Append(stack[j].path, h) /\ f.dest = Append(stack[j].dest, Sanitize(h))
      BY <2>0
    <2>2. PICK p, q, u : p = stack[j].path /\ q = stack[j].dest /\ u = Sanitize(h)
      OBVIOUS
    <2>3. /\ IsSeq(p) /\ IsSeq(q) /\ Len(q) = Len(p) + 1
          /\ \A n \in 1 .. Len(p) : IsSeq(p[n]) /\ q[n + 1] = Sanitize(p[n])
      BY <2>2 DEF AllSanitized, Sanitized
    <2>4. /\ IsSeq(f.path) /\ Len(p) \in Nat /\ Len(f.path) = Len(p) + 1
          /\ (\A i \in 1 .. Len(p) : f.path[i] = p[i]) /\ f.path[Len(p) + 1] = h
      BY <2>1, <2>2, <2>3, FrontOfAppend
    <2>5. /\ IsSeq(f.dest) /\ Len(q) \in Nat /\ Len(f.dest) = Len(q) + 1
          /\ (\A i \in 1 .. Len(q) : f.dest[i] = q[i]) /\ f.dest[Len(q) + 1] = u
      BY <2>1, <2>2, <2>3, FrontOfAppend
    <2>6. ASSUME NEW n \in 1 .. Len(f.path)
          PROVE  IsSeq(f.path[n]) /\ f.dest[n + 1] = Sanitize(f.path[n])
      <3>1. CASE n = Len(p) + 1
        BY <2>1, <2>2, <2>3, <2>4, <2>5, <3>1
      <3>2. CASE n # Len(p) + 1
        <4>1. n \in 1 .. Len(p) /\ n + 1 \in 1 .. Len(q)
          BY <2>3, <2>4, <3>2
        <4> QED BY <2>3, <2>4, <2>5, <4>1
      <3> QED BY <3>1, <3>2
    <2>7. Len(f.dest) = Len(f.path) + 1
      BY <2>3, <2>4, <2>5
    <2> QED BY <2>4, <2>5, <2>6, <2>7 DEF Sanitized
  <1>4. ASSUME NEW k \in 1 .. Len(stack') PROVE Sanitized(stack'[k])
    BY <1>1, <1>2, <1>3, <1>4 DEF Onwards
  <1>5. ASSUME NEW k \in 1 .. Len(out') PROVE Sanitized(out'[k])
    BY <1>1, <1>2, <1>5 DEF Onwards, AllSanitized
  <1> QED BY <1>4, <1>5 DEF AllSanitized, Sanitized

\* Of every common name of an image, the name below the destination that was chosen is
\* one that Windows accepts, by a rule that owes nothing to sanitize_name.
THEOREM CommonNamesAreUsable == Spec => []LegalNames
  <1>1. Init => Calls /\ Placed /\ Standing /\ AllSanitized
    <2> SUFFICES ASSUME Init PROVE AllSanitized
      BY InitWalk, InitStands
    <2>1. PICK name \in Given : stack = <<Call(Top, <<>>, <<name>>, 0)>>
      BY DEF Init
    <2>2. Len(stack) = 1 /\ stack[1].dest = <<name>> /\ stack[1].path = <<>> /\ Len(out) = 0
      BY <2>1 DEF Init, Call
    <2>3. IsSeq(<<name>>) /\ Len(<<name>>) = 1 /\ IsSeq(<<>>) /\ Len(<<>>) = 0
      <3>1. <<name>> \in Seq({name}) /\ Len(<<name>>) = 1 /\ <<>> \in Seq({name})
        OBVIOUS
      <3> QED BY <3>1 DEF IsSeq
    <2>4. Sanitized(stack[1])
      BY <2>2, <2>3 DEF Sanitized
    <2> QED BY <2>2, <2>4 DEF AllSanitized
  <1>2. Calls /\ Placed /\ Standing /\ AllSanitized /\ [Next]_vars
            => (Calls /\ Placed /\ Standing /\ AllSanitized)'
    BY NextPlaced, NextStands, NextSanitized
  <1>3. Calls /\ AllSanitized => LegalNames
    <2> SUFFICES ASSUME Calls, AllSanitized, NEW k \in OutRange, NEW n \in 2 .. Len(out[k].dest),
                        Common(out[k].path[n - 1])
                 PROVE  Usable(out[k].dest[n])
      BY DEF LegalNames
    <2>1. Sanitized(out[k])
      BY LenProperties DEF Calls, IsSeq, OutRange, AllSanitized
    <2>2. Len(out[k].path) \in Nat
      BY <2>1, NameIs DEF Sanitized
    <2>3. n - 1 \in 1 .. Len(out[k].path) /\ (n - 1) + 1 = n
      BY <2>1, <2>2 DEF Sanitized
    <2>4. IsSeq(out[k].path[n - 1]) /\ out[k].dest[n] = Sanitize(out[k].path[n - 1])
      BY <2>1, <2>3 DEF Sanitized
    <2> QED BY <2>4, SanitizeIsUsable
  <1> QED BY <1>1, <1>2, <1>3, PTL DEF Spec

-----------------------------------------------------------------------------
(* Names that become one.                                                  *)

\* The warning that one of these names, or of the directories on the way, was changed.
Warned(path) == \E n \in 0 .. Len(path) : <<"renamed", SubSeq(path, 1, n)>> \in errors

\* A copy goes to the place that its own names make, below the name that was chosen.
Straight(x) ==
    Len(x.dest) = Len(x.path) + 1 /\ \A i \in 1 .. Len(x.path) : x.dest[i + 1] = x.path[i]
Honest(x) == IsSeq(x.path) /\ IsSeq(x.dest) /\ (Warned(x.path) \/ Straight(x))
AllHonest ==
    /\ \A k \in 1 .. Len(stack) : Honest(stack[k])
    /\ \A k \in 1 .. Len(out) : Honest(out[k])

\* The beginning of a longer name.
LEMMA SameBeginning ==
    ASSUME NEW s, NEW t, IsSeq(s), IsSeq(t), Len(t) = Len(s) + 1,
           \A i \in 1 .. Len(s) : t[i] = s[i], NEW n \in 0 .. Len(s)
    PROVE  SubSeq(t, 1, n) = SubSeq(s, 1, n) /\ n \in 0 .. Len(t)
  <1>1. PICK S : s \in Seq(S)
    BY DEF IsSeq
  <1>2. Len(s) \in Nat /\ n \in Nat /\ (1 <= n \/ n = 0) /\ n \in 0 .. Len(t)
    BY <1>1
  <1>3. \A i \in 1 .. n : i \in 1 .. Len(s)
    BY <1>2
  <1>4. \A i \in 1 .. n : s[i] \in S /\ t[i] \in S
    BY <1>1, <1>3
  <1>5. /\ SubSeq(s, 1, n) \in Seq(S) /\ Len(SubSeq(s, 1, n)) = n
        /\ \A i \in 1 .. n : SubSeq(s, 1, n)[i] = s[i]
    BY <1>2, <1>4, SubSeqProperties
  <1>6. /\ SubSeq(t, 1, n) \in Seq(S) /\ Len(SubSeq(t, 1, n)) = n
        /\ \A i \in 1 .. n : SubSeq(t, 1, n)[i] = t[i]
    BY <1>2, <1>4, SubSeqProperties
  <1> QED BY <1>2, <1>3, <1>5, <1>6, SeqEqual

\* A step changes no name without a warning.
LEMMA NextHonest == Calls /\ Standing /\ AllHonest /\ [Next]_vars => AllHonest'
  <1> SUFFICES ASSUME Calls, Standing, AllHonest, [Next]_vars PROVE AllHonest'
    OBVIOUS
  <1>1. Onwards /\ errors \subseteq errors'
    BY NextPlaces DEF Onwards
  <1>2. ASSUME NEW f, Honest(f) PROVE Honest(f)'
    BY <1>1, <1>2 DEF Honest, Warned, Straight
  <1>3. ASSUME NEW f, Stays(f) PROVE Honest(f)'
    <2>1. PICK j \in 1 .. Len(stack) : f.path = stack[j].path /\ f.dest = stack[j].dest
      BY <1>3 DEF Stays
    <2>2. Honest(f)
      BY <2>1 DEF AllHonest, Honest, Warned, Straight
    <2> QED BY <1>2, <2>2
  <1>4. ASSUME NEW f, Descends(f) PROVE Honest(f)'
    <2>0. PICK j \in 1 .. Len(stack) : \E h :
              /\ IsSeq(h)
              /\ f.path = Append(stack[j].path, h) /\ f.dest = Append(stack[j].dest, Sanitize(h))
              /\ Sanitize(h) # h => <<"renamed", f.path>> \in errors'
      BY <1>4 DEF Descends
    <2>1. PICK h :
              /\ IsSeq(h)
              /\ f.path = Append(stack[j].path, h) /\ f.dest = Append(stack[j].dest, Sanitize(h))
              /\ Sanitize(h) # h => <<"renamed", f.path>> \in errors'
      BY <2>0
    <2>2. PICK p, q, u : p = stack[j].path /\ q = stack[j].dest /\ u = Sanitize(h)
      OBVIOUS
    <2>3. IsSeq(p) /\ IsSeq(q)
      BY <2>2 DEF AllHonest, Honest
    <2>4. /\ IsSeq(f.path) /\ Len(p) \in Nat /\ Len(f.path) = Len(p) + 1
          /\ (\A i \in 1 .. Len(p) : f.path[i] = p[i]) /\ f.path[Len(p) + 1] = h
      BY <2>1, <2>2, <2>3, FrontOfAppend
    <2>5. /\ IsSeq(f.dest) /\ Len(q) \in Nat /\ Len(f.dest) = Len(q) + 1
          /\ (\A i \in 1 .. Len(q) : f.dest[i] = q[i]) /\ f.dest[Len(q) + 1] = u
      BY <2>1, <2>2, <2>3, FrontOfAppend
    <2>6. CASE Sanitize(h) # h
      <3>1. SubSeq(f.path, 1, Len(f.path)) = f.path
        BY <2>4, WholeName
      <3>2. Len(f.path) \in 0 .. Len(f.path)
        BY <2>4
      <3> QED BY <2>1, <2>4, <2>5, <2>6, <3>1, <3>2 DEF Honest, Warned
    <2>7. CASE Warned(p)
      <3>1. PICK n \in 0 .. Len(p) : <<"renamed", SubSeq(p, 1, n)>> \in errors
        BY <2>7 DEF Warned
      <3>2. SubSeq(f.path, 1, n) = SubSeq(p, 1, n) /\ n \in 0 .. Len(f.path)
        BY <2>3, <2>4, SameBeginning
      <3> QED BY <1>1, <2>4, <2>5, <3>1, <3>2 DEF Honest, Warned
    <2>8. CASE Sanitize(h) = h /\ ~Warned(p)
      <3>1. Len(q) = Len(p) + 1 /\ \A i \in 1 .. Len(p) : q[i + 1] = p[i]
        BY <2>2, <2>8 DEF AllHonest, Honest, Straight
      <3>2. Len(f.dest) = Len(f.path) + 1
        BY <2>4, <2>5, <3>1
      <3>3. ASSUME NEW i \in 1 .. Len(f.path) PROVE f.dest[i + 1] = f.path[i]
        <4>1. CASE i = Len(p) + 1
          BY <2>2, <2>4, <2>5, <2>8, <3>1, <4>1
        <4>2. CASE i # Len(p) + 1
          <5>1. i \in 1 .. Len(p) /\ i + 1 \in 1 .. Len(q)
            BY <2>4, <3>1, <4>2
          <5> QED BY <2>4, <2>5, <3>1, <5>1
        <4> QED BY <4>1, <4>2
      <3>4. Straight(f)
        BY <3>2, <3>3 DEF Straight
      <3> QED BY <2>4, <2>5, <3>4 DEF Honest, Straight
    <2> QED BY <2>6, <2>7, <2>8
  <1>5. ASSUME NEW k \in 1 .. Len(stack') PROVE Honest(stack[k])'
    <2>1. PICK f : f = stack'[k] /\ (Stays(f) \/ Descends(f))
      BY <1>1, <1>5 DEF Onwards
    <2>2. Honest(f)'
      BY <1>3, <1>4, <2>1
    <2> QED BY <2>1, <2>2
  <1>6. ASSUME NEW k \in 1 .. Len(out') PROVE Honest(out[k])'
    <2>1. PICK f : f = out'[k] /\ (Stays(f) \/ (k \in 1 .. Len(out) /\ f = out[k]))
      BY <1>1, <1>6 DEF Onwards
    <2>2. Honest(f)'
      BY <1>2, <1>3, <2>1 DEF AllHonest
    <2> QED BY <2>1, <2>2
  <1> QED BY <1>5, <1>6 DEF AllHonest

\* A place at or below another one, by its path.
Under(p, q) == Len(p) <= Len(q) /\ \A i \in 1 .. Len(p) : q[i] = p[i]

\* The places that a call has still before it.
Ahead(f, p) ==
    \/ f.at \in {"look", "visit"} /\ Under(f.path, p)
    \/ /\ f.at = "list"
       /\ \E m \in DOMAIN f.left :
             f.left[m].name \notin DotNames /\ Under(Append(f.path, f.left[m].name), p)

\* No name twice in a list.
Once(list) ==
    \A i, j \in DOMAIN list : list[i].name = list[j].name /\ list[i].name \notin DotNames => i = j

\* The calls have different places before them, and none at which something is put out
\* already; nothing is put out twice at one.
Apart ==
    /\ \A k \in 1 .. Len(stack) : stack[k].at = "list" => Once(stack[k].left)
    /\ \A j, k \in 1 .. Len(stack) : j # k => \A p : ~(Ahead(stack[j], p) /\ Ahead(stack[k], p))
    /\ \A k \in 1 .. Len(stack) : \A i \in 1 .. Len(out) : ~Ahead(stack[k], out[i].path)
    /\ \A i, j \in 1 .. Len(out) : out[i].path = out[j].path => i = j

\* What takes over from the innermost call must have no more before it than that had.
NoMore(f) == /\ \A p : Ahead(f, p) => Ahead(Now, p)
             /\ f.at = "list" => Once(f.left)

\* A step puts nothing before any call that was before none.
Narrows ==
    \A p : \A k \in 1 .. Len(stack') : Ahead(stack'[k], p) => \E j \in 1 .. Len(stack) : Ahead(stack[j], p)

\* Then the calls stay apart, and have no more before them together than they had.
LEMMA ApartKept ==
    ASSUME Calls, Apart, stack # <<>>, NEW n \in 0 .. 2, Onto(n),
           \A k \in Len(stack) .. Len(stack) - 1 + n : \E f : f = stack'[k] /\ NoMore(f),
           n = 2 => \A p : ~(Ahead(stack'[Len(stack)], p) /\ Ahead(stack'[Len(stack) + 1], p)),
           \/ out' = out
           \/ /\ \E x : out' = Append(out, x) /\ x.path = Now.path
              /\ Ahead(Now, Now.path)
              /\ \A k \in Len(stack) .. Len(stack) - 1 + n :
                    \E f : f = stack'[k] /\ ~Ahead(f, Now.path)
    PROVE  Apart' /\ Narrows
  <1>1. Now = stack[Len(stack)] /\ Len(stack) \in Nat \ {0} /\ Len(out) \in Nat
    BY Innermost
  <1>2. \A k \in 1 .. Len(stack') :
            \/ k \in 1 .. Len(stack) - 1 /\ k \in 1 .. Len(stack) /\ k # Len(stack) /\ stack'[k] = stack[k]
            \/ k \in Len(stack) .. Len(stack) - 1 + n /\ NoMore(stack'[k])
    <2> SUFFICES ASSUME NEW k \in 1 .. Len(stack')
                 PROVE \/ k \in 1 .. Len(stack) - 1 /\ k \in 1 .. Len(stack) /\ k # Len(stack) /\ stack'[k] = stack[k]
                       \/ k \in Len(stack) .. Len(stack) - 1 + n /\ NoMore(stack'[k])
      OBVIOUS
    <2>1. (k \in 1 .. Len(stack) - 1 /\ k \in 1 .. Len(stack) /\ k # Len(stack))
          \/ k \in Len(stack) .. Len(stack) - 1 + n
      BY <1>1 DEF Onto
    <2> QED BY <2>1 DEF Onto
  <1>3. \A p : \A k \in 1 .. Len(stack') : Ahead(stack'[k], p) =>
            \E j \in 1 .. Len(stack) :
               /\ Ahead(stack[j], p)
               /\ (j = k \/ (j = Len(stack) /\ k \in Len(stack) .. Len(stack) - 1 + n))
    <2> SUFFICES ASSUME NEW p, NEW k \in 1 .. Len(stack'), Ahead(stack'[k], p)
                 PROVE  \E j \in 1 .. Len(stack) :
                           /\ Ahead(stack[j], p)
                           /\ (j = k \/ (j = Len(stack) /\ k \in Len(stack) .. Len(stack) - 1 + n))
      OBVIOUS
    <2>1. CASE k \in 1 .. Len(stack) /\ stack'[k] = stack[k]
      BY <2>1
    <2>2. CASE k \in Len(stack) .. Len(stack) - 1 + n /\ NoMore(stack'[k])
      <3>1. Len(stack) \in 1 .. Len(stack)
        BY <1>1
      <3>2. Ahead(stack[Len(stack)], p)
        BY <1>1, <2>2 DEF NoMore
      <3> QED BY <2>2, <3>1, <3>2
    <2> QED BY <1>2, <2>1, <2>2
  <1>0. Narrows
    BY <1>3 DEF Narrows
  <1>4. \A k \in 1 .. Len(stack') : stack'[k].at = "list" => Once(stack'[k].left)
    <2> SUFFICES ASSUME NEW k \in 1 .. Len(stack'), stack'[k].at = "list" PROVE Once(stack'[k].left)
      OBVIOUS
    <2>1. CASE k \in 1 .. Len(stack) /\ stack'[k] = stack[k]
      BY <2>1 DEF Apart
    <2>2. CASE NoMore(stack'[k])
      BY <2>2 DEF NoMore
    <2> QED BY <1>2, <2>1, <2>2
  <1>5. ASSUME NEW j \in 1 .. Len(stack'), NEW k \in 1 .. Len(stack'), j < k, NEW p,
               Ahead(stack'[j], p), Ahead(stack'[k], p)
        PROVE  FALSE
    <2>1. PICK i \in 1 .. Len(stack) :
              Ahead(stack[i], p) /\ (i = j \/ (i = Len(stack) /\ j \in Len(stack) .. Len(stack) - 1 + n))
      BY <1>3, <1>5
    <2>2. PICK h \in 1 .. Len(stack) :
              Ahead(stack[h], p) /\ (h = k \/ (h = Len(stack) /\ k \in Len(stack) .. Len(stack) - 1 + n))
      BY <1>3, <1>5
    <2>3. i = h
      BY <2>1, <2>2 DEF Apart
    <2>4. j \in Len(stack) .. Len(stack) - 1 + n /\ k \in Len(stack) .. Len(stack) - 1 + n
      <3>1. k >= Len(stack)
        BY <1>1, <1>5, <2>1, <2>2, <2>3
      <3>2. j >= Len(stack)
        BY <1>1, <1>5, <2>1, <2>2, <2>3, <3>1
      <3> QED BY <1>1, <3>1, <3>2 DEF Onto
    <2>5. n = 2 /\ j = Len(stack) /\ k = Len(stack) + 1
      BY <1>1, <1>5, <2>4
    <2> QED BY <1>5, <2>5
  <1>6. \A j, k \in 1 .. Len(stack') : j # k => \A p : ~(Ahead(stack'[j], p) /\ Ahead(stack'[k], p))
    <2> SUFFICES ASSUME NEW j \in 1 .. Len(stack'), NEW k \in 1 .. Len(stack'), j # k, NEW p,
                        Ahead(stack'[j], p), Ahead(stack'[k], p)
                 PROVE  FALSE
      OBVIOUS
    <2>1. j < k \/ k < j
      BY DEF Onto
    <2> QED BY <1>5, <2>1
  <1>7. ASSUME out' = out PROVE Apart'
    <2>1. \A k \in 1 .. Len(stack') : \A i \in 1 .. Len(out) : ~Ahead(stack'[k], out[i].path)
      BY <1>3 DEF Apart
    <2>2. \A k \in 1 .. Len(stack') : \A i \in 1 .. Len(out') : ~Ahead(stack'[k], out'[i].path)
      BY <1>7, <2>1
    <2>3. \A i, j \in 1 .. Len(out') : out'[i].path = out'[j].path => i = j
      BY <1>7 DEF Apart
    <2> QED BY <1>4, <1>6, <2>2, <2>3 DEF Apart, Ahead, Under, Once
  <1>8. ASSUME out' # out PROVE Apart'
    <2>1. PICK x : out' = Append(out, x) /\ x.path = Now.path
      BY <1>8
    <2>2. PICK p0 : p0 = Now.path
      OBVIOUS
    <2>3. Ahead(Now, p0) /\ \A k \in Len(stack) .. Len(stack) - 1 + n : ~Ahead(stack'[k], p0)
      BY <1>8, <2>2
    <2>4. /\ Len(out') = Len(out) + 1 /\ out'[Len(out) + 1].path = p0
          /\ \A k \in 1 .. Len(out) : out'[k] = out[k]
      BY <2>1, <2>2, OneItem DEF Grows
    <2>5. \A i \in 1 .. Len(out') : i = Len(out) + 1 \/ (i \in 1 .. Len(out) /\ i # Len(out) + 1)
      BY <1>1, <2>4
    <2>6. \A k \in 1 .. Len(stack') : ~Ahead(stack'[k], p0)
      <3>1. Len(stack) \in 1 .. Len(stack)
        BY <1>1
      <3> QED BY <1>1, <1>2, <2>3, <3>1 DEF Apart
    <2>7. \A k \in 1 .. Len(stack') : \A i \in 1 .. Len(out') : ~Ahead(stack'[k], out'[i].path)
      BY <1>3, <2>4, <2>5, <2>6 DEF Apart
    <2>8. \A i \in 1 .. Len(out) : out[i].path # p0
      <3>1. Len(stack) \in 1 .. Len(stack)
        BY <1>1
      <3> QED BY <1>1, <2>3, <3>1 DEF Apart
    <2>9. \A i, j \in 1 .. Len(out') : out'[i].path = out'[j].path => i = j
      BY <2>4, <2>5, <2>8 DEF Apart
    <2> QED BY <1>4, <1>6, <2>7, <2>9 DEF Apart, Ahead, Under, Once
  <1> QED BY <1>0, <1>7, <1>8

\* A call that returns leaves the others as they are.
LEMMA BackApart ==
    ASSUME Calls, Apart, stack # <<>>, stack' = Front(stack),
           \/ out' = out
           \/ /\ \E x : out' = Append(out, x) /\ x.path = Now.path
              /\ Now.at = "visit"
    PROVE  Apart' /\ Narrows
  <1>1. Onto(0) /\ Len(stack) \in Nat
    BY Pops, Innermost
  <1>2. Len(stack) .. Len(stack) - 1 + 0 = {} /\ 0 \in 0 .. 2
    BY <1>1
  <1>3. Now.at = "visit" => Ahead(Now, Now.path)
    <2>1. IsSeq(Now.path)
      BY Innermost DEF IsCall
    <2>2. Len(Now.path) \in Nat
      BY <2>1, LenProperties DEF IsSeq
    <2> QED BY <2>2 DEF Ahead, Under
  <1> QED BY <1>1, <1>2, <1>3, ApartKept

\* One that goes on has no more before it.
LEMMA OnApart ==
    ASSUME Calls, Apart, stack # <<>>, out' = out,
           NEW d, NoMore(d), stack' = [stack EXCEPT ![Len(stack)] = d]
    PROVE  Apart' /\ Narrows
  <1>1. /\ Onto(1) /\ stack'[Len(stack)] = d
    BY GoesOn
  <1>2. Len(stack) \in Nat
    BY Innermost
  <1>3. \A k \in Len(stack) .. Len(stack) - 1 + 1 : k = Len(stack)
    BY <1>2
  <1>4. \A k \in Len(stack) .. Len(stack) - 1 + 1 : \E f : f = stack'[k] /\ NoMore(f)
    BY <1>1, <1>3
  <1>5. 1 \in 0 .. 2 /\ 1 # 2
    OBVIOUS
  <1> QED BY <1>1, <1>4, <1>5, ApartKept

\* One that waits shares with the new one what it had.
LEMMA DownApart ==
    ASSUME Calls, Apart, stack # <<>>, out' = out,
           NEW d, NoMore(d), NEW e, NoMore(e), \A p : ~(Ahead(d, p) /\ Ahead(e, p)),
           stack' = Append([stack EXCEPT ![Len(stack)] = d], e)
    PROVE  Apart' /\ Narrows
  <1>1. /\ Onto(2) /\ stack'[Len(stack)] = d /\ stack'[Len(stack) + 1] = e
    BY Pushes
  <1>2. Len(stack) \in Nat
    BY Innermost
  <1>3. \A k \in Len(stack) .. Len(stack) - 1 + 2 : k = Len(stack) \/ k = Len(stack) + 1
    BY <1>2
  <1>4. \A k \in Len(stack) .. Len(stack) - 1 + 2 : \E f : f = stack'[k] /\ NoMore(f)
    BY <1>1, <1>3
  <1>5. \A p : ~(Ahead(stack'[Len(stack)], p) /\ Ahead(stack'[Len(stack) + 1], p))
    BY <1>1
  <1>6. 2 \in 0 .. 2
    OBVIOUS
  <1> QED BY <1>1, <1>4, <1>5, <1>6, ApartKept

\* What is below an entry is below the directory, and not the directory itself.
LEMMA BelowEntry ==
    ASSUME NEW s, IsSeq(s), NEW h, NEW p, Under(Append(s, h), p)
    PROVE  Under(s, p) /\ p # s /\ p[Len(s) + 1] = h
  <1>1. /\ Len(s) \in Nat /\ Len(Append(s, h)) = Len(s) + 1
        /\ \A k \in 1 .. Len(s) : Append(s, h)[k] = s[k]
        /\ Append(s, h)[Len(s) + 1] = h
    BY FrontOfAppend
  <1>2. Len(s) + 1 <= Len(p) /\ \A i \in 1 .. Len(s) + 1 : p[i] = Append(s, h)[i]
    BY <1>1 DEF Under
  <1>3. p # s
    BY <1>1, <1>2
  <1>4. p[Len(s) + 1] = h
    BY <1>1, <1>2
  <1>5. \A i \in 1 .. Len(s) : p[i] = s[i]
    BY <1>1, <1>2
  <1> QED BY <1>1, <1>2, <1>3, <1>4, <1>5 DEF Under

\* A directory has its entries before it, and is put out itself.
LEMMA DirectoryApart ==
    ASSUME NamesUnique, Calls, Standing, Apart, Directory
    PROVE  Apart' /\ Narrows
  <1> DEFINE item == [kind |-> "dir", ino |-> Now.ino, path |-> Now.path, dest |-> Now.dest]
  <1>1. stack # <<>> /\ Now.at = "visit" /\ out' = Append(out, item)
    BY DEF Directory, Readable, Visiting, At, OutputDir, Output
  <1>2. Now = stack[Len(stack)] /\ Len(stack) \in Nat \ {0} /\ IsCall(Now) /\ Now.ino \in Ino
    BY <1>1, Innermost DEF Standing, Stands
  <1>3. item.path = Now.path
    OBVIOUS
  <1> HIDE DEF item
  <1>4. CASE stack' = Front(stack)
    BY <1>1, <1>3, <1>4, BackApart
  <1>5. CASE stack' # Front(stack)
    <2>1. PICK d : d = [Now EXCEPT !.at = "list", !.left = image.list[Now.ino]]
      OBVIOUS
    <2>2. stack' = [stack EXCEPT ![Len(stack)] = d]
      BY <1>2, <1>5, <2>1 DEF Directory, Return
    <2>3. d.at = "list" /\ d.path = Now.path /\ d.left = image.list[Now.ino]
      <3>1. SamePlace([Now EXCEPT !.at = "list", !.left = image.list[Now.ino]], Now, "list")
        BY <1>2, Onward
      <3>2. [Now EXCEPT !.at = "list", !.left = image.list[Now.ino]].left = image.list[Now.ino]
        BY <1>2 DEF IsCall
      <3> QED BY <2>1, <3>1, <3>2 DEF SamePlace
    <2>4. Once(d.left)
      <3>1. image \in Image /\ image.kind[Now.ino] = "dir"
        BY DEF Standing, Directory, Readable
      <3> QED BY <1>2, <2>3, <3>1 DEF Once, NamesUnique
    <2>5. ASSUME NEW p, Ahead(d, p) PROVE Under(Now.path, p) /\ p # Now.path
      <3>1. PICK h : Under(Append(Now.path, h), p)
        BY <2>3, <2>5 DEF Ahead
      <3>2. IsSeq(Now.path)
        BY <1>2 DEF IsCall
      <3> QED BY <3>1, <3>2, BelowEntry
    <2>6. NoMore(d) /\ ~Ahead(d, Now.path)
      BY <1>1, <2>4, <2>5 DEF NoMore, Ahead
    <2>7. Onto(1) /\ stack'[Len(stack)] = d
      BY <1>1, <2>2, GoesOn
    <2>8. \A k \in Len(stack) .. Len(stack) - 1 + 1 : k = Len(stack)
      BY <1>2
    <2>9. \A k \in Len(stack) .. Len(stack) - 1 + 1 :
              /\ \E f : f = stack'[k] /\ NoMore(f)
              /\ \E f : f = stack'[k] /\ ~Ahead(f, Now.path)
      BY <2>6, <2>7, <2>8
    <2>10. Ahead(Now, Now.path)
      <3>1. Len(Now.path) \in Nat
        BY <1>2, LenProperties DEF IsCall, IsSeq
      <3> QED BY <1>1, <3>1 DEF Ahead, Under
    <2>11. 1 \in 0 .. 2 /\ 1 # 2
      OBVIOUS
    <2> QED BY <1>1, <1>3, <2>7, <2>9, <2>10, <2>11, ApartKept
  <1> QED BY <1>4, <1>5

\* An entry is taken from the list, and nothing else of that name is left in it.
LEMMA ListApart ==
    ASSUME Calls, Standing, Apart, Entry \/ SkipDots
    PROVE  Apart' /\ Narrows
  <1>1. /\ stack # <<>> /\ out' = out /\ Now.at = "list" /\ Now.left # <<>>
    BY DEF Entry, SkipDots, At, results
  <1>2. /\ Now = stack[Len(stack)] /\ Len(stack) \in Nat \ {0} /\ IsCall(Now) /\ Stands(Now)
        /\ Once(Now.left)
    <2>1. Now = stack[Len(stack)] /\ Len(stack) \in Nat \ {0} /\ IsCall(Now)
      BY <1>1, Innermost
    <2>2. Len(stack) \in 1 .. Len(stack)
      BY <2>1
    <2> QED BY <1>1, <2>1, <2>2 DEF Standing, Apart
  <1>3. /\ Head(Now.left) = Now.left[1] /\ 1 \in DOMAIN Now.left
        /\ \A m \in DOMAIN Tail(Now.left) :
              m + 1 \in DOMAIN Now.left /\ Tail(Now.left)[m] = Now.left[m + 1] /\ m \in Nat \ {0}
    <2>1. Now.left \in Seq(NameAndIno)
      BY <1>1, <1>2 DEF Stands
    <2>2. /\ Head(Now.left) = Now.left[1] /\ 1 \in DOMAIN Now.left /\ Tail(Now.left) \in Seq(NameAndIno)
          /\ \A m \in DOMAIN Tail(Now.left) : m + 1 \in DOMAIN Now.left /\ Tail(Now.left)[m] = Now.left[m + 1]
      BY <1>1, <2>1, TailIs
    <2>3. \A m \in DOMAIN Tail(Now.left) : m \in Nat \ {0}
      <3>1. DOMAIN Tail(Now.left) = 1 .. Len(Tail(Now.left)) /\ Len(Tail(Now.left)) \in Nat
        BY <2>2, LenProperties
      <3> QED BY <3>1
    <2> QED BY <2>2, <2>3
  <1>4. PICK h, q : h = Head(Now.left) /\ q = Now.path
    OBVIOUS
  <1>5. PICK d : d = [Now EXCEPT !.left = Tail(Now.left)]
    OBVIOUS
  <1>6. d.at = "list" /\ d.path = q /\ d.left = Tail(Now.left)
    <2>1. SamePlace([Now EXCEPT !.left = Tail(Now.left)], Now, Now.at)
      BY <1>2, Onward
    <2>2. [Now EXCEPT !.left = Tail(Now.left)].left = Tail(Now.left)
      BY <1>2 DEF IsCall
    <2> QED BY <1>1, <1>4, <1>5, <2>1, <2>2 DEF SamePlace
  <1>7. Once(d.left)
    <2> SUFFICES ASSUME NEW i \in DOMAIN d.left, NEW j \in DOMAIN d.left,
                        d.left[i].name = d.left[j].name, d.left[i].name \notin DotNames
                 PROVE  i = j
      BY DEF Once
    <2>1. i + 1 = j + 1 /\ i \in Nat /\ j \in Nat
      BY <1>2, <1>3, <1>6 DEF Once
    <2> QED BY <2>1
  <1>8. NoMore(d)
    <2> SUFFICES ASSUME NEW p, Ahead(d, p) PROVE Ahead(Now, p)
      BY <1>7 DEF NoMore
    <2>1. PICK m \in DOMAIN d.left :
              d.left[m].name \notin DotNames /\ Under(Append(q, d.left[m].name), p)
      BY <1>6 DEF Ahead
    <2>2. m + 1 \in DOMAIN Now.left /\ d.left[m] = Now.left[m + 1]
      BY <1>3, <1>6
    <2> QED BY <1>1, <1>4, <2>1, <2>2 DEF Ahead
  <1>9. CASE Entry
    <2>1. PICK dest, depth : stack' = Append([stack EXCEPT ![Len(stack)].left = Tail(@)],
                     Call(h.ino, Append(q, h.name), dest, depth))
      BY <1>4, <1>9 DEF Entry
    <2>2. PICK e : e = Call(h.ino, Append(q, h.name), dest, depth)
      OBVIOUS
    <2>3. stack' = Append([stack EXCEPT ![Len(stack)] = d], e)
      BY <1>2, <1>5, <2>1, <2>2
    <2>4. e.at = "look" /\ e.path = Append(q, h.name) /\ h.name \notin DotNames
      BY <1>4, <1>9, <2>2 DEF Call, Entry
    <2>5. NoMore(e)
      BY <1>1, <1>3, <1>4, <2>4 DEF NoMore, Ahead
    <2>6. ASSUME NEW p, Ahead(d, p), Ahead(e, p) PROVE FALSE
      <3>1. PICK m \in DOMAIN d.left :
                d.left[m].name \notin DotNames /\ Under(Append(q, d.left[m].name), p)
        BY <1>6, <2>6 DEF Ahead
      <3>2. Under(Append(q, h.name), p)
        BY <2>4, <2>6 DEF Ahead
      <3>3. IsSeq(q)
        BY <1>2, <1>4 DEF IsCall
      <3>4. d.left[m].name = h.name
        BY <3>1, <3>2, <3>3, BelowEntry
      <3>5. m + 1 = 1 /\ m \in Nat \ {0}
        BY <1>2, <1>3, <1>4, <1>6, <2>4, <3>4 DEF Once
      <3> QED BY <3>5
    <2> QED BY <1>1, <1>8, <2>3, <2>5, <2>6, DownApart
  <1>10. CASE SkipDots
    <2>1. stack' = [stack EXCEPT ![Len(stack)] = d]
      BY <1>2, <1>5, <1>10 DEF SkipDots
    <2> QED BY <1>1, <1>8, <2>1, OnApart
  <1> QED BY <1>9, <1>10

\* A link leaves its place to what it leads to.
LEMMA LinkApart ==
    ASSUME Calls, Apart, Link
    PROVE  Apart' /\ Narrows
  <1>1. stack # <<>> /\ Now.at = "visit"
    BY DEF Link, Readable, Visiting, At
  <1>2. Now = stack[Len(stack)] /\ IsCall(Now)
    BY <1>1, Innermost
  <1>3. PICK x : x = image.answer[Now.ino]
    OBVIOUS
  <1>4. CASE mode = "plan" /\ (x \in image.sick \/ ~IsDir(x))
    <2>1. /\ out' = Append(out, [kind |-> "file", ino |-> x, path |-> Now.path, dest |-> Now.dest])
          /\ stack' = Front(stack)
      BY <1>3, <1>4 DEF Link, LinkTarget, Return
    <2>2. \E item : out' = Append(out, item) /\ item.path = Now.path
      BY <2>1
    <2> QED BY <1>1, <2>1, <2>2, BackApart
  <1>5. CASE ~(mode = "plan" /\ (x \in image.sick \/ ~IsDir(x)))
    <2>1. PICK d : d = [Now EXCEPT !.at = "link"]
      OBVIOUS
    <2>2. PICK e : e = Call(x, Now.path, Now.dest, Now.depth + 1)
      OBVIOUS
    <2>3. stack' = Append([stack EXCEPT ![Len(stack)] = d], e) /\ out' = out
      BY <1>2, <1>3, <1>5, <2>1, <2>2 DEF Link
    <2>4. d.at = "link"
      <3>1. SamePlace([Now EXCEPT !.at = "link"], Now, "link")
        BY <1>2, Onward
      <3> QED BY <2>1, <3>1 DEF SamePlace
    <2>5. e.at = "look" /\ e.path = Now.path
      BY <2>2 DEF Call
    <2>6. NoMore(d) /\ \A p : ~Ahead(d, p)
      BY <2>4 DEF NoMore, Ahead
    <2>7. NoMore(e)
      BY <1>1, <2>5 DEF NoMore, Ahead
    <2> QED BY <1>1, <2>3, <2>6, <2>7, DownApart
  <1> QED BY <1>4, <1>5

\* No step brings two calls to one place.
LEMMA NextApart == NamesUnique /\ Calls /\ Standing /\ Apart /\ [Next]_vars => Apart' /\ Narrows
  <1> SUFFICES ASSUME NamesUnique, Calls, Standing, Apart, [Next]_vars PROVE Apart' /\ Narrows
    OBVIOUS
  <1> USE DEF results, progress, flag
  <1>1. CASE UNCHANGED <<stack, out>>
    <2>1. \A k \in 1 .. Len(stack') : stack'[k].at = "list" => Once(stack'[k].left)
      BY <1>1 DEF Apart
    <2>2. \A j, k \in 1 .. Len(stack') : j # k => \A p : ~(Ahead(stack'[j], p) /\ Ahead(stack'[k], p))
      BY <1>1 DEF Apart
    <2>3. \A k \in 1 .. Len(stack') : \A i \in 1 .. Len(out') : ~Ahead(stack'[k], out'[i].path)
      BY <1>1 DEF Apart
    <2>4. \A i, j \in 1 .. Len(out') : out'[i].path = out'[j].path => i = j
      BY <1>1 DEF Apart
    <2>5. Apart'
      BY <2>1, <2>2, <2>3, <2>4 DEF Apart, Ahead, Under, Once
    <2> QED BY <1>1, <2>5 DEF Narrows
  <1>2. CASE Look
    <2>1. stack # <<>> /\ out' = out /\ Now.at = "look"
      BY <1>2 DEF Look, At
    <2>2. CASE stack' = Front(stack)
      BY <2>1, <2>2, BackApart
    <2>3. CASE stack' # Front(stack)
      <3>1. Now = stack[Len(stack)] /\ IsCall(Now)
        BY <2>1, Innermost
      <3>2. PICK d : d = [Now EXCEPT !.at = "visit"]
        OBVIOUS
      <3>3. stack' = [stack EXCEPT ![Len(stack)] = d]
        BY <1>2, <2>3, <3>1, <3>2 DEF Look, Return, MoveTo
      <3>4. d.at = "visit" /\ d.path = Now.path
        <4>1. SamePlace([Now EXCEPT !.at = "visit"], Now, "visit")
          BY <3>1, Onward
        <4> QED BY <3>2, <4>1 DEF SamePlace
      <3>5. NoMore(d)
        BY <2>1, <3>4 DEF NoMore, Ahead
      <3> QED BY <2>1, <3>3, <3>5, OnApart
    <2> QED BY <2>2, <2>3
  <1>3. CASE Unreadable \/ DiskFails \/ EndOfList \/ BrokenLink
    <2>1. stack # <<>> /\ out' = out /\ stack' = Front(stack)
      BY <1>3 DEF Unreadable, GiveUp, DiskFails, EndOfList, BrokenLink, Readable, Visiting, At, Return
    <2> QED BY <2>1, BackApart
  <1>4. CASE File
    <2>1. /\ stack # <<>> /\ stack' = Front(stack) /\ Now.at = "visit"
          /\ out' = Append(out, [kind |-> "file", ino |-> Now.ino, path |-> Now.path, dest |-> Now.dest])
      BY <1>4 DEF File, Readable, Visiting, At, Return, Output
    <2>2. \E item : out' = Append(out, item) /\ item.path = Now.path
      BY <2>1
    <2> QED BY <2>1, <2>2, BackApart
  <1>5. CASE Resume
    <2>1. stack # <<>> /\ out' = out /\ (stack' = Front(stack) \/ stack' = stack)
      BY <1>5 DEF Resume, Return
    <2> QED BY <1>1, <2>1, BackApart
  <1>6. CASE PressCancel \/ UNCHANGED vars
    BY <1>1, <1>6 DEF PressCancel, vars
  <1> QED BY <1>2, <1>3, <1>4, <1>5, <1>6, DirectoryApart, ListApart, LinkApart DEF Next, Walk, Hang

\* If no directory has a name twice: whatever sanitize_name makes of the names, two copies
\* that go to one place have a warning for one of them.
THEOREM NoSilentClash == NamesUnique => (Spec => []ClashesReported)
  <1> SUFFICES ASSUME NamesUnique PROVE Spec => []ClashesReported
    OBVIOUS
  <1> DEFINE Inv == Calls /\ Placed /\ Standing /\ AllHonest /\ Apart
  <1>1. Init => Inv
    <2> SUFFICES ASSUME Init PROVE AllHonest /\ Apart
      BY InitWalk, InitStands
    <2>1. PICK name \in Given : stack = <<Call(Top, <<>>, <<name>>, 0)>>
      BY DEF Init
    <2>2. /\ Len(stack) = 1 /\ Len(out) = 0
          /\ stack[1].path = <<>> /\ stack[1].dest = <<name>> /\ stack[1].at = "look"
      BY <2>1 DEF Init, Call
    <2>3. /\ IsSeq(<<name>>) /\ IsSeq(<<>>) /\ Len(<<name>>) = 1 /\ Len(<<>>) = 0
      <3>1. <<name>> \in Seq({name}) /\ <<>> \in Seq({name}) /\ Len(<<name>>) = 1 /\ Len(<<>>) = 0
        OBVIOUS
      <3> QED BY <3>1 DEF IsSeq
    <2>4. Honest(stack[1])
      BY <2>2, <2>3 DEF Honest, Straight
    <2> QED BY <2>2, <2>4 DEF AllHonest, Apart
  <1>2. Inv /\ [Next]_vars => Inv'
    BY NextPlaced, NextStands, NextHonest, NextApart
  <1>3. Inv => ClashesReported
    <2> SUFFICES ASSUME Inv, NEW j \in OutRange, NEW k \in OutRange, j # k,
                        out[j].dest = out[k].dest
                 PROVE  Renamed(out[j].path) \/ Renamed(out[k].path)
      BY DEF ClashesReported
    <2>1. OutRange = 1 .. Len(out)
      BY LenProperties DEF Calls, IsSeq, OutRange
    <2>2. Honest(out[j]) /\ Honest(out[k])
      BY <2>1 DEF AllHonest
    <2>3. ASSUME NEW x, IsSeq(x), Warned(x) PROVE Renamed(x)
      <3>1. PICK n \in 0 .. Len(x) : <<"renamed", SubSeq(x, 1, n)>> \in errors
        BY <2>3 DEF Warned
      <3>2. /\ IsSeq(SubSeq(x, 1, n)) /\ Len(SubSeq(x, 1, n)) = n
        BY <2>3, BeginningOf
      <3>3. SubSeq(SubSeq(x, 1, n), 1, Len(SubSeq(x, 1, n))) = SubSeq(x, 1, n)
        BY <3>2, WholeName
      <3>4. IsPrefix(SubSeq(x, 1, n), x)
        <4>1. Len(SubSeq(x, 1, n)) <= Len(x)
          BY <2>3, <3>2, NameIs
        <4> QED BY <3>2, <3>3, <4>1 DEF IsPrefix
      <3> QED BY <3>1, <3>4 DEF Renamed
    <2>4. ~(Straight(out[j]) /\ Straight(out[k]))
      <3> SUFFICES ASSUME Straight(out[j]), Straight(out[k]) PROVE FALSE
        OBVIOUS
      <3>1. PICK p, q : p = out[j].path /\ q = out[k].path
        OBVIOUS
      <3>2. IsSeq(p) /\ IsSeq(q) /\ Len(p) \in Nat /\ Len(q) \in Nat
        BY <2>2, <3>1, NameIs DEF Honest
      <3>3. Len(p) = Len(q) /\ \A i \in 1 .. Len(p) : p[i] = q[i]
        BY <3>1, <3>2 DEF Straight
      <3>4. p = q
        <4>1. PICK S, T : p \in Seq(S) /\ q \in Seq(T)
          BY <3>2 DEF IsSeq
        <4>2. p \in Seq(S \cup T) /\ q \in Seq(S \cup T)
          BY <4>1
        <4> QED BY <3>3, <4>2, SeqEqual
      <3> QED BY <2>1, <3>1, <3>4 DEF Apart
    <2> QED BY <2>2, <2>3, <2>4 DEF Honest
  <1> QED BY <1>1, <1>2, <1>3, PTL DEF Spec

-----------------------------------------------------------------------------
(* Counting.                                                               *)

\* A rule that leads from each value to the next one, and what it leads to.
Rule(S, a, n, F) == a \in S /\ n \in Nat /\ F \in [(1 .. n) \X S -> S]
Follows(S, a, n, F, b) ==
    /\ b \in [0 .. n -> S] /\ b[0] = a
    /\ \A k \in 1 .. n : b[k] = F[<<k, b[k - 1]>>]

\* A rule can be followed n times.
LEMMA RulesLead ==
    ASSUME NEW S, NEW a, NEW n, NEW F, Rule(S, a, n, F)
    PROVE  \E b : Follows(S, a, n, F, b)
  <1> DEFINE To(m, b) == /\ b \in [0 .. m -> S] /\ b[0] = a
                         /\ \A k \in 1 .. m : b[k] = F[<<k, b[k - 1]>>]
             Bad == {m \in 0 .. n : ~\E b : To(m, b)}
  <1> USE DEF Rule
  <1> SUFFICES ASSUME Bad # {} PROVE FALSE
    <2>1. n \in 0 .. n
      OBVIOUS
    <2> QED BY <2>1 DEF Follows
  <1>1. Bad \in SUBSET Nat
    OBVIOUS
  <1> HIDE DEF Bad
  <1>2. Min(Bad) \in Bad /\ \A m \in Bad : Min(Bad) <= m
    BY <1>1, Least
  <1>3. PICK m : m \in Bad /\ \A l \in Bad : m <= l
    BY <1>2
  <1> USE DEF Bad
  <1>4. m # 0
    <2> DEFINE b == [k \in 0 .. 0 |-> a]
    <2>1. To(0, b)
      OBVIOUS
    <2> QED BY <1>3, <2>1
  <1>5. m \in 1 .. n /\ m - 1 \in 0 .. n /\ m - 1 \notin Bad
    BY <1>3, <1>4
  <1>6. PICK b : To(m - 1, b)
    BY <1>5
  <1> DEFINE c == [k \in 0 .. m |-> IF k = m THEN F[<<m, b[m - 1]>>] ELSE b[k]]
  <1>7. /\ b \in [0 .. m - 1 -> S] /\ b[0] = a
        /\ \A k \in 1 .. m - 1 : b[k] = F[<<k, b[k - 1]>>]
    BY <1>6
  <1>8. m - 1 \in 0 .. m - 1 /\ F[<<m, b[m - 1]>>] \in S
    <2>1. m - 1 \in 0 .. m - 1
      BY <1>5
    <2>2. b[m - 1] \in S
      BY <1>7, <2>1
    <2> QED BY <1>5, <2>1, <2>2
  <1>9. c \in [0 .. m -> S] /\ c[0] = a
    <2>1. \A k \in 0 .. m : k # m => k \in 0 .. m - 1
      BY <1>5
    <2> QED BY <1>5, <1>7, <1>8, <2>1
  <1>10. ASSUME NEW k \in 1 .. m PROVE c[k] = F[<<k, c[k - 1]>>]
    <2>1. k - 1 \in 0 .. m /\ k - 1 # m /\ k \in 0 .. m
      BY <1>5
    <2>2. c[k - 1] = b[k - 1]
      BY <2>1
    <2>3. CASE k = m
      BY <2>1, <2>2, <2>3
    <2>4. CASE k # m
      <3>1. k \in 1 .. m - 1
        BY <1>5, <2>4
      <3>2. c[k] = b[k]
        BY <2>1, <2>4
      <3> QED BY <1>7, <2>2, <3>1, <3>2
    <2> QED BY <2>3, <2>4
  <1> HIDE DEF c
  <1>11. To(m, c)
    BY <1>9, <1>10
  <1> QED BY <1>3, <1>11

\* Two that begin alike and go on alike are alike.
Alike(n, b, c) == b[0] = c[0] /\ \A k \in 1 .. n : b[k - 1] = c[k - 1] => b[k] = c[k]

\* To the end.
LEMMA GoAlike ==
    ASSUME NEW n \in Nat, NEW b, NEW c, Alike(n, b, c)
    PROVE  \A k \in 0 .. n : b[k] = c[k]
  <1> USE DEF Alike
  <1> DEFINE Off == {k \in 0 .. n : b[k] # c[k]}
  <1> SUFFICES ASSUME Off # {} PROVE FALSE
    OBVIOUS
  <1>1. Off \in SUBSET Nat
    OBVIOUS
  <1> HIDE DEF Off
  <1>2. Min(Off) \in Off /\ \A m \in Off : Min(Off) <= m
    BY <1>1, Least
  <1>3. PICK m : m \in Off /\ \A l \in Off : m <= l
    BY <1>2
  <1> USE DEF Off
  <1>4. m \in 1 .. n /\ m - 1 \in 0 .. n /\ m - 1 \notin Off
    BY <1>3
  <1> QED BY <1>3, <1>4

\* The sums of the shares of the first entries.
Sums(s, list, of) ==
    /\ s \in [0 .. Len(list) -> Nat] /\ s[0] = 0
    /\ \A i \in 1 .. Len(list) : s[i] = s[i - 1] + Share(list[i], of)

\* There are such sums.
LEMMA SumsExist ==
    ASSUME NEW list \in Seq(NameAndIno), NEW of \in [Ino -> Nat]
    PROVE  /\ \A i \in 1 .. Len(list) : Share(list[i], of) \in Nat
           /\ \E s : Sums(s, list, of)
  <1>1. Len(list) \in Nat /\ \A i \in 1 .. Len(list) : list[i] \in NameAndIno
    BY LenProperties
  <1>2. \A i \in 1 .. Len(list) : Share(list[i], of) \in Nat
    BY <1>1 DEF Share, NameAndIno
  <1> DEFINE F == [q \in (1 .. Len(list)) \X Nat |-> q[2] + Share(list[q[1]], of)]
  <1>3. F \in [(1 .. Len(list)) \X Nat -> Nat]
    <2> SUFFICES ASSUME NEW q \in (1 .. Len(list)) \X Nat PROVE q[2] + Share(list[q[1]], of) \in Nat
      OBVIOUS
    <2> QED BY <1>2
  <1>4. \A i \in 1 .. Len(list), m \in Nat : F[<<i, m>>] = m + Share(list[i], of)
    OBVIOUS
  <1> HIDE DEF F
  <1>a. Rule(Nat, 0, Len(list), F)
    BY <1>1, <1>3 DEF Rule
  <1>b. PICK s : Follows(Nat, 0, Len(list), F, s)
    BY <1>a, RulesLead
  <1>5. /\ s \in [0 .. Len(list) -> Nat] /\ s[0] = 0
        /\ \A i \in 1 .. Len(list) : s[i] = F[<<i, s[i - 1]>>]
    BY <1>b DEF Follows
  <1>6. ASSUME NEW i \in 1 .. Len(list) PROVE s[i] = s[i - 1] + Share(list[i], of)
    <2>1. i - 1 \in 0 .. Len(list)
      BY <1>1
    <2>2. s[i - 1] \in Nat
      BY <1>5, <2>1
    <2> QED BY <1>4, <1>5, <2>2
  <1> QED BY <1>2, <1>5, <1>6 DEF Sums

\* The last of them is what the directory gathers.
LEMMA GatheredIs ==
    ASSUME NEW x, Len(image.list[x]) \in Nat, NEW of, NEW s, Sums(s, image.list[x], of)
    PROVE  Gathered(x, of) = s[Len(image.list[x])]
  <1> DEFINE n == Len(image.list[x])
             Ups(g) == g = [i \in 0 .. n |->
                              IF i = 0 THEN 0 ELSE g[i - 1] + Share(image.list[x][i], of)]
  <1>0. n \in Nat
    OBVIOUS
  <1>1. s = [i \in 0 .. n |-> s[i]] /\ s[0] = 0
        /\ \A i \in 1 .. n : s[i] = s[i - 1] + Share(image.list[x][i], of)
    BY DEF Sums
  <1>2. ASSUME NEW i \in 0 .. n
        PROVE  s[i] = IF i = 0 THEN 0 ELSE s[i - 1] + Share(image.list[x][i], of)
    <2>1. i = 0 \/ i \in 1 .. n
      BY <1>0
    <2>2. i \in 1 .. n => i # 0
      BY <1>0
    <2> HIDE DEF n
    <2> QED BY <1>1, <2>1, <2>2
  <1>3. Ups(s)
    BY <1>1, <1>2
  <1> DEFINE g == CHOOSE f : Ups(f)
  <1>4. Ups(g)
    BY <1>3
  <1>5. Gathered(x, of) = g[n]
    BY DEF Gathered
  <1> HIDE DEF g
  <1> HIDE DEF n
  <1>6. g[0] = 0 /\ \A i \in 1 .. n : g[i] = g[i - 1] + Share(image.list[x][i], of)
    BY <1>0, <1>4
  <1>a. Alike(n, s, g)
    BY <1>1, <1>6 DEF Alike
  <1>7. \A i \in 0 .. n : s[i] = g[i]
    BY <1>0, <1>a, GoAlike
  <1>8. n \in 0 .. n /\ n = Len(image.list[x])
    BY <1>0 DEF n
  <1> QED BY <1>5, <1>7, <1>8

\* What is met within k levels of each inode, by its weight.
Leaf(x) == x \in image.sick \/ ~IsDir(x) \/ x \in image.torn
Weighs(w, b) ==
    /\ b \in [0 .. Levels -> [Ino -> Nat]]
    /\ \A x \in Ino : b[0][x] = 0
    /\ \A k \in 1 .. Levels : \A x \in Ino :
          IF Leaf(x) THEN b[k][x] = w[x]
          ELSE \E s : Sums(s, image.list[x], b[k - 1]) /\ b[k][x] = w[x] + s[Len(image.list[x])]

\* The lists of entries.
LEMMA ListIs ==
    ASSUME image \in Image, NEW x \in Ino, IsDir(x)
    PROVE  image.list[x] \in Seq(NameAndIno) /\ Len(image.list[x]) \in Nat
  <1>1. image.list[x] \in Seq(NameAndIno)
    BY TreeAssumption DEF IsDir, NameAndIno
  <1> QED BY <1>1, LenProperties

\* There is such a weighing.
LEMMA WeighsExist ==
    ASSUME image \in Image, NEW w \in [Ino -> Nat]
    PROVE  \E b : Weighs(w, b)
  <1> DEFINE M == [Ino -> Nat]
             Next1(f) == [x \in Ino |-> IF Leaf(x) THEN w[x] ELSE w[x] + Gathered(x, f)]
             F == [q \in (1 .. Levels) \X M |-> Next1(q[2])]
             zero == [x \in Ino |-> 0]
  <1>1. Levels \in Nat /\ zero \in M
    BY TreeAssumption DEF Levels
  <1>2. ASSUME NEW x \in Ino, ~Leaf(x), NEW f \in M
        PROVE  \E s : /\ Sums(s, image.list[x], f) /\ Gathered(x, f) = s[Len(image.list[x])]
                      /\ s[Len(image.list[x])] \in Nat
    <2>1. image.list[x] \in Seq(NameAndIno) /\ Len(image.list[x]) \in Nat
      BY <1>2, ListIs DEF Leaf
    <2>2. PICK s : Sums(s, image.list[x], f)
      BY <2>1, SumsExist
    <2>3. s[Len(image.list[x])] \in Nat
      BY <2>1, <2>2 DEF Sums
    <2> QED BY <2>1, <2>2, <2>3, GatheredIs
  <1>3. \A f \in M : Next1(f) \in M
    BY <1>2
  <1>4. F \in [(1 .. Levels) \X M -> M] /\ \A k \in 1 .. Levels, f \in M : F[<<k, f>>] = Next1(f)
    <2> HIDE DEF Next1, M
    <2>1. \A q \in (1 .. Levels) \X M : q[2] \in M
      OBVIOUS
    <2> QED BY <1>3, <2>1
  <1> HIDE DEF F
  <1>a. PICK b : Follows(M, zero, Levels, F, b)
    <2> HIDE DEF M, zero
    <2>1. Rule(M, zero, Levels, F)
      BY <1>1, <1>4 DEF Rule
    <2> QED BY <2>1, RulesLead
  <1>5. /\ b \in [0 .. Levels -> M] /\ b[0] = zero
        /\ \A k \in 1 .. Levels : b[k] = F[<<k, b[k - 1]>>]
    <2> HIDE DEF M, zero
    <2> QED BY <1>a DEF Follows
  <1>6. ASSUME NEW k \in 1 .. Levels, NEW x \in Ino
        PROVE  IF Leaf(x) THEN b[k][x] = w[x]
               ELSE \E s : Sums(s, image.list[x], b[k - 1]) /\ b[k][x] = w[x] + s[Len(image.list[x])]
    <2>1. k - 1 \in 0 .. Levels
      BY <1>1
    <2>2. b[k - 1] \in M
      <3> HIDE DEF M
      <3> QED BY <1>5, <2>1
    <2>3. b[k] = Next1(b[k - 1])
      <3> HIDE DEF M, Next1
      <3> QED BY <1>4, <1>5, <2>2
    <2>4. b[k][x] = IF Leaf(x) THEN w[x] ELSE w[x] + Gathered(x, b[k - 1])
      BY <2>3
    <2> QED BY <1>2, <2>2, <2>4
  <1>7. b \in [0 .. Levels -> [Ino -> Nat]] /\ \A x \in Ino : b[0][x] = 0
    BY <1>5
  <1>8. Weighs(w, b)
    BY ONLY <1>6, <1>7 DEF Weighs
  <1> QED BY <1>8

\* The count is what it comes to.
LEMMA WeighsIs ==
    ASSUME image \in Image, NEW w, NEW b, Weighs(w, b)
    PROVE  Counted(w) = b[Levels][Top]
  <1> DEFINE Row(k, g) == [x \in Ino |-> IF k = 0 THEN 0
                             ELSE IF x \in image.sick \/ ~IsDir(x) \/ x \in image.torn THEN w[x]
                             ELSE w[x] + Gathered(x, g[k - 1])]
             Rows(g) == g = [k \in 0 .. Levels |-> Row(k, g)]
  <1>1. Levels \in Nat /\ Top \in Ino
    BY TreeAssumption DEF Levels
  <1>2. /\ b = [k \in 0 .. Levels |-> b[k]]
        /\ \A k \in 0 .. Levels : b[k] = [x \in Ino |-> b[k][x]]
    BY DEF Weighs
  <1>3. ASSUME NEW k \in 0 .. Levels PROVE b[k] = Row(k, b)
    <2> SUFFICES ASSUME NEW x \in Ino PROVE b[k][x] = Row(k, b)[x]
      BY <1>2
    <2>1. CASE k = 0
      BY <2>1 DEF Weighs
    <2>2. CASE k # 0 /\ Leaf(x)
      <3>1. k \in 1 .. Levels
        BY <2>2
      <3> QED BY <2>2, <3>1 DEF Weighs, Leaf
    <2>3. CASE k # 0 /\ ~Leaf(x)
      <3>1. k \in 1 .. Levels
        BY <2>3
      <3>2. PICK s : Sums(s, image.list[x], b[k - 1]) /\ b[k][x] = w[x] + s[Len(image.list[x])]
        BY <2>3, <3>1 DEF Weighs
      <3>3. Len(image.list[x]) \in Nat
        BY <2>3, ListIs DEF Leaf
      <3>4. Gathered(x, b[k - 1]) = s[Len(image.list[x])]
        BY <3>2, <3>3, GatheredIs
      <3> QED BY <2>3, <3>2, <3>4 DEF Leaf
    <2> QED BY <2>1, <2>2, <2>3
  <1>4. Rows(b)
    <2> HIDE DEF Row
    <2> QED BY <1>2, <1>3
  <1> DEFINE g == CHOOSE f : Rows(f)
  <1>5. Rows(g)
    BY <1>4
  <1>6. Within(w) = g
    BY DEF Within
  <1> HIDE DEF g
  <1>7. \A k \in 0 .. Levels : g[k] = Row(k, g)
    <2> HIDE DEF Row
    <2> QED BY <1>5
  <1>8. \A k \in 0 .. Levels : b[k] = g[k]
    <2>1. b[0] = g[0]
      <3>1. 0 \in 0 .. Levels
        BY <1>1
      <3> QED BY <1>3, <1>7, <3>1
    <2>2. ASSUME NEW k \in 1 .. Levels, b[k - 1] = g[k - 1] PROVE b[k] = g[k]
      <3>1. Row(k, b) = Row(k, g)
        BY <2>2
      <3>2. k \in 0 .. Levels
        BY <1>1
      <3> HIDE DEF Row
      <3> QED BY <1>3, <1>7, <3>1, <3>2
    <2>3. Alike(Levels, b, g)
      BY <2>1, <2>2 DEF Alike
    <2> QED BY <1>1, <2>3, GoAlike
  <1>9. b[Levels] = g[Levels]
    BY <1>1, <1>8
  <1> QED BY <1>6, <1>9 DEF Counted

\* What a list still holds when its first entry is taken.
LEMMA SumsOfTail ==
    ASSUME NEW list \in Seq(NameAndIno), list # <<>>, NEW of \in [Ino -> Nat],
           NEW s, Sums(s, list, of)
    PROVE  \E t : /\ Sums(t, Tail(list), of)
                  /\ t[Len(Tail(list))] + Share(list[1], of) = s[Len(list)]
  <1>1. /\ Len(list) \in Nat \ {0} /\ Tail(list) \in Seq(NameAndIno)
        /\ Len(Tail(list)) = Len(list) - 1
        /\ \A i \in 1 .. Len(Tail(list)) : Tail(list)[i] = list[i + 1]
    BY EmptySeq, LenProperties, HeadTailProperties
  <1>2. PICK t : Sums(t, Tail(list), of)
    BY <1>1, SumsExist
  <1>3. \A i \in 1 .. Len(list) : Share(list[i], of) \in Nat
    BY SumsExist
  <1>4. PICK n, e : n = Len(Tail(list)) /\ e = Share(list[1], of)
    OBVIOUS
  <1>5. n \in Nat /\ Len(list) = n + 1 /\ e \in Nat
    BY <1>1, <1>3, <1>4
  <1>6. /\ s \in [0 .. n + 1 -> Nat] /\ s[0] = 0 /\ s[1] = e
        /\ \A i \in 1 .. n + 1 : s[i] = s[i - 1] + Share(list[i], of)
    <2>1. /\ s \in [0 .. n + 1 -> Nat] /\ s[0] = 0
          /\ \A i \in 1 .. n + 1 : s[i] = s[i - 1] + Share(list[i], of)
      BY <1>5 DEF Sums
    <2>2. 1 \in 1 .. n + 1 /\ 1 - 1 = 0
      BY <1>5
    <2>3. s[1] = s[1 - 1] + e
      BY <1>4, <2>1, <2>2
    <2> QED BY <1>5, <2>1, <2>2, <2>3
  <1>7. /\ t \in [0 .. n -> Nat] /\ t[0] = 0
        /\ \A i \in 1 .. n : t[i] = t[i - 1] + Share(list[i + 1], of)
    BY <1>1, <1>2, <1>4 DEF Sums
  <1>8. PICK x, y : x = [i \in 0 .. n |-> s[i + 1]] /\ y = [i \in 0 .. n |-> t[i] + e]
    OBVIOUS
  <1>9. Alike(n, x, y)
    <2>1. x[0] = y[0]
      <3>1. 0 \in 0 .. n
        BY <1>5
      <3> QED BY <1>5, <1>6, <1>7, <1>8, <3>1
    <2>2. ASSUME NEW i \in 1 .. n, x[i - 1] = y[i - 1] PROVE x[i] = y[i]
      <3>1. i \in 0 .. n /\ i - 1 \in 0 .. n /\ i + 1 \in 1 .. n + 1 /\ (i + 1) - 1 = i /\ (i - 1) + 1 = i
        BY <1>5
      <3>2. x[i] = s[i + 1] /\ x[i - 1] = s[i] /\ y[i] = t[i] + e /\ y[i - 1] = t[i - 1] + e
        BY <1>8, <3>1
      <3>3. s[i + 1] = s[i] + Share(list[i + 1], of) /\ t[i] = t[i - 1] + Share(list[i + 1], of)
        BY <1>6, <1>7, <3>1
      <3>4. PICK z : z = Share(list[i + 1], of)
        OBVIOUS
      <3>5. z \in Nat
        BY <1>3, <1>5, <3>1, <3>4
      <3>6. t[i - 1] \in Nat /\ s[i] = t[i - 1] + e
        BY <1>7, <2>2, <3>1, <3>2
      <3>7. s[i + 1] = s[i] + z /\ t[i] = t[i - 1] + z
        BY <3>3, <3>4
      <3>8. s[i + 1] = t[i] + e
        BY ONLY <1>5, <3>5, <3>6, <3>7
      <3> QED BY <3>2, <3>8
    <2> QED BY <2>1, <2>2 DEF Alike
  <1>10. s[n + 1] = t[n] + e
    <2>1. n \in 0 .. n
      BY <1>5
    <2>2. x[n] = y[n]
      BY <1>5, <1>9, <2>1, GoAlike
    <2> QED BY <1>8, <2>1, <2>2
  <1> QED BY <1>2, <1>4, <1>5, <1>10

\* What a call has still to count, by the weighing b of the weights w: if the weight of an
\* item is paid when the call looks, or only when it visits.
Cost(b, w, when, c, d) ==
    \/ c.at = "look" /\ c.depth \in 0 .. Levels /\ d = b[Levels - c.depth][c.ino]
    \/ /\ c.at = "visit" /\ c.depth \in 0 .. MaxDepth
       /\ b[Levels - c.depth][c.ino] = d + (IF when = "look" THEN w[c.ino] ELSE 0)
    \/ /\ c.at = "list" /\ c.depth \in 0 .. MaxDepth
       /\ \E s : Sums(s, c.left, b[MaxDepth - c.depth]) /\ d = s[Len(c.left)]

\* What is counted and what the calls have still to count make the whole.
Tallied(calls, b, w, when, m) ==
    \E g \in [0 .. Len(calls) -> Nat] :
        /\ g[0] = 0
        /\ \A k \in 1 .. Len(calls) :
              \E d \in Nat : Cost(b, w, when, calls[k], d) /\ g[k] = g[k - 1] + d
        /\ m + g[Len(calls)] = b[Levels][Top]

\* The calls that take the place of the innermost one, and what is paid, cost what it did.
Settles(n, b, w, when, pay) ==
    \A d \in Nat : Cost(b, w, when, Now, d) =>
        \E d1, d2 \in Nat :
            /\ IF n >= 1 THEN Cost(b, w, when, stack'[Len(stack)], d1) ELSE d1 = 0
            /\ IF n = 2 THEN Cost(b, w, when, stack'[Len(stack) + 1], d2) ELSE d2 = 0
            /\ d = pay + d1 + d2

\* Then the whole remains.
LEMMA TallyKept ==
    ASSUME Calls, stack # <<>>, NEW n \in 0 .. 2, Onto(n), NEW b, NEW w, NEW when,
           NEW pay \in Nat, Settles(n, b, w, when, pay),
           NEW m \in Nat, Tallied(stack, b, w, when, m)
    PROVE  Tallied(stack', b, w, when, m + pay)
  <1>1. Now = stack[Len(stack)]
    BY Innermost
  <1>2. PICK l : l = Len(stack)
    OBVIOUS
  <1>3. /\ l \in Nat \ {0} /\ Len(stack') = l - 1 + n
        /\ \A k \in 1 .. l - 1 : stack'[k] = stack[k]
    BY <1>2 DEF Onto
  <1>4. PICK g \in [0 .. l -> Nat] :
            /\ g[0] = 0
            /\ \A k \in 1 .. l : \E d \in Nat : Cost(b, w, when, stack[k], d) /\ g[k] = g[k - 1] + d
            /\ m + g[l] = b[Levels][Top]
    BY <1>2 DEF Tallied
  <1>5. l \in 1 .. l /\ l - 1 \in 0 .. l /\ l \in 0 .. l
    BY <1>3
  <1>6. PICK d \in Nat : Cost(b, w, when, Now, d) /\ g[l] = g[l - 1] + d
    BY <1>1, <1>2, <1>4, <1>5
  <1>7. PICK d1 \in Nat, d2 \in Nat :
            /\ IF n >= 1 THEN Cost(b, w, when, stack'[l], d1) ELSE d1 = 0
            /\ IF n = 2 THEN Cost(b, w, when, stack'[l + 1], d2) ELSE d2 = 0
            /\ d = pay + d1 + d2
    BY <1>2, <1>6 DEF Settles
  <1>8. g[l - 1] \in Nat
    BY <1>5
  <1>9. PICK h : h = [k \in 0 .. l - 1 + n |->
                         IF k < l THEN g[k] ELSE IF k = l THEN g[l - 1] + d1
                         ELSE g[l - 1] + d1 + d2]
    OBVIOUS
  <1>10. h \in [0 .. l - 1 + n -> Nat] /\ h[0] = 0
    <2>1. ASSUME NEW k \in 0 .. l - 1 + n
          PROVE  (IF k < l THEN g[k] ELSE IF k = l THEN g[l - 1] + d1 ELSE g[l - 1] + d1 + d2) \in Nat
      <3>1. k < l => k \in 0 .. l
        BY <1>3
      <3> QED BY <1>8, <3>1
    <2>2. 0 \in 0 .. l - 1 + n /\ 0 < l
      BY <1>3
    <2> QED BY <1>4, <1>9, <2>1, <2>2
  <1>11. ASSUME NEW k \in 1 .. l - 1 + n
         PROVE  \E e \in Nat : Cost(b, w, when, stack'[k], e) /\ h[k] = h[k - 1] + e
    <2>1. k \in 0 .. l - 1 + n /\ k - 1 \in 0 .. l - 1 + n /\ k \in Nat
      BY <1>3
    <2>2. CASE k < l
      <3>1. k \in 1 .. l - 1 /\ k \in 1 .. l /\ k - 1 < l
        BY <1>3, <2>1, <2>2
      <3>2. h[k] = g[k] /\ h[k - 1] = g[k - 1] /\ stack'[k] = stack[k]
        BY <1>3, <1>9, <2>1, <2>2, <3>1
      <3> QED BY <1>4, <3>1, <3>2
    <2>3. CASE k = l
      <3>1. n >= 1 /\ k - 1 < l /\ ~(k < l)
        BY <1>3, <2>1, <2>3
      <3>2. h[k] = g[l - 1] + d1 /\ h[k - 1] = g[l - 1]
        BY <1>9, <2>1, <2>3, <3>1
      <3> QED BY <1>7, <2>3, <3>1, <3>2
    <2>4. CASE k > l
      <3>1. n = 2 /\ k = l + 1 /\ k - 1 = l
        BY <1>3, <2>1, <2>4
      <3>2. h[k] = g[l - 1] + d1 + d2 /\ h[k - 1] = g[l - 1] + d1
        BY <1>3, <1>9, <2>1, <3>1
      <3> QED BY <1>7, <1>8, <3>1, <3>2
    <2> QED BY <1>3, <2>1, <2>2, <2>3, <2>4
  <1>12. h[l - 1 + n] = g[l - 1] + d1 + d2
    <2>1. l - 1 + n \in 0 .. l - 1 + n
      BY <1>3
    <2>2. CASE n = 0
      <3>1. d1 = 0 /\ d2 = 0 /\ l - 1 + n < l /\ l - 1 + n = l - 1
        BY <1>3, <1>7, <2>2
      <3>2. h[l - 1 + n] = g[l - 1]
        BY <1>9, <2>1, <3>1
      <3> QED BY <1>8, <3>1, <3>2
    <2>3. CASE n = 1
      <3>1. d2 = 0 /\ l - 1 + n = l /\ ~(l < l)
        BY <1>3, <1>7, <2>3
      <3>2. h[l - 1 + n] = g[l - 1] + d1
        BY <1>9, <2>1, <3>1
      <3> QED BY <1>8, <3>1, <3>2
    <2>4. CASE n = 2
      <3>1. l - 1 + n = l + 1 /\ ~(l + 1 < l) /\ l + 1 # l
        BY <1>3, <2>4
      <3> QED BY <1>9, <2>1, <3>1
    <2> QED BY <2>2, <2>3, <2>4
  <1>13. (m + pay) + h[l - 1 + n] = b[Levels][Top]
    <2>1. m + (g[l - 1] + (pay + d1 + d2)) = b[Levels][Top]
      BY <1>4, <1>6, <1>7
    <2> QED BY <1>8, <1>12, <2>1
  <1>14. PICK st : st = stack'
    OBVIOUS
  <1>15. /\ Len(st) = l - 1 + n
         /\ \A k \in 1 .. l - 1 + n : \E e \in Nat : Cost(b, w, when, st[k], e) /\ h[k] = h[k - 1] + e
    BY <1>3, <1>11, <1>14
  <1>16. Tallied(st, b, w, when, m + pay)
    BY ONLY <1>10, <1>13, <1>15 DEF Tallied
  <1> QED BY <1>14, <1>16

-----------------------------------------------------------------------------
(* Each step pays for what it counts.                                      *)

\* A walk whose count is meant to be right: no link, no cancel, no error of the disk.
Sure == LinkFree /\ ~cancel /\ \A e \in errors : e[1] # "disk"

\* What the step of the innermost call pays.
Pays(w, when) ==
    IF (Now.at = "look" /\ ~TooDeep /\ when = "look") \/ (Now.at = "visit" /\ when = "visit") THEN w[Now.ino] ELSE 0

\* The levels left to the innermost call.
LEMMA LevelsLeft ==
    ASSUME NEW w \in [Ino -> Nat], NEW b, Weighs(w, b), NEW x \in Ino, NEW depth \in 0 .. Levels
    PROVE  /\ Levels = MaxDepth + 1 /\ MaxDepth \in Nat
           /\ b[Levels - depth][x] \in Nat
           /\ depth > MaxDepth => b[Levels - depth][x] = 0
           /\ depth <= MaxDepth =>
                 /\ Levels - depth \in 1 .. Levels /\ (Levels - depth) - 1 = MaxDepth - depth
                 /\ b[MaxDepth - depth] \in [Ino -> Nat]
                 /\ Leaf(x) => b[Levels - depth][x] = w[x]
  <1>1. Levels = MaxDepth + 1 /\ MaxDepth \in Nat
    BY TreeAssumption DEF Levels
  <1>2. Levels - depth \in 0 .. Levels
    BY <1>1
  <1>3. b[Levels - depth][x] \in Nat
    BY <1>2 DEF Weighs
  <1>4. depth > MaxDepth => b[Levels - depth][x] = 0
    <2>1. depth > MaxDepth => Levels - depth = 0
      BY <1>1
    <2> QED BY <2>1 DEF Weighs
  <1>5. ASSUME depth <= MaxDepth
        PROVE  /\ Levels - depth \in 1 .. Levels /\ (Levels - depth) - 1 = MaxDepth - depth
               /\ MaxDepth - depth \in 0 .. Levels
    BY <1>1, <1>5
  <1>6. ASSUME depth <= MaxDepth
        PROVE  /\ b[MaxDepth - depth] \in [Ino -> Nat]
               /\ Leaf(x) => b[Levels - depth][x] = w[x]
    <2>1. PICK k : k = Levels - depth
      OBVIOUS
    <2>2. k \in 1 .. Levels /\ k - 1 = MaxDepth - depth /\ k - 1 \in 0 .. Levels
      BY <1>5, <1>6, <2>1
    <2>3. b[k - 1] \in [Ino -> Nat]
      BY <2>2 DEF Weighs
    <2>4. Leaf(x) => b[k][x] = w[x]
      BY <2>2 DEF Weighs
    <2> QED BY <2>1, <2>2, <2>3, <2>4
  <1> QED BY <1>1, <1>3, <1>4, <1>5, <1>6

\* And what it finds in a directory.
LEMMA ListWeighs ==
    ASSUME image \in Image, NEW w, NEW b, Weighs(w, b), NEW x \in Ino, ~Leaf(x),
           NEW depth \in 0 .. MaxDepth
    PROVE  \E n \in Nat : /\ \E s : Sums(s, image.list[x], b[MaxDepth - depth]) /\ n = s[Len(image.list[x])]
                          /\ b[Levels - depth][x] = w[x] + n
  <1>1. PICK k : k = Levels - depth
    OBVIOUS
  <1>2. k \in 1 .. Levels /\ k - 1 = MaxDepth - depth
    BY <1>1, TreeAssumption DEF Levels
  <1>3. PICK s : Sums(s, image.list[x], b[k - 1]) /\ b[k][x] = w[x] + s[Len(image.list[x])]
    BY <1>2 DEF Weighs
  <1>4. Len(image.list[x]) \in Nat
    BY ListIs DEF Leaf
  <1>5. s[Len(image.list[x])] \in Nat
    BY <1>3, <1>4 DEF Sums
  <1> QED BY <1>1, <1>2, <1>3, <1>5

\* A call that looks goes on to visit, or is too deep to count.
LEMMA LookTallies ==
    ASSUME Calls, Standing, Sure, Look, NEW w \in [Ino -> Nat], NEW b, Weighs(w, b),
           NEW when \in {"look", "visit"}, NEW m \in Nat, Tallied(stack, b, w, when, m)
    PROVE  Tallied(stack', b, w, when, m + Pays(w, when))
  <1>1. stack # <<>> /\ Now.at = "look" /\ ~cancel
    BY DEF Look, At, Sure
  <1>2. Now = stack[Len(stack)] /\ Len(stack) \in Nat \ {0} /\ IsCall(Now) /\ Now.ino \in Ino
    BY <1>1, Innermost DEF Standing, Stands
  <1>3. ASSUME NEW d \in Nat, Cost(b, w, when, Now, d)
        PROVE  /\ Now.depth \in 0 .. Levels /\ d = b[Levels - Now.depth][Now.ino]
    BY <1>1, <1>3 DEF Cost
  <1>4. Pays(w, when) \in Nat
    BY <1>2 DEF Pays
  <1>5. CASE TooDeep
    <2>1. Onto(0)
      BY <1>1, <1>5, Pops DEF Look, Stops, Return
    <2>2. Pays(w, when) = 0
      BY <1>1, <1>5 DEF Pays
    <2>3. Settles(0, b, w, when, 0)
      <3> SUFFICES ASSUME NEW d \in Nat, Cost(b, w, when, Now, d) PROVE d = 0 + 0 + 0
        BY DEF Settles
      <3> QED BY <1>2, <1>3, <1>5, LevelsLeft DEF TooDeep
    <2>4. 0 \in 0 .. 2 /\ 0 \in Nat
      OBVIOUS
    <2> QED BY <1>1, <2>1, <2>2, <2>3, <2>4, TallyKept
  <1>6. CASE ~TooDeep
    <2>1. PICK e : e = [Now EXCEPT !.at = "visit"]
      OBVIOUS
    <2>2. stack' = [stack EXCEPT ![Len(stack)] = e]
      BY <1>1, <1>2, <1>6, <2>1 DEF Look, Stops, MoveTo
    <2>3. e.at = "visit" /\ e.ino = Now.ino /\ e.depth = Now.depth
      BY <1>2, <2>1 DEF IsCall
    <2>4. Onto(1) /\ stack'[Len(stack)] = e
      BY <1>1, <2>2, GoesOn
    <2>5. Settles(1, b, w, when, Pays(w, when))
      <3> SUFFICES ASSUME NEW d \in Nat, Cost(b, w, when, Now, d)
                   PROVE  \E d1 \in Nat : Cost(b, w, when, e, d1) /\ d = Pays(w, when) + d1
        <4>1. ASSUME NEW d1 \in Nat, NEW d \in Nat, d = Pays(w, when) + d1
              PROVE  d = Pays(w, when) + d1 + 0 /\ 0 \in Nat
          BY <1>4, <4>1
        <4> QED BY <2>4, <4>1 DEF Settles
      <3>1. PICK x, depth : x = Now.ino /\ depth = Now.depth
        OBVIOUS
      <3>2. x \in Ino /\ depth \in 0 .. Levels /\ ~(depth > MaxDepth) /\ d = b[Levels - depth][x]
        BY <1>2, <1>3, <1>6, <3>1 DEF TooDeep
      <3>3. depth \in 0 .. MaxDepth /\ depth <= MaxDepth
        <4>1. MaxDepth \in Nat
          BY TreeAssumption
        <4> QED BY <3>2, <4>1
      <3>4. CASE when = "visit"
        <4>1. Pays(w, when) = 0
          BY <1>1, <3>4 DEF Pays
        <4>2. Cost(b, w, when, e, d)
          <5>1. d = d + 0
            OBVIOUS
          <5> QED BY <2>3, <3>1, <3>2, <3>3, <3>4, <5>1 DEF Cost
        <4> QED BY <4>1, <4>2
      <3>5. CASE when = "look"
        <4>1. Pays(w, when) = w[x] /\ w[x] \in Nat
          BY <1>1, <1>6, <3>1, <3>2, <3>5 DEF Pays
        <4>2. \E d1 \in Nat : d = w[x] + d1
          <5>1. CASE Leaf(x)
            <6>1. d = w[x] + 0
              BY <3>2, <3>3, <4>1, <5>1, LevelsLeft
            <6> QED BY <6>1
          <5>2. CASE ~Leaf(x)
            <6>1. PICK n \in Nat : b[Levels - depth][x] = w[x] + n
              BY <3>2, <3>3, <5>2, ListWeighs DEF Standing
            <6> QED BY <3>2, <6>1
          <5> QED BY <5>1, <5>2
        <4>3. PICK d1 \in Nat : d = w[x] + d1
          BY <4>2
        <4>4. d = d1 + w[x]
          BY <4>1, <4>3
        <4>5. Cost(b, w, when, e, d1)
          BY <2>3, <3>1, <3>2, <3>3, <3>5, <4>4 DEF Cost
        <4> QED BY <4>1, <4>3, <4>5
      <3> QED BY <3>4, <3>5
    <2>6. 1 \in 0 .. 2
      OBVIOUS
    <2> QED BY <1>1, <1>4, <2>4, <2>5, <2>6, TallyKept
  <1> QED BY <1>5, <1>6

\* A visit ends, for a leaf, or makes a directory a list.
LEMMA VisitTallies ==
    ASSUME Calls, Standing, Sure, Unreadable \/ Directory \/ File,
           NEW w \in [Ino -> Nat], NEW b, Weighs(w, b),
           NEW when \in {"look", "visit"}, NEW m \in Nat, Tallied(stack, b, w, when, m)
    PROVE  Tallied(stack', b, w, when, m + Pays(w, when))
  <1>1. stack # <<>> /\ Now.at = "visit"
    BY DEF Unreadable, Directory, File, Readable, Visiting, At
  <1>2. Now = stack[Len(stack)] /\ Len(stack) \in Nat \ {0} /\ IsCall(Now) /\ Now.ino \in Ino
    BY <1>1, Innermost DEF Standing, Stands
  <1>3. PICK x, depth : x = Now.ino /\ depth = Now.depth
    OBVIOUS
  <1>4. x \in Ino /\ w[x] \in Nat
    BY <1>2, <1>3
  <1>5. PICK rest : rest = IF when = "look" THEN w[x] ELSE 0
    OBVIOUS
  <1>6. Pays(w, when) \in Nat /\ rest \in Nat /\ Pays(w, when) + rest = w[x]
    BY <1>1, <1>3, <1>4, <1>5 DEF Pays
  <1>7. ASSUME NEW d \in Nat, Cost(b, w, when, Now, d)
        PROVE  /\ depth \in 0 .. MaxDepth /\ depth \in 0 .. Levels /\ depth <= MaxDepth
               /\ b[Levels - depth][x] = d + rest
    <2>1. depth \in 0 .. MaxDepth /\ b[Levels - depth][x] = d + rest
      BY <1>1, <1>3, <1>5, <1>7 DEF Cost
    <2>2. depth \in 0 .. Levels /\ depth <= MaxDepth
      BY <2>1, TreeAssumption DEF Levels
    <2> QED BY <2>1, <2>2
  <1>8. CASE Leaf(x) /\ stack' = Front(stack)
    <2>1. Settles(0, b, w, when, Pays(w, when))
      <3> SUFFICES ASSUME NEW d \in Nat, Cost(b, w, when, Now, d) PROVE d = Pays(w, when) + 0 + 0
        BY DEF Settles
      <3>1. d + rest = w[x]
        BY <1>4, <1>7, <1>8, LevelsLeft
      <3> QED BY <1>6, <3>1
    <2>2. 0 \in 0 .. 2 /\ Onto(0)
      BY <1>1, <1>8, Pops
    <2> QED BY <1>1, <1>6, <2>1, <2>2, TallyKept
  <1>9. CASE Directory /\ x \notin image.torn
    <2>1. PICK e : e = [Now EXCEPT !.at = "list", !.left = image.list[x]]
      OBVIOUS
    <2>2. stack' = [stack EXCEPT ![Len(stack)] = e]
      BY <1>2, <1>3, <1>9, <2>1 DEF Directory
    <2>3. e.at = "list" /\ e.depth = depth /\ e.left = image.list[x]
      BY <1>2, <1>3, <2>1 DEF IsCall
    <2>4. Onto(1) /\ stack'[Len(stack)] = e
      BY <1>1, <2>2, GoesOn
    <2>5. ~Leaf(x) /\ IsDir(x)
      BY <1>3, <1>9 DEF Directory, Readable, Leaf, IsDir
    <2>6. Settles(1, b, w, when, Pays(w, when))
      <3> SUFFICES ASSUME NEW d \in Nat, Cost(b, w, when, Now, d)
                   PROVE  \E d1 \in Nat : Cost(b, w, when, e, d1) /\ d = Pays(w, when) + d1
        <4>1. ASSUME NEW d1 \in Nat, NEW d \in Nat, d = Pays(w, when) + d1
              PROVE  d = Pays(w, when) + d1 + 0 /\ 0 \in Nat
          BY <1>6, <4>1
        <4> QED BY <2>4, <4>1 DEF Settles
      <3>1. /\ depth \in 0 .. MaxDepth /\ depth \in 0 .. Levels /\ depth <= MaxDepth
            /\ b[Levels - depth][x] = d + rest
        BY <1>7
      <3>2. PICK n \in Nat :
                /\ \E s : Sums(s, image.list[x], b[MaxDepth - depth]) /\ n = s[Len(image.list[x])]
                /\ b[Levels - depth][x] = w[x] + n
        BY <1>4, <2>5, <3>1, ListWeighs DEF Standing
      <3>3. Cost(b, w, when, e, n)
        BY <2>3, <3>1, <3>2 DEF Cost
      <3>4. d = Pays(w, when) + n
        <4>1. PICK pay, all : pay = Pays(w, when) /\ all = w[x]
          OBVIOUS
        <4>2. pay \in Nat /\ pay + rest = all /\ d + rest = all + n
          BY <1>6, <3>1, <3>2, <4>1
        <4>3. d = pay + n
          BY ONLY <1>6, <4>2, d \in Nat, n \in Nat
        <4> QED BY <4>1, <4>3
      <3> QED BY <3>3, <3>4
    <2>7. 1 \in 0 .. 2
      OBVIOUS
    <2> QED BY <1>1, <1>6, <2>4, <2>6, <2>7, TallyKept
  <1>10. (Leaf(x) /\ stack' = Front(stack)) \/ (Directory /\ x \notin image.torn)
    <2>1. CASE Unreadable
      BY <1>3, <2>1 DEF Unreadable, GiveUp, Return, Leaf
    <2>2. CASE Directory
      BY <1>3, <2>2 DEF Directory, Return, Leaf
    <2>3. CASE File
      BY <1>3, <2>3 DEF File, Readable, Return, Leaf, IsDir
    <2> QED BY <2>1, <2>2, <2>3
  <1> QED BY <1>8, <1>9, <1>10

\* An entry leaves the list for a call of its own, unless it is a dot.
LEMMA ListTallies ==
    ASSUME Calls, Standing, Sure, Entry \/ SkipDots \/ EndOfList,
           NEW w \in [Ino -> Nat], NEW b, Weighs(w, b),
           NEW when \in {"look", "visit"}, NEW m \in Nat, Tallied(stack, b, w, when, m)
    PROVE  Tallied(stack', b, w, when, m + Pays(w, when))
  <1>1. stack # <<>> /\ Now.at = "list" /\ Pays(w, when) = 0
    BY DEF Entry, SkipDots, EndOfList, At, Pays
  <1>2. /\ Now = stack[Len(stack)] /\ Len(stack) \in Nat \ {0} /\ IsCall(Now)
        /\ Now.left \in Seq(NameAndIno)
    <2>1. Now = stack[Len(stack)] /\ Len(stack) \in Nat \ {0} /\ IsCall(Now)
      BY <1>1, Innermost
    <2>2. Len(stack) \in 1 .. Len(stack)
      BY <2>1
    <2> QED BY <1>1, <2>1, <2>2 DEF Standing, Stands
  <1>3. PICK list, depth : list = Now.left /\ depth = Now.depth
    OBVIOUS
  <1>4. list \in Seq(NameAndIno)
    BY <1>2, <1>3
  <1>5. ASSUME NEW d \in Nat, Cost(b, w, when, Now, d)
        PROVE  /\ depth \in 0 .. MaxDepth /\ depth <= MaxDepth /\ MaxDepth \in Nat
               /\ \E s : Sums(s, list, b[MaxDepth - depth]) /\ d = s[Len(list)]
    <2>1. depth \in 0 .. MaxDepth
      BY <1>1, <1>3, <1>5 DEF Cost
    <2>2. depth <= MaxDepth /\ MaxDepth \in Nat
      BY <2>1, TreeAssumption
    <2> QED BY <1>1, <1>3, <1>5, <2>1, <2>2 DEF Cost
  <1>6. ASSUME depth \in 0 .. MaxDepth PROVE b[MaxDepth - depth] \in [Ino -> Nat]
    <2>1. MaxDepth - depth \in 0 .. Levels
      BY <1>6, TreeAssumption DEF Levels
    <2> QED BY <2>1 DEF Weighs
  <1>7. CASE EndOfList
    <2>1. 0 \in 0 .. 2 /\ Onto(0) /\ 0 \in Nat
      BY <1>1, <1>7, Pops DEF EndOfList, Return
    <2>2. list = <<>> /\ Len(list) = 0
      BY <1>3, <1>7, EmptySeq DEF EndOfList
    <2>3. Settles(0, b, w, when, 0)
      <3> SUFFICES ASSUME NEW d \in Nat, Cost(b, w, when, Now, d) PROVE d = 0 + 0 + 0
        BY DEF Settles
      <3> QED BY <1>5, <2>2 DEF Sums
    <2> QED BY <1>1, <2>1, <2>3, TallyKept
  <1>8. PICK e : e = [Now EXCEPT !.left = Tail(list)]
    OBVIOUS
  <1>9. e.at = "list" /\ e.depth = depth /\ e.left = Tail(list)
    BY <1>1, <1>2, <1>3, <1>8 DEF IsCall
  <1>10. ASSUME list # <<>>, NEW d \in Nat, Cost(b, w, when, Now, d)
         PROVE  \E d1 \in Nat : /\ Cost(b, w, when, e, d1)
                                /\ d = d1 + Share(list[1], b[MaxDepth - depth])
    <2>1. depth \in 0 .. MaxDepth
      BY <1>5, <1>10
    <2>2. PICK s : Sums(s, list, b[MaxDepth - depth]) /\ d = s[Len(list)]
      BY <1>5, <1>10
    <2>3. PICK t : /\ Sums(t, Tail(list), b[MaxDepth - depth])
                   /\ t[Len(Tail(list))] + Share(list[1], b[MaxDepth - depth]) = s[Len(list)]
      BY <1>4, <1>6, <1>10, <2>1, <2>2, SumsOfTail
    <2>4. Len(Tail(list)) \in Nat
      BY <1>4, <1>10, HeadTailProperties, LenProperties
    <2>5. t[Len(Tail(list))] \in Nat
      BY <2>3, <2>4 DEF Sums
    <2>6. Cost(b, w, when, e, t[Len(Tail(list))])
      BY <1>9, <2>1, <2>3 DEF Cost
    <2> QED BY <2>2, <2>3, <2>5, <2>6
  <1>11. list # <<>> => Head(list) = list[1] /\ list[1] \in NameAndIno
    <2>1. list # <<>> => Head(list) = list[1] /\ 1 \in DOMAIN list
      BY <1>4, TailIs
    <2> QED BY <1>4, <2>1, LenProperties
  <1>12. CASE Entry
    <2>1. list # <<>> /\ list[1].name \notin DotNames
      BY <1>3, <1>11, <1>12 DEF Entry
    <2>2. PICK path, dest : stack' = Append([stack EXCEPT ![Len(stack)].left = Tail(@)],
                     Call(list[1].ino, path, dest, depth + 1))
      BY <1>3, <1>11, <1>12, <2>1 DEF Entry
    <2>3. PICK f : f = Call(list[1].ino, path, dest, depth + 1)
      OBVIOUS
    <2>4. stack' = Append([stack EXCEPT ![Len(stack)] = e], f)
      BY <1>2, <1>3, <1>8, <2>2, <2>3
    <2>5. Onto(2) /\ stack'[Len(stack)] = e /\ stack'[Len(stack) + 1] = f
      BY <1>1, <2>4, Pushes
    <2>6. f.at = "look" /\ f.ino = list[1].ino /\ f.depth = depth + 1 /\ list[1].ino \in Ino
      BY <1>11, <2>1, <2>3 DEF Call, NameAndIno
    <2>7. Settles(2, b, w, when, 0)
      <3> SUFFICES ASSUME NEW d \in Nat, Cost(b, w, when, Now, d)
                   PROVE  \E d1, d2 \in Nat : /\ Cost(b, w, when, e, d1) /\ Cost(b, w, when, f, d2)
                                              /\ d = 0 + d1 + d2
        BY <2>5 DEF Settles
      <3>1. PICK d1 \in Nat : /\ Cost(b, w, when, e, d1)
                              /\ d = d1 + Share(list[1], b[MaxDepth - depth])
        BY <1>10, <2>1
      <3>2. PICK d2 : d2 = b[MaxDepth - depth][list[1].ino]
        OBVIOUS
      <3>3. depth \in 0 .. MaxDepth
        BY <1>5
      <3>4. Share(list[1], b[MaxDepth - depth]) = d2 /\ d2 \in Nat
        BY <1>6, <2>1, <2>6, <3>2, <3>3 DEF Share
      <3>5. Cost(b, w, when, f, d2)
        <4>1. Levels - f.depth = MaxDepth - depth /\ f.depth \in 0 .. Levels
          BY <2>6, <3>3, TreeAssumption DEF Levels
        <4> QED BY <2>6, <3>2, <4>1 DEF Cost
      <3>6. d = 0 + d1 + d2
        BY <3>1, <3>4
      <3> QED BY <3>1, <3>4, <3>5, <3>6
    <2>8. 2 \in 0 .. 2 /\ 0 \in Nat
      OBVIOUS
    <2> QED BY <1>1, <2>5, <2>7, <2>8, TallyKept
  <1>13. CASE SkipDots
    <2>1. list # <<>> /\ list[1].name \in DotNames
      BY <1>3, <1>11, <1>13 DEF SkipDots
    <2>2. stack' = [stack EXCEPT ![Len(stack)] = e]
      BY <1>2, <1>3, <1>8, <1>13 DEF SkipDots
    <2>3. Onto(1) /\ stack'[Len(stack)] = e
      BY <1>1, <2>2, GoesOn
    <2>4. Settles(1, b, w, when, 0)
      <3> SUFFICES ASSUME NEW d \in Nat, Cost(b, w, when, Now, d)
                   PROVE  \E d1 \in Nat : Cost(b, w, when, e, d1) /\ d = 0 + d1 + 0
        <4>1. 0 \in Nat
          OBVIOUS
        <4> QED BY <2>3, <4>1 DEF Settles
      <3>1. PICK d1 \in Nat : /\ Cost(b, w, when, e, d1)
                              /\ d = d1 + Share(list[1], b[MaxDepth - depth])
        BY <1>10, <2>1
      <3>2. d = 0 + d1 + 0
        BY <2>1, <3>1 DEF Share
      <3> QED BY <3>1, <3>2
    <2>5. 1 \in 0 .. 2 /\ 0 \in Nat
      OBVIOUS
    <2> QED BY <1>1, <2>3, <2>4, <2>5, TallyKept
  <1> QED BY <1>7, <1>12, <1>13

\* A "stopped" is never returned before a cancel.
StopMeans == ret = "stopped" => cancel

\* Such a walk has no broken link and no error of the disk to go by, and a call that ended
\* was one for an entry.
LEMMA SureWalk ==
    ASSUME Calls, Standing, Sure, Sure', StopMeans, Walk
    PROVE  /\ Look \/ Unreadable \/ Directory \/ File \/ Entry \/ SkipDots \/ EndOfList \/ Resume
           /\ stack # <<>> /\ Now.ino \in Ino
           /\ Resume => Now.at \in {"list", "link"} /\ ret # "stopped"
  <1>1. ~DiskFails
    <2>1. PICK what, path : what = "disk" /\ path = Now.path
      OBVIOUS
    <2>2. <<what, path>>[1] = what
      OBVIOUS
    <2>3. DiskFails => <<what, path>> \in errors'
      BY <2>1 DEF DiskFails, Report
    <2> QED BY <2>1, <2>2, <2>3 DEF Sure
  <1>2. stack # <<>>
    BY DEF Walk, Look, Unreadable, DiskFails, Directory, Entry, SkipDots, EndOfList, BrokenLink,
           Link, File, Resume, Readable, Visiting, At
  <1>3. Now = stack[Len(stack)] /\ Len(stack) \in 1 .. Len(stack) /\ Now.ino \in Ino
    BY <1>2, Innermost DEF Standing, Stands
  <1>4. ~BrokenLink /\ ~Link
    <2>1. BrokenLink \/ Link => image.kind[Now.ino] = "link"
      BY DEF BrokenLink, Link, Readable
    <2> QED BY <1>3, <2>1 DEF Sure, LinkFree
  <1>5. Resume => Now.at \in {"list", "link"} /\ ret # "stopped"
    BY <1>3 DEF Resume, Calls, Waits, Sure, StopMeans
  <1> QED BY <1>1, <1>2, <1>3, <1>4, <1>5 DEF Walk

\* Every step of a walk pays for what it counts, and what is left is left to pay.
LEMMA WalkTallies ==
    ASSUME Calls, Standing, Sure, Sure', StopMeans, Walk,
           NEW w \in [Ino -> Nat], NEW b, Weighs(w, b),
           NEW when \in {"look", "visit"}, NEW m \in Nat, Tallied(stack, b, w, when, m)
    PROVE  Tallied(stack', b, w, when, m + Pays(w, when))
  <1>1. CASE Resume
    <2>1. stack # <<>> /\ Now.at \in {"list", "link"} /\ ret # "stopped"
      BY <1>1, SureWalk
    <2>2. Now = stack[Len(stack)] /\ Len(stack) \in 1 .. Len(stack)
      BY <2>1, Innermost
    <2>3. PICK g \in [0 .. Len(stack) -> Nat] :
              \A k \in 1 .. Len(stack) :
                 \E d \in Nat : Cost(b, w, when, stack[k], d) /\ g[k] = g[k - 1] + d
      BY DEF Tallied
    <2>4. Now.at # "link"
      BY <2>2, <2>3 DEF Cost
    <2>5. stack' = stack /\ Pays(w, when) = 0
      BY <1>1, <2>1, <2>4 DEF Resume, PassesOn, Pays
    <2> QED BY <2>5
  <1> QED BY <1>1, SureWalk, LookTallies, VisitTallies, ListTallies

\* No error of reading is at a place that a call has still before it.
Behind(errs, calls) ==
    \A e \in errs : e[1] = "read" => \A k \in 1 .. Len(calls) : ~Ahead(calls[k], e[2])
Unread == IsFiniteSet(errors) /\ Behind(errors, stack)

\* What goes unread at the place of the innermost call is before no other.
LEMMA ReadError ==
    ASSUME Calls, Apart, stack # <<>>, Now.at = "visit", stack' = Front(stack)
    PROVE  /\ Ahead(Now, Now.path)
           /\ \A k \in 1 .. Len(stack') : ~Ahead(stack'[k], Now.path)
           /\ \A k \in 1 .. Len(out) : out[k].path # Now.path
  <1>1. Now = stack[Len(stack)] /\ Len(stack) \in Nat \ {0} /\ IsSeq(Now.path)
    BY Innermost DEF IsCall
  <1>2. Len(stack) \in 1 .. Len(stack)
    BY <1>1
  <1>3. Ahead(Now, Now.path)
    <2>1. Len(Now.path) \in Nat
      BY <1>1, LenProperties DEF IsSeq
    <2> QED BY <2>1 DEF Ahead, Under
  <1>4. ASSUME NEW k \in 1 .. Len(stack') PROVE ~Ahead(stack'[k], Now.path)
    <2>1. Onto(0)
      BY Pops
    <2>2. k \in 1 .. Len(stack) /\ k # Len(stack) /\ stack'[k] = stack[k]
      BY <1>1, <2>1 DEF Onto
    <2> QED BY <1>1, <1>2, <1>3, <2>2 DEF Apart
  <1> QED BY <1>1, <1>2, <1>3, <1>4 DEF Apart

\* What a step adds to the errors.
LEMMA ErrorStep ==
    ASSUME [Next]_vars
    PROVE  \/ errors' = errors
           \/ \E what : \E path : errors' = errors \cup {<<what, path>>} /\ what # "read"
           \/ /\ errors' = errors \cup {<<"read", Now.path>>}
              /\ stack # <<>> /\ Now.at = "visit" /\ stack' = Front(stack)
  <1> USE DEF results, progress, flag
  <1> DEFINE Other(what) == what # "read" /\ errors' = errors \cup {<<what, Now.path>>}
  <1>0. ASSUME NEW what, Other(what)
        PROVE  \E w : \E path : errors' = errors \cup {<<w, path>>} /\ w # "read"
    BY <1>0, Zenon
  <1>1. CASE Look
    <2>1. errors' = errors \/ Other("too deep")
      BY <1>1 DEF Look, Report
    <2> HIDE DEF Other
    <2> QED BY <1>0, <2>1
  <1>2. CASE Unreadable
    BY <1>2 DEF Unreadable, Visiting, At, GiveUp, Return, Report
  <1>3. CASE DiskFails \/ BrokenLink
    <2>1. Other("disk") \/ Other("broken")
      BY <1>3 DEF DiskFails, BrokenLink, Report
    <2> HIDE DEF Other
    <2> QED BY <1>0, <2>1
  <1>4. CASE Directory
    BY <1>4 DEF Directory, Readable, Visiting, At, Return, Report
  <1>5. CASE Entry
    <2>1. errors' = errors \/ \E path : errors' = errors \cup {<<"renamed", path>>}
      BY <1>5 DEF Entry, Report
    <2>2. ASSUME NEW path, errors' = errors \cup {<<"renamed", path>>}
          PROVE  \E w : \E q : errors' = errors \cup {<<w, q>>} /\ w # "read"
      <3>1. PICK w : w = "renamed" /\ w # "read"
        OBVIOUS
      <3> QED BY <2>2, <3>1, Zenon
    <2> QED BY <2>1, <2>2
  <1>6. CASE File
    <2>1. errors' = errors \/ errors' = errors \cup {<<"read", Now.path>>} \/ Other("disk")
      BY <1>6 DEF File, Report
    <2>2. stack # <<>> /\ Now.at = "visit" /\ stack' = Front(stack)
      BY <1>6 DEF File, Readable, Visiting, At, Return
    <2> HIDE DEF Other
    <2> QED BY <1>0, <2>1, <2>2
  <1>7. CASE SkipDots \/ EndOfList \/ Link \/ Resume \/ PressCancel \/ UNCHANGED vars
    BY <1>7 DEF SkipDots, EndOfList, Link, Resume, PressCancel, vars
  <1> QED BY <1>1, <1>2, <1>3, <1>4, <1>5, <1>6, <1>7 DEF Next, Walk, Hang

\* So that stays.
LEMMA NextUnread == Calls /\ Apart /\ Narrows /\ Unread /\ [Next]_vars => Unread'
  <1> SUFFICES ASSUME Calls, Apart, Narrows, Unread, [Next]_vars PROVE Unread'
    OBVIOUS
  <1>1. Behind(errors, stack')
    BY DEF Unread, Behind, Narrows
  <1>2. CASE errors' = errors
    BY <1>1, <1>2 DEF Unread
  <1>3. ASSUME NEW what, NEW path, errors' = errors \cup {<<what, path>>},
               what = "read" => \A k \in 1 .. Len(stack') : ~Ahead(stack'[k], path)
        PROVE  Unread'
    <2>1. PICK x : x = <<what, path>>
      OBVIOUS
    <2>2. x[1] = what /\ x[2] = path /\ errors' = errors \cup {x}
      BY <1>3, <2>1
    <2>3. IsFiniteSet(errors')
      BY <2>2, FS_AddElement DEF Unread
    <2>4. Behind(errors', stack')
      BY <1>1, <1>3, <2>2 DEF Behind
    <2> QED BY <2>3, <2>4 DEF Unread
  <1>4. CASE \E what : \E path : errors' = errors \cup {<<what, path>>} /\ what # "read"
    <2>1. PICK what, path : errors' = errors \cup {<<what, path>>} /\ what # "read"
      BY <1>4
    <2> QED BY <1>3, <2>1
  <1>5. CASE /\ errors' = errors \cup {<<"read", Now.path>>}
             /\ stack # <<>> /\ Now.at = "visit" /\ stack' = Front(stack)
    <2>1. PICK path : path = Now.path
      OBVIOUS
    <2>2. \A k \in 1 .. Len(stack') : ~Ahead(stack'[k], path)
      BY <1>5, <2>1, ReadError
    <2> QED BY <1>3, <1>5, <2>1, <2>2
  <1> QED BY <1>2, <1>4, <1>5, ErrorStep

\* The counters of extract_node pay for the items when they look, for the bytes of a file
\* when it is copied.
LEMMA CountersPay ==
    ASSUME Calls, Standing, Sure, Sure', StopMeans, Walk, mode = "extract", done \in Nat, bytes \in Nat
    PROVE  done' = done + Pays(Ones, "look") /\ bytes' = bytes + Pays(Sizes, "visit")
  <1>1. stack # <<>> /\ Now.ino \in Ino /\ Ones[Now.ino] = 1
        /\ Sizes[Now.ino] = IF Now.ino \in image.sick \/ IsDir(Now.ino) THEN 0 ELSE image.size[Now.ino]
    BY SureWalk DEF Ones, Sizes
  <1>2. CASE Look
    <2>1. Now.at = "look" /\ bytes' = bytes /\ ~cancel
      BY <1>2 DEF Look, At, Sure, results, progress
    <2>2. done' = IF TooDeep THEN done ELSE done + 1
      BY <1>2, <2>1 DEF Look, Stops, progress
    <2>3. Pays(Ones, "look") = (IF TooDeep THEN 0 ELSE 1) /\ Pays(Sizes, "visit") = 0
      BY <1>1, <2>1 DEF Pays
    <2> QED BY <2>1, <2>2, <2>3
  <1>3. CASE Unreadable \/ Directory
    <2>1. Now.at = "visit" /\ bytes' = bytes /\ done' = done
      BY <1>3 DEF Unreadable, Directory, Readable, Visiting, At, progress
    <2>2. Sizes[Now.ino] = 0
      BY <1>1, <1>3 DEF Unreadable, Directory, Readable, IsDir
    <2>3. Pays(Ones, "look") = 0 /\ Pays(Sizes, "visit") = 0
      BY <2>1, <2>2 DEF Pays
    <2> QED BY <2>1, <2>3
  <1>4. CASE File
    <2>1. Now.at = "visit" /\ bytes' = bytes + image.size[Now.ino] /\ done' = done
      BY <1>4 DEF File, Readable, Visiting, At
    <2>2. Sizes[Now.ino] = image.size[Now.ino]
      BY <1>1, <1>4 DEF File, Readable, IsDir
    <2>3. Pays(Ones, "look") = 0 /\ Pays(Sizes, "visit") = image.size[Now.ino]
      BY <2>1, <2>2 DEF Pays
    <2> QED BY <2>1, <2>3
  <1>5. CASE Entry \/ SkipDots \/ EndOfList \/ Resume
    <2>1. Now.at # "look" /\ Now.at # "visit"
      BY <1>5, SureWalk DEF Entry, SkipDots, EndOfList, At
    <2>2. bytes' = bytes /\ done' = done
      BY <1>5 DEF Entry, SkipDots, EndOfList, Resume, results, progress
    <2> QED BY <2>1, <2>2 DEF Pays
  <1> QED BY <1>2, <1>3, <1>4, <1>5, SureWalk

\* The inodes that could not be read, so that nothing was put out for them.
Missing(errs, items) ==
    {e \in errs : e[1] = "read" /\ \A k \in DOMAIN items : items[k].path # e[2]}

\* The jobs of collect_plan, and those it misses, pay when an item is visited.
LEMMA JobsPay ==
    ASSUME Calls, Standing, Apart, Unread, Sure, Sure', StopMeans, Walk, mode # "extract"
    PROVE  /\ Len(out) + Cardinality(Missing(errors, out)) \in Nat
           /\ Len(out') + Cardinality(Missing(errors', out')) =
                 Len(out) + Cardinality(Missing(errors, out)) + Pays(Ones, "visit")
  <1>0. stack # <<>> /\ Now.ino \in Ino /\ Ones[Now.ino] = 1
    BY SureWalk DEF Ones
  <1>1. /\ Len(out) \in Nat /\ DOMAIN out = 1 .. Len(out)
        /\ Now = stack[Len(stack)] /\ Len(stack) \in 1 .. Len(stack)
    BY <1>0, Innermost
  <1>2. IsFiniteSet(Missing(errors, out))
    BY FS_Subset DEF Unread, Missing
  <1>3. Cardinality(Missing(errors, out)) \in Nat
    BY <1>2, FS_CardinalityType
  <1>4. PICK p, x : p = Now.path /\ x = <<"read", p>>
    OBVIOUS
  <1>5. x[1] = "read" /\ x[2] = p
    BY <1>4
  <1>6. ASSUME Now.at = "visit"
        PROVE  /\ \A e \in errors : e[1] = "read" => e[2] # p
               /\ \A k \in DOMAIN out : out[k].path # p
    <2>1. Ahead(Now, p)
      <3>1. IsSeq(Now.path)
        BY <1>0, Innermost DEF IsCall
      <3>2. Len(Now.path) \in Nat
        BY <3>1, LenProperties DEF IsSeq
      <3> QED BY <1>4, <1>6, <3>2 DEF Ahead, Under
    <2> QED BY <1>1, <2>1 DEF Unread, Behind, Apart
  <1>7. CASE Unreadable
    <2>1. Now.at = "visit" /\ errors' = errors \cup {x} /\ out' = out
      BY <1>4, <1>7 DEF Unreadable, Visiting, At, Report
    <2>2. Missing(errors', out') = Missing(errors, out) \cup {x} /\ x \notin Missing(errors, out)
      BY <1>5, <1>6, <2>1 DEF Missing
    <2>3. Cardinality(Missing(errors', out')) = Cardinality(Missing(errors, out)) + 1
      BY <1>2, <2>2, FS_AddElement
    <2>4. Pays(Ones, "visit") = 1
      BY <1>0, <2>1 DEF Pays
    <2> QED BY <1>1, <1>3, <2>1, <2>3, <2>4
  <1>8. CASE Directory \/ File
    <2>1. Now.at = "visit" /\ (errors' = errors \/ errors' = errors \cup {x})
      BY <1>4, <1>8 DEF Directory, File, Readable, Visiting, At, Report
    <2>2. PICK item : out' = Append(out, item) /\ item.path = p
      <3>1. PICK y, z : /\ y = [kind |-> "dir", ino |-> Now.ino, path |-> Now.path, dest |-> Now.dest]
                        /\ z = [kind |-> "file", ino |-> Now.ino, path |-> Now.path, dest |-> Now.dest]
        OBVIOUS
      <3>2. y.path = p /\ z.path = p
        BY <1>4, <3>1
      <3>3. out' = Append(out, y) \/ out' = Append(out, z)
        BY <1>8, <3>1 DEF Directory, File, OutputDir, Output
      <3> QED BY <3>2, <3>3
    <2>3. /\ Len(out') = Len(out) + 1 /\ out'[Len(out) + 1] = item
          /\ \A k \in 1 .. Len(out) : out'[k] = out[k]
      BY <2>2, OneItem DEF Grows
    <2>4. /\ DOMAIN out' = 1 .. Len(out) + 1
          /\ \A k \in DOMAIN out' : k \in DOMAIN out \/ k = Len(out) + 1
      <3>1. IsSeq(out') /\ Len(out') = Len(out) + 1
        BY <2>2, FrontOfAppend DEF Calls
      <3>2. DOMAIN out' = 1 .. Len(out) + 1
        BY <3>1, LenProperties DEF IsSeq
      <3> QED BY <1>1, <3>2
    <2>5. Missing(errors', out') = Missing(errors, out)
      <3>1. ASSUME NEW e \in errors, e[1] = "read"
            PROVE  (\A k \in DOMAIN out' : out'[k].path # e[2]) <=> (\A k \in DOMAIN out : out[k].path # e[2])
        <4>1. e[2] # p
          BY <1>6, <2>1, <3>1
        <4>2. \A k \in DOMAIN out : k \in DOMAIN out' /\ out'[k] = out[k]
          BY <1>1, <2>3, <2>4
        <4> QED BY <2>2, <2>3, <2>4, <4>1, <4>2
      <3>2. ~\A k \in DOMAIN out' : out'[k].path # x[2]
        <4>1. Len(out) + 1 \in DOMAIN out'
          BY <1>1, <2>4
        <4> QED BY <1>5, <2>2, <2>3, <4>1
      <3> QED BY <2>1, <3>1, <3>2 DEF Missing
    <2>6. Pays(Ones, "visit") = 1
      BY <1>0, <2>1 DEF Pays
    <2> QED BY <1>1, <1>3, <2>3, <2>5, <2>6
  <1>9. CASE Look \/ Entry \/ SkipDots \/ EndOfList \/ Resume
    <2>1. out' = out /\ Now.at # "visit"
      <3>1. Look \/ Entry \/ SkipDots \/ EndOfList => Now.at # "visit"
        BY DEF Look, Entry, SkipDots, EndOfList, At
      <3>2. out' = out
        BY <1>9 DEF Look, Entry, SkipDots, EndOfList, Resume, results
      <3> QED BY <1>9, <3>1, <3>2, SureWalk
    <2>2. errors' = errors \/ \E what : \E path : errors' = errors \cup {<<what, path>>} /\ what # "read"
      BY <2>1, ErrorStep DEF Next
    <2>3. Missing(errors', out') = Missing(errors, out)
      <3>1. CASE errors' = errors
        BY <2>1, <3>1
      <3>2. CASE \E what : \E path : errors' = errors \cup {<<what, path>>} /\ what # "read"
        <4>1. PICK what, path : errors' = errors \cup {<<what, path>>} /\ what # "read"
          BY <3>2
        <4>2. <<what, path>>[1] = what
          OBVIOUS
        <4> QED BY <2>1, <4>1, <4>2 DEF Missing
      <3> QED BY <2>2, <3>1, <3>2
    <2>4. Pays(Ones, "visit") = 0
      BY <2>1 DEF Pays
    <2> QED BY <1>1, <1>3, <2>1, <2>3, <2>4
  <1> QED BY <1>1, <1>3, <1>7, <1>8, <1>9, SureWalk

\* What is counted so far and what the calls have still to count make the whole.
Weighed(w, when, m) == m \in Nat /\ \E b : Weighs(w, b) /\ Tallied(stack, b, w, when, m)
Tally ==
    Sure => IF mode = "extract"
              THEN Weighed(Ones, "look", done) /\ Weighed(Sizes, "visit", bytes)
              ELSE Weighed(Ones, "visit", Len(out) + Cardinality(Missing(errors, out)))

\* The weights.
LEMMA WeightsAre == image \in Image => Ones \in [Ino -> Nat] /\ Sizes \in [Ino -> Nat]
  BY TreeAssumption DEF Ones, Sizes

\* A step of a walk keeps the whole.
LEMMA StillWeighed ==
    ASSUME Calls, Standing, Sure, Sure', StopMeans, Walk, NEW w \in [Ino -> Nat], NEW when \in {"look", "visit"},
           NEW m, Weighed(w, when, m), NEW n, n = m + Pays(w, when)
    PROVE  Weighed(w, when, n)'
  <1>1. m \in Nat
    BY DEF Weighed
  <1>2. PICK b : Weighs(w, b) /\ Tallied(stack, b, w, when, m)
    BY DEF Weighed
  <1>3. Tallied(stack', b, w, when, n)
    BY <1>1, <1>2, WalkTallies
  <1>4. n \in Nat
    <2>1. Pays(w, when) \in Nat
      BY SureWalk DEF Pays
    <2> QED BY <1>1, <2>1
  <1>5. image' = image
    BY DEF Walk, Look, Unreadable, DiskFails, Directory, Entry, SkipDots, EndOfList, BrokenLink,
           Link, File, Resume, Readable, Visiting
  <1>6. Weighs(w, b)'
    BY <1>2, <1>5 DEF Weighs, Leaf, IsDir
  <1> QED BY <1>3, <1>4, <1>6 DEF Weighed

\* The tallies are kept.
LEMMA NextTally ==
    Calls /\ Standing /\ Apart /\ Unread /\ StopMeans /\ Tally /\ [Next]_vars => (StopMeans /\ Tally)'
  <1> SUFFICES ASSUME Calls, Standing, Apart, Unread, StopMeans, Tally, [Next]_vars
               PROVE  (StopMeans /\ Tally)'
    OBVIOUS
  <1> USE DEF results, progress, flag
  <1>1. StopMeans'
    <2>1. CASE Look
      BY <2>1 DEF StopMeans, Look, Return, MoveTo, Stops
    <2>2. CASE Unreadable \/ DiskFails \/ BrokenLink \/ EndOfList \/ File
      BY <2>2 DEF StopMeans, Unreadable, GiveUp, DiskFails, BrokenLink, EndOfList, File, Return
    <2>3. CASE Directory \/ Link
      BY <2>3 DEF StopMeans, Directory, Link, Readable, Visiting, Return
    <2>4. CASE Entry \/ SkipDots \/ PressCancel \/ UNCHANGED vars
      BY <2>4 DEF StopMeans, Entry, SkipDots, PressCancel, vars
    <2>5. CASE Resume
      BY <2>5 DEF StopMeans, Resume, Return
    <2> QED BY <2>1, <2>2, <2>3, <2>4, <2>5 DEF Next, Walk, Hang
  <1>2. image' = image /\ mode' = mode /\ (cancel => cancel') /\ errors \subseteq errors'
    <2>1. image' = image /\ mode' = mode
      BY DEF Next, Walk, Hang, Look, Unreadable, DiskFails, Directory, Entry, SkipDots, EndOfList,
             BrokenLink, Link, File, Resume, PressCancel, Readable, Visiting, vars
    <2>2. cancel => cancel'
      BY DEF Next, Walk, Hang, Look, Unreadable, DiskFails, Directory, Entry, SkipDots, EndOfList,
             BrokenLink, Link, File, Resume, PressCancel, Readable, Visiting, vars
    <2> QED BY <2>1, <2>2, ErrorStep
  <1>3. SUFFICES ASSUME Sure' PROVE Tally'
    BY <1>1 DEF Tally
  <1>4. Sure
    BY <1>2, <1>3 DEF Sure, LinkFree
  <1>5. CASE Walk
    <2>1. Ones \in [Ino -> Nat] /\ Sizes \in [Ino -> Nat] /\ Sizes' = Sizes
      BY <1>2, WeightsAre DEF Standing, Sizes, IsDir
    <2>2. CASE mode = "extract"
      <3>1. Weighed(Ones, "look", done) /\ Weighed(Sizes, "visit", bytes) /\ done \in Nat /\ bytes \in Nat
        BY <1>4, <2>2 DEF Tally, Weighed
      <3>2. done' = done + Pays(Ones, "look") /\ bytes' = bytes + Pays(Sizes, "visit")
        BY <1>3, <1>4, <1>5, <2>2, <3>1, CountersPay
      <3>3. PICK w, m, n : w = Sizes /\ m = done' /\ n = bytes'
        OBVIOUS
      <3>4. Weighed(Ones, "look", m)'
        BY <1>3, <1>4, <1>5, <2>1, <3>1, <3>2, <3>3, StillWeighed
      <3>5. Weighed(w, "visit", n)'
        BY <1>3, <1>4, <1>5, <2>1, <3>1, <3>2, <3>3, StillWeighed
      <3> QED BY <1>2, <2>1, <2>2, <3>3, <3>4, <3>5 DEF Tally, Weighed
    <2>3. CASE mode # "extract"
      <3>1. Weighed(Ones, "visit", Len(out) + Cardinality(Missing(errors, out)))
        BY <1>4, <2>3 DEF Tally
      <3>2. PICK n : n = Len(out') + Cardinality(Missing(errors', out'))
        OBVIOUS
      <3>3. n = Len(out) + Cardinality(Missing(errors, out)) + Pays(Ones, "visit")
        BY <1>3, <1>4, <1>5, <2>3, <3>2, JobsPay
      <3>4. Weighed(Ones, "visit", n)'
        BY <1>3, <1>4, <1>5, <2>1, <3>1, <3>3, StillWeighed
      <3> QED BY <1>2, <2>3, <3>2, <3>4 DEF Tally, Weighed
    <2> QED BY <2>2, <2>3
  <1>6. CASE PressCancel
    BY <1>3, <1>6 DEF PressCancel, Sure
  <1>7. CASE UNCHANGED vars
    BY <1>4, <1>7 DEF vars, Tally, Weighed, Weighs, Leaf, IsDir, Sizes
  <1> QED BY <1>5, <1>6, <1>7 DEF Next, Hang

\* The whole is before the first call.
LEMMA InitTally == Init => Unread /\ StopMeans /\ Tally
  <1> SUFFICES ASSUME Init PROVE Unread /\ StopMeans /\ Tally
    OBVIOUS
  <1>1. PICK name \in Given : stack = <<Call(Top, <<>>, <<name>>, 0)>>
    BY DEF Init
  <1>2. PICK c : c = Call(Top, <<>>, <<name>>, 0)
    OBVIOUS
  <1>3. Len(stack) = 1 /\ stack[1] = c /\ c.at = "look" /\ c.ino = Top /\ c.depth = 0
    BY <1>1, <1>2 DEF Call
  <1>4. Levels \in Nat /\ Top \in Ino /\ image \in Image
    BY TreeAssumption DEF Levels, Init
  <1>5. ASSUME NEW w \in [Ino -> Nat], NEW when \in {"look", "visit"} PROVE Weighed(w, when, 0)
    <2>1. PICK b : Weighs(w, b)
      BY <1>4, WeighsExist
    <2>2. PICK d : d = b[Levels][Top]
      OBVIOUS
    <2>3. d \in Nat
      <3>1. Levels \in 0 .. Levels
        BY <1>4
      <3> QED BY <1>4, <2>1, <2>2, <3>1 DEF Weighs
    <2>4. Cost(b, w, when, c, d)
      <3>1. 0 \in 0 .. Levels /\ Levels - 0 = Levels
        BY <1>4
      <3> QED BY <1>3, <2>2, <3>1 DEF Cost
    <2>5. PICK g : g = [k \in 0 .. 1 |-> IF k = 0 THEN 0 ELSE d]
      OBVIOUS
    <2>6. g \in [0 .. 1 -> Nat] /\ g[0] = 0 /\ g[1] = g[0] + d /\ 0 + g[1] = b[Levels][Top]
      BY <2>2, <2>3, <2>5
    <2>7. \A k \in 1 .. 1 : k = 1 /\ k - 1 = 0
      OBVIOUS
    <2>8. \A k \in 1 .. 1 : \E e \in Nat : Cost(b, w, when, stack[k], e) /\ g[k] = g[k - 1] + e
      BY <1>3, <2>3, <2>4, <2>6, <2>7
    <2>9. Tallied(stack, b, w, when, 0)
      BY <1>3, <2>6, <2>8 DEF Tallied
    <2> QED BY <2>1, <2>9 DEF Weighed
  <1>6. done = 0 /\ bytes = 0 /\ out = <<>> /\ errors = {} /\ ret = "none"
    BY DEF Init
  <1>7. Len(out) + Cardinality(Missing(errors, out)) = 0
    <2>1. Missing(errors, out) = {} /\ Len(out) = 0
      BY <1>6, EmptySeq DEF Missing
    <2> QED BY <2>1, FS_EmptySet
  <1>8. Tally
    BY <1>4, <1>5, <1>6, <1>7, WeightsAre DEF Tally
  <1> QED BY <1>6, <1>8, FS_EmptySet DEF Unread, Behind, StopMeans

\* If no directory has a name twice: on a tree without links, the count made beforehand is
\* what the walk then meets, whatever cannot be read.
THEOREM CountIsMet == NamesUnique => (Spec => []CountAgrees)
  <1> SUFFICES ASSUME NamesUnique PROVE Spec => []CountAgrees
    OBVIOUS
  <1> DEFINE Inv == /\ Calls /\ Placed /\ Standing /\ Apart
                    /\ Unread /\ StopMeans /\ Tally
  <1>1. Init => Inv
    <2> SUFFICES ASSUME Init PROVE Apart
      BY InitWalk, InitStands, InitTally
    <2>1. PICK name \in Given : stack = <<Call(Top, <<>>, <<name>>, 0)>>
      BY DEF Init
    <2>2. Len(stack) = 1 /\ Len(out) = 0 /\ stack[1].at = "look"
      BY <2>1 DEF Init, Call
    <2> QED BY <2>2 DEF Apart
  <1>2. Inv /\ [Next]_vars => Inv'
    BY NextPlaced, NextStands, NextApart, NextUnread, NextTally
  <1>3. Inv => CountAgrees
    <2> SUFFICES ASSUME Inv, LinkFree, Undisturbed
                 PROVE  IF mode = "extract" THEN done = Items /\ bytes = Bytes
                        ELSE Len(out) + Cardinality(Missing(errors, out)) = Items
      BY DEF CountAgrees, Missing, OutRange
    <2>1. Sure /\ stack = <<>> /\ image \in Image
      BY DEF Undisturbed, Finished, Sure, Standing
    <2>2. ASSUME NEW w, NEW when, NEW m, Weighed(w, when, m) PROVE m = Counted(w)
      <3>1. PICK b : Weighs(w, b) /\ Tallied(stack, b, w, when, m)
        BY <2>2 DEF Weighed
      <3>2. Len(stack) = 0
        BY <2>1, EmptySeq
      <3>3. m \in Nat /\ m + 0 = b[Levels][Top]
        BY <2>2, <3>1, <3>2 DEF Tallied, Weighed
      <3> QED BY <2>1, <3>1, <3>3, WeighsIs
    <2> QED BY <2>1, <2>2 DEF Tally, Items, Bytes
  <1> QED BY <1>1, <1>2, <1>3, PTL DEF Spec

=============================================================================
