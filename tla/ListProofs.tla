------------------------------ MODULE ListProofs ------------------------------
(***************************************************************************)
(* TLAPS proofs about lists and finite sets of numbers, for the proofs     *)
(* about the services.                                                     *)
(***************************************************************************)
EXTENDS Lists, Sequences, FiniteSetTheorems, WellFoundedInduction, TLAPS

Sequence == INSTANCE SequencesExt

\* A nonempty set of natural numbers has a smallest one.
LEMMA SmallestOf ==
    ASSUME NEW S, S \subseteq Nat, S # {}
    PROVE  \E x \in S : \A y \in S : x =< y
<1>1. IsWellFoundedOn(OpToRel(<, Nat), Nat) BY NatLessThanWellFounded, Zenon
<1>2. PICK x \in S : \A y \in S : <<y, x>> \notin OpToRel(<, Nat) BY <1>1, WFMin, Zenon
<1>3. \A y \in S : ~(y < x) BY <1>2, Zenon DEF OpToRel
<1>4. QED BY <1>3

Below(F, k) == {j \in F : j <= k}

\* The elements of a finite set of numbers have all ranks up to its size.
LEMMA EveryRank ==
    ASSUME NEW N \in Nat, NEW F, F \subseteq 1..N, NEW n \in 1..Cardinality(F)
    PROVE  \E i \in F : Cardinality(Below(F, i)) = n
<1> DEFINE enough == {k \in 0..N : Cardinality(Below(F, k)) >= n}
<1>1. IsFiniteSet(F)
  <2> PICK all : all = 1..N OBVIOUS
  <2>1. IsFiniteSet(all) BY FS_Interval
  <2>2. F \in SUBSET all OBVIOUS
  <2>3. QED BY <2>1, <2>2, FS_Subset
<1>2. ASSUME NEW k
      PROVE  IsFiniteSet(Below(F, k)) /\ Cardinality(Below(F, k)) \in Nat
  <2> PICK B : B = Below(F, k) OBVIOUS
  <2>1. B \in SUBSET F BY DEF Below
  <2>2. IsFiniteSet(B) BY <1>1, <2>1, FS_Subset
  <2>3. Cardinality(B) \in Nat BY <2>2, FS_CardinalityType
  <2>4. QED BY <2>2, <2>3
<1>3. Below(F, N) = F /\ Below(F, 0) = {}
  <2>1. \A j \in F : j <= N /\ ~(j <= 0) OBVIOUS
  <2>2. QED BY <2>1 DEF Below
<1>4. Cardinality(F) \in Nat /\ n \in Nat /\ n > 0 /\ Cardinality(F) >= n
  BY <1>1, FS_CardinalityType
<1>5. N \in enough /\ 0 \notin enough BY <1>3, <1>4, FS_EmptySet
<1>6. PICK k \in enough : \A j \in enough : k <= j
  <2>1. enough \subseteq Nat /\ enough # {} BY <1>5
  <2> HIDE DEF enough
  <2>2. QED BY <2>1, SmallestOf
<1>7. k \in 1..N /\ k - 1 \in 0..N /\ k - 1 \notin enough
  <2>1. k \in 0..N /\ k # 0 BY <1>5
  <2>2. k - 1 \notin enough
    <3> HIDE DEF enough
    <3>1. QED BY <1>6, <2>1
  <2>3. QED BY <2>1, <2>2
<1>8. /\ Cardinality(Below(F, k - 1)) < n /\ Cardinality(Below(F, k)) >= n
      /\ Cardinality(Below(F, k - 1)) \in Nat /\ Cardinality(Below(F, k)) \in Nat
  BY <1>2, <1>4, <1>7
<1>9. k \in F /\ Below(F, k) = Below(F, k - 1) \cup {k} /\ k \notin Below(F, k - 1)
  <2>1. \A j \in F : j <= k <=> j <= k - 1 \/ j = k BY <1>7
  <2>2. k \notin F => Below(F, k) = Below(F, k - 1) BY <1>7, <2>1 DEF Below
  <2>3. k \in F BY <1>8, <2>2
  <2>4. QED BY <1>7, <2>1, <2>3 DEF Below
<1>10. Cardinality(Below(F, k)) = Cardinality(Below(F, k - 1)) + 1
  <2> PICK B : B = Below(F, k - 1) OBVIOUS
  <2>1. IsFiniteSet(B) /\ k \notin B /\ Below(F, k) = B \cup {k} BY <1>2, <1>9
  <2>2. Cardinality(B \cup {k}) = Cardinality(B) + 1 BY <2>1, FS_AddElement
  <2>3. QED BY <2>1, <2>2
<1>11. Cardinality(Below(F, k)) = n BY <1>4, <1>8, <1>10
<1>12. QED BY <1>9, <1>11

\* What a list has at some places is as long as there are places, and in their
\* order.
InOrder(list, places, picked) ==
    /\ Cardinality(places) \in Nat
    /\ DOMAIN picked = 1..Cardinality(places)
    /\ \A n \in DOMAIN picked : \E i \in places :
         picked[n] = list[i] /\ Cardinality(Below(places, i)) = n

LEMMA PickedIs ==
    ASSUME NEW list, NEW N \in Nat, NEW places, places \subseteq 1..N
    PROVE  InOrder(list, places, Picked(list, places))
<1> PICK size : size = Cardinality(places) OBVIOUS
<1> DEFINE place(n) == CHOOSE i \in places : Cardinality(Below(places, i)) = n
<1>1. size \in Nat
  <2> PICK all : all = 1..N OBVIOUS
  <2>1. IsFiniteSet(all) BY FS_Interval
  <2>2. places \in SUBSET all OBVIOUS
  <2>3. IsFiniteSet(places) BY <2>1, <2>2, FS_Subset
  <2>4. QED BY <2>3, FS_CardinalityType
<1>2. Picked(list, places) = [n \in 1..Cardinality(places) |-> list[place(n)]]
  BY DEF Picked, Below
<1>3. Cardinality(places) = size OBVIOUS
<1>4. ASSUME NEW n \in 1..size
      PROVE  place(n) \in places /\ Cardinality(Below(places, place(n))) = n
  <2>1. \E i \in places : Cardinality(Below(places, i)) = n BY EveryRank
  <2>2. QED BY <2>1
<1> HIDE DEF place
<1>5. QED BY <1>1, <1>2, <1>3, <1>4 DEF InOrder

\* What there is in a list is in what is taken from it at its place.
HasAll(picked, list, places) ==
    \A i \in places : \E n \in DOMAIN picked : picked[n] = list[i]

LEMMA PickedAll ==
    ASSUME NEW list, NEW N \in Nat, NEW places, places \subseteq 1..N
    PROVE  HasAll(Picked(list, places), list, places)
<1> SUFFICES ASSUME NEW i \in places, NEW picked, picked = Picked(list, places)
             PROVE  \E n \in DOMAIN picked : picked[n] = list[i]
  BY DEF HasAll
<1> PICK n : n = Cardinality(Below(places, i)) OBVIOUS
<1>1. InOrder(list, places, picked) BY PickedIs
<1>2. IsFiniteSet(places)
  <2> PICK all : all = 1..N OBVIOUS
  <2>1. IsFiniteSet(all) BY FS_Interval
  <2>2. places \in SUBSET all OBVIOUS
  <2>3. QED BY <2>1, <2>2, FS_Subset
<1>3. ASSUME NEW j \in places, NEW k \in places, j < k
      PROVE  Cardinality(Below(places, j)) < Cardinality(Below(places, k))
  <2> PICK S, T : S = Below(places, j) /\ T = Below(places, k) OBVIOUS
  <2> HIDE DEF Below
  <2>0. j \in Nat /\ k \in Nat /\ \A x \in places : x \in Nat OBVIOUS
  <2>1. S \subseteq T /\ k \in T /\ k \notin S /\ T \subseteq places
    <3>1. \A x \in places : x <= j => x <= k BY <1>3, <2>0
    <3>2. ~(k <= j) BY <1>3, <2>0
    <3>3. S = {x \in places : x <= j} /\ T = {x \in places : x <= k} BY DEF Below
    <3>4. k <= k BY <2>0
    <3>5. k \in T /\ k \notin S BY <3>2, <3>3, <3>4
    <3>6. S \subseteq T /\ T \subseteq places BY <3>1, <3>3
    <3>7. QED BY <3>5, <3>6
  <2>2. T \in SUBSET places /\ S \in SUBSET T BY <2>1
  <2>3. IsFiniteSet(T) BY <1>2, <2>2, FS_Subset
  <2>4. /\ IsFiniteSet(S) /\ Cardinality(S) <= Cardinality(T)
        /\ Cardinality(T) = Cardinality(S) => T = S
    BY <2>2, <2>3, FS_Subset
  <2>5. Cardinality(S) \in Nat /\ Cardinality(T) \in Nat BY <2>3, <2>4, FS_CardinalityType
  <2>6. QED BY <2>1, <2>4, <2>5
<1>4. n \in 1..Cardinality(places)
  <2> PICK B : B = Below(places, i) OBVIOUS
  <2>1. B \in SUBSET places /\ i \in B BY DEF Below
  <2>2. IsFiniteSet(B) /\ Cardinality(B) <= Cardinality(places) BY <1>2, <2>1, FS_Subset
  <2>3. Cardinality(B) \in Nat /\ Cardinality(places) \in Nat BY <1>2, <2>2, FS_CardinalityType
  <2>4. Cardinality(B) # 0 BY <2>1, <2>2, FS_EmptySet
  <2>5. QED BY <2>2, <2>3, <2>4
<1>5. PICK k \in places : picked[n] = list[k] /\ Cardinality(Below(places, k)) = n
  BY <1>1, <1>4 DEF InOrder
<1>6. k = i
  <2>1. i \in Nat /\ k \in Nat OBVIOUS
  <2>2. n \in Nat BY <1>1, <1>4 DEF InOrder
  <2>3. Cardinality(Below(places, i)) = n /\ Cardinality(Below(places, k)) = n BY <1>5
  <2>4. ~(n < n) BY <2>2
  <2>5. ~(i < k) /\ ~(k < i) BY <1>3, <2>3, <2>4
  <2>6. QED BY <2>1, <2>5
<1>7. QED BY <1>1, <1>4, <1>5, <1>6 DEF InOrder

\* A list in which each case is once.
Listed(list) == {list[i] : i \in DOMAIN list}

LEMMA SeqOfListed ==
    ASSUME NEW S, NEW list \in Seq(S) PROVE list \in Seq(Listed(list))
<1>1. Len(list) \in Nat /\ list = [i \in 1..Len(list) |-> list[i]] OBVIOUS
<1>2. \A i \in 1..Len(list) : list[i] \in Listed(list) BY <1>1 DEF Listed
<1>3. QED BY <1>1, <1>2

\* A list of anything.
SomeList(s) == s \in Seq(Listed(s))

\* A function of the first numbers is a list.
LEMMA ListIs ==
    ASSUME NEW n \in Nat, NEW s, DOMAIN s = 1..n, s = [i \in DOMAIN s |-> s[i]]
    PROVE  Len(s) = n /\ SomeList(s)
<1>1. s \in [1..n -> Listed(s)] BY DEF Listed
<1>2. [1..n -> Listed(s)] \subseteq Seq(Listed(s)) OBVIOUS
<1>3. QED BY <1>1, <1>2 DEF SomeList

LEMMA ListsDomain ==
    ASSUME NEW s, SomeList(s)
    PROVE  Len(s) \in Nat /\ DOMAIN s = 1..Len(s)
BY DEF SomeList

\* The elements of a list.
LEMMA SeqIs ==
    ASSUME NEW S, NEW s \in Seq(S)
    PROVE  /\ Len(s) \in Nat /\ DOMAIN s = 1..Len(s)
           /\ \A i \in 1..Len(s) : s[i] \in S
OBVIOUS

LEMMA ListedOf == ASSUME NEW S, NEW s \in Seq(S) PROVE SomeList(s) /\ Listed(s) \subseteq S
<1>1. DOMAIN s = 1..Len(s) /\ \A i \in 1..Len(s) : s[i] \in S BY SeqIs
<1>2. Listed(s) \subseteq S BY <1>1 DEF Listed
<1>3. QED BY <1>2, SeqOfListed DEF SomeList

LEMMA ListOver ==
    ASSUME NEW a, SomeList(a), NEW U, Listed(a) \subseteq U PROVE a \in Seq(U)
<1>1. a \in Seq(Listed(a)) BY DEF SomeList
<1>2. Len(a) \in Nat /\ a = [i \in 1..Len(a) |-> a[i]] /\ \A i \in 1..Len(a) : a[i] \in Listed(a)
  BY <1>1
<1>3. QED BY <1>2

\* Lists that are written down, and lists one after the other.
LEMMA ShortLists ==
    /\ SomeList(<<>>)
    /\ \A a : SomeList(<<a>>)
    /\ \A a, b : SomeList(<<a, b>>)
<1>1. ASSUME NEW S PROVE <<>> \in Seq(S) OBVIOUS
<1>2. ASSUME NEW S, NEW a \in S PROVE <<a>> \in Seq(S) OBVIOUS
<1>3. ASSUME NEW S, NEW a \in S, NEW b \in S PROVE <<a, b>> \in Seq(S) OBVIOUS
<1>4. ASSUME NEW a PROVE SomeList(<<a>>)
  <2> PICK S : S = {a} OBVIOUS
  <2>1. <<a>> \in Seq(S) BY <1>2
  <2>2. QED BY <2>1, SeqOfListed DEF SomeList
<1>5. ASSUME NEW a, NEW b PROVE SomeList(<<a, b>>)
  <2> PICK S : S = {a, b} OBVIOUS
  <2>1. <<a, b>> \in Seq(S) BY <1>3
  <2>2. QED BY <2>1, SeqOfListed DEF SomeList
<1>6. SomeList(<<>>) BY <1>1, SeqOfListed DEF SomeList
<1>7. QED BY <1>4, <1>5, <1>6

LEMMA ListCat ==
    ASSUME NEW a, NEW b, SomeList(a), SomeList(b)
    PROVE  SomeList(a \o b)
<1> PICK U : U = Listed(a) \cup Listed(b) OBVIOUS
<1>1. a \in Seq(U) /\ b \in Seq(U) BY DEF SomeList
<1>2. a \o b \in Seq(U) BY <1>1
<1>3. QED BY <1>2, SeqOfListed DEF SomeList

\* The elements of two lists, and of what is taken from one.
LEMMA ListedCat ==
    ASSUME NEW a, NEW b, SomeList(a), SomeList(b)
    PROVE  SomeList(a \o b) /\ Listed(a \o b) \subseteq Listed(a) \cup Listed(b)
<1> PICK U : U = Listed(a) \cup Listed(b) OBVIOUS
<1> PICK c : c = a \o b OBVIOUS
<1>1. a \in Seq(U) /\ b \in Seq(U) BY DEF SomeList
<1>2. c \in Seq(U) BY <1>1
<1>3. DOMAIN c = 1..Len(c) /\ \A i \in 1..Len(c) : c[i] \in U BY <1>2, SeqIs
<1>4. Listed(c) \subseteq U BY <1>3 DEF Listed
<1>5. QED BY <1>4, ListCat

LEMMA CatListed ==
    ASSUME NEW a, NEW b, SomeList(a), SomeList(b)
    PROVE  Listed(a \o b) = Listed(a) \cup Listed(b)
<1> PICK U : U = Listed(a) \cup Listed(b) OBVIOUS
<1> PICK c : c = a \o b OBVIOUS
<1>1. a \in Seq(U) /\ b \in Seq(U) BY DEF SomeList
<1>2. /\ c \in Seq(U) /\ Len(c) = Len(a) + Len(b)
      /\ \A i \in 1..Len(a) : c[i] = a[i]
      /\ \A i \in 1..Len(b) : c[Len(a) + i] = b[i]
  BY <1>1
<1>3. Len(a) \in Nat /\ Len(b) \in Nat /\ DOMAIN a = 1..Len(a) /\ DOMAIN b = 1..Len(b)
  BY ListsDomain
<1>4. DOMAIN c = 1..(Len(a) + Len(b)) BY <1>2, <1>3, SeqIs
<1>5. \A x \in Listed(a) : x \in Listed(c) BY <1>2, <1>3, <1>4 DEF Listed
<1>6. ASSUME NEW x \in Listed(b) PROVE x \in Listed(c)
  <2>1. PICK i \in 1..Len(b) : x = b[i] BY <1>3 DEF Listed
  <2>2. Len(a) + i \in DOMAIN c /\ c[Len(a) + i] = x BY <1>2, <1>3, <1>4, <2>1
  <2>3. QED BY <2>2 DEF Listed
<1>7. Listed(c) \subseteq Listed(a) \cup Listed(b) BY ListedCat
<1>8. QED BY <1>5, <1>6, <1>7

\* Two lists without repetition, and with nothing in common.
Distinct(list) == \A i, j \in DOMAIN list : list[i] = list[j] => i = j

LEMMA CatDistinct ==
    ASSUME NEW a, NEW b, SomeList(a), SomeList(b), Distinct(a), Distinct(b),
           Listed(a) \cap Listed(b) = {}
    PROVE  Distinct(a \o b)
<1> PICK U : U = Listed(a) \cup Listed(b) OBVIOUS
<1> PICK c : c = a \o b OBVIOUS
<1>1. a \in Seq(U) /\ b \in Seq(U) BY DEF SomeList
<1>2. c \in Seq(U) /\ Len(c) = Len(a) + Len(b) BY <1>1
<1>3. Len(a) \in Nat /\ Len(b) \in Nat /\ DOMAIN a = 1..Len(a) /\ DOMAIN b = 1..Len(b)
  BY ListsDomain
<1>4. DOMAIN c = 1..(Len(a) + Len(b)) BY <1>2, <1>3, SeqIs
<1>5. ASSUME NEW i \in DOMAIN c
      PROVE  \/ i \in DOMAIN a /\ c[i] = a[i]
             \/ i > Len(a) /\ i - Len(a) \in DOMAIN b /\ c[i] = b[i - Len(a)]
  BY <1>1, <1>3, <1>4
<1>6. ASSUME NEW i \in DOMAIN c, NEW j \in DOMAIN c, c[i] = c[j] PROVE i = j
  <2>1. i \in Nat /\ j \in Nat BY <1>3, <1>4
  <2>2. CASE i \in DOMAIN a /\ c[i] = a[i] /\ j \in DOMAIN a /\ c[j] = a[j]
    BY <1>6, <2>2 DEF Distinct
  <2>3. CASE i - Len(a) \in DOMAIN b /\ c[i] = b[i - Len(a)]
             /\ j - Len(a) \in DOMAIN b /\ c[j] = b[j - Len(a)]
    <3>1. i - Len(a) = j - Len(a) BY <1>6, <2>3 DEF Distinct
    <3>2. QED BY <1>3, <2>1, <3>1
  <2>4. ASSUME NEW k \in DOMAIN a, NEW m \in DOMAIN b, a[k] = b[m] PROVE FALSE
    BY <2>4 DEF Listed
  <2>5. QED BY <1>5, <1>6, <2>2, <2>3, <2>4
<1>7. QED BY <1>6 DEF Distinct

LEMMA PickedFrom ==
    ASSUME NEW S, NEW list \in Seq(S), NEW places, places \subseteq 1..Len(list)
    PROVE  Picked(list, places) \in Seq(S)
<1> PICK picked : picked = Picked(list, places) OBVIOUS
<1> PICK size : size = Cardinality(places) OBVIOUS
<1>1. InOrder(list, places, picked)
  <2>1. Len(list) \in Nat OBVIOUS
  <2>2. QED BY <2>1, PickedIs
<1>2. size \in Nat /\ DOMAIN picked = 1..size BY <1>1 DEF InOrder
<1>3. \A n \in 1..size : picked[n] \in S BY <1>1, <1>2 DEF InOrder
<1>4. picked = [n \in 1..size |-> picked[n]]
  <2> PICK f : f = [n \in 1..Cardinality(places) |->
                      list[CHOOSE i \in places :
                             Cardinality({j \in places : j <= i}) = n]]
    OBVIOUS
  <2>1. picked = f BY DEF Picked
  <2>2. f = [n \in DOMAIN f |-> f[n]] OBVIOUS
  <2>3. QED BY <1>2, <2>1, <2>2
<1>5. QED BY <1>2, <1>3, <1>4

\* A list of what another has at some places.
TakenFrom(s, list, places) ==
    SomeList(s) /\ \A n \in 1..Len(s) : \E i \in places : s[n] = list[i]

LEMMA PickedList ==
    ASSUME NEW list, NEW N \in Nat, NEW places, places \subseteq 1..N,
           NEW s, s = Picked(list, places)
    PROVE  TakenFrom(s, list, places)
<1>1. InOrder(list, places, s) BY PickedIs
<1> PICK k : k = Cardinality(places) OBVIOUS
<1>2. k \in Nat /\ DOMAIN s = 1..k /\ \A n \in 1..k : \E i \in places : s[n] = list[i]
  BY <1>1 DEF InOrder
<1>3. s = [i \in DOMAIN s |-> s[i]] BY DEF Picked
<1>4. Len(s) = k /\ SomeList(s) BY <1>2, <1>3, ListIs
<1>5. QED BY <1>2, <1>4 DEF TakenFrom

LEMMA ListedPicked ==
    ASSUME NEW s, NEW list, NEW places, TakenFrom(s, list, places)
    PROVE  \A x \in Listed(s) : \E i \in places : x = list[i]
<1>1. SomeList(s) /\ \A n \in 1..Len(s) : \E i \in places : s[n] = list[i] BY DEF TakenFrom
<1>2. DOMAIN s = 1..Len(s) BY <1>1, ListsDomain
<1>3. QED BY <1>1, <1>2 DEF Listed

\* The first and the latest of some places are among them.
LEMMA FirstIs ==
    ASSUME NEW S, S \subseteq Nat, S # {} PROVE First(S) \in S
<1>1. \E x \in S : \A y \in S : x <= y BY SmallestOf
<1>2. QED BY <1>1 DEF First

LEMMA LatestIs ==
    ASSUME NEW n \in Nat, NEW S, S \subseteq 1..n, S # {} PROVE Latest(S) \in S
<1> DEFINE behind == {k \in Nat : n - k \in S}
<1>1. \E x \in behind : \A y \in behind : x <= y
  <2>1. PICK i \in S : TRUE OBVIOUS
  <2>2. n - i \in behind BY <2>1
  <2>3. behind \subseteq Nat /\ behind # {} BY <2>2
  <2> HIDE DEF behind
  <2>4. QED BY <2>3, SmallestOf
<1>2. PICK k \in behind : \A y \in behind : k <= y BY <1>1
<1>3. \A j \in S : n - j \in behind /\ j \in Nat OBVIOUS
<1>4. n - k \in S /\ k \in Nat OBVIOUS
<1>5. \A j \in S : j <= n - k BY <1>2, <1>3, <1>4
<1>6. QED BY <1>4, <1>5 DEF Latest

LEMMA FiniteImage ==
    ASSUME NEW S, IsFiniteSet(S), NEW g
    PROVE  IsFiniteSet({g[x] : x \in S})
<1> PICK T : T = {g[x] : x \in S} OBVIOUS
<1> PICK h : h = [x \in S |-> g[x]] OBVIOUS
<1>1. h \in Surjection(S, T) BY DEF Surjection
<1>2. IsFiniteSet(T) BY <1>1, FS_Surjection
<1>3. QED BY <1>2

LEMMA AppendIs ==
    ASSUME NEW s, SomeList(s), NEW x
    PROVE  SomeList(Append(s, x)) /\ Listed(Append(s, x)) = Listed(s) \cup {x}
<1> PICK U : U = Listed(s) \cup {x} OBVIOUS
<1> PICK t : t = Append(s, x) OBVIOUS
<1>1. s \in Seq(U) /\ x \in U BY ListOver
<1>2. /\ t \in Seq(U) /\ Len(t) = Len(s) + 1 /\ t[Len(s) + 1] = x
      /\ \A i \in 1..Len(s) : t[i] = s[i]
  BY <1>1
<1>3. Len(s) \in Nat /\ DOMAIN s = 1..Len(s) BY ListsDomain
<1>4. DOMAIN t = 1..(Len(s) + 1) BY <1>2, <1>3, SeqIs
<1>5. \A i \in DOMAIN t : i \in DOMAIN s \/ i = Len(s) + 1 BY <1>3, <1>4
<1>6. \A i \in DOMAIN s : i \in DOMAIN t BY <1>3, <1>4
<1>7. Len(s) + 1 \in DOMAIN t BY <1>3, <1>4
<1>8. \A y \in Listed(t) : y \in Listed(s) \/ y = x BY <1>2, <1>3, <1>5 DEF Listed
<1>9. \A y \in Listed(s) : y \in Listed(t) BY <1>2, <1>3, <1>6 DEF Listed
<1>10. x \in Listed(t) BY <1>2, <1>7 DEF Listed
<1>11. SomeList(t) BY <1>2, SeqOfListed DEF SomeList
<1>12. QED BY <1>8, <1>9, <1>10, <1>11

\* What FlattenSeq defines, up to the n-th list.
Flattening(lists, n, f) ==
    f = [i \in 1..n |-> IF i = 1 THEN lists[i] ELSE f[i-1] \o lists[i]]

FlatTo(S, lists, n, f) == Flattening(lists, n, f) /\ \A i \in 1..n : f[i] \in Seq(S)

LEMMA OneMoreList ==
    ASSUME NEW S, NEW lists \in Seq(Seq(S)), NEW n \in 1..Len(lists), NEW f,
           FlatTo(S, lists, n - 1, f)
    PROVE  \E g : FlatTo(S, lists, n, g)
<1> DEFINE last == IF n = 1 THEN lists[n] ELSE f[n-1] \o lists[n]
           g == [i \in 1..n |-> IF i = n THEN last ELSE f[i]]
<1>1. Len(lists) \in Nat /\ \A i \in 1..Len(lists) : lists[i] \in Seq(S) OBVIOUS
<1>2. n \in Nat /\ n - 1 \in Nat /\ \A i \in 1..(n-1) : i \in 1..n /\ i # n BY <1>1
<1>3. \A i \in 1..(n-1) : /\ f[i] \in Seq(S)
                          /\ f[i] = IF i = 1 THEN lists[i] ELSE f[i-1] \o lists[i]
  BY DEF FlatTo, Flattening
<1>4. last \in Seq(S)
  <2>1. CASE n = 1 BY <1>1, <2>1
  <2>2. CASE n # 1
    <3>1. f[n-1] \in Seq(S) /\ lists[n] \in Seq(S) BY <1>1, <1>2, <1>3, <2>2
    <3>2. QED BY <2>2, <3>1
  <2>3. QED BY <2>1, <2>2
<1>5. g = [i \in 1..n |-> g[i]] /\ g[n] = last /\ \A i \in 1..(n-1) : g[i] = f[i]
  <2> HIDE DEF last
  <2>1. n \in 1..n BY <1>2
  <2>2. g[n] = last /\ \A i \in 1..(n-1) : g[i] = f[i] BY <1>2, <2>1
  <2>3. g = [i \in 1..n |-> g[i]] OBVIOUS
  <2>4. QED BY <2>2, <2>3
<1>6. ASSUME NEW i \in 1..n
      PROVE  g[i] \in Seq(S) /\ g[i] = IF i = 1 THEN lists[i] ELSE g[i-1] \o lists[i]
  <2>1. CASE i # n
    <3>1. i \in 1..(n-1) /\ (i # 1 => i - 1 \in 1..(n-1)) BY <1>2, <2>1
    <3> HIDE DEF g
    <3>2. QED BY <1>3, <1>5, <3>1
  <2>2. CASE i = n
    <3>1. n # 1 => n - 1 \in 1..(n-1) BY <1>2
    <3> HIDE DEF g
    <3>2. n # 1 => g[n-1] = f[n-1] BY <1>5, <3>1
    <3>3. QED BY <1>4, <1>5, <2>2, <3>2
  <2>3. QED BY <2>1, <2>2
<1> HIDE DEF g
<1>7. Flattening(lists, n, g)
  <2> PICK h : h = [i \in 1..n |-> IF i = 1 THEN lists[i] ELSE g[i-1] \o lists[i]] OBVIOUS
  <2>1. \A i \in 1..n : g[i] = h[i] BY <1>6
  <2>2. g = h BY <1>5, <2>1
  <2>3. QED BY <2>2 DEF Flattening
<1>8. QED BY <1>6, <1>7 DEF FlatTo

\* Lists one after the other are a list: of those up to which there would be
\* none, one would be the shortest.
LEMMA FlatIs ==
    ASSUME NEW S, NEW lists \in Seq(Seq(S))
    PROVE  Sequence!FlattenSeq(lists) \in Seq(S)
<1> PICK N : N = Len(lists) OBVIOUS
<1> DEFINE bad == {n \in 0..N : ~ \E f : FlatTo(S, lists, n, f)}
<1>1. N \in Nat OBVIOUS
<1>2. ASSUME bad # {} PROVE FALSE
  <2>1. PICK n \in bad : \A m \in bad : n <= m
    <3>1. bad \subseteq Nat BY <1>1
    <3> HIDE DEF bad
    <3>2. QED BY <1>2, <3>1, SmallestOf
  <2>2. n \in 0..N /\ ~ \E f : FlatTo(S, lists, n, f) OBVIOUS
  <2>3. CASE n = 0
    <3> DEFINE e == [i \in 1..n |-> IF i = 1 THEN lists[i] ELSE <<>>]
    <3>1. \A i \in 1..n : FALSE BY <2>3
    <3>2. e = [i \in 1..n |-> IF i = 1 THEN lists[i] ELSE e[i-1] \o lists[i]] BY <3>1
    <3> HIDE DEF e
    <3>3. FlatTo(S, lists, n, e) BY <3>1, <3>2 DEF FlatTo, Flattening
    <3>4. QED BY <2>2, <3>3
  <2>4. CASE n # 0
    <3>1. n - 1 \in 0..N /\ n \in 1..N /\ ~(n <= n - 1) BY <1>1, <2>2, <2>4
    <3>2. n - 1 \notin bad
      <4> HIDE DEF bad
      <4>1. QED BY <2>1, <3>1
    <3>3. PICK f : FlatTo(S, lists, n - 1, f) BY <3>1, <3>2
    <3>4. \E g : FlatTo(S, lists, n, g) BY <3>1, <3>3, OneMoreList
    <3>5. QED BY <2>2, <3>4
  <2>5. QED BY <2>3, <2>4
<1>3. PICK f : FlatTo(S, lists, N, f)
  <2>1. N \in 0..N BY <1>1
  <2>2. QED BY <1>2, <2>1
<1> DEFINE all == CHOOSE g : Flattening(lists, Len(lists), g)
<1>4. Flattening(lists, N, all) BY <1>3 DEF FlatTo
<1>5. CASE N = 0
  <2>1. Sequence!FlattenSeq(lists) = lists BY <1>5 DEF Sequence!FlattenSeq
  <2>2. lists \in [1..0 -> S]
    <3>1. DOMAIN lists = 1..N /\ lists = [i \in DOMAIN lists |-> lists[i]] OBVIOUS
    <3>2. DOMAIN lists = 1..0 /\ \A i \in 1..0 : lists[i] \in S BY <1>5, <3>1
    <3>3. QED BY <3>1, <3>2
  <2>3. [1..0 -> S] \subseteq Seq(S) OBVIOUS
  <2>4. QED BY <2>1, <2>2, <2>3
<1>6. CASE N # 0
  <2>1. Sequence!FlattenSeq(lists) = all[N]
    BY <1>6 DEF Sequence!FlattenSeq, Flattening
  <2> DEFINE wrong == {i \in 1..N : all[i] \notin Seq(S)}
  <2> HIDE DEF all
  <2>2. /\ \A i \in 1..N : all[i] = IF i = 1 THEN lists[i] ELSE all[i-1] \o lists[i]
        /\ \A i \in 1..N : lists[i] \in Seq(S)
    <3>1. \A i \in 1..N : all[i] = IF i = 1 THEN lists[i] ELSE all[i-1] \o lists[i]
      BY <1>4 DEF Flattening
    <3>2. \A i \in 1..N : lists[i] \in Seq(S) OBVIOUS
    <3>3. QED BY <3>1, <3>2
  <2>3. ASSUME wrong # {} PROVE FALSE
    <3>1. PICK i \in wrong : \A j \in wrong : i <= j
      <4>1. wrong \subseteq Nat BY <1>1
      <4> HIDE DEF wrong
      <4>2. QED BY <2>3, <4>1, SmallestOf
    <3>2. i \in 1..N /\ all[i] \notin Seq(S) OBVIOUS
    <3>3. i # 1 => i - 1 \in 1..N /\ i - 1 \notin wrong
      <4>1. i # 1 => i - 1 \in 1..N /\ ~(i <= i - 1) BY <1>1, <3>2
      <4> HIDE DEF wrong
      <4>2. QED BY <3>1, <4>1
    <3>4. i # 1 => all[i-1] \in Seq(S) BY <3>3
    <3> HIDE DEF wrong
    <3> PICK a, b : a = all[i-1] /\ b = lists[i] OBVIOUS
    <3>5. b \in Seq(S) BY <2>2, <3>2
    <3>6. i # 1 => a \o b \in Seq(S) BY <3>4, <3>5
    <3>7. all[i] = IF i = 1 THEN b ELSE a \o b BY <2>2, <3>2
    <3>8. QED BY <3>2, <3>5, <3>6, <3>7
  <2>4. N \in 1..N BY <1>1, <1>6
  <2>5. all[N] \in Seq(S) BY <2>3, <2>4
  <2>6. QED BY <2>1, <2>5
<1>7. QED BY <1>5, <1>6

===============================================================================
