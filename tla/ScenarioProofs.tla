---------------------------- MODULE ScenarioProofs ----------------------------
(***************************************************************************)
(* TLAPS proofs about the scenarios of a project: what is kept of the      *)
(* drafts, the steps they are made of, the rows they are stored as, and    *)
(* the inputs that are approved for them and pinned to their variants; for *)
(* any number of requests, graphs, contracts, policies and restarts.       *)
(***************************************************************************)
EXTENDS Services, ListProofs

-----------------------------------------------------------------------------
(* What is kept of the drafts.                                             *)

\* The scenarios' module counts as everybody does.
LEMMA ScenariosCount ==
    ASSUME NEW S PROVE Scenarios!Cardinality(S) = Cardinality(S)
BY DEF Scenarios!Cardinality, Cardinality

\* What is taken from lists, and lists one after the other, are the same here.
LEMMA ScenariosPicked ==
    ASSUME NEW list, NEW places PROVE Scenarios!Picked(list, places) = Picked(list, places)
BY DEF Scenarios!Picked, Picked, Scenarios!Cardinality, Cardinality

LEMMA ScenariosFlatten ==
    ASSUME NEW lists PROVE Scenarios!FlattenSeq(lists) = Sequence!FlattenSeq(lists)
BY DEF Scenarios!FlattenSeq, Sequence!FlattenSeq

\* A list of scenarios with lists of steps.
SceneList(s) ==
    /\ Len(s) \in Nat /\ DOMAIN s = 1..Len(s)
    /\ \A i \in 1..Len(s) :
         Len(s[i].steps) \in Nat /\ s[i].evidence \in Nat /\ s[i].name \in Nat

\* By steps, evidence and name, none of two scenarios is better than itself, and
\* what is better than one is better than what that one is no worse than.
NotBetter(l, e, n, m, f, o) ==
    ~(l > m \/ (l = m /\ e > f) \/ (l = m /\ e = f /\ n > o))

LEMMA NotBetterThanItself ==
    ASSUME NEW l \in Nat, NEW e \in Nat, NEW n \in Nat
    PROVE  NotBetter(l, e, n, l, e, n)
BY DEF NotBetter

LEMMA NotBetterOrders ==
    ASSUME NEW il \in Nat, NEW ie \in Nat, NEW in \in Nat,
           NEW jl \in Nat, NEW je \in Nat, NEW jn \in Nat,
           NEW kl \in Nat, NEW ke \in Nat, NEW kn \in Nat,
           NotBetter(il, ie, in, jl, je, jn), ~NotBetter(kl, ke, kn, jl, je, jn)
    PROVE  NotBetter(il, ie, in, kl, ke, kn) /\ NotBetter(jl, je, jn, kl, ke, kn)
BY DEF NotBetter

\* Of some scenarios of a list, there is one that none is better than.
LEMMA OneIsBest ==
    ASSUME NEW s, SceneList(s), NEW O, O \subseteq 1..Len(s), O # {}
    PROVE  \E i \in O : \A j \in O : ~Scenarios!Better(s[j], s[i])
<1> DEFINE worse(j, i) == ~Scenarios!Better(s[j], s[i])
           upTo(k) == Below(O, k)
           none == {k \in 1..Len(s) : /\ upTo(k) # {}
                                      /\ ~ \E i \in upTo(k) : \A j \in upTo(k) : worse(j, i)}
<1>1. \A i, j, k \in 1..Len(s) :
        /\ worse(i, i)
        /\ worse(i, j) /\ ~worse(k, j) => worse(i, k) /\ worse(j, k)
  <2>1. ASSUME NEW i \in 1..Len(s)
        PROVE  Len(s[i].steps) \in Nat /\ s[i].evidence \in Nat /\ s[i].name \in Nat
    BY DEF SceneList
  <2>2. ASSUME NEW i \in 1..Len(s), NEW j \in 1..Len(s)
        PROVE  worse(i, j) <=> NotBetter(Len(s[i].steps), s[i].evidence, s[i].name,
                                         Len(s[j].steps), s[j].evidence, s[j].name)
    BY DEF Scenarios!Better, NotBetter
  <2> HIDE DEF worse
  <2>3. ASSUME NEW i \in 1..Len(s) PROVE worse(i, i)
    BY <2>1, <2>2, NotBetterThanItself
  <2>4. ASSUME NEW i \in 1..Len(s), NEW j \in 1..Len(s), NEW k \in 1..Len(s),
               worse(i, j), ~worse(k, j)
        PROVE  worse(i, k) /\ worse(j, k)
    <3> DEFINE len(m) == Len(s[m].steps)
               better(a, b) == NotBetter(len(a), s[a].evidence, s[a].name,
                                         len(b), s[b].evidence, s[b].name)
    <3>1. \A m \in {i, j, k} :
            len(m) \in Nat /\ s[m].evidence \in Nat /\ s[m].name \in Nat
      BY <2>1
    <3>2. better(i, j) /\ ~better(k, j) BY <2>2, <2>4
    <3> HIDE DEF len
    <3>3. /\ len(i) \in Nat /\ s[i].evidence \in Nat /\ s[i].name \in Nat
          /\ len(j) \in Nat /\ s[j].evidence \in Nat /\ s[j].name \in Nat
          /\ len(k) \in Nat /\ s[k].evidence \in Nat /\ s[k].name \in Nat
      BY <3>1
    <3>5. better(i, k) BY <3>2, <3>3 DEF NotBetter
    <3>6. better(j, k) BY <3>2, <3>3 DEF NotBetter
    <3>4. QED BY <2>2, <3>5, <3>6 DEF len
  <2>5. QED BY <2>3, <2>4
<1> HIDE DEF worse
<1>2. Len(s) \in Nat BY DEF SceneList
<1>3. ASSUME none # {} PROVE FALSE
  <2>1. PICK k \in none : \A m \in none : k <= m
    <3>1. none \subseteq Nat BY <1>2
    <3> HIDE DEF none
    <3>2. QED BY <1>3, <3>1, SmallestOf
  <2>2. k \in 1..Len(s) /\ upTo(k) # {}
        /\ ~ \E i \in upTo(k) : \A j \in upTo(k) : worse(j, i)
    OBVIOUS
  <2>3. k - 1 \notin none BY <1>2, <2>1, <2>2
  <2>4. \A j \in upTo(k) : j = k \/ j \in upTo(k - 1) BY <1>2, <2>2 DEF Below
  <2>5. \A j \in upTo(k - 1) : j \in upTo(k) /\ j \in 1..Len(s) BY <1>2, <2>2 DEF Below
  <2>6. CASE upTo(k - 1) = {}
    <3>1. upTo(k) = {k} BY <2>2, <2>4, <2>6
    <3>2. worse(k, k) BY <1>1, <2>2
    <3>3. k \in upTo(k) /\ \A j \in upTo(k) : worse(j, k) BY <3>1, <3>2
    <3> HIDE DEF upTo, none
    <3>4. QED BY <2>2, <3>3
  <2>7. CASE upTo(k - 1) # {}
    <3>1. k - 1 \in 1..Len(s)
      <4>1. PICK i : i \in 1..Len(s) /\ i <= k - 1 BY <2>7 DEF Below
      <4>2. QED BY <1>2, <2>2, <4>1
    <3>2. PICK i \in upTo(k - 1) : \A j \in upTo(k - 1) : worse(j, i) BY <2>3, <2>7, <3>1
    <3>3. i \in upTo(k) /\ i \in 1..Len(s) BY <2>5
    <3> HIDE DEF upTo, none
    <3>4. CASE k \notin upTo(k) BY <2>2, <2>4, <3>2, <3>3, <3>4
    <3>5. CASE k \in upTo(k) /\ worse(k, i) BY <2>2, <2>4, <3>2, <3>3, <3>5
    <3>6. CASE k \in upTo(k) /\ ~worse(k, i)
      <4>1. \A j \in upTo(k) : worse(j, k) BY <1>1, <2>2, <2>4, <2>5, <3>2, <3>3, <3>6
      <4>2. QED BY <2>2, <3>6, <4>1
    <3>7. QED BY <3>4, <3>5, <3>6
  <2>8. QED BY <2>6, <2>7
<1>4. upTo(Len(s)) = O /\ Len(s) \in 1..Len(s)
  <2>1. \A j \in O : j <= Len(s) /\ j \in 1..Len(s) OBVIOUS
  <2>2. upTo(Len(s)) = O BY <2>1 DEF Below
  <2>3. PICK j : j \in 1..Len(s) OBVIOUS
  <2>4. Len(s) \in 1..Len(s) BY <1>2, <2>3
  <2>5. QED BY <2>2, <2>4
<1>5. QED BY <1>3, <1>4 DEF worse

\* What Kept is made of.
CasesOf(s, case) == {i \in DOMAIN s : s[i].case = case}
FirstOf(is) == CHOOSE i \in is : \A j \in is : i <= j
BestsOf(s, case) ==
    {i \in CasesOf(s, case) : \A j \in CasesOf(s, case) : ~Scenarios!Better(s[j], s[i])}
Firsts(s) == {i \in DOMAIN s : i = FirstOf(CasesOf(s, s[i].case))}

LEMMA KeptIs ==
    ASSUME NEW s
    PROVE  Scenarios!Kept(s) =
             [n \in DOMAIN Scenarios!Picked(s, Firsts(s)) |->
                s[FirstOf(BestsOf(s, Scenarios!Picked(s, Firsts(s))[n].case))]]
BY DEF Scenarios!Kept, Scenarios!First, CasesOf, FirstOf, BestsOf, Firsts

OnceEach(list) ==
    /\ list \in Seq(Listed(list))
    /\ \A i, j \in 1..Len(list) : list[i].case = list[j].case => i = j

LEMMA KeptOnce ==
    ASSUME NEW s, SceneList(s)
    PROVE  OnceEach(Scenarios!Kept(s)) /\ Listed(Scenarios!Kept(s)) \subseteq Listed(s)
<1> PICK kept : kept = Scenarios!Kept(s) OBVIOUS
<1> PICK first : first = Scenarios!Picked(s, Firsts(s)) OBVIOUS
<1> PICK size : size = Cardinality(Firsts(s)) OBVIOUS
<1>1. DOMAIN s = 1..Len(s) /\ Len(s) \in Nat BY DEF SceneList
<1>2. Firsts(s) \subseteq 1..Len(s) BY <1>1 DEF Firsts
<1>3. /\ size \in Nat /\ DOMAIN first = 1..size
      /\ \A n \in 1..size : \E i \in Firsts(s) :
           first[n] = s[i] /\ Cardinality(Below(Firsts(s), i)) = n
  <2>1. InOrder(s, Firsts(s), first) BY <1>1, <1>2, PickedIs, ScenariosPicked
  <2>2. QED BY <2>1 DEF InOrder
<1>4. /\ DOMAIN kept = 1..size
      /\ kept = [n \in 1..size |-> s[FirstOf(BestsOf(s, first[n].case))]]
  BY <1>3, KeptIs
<1>5. ASSUME NEW n \in 1..size
      PROVE  kept[n].case = first[n].case /\ kept[n] \in Listed(s)
  <2> PICK case : case = first[n].case OBVIOUS
  <2> PICK O, B : O = CasesOf(s, case) /\ B = BestsOf(s, case) OBVIOUS
  <2>1. PICK i \in Firsts(s) : first[n] = s[i] BY <1>3
  <2>2. O \subseteq 1..Len(s) /\ i \in O BY <1>1, <1>2, <2>1 DEF CasesOf
  <2>3. \E k \in O : \A j \in O : ~Scenarios!Better(s[j], s[k]) BY <2>2, OneIsBest
  <2>4. B # {} /\ B \subseteq O BY <2>3 DEF BestsOf
  <2>5. B \subseteq Nat BY <1>1, <2>2, <2>4
  <2>6. \E k \in B : \A j \in B : k <= j BY <2>4, <2>5, SmallestOf
  <2>7. FirstOf(B) \in B BY <2>6 DEF FirstOf
  <2>8. s[FirstOf(B)].case = case /\ FirstOf(B) \in DOMAIN s BY <2>4, <2>7 DEF CasesOf
  <2>9. kept[n] = s[FirstOf(B)] BY <1>4
  <2>10. QED BY <2>8, <2>9 DEF Listed
<1>6. ASSUME NEW m \in 1..size, NEW n \in 1..size, kept[m].case = kept[n].case PROVE m = n
  <2>1. PICK i \in Firsts(s) : first[m] = s[i] /\ Cardinality(Below(Firsts(s), i)) = m
    BY <1>3
  <2>2. PICK j \in Firsts(s) : first[n] = s[j] /\ Cardinality(Below(Firsts(s), j)) = n
    BY <1>3
  <2>3. s[i].case = s[j].case BY <1>5, <1>6, <2>1, <2>2
  <2>4. i = FirstOf(CasesOf(s, s[i].case)) /\ j = FirstOf(CasesOf(s, s[j].case))
    BY DEF Firsts
  <2>5. i = j BY <2>3, <2>4
  <2>6. QED BY <2>1, <2>2, <2>5
<1>7. kept \in Seq(Listed(kept)) /\ Len(kept) = size BY <1>3, <1>4 DEF Listed
<1>8. Listed(kept) \subseteq Listed(s) BY <1>4, <1>5 DEF Listed
<1>9. QED BY <1>6, <1>7, <1>8 DEF OnceEach

-----------------------------------------------------------------------------
(* Lists of steps.                                                         *)

Submit == {"submit", "trigger"}
FillSteps == {"fill", "select", "amount"}
Plain ==
    {"navigate", "click", "verify_navigation", "capture_value", "capture_collection",
     "assert_visible", "wait_for_response", "verify_binding", "verify_destination",
     "assert_text", "verify_numeric_delta", "verify_collection_change", "assert_invalid",
     "assert_controls", "login", "login_id", "login_password", "login_submit",
     "session_check", "logout_effect"}
Step == Submit \cup FillSteps \cup Plain

\* Nothing is submitted; nothing is filled in; what is submitted is the form,
\* once, and after what is filled in.
Quiet(s) == \A i \in 1..Len(s) : s[i] \notin Submit
Dry(s) == \A i \in 1..Len(s) : s[i] \notin FillSteps
Orderly(s) ==
    \A i, j \in 1..Len(s) : s[j] \in Submit =>
        /\ s[j] = "submit"
        /\ s[i] \in Submit => i = j
        /\ s[i] \in FillSteps => i < j

\* There may be a trigger as well: each of the two is there once, and the form
\* is submitted after what is filled in.
Tidy(s) ==
    \A i, j \in 1..Len(s) :
        /\ s[i] \in Submit /\ s[i] = s[j] => i = j
        /\ s[j] = "submit" /\ s[i] \in FillSteps => i < j

\* The steps there are.
StepsOf(s) == {s[i] : i \in 1..Len(s)}

Starts(s) == Len(s) >= 1 /\ s[1] = "navigate"
Opening(s) == s \in Seq(Step) /\ Quiet(s) /\ Starts(s)
Closing(s) == s \in Seq(Step) /\ Quiet(s) /\ Dry(s)
Work(s) == s \in Seq(Step) /\ Orderly(s) /\ Starts(s)

LEMMA CatIs ==
    ASSUME NEW s \in Seq(Step), NEW t \in Seq(Step)
    PROVE  /\ s \o t \in Seq(Step) /\ Len(s \o t) = Len(s) + Len(t)
           /\ Len(s) \in Nat /\ Len(t) \in Nat
           /\ \A i \in 1..Len(s) : (s \o t)[i] = s[i]
           /\ \A i \in 1..Len(t) : (s \o t)[Len(s) + i] = t[i]
           /\ \A i \in 1..Len(s \o t) :
                \/ i \in 1..Len(s) /\ (s \o t)[i] = s[i]
                \/ i - Len(s) \in 1..Len(t) /\ i > Len(s) /\ (s \o t)[i] = t[i - Len(s)]
OBVIOUS

LEMMA ToldOfCat ==
    ASSUME NEW s \in Seq(Step), NEW t \in Seq(Step)
    PROVE  StepsOf(s \o t) = StepsOf(s) \cup StepsOf(t)
<1> PICK u : u = s \o t OBVIOUS
<1>1. /\ Len(u) = Len(s) + Len(t) /\ Len(s) \in Nat /\ Len(t) \in Nat
      /\ \A i \in 1..Len(s) : u[i] = s[i]
      /\ \A i \in 1..Len(t) : u[Len(s) + i] = t[i]
      /\ \A i \in 1..Len(u) :
           \/ i \in 1..Len(s) /\ u[i] = s[i]
           \/ i - Len(s) \in 1..Len(t) /\ u[i] = t[i - Len(s)]
  BY CatIs
<1>2. StepsOf(u) \subseteq StepsOf(s) \cup StepsOf(t)
  <2> SUFFICES ASSUME NEW i \in 1..Len(u) PROVE u[i] \in StepsOf(s) \cup StepsOf(t)
    BY DEF StepsOf
  <2>1. QED BY <1>1 DEF StepsOf
<1>3. ASSUME NEW i \in 1..Len(s) PROVE s[i] \in StepsOf(u)
  <2>1. i \in 1..Len(u) /\ u[i] = s[i] BY <1>1
  <2>2. QED BY <2>1 DEF StepsOf
<1>4. ASSUME NEW i \in 1..Len(t) PROVE t[i] \in StepsOf(u)
  <2>1. Len(s) + i \in 1..Len(u) /\ u[Len(s) + i] = t[i] BY <1>1
  <2>2. QED BY <2>1 DEF StepsOf
<1>5. StepsOf(s) \subseteq StepsOf(u) BY <1>3 DEF StepsOf
<1>6. StepsOf(t) \subseteq StepsOf(u) BY <1>4 DEF StepsOf
<1>7. QED BY <1>2, <1>5, <1>6

LEMMA QuietCat ==
    ASSUME NEW s \in Seq(Step), NEW t \in Seq(Step)
    PROVE  /\ Quiet(s) /\ Quiet(t) => Quiet(s \o t)
           /\ Dry(s) /\ Dry(t) => Dry(s \o t)
<1> PICK u : u = s \o t OBVIOUS
<1>1. \A i \in 1..Len(u) :
        \/ i \in 1..Len(s) /\ u[i] = s[i]
        \/ i - Len(s) \in 1..Len(t) /\ u[i] = t[i - Len(s)]
  BY CatIs
<1>2. QED BY <1>1 DEF Quiet, Dry

LEMMA OrderlyCat ==
    ASSUME NEW s \in Seq(Step), NEW t \in Seq(Step)
    PROVE  /\ Quiet(s) /\ Orderly(t) => Orderly(s \o t)
           /\ Orderly(s) /\ Quiet(t) /\ Dry(t) => Orderly(s \o t)
<1> PICK u : u = s \o t OBVIOUS
<1>1. /\ Len(u) = Len(s) + Len(t) /\ Len(s) \in Nat /\ Len(t) \in Nat
      /\ \A i \in 1..Len(u) :
           \/ i \in 1..Len(s) /\ u[i] = s[i]
           \/ i - Len(s) \in 1..Len(t) /\ i > Len(s) /\ u[i] = t[i - Len(s)]
  BY CatIs
<1>2. ASSUME Quiet(s), Orderly(t) PROVE Orderly(u)
  <2> SUFFICES ASSUME NEW j \in 1..Len(u), u[j] \in Submit, NEW i \in 1..Len(u)
               PROVE  /\ u[j] = "submit"
                      /\ u[i] \in Submit => i = j
                      /\ u[i] \in FillSteps => i < j
    BY DEF Orderly
  <2>1. j > Len(s) /\ j - Len(s) \in 1..Len(t) /\ t[j - Len(s)] \in Submit
    BY <1>1, <1>2 DEF Quiet
  <2>0. u[j] = "submit" BY <1>1, <1>2, <2>1 DEF Orderly
  <2>2. CASE i \in 1..Len(s) /\ u[i] = s[i] BY <1>1, <1>2, <2>0, <2>1, <2>2 DEF Quiet
  <2>3. CASE i - Len(s) \in 1..Len(t) /\ i > Len(s) /\ u[i] = t[i - Len(s)]
    <3>1. /\ t[i - Len(s)] \in Submit => i - Len(s) = j - Len(s)
          /\ t[i - Len(s)] \in FillSteps => i - Len(s) < j - Len(s)
      BY <1>2, <2>1, <2>3 DEF Orderly
    <3>2. QED BY <1>1, <2>0, <2>1, <2>3, <3>1
  <2>4. QED BY <1>1, <2>2, <2>3
<1>3. ASSUME Orderly(s), Quiet(t), Dry(t) PROVE Orderly(u)
  <2> SUFFICES ASSUME NEW j \in 1..Len(u), u[j] \in Submit, NEW i \in 1..Len(u)
               PROVE  /\ u[j] = "submit"
                      /\ u[i] \in Submit => i = j
                      /\ u[i] \in FillSteps => i < j
    BY DEF Orderly
  <2>1. j \in 1..Len(s) /\ s[j] \in Submit /\ u[j] = s[j] BY <1>1, <1>3 DEF Quiet
  <2>2. CASE i \in 1..Len(s) /\ u[i] = s[i] BY <1>3, <2>1, <2>2 DEF Orderly
  <2>3. CASE i - Len(s) \in 1..Len(t) /\ i > Len(s) /\ u[i] = t[i - Len(s)]
    BY <1>3, <2>1, <2>3 DEF Quiet, Dry, Orderly
  <2>4. QED BY <1>1, <2>2, <2>3
<1>4. QED BY <1>2, <1>3

\* Steps that are quiet before, or quiet and dry behind, leave a list tidy.
LEMMA TidyCat ==
    ASSUME NEW s \in Seq(Step), NEW t \in Seq(Step)
    PROVE  /\ Quiet(s) /\ Tidy(t) => Tidy(s \o t)
           /\ Tidy(s) /\ Quiet(t) /\ Dry(t) => Tidy(s \o t)
<1> PICK u : u = s \o t OBVIOUS
<1>1. /\ Len(u) = Len(s) + Len(t) /\ Len(s) \in Nat /\ Len(t) \in Nat
      /\ \A i \in 1..Len(u) :
           \/ i \in 1..Len(s) /\ u[i] = s[i]
           \/ i - Len(s) \in 1..Len(t) /\ i > Len(s) /\ u[i] = t[i - Len(s)]
  BY CatIs
<1>2. "submit" \in Submit BY DEF Submit
<1>3. ASSUME Quiet(s), Tidy(t) PROVE Tidy(u)
  <2> SUFFICES ASSUME NEW i \in 1..Len(u), NEW j \in 1..Len(u)
               PROVE  /\ u[i] \in Submit /\ u[i] = u[j] => i = j
                      /\ u[j] = "submit" /\ u[i] \in FillSteps => i < j
    BY DEF Tidy
  <2>1. CASE u[j] \notin Submit BY <1>2, <2>1
  <2>2. CASE u[j] \in Submit
    <3>1. j - Len(s) \in 1..Len(t) /\ j > Len(s) /\ u[j] = t[j - Len(s)]
      BY <1>1, <1>3, <2>2 DEF Quiet
    <3>2. CASE i \in 1..Len(s) /\ u[i] = s[i] BY <1>1, <1>3, <3>1, <3>2 DEF Quiet
    <3>3. CASE i - Len(s) \in 1..Len(t) /\ i > Len(s) /\ u[i] = t[i - Len(s)]
      <4>1. /\ t[i - Len(s)] \in Submit /\ t[i - Len(s)] = t[j - Len(s)] =>
                 i - Len(s) = j - Len(s)
            /\ t[j - Len(s)] = "submit" /\ t[i - Len(s)] \in FillSteps =>
                 i - Len(s) < j - Len(s)
        BY <1>3, <3>1, <3>3 DEF Tidy
      <4>2. QED BY <1>1, <3>1, <3>3, <4>1
    <3>4. QED BY <1>1, <3>2, <3>3
  <2>3. QED BY <2>1, <2>2
<1>4. ASSUME Tidy(s), Quiet(t), Dry(t) PROVE Tidy(u)
  <2> SUFFICES ASSUME NEW i \in 1..Len(u), NEW j \in 1..Len(u)
               PROVE  /\ u[i] \in Submit /\ u[i] = u[j] => i = j
                      /\ u[j] = "submit" /\ u[i] \in FillSteps => i < j
    BY DEF Tidy
  <2>1. CASE u[j] \notin Submit BY <1>2, <2>1
  <2>2. CASE u[j] \in Submit
    <3>1. j \in 1..Len(s) /\ u[j] = s[j] BY <1>1, <1>4, <2>2 DEF Quiet
    <3>2. CASE i \in 1..Len(s) /\ u[i] = s[i] BY <1>4, <3>1, <3>2 DEF Tidy
    <3>3. CASE i - Len(s) \in 1..Len(t) /\ i > Len(s) /\ u[i] = t[i - Len(s)]
      BY <1>4, <3>3 DEF Quiet, Dry
    <3>4. QED BY <1>1, <3>2, <3>3
  <2>3. QED BY <2>1, <2>2
<1>5. QED BY <1>3, <1>4

\* What opens a route, before steps with a form.
LEMMA OpenedIsTidy ==
    ASSUME NEW s \in Seq(Step), Tidy(s), Dry(s), "submit" \notin StepsOf(s),
           NEW t \in Seq(Step), Orderly(t)
    PROVE  Tidy(s \o t)
<1> PICK u : u = s \o t OBVIOUS
<1>1. /\ Len(u) = Len(s) + Len(t) /\ Len(s) \in Nat /\ Len(t) \in Nat
      /\ \A i \in 1..Len(u) :
           \/ i \in 1..Len(s) /\ u[i] = s[i] /\ s[i] # "submit"
           \/ i - Len(s) \in 1..Len(t) /\ i > Len(s) /\ u[i] = t[i - Len(s)]
  BY CatIs DEF StepsOf
<1> SUFFICES ASSUME NEW i \in 1..Len(u), NEW j \in 1..Len(u)
             PROVE  /\ u[i] \in Submit /\ u[i] = u[j] => i = j
                    /\ u[j] = "submit" /\ u[i] \in FillSteps => i < j
  BY DEF Tidy
<1>2. CASE j \in 1..Len(s) /\ u[j] = s[j] /\ s[j] # "submit"
  <2>1. CASE i \in 1..Len(s) /\ u[i] = s[i] /\ s[i] # "submit"
    BY <1>2, <2>1 DEF Tidy
  <2>2. CASE i - Len(s) \in 1..Len(t) /\ i > Len(s) /\ u[i] = t[i - Len(s)]
    BY <1>2, <2>2 DEF Orderly
  <2>3. QED BY <1>1, <2>1, <2>2
<1>3. CASE j - Len(s) \in 1..Len(t) /\ j > Len(s) /\ u[j] = t[j - Len(s)]
  <2>1. CASE i \in 1..Len(s) /\ u[i] = s[i] /\ s[i] # "submit"
    <3>1. u[i] \in Submit => u[i] # u[j] BY <1>3, <2>1 DEF Orderly
    <3>2. u[i] \notin FillSteps BY <2>1 DEF Dry
    <3>3. QED BY <3>1, <3>2
  <2>2. CASE i - Len(s) \in 1..Len(t) /\ i > Len(s) /\ u[i] = t[i - Len(s)]
    <3>1. t[j - Len(s)] \in Submit =>
            /\ t[i - Len(s)] \in Submit => i - Len(s) = j - Len(s)
            /\ t[i - Len(s)] \in FillSteps => i - Len(s) < j - Len(s)
      BY <1>3, <2>2 DEF Orderly
    <3>2. "submit" \in Submit BY DEF Submit
    <3>3. QED BY <1>1, <1>3, <2>2, <3>1, <3>2
  <2>3. QED BY <1>1, <2>1, <2>2
<1>4. QED BY <1>1, <1>2, <1>3

LEMMA StartsCat ==
    ASSUME NEW s \in Seq(Step), NEW t \in Seq(Step), Starts(s)
    PROVE  Starts(s \o t)
BY CatIs DEF Starts

\* One more step, or none.
LEMMA OneMore ==
    ASSUME NEW a \in Step
    PROVE  /\ <<a>> \in Seq(Step) /\ StepsOf(<<a>>) = {a} /\ Starts(<<a>>) = (a = "navigate")
           /\ a \notin Submit => Quiet(<<a>>)
           /\ a \notin FillSteps => Dry(<<a>>)
           /\ a # "trigger" => Orderly(<<a>>)
           /\ Tidy(<<a>>)
<1> PICK s : s = <<a>> OBVIOUS
<1>1. s \in Seq(Step) /\ Len(s) = 1 /\ \A i \in 1..Len(s) : s[i] = a /\ i = 1
  <2>1. s \in Seq(Step) OBVIOUS
  <2>2. Len(s) = 1 /\ s[1] = a OBVIOUS
  <2>3. QED BY <2>1, <2>2
<1>2. "submit" \notin FillSteps /\ "trigger" \notin FillSteps BY DEF FillSteps
<1>3. a # "trigger" => Orderly(s) BY <1>1, <1>2 DEF Orderly, Submit
<1>7. Tidy(s) BY <1>1, <1>2 DEF Tidy, Submit
<1>4. StepsOf(s) = {a}
  <2>1. 1 \in 1..Len(s) BY <1>1
  <2>2. QED BY <1>1, <2>1 DEF StepsOf
<1>5. Starts(s) = (a = "navigate")
  <2>1. Len(s) >= 1 /\ s[1] = a BY <1>1
  <2>2. QED BY <2>1 DEF Starts
<1>6. QED BY <1>1, <1>3, <1>4, <1>5, <1>7 DEF Quiet, Dry

LEMMA NoMore ==
    /\ <<>> \in Seq(Step) /\ StepsOf(<<>>) = {}
    /\ Quiet(<<>>) /\ Dry(<<>>) /\ Orderly(<<>>) /\ Tidy(<<>>)
BY DEF StepsOf, Quiet, Dry, Orderly, Tidy

LEMMA OpeningGrows ==
    ASSUME NEW s, Opening(s), NEW t \in Seq(Step), Quiet(t)
    PROVE  Opening(s \o t) /\ StepsOf(s \o t) = StepsOf(s) \cup StepsOf(t)
BY CatIs, QuietCat, StartsCat, ToldOfCat DEF Opening

LEMMA OpeningSubmits ==
    ASSUME NEW s, Opening(s), NEW t \in Seq(Step), Orderly(t)
    PROVE  Work(s \o t) /\ StepsOf(s \o t) = StepsOf(s) \cup StepsOf(t)
BY CatIs, OrderlyCat, StartsCat, ToldOfCat DEF Opening, Work

LEMMA WorkGrows ==
    ASSUME NEW s, Work(s), NEW t, Closing(t)
    PROVE  Work(s \o t) /\ StepsOf(s \o t) = StepsOf(s) \cup StepsOf(t)
BY CatIs, OrderlyCat, StartsCat, ToldOfCat DEF Work, Closing

LEMMA IfIs ==
    ASSUME NEW f, NEW feature, NEW steps, Closing(steps)
    PROVE  Closing(Scenarios!If(f, feature, steps))
BY NoMore DEF Scenarios!If, Closing


-----------------------------------------------------------------------------
SourceOK(f) == f.fills \in Seq(FillSteps) /\ f.evidence \in Nat /\ f.name \in Nat

LEMMA StepsAre ==
    ASSUME NEW s \in Seq(Step) PROVE Scenarios!Range(s) = StepsOf(s)
BY DEF Scenarios!Range, StepsOf

LEMMA FillsAre ==
    ASSUME NEW s \in Seq(FillSteps) PROVE s \in Seq(Step) /\ Quiet(s)
<1>1. \A i \in 1..Len(s) : s[i] \in FillSteps OBVIOUS
<1>2. \A a \in FillSteps : a \in Step /\ a \notin Submit BY DEF FillSteps, Submit, Step
<1>3. QED BY <1>1, <1>2 DEF Quiet

\* A step that neither fills in nor submits.
LEMMA PlainIs ==
    ASSUME NEW a \in Plain PROVE Closing(<<a>>)
<1>1. a \in Step /\ a \notin Submit /\ a \notin FillSteps BY DEF Step, Plain, Submit, FillSteps
<1>2. QED BY <1>1, OneMore DEF Closing

LEMMA PlainIf ==
    ASSUME NEW f, NEW feature, NEW a \in Plain
    PROVE  Closing(Scenarios!If(f, feature, <<a>>))
BY PlainIs, IfIs

LEMMA ClosingCat ==
    ASSUME NEW s, Closing(s), NEW t, Closing(t)
    PROVE  Closing(s \o t) /\ StepsOf(s \o t) = StepsOf(s) \cup StepsOf(t)
BY CatIs, QuietCat, ToldOfCat DEF Closing

\* The way to the form; it ends with what is filled in and submitted.
Before(f) ==
    <<"navigate">> \o Scenarios!EntrySteps(f)
    \o Scenarios!If(f, "balance", <<"capture_value">>)
    \o Scenarios!If(f, "list", <<"capture_collection">>)
    \o Scenarios!If(f, "opener", <<"click">>) \o Scenarios!If(f, "modal", <<"assert_visible">>)

LEMMA BeforeOpens ==
    ASSUME NEW f
    PROVE  /\ Opening(<<"navigate">> \o Scenarios!EntrySteps(f))
           /\ Opening(Before(f))
<1> DEFINE a == <<"navigate">> \o Scenarios!EntrySteps(f)
           b == a \o Scenarios!If(f, "balance", <<"capture_value">>)
           c == b \o Scenarios!If(f, "list", <<"capture_collection">>)
           d == c \o Scenarios!If(f, "opener", <<"click">>)
           e == d \o Scenarios!If(f, "modal", <<"assert_visible">>)
<1>1. Opening(<<"navigate">>)
  <2>1. "navigate" \notin Submit /\ "navigate" \in Step BY DEF Submit, Step, Plain
  <2>2. QED BY <2>1, OneMore DEF Opening, Starts
<1>2. Closing(<<"click", "verify_navigation">>)
  <2>1. \A x \in {"click", "verify_navigation"} :
          x \in Step /\ x \notin Submit /\ x \notin FillSteps
    BY DEF Step, Plain, Submit, FillSteps
  <2>2. \A i \in 1..Len(<<"click", "verify_navigation">>) :
          <<"click", "verify_navigation">>[i] \in {"click", "verify_navigation"}
    OBVIOUS
  <2>3. QED BY <2>1, <2>2 DEF Closing, Quiet, Dry
<1>3. /\ Closing(Scenarios!If(f, "balance", <<"capture_value">>))
      /\ Closing(Scenarios!If(f, "list", <<"capture_collection">>))
      /\ Closing(Scenarios!If(f, "opener", <<"click">>))
      /\ Closing(Scenarios!If(f, "modal", <<"assert_visible">>))
  <2>1. \A x \in {"capture_value", "capture_collection", "click", "assert_visible"} :
          x \in Plain
    BY DEF Plain
  <2>2. QED BY <2>1, PlainIf
<1>4. Opening(a)
  <2>1. Closing(Scenarios!EntrySteps(f)) BY <1>2, NoMore DEF Closing, Scenarios!EntrySteps
  <2>2. QED BY <1>1, <2>1, OpeningGrows DEF Closing
<1>5. Opening(b) BY <1>3, <1>4, OpeningGrows DEF Closing
<1>6. Opening(c) BY <1>3, <1>5, OpeningGrows DEF Closing
<1>7. Opening(d) BY <1>3, <1>6, OpeningGrows DEF Closing
<1>8. Opening(e) BY <1>3, <1>7, OpeningGrows DEF Closing
<1>9. QED BY <1>4, <1>8 DEF Before

LEMMA SubmitIf ==
    ASSUME NEW f
    PROVE  /\ Scenarios!If(f, "submit", <<"submit">>) \in Seq(Step)
           /\ Orderly(Scenarios!If(f, "submit", <<"submit">>))
<1>1. "submit" \in Step BY DEF Step, Submit
<1>2. QED BY <1>1, OneMore, NoMore DEF Scenarios!If

LEMMA JourneyWorks ==
    ASSUME NEW f, SourceOK(f)
    PROVE  /\ Work(Scenarios!JourneySteps(f))
           /\ Scenarios!HasAmount(f) => "amount" \in StepsOf(Scenarios!JourneySteps(f))
<1> DEFINE a == Before(f) \o f.fills
           b == a \o Scenarios!If(f, "submit", <<"submit">>)
           c == b \o <<"wait_for_response">>
           d == c \o Scenarios!If(f, "destination", <<"verify_destination">>)
           e == d \o Scenarios!If(f, "message", <<"assert_text">>)
           delta == IF Scenarios!HasAmount(f)
                    THEN Scenarios!If(f, "balance", <<"verify_numeric_delta">>) ELSE <<>>
           g == e \o delta
           h == g \o Scenarios!If(f, "list", <<"verify_collection_change">>)
<1>1. f.fills \in Seq(Step) /\ Quiet(f.fills) BY FillsAre DEF SourceOK
<1>2. /\ Closing(<<"wait_for_response">>)
      /\ Closing(Scenarios!If(f, "destination", <<"verify_destination">>))
      /\ Closing(Scenarios!If(f, "message", <<"assert_text">>))
      /\ Closing(Scenarios!If(f, "balance", <<"verify_numeric_delta">>))
      /\ Closing(Scenarios!If(f, "list", <<"verify_collection_change">>))
  <2>1. \A x \in {"wait_for_response", "verify_destination", "assert_text",
                   "verify_numeric_delta", "verify_collection_change"} :
          x \in Plain
    BY DEF Plain
  <2>2. QED BY <2>1, PlainIf, PlainIs
<1>3. Closing(delta) BY <1>2, NoMore DEF Closing
<1> HIDE DEF delta
<1>4. Opening(a) /\ StepsOf(f.fills) \subseteq StepsOf(a)
  BY <1>1, BeforeOpens, OpeningGrows
<1>5. Work(b) /\ StepsOf(a) \subseteq StepsOf(b) BY <1>4, SubmitIf, OpeningSubmits
<1>6. Work(c) /\ StepsOf(b) \subseteq StepsOf(c) BY <1>2, <1>5, WorkGrows
<1>7. Work(d) /\ StepsOf(c) \subseteq StepsOf(d) BY <1>2, <1>6, WorkGrows
<1>8. Work(e) /\ StepsOf(d) \subseteq StepsOf(e) BY <1>2, <1>7, WorkGrows
<1>9. Work(g) /\ StepsOf(e) \subseteq StepsOf(g) BY <1>3, <1>8, WorkGrows
<1>10. Work(h) /\ StepsOf(g) \subseteq StepsOf(h) BY <1>2, <1>9, WorkGrows
<1>11. h = Scenarios!JourneySteps(f) BY DEF Scenarios!JourneySteps, Before, delta
<1>12. Scenarios!HasAmount(f) => "amount" \in StepsOf(f.fills)
  BY <1>1, StepsAre DEF Scenarios!HasAmount
<1> HIDE DEF a, b, c, d, e, g, h
<1>13. QED BY <1>4, <1>5, <1>6, <1>7, <1>8, <1>9, <1>10, <1>11, <1>12

LEMMA FlowWorks ==
    ASSUME NEW f, SourceOK(f)
    PROVE  Work(Scenarios!FlowSteps(f))
<1> DEFINE o == <<"navigate">> \o Scenarios!EntrySteps(f)
           a == o \o f.fills
           b == a \o Scenarios!If(f, "submit", <<"submit">>)
           c == b \o <<"wait_for_response">>
           d == c \o Scenarios!If(f, "binding", <<"verify_binding">>)
<1>1. f.fills \in Seq(Step) /\ Quiet(f.fills) BY FillsAre DEF SourceOK
<1>2. /\ Closing(<<"wait_for_response">>)
      /\ Closing(Scenarios!If(f, "binding", <<"verify_binding">>))
  <2>1. \A x \in {"wait_for_response", "verify_binding"} : x \in Plain
    BY DEF Plain
  <2>2. QED BY <2>1, PlainIf, PlainIs
<1>3. Opening(a) BY <1>1, BeforeOpens, OpeningGrows
<1>4. Work(b) BY <1>3, SubmitIf, OpeningSubmits
<1>5. Work(c) BY <1>2, <1>4, WorkGrows
<1>6. Work(d) BY <1>2, <1>5, WorkGrows
<1>7. QED BY <1>6 DEF Scenarios!FlowSteps

\* The list up to what is filled in has no submission.
LEMMA UntilIsQuiet ==
    ASSUME NEW s \in Seq(Step), Orderly(s), "amount" \in StepsOf(s)
    PROVE  Scenarios!UntilAmount(s) \in Seq(Step) /\ Quiet(Scenarios!UntilAmount(s))
<1> PICK k : k = CHOOSE i \in DOMAIN s : s[i] = "amount" OBVIOUS
<1> PICK u : u = SubSeq(s, 1, k) OBVIOUS
<1>1. k \in 1..Len(s) /\ s[k] = "amount" BY DEF StepsOf
<1>2. u \in Seq(Step) /\ Len(u) = k /\ \A i \in 1..k : u[i] = s[i] BY <1>1
<1>3. \A i \in 1..k : s[i] \notin Submit BY <1>1 DEF Orderly, FillSteps
<1>4. QED BY <1>2, <1>3 DEF Quiet, Scenarios!UntilAmount

-----------------------------------------------------------------------------
(* The drafts.                                                             *)

\* A draft of a validation is of a form that takes an amount.
DraftOK(d) ==
    /\ SourceOK(d.source) /\ d.case.kind \in {"UI", "E2E"}
    /\ Scenarios!IsValidation(d) => d.case.kind = "E2E" /\ Scenarios!HasAmount(d.source)

\* The steps that a draft has of its own.
LEMMA OwnWorks ==
    ASSUME NEW d, DraftOK(d), NEW own, own = Scenarios!OwnSteps(d)
    PROVE  /\ own \in Seq(Step) /\ Orderly(own)
           /\ Scenarios!IsValidation(d) => Quiet(own) /\ "assert_invalid" \in StepsOf(own)
           /\ ~Scenarios!IsValidation(d) => Starts(own)
           /\ Scenarios!OwnCriteria(d) \subseteq StepsOf(own) \ {"navigate"}
<1> PICK f : f = d.source OBVIOUS
<1>f. SourceOK(f) BY DEF DraftOK
<1>1. CASE d.case.kind = "UI"
  <2>1. own = <<"navigate", "assert_controls">> BY <1>1 DEF Scenarios!OwnSteps
  <2>2. Closing(<<"navigate">>) /\ Closing(<<"assert_controls">>)
        /\ StepsOf(<<"assert_controls">>) = {"assert_controls"}
    <3>1. "navigate" \in Plain /\ "assert_controls" \in Plain BY DEF Plain
    <3>2. "assert_controls" \in Step BY <3>1 DEF Step
    <3>3. QED BY <3>1, <3>2, PlainIs, OneMore
  <2>3. own = <<"navigate">> \o <<"assert_controls">> BY <2>1
  <2>4. Closing(own) /\ "assert_controls" \in StepsOf(own) BY <2>2, <2>3, ClosingCat
  <2>5. Starts(own) BY <2>1 DEF Starts
  <2>6. ~Scenarios!IsValidation(d) BY <1>1 DEF DraftOK
  <2>7. Orderly(own) BY <2>4 DEF Closing, Quiet, Orderly
  <2>8. Scenarios!OwnCriteria(d) = {"assert_controls"} BY <1>1 DEF Scenarios!OwnCriteria
  <2>9. QED BY <2>4, <2>5, <2>6, <2>7, <2>8 DEF Closing
<1>2. CASE d.case.kind = "E2E" /\ Scenarios!IsValidation(d)
  <2> PICK all, part :
        all = Scenarios!JourneySteps(f) /\ part = Scenarios!UntilAmount(all)
    OBVIOUS
  <2>1. own = Append(part, "assert_invalid") BY <1>2 DEF Scenarios!OwnSteps
  <2>2. all \in Seq(Step) /\ Orderly(all) /\ "amount" \in StepsOf(all)
    BY <1>2, <1>f, JourneyWorks DEF DraftOK, Work
  <2>3. part \in Seq(Step) /\ Quiet(part) BY <2>2, UntilIsQuiet
  <2>4. Closing(<<"assert_invalid">>) /\ StepsOf(<<"assert_invalid">>) = {"assert_invalid"}
    <3>1. "assert_invalid" \in Plain BY DEF Plain
    <3>2. "assert_invalid" \in Step BY <3>1 DEF Step
    <3>3. QED BY <3>1, <3>2, PlainIs, OneMore
  <2>5. own = part \o <<"assert_invalid">>
    <3>1. "assert_invalid" \in Step BY DEF Step, Plain
    <3>2. QED BY <2>1, <2>3, <3>1
  <2>6. own \in Seq(Step) /\ Quiet(own) /\ "assert_invalid" \in StepsOf(own)
    <3> PICK last : last = <<"assert_invalid">> OBVIOUS
    <3>1. last \in Seq(Step) /\ Quiet(last) /\ "assert_invalid" \in StepsOf(last)
      BY <2>4 DEF Closing
    <3>2. own = part \o last BY <2>5
    <3>3. own \in Seq(Step) BY <2>3, <3>1, <3>2, CatIs
    <3>4. Quiet(own) BY <2>3, <3>1, <3>2, QuietCat
    <3>5. StepsOf(own) = StepsOf(part) \cup StepsOf(last) BY <2>3, <3>1, <3>2, ToldOfCat
    <3>6. QED BY <3>1, <3>3, <3>4, <3>5
  <2>7. Orderly(own) BY <2>6 DEF Quiet, Orderly
  <2>8. Scenarios!OwnCriteria(d) = {"assert_invalid"} BY <1>2 DEF Scenarios!OwnCriteria
  <2>9. QED BY <1>2, <2>6, <2>7, <2>8
<1>3. CASE d.case.kind = "E2E" /\ ~Scenarios!IsValidation(d)
  <2>1. own = IF Scenarios!IsJourney(f) THEN Scenarios!JourneySteps(f)
              ELSE Scenarios!FlowSteps(f)
    BY <1>3 DEF Scenarios!OwnSteps
  <2>2. Work(own) BY <1>f, <2>1, JourneyWorks, FlowWorks
  <2>3. Scenarios!OwnCriteria(d) =
          IF Scenarios!IsJourney(f) THEN Scenarios!JourneyCriteria(f) ELSE {}
    BY <1>3 DEF Scenarios!OwnCriteria
  <2>4. Scenarios!IsJourney(f) =>
          Scenarios!JourneyCriteria(f) \subseteq StepsOf(own) \ {"navigate"}
    <3>1. ASSUME Scenarios!IsJourney(f)
          PROVE  Scenarios!Range(Scenarios!JourneySteps(f)) = StepsOf(own)
      BY <2>1, <2>2, <3>1, StepsAre DEF Work
    <3>2. QED BY <3>1 DEF Scenarios!JourneyCriteria
  <2>5. QED BY <1>3, <2>2, <2>3, <2>4 DEF Work
<1>4. QED BY <1>1, <1>2, <1>3 DEF DraftOK

LEMMA TailStarted ==
    ASSUME NEW s \in Seq(Step), Starts(s)
    PROVE  /\ Tail(s) \in Seq(Step)
           /\ StepsOf(s) \ {"navigate"} \subseteq StepsOf(Tail(s))
           /\ StepsOf(Tail(s)) \subseteq StepsOf(s)
           /\ Orderly(s) => Orderly(Tail(s))
<1> PICK t : t = Tail(s) OBVIOUS
<1>1. s # <<>> /\ Len(s) \in Nat \ {0} /\ s[1] = "navigate" BY DEF Starts
<1>2. t \in Seq(Step) /\ Len(t) = Len(s) - 1 /\ \A i \in 1..Len(t) : t[i] = s[i + 1] BY <1>1
<1>3. ASSUME NEW i \in 1..Len(s), s[i] # "navigate" PROVE s[i] \in StepsOf(t)
  <2>1. i - 1 \in 1..Len(t) /\ t[i - 1] = s[i] BY <1>1, <1>2, <1>3
  <2>2. QED BY <2>1 DEF StepsOf
<1>4. ASSUME NEW i \in 1..Len(t) PROVE t[i] \in StepsOf(s)
  <2>1. i + 1 \in 1..Len(s) BY <1>1, <1>2
  <2>2. QED BY <1>2, <2>1 DEF StepsOf
<1>6. ASSUME Orderly(s) PROVE Orderly(t)
  <2> SUFFICES ASSUME NEW j \in 1..Len(t), t[j] \in Submit, NEW i \in 1..Len(t)
               PROVE  /\ t[j] = "submit"
                      /\ t[i] \in Submit => i = j
                      /\ t[i] \in FillSteps => i < j
    BY DEF Orderly
  <2>1. /\ j + 1 \in 1..Len(s) /\ s[j + 1] = t[j] /\ i + 1 \in 1..Len(s) /\ s[i + 1] = t[i]
        /\ Len(t) \in Nat
    BY <1>1, <1>2
  <2>2. /\ s[j + 1] = "submit"
        /\ s[i + 1] \in Submit => i + 1 = j + 1
        /\ s[i + 1] \in FillSteps => i + 1 < j + 1
    BY <1>6, <2>1 DEF Orderly
  <2>3. QED BY <2>1, <2>2
<1>5. QED BY <1>2, <1>3, <1>4, <1>6 DEF StepsOf

\* The steps once the route's trigger is added.
LEMMA TriggeredWorks ==
    ASSUME NEW d, DraftOK(d), NEW auth,
           NEW own, own = Scenarios!OwnSteps(d), NEW s, s = Scenarios!Triggered(d, auth)
    PROVE  /\ s \in Seq(Step) /\ Tidy(s)
           /\ Scenarios!IsValidation(d) => Quiet(s)
           /\ StepsOf(own) \ {"navigate"} \subseteq StepsOf(s)
           /\ Submit \subseteq StepsOf(s) => d.source.request # Scenarios!Target(d, auth)
<1>1. /\ own \in Seq(Step) /\ Orderly(own)
      /\ Scenarios!IsValidation(d) => Quiet(own)
      /\ ~Scenarios!IsValidation(d) => Starts(own)
  BY OwnWorks
<1>2. "trigger" \notin StepsOf(own) BY <1>1 DEF Orderly, Submit, StepsOf
<1>3. CASE ~Scenarios!DirectEntryBlocked(d, auth)
  <2>1. s = own BY <1>3 DEF Scenarios!Triggered
  <2>2. s \in Seq(Step) /\ Orderly(s) BY <1>1, <2>1
  <2>3. \A i \in 1..Len(s) : i \in Int BY <2>2
  <2>4. Tidy(s)
    <3>1. "submit" \in Submit BY DEF Submit
    <3>2. QED BY <2>2, <2>3, <3>1 DEF Orderly, Tidy
  <2>5. QED BY <1>1, <1>2, <2>1, <2>4 DEF Submit
<1>4. CASE Scenarios!DirectEntryBlocked(d, auth)
  <2> PICK target : target = Scenarios!Target(d, auth) OBVIOUS
  <2> DEFINE rest == IF Scenarios!Start(d) = target THEN Tail(own) ELSE own
             click == IF target \in auth.triggers \cap auth.openers THEN <<"click">> ELSE <<>>
             trigger == IF target \in auth.triggers THEN <<"trigger">> ELSE <<>>
  <2>1. s = (click \o trigger) \o rest BY <1>4 DEF Scenarios!Triggered
  <2>2. ~Scenarios!IsValidation(d)
        /\ ("submit" \in StepsOf(own) => d.source.request # target)
    <3>1. ~Scenarios!IsValidation(d)
          /\ ~("submit" \in Scenarios!Range(own) /\ d.source.request = target)
      BY <1>4 DEF Scenarios!DirectEntryBlocked
    <3>2. Scenarios!Range(own) = StepsOf(own) BY <1>1, StepsAre
    <3>3. QED BY <3>1, <3>2
  <2>3. /\ rest \in Seq(Step) /\ StepsOf(rest) \subseteq StepsOf(own) /\ Orderly(rest)
        /\ StepsOf(own) \ {"navigate"} \subseteq StepsOf(rest)
    BY <1>1, <2>2, TailStarted
  <2>4. /\ Closing(click) /\ StepsOf(click) \subseteq {"click"}
        /\ trigger \in Seq(Step) /\ Dry(trigger) /\ Tidy(trigger)
        /\ StepsOf(trigger) \subseteq {"trigger"}
    <3>1. /\ "click" \in Plain /\ "click" \in Step
          /\ "trigger" \in Step /\ "trigger" \notin FillSteps
      BY DEF Step, Plain, Submit, FillSteps
    <3>2. Closing(<<"click">>) /\ StepsOf(<<"click">>) = {"click"} BY <3>1, PlainIs, OneMore
    <3>3. /\ <<"trigger">> \in Seq(Step) /\ StepsOf(<<"trigger">>) = {"trigger"}
          /\ Dry(<<"trigger">>) /\ Tidy(<<"trigger">>)
      BY <3>1, OneMore
    <3>4. Closing(<<>>) BY NoMore DEF Closing
    <3>5. QED BY <3>2, <3>3, <3>4, NoMore
  <2> HIDE DEF rest, trigger, click
  <2> PICK both : both = click \o trigger OBVIOUS
  <2>5. /\ both \in Seq(Step) /\ Dry(both) /\ Tidy(both)
        /\ StepsOf(both) = StepsOf(click) \cup StepsOf(trigger)
    <3>1. click \in Seq(Step) /\ Quiet(click) /\ Dry(click) BY <2>4 DEF Closing
    <3>2. QED BY <2>4, <3>1, CatIs, QuietCat, TidyCat, ToldOfCat
  <2>6. "submit" \notin StepsOf(both) BY <2>4, <2>5
  <2>7. s \in Seq(Step) /\ StepsOf(s) = StepsOf(both) \cup StepsOf(rest)
    <3>1. s = both \o rest BY <2>1
    <3>2. s \in Seq(Step) BY <2>3, <2>5, <3>1, CatIs
    <3>3. StepsOf(s) = StepsOf(both) \cup StepsOf(rest) BY <2>3, <2>5, <3>1, ToldOfCat
    <3>4. QED BY <3>2, <3>3
  <2>8. Tidy(s) BY <2>1, <2>3, <2>5, <2>6, OpenedIsTidy
  <2>9. Submit \subseteq StepsOf(s) => "submit" \in StepsOf(own) BY <2>3, <2>6, <2>7 DEF Submit
  <2>10. QED BY <2>2, <2>3, <2>7, <2>8, <2>9
<1>5. QED BY <1>3, <1>4

LEMMA LoginIs ==
    ASSUME NEW auth, NEW s, s = Scenarios!LoginSteps(auth)
    PROVE  Closing(s) /\ ("markers" \in auth.has => "session_check" \in StepsOf(s))
<1> DEFINE plain == {"login", "login_id", "login_password", "login_submit"}
<1> PICK c : c = <<"login", "login_id", "login_password", "login_submit">> OBVIOUS
<1>1. Closing(<<"session_check">>) /\ StepsOf(<<"session_check">>) = {"session_check"}
  <2>1. "session_check" \in Plain BY DEF Plain
  <2>2. "session_check" \in Step BY <2>1 DEF Step
  <2>3. QED BY <2>1, <2>2, PlainIs, OneMore
<1>2. c \in Seq(plain) OBVIOUS
<1>3. \A x \in plain : x \in Step /\ x \notin Submit /\ x \notin FillSteps
  BY DEF Step, Plain, Submit, FillSteps
<1> HIDE DEF plain
<1>4. Closing(c)
  <2>1. \A i \in 1..Len(c) : c[i] \in plain BY <1>2
  <2>2. c \in Seq(Step) BY <1>2, <1>3
  <2>3. QED BY <1>3, <2>1, <2>2 DEF Closing, Quiet, Dry
<1>6. s = c \o (IF "markers" \in auth.has THEN <<"session_check">> ELSE <<>>)
  BY DEF Scenarios!LoginSteps
<1>7. Closing(<<>>) BY NoMore DEF Closing
<1>8. CASE "markers" \in auth.has
  <2>1. s = c \o <<"session_check">> BY <1>6, <1>8
  <2>2. QED BY <1>1, <1>4, <1>8, <2>1, ClosingCat
<1>9. CASE "markers" \notin auth.has
  <2>1. s = c \o <<>> BY <1>6, <1>9
  <2>2. QED BY <1>4, <1>7, <1>9, <2>1, ClosingCat
<1>10. QED BY <1>8, <1>9

\* What is safe to run.
SafeScene(s) ==
    LET submissions == Scenarios!Submissions(s.steps) IN
    /\ s.validationOnly => submissions = {} /\ Scenarios!Has(s.steps, "assert_invalid")
    /\ \A i, j \in submissions : s.posts[s.steps[i]] = s.posts[s.steps[j]] => i = j
    /\ \A i \in Scenarios!Inputs(s.steps), j \in submissions : s.steps[j] = "submit" => i < j
    /\ s.missing = {} =>
         /\ s.criteria \subseteq Scenarios!Range(s.steps)
         /\ s.authRequired =>
              \A j \in submissions : \E i \in 1..(j-1) : s.steps[i] = "session_check"

LEMMA SubmissionsAre ==
    ASSUME NEW s \in Seq(Step)
    PROVE  /\ Scenarios!Submissions(s) = {i \in 1..Len(s) : s[i] \in Submit}
           /\ Scenarios!Inputs(s) = {i \in 1..Len(s) : s[i] \in FillSteps}
           /\ \A step : Scenarios!Has(s, step) <=> step \in StepsOf(s)
<1>1. DOMAIN s = 1..Len(s) OBVIOUS
<1>2. Scenarios!Range(s) = StepsOf(s) BY StepsAre
<1>3. QED
  BY <1>1, <1>2 DEF Scenarios!Submissions, Scenarios!Inputs, Scenarios!Has, Submit, FillSteps

LEMMA SceneIs ==
    ASSUME NEW d, NEW auth, NEW s, s = Scenarios!Scenario(d, auth)
    PROVE  /\ s.steps = Scenarios!Steps(d, auth) /\ s.evidence = d.source.evidence
           /\ s.name = Scenarios!NameLength(d)
BY DEF Scenarios!Scenario

LEMMA SafeIs ==
    ASSUME NEW d, DraftOK(d), NEW auth
    PROVE  /\ Scenarios!Steps(d, auth) \in Seq(Step)
           /\ SafeScene(Scenarios!Scenario(d, auth))
<1> DEFINE logsIn == Scenarios!AuthRequired(d) /\ "controls" \in auth.has
           login == IF logsIn THEN Scenarios!LoginSteps(auth) ELSE <<>>
           out == IF Scenarios!IsLogout(d) /\ "markers" \in auth.has
                  THEN <<"logout_effect">> ELSE <<>>
<1> PICK own, triggered, s :
      /\ own = Scenarios!OwnSteps(d) /\ triggered = Scenarios!Triggered(d, auth)
      /\ s = Scenarios!Steps(d, auth)
  OBVIOUS
<1> PICK row : row = Scenarios!Scenario(d, auth) OBVIOUS
<1>1. s = (login \o triggered) \o out BY DEF Scenarios!Steps
<1>2. /\ Closing(login)
      /\ logsIn /\ "markers" \in auth.has => "session_check" \in StepsOf(login)
  <2>1. Closing(Scenarios!LoginSteps(auth))
        /\ ("markers" \in auth.has => "session_check" \in StepsOf(Scenarios!LoginSteps(auth)))
    BY LoginIs
  <2>2. Closing(<<>>) BY NoMore DEF Closing
  <2>3. QED BY <2>1, <2>2
<1>3. /\ Closing(out)
      /\ Scenarios!IsLogout(d) /\ "markers" \in auth.has => "logout_effect" \in StepsOf(out)
  <2>1. Closing(<<"logout_effect">>) /\ StepsOf(<<"logout_effect">>) = {"logout_effect"}
    <3>1. "logout_effect" \in Plain BY DEF Plain
    <3>2. "logout_effect" \in Step BY <3>1 DEF Step
    <3>3. QED BY <3>1, <3>2, PlainIs, OneMore
  <2>2. Closing(<<>>) BY NoMore DEF Closing
  <2>3. QED BY <2>1, <2>2
<1> HIDE DEF login, out
<1>4. /\ triggered \in Seq(Step)
      /\ Scenarios!IsValidation(d) => Quiet(triggered)
      /\ StepsOf(own) \ {"navigate"} \subseteq StepsOf(triggered)
      /\ Tidy(triggered)
      /\ Submit \subseteq StepsOf(triggered) => d.source.request # Scenarios!Target(d, auth)
  BY TriggeredWorks
<1>5. /\ own \in Seq(Step)
      /\ Scenarios!IsValidation(d) => "assert_invalid" \in StepsOf(own)
      /\ Scenarios!OwnCriteria(d) \subseteq StepsOf(own) \ {"navigate"}
  BY OwnWorks
<1> PICK most : most = login \o triggered OBVIOUS
<1>6. /\ most \in Seq(Step) /\ s \in Seq(Step) /\ s = most \o out
      /\ StepsOf(most) = StepsOf(login) \cup StepsOf(triggered)
      /\ StepsOf(s) = StepsOf(most) \cup StepsOf(out)
  <2>1. login \in Seq(Step) /\ out \in Seq(Step) BY <1>2, <1>3 DEF Closing
  <2>2. most \in Seq(Step) /\ StepsOf(most) = StepsOf(login) \cup StepsOf(triggered)
    BY <1>4, <2>1, CatIs, ToldOfCat
  <2>3. most \o out \in Seq(Step) /\ StepsOf(most \o out) = StepsOf(most) \cup StepsOf(out)
    BY <2>1, <2>2, CatIs, ToldOfCat
  <2>4. QED BY <1>1, <2>2, <2>3
<1>7. /\ Scenarios!Submissions(s) = {i \in 1..Len(s) : s[i] \in Submit}
      /\ Scenarios!Inputs(s) = {i \in 1..Len(s) : s[i] \in FillSteps}
      /\ Scenarios!Range(s) = StepsOf(s)
      /\ \A step : Scenarios!Has(s, step) <=> step \in StepsOf(s)
  BY <1>6, SubmissionsAre, StepsAre
<1>8. /\ row.steps = s /\ row.validationOnly = Scenarios!IsValidation(d)
      /\ row.authRequired = Scenarios!AuthRequired(d)
      /\ row.criteria = Scenarios!Criteria(d, auth)
      /\ row.missing = Scenarios!Missing(d, auth)
      /\ row.posts = [submit |-> d.source.request, trigger |-> Scenarios!Target(d, auth)]
  BY DEF Scenarios!Scenario
\* What is only to be refused by the screen submits nothing.
<1>9. ASSUME row.validationOnly
      PROVE  Scenarios!Submissions(s) = {} /\ Scenarios!Has(s, "assert_invalid")
  <2>1. Quiet(triggered) /\ "assert_invalid" \in StepsOf(own)
    BY <1>4, <1>5, <1>8, <1>9
  <2>2. Quiet(most) BY <1>2, <1>4, <2>1, QuietCat DEF Closing
  <2>3. Quiet(s) BY <1>3, <1>6, <2>2, QuietCat DEF Closing
  <2>4. "assert_invalid" \in StepsOf(s) BY <1>4, <1>6, <2>1
  <2>5. QED BY <1>7, <2>3, <2>4 DEF Quiet
\* What is submitted is submitted once, to its path, and a form after what is
\* filled in.
<1>15. Tidy(s)
  <2>1. login \in Seq(Step) /\ Quiet(login) BY <1>2 DEF Closing
  <2>2. out \in Seq(Step) /\ Quiet(out) /\ Dry(out) BY <1>3 DEF Closing
  <2>3. Tidy(most) BY <1>4, <2>1, TidyCat
  <2>4. Tidy(most \o out) BY <1>6, <2>2, <2>3, TidyCat
  <2>5. QED BY <1>6, <2>4
<1>10. ASSUME NEW i \in Scenarios!Submissions(s), NEW j \in Scenarios!Submissions(s),
              row.posts[s[i]] = row.posts[s[j]]
       PROVE  i = j
  <2>1. i \in 1..Len(s) /\ s[i] \in Submit /\ j \in 1..Len(s) /\ s[j] \in Submit BY <1>7
  <2>2. CASE s[i] = s[j] BY <1>15, <2>1, <2>2 DEF Tidy
  <2>3. CASE s[i] # s[j]
    <3>1. row.posts["submit"] = row.posts["trigger"] BY <1>10, <2>1, <2>3 DEF Submit
    <3>2. d.source.request = Scenarios!Target(d, auth) BY <1>8, <3>1
    <3>3. Submit \subseteq StepsOf(s) BY <2>1, <2>3 DEF Submit, StepsOf
    <3>4. StepsOf(login) \cap Submit = {} /\ StepsOf(out) \cap Submit = {}
      BY <1>2, <1>3 DEF Closing, Quiet, StepsOf
    <3>5. Submit \subseteq StepsOf(triggered) BY <1>6, <3>3, <3>4
    <3>6. QED BY <1>4, <3>2, <3>5
  <2>4. QED BY <2>2, <2>3
<1>16. ASSUME NEW i \in Scenarios!Inputs(s), NEW j \in Scenarios!Submissions(s),
              s[j] = "submit"
       PROVE  i < j
  BY <1>7, <1>15, <1>16 DEF Tidy
\* When nothing is missing, every criterion is observed,
<1>11. ASSUME row.missing = {} PROVE row.criteria \subseteq StepsOf(s)
  <2>1. Scenarios!AuthRequired(d) => logsIn /\ "markers" \in auth.has
    BY <1>8, <1>11 DEF Scenarios!Missing
  <2>2. Scenarios!IsLogout(d) => Scenarios!AuthRequired(d) BY DEF Scenarios!AuthRequired
  <2>3. Scenarios!OwnCriteria(d) \subseteq StepsOf(s) BY <1>4, <1>5, <1>6
  <2>4. Scenarios!AuthRequired(d) => "session_check" \in StepsOf(s) BY <1>2, <1>6, <2>1
  <2>5. Scenarios!IsLogout(d) => "logout_effect" \in StepsOf(s) BY <1>3, <1>6, <2>1, <2>2
  <2>6. {"wait_for_response"} \cap Scenarios!Range(own) \subseteq StepsOf(s)
    <3>1. Scenarios!Range(own) = StepsOf(own) BY <1>5, StepsAre
    <3>2. "wait_for_response" \in StepsOf(own) => "wait_for_response" \in StepsOf(s)
      <4>1. "wait_for_response" # "navigate" OBVIOUS
      <4>2. QED BY <1>4, <1>6, <4>1
    <3>3. QED BY <3>1, <3>2
  <2>7. QED BY <1>8, <2>3, <2>4, <2>5, <2>6 DEF Scenarios!Criteria
\* ... and nothing is submitted before the session was checked.
<1>12. ASSUME row.missing = {}, row.authRequired, NEW j \in Scenarios!Submissions(s)
       PROVE  \E i \in 1..(j-1) : s[i] = "session_check"
  <2>1. logsIn /\ "markers" \in auth.has BY <1>8, <1>12 DEF Scenarios!Missing
  <2>2. PICK i \in 1..Len(login) : login[i] = "session_check" BY <1>2, <2>1 DEF StepsOf
  <2>3. login \in Seq(Step) /\ out \in Seq(Step) BY <1>2, <1>3 DEF Closing
  <2>4. /\ Len(most) = Len(login) + Len(triggered) /\ Len(login) \in Nat /\ Len(triggered) \in Nat
        /\ \A k \in 1..Len(login) : most[k] = login[k]
    BY <1>4, <2>3, CatIs
  <2>5. /\ Len(s) = Len(most) + Len(out) /\ Len(out) \in Nat
        /\ \A k \in 1..Len(most) : s[k] = most[k]
    BY <1>6, <2>3, CatIs
  <2>6. \A k \in 1..Len(login) : k \in 1..Len(most) /\ s[k] = login[k] BY <2>4, <2>5
  <2>7. j \in 1..Len(s) /\ s[j] \in Submit BY <1>7
  <2>8. ~(j <= Len(login))
    <3>1. \A k \in 1..Len(login) : s[k] \notin Submit BY <1>2, <2>6 DEF Closing, Quiet
    <3>2. QED BY <2>4, <2>5, <2>7, <3>1
  <2>9. i \in 1..(j-1) /\ s[i] = "session_check" BY <2>2, <2>4, <2>5, <2>6, <2>7, <2>8
  <2>10. QED BY <2>9
<1>13. SafeScene(row) BY <1>7, <1>8, <1>9, <1>10, <1>11, <1>12, <1>16 DEF SafeScene
<1>14. QED BY <1>6, <1>13

-----------------------------------------------------------------------------

\* What the list of flows, candidates and screens is taken from.
LEMMA CandidatesAre ==
    ASSUME NEW S, NEW graph \in Seq(S)
    PROVE  /\ Scenarios!Candidates(graph) \in Seq(S)
           /\ Scenarios!Nodes(graph, "screen") \in Seq(S)
<1>1. ASSUME NEW node PROVE Scenarios!Nodes(graph, node) \in Seq(S)
  <2> PICK places : places = {i \in DOMAIN graph : graph[i].node = node} OBVIOUS
  <2>1. places \subseteq 1..Len(graph) OBVIOUS
  <2>2. Scenarios!Picked(graph, places) \in Seq(S) BY <2>1, PickedFrom, ScenariosPicked
  <2>3. QED BY <2>2 DEF Scenarios!Nodes
<1> PICK calls, endpoints :
      calls = Scenarios!Nodes(graph, "call") /\ endpoints = Scenarios!Nodes(graph, "endpoint")
  OBVIOUS
<1> PICK left : left = {i \in DOMAIN endpoints :
                          /\ endpoints[i].api \notin Scenarios!Called(graph)
                          /\ "screen" \in endpoints[i].has}
  OBVIOUS
<1>2. calls \in Seq(S) /\ endpoints \in Seq(S) BY <1>1
<1>3. left \subseteq 1..Len(endpoints) BY <1>2
<1> PICK others : others = Scenarios!Picked(endpoints, left) OBVIOUS
<1>4. others \in Seq(S) BY <1>2, <1>3, PickedFrom, ScenariosPicked
<1> PICK flows : flows = calls \o others OBVIOUS
<1>5. flows \in Seq(S) BY <1>2, <1>4
<1>6. flows = Scenarios!Flows(graph) BY DEF Scenarios!Flows
<1> PICK first : first = {i \in DOMAIN flows :
                            \A j \in 1..(i-1) : flows[j].api # flows[i].api}
  OBVIOUS
<1>7. first \subseteq 1..Len(flows) BY <1>5
<1>8. Scenarios!Picked(flows, first) \in Seq(S) BY <1>5, <1>7, PickedFrom, ScenariosPicked
<1>9. Scenarios!Candidates(graph) \in Seq(S)
  BY <1>6, <1>8 DEF Scenarios!Candidates
<1>10. QED BY <1>1, <1>9

\* Variants are made for the amount of a journey.
LEMMA VariantsAre ==
    ASSUME NEW f
    PROVE  /\ Len(Scenarios!Variants(f)) \in Nat
           /\ DOMAIN Scenarios!Variants(f) = 1..Len(Scenarios!Variants(f))
           /\ ~Scenarios!HasAmount(f) => Len(Scenarios!Variants(f)) = 0
<1> DEFINE V == {"minimum_boundary", "below_minimum", "required_missing", "maximum_boundary",
                 "above_maximum", "observed_balance_boundary", "above_observed_balance",
                 "invalid_numeric_format"}
           a == IF f.amount.min THEN <<"minimum_boundary", "below_minimum">> ELSE <<>>
           b == IF f.amount.required THEN <<"required_missing">> ELSE <<>>
           c == CASE f.amount.max = "number" -> <<"maximum_boundary", "above_maximum">>
                  [] f.amount.max = "balance" ->
                       <<"observed_balance_boundary", "above_observed_balance">>
                  [] OTHER -> <<>>
           d == IF f.amount.number THEN <<"invalid_numeric_format">> ELSE <<>>
<1>1. a \in Seq(V) /\ b \in Seq(V) /\ d \in Seq(V)
  <2>1. /\ <<"minimum_boundary", "below_minimum">> \in Seq(V) /\ <<>> \in Seq(V)
        /\ <<"required_missing">> \in Seq(V) /\ <<"invalid_numeric_format">> \in Seq(V)
    <3>1. <<"minimum_boundary", "below_minimum">> \in Seq(V) OBVIOUS
    <3>2. <<"required_missing">> \in Seq(V) OBVIOUS
    <3>3. <<"invalid_numeric_format">> \in Seq(V) OBVIOUS
    <3>4. QED BY <3>1, <3>2, <3>3
  <2>2. /\ a \in {<<"minimum_boundary", "below_minimum">>, <<>>}
        /\ b \in {<<"required_missing">>, <<>>} /\ d \in {<<"invalid_numeric_format">>, <<>>}
    BY Zenon
  <2> HIDE DEF V, a, b, d
  <2>3. QED BY <2>1, <2>2
<1>2. c \in Seq(V)
  <2>1. CASE f.amount.max = "number" BY <2>1
  <2>2. CASE f.amount.max = "balance" BY <2>2
  <2>3. CASE f.amount.max # "number" /\ f.amount.max # "balance"
    <3>1. c = <<>> BY <2>3
    <3>2. QED BY <3>1
  <2>4. QED BY <2>1, <2>2, <2>3
<1>3. Scenarios!Variants(f) = IF ~Scenarios!IsJourney(f) \/ ~Scenarios!HasAmount(f) THEN <<>>
                              ELSE a \o b \o c \o d
  BY DEF Scenarios!Variants
<1> HIDE DEF V, a, b, c, d
<1>4. a \o b \o c \o d \in Seq(V)
  <2>1. a \o b \in Seq(V) BY <1>1
  <2>2. (a \o b) \o c \in Seq(V) BY <1>2, <2>1
  <2>3. QED BY <1>1, <2>2
<1>5. Scenarios!Variants(f) \in Seq(V) BY <1>3, <1>4
<1>6. ~Scenarios!HasAmount(f) => Len(Scenarios!Variants(f)) = 0 BY <1>3
<1>7. QED BY <1>5, <1>6

LEMMA SequelIs ==
    ASSUME NEW f, SourceOK(f)
    PROVE  /\ Scenarios!Sequel(f) \in Seq(Listed(Scenarios!Sequel(f)))
           /\ \A d \in Listed(Scenarios!Sequel(f)) : DraftOK(d)
<1> PICK V : V = Scenarios!Variants(f) OBVIOUS
<1> DEFINE one == Scenarios!Draft(f, "E2E", 1, Scenarios!None)
           more == [i \in DOMAIN V |-> Scenarios!Draft(f, "E2E", i + 1, V[i])]
           S == {one} \cup {more[i] : i \in DOMAIN V}
<1> PICK s : s = Scenarios!Sequel(f) OBVIOUS
<1>1. /\ Len(V) \in Nat /\ DOMAIN V = 1..Len(V)
      /\ ~Scenarios!HasAmount(f) => Len(V) = 0
  BY VariantsAre
<1>2. DraftOK(one)
  <2>1. /\ one.source = f /\ one.case.kind = "E2E" /\ one.variant = "none"
    BY DEF Scenarios!Draft, Scenarios!None
  <2>2. ~Scenarios!IsValidation(one)
    BY <2>1 DEF Scenarios!IsValidation, Scenarios!ValidationOnly
  <2>3. QED BY <2>1, <2>2 DEF DraftOK
<1>3. ASSUME NEW i \in DOMAIN V PROVE DraftOK(more[i])
  <2>1. more[i].source = f /\ more[i].case.kind = "E2E" BY DEF Scenarios!Draft
  <2>2. Scenarios!HasAmount(f) BY <1>1
  <2>3. QED BY <2>1, <2>2 DEF DraftOK
<1>4. more \in Seq(S)
  <2>1. more \in [1..Len(V) -> S] BY <1>1
  <2>2. QED BY <1>1, <2>1
<1>5. s = <<one>> \o more BY DEF Scenarios!Sequel
<1>6. <<one>> \in Seq(S)
  <2>1. one \in S OBVIOUS
  <2> HIDE DEF one, S
  <2>2. QED BY <2>1
<1>7. \A d \in S : DraftOK(d) BY <1>2, <1>3
<1> HIDE DEF S, more, one
<1>8. s \in Seq(S) BY <1>4, <1>5, <1>6
<1>9. s \in Seq(Listed(s)) BY <1>8, SeqOfListed
<1>10. \A d \in Listed(s) : d \in S BY <1>8 DEF Listed
<1>11. QED BY <1>7, <1>9, <1>10

\* The drafts of a graph.
LEMMA DraftsAre ==
    ASSUME NEW S, \A f \in S : SourceOK(f), NEW graph \in Seq(S),
           NEW drafts, drafts = Scenarios!Drafts(graph)
    PROVE  drafts \in Seq(Listed(drafts)) /\ \A d \in Listed(drafts) : DraftOK(d)
<1> PICK list, screens :
      list = Scenarios!Candidates(graph) /\ screens = Scenarios!Nodes(graph, "screen")
  OBVIOUS
<1> DEFINE sequels == [i \in DOMAIN list |-> Scenarios!Sequel(list[i])]
           D == UNION {Listed(Scenarios!Sequel(f)) : f \in S}
           nth(i) == Cardinality({j \in 1..i : screens[j].group = screens[i].group})
           ui == [i \in DOMAIN screens |->
                    Scenarios!Draft(screens[i], "UI", nth(i), Scenarios!None)]
           U == {ui[i] : i \in DOMAIN screens}
<1>1. list \in Seq(S) /\ screens \in Seq(S) BY CandidatesAre
<1>2. /\ Len(list) \in Nat /\ DOMAIN list = 1..Len(list) /\ \A i \in 1..Len(list) : list[i] \in S
      /\ Len(screens) \in Nat /\ DOMAIN screens = 1..Len(screens)
      /\ \A i \in 1..Len(screens) : screens[i] \in S
  BY <1>1
<1>3. sequels \in Seq(Seq(D))
  <2>1. ASSUME NEW f \in S PROVE Scenarios!Sequel(f) \in Seq(D)
    <3> PICK L : L = Listed(Scenarios!Sequel(f)) OBVIOUS
    <3>1. Scenarios!Sequel(f) \in Seq(L) BY SequelIs
    <3>2. L \subseteq D OBVIOUS
    <3> HIDE DEF D
    <3>3. QED BY <3>1, <3>2
  <2> HIDE DEF D
  <2>2. sequels \in [1..Len(list) -> Seq(D)] BY <1>2, <2>1
  <2> HIDE DEF sequels
  <2>3. QED BY <1>2, <2>2
<1>4. \A d \in D : DraftOK(d) BY SequelIs
<1>5. ASSUME NEW i \in DOMAIN screens PROVE DraftOK(ui[i])
  <2>1. ui[i].source = screens[i] /\ ui[i].case.kind = "UI" /\ ui[i].variant = "none"
    BY DEF Scenarios!Draft, Scenarios!None
  <2>2. ~Scenarios!IsValidation(ui[i])
    BY <2>1 DEF Scenarios!IsValidation, Scenarios!ValidationOnly
  <2>3. SourceOK(screens[i]) BY <1>2
  <2> HIDE DEF ui
  <2>4. QED BY <2>1, <2>2, <2>3 DEF DraftOK
<1>6. ui \in Seq(U)
  <2>1. ui \in [1..Len(screens) -> U] BY <1>2
  <2> HIDE DEF ui, U
  <2>2. QED BY <1>2, <2>1
<1>7. \A d \in U : DraftOK(d) BY <1>5
<1>8. drafts = Scenarios!FlattenSeq(sequels) \o ui
  <2>1. ui = Scenarios!UiDrafts(graph)
    <3>1. \A i : nth(i) = Scenarios!Cardinality({j \in 1..i : screens[j].group = screens[i].group})
      BY ScenariosCount
    <3> HIDE DEF nth
    <3>2. QED BY <3>1 DEF Scenarios!UiDrafts
  <2> HIDE DEF ui
  <2>2. QED BY <2>1 DEF Scenarios!Drafts
<1> PICK both : both = D \cup U OBVIOUS
<1>9. \A d \in both : DraftOK(d) BY <1>4, <1>7
<1>10. D \subseteq both /\ U \subseteq both OBVIOUS
<1> HIDE DEF D, U, sequels, ui
<1>11. Scenarios!FlattenSeq(sequels) \in Seq(D) BY <1>3, FlatIs, ScenariosFlatten
<1>12. drafts \in Seq(both)
  <2>1. Scenarios!FlattenSeq(sequels) \in Seq(both) /\ ui \in Seq(both)
    BY <1>6, <1>10, <1>11
  <2>2. QED BY <1>8, <2>1
<1>13. drafts \in Seq(Listed(drafts)) BY <1>12, SeqOfListed
<1>14. \A d \in Listed(drafts) : d \in both BY <1>12 DEF Listed
<1>15. QED BY <1>9, <1>13, <1>14

\* What is made of a graph has each case once, and all of it is safe to run.
LEMMA GeneratedIsSafe ==
    ASSUME NEW graph \in ProjectGraphs,
           NEW made, made = Scenarios!Generated(graph.sources, graph.auth)
    PROVE  OnceEach(made) /\ \A s \in Listed(made) : SafeScene(s)
<1> DEFINE Source == [node : STRING, api : STRING, endpoint : STRING, group : STRING,
                      screen : STRING, entry : STRING, request : STRING,
                      has : SUBSET STRING, fills : Seq({"fill", "select", "amount"}),
                      amount : [min : BOOLEAN, max : {"none", "number", "balance"},
                                required : BOOLEAN, number : BOOLEAN],
                      evidence : Nat, name : Nat]
           Auth == [has : SUBSET {"controls", "markers"}, postOnly : SUBSET (STRING \ {"none"}),
                    triggers : SUBSET STRING, openers : SUBSET STRING]
<1>1. \A f \in Source : SourceOK(f) BY DEF SourceOK, FillSteps
<1>2. graph \in [sources : Seq(Source), auth : Auth] BY GraphsAssumption
<1> HIDE DEF Source
<1>3. graph.sources \in Seq(Source) /\ graph.auth \in Auth BY <1>2
<1> PICK drafts : drafts = Scenarios!Drafts(graph.sources) OBVIOUS
<1> PICK auth : auth = graph.auth OBVIOUS
<1>4. drafts \in Seq(Listed(drafts)) /\ \A d \in Listed(drafts) : DraftOK(d)
  BY <1>1, <1>3, DraftsAre
<1>5. /\ Len(drafts) \in Nat /\ DOMAIN drafts = 1..Len(drafts)
      /\ \A i \in 1..Len(drafts) : DraftOK(drafts[i])
  BY <1>4
<1> PICK s : s = [i \in DOMAIN drafts |-> Scenarios!Scenario(drafts[i], auth)] OBVIOUS
<1>6. DOMAIN s = 1..Len(drafts) /\ Len(s) = Len(drafts) BY <1>5
<1>7. ASSUME NEW i \in 1..Len(s)
      PROVE  /\ SafeScene(s[i]) /\ Len(s[i].steps) \in Nat
             /\ s[i].evidence \in Nat /\ s[i].name \in Nat
  <2> PICK d : d = drafts[i] OBVIOUS
  <2>1. s[i] = Scenarios!Scenario(d, auth) /\ DraftOK(d) BY <1>5, <1>6
  <2>2. Scenarios!Steps(d, auth) \in Seq(Step) /\ SafeScene(s[i]) BY <1>3, <2>1, SafeIs
  <2>3. s[i].steps = Scenarios!Steps(d, auth) /\ s[i].evidence = d.source.evidence
        /\ s[i].name = Scenarios!NameLength(d)
    BY <2>1, SceneIs
  <2>4. d.source.evidence \in Nat /\ d.source.name \in Nat BY <2>1 DEF DraftOK, SourceOK
  <2>5. Len(s[i].steps) \in Nat BY <2>2, <2>3
  <2>7. Scenarios!NameLength(d) \in Nat
    <3>1. \A v \in DOMAIN Scenarios!Labelled : Scenarios!Labelled[v] \in Nat
      BY DEF Scenarios!Labelled
    <3>2. QED BY <2>4, <3>1 DEF Scenarios!NameLength
  <2>6. QED BY <2>2, <2>3, <2>4, <2>5, <2>7
<1>8. SceneList(s) BY <1>5, <1>6, <1>7 DEF SceneList
<1>9. made = Scenarios!Kept(s) BY DEF Scenarios!Generated
<1>10. OnceEach(made) /\ Listed(made) \subseteq Listed(s) BY <1>8, <1>9, KeptOnce
<1>11. \A r \in Listed(s) : SafeScene(r) BY <1>6, <1>7 DEF Listed
<1>12. QED BY <1>10, <1>11

-----------------------------------------------------------------------------
(* The rows.                                                               *)

SceneThreadOK(t) ==
    /\ DOMAIN t = {"step", "made", "todo", "found", "copy"}
    /\ t.step \in {"idle", "list", "save", "version"}

\* Fields, and the steps of the requests.
SceneShape ==
    /\ disk = memory
    /\ DOMAIN past = {"requests", "restarts", "alone", "newest", "ids"}
    /\ past.alone \in BOOLEAN /\ past.requests \in Nat /\ past.ids \in Nat
    /\ thread = [w \in Actor |-> thread[w]]
    /\ \A w \in Actor : SceneThreadOK(thread[w])

\* No two requests are at work.
SceneAlone ==
    \A v, w \in Actor : thread[v].step # "idle" /\ thread[w].step # "idle" => v = w

\* A case has one row, with what was made of it last.
SceneRow(s) ==
    /\ DOMAIN s = {"id", "result", "made", "version"}
    /\ s.id \in 1..past.ids /\ s.made \in Nat
    /\ [case |-> s.result.case, made |-> s.made] \in past.newest

SceneRows ==
    /\ \A s \in memory : SceneRow(s)
    /\ \A s, x \in memory : s.id = x.id \/ s.result.case = x.result.case => s = x

\* What a request has found is the row that its case has.
SceneFound(t) ==
    \A i \in 1..Len(t.todo) :
        /\ \A s \in memory : s.result.case = t.todo[i].case =>
             [case |-> t.todo[i].case, id |-> s.id] \in t.found
        /\ \A f \in t.found : f.case = t.todo[i].case =>
             \E s \in memory : s.id = f.id /\ s.result.case = f.case

SceneHolds(t) ==
    /\ t.step \in {"list", "save"} => OnceEach(t.todo) /\ t.made \in Nat
    /\ t.step = "save" => SceneFound(t)
    /\ t.step = "version" => t.copy \in memory

SceneCore == SceneAlone /\ SceneRows /\ \A w \in Actor : SceneHolds(thread[w])

SceneIInv == SceneShape /\ (past.alone => SceneCore)

LEMMA SceneInit == Scenarios!Init => SceneIInv
<1> SUFFICES ASSUME Scenarios!Init PROVE SceneIInv OBVIOUS
<1> USE DEF Scenarios!Init
<1>1. SceneShape BY DEF SceneShape, SceneThreadOK, Scenarios!Free
<1>2. SceneCore
  BY DEF SceneCore, SceneAlone, SceneRows, SceneHolds, Scenarios!Free
<1>3. QED BY <1>1, <1>2 DEF SceneIInv

\* A step of one request, which begins when all are idle, or goes on.
SceneMoves(w, t) ==
    /\ SceneThreadOK(t)
    /\ thread' = [thread EXCEPT ![w] = t]
    /\ disk' = memory' /\ DOMAIN past' = DOMAIN past
    /\ past'.alone \in BOOLEAN /\ past'.requests \in Nat /\ past'.ids \in Nat
    /\ past'.alone => past.alone
    /\ past'.alone /\ thread[w].step = "idle" =>
         \A v \in Actor : thread[v].step = "idle"

LEMMA SceneStepKeeps ==
    ASSUME SceneIInv, NEW w \in Actor, NEW t, SceneMoves(w, t),
           past'.alone /\ SceneCore => SceneRows' /\ SceneHolds(thread[w])'
    PROVE  SceneIInv'
<1>1. SceneShape' BY DEF SceneIInv, SceneShape, SceneMoves, SceneThreadOK
<1>2. ASSUME past'.alone PROVE SceneCore'
  <2>1. past.alone /\ SceneCore BY <1>2 DEF SceneIInv, SceneMoves
  <2>2. SceneAlone'
    BY <1>2, <2>1 DEF SceneIInv, SceneCore, SceneShape, SceneMoves, SceneAlone
  <2>3. ASSUME NEW v \in Actor PROVE SceneHolds(thread[v])'
    <3>1. CASE v = w BY <1>2, <2>1, <3>1
    <3>2. CASE v # w
      <4>1. thread'[v] = thread[v] /\ thread[v].step = "idle"
        BY <1>2, <2>1, <3>2 DEF SceneIInv, SceneCore, SceneShape, SceneMoves, SceneAlone
      <4>2. QED BY <4>1 DEF SceneHolds
    <3>3. QED BY <3>1, <3>2
  <2>4. QED BY <1>2, <2>1, <2>2, <2>3 DEF SceneCore
<1>3. QED BY <1>1, <1>2 DEF SceneIInv

\* A step that leaves the rows alone.
LEMMA SceneQuietly ==
    ASSUME SceneIInv, NEW w \in Actor, NEW t, SceneMoves(w, t),
           memory' = memory, past'.newest = past.newest, past'.ids = past.ids,
           past'.alone /\ SceneCore => SceneHolds(t)
    PROVE  SceneIInv'
<1>1. ASSUME past'.alone, SceneCore PROVE SceneRows' /\ SceneHolds(thread[w])'
  <2>1. SceneRows'
    <3>1. \A s : SceneRow(s) <=> SceneRow(s)' BY DEF SceneRow
    <3>2. QED BY <1>1, <3>1 DEF SceneCore, SceneRows
  <2>2. thread'[w] = t BY DEF SceneIInv, SceneShape, SceneMoves
  <2>3. SceneHolds(t) BY <1>1
  <2>4. SceneFound(t) => SceneFound(thread[w])' BY <2>2 DEF SceneFound
  <2>5. QED BY <2>1, <2>2, <2>3, <2>4 DEF SceneHolds
<1>2. QED BY <1>1, SceneStepKeeps

\* A row that takes the place of the only one of its case, or is new.
LEMMA SceneReplaces ==
    ASSUME SceneRows, NEW row, DOMAIN row = {"id", "result", "made", "version"},
           row.id \in 1..past'.ids, row.made \in Nat, past.ids \in Nat,
           past'.ids \in Nat, past'.ids >= past.ids,
           memory' = {x \in memory : x.id # row.id} \cup {row},
           \A s \in memory : s.result.case = row.result.case <=> s.id = row.id,
           [case |-> row.result.case, made |-> row.made] \in past'.newest,
           \A n \in past.newest : n.case # row.result.case => n \in past'.newest
    PROVE  SceneRows'
<1>1. ASSUME NEW s \in memory, s.id # row.id PROVE SceneRow(s)'
  <2>1. SceneRow(s) /\ s.result.case # row.result.case BY <1>1 DEF SceneRows
  <2>2. [case |-> s.result.case, made |-> s.made] \in past'.newest BY <2>1 DEF SceneRow
  <2>3. QED BY <2>1, <2>2 DEF SceneRow
<1>2. SceneRow(row)' BY DEF SceneRow
<1>3. \A s \in memory' : SceneRow(s)' BY <1>1, <1>2
<1>4. \A s, x \in memory' : s.id = x.id \/ s.result.case = x.result.case => s = x
  BY DEF SceneRows
<1>5. QED BY <1>3, <1>4 DEF SceneRows

\* What is left of a list in which each case is once.
LEMMA RestOnce ==
    ASSUME NEW list, OnceEach(list), list # <<>>
    PROVE  /\ Len(list) \in Nat \ {0} /\ Head(list) = list[1] /\ OnceEach(Tail(list))
           /\ Len(Tail(list)) = Len(list) - 1
           /\ \A i \in 1..Len(Tail(list)) :
                /\ i + 1 \in 1..Len(list) /\ Tail(list)[i] = list[i + 1]
                /\ Tail(list)[i].case # Head(list).case
<1> PICK S : S = Listed(list) OBVIOUS
<1>1. list \in Seq(S) /\ Len(list) \in Nat \ {0} /\ Head(list) = list[1] BY DEF OnceEach
<1> PICK rest : rest = Tail(list) OBVIOUS
<1>2. /\ rest \in Seq(S) /\ Len(rest) = Len(list) - 1
      /\ \A i \in 1..Len(rest) : i + 1 \in 1..Len(list) /\ rest[i] = list[i + 1]
  BY <1>1
<1>3. rest \in Seq(Listed(rest)) BY <1>2, SeqOfListed
<1>4. \A i \in 1..Len(rest) : rest[i].case # Head(list).case BY <1>1, <1>2 DEF OnceEach
<1>5. OnceEach(rest) BY <1>1, <1>2, <1>3 DEF OnceEach
<1>6. QED BY <1>1, <1>2, <1>4, <1>5

\* A request stores the first of what it has made.
LEMMA SceneStores ==
    ASSUME SceneIInv, NEW w \in Actor, Scenarios!Stores(w) PROVE SceneIInv'
<1> PICK t, d, found, id, row :
      /\ t = thread[w] /\ d = Head(t.todo) /\ found = {f \in t.found : f.case = d.case}
      /\ id = IF found = {} THEN past.ids + 1 ELSE (CHOOSE f \in found : TRUE).id
      /\ row = [id |-> id, result |-> d, made |-> t.made, version |-> 1]
  OBVIOUS
<1>0. /\ t.step = "save" /\ t.todo # <<>>
      /\ memory' = {x \in memory : x.id # id} \cup {row} /\ disk' = memory'
      /\ thread' = [thread EXCEPT ![w] = IF Len(t.todo) = 1 THEN Scenarios!Free
                                         ELSE [t EXCEPT !.todo = Tail(@)]]
      /\ past' = [past EXCEPT
           !.ids = IF found = {} THEN @ + 1 ELSE @,
           !.newest = {n \in @ : n.case # d.case} \cup {[case |-> d.case, made |-> t.made]}]
  BY DEF Scenarios!Stores, Scenarios!Saves, Scenarios!Becomes, Scenarios!At
<1>1. /\ SceneShape /\ SceneThreadOK(t) BY DEF SceneIInv, SceneShape
<1> PICK new : new = IF Len(t.todo) = 1 THEN Scenarios!Free ELSE [t EXCEPT !.todo = Tail(@)]
  OBVIOUS
<1>2. /\ past'.ids = (IF found = {} THEN past.ids + 1 ELSE past.ids)
      /\ past'.newest = {n \in past.newest : n.case # d.case}
                          \cup {[case |-> d.case, made |-> t.made]}
      /\ past'.alone = past.alone /\ past'.requests = past.requests
      /\ DOMAIN past' = DOMAIN past
  BY <1>0, <1>1 DEF SceneShape
<1>3. /\ SceneThreadOK(new) /\ thread'[w] = new
      /\ new.step = "idle" \/ /\ new.step = "save" /\ new.todo = Tail(t.todo)
                              /\ new.made = t.made /\ new.found = t.found
  BY <1>0, <1>1 DEF SceneThreadOK, SceneShape, Scenarios!Free
<1>4. SceneMoves(w, new) BY <1>0, <1>1, <1>2, <1>3 DEF SceneMoves, SceneShape
<1>5. ASSUME past'.alone, SceneCore PROVE SceneRows' /\ SceneHolds(thread[w])'
  <2>1. OnceEach(t.todo) /\ t.made \in Nat /\ SceneFound(t)
    BY <1>0, <1>5 DEF SceneCore, SceneHolds
  <2>2. /\ Len(t.todo) \in Nat \ {0} /\ d = t.todo[1] /\ OnceEach(Tail(t.todo))
        /\ \A i \in 1..Len(Tail(t.todo)) :
             /\ i + 1 \in 1..Len(t.todo) /\ Tail(t.todo)[i] = t.todo[i + 1]
             /\ Tail(t.todo)[i].case # d.case
    BY <1>0, <2>1, RestOnce
  <2>3. SceneRows BY <1>5 DEF SceneCore
  <2>4. /\ id \in 1..past'.ids
        /\ \A s \in memory : s.result.case = d.case <=> s.id = id
    <3>1. /\ \A s \in memory : s.result.case = d.case =>
               [case |-> d.case, id |-> s.id] \in t.found
          /\ \A f \in t.found : f.case = d.case =>
               \E s \in memory : s.id = f.id /\ s.result.case = f.case
      BY <2>1, <2>2 DEF SceneFound
    <3>2. \A s \in memory : s.id \in 1..past.ids BY <2>3 DEF SceneRows, SceneRow
    <3>3. CASE found = {}
      <4>1. \A s \in memory : s.result.case # d.case BY <3>1, <3>3
      <4>2. past.ids \in Nat /\ id = past.ids + 1 /\ past'.ids = past.ids + 1
        BY <1>1, <1>2, <3>3 DEF SceneShape
      <4>3. \A s \in memory : s.id # id BY <3>2, <4>2
      <4>4. id \in 1..past'.ids BY <4>2
      <4>5. QED BY <4>1, <4>3, <4>4
    <3>4. CASE found # {}
      <4>1. PICK f \in found : id = f.id BY <3>4
      <4>2. f \in t.found /\ f.case = d.case BY <4>1
      <4>3. PICK s \in memory : s.id = f.id /\ s.result.case = f.case
        BY <3>1, <4>2, Zenon
      <4>4. s.id = id /\ s.result.case = d.case BY <4>1, <4>2, <4>3
      <4>5. id \in 1..past'.ids BY <1>2, <3>2, <3>4, <4>4
      <4>6. \A x \in memory : x.result.case = d.case <=> x.id = id
        BY <2>3, <4>4 DEF SceneRows
      <4>7. QED BY <4>5, <4>6
    <3>5. QED BY <3>3, <3>4
  <2>5. DOMAIN row = {"id", "result", "made", "version"} /\ row.id = id
        /\ row.result = d /\ row.made = t.made
    OBVIOUS
  <2>6. SceneRows'
    <3>1. past.ids \in Nat /\ past'.ids \in Nat /\ past'.ids >= past.ids
      BY <1>1, <1>2 DEF SceneShape
    <3>2. memory' = {x \in memory : x.id # row.id} \cup {row} BY <1>0, <2>5
    <3>3. \A n \in past.newest : n.case # row.result.case => n \in past'.newest
      BY <1>2, <2>5
    <3>4. [case |-> row.result.case, made |-> row.made] \in past'.newest BY <1>2, <2>5
    <3>5. QED BY <2>1, <2>3, <2>4, <2>5, <3>1, <3>2, <3>3, <3>4, SceneReplaces
  <2>7. ASSUME new.step = "save" PROVE SceneFound(new)'
    <3>1. new.todo = Tail(t.todo) /\ new.found = t.found BY <1>3, <2>7
    <3>2. ASSUME NEW i \in 1..Len(new.todo)
          PROVE  /\ \A s \in memory' : s.result.case = new.todo[i].case =>
                      [case |-> new.todo[i].case, id |-> s.id] \in new.found
                 /\ \A f \in new.found : f.case = new.todo[i].case =>
                      \E s \in memory' : s.id = f.id /\ s.result.case = f.case
      <4> PICK case : case = new.todo[i].case OBVIOUS
      <4>1. i + 1 \in 1..Len(t.todo) /\ t.todo[i + 1].case = case /\ case # d.case
        BY <2>2, <3>1
      <4>2. /\ \A s \in memory : s.result.case = case =>
                 [case |-> case, id |-> s.id] \in t.found
            /\ \A f \in t.found : f.case = case =>
                 \E s \in memory : s.id = f.id /\ s.result.case = f.case
        BY <2>1, <4>1 DEF SceneFound
      <4>3. \A s : s.result.case = case => (s \in memory' <=> s \in memory)
        BY <1>0, <2>4, <2>5, <4>1
      <4>4. QED BY <3>1, <4>2, <4>3
    <3>3. QED BY <3>2 DEF SceneFound
  <2>8. SceneHolds(thread[w])'
    BY <1>3, <2>1, <2>2, <2>7 DEF SceneHolds, SceneFound
  <2>9. QED BY <2>6, <2>8
<1>6. QED BY <1>4, <1>5, SceneStepKeeps

\* Where one is counted, one is.
LEMMA OneIsThere ==
    ASSUME NEW S, Cardinality(S) = 1 PROVE S # {}
BY FS_EmptySet

LEMMA SceneNext == SceneIInv /\ [Scenarios!Next]_(Scenarios!vars) => SceneIInv'
<1> SUFFICES ASSUME SceneIInv, [Scenarios!Next]_(Scenarios!vars) PROVE SceneIInv' OBVIOUS
<1>s. SceneShape BY DEF SceneIInv
<1>f. /\ SceneThreadOK(Scenarios!Free) /\ Scenarios!Free.step = "idle"
      /\ SceneHolds(Scenarios!Free)
  BY DEF Scenarios!Free, SceneThreadOK, SceneHolds
<1>r. ASSUME NEW w \in Actor, Scenarios!Request(w)
      PROVE  /\ past'.newest = past.newest /\ past'.ids = past.ids
             /\ thread[w].step = "idle" /\ DOMAIN past' = DOMAIN past
             /\ past'.requests \in Nat /\ past'.ids \in Nat /\ past'.alone \in BOOLEAN
             /\ past'.alone => past.alone /\ \A v \in Actor : thread[v].step = "idle"
  <2> PICK idle \in BOOLEAN : idle <=> \A v \in Actor : thread[v].step = "idle"
    BY Zenon
  <2>1. past' = [past EXCEPT !.requests = @ + 1,
                             !.alone = @ /\ \A v \in Actor : thread[v].step = "idle"]
    BY <1>r DEF Scenarios!Request, Scenarios!At
  <2>2. /\ DOMAIN past' = DOMAIN past /\ past'.requests = past.requests + 1
        /\ past'.newest = past.newest /\ past'.ids = past.ids
        /\ past'.alone = (past.alone /\ \A v \in Actor : thread[v].step = "idle")
    BY <1>s, <2>1 DEF SceneShape
  <2>3. /\ past'.alone \in BOOLEAN
        /\ past'.alone => past.alone /\ \A v \in Actor : thread[v].step = "idle"
    BY <2>2, Zenon
  <2>4. QED BY <1>s, <1>r, <2>2, <2>3 DEF SceneShape, Scenarios!Request, Scenarios!At
<1>1. CASE UNCHANGED Scenarios!vars
  <2>1. \A s : SceneRow(s) <=> SceneRow(s)' BY <1>1 DEF Scenarios!vars, SceneRow
  <2>2. \A t : SceneFound(t) <=> SceneFound(t)' BY <1>1 DEF Scenarios!vars, SceneFound
  <2>3. \A t : SceneHolds(t) <=> SceneHolds(t)'
    BY <1>1, <2>2 DEF Scenarios!vars, SceneHolds
  <2>4. QED
    BY <1>1, <2>1, <2>3
    DEF Scenarios!vars, SceneIInv, SceneShape, SceneCore, SceneAlone, SceneRows
<1>2. ASSUME NEW w \in Actor, NEW graph \in ProjectGraphs, Scenarios!Generate(w, graph)
      PROVE  SceneIInv'
  <2> PICK list, t :
        /\ list = Scenarios!Generated(graph.sources, graph.auth)
        /\ t = [Scenarios!Free EXCEPT !.step = "list", !.made = past.requests + 1,
                                      !.todo = list]
    OBVIOUS
  <2>1. /\ memory' = memory /\ disk' = disk
        /\ thread' = thread \/ thread' = [thread EXCEPT ![w] = t]
    BY <1>2 DEF Scenarios!Generate, Scenarios!Becomes
  <2>2. Scenarios!Request(w) BY <1>2 DEF Scenarios!Generate
  <2>3. CASE thread' = thread
    <3>1. SceneMoves(w, thread[w])
      BY <1>r, <1>s, <2>1, <2>2, <2>3 DEF SceneMoves, SceneShape
    <3>2. SceneCore => SceneHolds(thread[w]) BY DEF SceneCore
    <3>3. QED BY <1>r, <2>1, <2>2, <3>1, <3>2, SceneQuietly
  <2>4. CASE thread' = [thread EXCEPT ![w] = t]
    <3>1. SceneThreadOK(t) /\ t.step = "list" /\ t.todo = list /\ t.made \in Nat
      BY <1>s DEF Scenarios!Free, SceneThreadOK, SceneShape
    <3>2. SceneMoves(w, t) BY <1>r, <1>s, <2>1, <2>2, <2>4, <3>1 DEF SceneMoves, SceneShape
    <3>3. SceneHolds(t) BY <3>1, GeneratedIsSafe DEF SceneHolds
    <3>4. QED BY <1>r, <2>1, <2>2, <3>2, <3>3, SceneQuietly
  <2>5. QED BY <2>1, <2>3, <2>4
<1>3. ASSUME NEW w \in Actor, Scenarios!ListsExisting(w) PROVE SceneIInv'
  <2> DEFINE todo == thread[w].todo
             cases == {todo[i].case : i \in DOMAIN todo}
  <2>1. PICK found \in SUBSET UNION {Scenarios!Existing(case) : case \in cases} :
          /\ \A case \in cases :
               Scenarios!Cardinality({s \in found : s.result.case = case})
                 = IF Scenarios!Existing(case) = {} THEN 0 ELSE 1
          /\ thread' = [thread EXCEPT ![w] = [thread[w] EXCEPT !.step = "save",
                !.found = {[case |-> s.result.case, id |-> s.id] : s \in found}]]
    BY <1>3, Zenon DEF Scenarios!ListsExisting, Scenarios!Becomes
  <2> PICK t : t = [thread[w] EXCEPT !.step = "save",
                      !.found = {[case |-> s.result.case, id |-> s.id] : s \in found}]
    OBVIOUS
  <2>2. /\ thread[w].step = "list" /\ memory' = memory /\ disk' = disk /\ past' = past
    BY <1>3 DEF Scenarios!ListsExisting, Scenarios!At
  <2>3. /\ SceneThreadOK(t) /\ t.step = "save" /\ t.todo = todo /\ t.made = thread[w].made
        /\ t.found = {[case |-> s.result.case, id |-> s.id] : s \in found}
    BY <1>s DEF SceneShape, SceneThreadOK
  <2>4. SceneMoves(w, t) BY <1>s, <2>1, <2>2, <2>3 DEF SceneMoves, SceneShape
  <2>5. found \subseteq memory BY <2>1 DEF Scenarios!Existing
  <2>6. ASSUME SceneCore PROVE SceneHolds(t)
    <3>1. OnceEach(todo) /\ thread[w].made \in Nat BY <2>2, <2>6 DEF SceneCore, SceneHolds
    <3>2. \A i \in 1..Len(todo) : todo[i].case \in cases BY <3>1 DEF OnceEach
    <3>3. ASSUME NEW s \in memory, s.result.case \in cases PROVE s \in found
      <4> PICK case, own : /\ case = s.result.case
                           /\ own = {x \in found : x.result.case = case}
        OBVIOUS
      <4>1. s \in Scenarios!Existing(case)
        <5>1. \A x \in memory : x.result.case = case => x = s
          BY <2>6 DEF SceneCore, SceneRows
        <5>2. s.made \in Nat BY <2>6 DEF SceneCore, SceneRows, SceneRow
        <5>3. \A x \in memory : x.result.case = case => x.made <= s.made BY <5>1, <5>2
        <5>4. QED BY <5>3 DEF Scenarios!Existing
      <4>2. Cardinality(own) = 1 BY <2>1, <3>3, <4>1, ScenariosCount
      <4>3. own # {} BY <4>2, OneIsThere
      <4>4. PICK x \in found : x.result.case = case BY <4>3
      <4>5. x = s BY <2>5, <2>6, <4>4 DEF SceneCore, SceneRows
      <4>6. QED BY <4>5
    <3>4. ASSUME NEW i \in 1..Len(t.todo)
          PROVE  /\ \A s \in memory : s.result.case = t.todo[i].case =>
                      [case |-> t.todo[i].case, id |-> s.id] \in t.found
                 /\ \A f \in t.found : f.case = t.todo[i].case =>
                      \E s \in memory : s.id = f.id /\ s.result.case = f.case
      <4>1. \A s \in memory : s.result.case = t.todo[i].case => s \in found
        BY <2>3, <3>2, <3>3
      <4>2. \A s \in found : [case |-> s.result.case, id |-> s.id] \in t.found BY <2>3
      <4>3. \A f \in t.found : \E s \in found : s.id = f.id /\ s.result.case = f.case
        BY <2>3
      <4>4. QED BY <2>5, <4>1, <4>2, <4>3
    <3>5. SceneFound(t) BY <3>4 DEF SceneFound
    <3>6. QED BY <2>3, <3>1, <3>5 DEF SceneHolds
  <2>7. QED BY <2>2, <2>4, <2>6, SceneQuietly
<1>4. ASSUME NEW w \in Actor, Scenarios!VersionReads(w) PROVE SceneIInv'
  <2>1. PICK s \in memory :
          thread' = [thread EXCEPT ![w] = [Scenarios!Free EXCEPT !.step = "version",
                                                                 !.copy = s]]
    BY <1>4 DEF Scenarios!VersionReads, Scenarios!Becomes
  <2> PICK t : t = [Scenarios!Free EXCEPT !.step = "version", !.copy = s] OBVIOUS
  <2>2. SceneThreadOK(t) /\ t.step = "version" /\ t.copy = s
    BY DEF Scenarios!Free, SceneThreadOK
  <2>3. Scenarios!Request(w) /\ memory' = memory /\ disk' = disk
    BY <1>4 DEF Scenarios!VersionReads
  <2>4. SceneMoves(w, t) BY <1>r, <1>s, <2>1, <2>2, <2>3 DEF SceneMoves, SceneShape
  <2>5. SceneHolds(t) BY <2>2 DEF SceneHolds
  <2>6. QED BY <1>r, <2>3, <2>4, <2>5, SceneQuietly
<1>5. ASSUME NEW w \in Actor, Scenarios!VersionSaves(w) PROVE SceneIInv'
  <2> PICK copy, row : copy = thread[w].copy /\ row = [copy EXCEPT !.version = @ + 1]
    OBVIOUS
  <2>1. /\ thread[w].step = "version" /\ thread' = [thread EXCEPT ![w] = Scenarios!Free]
        /\ memory' = {x \in memory : x.id # row.id} \cup {row} /\ disk' = memory'
        /\ past' = past
    BY <1>5 DEF Scenarios!VersionSaves, Scenarios!Saves, Scenarios!Becomes, Scenarios!At
  <2>2. SceneMoves(w, Scenarios!Free) BY <1>f, <1>s, <2>1 DEF SceneMoves, SceneShape
  <2>3. ASSUME SceneCore PROVE SceneRows' /\ SceneHolds(thread[w])'
    <3>1. copy \in memory /\ SceneRow(copy)
      BY <2>1, <2>3 DEF SceneCore, SceneHolds, SceneRows
    <3>2. /\ DOMAIN row = {"id", "result", "made", "version"} /\ row.id = copy.id
          /\ row.result = copy.result /\ row.made = copy.made
      BY <3>1 DEF SceneRow
    <3>3. \A s \in memory : s.result.case = row.result.case <=> s.id = row.id
      BY <2>3, <3>1, <3>2 DEF SceneCore, SceneRows
    <3>4. /\ past.ids \in Nat /\ past'.ids = past.ids /\ past'.newest = past.newest
          /\ past.ids >= past.ids
      BY <1>s, <2>1 DEF SceneShape
    <3>5. /\ row.id \in 1..past'.ids /\ row.made \in Nat
          /\ [case |-> row.result.case, made |-> row.made] \in past'.newest
      BY <3>1, <3>2, <3>4 DEF SceneRow
    <3>6. SceneRows BY <2>3 DEF SceneCore
    <3>7. SceneRows' BY <2>1, <3>2, <3>3, <3>4, <3>5, <3>6, SceneReplaces
    <3>8. thread'[w] = Scenarios!Free BY <1>s, <2>1 DEF SceneShape
    <3>9. SceneHolds(thread[w])' BY <1>f, <3>8 DEF SceneHolds
    <3>10. QED BY <3>7, <3>9
  <2>4. QED BY <2>2, <2>3, SceneStepKeeps
<1>6. ASSUME NEW w \in Actor, Scenarios!Delete(w) PROVE SceneIInv'
  <2>1. Scenarios!Request(w) /\ thread' = thread /\ disk' = memory'
        /\ memory' \subseteq memory
    BY <1>6 DEF Scenarios!Delete
  <2>2. SceneMoves(w, thread[w]) BY <1>r, <1>s, <2>1 DEF SceneMoves, SceneShape
  <2>3. ASSUME past'.alone, SceneCore PROVE SceneRows' /\ SceneHolds(thread[w])'
    <3>1. past'.newest = past.newest /\ past'.ids = past.ids /\ thread'[w].step = "idle"
      BY <1>r, <2>1
    <3>2. \A s : SceneRow(s) <=> SceneRow(s)' BY <3>1 DEF SceneRow
    <3>3. SceneRows' BY <2>1, <2>3, <3>2 DEF SceneCore, SceneRows
    <3>4. QED BY <3>1, <3>3 DEF SceneHolds
  <2>4. QED BY <2>2, <2>3, SceneStepKeeps
<1>7. ASSUME Scenarios!Restart PROVE SceneIInv'
  <2>1. /\ memory' = memory /\ disk' = memory' /\ thread' = [w \in Actor |-> Scenarios!Free]
        /\ past'.newest = past.newest /\ past'.ids = past.ids /\ past'.alone = past.alone
        /\ past'.requests = past.requests /\ DOMAIN past' = DOMAIN past
    BY <1>s, <1>7 DEF SceneShape, Scenarios!Restart
  <2>2. SceneShape' BY <1>f, <1>s, <2>1 DEF SceneShape
  <2>3. \A s : SceneRow(s) <=> SceneRow(s)' BY <2>1 DEF SceneRow
  <2>4. SceneRows <=> SceneRows' BY <2>1, <2>3 DEF SceneRows
  <2>5. \A w \in Actor : SceneHolds(thread[w])' BY <1>f, <2>1 DEF SceneHolds
  <2>6. SceneAlone' BY <1>f, <2>1 DEF SceneAlone
  <2>7. QED BY <2>1, <2>2, <2>4, <2>5, <2>6 DEF SceneIInv, SceneCore
<1>8. QED
  BY <1>1, <1>2, <1>3, <1>4, <1>5, <1>6, <1>7, SceneStores DEF Scenarios!Next

\* The invariant of the scenarios holds when they are looked at.
SceneInv == service = "scenarios" => SceneIInv

LEMMA SceneInvariant == Spec => []SceneInv
<1>1. Init => SceneInv BY SceneInit DEF SceneInv, Init
<1>2. SceneInv /\ [Next]_vars => SceneInv'
  <2> SUFFICES ASSUME SceneInv, [Next]_vars, service' = "scenarios" PROVE SceneIInv'
    BY DEF SceneInv
  <2>1. SceneIInv /\ [Scenarios!Next]_(Scenarios!vars)
    BY DEF SceneInv, Next, vars, Scenarios!vars
  <2>2. QED BY <2>1, SceneNext
<1>3. QED BY <1>1, <1>2, PTL DEF Spec

\* A case has one row, with what the last generation made of it
\* (create_from_graph), however its drafts came to be, whatever was deleted and
\* wherever the process ended, unless two requests have been at work at once.
THEOREM RowsAreReplaced == Spec => []RegenerationReplaces
<1>1. SceneIInv => Scenarios!RegenerationReplaces
  BY DEF SceneIInv, SceneCore, SceneRows, SceneRow, Scenarios!RegenerationReplaces
<1>2. SceneInv => RegenerationReplaces BY <1>1 DEF SceneInv, RegenerationReplaces
<1>3. QED BY SceneInvariant, <1>2, PTL

-----------------------------------------------------------------------------
(* What is safe to run.                                                   *)

\* A row, what a request still has to store, and the copy of a row that one
\* makes a version of, are safe to run.
RowSafe(s) == DOMAIN s = {"id", "result", "made", "version"} /\ SafeScene(s.result)

WorkSafe(t) ==
    /\ t.todo \in Seq(Listed(t.todo)) /\ \A r \in Listed(t.todo) : SafeScene(r)
    /\ t.step = "version" => RowSafe(t.copy)

SafeIInv == (\A s \in memory : RowSafe(s)) /\ \A w \in Actor : WorkSafe(thread[w])

\* The rows stay safe, and one request goes on.
LEMMA SafeStep ==
    ASSUME SafeIInv, SceneShape, NEW w \in Actor, NEW t, WorkSafe(t),
           thread' = [thread EXCEPT ![w] = t], \A s \in memory' : RowSafe(s)
    PROVE  SafeIInv'
<1>1. \A v \in Actor : thread'[v] = thread[v] \/ thread'[v] = t BY DEF SceneShape
<1>2. \A v \in Actor : WorkSafe(thread'[v]) BY <1>1 DEF SafeIInv
<1>3. QED BY <1>2 DEF SafeIInv

LEMMA FreeIsSafe == WorkSafe(Scenarios!Free)
<1>1. /\ Scenarios!Free.todo = <<>> /\ Scenarios!Free.step = "idle" BY DEF Scenarios!Free
<1>2. <<>> \in Seq({}) OBVIOUS
<1>3. <<>> \in Seq(Listed(<<>>)) BY <1>2, SeqOfListed
<1>4. Listed(<<>>) = {}
  <2>1. DOMAIN <<>> = {} OBVIOUS
  <2>2. QED BY <2>1 DEF Listed
<1>5. QED BY <1>1, <1>3, <1>4 DEF WorkSafe

LEMMA HeadTail ==
    ASSUME NEW S, NEW list \in Seq(S), list # <<>>
    PROVE  Head(list) \in S /\ Tail(list) \in Seq(S)
OBVIOUS

LEMMA SafeNext ==
    SceneShape /\ SafeIInv /\ [Scenarios!Next]_(Scenarios!vars) => SafeIInv'
<1> SUFFICES ASSUME SceneShape, SafeIInv, [Scenarios!Next]_(Scenarios!vars) PROVE SafeIInv'
  OBVIOUS
<1>s. /\ disk = memory
      /\ \A w \in Actor : SceneThreadOK(thread[w])
      /\ \A s \in memory : RowSafe(s)
      /\ \A w \in Actor : WorkSafe(thread[w])
  BY DEF SceneShape, SafeIInv
<1>1. CASE UNCHANGED Scenarios!vars BY <1>1 DEF Scenarios!vars, SafeIInv
<1>2. ASSUME NEW w \in Actor, NEW graph \in ProjectGraphs, Scenarios!Generate(w, graph)
      PROVE  SafeIInv'
  <2> PICK made, t :
        /\ made = Scenarios!Generated(graph.sources, graph.auth)
        /\ t = [Scenarios!Free EXCEPT !.step = "list", !.made = past.requests + 1,
                                      !.todo = made]
    OBVIOUS
  <2>1. memory' = memory /\ (thread' = thread \/ thread' = [thread EXCEPT ![w] = t])
    BY <1>2 DEF Scenarios!Generate, Scenarios!Becomes
  <2>2. t.todo = made /\ t.step = "list" BY DEF Scenarios!Free
  <2>3. WorkSafe(t)
    <3>1. OnceEach(made) /\ \A s \in Listed(made) : SafeScene(s) BY GeneratedIsSafe
    <3>2. QED BY <2>2, <3>1 DEF WorkSafe, OnceEach
  <2>4. CASE thread' = thread BY <1>s, <2>1, <2>4 DEF SafeIInv
  <2>5. CASE thread' = [thread EXCEPT ![w] = t] BY <1>s, <2>1, <2>3, <2>5, SafeStep
  <2>6. QED BY <2>1, <2>4, <2>5
<1>3. ASSUME NEW w \in Actor, Scenarios!ListsExisting(w) PROVE SafeIInv'
  <2>1. PICK found : thread' = [thread EXCEPT ![w] =
                                  [thread[w] EXCEPT !.step = "save", !.found = found]]
    BY <1>3, Zenon DEF Scenarios!ListsExisting, Scenarios!Becomes
  <2> PICK t : t = [thread[w] EXCEPT !.step = "save", !.found = found] OBVIOUS
  <2>2. memory' = memory BY <1>3 DEF Scenarios!ListsExisting
  <2>3. t.todo = thread[w].todo /\ t.step = "save" BY <1>s DEF SceneThreadOK
  <2>4. WorkSafe(t) BY <1>s, <2>3 DEF WorkSafe
  <2>5. QED BY <1>s, <2>1, <2>2, <2>4, SafeStep
<1>4. ASSUME NEW w \in Actor, Scenarios!Stores(w) PROVE SafeIInv'
  <2> PICK t, d, new : /\ t = thread[w] /\ d = Head(t.todo)
                       /\ new = IF Len(t.todo) = 1 THEN Scenarios!Free
                                ELSE [t EXCEPT !.todo = Tail(@)]
    OBVIOUS
  <2>1. PICK row : /\ DOMAIN row = {"id", "result", "made", "version"} /\ row.result = d
                   /\ memory' \subseteq memory \cup {row}
    <3> PICK found : found = {f \in t.found : f.case = d.case} OBVIOUS
    <3> PICK id : id = IF found = {} THEN past.ids + 1 ELSE (CHOOSE f \in found : TRUE).id
      OBVIOUS
    <3> PICK row : row = [id |-> id, result |-> d, made |-> t.made, version |-> 1] OBVIOUS
    <3>1. memory' = {x \in memory : x.id # id} \cup {row}
      BY <1>4 DEF Scenarios!Stores, Scenarios!Saves
    <3>2. memory' \subseteq memory \cup {row} BY <3>1
    <3>3. DOMAIN row = {"id", "result", "made", "version"} /\ row.result = d OBVIOUS
    <3>4. QED BY <3>2, <3>3
  <2>2. /\ t.step = "save" /\ t.todo # <<>> /\ thread' = [thread EXCEPT ![w] = new]
    BY <1>4 DEF Scenarios!Stores, Scenarios!Becomes, Scenarios!At
  <2> PICK list, S : list = t.todo /\ S = Listed(list) OBVIOUS
  <2>3. list \in Seq(S) /\ \A r \in S : SafeScene(r) BY <1>s DEF WorkSafe
  <2>4. d \in S /\ Tail(list) \in Seq(S)
    <3>1. list # <<>> /\ d = Head(list) BY <2>2
    <3>2. Head(list) \in S /\ Tail(list) \in Seq(S) BY <2>3, <3>1, HeadTail
    <3>3. QED BY <3>1, <3>2
  <2>5. \A s \in memory' : RowSafe(s) BY <1>s, <2>1, <2>3, <2>4 DEF RowSafe
  <2>6. WorkSafe(new)
    <3>1. CASE Len(t.todo) = 1 BY <3>1, FreeIsSafe
    <3>2. CASE Len(t.todo) # 1
      <4> PICK rest : rest = Tail(list) OBVIOUS
      <4>1. SceneThreadOK(t) BY <1>s
      <4>2. new.todo = rest /\ new.step = "save" BY <2>2, <3>2, <4>1 DEF SceneThreadOK
      <4>3. rest \in Seq(Listed(rest)) BY <2>4, SeqOfListed
      <4>4. \A r \in Listed(rest) : r \in S BY <2>4 DEF Listed
      <4>5. QED BY <2>3, <4>2, <4>3, <4>4 DEF WorkSafe
    <3>3. QED BY <3>1, <3>2
  <2>7. QED BY <2>2, <2>5, <2>6, SafeStep
<1>5. ASSUME NEW w \in Actor, Scenarios!VersionReads(w) PROVE SafeIInv'
  <2>1. PICK s \in memory :
          thread' = [thread EXCEPT ![w] = [Scenarios!Free EXCEPT !.step = "version",
                                                                 !.copy = s]]
    BY <1>5 DEF Scenarios!VersionReads, Scenarios!Becomes
  <2> PICK t : t = [Scenarios!Free EXCEPT !.step = "version", !.copy = s] OBVIOUS
  <2>2. t.copy = s /\ t.todo = Scenarios!Free.todo BY DEF Scenarios!Free
  <2>3. memory' = memory BY <1>5 DEF Scenarios!VersionReads
  <2>4. WorkSafe(t) BY <1>s, <2>2, FreeIsSafe DEF WorkSafe
  <2>5. QED BY <1>s, <2>1, <2>3, <2>4, SafeStep
<1>6. ASSUME NEW w \in Actor, Scenarios!VersionSaves(w) PROVE SafeIInv'
  <2> PICK copy, row : copy = thread[w].copy /\ row = [copy EXCEPT !.version = @ + 1]
    OBVIOUS
  <2>1. /\ thread[w].step = "version" /\ thread' = [thread EXCEPT ![w] = Scenarios!Free]
        /\ memory' = {x \in memory : x.id # row.id} \cup {row}
    BY <1>6 DEF Scenarios!VersionSaves, Scenarios!Saves, Scenarios!Becomes, Scenarios!At
  <2>2. RowSafe(copy) BY <1>s, <2>1 DEF WorkSafe
  <2>3. DOMAIN row = DOMAIN copy /\ row.result = copy.result BY <2>2 DEF RowSafe
  <2>4. RowSafe(row) BY <2>2, <2>3 DEF RowSafe
  <2>5. \A s \in memory' : RowSafe(s) BY <1>s, <2>1, <2>4
  <2>6. QED BY <2>1, <2>5, FreeIsSafe, SafeStep
<1>7. ASSUME NEW w \in Actor, Scenarios!Delete(w) PROVE SafeIInv'
  <2>1. memory' \subseteq memory /\ thread' = thread BY <1>7 DEF Scenarios!Delete
  <2>2. QED BY <1>s, <2>1 DEF SafeIInv
<1>8. ASSUME Scenarios!Restart PROVE SafeIInv'
  <2>1. memory' = memory /\ thread' = [w \in Actor |-> Scenarios!Free]
    BY <1>s, <1>8 DEF Scenarios!Restart
  <2>2. \A w \in Actor : WorkSafe(thread'[w]) BY <2>1, FreeIsSafe
  <2>3. QED BY <1>s, <2>1, <2>2 DEF SafeIInv
<1>9. QED
  BY <1>1, <1>2, <1>3, <1>4, <1>5, <1>6, <1>7, <1>8 DEF Scenarios!Next

SafeInv == service = "scenarios" => SafeIInv

\* Whatever the graphs have of a form, its route and the login
\* (create_from_graph, apply_session_precondition), a stored scenario is safe to
\* run: what is only to be refused submits nothing, nothing is submitted twice to
\* one path, a form is submitted after its inputs, and when nothing is said to be
\* missing the session is checked before and every criterion is observed.
THEOREM RowsAreSafe == Spec => []RowsAreSafeToRun
<1>1. Init => SafeInv
  <2>1. Scenarios!Init => SafeIInv
    <3> SUFFICES ASSUME Scenarios!Init PROVE SafeIInv OBVIOUS
    <3>1. memory = {} /\ \A w \in Actor : thread[w] = Scenarios!Free
      BY DEF Scenarios!Init
    <3>2. QED BY <3>1, FreeIsSafe DEF SafeIInv
  <2>2. QED BY <2>1 DEF SafeInv, Init
<1>2. SceneInv /\ SafeInv /\ [Next]_vars => SafeInv'
  <2> SUFFICES ASSUME SceneInv, SafeInv, [Next]_vars, service' = "scenarios"
               PROVE  SafeIInv'
    BY DEF SafeInv
  <2>1. SceneShape /\ SafeIInv /\ [Scenarios!Next]_(Scenarios!vars)
    BY DEF SceneInv, SceneIInv, SafeInv, Next, vars, Scenarios!vars
  <2>2. QED BY <2>1, SafeNext
<1>3. SafeInv => RowsAreSafeToRun
  <2>1. SafeIInv => Scenarios!RowsAreSafeToRun
    <3> SUFFICES ASSUME SafeIInv, NEW row \in memory PROVE SafeScene(row.result)
      BY DEF Scenarios!RowsAreSafeToRun, SafeScene
    <3>1. QED BY DEF SafeIInv, RowSafe
  <2>2. QED BY <2>1 DEF SafeInv, RowsAreSafeToRun
<1>4. QED BY <1>1, <1>2, <1>3, SceneInvariant, PTL DEF Spec

-----------------------------------------------------------------------------
(* The inputs of a scenario.                                               *)

\* The profiles' module counts as everybody does.
LEMMA InputsCount ==
    ASSUME NEW S PROVE Inputs!Cardinality(S) = Cardinality(S)
BY DEF Inputs!Cardinality, Cardinality

InputSteps ==
    {"idle", "contract", "recommend", "save", "create", "approve", "cases", "run"}
InputFields ==
    {"id", "status", "version", "rec", "of", "policy", "cases", "pinned", "typed"}

InputThreadOK(t) ==
    /\ DOMAIN t = {"step", "scenario", "rec", "item", "policy", "over", "then"}
    /\ t.step \in InputSteps
    /\ t.then \in {"idle", "save", "create"}

\* Fields, and the steps of the requests.
InputShape ==
    /\ disk = memory
    /\ DOMAIN memory = {"scenario", "profiles", "run", "contract", "recs"}
    /\ DOMAIN past = {"requests", "restarts", "alone", "ids", "approvals"}
    /\ past.alone \in BOOLEAN
    /\ thread = [w \in Actor |-> thread[w]]
    /\ \A w \in Actor : InputThreadOK(thread[w])

\* No two requests are at work.
InputAlone ==
    \A v, w \in Actor : thread[v].step # "idle" /\ thread[w].step # "idle" => v = w

\* Profiles are numbered as they are made, and tell how often they were approved.
Numbered ==
    /\ IsFiniteSet(memory.profiles)
    /\ past.approvals \in Seq(Nat)
    /\ Len(past.approvals) = Cardinality(memory.profiles)
    /\ \A p \in memory.profiles : p.id \in 1..Len(past.approvals)
    /\ \A p, q \in memory.profiles : p.id = q.id => p = q

Told(p) ==
    /\ DOMAIN p = InputFields
    /\ p.status = IF past.approvals[p.id] = 0 THEN "DRAFT" ELSE "APPROVED"
    /\ p.version = IF past.approvals[p.id] = 0 THEN 1 ELSE past.approvals[p.id]

\* What a request has read of a profile is what there is.
InputFresh ==
    \A w \in Actor : thread[w].step \in {"approve", "cases"} =>
        thread[w].item \in memory.profiles

InputCore ==
    /\ InputAlone /\ Numbered /\ InputFresh
    /\ \A p \in memory.profiles : Told(p)

InputIInv == InputShape /\ (past.alone => InputCore)

LEMMA InputInit == Inputs!Init => InputIInv
<1> SUFFICES ASSUME Inputs!Init PROVE InputIInv OBVIOUS
<1> USE DEF Inputs!Init
<1>1. InputShape
  BY DEF InputShape, InputThreadOK, InputSteps, Inputs!Free
<1>2. memory.profiles = {} /\ past.approvals = <<>> OBVIOUS
<1>3. Numbered BY <1>2, FS_EmptySet DEF Numbered
<1>4. InputCore BY <1>2, <1>3 DEF InputCore, InputAlone, InputFresh, Inputs!Free
<1>5. QED BY <1>1, <1>4 DEF InputIInv

\* A step of one request, which begins when all are idle, or goes on.
InputMoves(w, t) ==
    /\ InputThreadOK(t)
    /\ thread' = [thread EXCEPT ![w] = t]
    /\ disk' = memory' /\ DOMAIN memory' = DOMAIN memory
    /\ DOMAIN past' = DOMAIN past /\ past'.alone \in BOOLEAN
    /\ past'.alone => past.alone
    /\ past'.alone /\ thread[w].step = "idle" =>
         \A v \in Actor : thread[v].step = "idle"

LEMMA InputStepKeeps ==
    ASSUME InputIInv, NEW w \in Actor, NEW t, InputMoves(w, t)
    PROVE  InputShape' /\ (past'.alone => InputAlone')
<1>1. InputShape' BY DEF InputIInv, InputShape, InputMoves, InputThreadOK
<1>2. ASSUME past'.alone PROVE InputAlone'
  BY <1>2 DEF InputIInv, InputCore, InputShape, InputMoves, InputThreadOK, InputAlone
<1>3. QED BY <1>1, <1>2

\* A step that leaves the profiles alone.
LEMMA InputQuietly ==
    ASSUME InputIInv, NEW w \in Actor, NEW t, InputMoves(w, t),
           memory'.profiles = memory.profiles, past'.approvals = past.approvals,
           t.step \in {"approve", "cases"} => t.item \in memory.profiles
    PROVE  InputIInv'
<1>1. InputShape' /\ (past'.alone => InputAlone') BY InputStepKeeps
<1>2. ASSUME past'.alone PROVE InputCore'
  <2>1. past.alone /\ InputCore BY <1>2 DEF InputIInv, InputMoves
  <2>2. Numbered' BY <2>1 DEF InputCore, Numbered
  <2>3. InputFresh' BY <2>1 DEF InputCore, InputFresh, InputMoves, InputIInv, InputShape
  <2>4. \A p \in memory'.profiles : Told(p)' BY <2>1 DEF InputCore, Told
  <2>5. QED BY <1>1, <1>2, <2>2, <2>3, <2>4 DEF InputCore
<1>3. QED BY <1>1, <1>2 DEF InputIInv

\* A profile that is added has the next number.
LEMMA InputAdds ==
    ASSUME InputIInv, NEW w \in Actor, NEW t, InputMoves(w, t), NEW p,
           memory'.profiles = memory.profiles \cup {p},
           past'.approvals = Append(past.approvals, 0),
           p.id = Cardinality(memory.profiles) + 1, DOMAIN p = InputFields,
           p.status = "DRAFT", p.version = 1,
           t.step \notin {"approve", "cases"}
    PROVE  InputIInv'
<1>1. InputShape' /\ (past'.alone => InputAlone') BY InputStepKeeps
<1>2. ASSUME past'.alone PROVE InputCore'
  <2>1. past.alone /\ InputCore BY <1>2 DEF InputIInv, InputMoves
  <2>2. p \notin memory.profiles BY <2>1 DEF InputCore, Numbered
  <2>3. /\ IsFiniteSet(memory'.profiles)
        /\ Cardinality(memory'.profiles) = Cardinality(memory.profiles) + 1
    <3> PICK all : all = memory.profiles OBVIOUS
    <3>1. IsFiniteSet(all) /\ p \notin all BY <2>1, <2>2 DEF InputCore, Numbered
    <3>2. IsFiniteSet(all \cup {p}) /\ Cardinality(all \cup {p}) = Cardinality(all) + 1
      BY <3>1, FS_AddElement
    <3>3. QED BY <3>2
  <2>4. /\ past'.approvals \in Seq(Nat) /\ Len(past'.approvals) = Len(past.approvals) + 1
        /\ \A i \in 1..Len(past.approvals) : past'.approvals[i] = past.approvals[i]
        /\ past'.approvals[p.id] = 0
    BY <2>1 DEF InputCore, Numbered
  <2>5. Numbered' BY <2>1, <2>3, <2>4 DEF InputCore, Numbered
  <2>6. InputFresh' BY <2>1 DEF InputCore, InputFresh, InputMoves, InputIInv, InputShape
  <2>7. \A q \in memory'.profiles : Told(q)'
    <3>1. Told(p)' BY <2>4 DEF Told
    <3>2. ASSUME NEW q \in memory.profiles PROVE Told(q)'
      <4>1. Told(q) /\ q.id \in 1..Len(past.approvals) BY <2>1 DEF InputCore, Numbered
      <4>2. past'.approvals[q.id] = past.approvals[q.id] BY <2>4, <4>1
      <4>3. QED BY <4>1, <4>2 DEF Told
    <3>3. QED BY <3>1, <3>2
  <2>8. QED BY <1>1, <1>2, <2>5, <2>6, <2>7 DEF InputCore
<1>3. QED BY <1>1, <1>2 DEF InputIInv

\* A profile is replaced by one that is approved, or that says the same of it.
InputSwaps(item, p) ==
    /\ p.id = item.id /\ DOMAIN p = DOMAIN item
    /\ memory'.profiles = {q \in memory.profiles : q.id # item.id} \cup {p}
    /\ \/ /\ past'.approvals = past.approvals
          /\ p.status = item.status /\ p.version = item.version
       \/ /\ past'.approvals = [past.approvals EXCEPT ![p.id] = @ + 1]
          /\ p.status = "APPROVED"
          /\ p.version = IF item.status = "APPROVED" THEN item.version + 1
                         ELSE item.version

\* A list of counts after one of them has been counted up, or none.
Counted(all, n, new) == new = all \/ new = [all EXCEPT ![n] = @ + 1]

LEMMA CountsMore ==
    ASSUME NEW all \in Seq(Nat), NEW n \in 1..Len(all), NEW new, Counted(all, n, new)
    PROVE  /\ new \in Seq(Nat) /\ Len(new) = Len(all)
           /\ \A i \in 1..Len(all) : i # n => new[i] = all[i]
<1>1. CASE new = all BY <1>1
<1>2. CASE new = [all EXCEPT ![n] = @ + 1] BY <1>2
<1>3. QED BY <1>1, <1>2 DEF Counted

LEMMA InputReplaces ==
    ASSUME InputIInv, NEW w \in Actor, NEW t, InputMoves(w, t), NEW p,
           NEW item, item = thread[w].item,
           thread[w].step \in {"approve", "cases"}, t.step = "idle", InputSwaps(item, p)
    PROVE  InputIInv'
<1> USE DEF InputSwaps
<1>1. InputShape' /\ (past'.alone => InputAlone') BY InputStepKeeps
<1>2. ASSUME past'.alone PROVE InputCore'
  <2>1. past.alone /\ InputCore BY <1>2 DEF InputIInv, InputMoves
  <2>2. item \in memory.profiles BY <2>1 DEF InputCore, InputFresh
  <2>3. memory'.profiles = (memory.profiles \ {item}) \cup {p}
    BY <2>1, <2>2 DEF InputCore, Numbered
  <2>4. p \notin memory.profiles \ {item} BY <2>1, <2>2 DEF InputCore, Numbered
  <2>5. /\ IsFiniteSet(memory.profiles \ {item})
        /\ Cardinality(memory.profiles \ {item}) = Cardinality(memory.profiles) - 1
    BY <2>1, <2>2, FS_RemoveElement DEF InputCore, Numbered
  <2>6. /\ IsFiniteSet(memory'.profiles)
        /\ Cardinality(memory'.profiles) = Cardinality(memory.profiles \ {item}) + 1
    <3> PICK rest : rest = memory.profiles \ {item} OBVIOUS
    <3>1. IsFiniteSet(rest) /\ p \notin rest BY <2>4, <2>5
    <3>2. IsFiniteSet(rest \cup {p}) /\ Cardinality(rest \cup {p}) = Cardinality(rest) + 1
      BY <3>1, FS_AddElement
    <3>3. QED BY <2>3, <3>2
  <2>7. item.id \in 1..Len(past.approvals) /\ past.approvals \in Seq(Nat)
    BY <2>1, <2>2 DEF InputCore, Numbered
  <2>8. /\ past'.approvals \in Seq(Nat) /\ Len(past'.approvals) = Len(past.approvals)
        /\ \A i \in 1..Len(past.approvals) : i # p.id =>
             past'.approvals[i] = past.approvals[i]
    <3>1. past.approvals \in Seq(Nat) /\ p.id \in 1..Len(past.approvals) BY <2>7
    <3>2. Counted(past.approvals, p.id, past'.approvals) BY DEF Counted
    <3> HIDE DEF InputSwaps
    <3>3. QED BY <3>1, <3>2, CountsMore
  <2>9. Len(past'.approvals) = Cardinality(memory'.profiles)
    BY <2>1, <2>5, <2>6, <2>8, FS_CardinalityType DEF InputCore, Numbered
  <2>15. \A q \in memory'.profiles : q.id \in 1..Len(past'.approvals)
    BY <2>1, <2>3, <2>7, <2>8 DEF InputCore, Numbered
  <2>10. Numbered' BY <2>15, <2>1, <2>2, <2>6, <2>7, <2>8, <2>9 DEF InputCore, Numbered
  <2>11. InputFresh'
    BY <1>1, <1>2, <2>1 DEF InputCore, InputFresh, InputAlone, InputMoves, InputIInv, InputShape
  <2>12. Told(p)'
    <3>1. Told(item) BY <2>1, <2>2 DEF InputCore
    <3>2. past.approvals[item.id] \in Nat BY <2>7
    <3>3. CASE /\ past'.approvals = past.approvals
               /\ p.status = item.status /\ p.version = item.version
      BY <3>1, <3>3 DEF Told
    <3>4. CASE /\ past'.approvals = [past.approvals EXCEPT ![p.id] = @ + 1]
               /\ p.status = "APPROVED"
               /\ p.version = IF item.status = "APPROVED" THEN item.version + 1
                              ELSE item.version
      <4>1. past'.approvals[p.id] = past.approvals[item.id] + 1 BY <2>7, <3>4
      <4>2. QED BY <3>1, <3>2, <3>4, <4>1 DEF Told
    <3>5. QED BY <3>3, <3>4
  <2>13. \A q \in memory'.profiles : Told(q)'
    <3>1. ASSUME NEW q \in memory.profiles, q # item PROVE Told(q)'
      <4>1. Told(q) /\ q.id \in 1..Len(past.approvals) /\ q.id # p.id
        BY <2>1, <2>2, <3>1 DEF InputCore, Numbered
      <4>2. past'.approvals[q.id] = past.approvals[q.id] BY <2>8, <4>1
      <4>3. QED BY <4>1, <4>2 DEF Told
    <3>2. QED BY <2>3, <2>12, <3>1
  <2>14. QED BY <1>1, <1>2, <2>10, <2>11, <2>13 DEF InputCore
<1>3. QED BY <1>1, <1>2 DEF InputIInv

LEMMA InputNext == InputIInv /\ [Inputs!Next]_(Inputs!vars) => InputIInv'
<1> SUFFICES ASSUME InputIInv, [Inputs!Next]_(Inputs!vars) PROVE InputIInv' OBVIOUS
<1>s. /\ disk = memory
      /\ DOMAIN memory = {"scenario", "profiles", "run", "contract", "recs"}
      /\ DOMAIN past = {"requests", "restarts", "alone", "ids", "approvals"}
      /\ past.alone \in BOOLEAN
      /\ \A w \in Actor : InputThreadOK(thread[w])
      /\ \A w \in Actor : thread = [thread EXCEPT ![w] = thread[w]]
  BY DEF InputIInv, InputShape, InputThreadOK
<1>f. InputThreadOK(Inputs!Free) /\ Inputs!Free.step = "idle"
  BY DEF Inputs!Free, InputThreadOK, InputSteps
<1>r. ASSUME NEW w \in Actor, Inputs!Request(w)
      PROVE  /\ past'.approvals = past.approvals /\ thread[w].step = "idle"
             /\ DOMAIN past' = DOMAIN past /\ past'.alone \in BOOLEAN
             /\ past'.alone => past.alone /\ \A v \in Actor : thread[v].step = "idle"
  BY <1>s, <1>r DEF Inputs!Request, Inputs!At
<1>1. CASE UNCHANGED Inputs!vars
  <2>1. Numbered <=> Numbered' BY <1>1 DEF Inputs!vars, Numbered
  <2>2. \A p : Told(p) <=> Told(p)' BY <1>1 DEF Inputs!vars, Told
  <2>3. QED
    BY <1>1, <2>1, <2>2
    DEF Inputs!vars, InputIInv, InputShape, InputCore, InputAlone, InputFresh
<1>2. ASSUME NEW w \in Actor, Inputs!Regenerate(w) PROVE InputIInv'
  <2>1. InputMoves(w, thread[w]) /\ memory'.profiles = memory.profiles
    BY <1>s, <1>r, <1>2 DEF Inputs!Regenerate, Inputs!Saves, InputMoves
  <2>2. QED BY <1>r, <1>2, <2>1, InputQuietly DEF Inputs!Regenerate
<1>3. ASSUME NEW w \in Actor, NEW policy \in Policies, NEW then \in {"idle", "save"},
             Inputs!Recommend(w, policy, then)
      PROVE  InputIInv'
  <2> PICK t : t = [Inputs!Free EXCEPT !.step = "contract", !.scenario = memory.scenario,
                                       !.policy = policy, !.then = then]
    OBVIOUS
  <2>1. InputThreadOK(t) /\ t.step = "contract" BY DEF Inputs!Free, InputThreadOK, InputSteps
  <2>2. InputMoves(w, t) /\ memory'.profiles = memory.profiles
    BY <1>s, <1>r, <1>3, <2>1 DEF Inputs!Recommend, Inputs!Becomes, InputMoves
  <2>3. QED BY <1>r, <1>3, <2>1, <2>2, InputQuietly DEF Inputs!Recommend
<1>4. ASSUME NEW w \in Actor, Inputs!Contracts(w) PROVE InputIInv'
  <2> PICK t : /\ t \in {[thread[w] EXCEPT !.step = "recommend"], Inputs!Free}
               /\ thread' = [thread EXCEPT ![w] = t]
    BY <1>4 DEF Inputs!Contracts, Inputs!Becomes
  <2>1. InputThreadOK(t) /\ t.step \in {"recommend", "idle"}
    BY <1>s, <1>f DEF InputThreadOK, InputSteps
  <2>2. InputMoves(w, t) /\ memory'.profiles = memory.profiles
    BY <1>s, <1>4, <2>1 DEF Inputs!Contracts, Inputs!Saves, Inputs!At, InputMoves
  <2>3. QED BY <1>4, <2>1, <2>2, InputQuietly DEF Inputs!Contracts
<1>5. ASSUME NEW w \in Actor, Inputs!Recommends(w) PROVE InputIInv'
  <2> PICK rec : /\ rec = Inputs!Recommendation(thread[w].scenario, past.ids + 1)
    OBVIOUS
  <2> PICK t : t = IF thread[w].then = "idle" THEN Inputs!Free
                   ELSE [thread[w] EXCEPT !.step = thread[w].then, !.rec = rec,
                                          !.scenario = Inputs!NoCopy]
    OBVIOUS
  <2>1. InputThreadOK(t) /\ t.step \notin {"approve", "cases"}
    BY <1>s, <1>f DEF InputThreadOK, InputSteps
  <2>2. /\ InputMoves(w, t) /\ memory'.profiles = memory.profiles
        /\ past'.approvals = past.approvals
    BY <1>s, <1>5, <2>1
    DEF Inputs!Recommends, Inputs!Saves, Inputs!At, Inputs!Becomes, InputMoves
  <2>3. QED BY <2>1, <2>2, InputQuietly
<1>6. ASSUME NEW w \in Actor, Inputs!At(w, "save") \/ Inputs!At(w, "create"), NEW p,
             p.id = Cardinality(memory.profiles) + 1, DOMAIN p = InputFields,
             p.status = "DRAFT", p.version = 1,
             Inputs!Saves([memory EXCEPT !.profiles = @ \cup {p}]),
             past' = [past EXCEPT !.approvals = Append(@, 0)],
             Inputs!Becomes(w, Inputs!Free)
      PROVE  InputIInv'
  <2>1. /\ InputMoves(w, Inputs!Free) /\ memory'.profiles = memory.profiles \cup {p}
        /\ past'.approvals = Append(past.approvals, 0)
    BY <1>s, <1>f, <1>6 DEF Inputs!Saves, Inputs!At, Inputs!Becomes, InputMoves
  <2>2. QED BY <1>f, <1>6, <2>1, InputAdds
<1>7. ASSUME NEW w \in Actor, Inputs!SavesProfile(w) PROVE InputIInv'
  <2> PICK all : all = memory.profiles OBVIOUS
  <2>1. Inputs!Cardinality(all) = Cardinality(all) BY InputsCount
  <2>2. PICK p, rec, cases, policy :
          /\ \/ p = Inputs!Profile(Inputs!Cardinality(all) + 1, rec, cases, policy)
             \/ p = [Inputs!Profile(Inputs!Cardinality(all) + 1, rec, cases, policy)
                       EXCEPT !.pinned = FALSE]
          /\ Inputs!Saves([memory EXCEPT !.profiles = @ \cup {p}])
    BY <1>7, Zenon DEF Inputs!SavesProfile
  <2>3. /\ p.id = Cardinality(all) + 1 /\ DOMAIN p = InputFields
        /\ p.status = "DRAFT" /\ p.version = 1
    BY <2>1, <2>2 DEF Inputs!Profile, InputFields
  <2>4. QED BY <1>6, <1>7, <2>2, <2>3 DEF Inputs!SavesProfile
<1>8. ASSUME NEW w \in Actor, Inputs!CreateSaves(w) PROVE InputIInv'
  <2> PICK all : all = memory.profiles OBVIOUS
  <2>1. Inputs!Cardinality(all) = Cardinality(all) BY InputsCount
  <2>2. PICK p, rec, cases, policy, typed :
          /\ p = [Inputs!Profile(Inputs!Cardinality(all) + 1, rec, cases, policy)
                    EXCEPT !.typed = typed]
          /\ Inputs!Saves([memory EXCEPT !.profiles = @ \cup {p}])
    BY <1>8, Zenon DEF Inputs!CreateSaves
  <2>3. /\ p.id = Cardinality(all) + 1 /\ DOMAIN p = InputFields
        /\ p.status = "DRAFT" /\ p.version = 1
    BY <2>1, <2>2 DEF Inputs!Profile, InputFields
  <2>4. QED BY <1>6, <1>8, <2>2, <2>3 DEF Inputs!CreateSaves
<1>9. ASSUME NEW w \in Actor, NEW policy \in Policies, NEW over \in Overrides,
             Inputs!CreateProfile(w, policy, over)
      PROVE  InputIInv'
  <2>1. PICK t : /\ InputThreadOK(t) /\ t.step \in {"create", "contract"}
                 /\ thread' = [thread EXCEPT ![w] = t]
    BY <1>f, <1>9
    DEF Inputs!CreateProfile, Inputs!Becomes, Inputs!Free, InputThreadOK, InputSteps
  <2>2. InputMoves(w, t) /\ memory'.profiles = memory.profiles
    BY <1>s, <1>r, <1>9, <2>1 DEF Inputs!CreateProfile, InputMoves
  <2>3. QED BY <1>r, <1>9, <2>1, <2>2, InputQuietly DEF Inputs!CreateProfile
<1>10. ASSUME NEW w \in Actor, NEW step \in {"approve", "run"}, Inputs!Reads(w, step)
       PROVE  InputIInv'
  <2>1. PICK item \in memory.profiles :
          thread' = [thread EXCEPT ![w] = [Inputs!Free EXCEPT !.step = step, !.item = item]]
    BY <1>10 DEF Inputs!Reads, Inputs!Becomes
  <2> PICK t : t = [Inputs!Free EXCEPT !.step = step, !.item = item] OBVIOUS
  <2>2. InputThreadOK(t) /\ t.item = item BY DEF Inputs!Free, InputThreadOK, InputSteps
  <2>3. InputMoves(w, t) /\ memory'.profiles = memory.profiles
    BY <1>s, <1>r, <1>10, <2>1, <2>2 DEF Inputs!Reads, InputMoves
  <2>4. QED BY <1>r, <1>10, <2>2, <2>3, InputQuietly DEF Inputs!Reads
<1>11. ASSUME NEW w \in Actor, NEW policy \in Policies, Inputs!ReadsForCases(w, policy)
       PROVE  InputIInv'
  <2>1. PICK item \in memory.profiles, rec \in memory.recs :
          thread' = [thread EXCEPT ![w] = [Inputs!Free EXCEPT !.step = "cases", !.item = item,
                                             !.rec = rec, !.policy = policy]]
    BY <1>11 DEF Inputs!ReadsForCases, Inputs!Becomes
  <2> PICK t : t = [Inputs!Free EXCEPT !.step = "cases", !.item = item, !.rec = rec,
                                       !.policy = policy]
    OBVIOUS
  <2>2. InputThreadOK(t) /\ t.item = item BY DEF Inputs!Free, InputThreadOK, InputSteps
  <2>3. InputMoves(w, t) /\ memory'.profiles = memory.profiles
    BY <1>s, <1>r, <1>11, <2>1, <2>2 DEF Inputs!ReadsForCases, InputMoves
  <2>4. QED BY <1>r, <1>11, <2>2, <2>3, InputQuietly DEF Inputs!ReadsForCases
<1>12. ASSUME NEW w \in Actor, Inputs!Approves(w) PROVE InputIInv'
  <2> PICK item : item = thread[w].item OBVIOUS
  <2> PICK p : p = [item EXCEPT !.status = "APPROVED",
                                !.version = IF item.status = "APPROVED" THEN @ + 1 ELSE @]
    OBVIOUS
  <2>1. /\ memory' = [memory EXCEPT !.profiles = {q \in @ : q.id # p.id} \cup {p}]
        /\ disk' = memory'
        /\ past' = [past EXCEPT !.approvals[item.id] = @ + 1]
        /\ thread' = [thread EXCEPT ![w] = Inputs!Free] /\ thread[w].step = "approve"
    BY <1>12
    DEF Inputs!Approves, Inputs!Replaces, Inputs!Saves, Inputs!Becomes, Inputs!At
  <2>2. InputMoves(w, Inputs!Free) BY <1>s, <1>f, <2>1 DEF InputMoves
  <2>3. CASE ~past'.alone
    <3>1. InputShape' BY <2>2, InputStepKeeps
    <3>2. QED BY <2>3, <3>1 DEF InputIInv
  <2>4. CASE past'.alone
    <3>1. Told(item)
      BY <2>1, <2>2, <2>4 DEF InputIInv, InputCore, InputFresh, InputMoves
    <3>2. /\ p.id = item.id /\ DOMAIN p = DOMAIN item /\ p.status = "APPROVED"
          /\ p.version = IF item.status = "APPROVED" THEN item.version + 1 ELSE item.version
      BY <3>1 DEF Told, InputFields
    <3>3. past'.approvals = [past.approvals EXCEPT ![p.id] = @ + 1] BY <1>s, <2>1, <3>2
    <3>4. memory'.profiles = {q \in memory.profiles : q.id # item.id} \cup {p}
      BY <1>s, <2>1, <3>2
    <3>5. thread[w].step \in {"approve", "cases"} BY <2>1
    <3>6. InputSwaps(item, p) BY <3>2, <3>3, <3>4 DEF InputSwaps
    <3>7. QED BY <1>f, <2>2, <3>5, <3>6, InputReplaces
  <2>5. QED BY <2>3, <2>4
<1>13. ASSUME NEW w \in Actor, Inputs!GeneratesCases(w) PROVE InputIInv'
  <2> PICK item : item = thread[w].item OBVIOUS
  <2>1. PICK p, cases, policy, of :
          /\ p = [item EXCEPT !.cases = cases, !.policy = policy, !.of = of,
                              !.pinned = TRUE, !.typed = {}]
          /\ Inputs!Replaces(p)
    BY <1>13, Zenon DEF Inputs!GeneratesCases
  <2>2. /\ memory' = [memory EXCEPT !.profiles = {q \in @ : q.id # p.id} \cup {p}]
        /\ disk' = memory' /\ past' = past
        /\ thread' = [thread EXCEPT ![w] = Inputs!Free] /\ thread[w].step = "cases"
    BY <1>13, <2>1
    DEF Inputs!GeneratesCases, Inputs!Replaces, Inputs!Saves, Inputs!Becomes, Inputs!At
  <2>3. InputMoves(w, Inputs!Free) BY <1>s, <1>f, <2>2 DEF InputMoves
  <2>4. CASE ~past'.alone
    <3>1. InputShape' BY <2>3, InputStepKeeps
    <3>2. QED BY <2>4, <3>1 DEF InputIInv
  <2>5. CASE past'.alone
    <3>1. Told(item)
      BY <2>2, <2>3, <2>5 DEF InputIInv, InputCore, InputFresh, InputMoves
    <3>2. /\ p.id = item.id /\ DOMAIN p = DOMAIN item
          /\ p.status = item.status /\ p.version = item.version
      BY <2>1, <3>1 DEF Told, InputFields
    <3>3. memory'.profiles = {q \in memory.profiles : q.id # item.id} \cup {p}
      BY <1>s, <2>2, <3>2
    <3>4. thread[w].step \in {"approve", "cases"} /\ past'.approvals = past.approvals BY <2>2
    <3>5. InputSwaps(item, p) BY <3>2, <3>3, <3>4 DEF InputSwaps
    <3>6. QED BY <1>f, <2>3, <3>4, <3>5, InputReplaces
  <2>6. QED BY <2>4, <2>5
<1>14. ASSUME NEW w \in Actor, NEW over \in Overrides, Inputs!StartPlain(w, over)
       PROVE  InputIInv'
  <2>1. InputMoves(w, thread[w]) /\ memory'.profiles = memory.profiles
    BY <1>s, <1>r, <1>14 DEF Inputs!StartPlain, Inputs!Starts, InputMoves
  <2>2. QED BY <1>r, <1>14, <2>1, InputQuietly DEF Inputs!StartPlain
<1>15. ASSUME NEW w \in Actor, NEW over \in Overrides, Inputs!StartSeen(w, over)
       PROVE  InputIInv'
  <2>1. thread[w].step = "run" /\ thread' = [thread EXCEPT ![w] = Inputs!Free] /\ past' = past
    BY <1>15 DEF Inputs!StartSeen, Inputs!Becomes, Inputs!At
  <2>2. /\ memory'.profiles = memory.profiles /\ DOMAIN memory' = DOMAIN memory
        /\ disk' = memory'
    BY <1>s, <1>15 DEF Inputs!StartSeen, Inputs!Starts
  <2>3. InputMoves(w, Inputs!Free) BY <1>s, <1>f, <2>1, <2>2 DEF InputMoves
  <2>4. QED BY <1>f, <2>1, <2>2, <2>3, InputQuietly
<1>16. ASSUME Inputs!Restart PROVE InputIInv'
  <2>1. /\ memory' = memory /\ disk' = memory' /\ past'.approvals = past.approvals
        /\ past'.alone = past.alone /\ DOMAIN past' = DOMAIN past
        /\ thread' = [w \in Actor |-> Inputs!Free]
    BY <1>s, <1>16 DEF Inputs!Restart
  <2>2. InputShape' BY <1>s, <1>f, <2>1 DEF InputShape, InputThreadOK
  <2>3. Numbered <=> Numbered' BY <2>1 DEF Numbered
  <2>4. \A p : Told(p) <=> Told(p)' BY <2>1 DEF Told
  <2>5. InputAlone' /\ InputFresh' BY <1>f, <2>1 DEF InputAlone, InputFresh
  <2>6. QED BY <2>1, <2>2, <2>3, <2>4, <2>5 DEF InputIInv, InputCore
<1>17. QED
  BY <1>1, <1>2, <1>3, <1>4, <1>5, <1>7, <1>8, <1>9, <1>10, <1>11, <1>12, <1>13, <1>14,
     <1>15, <1>16
  DEF Inputs!Next

\* The invariant of the inputs holds when they are looked at.
InputInv == service = "inputs" => InputIInv

LEMMA InputInvariant == Spec => []InputInv
<1>1. Init => InputInv BY InputInit DEF InputInv, Init
<1>2. InputInv /\ [Next]_vars => InputInv'
  <2> SUFFICES ASSUME InputInv, [Next]_vars, service' = "inputs" PROVE InputIInv'
    BY DEF InputInv
  <2>1. InputIInv /\ [Inputs!Next]_(Inputs!vars) BY DEF InputInv, Next, vars, Inputs!vars
  <2>2. QED BY <2>1, InputNext
<1>3. QED BY <1>1, <1>2, PTL DEF Spec

\* A profile stays approved whatever cases are made for it (approve_profile,
\* generate_cases), and its version says how often that was done, unless two
\* requests have been at work at once.
THEOREM ApprovalsStay == Spec => []ApprovalStays
<1>1. InputIInv => Inputs!ApprovalStays
  BY DEF InputIInv, InputCore, Told, Inputs!ApprovalStays
<1>2. InputInv => ApprovalStays BY <1>1 DEF InputInv, ApprovalStays
<1>3. QED BY InputInvariant, <1>2, PTL

-----------------------------------------------------------------------------
(* What is entered for a scenario, and what its variant says.             *)

\* What is taken from lists, and lists one after the other, are the same here.
LEMMA InputsPicked ==
    ASSUME NEW list, NEW places
    PROVE  Inputs!Picked(list, places) = Picked(list, places)
BY DEF Inputs!Picked, Picked, Inputs!Cardinality, Cardinality

LEMMA InputsFlatten ==
    ASSUME NEW lists PROVE Inputs!FlattenSeq(lists) = Sequence!FlattenSeq(lists)
BY DEF Inputs!FlattenSeq, Sequence!FlattenSeq

\* The elements of a finite set, as a list.
LEMMA SetToSeqIs ==
    ASSUME NEW S, IsFiniteSet(S)
    PROVE  SomeList(Inputs!SetToSeq(S)) /\ Inputs!SetToSeq(S) \in Seq(S)
<1> PICK k : k = Cardinality(S) OBVIOUS
<1> PICK s : s = Inputs!SetToSeq(S) OBVIOUS
<1>1. k \in Nat /\ \E f \in [1..k -> S] : \A a, b \in DOMAIN f : f[a] = f[b] => a = b
  <2>1. k \in Nat /\ ExistsBijection(1..k, S) BY FS_CardinalityType
  <2>2. QED BY <2>1 DEF ExistsBijection, Bijection, Injection, IsInjective
<1>2. Inputs!Cardinality(S) = k BY InputsCount
<1>3. s \in [1..k -> S]
  <2>1. s = CHOOSE f \in [1..k -> S] : \A a, b \in DOMAIN f : f[a] = f[b] => a = b
    BY <1>2 DEF Inputs!SetToSeq, Inputs!IsInjective
  <2>2. QED BY <1>1, <2>1
<1>4. s \in Seq(S) BY <1>1, <1>3
<1>5. QED BY <1>4, SeqOfListed DEF SomeList

\* What is known of an input is finite.
KnownFew(x) ==
    /\ {"tests", "rows", "entries"} \subseteq DOMAIN x
    /\ IsFiniteSet(x.tests) /\ IsFiniteSet(x.rows) /\ IsFiniteSet(x.entries)

\* What the sources offer for an input is a list, and so are its candidates,
\* whatever order they are put in.
LEMMA OffersAre ==
    ASSUME NEW x, KnownFew(x), NEW pattern
    PROVE  SomeList(Inputs!Offers(x, pattern))
<1> DEFINE found == [source \in {"fixture", "existing_test"} |->
                      [value \in Inputs!Fixtures \cup x.tests |->
                        Inputs!Offer(source, value, Inputs!CategoryFor(value, pattern), FALSE)]]
           rowOf == [row \in x.rows |-> Inputs!Offer("test_data_sheet", row.value,
                           Inputs!CategoryFor(row.value, pattern), ~row.approved)]
           entryOf == [entry \in x.entries |->
                         Inputs!Offer("best_practice_catalog", entry.value, entry.category, FALSE)]
<1> PICK fixtures : fixtures = IF Inputs!AcceptsCustomer(x, pattern) THEN Inputs!Fixtures ELSE {}
  OBVIOUS
<1> PICK s1 : s1 = Inputs!SetToSeq({found["fixture"][v] : v \in fixtures}) OBVIOUS
<1> PICK s2 : s2 = Inputs!SetToSeq({found["existing_test"][v] : v \in x.tests}) OBVIOUS
<1> PICK s3 : s3 = IF x.required
         THEN <<Inputs!Offer("schema_validation", "", "missing_required", FALSE)>> ELSE <<>>
  OBVIOUS
<1> PICK s4 : s4 = IF Inputs!AcceptsCustomer(x, pattern) /\ pattern # Inputs!None
         THEN <<Inputs!Offer("schema_validation", "CUS-AB12", "invalid_format", FALSE),
                Inputs!Offer("schema_validation", "CUS-0000", "boundary", TRUE)>> ELSE <<>>
  OBVIOUS
<1> PICK s5 : s5 = Inputs!SetToSeq({rowOf[row] : row \in x.rows}) OBVIOUS
<1> PICK s6 : s6 = Inputs!SetToSeq({entryOf[entry] : entry \in x.entries}) OBVIOUS
<1>1. Inputs!Offers(x, pattern) = s1 \o s2 \o s3 \o s4 \o s5 \o s6
  <2>1. {found["fixture"][v] : v \in fixtures}
          = {Inputs!Offer("fixture", v, Inputs!CategoryFor(v, pattern), FALSE) : v \in fixtures}
    OBVIOUS
  <2>2. {found["existing_test"][v] : v \in x.tests}
          = {Inputs!Offer("existing_test", v, Inputs!CategoryFor(v, pattern), FALSE) :
               v \in x.tests}
    OBVIOUS
  <2>3. {rowOf[row] : row \in x.rows}
          = {Inputs!Offer("test_data_sheet", row.value,
                 Inputs!CategoryFor(row.value, pattern), ~row.approved) : row \in x.rows}
    OBVIOUS
  <2>4. {entryOf[entry] : entry \in x.entries}
          = {Inputs!Offer("best_practice_catalog", entry.value, entry.category, FALSE) :
               entry \in x.entries}
    OBVIOUS
  <2> HIDE DEF found, rowOf, entryOf
  <2>5. QED BY <2>1, <2>2, <2>3, <2>4 DEF Inputs!Offers
<1>2. IsFiniteSet(fixtures) /\ IsFiniteSet(x.tests) /\ IsFiniteSet(x.rows)
      /\ IsFiniteSet(x.entries)
  <2>1. IsFiniteSet({"CUS-1001"}) /\ IsFiniteSet({"CUS-2002"}) /\ IsFiniteSet({})
    BY FS_Singleton, FS_EmptySet
  <2>2. IsFiniteSet({"CUS-1001"} \cup {"CUS-2002"}) BY <2>1, FS_Union
  <2>3. Inputs!Fixtures = {"CUS-1001"} \cup {"CUS-2002"} BY DEF Inputs!Fixtures
  <2>4. IsFiniteSet(fixtures) BY <2>1, <2>2, <2>3
  <2>5. QED BY <2>4 DEF KnownFew
<1>3. SomeList(s1) /\ SomeList(s2) /\ SomeList(s5) /\ SomeList(s6)
  <2> HIDE DEF found, rowOf, entryOf
  <2>1. IsFiniteSet({found["fixture"][v] : v \in fixtures}) BY <1>2, FiniteImage
  <2>2. IsFiniteSet({found["existing_test"][v] : v \in x.tests}) BY <1>2, FiniteImage
  <2>3. IsFiniteSet({rowOf[row] : row \in x.rows}) BY <1>2, FiniteImage
  <2>4. IsFiniteSet({entryOf[entry] : entry \in x.entries}) BY <1>2, FiniteImage
  <2>5. QED BY <2>1, <2>2, <2>3, <2>4, SetToSeqIs
<1>4. SomeList(s3) /\ SomeList(s4) BY ShortLists
<1>5. SomeList(s1 \o s2 \o s3 \o s4 \o s5 \o s6)
  <2>1. SomeList(s1 \o s2) BY <1>3, ListCat
  <2>2. SomeList(s1 \o s2 \o s3) BY <1>4, <2>1, ListCat
  <2>3. SomeList(s1 \o s2 \o s3 \o s4) BY <1>4, <2>2, ListCat
  <2>4. SomeList(s1 \o s2 \o s3 \o s4 \o s5) BY <1>3, <2>3, ListCat
  <2>5. QED BY <1>3, <2>4, ListCat
<1>6. QED BY <1>1, <1>5

LEMMA OrderedIs ==
    ASSUME NEW x, KnownFew(x), NEW pattern
    PROVE  SomeList(Inputs!Ordered(x, pattern))
<1> PICK offers : offers = Inputs!Offers(x, pattern) OBVIOUS
<1>1. SomeList(offers) BY OffersAre
<1>2. ASSUME NEW all, SomeList(all), NEW list, list = Inputs!Candidates(x, all)
      PROVE  SomeList(Inputs!Sorted(list))
  <2>1. PICK old, places :
          /\ places \subseteq DOMAIN all
          /\ list = Inputs!Picked(old, places)
    BY <1>2, Zenon DEF Inputs!Candidates
  <2>2. Len(all) \in Nat /\ DOMAIN all = 1..Len(all) BY <1>2, ListsDomain
  <2>3. SomeList(list) BY <2>1, <2>2, PickedList, InputsPicked DEF TakenFrom
  <2>4. Len(list) \in Nat /\ DOMAIN list = 1..Len(list) BY <2>3, ListsDomain
  <2> PICK s : s = Inputs!Sorted(list) OBVIOUS
  <2>5. DOMAIN s = DOMAIN list /\ s = [i \in DOMAIN s |-> s[i]] BY DEF Inputs!Sorted
  <2>6. QED BY <2>4, <2>5, ListIs
<1>3. PICK all : /\ all = offers \/ \E o : all = Append(offers, o)
                 /\ Inputs!Ordered(x, pattern) = Inputs!Sorted(Inputs!Candidates(x, all))
  BY DEF Inputs!Ordered
<1>4. SomeList(all)
  <2>1. ASSUME NEW o, all = Append(offers, o) PROVE SomeList(all)
    <3>1. SomeList(<<o>>) BY ShortLists
    <3>2. all = offers \o <<o>> BY <1>1, <2>1 DEF SomeList
    <3>3. QED BY <1>1, <3>1, <3>2, ListCat
  <2>2. QED BY <1>1, <1>3, <2>1
<1>5. QED BY <1>2, <1>3, <1>4

\* The declarations of a contract, each input once.
LEMMA ContractIs ==
    /\ Len(Contract) \in Nat /\ DOMAIN Contract = 1..Len(Contract)
    /\ \A i \in 1..Len(Contract) : KnownFew(Contract[i])
<1> PICK S : S = [name : STRING, kind : STRING, required : BOOLEAN, pattern : STRING,
                         tests : SUBSET STRING,
                         rows : SUBSET [value : STRING, approved : BOOLEAN],
                         entries : SUBSET [value : STRING, category : STRING],
                         choice : STRING, suggested : STRING, typed : STRING]
  OBVIOUS
<1>1. Contract \in Seq(S) BY ContractAssumption
<1>2. \A x \in S : DOMAIN x = {"name", "kind", "required", "pattern", "tests", "rows", "entries",
                               "choice", "suggested", "typed"}
  OBVIOUS
<1>3. Len(Contract) \in Nat /\ DOMAIN Contract = 1..Len(Contract)
      /\ \A i \in 1..Len(Contract) : Contract[i] \in S
  BY <1>1, SeqIs
<1>4. \A i \in 1..Len(Contract) : {"tests", "rows", "entries"} \subseteq DOMAIN Contract[i]
  BY <1>2, <1>3
<1>5. \A i \in 1..Len(Contract) : /\ IsFiniteSet(Contract[i].tests)
         /\ IsFiniteSet(Contract[i].rows) /\ IsFiniteSet(Contract[i].entries)
  <2>1. ASSUME NEW i \in DOMAIN Contract
        PROVE  /\ IsFiniteSet(Contract[i].tests)
               /\ IsFiniteSet(Contract[i].rows) /\ IsFiniteSet(Contract[i].entries)
    <3>1. IsFiniteSet(Contract[i].tests) BY ContractAssumption, Zenon
    <3>2. IsFiniteSet(Contract[i].rows) BY ContractAssumption, Zenon
    <3>3. IsFiniteSet(Contract[i].entries) BY ContractAssumption, Zenon
    <3>4. QED BY <3>1, <3>2, <3>3
  <2>2. QED BY <1>3, <2>1
<1>6. QED BY <1>3, <1>4, <1>5 DEF KnownFew

LEMMA DedupedIs ==
    ASSUME NEW d, d = Inputs!Deduped(Contract)
    PROVE  SomeList(d) /\ \A n \in 1..Len(d) : KnownFew(d[n])
<1> PICK N : N = Len(Contract) OBVIOUS
<1>1. N \in Nat /\ DOMAIN Contract = 1..N /\ \A i \in 1..N : KnownFew(Contract[i])
  BY ContractIs
<1>2. PICK merged, places :
        /\ merged = [i \in DOMAIN Contract |-> Inputs!Merged(Contract, i)]
        /\ places \subseteq DOMAIN Contract
        /\ d = Inputs!Picked(merged, places)
  BY Zenon DEF Inputs!Deduped
<1>3. \A i \in 1..N : KnownFew(Inputs!Merged(Contract, i))
  <2>1. ASSUME NEW i \in 1..N PROVE KnownFew(Inputs!Merged(Contract, i))
    <3> PICK x : x = Contract[i] OBVIOUS
    <3> PICK y : y = Inputs!Merged(Contract, i) OBVIOUS
    <3>1. PICK r, p : y = [x EXCEPT !.required = r, !.pattern = p]
      BY Zenon DEF Inputs!Merged
    <3>2. DOMAIN y = DOMAIN x BY <3>1
    <3>3. ASSUME NEW f \in {"tests", "rows", "entries"} PROVE y[f] = x[f]
      BY <1>1, <3>1, <3>3 DEF KnownFew
    <3>4. y.tests = x.tests /\ y.rows = x.rows /\ y.entries = x.entries BY <3>3
    <3>5. QED BY <1>1, <3>2, <3>4 DEF KnownFew
  <2>2. QED BY <2>1
<1>4. SomeList(d) /\ \A n \in 1..Len(d) : \E i \in places : d[n] = merged[i]
  <2>1. places \subseteq 1..N BY <1>1, <1>2
  <2>2. d = Inputs!Picked(merged, places) BY <1>2
  <2>3. N \in Nat BY <1>1
  <2>4. TakenFrom(d, merged, places) BY <2>1, <2>2, <2>3, PickedList, InputsPicked, Zenon
  <2>5. QED BY <2>4 DEF TakenFrom
<1>5. QED BY <1>1, <1>2, <1>3, <1>4

\* Lists one after another.
LEMMA FlatList ==
    ASSUME NEW n \in Nat, NEW of, of = [i \in 1..n |-> of[i]], \A i \in 1..n : SomeList(of[i])
    PROVE  SomeList(Inputs!FlattenSeq(of))
<1> PICK S : S = UNION {Listed(of[i]) : i \in 1..n} OBVIOUS
<1>1. ASSUME NEW i \in 1..n PROVE of[i] \in Seq(S)
  <2>1. ASSUME NEW one, SomeList(one), Listed(one) \subseteq S PROVE one \in Seq(S)
    <3>1. one \in Seq(Listed(one)) BY <2>1 DEF SomeList
    <3> PICK T : T = Listed(one) OBVIOUS
    <3>2. one \in Seq(T) /\ T \subseteq S BY <2>1, <3>1
    <3>3. Len(one) \in Nat /\ one \in [1..Len(one) -> T] BY <3>2
    <3>4. one \in [1..Len(one) -> S] BY <3>2, <3>3
    <3>5. QED BY <3>3, <3>4
  <2>2. QED BY <2>1
<1>2. of \in Seq(Seq(S))
  <2> PICK Q : Q = Seq(S) OBVIOUS
  <2>1. of \in [1..n -> Q] BY <1>1
  <2>2. of \in Seq(Q) BY <2>1
  <2>3. QED BY <2>2
<1>3. Inputs!FlattenSeq(of) \in Seq(S) BY <1>2, FlatIs, InputsFlatten
<1>4. QED BY <1>3, SeqOfListed DEF SomeList

\* The inputs that are recommended, and the candidates of each.
WantedInputs ==
    LET inputs == Inputs!Deduped(Contract) IN
    Inputs!Picked(inputs, {i \in DOMAIN inputs : inputs[i].kind # "login"})
CandidateLists ==
    [i \in DOMAIN WantedInputs |->
       Inputs!Ordered(WantedInputs[i], Inputs!PatternOf(WantedInputs[i], Known))]

\* What is recommended for the contract is a list.
LEMMA GenericIs ==
    /\ SomeList(Inputs!Generic.list)
    /\ DOMAIN Inputs!Generic = {"list", "defaults", "needs"}
<1> PICK inputs : inputs = Inputs!Deduped(Contract) OBVIOUS
<1> PICK places : places = {i \in DOMAIN inputs : inputs[i].kind # "login"} OBVIOUS
<1> PICK wanted : wanted = WantedInputs OBVIOUS
<1> PICK of : of = CandidateLists OBVIOUS
<1>1. SomeList(inputs) /\ \A n \in 1..Len(inputs) : KnownFew(inputs[n]) BY DedupedIs
<1>2. /\ wanted = Inputs!Picked(inputs, places)
      /\ of = [i \in DOMAIN wanted |->
                 Inputs!Ordered(wanted[i], Inputs!PatternOf(wanted[i], Known))]
      /\ Inputs!Generic.list = Inputs!FlattenSeq(of)
      /\ DOMAIN Inputs!Generic = {"list", "defaults", "needs"}
  <2>1. wanted = Inputs!Picked(inputs, places) BY DEF WantedInputs
  <2>2. of = [i \in DOMAIN wanted |->
                Inputs!Ordered(wanted[i], Inputs!PatternOf(wanted[i], Known))]
    BY DEF CandidateLists
  <2>3. PICK defaults, needs :
          Inputs!Generic = [list |-> Inputs!FlattenSeq(CandidateLists), defaults |-> defaults,
                            needs |-> needs]
    BY Zenon DEF Inputs!Generic, Inputs!Recommended, WantedInputs, CandidateLists
  <2>4. QED BY <2>1, <2>2, <2>3
<1>3. Len(inputs) \in Nat /\ DOMAIN inputs = 1..Len(inputs) BY <1>1, ListsDomain
<1>4. SomeList(wanted) /\ \A n \in 1..Len(wanted) : \E i \in places : wanted[n] = inputs[i]
  <2>1. ASSUME NEW list, SomeList(list), NEW p, p \subseteq DOMAIN list
        PROVE  TakenFrom(Inputs!Picked(list, p), list, p)
    <3>1. Len(list) \in Nat /\ DOMAIN list = 1..Len(list) BY <2>1, ListsDomain
    <3>2. QED BY <2>1, <3>1, PickedList, InputsPicked
  <2>2. TakenFrom(wanted, inputs, places) BY <1>1, <1>2, <2>1
  <2>3. QED BY <2>2 DEF TakenFrom
<1>5. Len(wanted) \in Nat /\ DOMAIN wanted = 1..Len(wanted) BY <1>4, ListsDomain
<1>6. \A n \in 1..Len(wanted) : KnownFew(wanted[n]) BY <1>1, <1>2, <1>3, <1>4
<1>7. \A n \in 1..Len(wanted) : SomeList(of[n]) BY <1>2, <1>5, <1>6, OrderedIs
<1>8. of = [i \in 1..Len(wanted) |-> of[i]] BY <1>2, <1>5
<1>9. SomeList(Inputs!FlattenSeq(of)) BY <1>5, <1>7, <1>8, FlatList
<1>10. QED BY <1>2, <1>9

\* The pins of a variant: of distinct fields, none of them the customer's number.
PinsOK(pins) ==
    /\ SomeList(pins)
    /\ \A i, j \in DOMAIN pins : pins[i].field = pins[j].field => i = j
    /\ \A i \in DOMAIN pins : pins[i].field # "customerId"

LEMMA BodiesArePinned == ASSUME NEW body \in Bodies PROVE PinsOK(body.pins)
<1> PICK pins, S : pins = body.pins /\ S = [field : STRING, value : STRING] OBVIOUS
<1>1. pins \in Seq(S) BY BodiesAssumption
<1>2. SomeList(pins) BY <1>1, SeqOfListed DEF SomeList
<1>3. \A i, j \in DOMAIN pins : pins[i].field = pins[j].field => i = j
  BY BodiesAssumption, Zenon
<1>4. \A i \in DOMAIN pins : pins[i].field # "customerId" BY BodiesAssumption, Zenon
<1>5. QED BY <1>2, <1>3, <1>4 DEF PinsOK

\* Inputs that say of a pinned field what the variant says.
AgreeWith(inputs, pins) ==
    \A i \in DOMAIN pins :
        pins[i].field \in DOMAIN inputs => inputs[pins[i].field] = pins[i].value

\* Nothing agrees with every variant, and so does what the variant says.
LEMMA NothingAgrees == ASSUME NEW pins PROVE AgreeWith(Inputs!NoInputs, pins)
BY DEF AgreeWith, Inputs!NoInputs

LEMMA ValuesAgree == ASSUME NEW pins, PinsOK(pins) PROVE AgreeWith(Inputs!Values(pins), pins)
<1> PICK v : v = Inputs!Values(pins) OBVIOUS
<1> PICK valued : valued = {i \in DOMAIN pins : pins[i].value # Inputs!None} OBVIOUS
<1>1. v = [name \in {pins[i].field : i \in valued} |->
             pins[CHOOSE i \in valued : pins[i].field = name].value]
  BY DEF Inputs!Values
<1>2. ASSUME NEW i \in DOMAIN pins, pins[i].field \in DOMAIN v
      PROVE  v[pins[i].field] = pins[i].value
  <2>1. PICK k \in valued : pins[k].field = pins[i].field BY <1>1, <1>2
  <2>2. PICK c : c = CHOOSE k2 \in valued : pins[k2].field = pins[i].field OBVIOUS
  <2>3. c \in valued /\ pins[c].field = pins[i].field BY <2>1, <2>2
  <2>4. c = i BY <2>3 DEF PinsOK
  <2>5. v[pins[i].field] = pins[c].value BY <1>1, <1>2, <2>2
  <2>6. QED BY <2>4, <2>5
<1>3. QED BY <1>2 DEF AgreeWith

\* What is entered instead agrees when both do.
LEMMA EnteredAgree ==
    ASSUME NEW pins, NEW a, AgreeWith(a, pins), NEW b, AgreeWith(b, pins)
    PROVE  AgreeWith(Inputs!Entered(a, b), pins)
<1> PICK e : e = Inputs!Entered(a, b) OBVIOUS
<1>1. DOMAIN e = DOMAIN a \cup DOMAIN b
      /\ \A name \in DOMAIN e : e[name] = IF name \in DOMAIN b THEN b[name] ELSE a[name]
  BY DEF Inputs!Entered
<1>2. QED BY <1>1 DEF AgreeWith

\* Inputs that do so but for some fields.
AgreeBut(inputs, pins, typed) ==
    \A i \in DOMAIN pins :
        pins[i].field \in DOMAIN inputs \ typed => inputs[pins[i].field] = pins[i].value

\* What agrees does so but for any fields; what agrees but for some does so but
\* for more; and of some fields nothing is said.
LEMMA AgreeMore ==
    ASSUME NEW inputs, NEW pins, NEW typed
    PROVE  /\ AgreeWith(inputs, pins) => AgreeBut(inputs, pins, typed)
           /\ AgreeBut(inputs, pins, {}) => AgreeWith(inputs, pins)
           /\ \A more : typed \subseteq more /\ AgreeBut(inputs, pins, typed) =>
                 AgreeBut(inputs, pins, more)
           /\ DOMAIN inputs \subseteq typed => AgreeBut(inputs, pins, typed)
BY DEF AgreeWith, AgreeBut

LEMMA EnteredBut ==
    ASSUME NEW pins, NEW typed, NEW a, AgreeBut(a, pins, typed), NEW b, AgreeBut(b, pins, typed)
    PROVE  AgreeBut(Inputs!Entered(a, b), pins, typed)
<1> PICK e : e = Inputs!Entered(a, b) OBVIOUS
<1>1. DOMAIN e = DOMAIN a \cup DOMAIN b
      /\ \A name \in DOMAIN e : e[name] = IF name \in DOMAIN b THEN b[name] ELSE a[name]
  BY DEF Inputs!Entered
<1>2. QED BY <1>1 DEF AgreeBut

\* Some inputs that say nothing of the pinned fields.
LEMMA OthersAgree ==
    ASSUME NEW pins, NEW a, \A i \in DOMAIN pins : pins[i].field \notin DOMAIN a
    PROVE  AgreeWith(a, pins)
BY DEF AgreeWith

\* A candidate for a pinned field is its pin.
OfPins(c, pins) ==
    \A i \in DOMAIN pins : c.field = pins[i].field =>
        c.value = pins[i].value /\ c.omit = (pins[i].value = Inputs!None)

\* A recommendation after it was pinned.
PinnedTo(rec, pins) ==
    /\ SomeList(rec.list) /\ \A c \in Listed(rec.list) : OfPins(c, pins)
    /\ AgreeWith(rec.defaults, pins)

LEMMA PickedOfPins ==
    ASSUME NEW s, NEW list, NEW places, TakenFrom(s, list, places), NEW pins,
           \A i \in places : OfPins(list[i], pins)
    PROVE  \A c \in Listed(s) : OfPins(c, pins)
BY ListedPicked

\* _scope_to_scenario pins what is recommended to the variant.
LEMMA ScopedIs ==
    ASSUME NEW body \in Bodies PROVE PinnedTo(Inputs!Scoped(Inputs!Generic, body), body.pins)
<1> PICK pins : pins = body.pins OBVIOUS
<1> PICK g : g = Inputs!Generic OBVIOUS
<1> PICK fields : fields = {pins[i].field : i \in DOMAIN pins} OBVIOUS
<1> PICK own : own = [i \in DOMAIN pins |->
                        Inputs!Pinned(pins[Len(pins) + 1 - i], body.category)]
  OBVIOUS
<1> PICK places : places = {i \in DOMAIN g.list : g.list[i].field \notin fields} OBVIOUS
<1> PICK others : others = Inputs!Picked(g.list, places) OBVIOUS
<1> PICK unpinned : unpinned = [name \in DOMAIN g.defaults \ fields |-> g.defaults[name]] OBVIOUS
<1> PICK s : s = Inputs!Scoped(g, body) OBVIOUS
<1>1. PinsOK(pins) /\ Len(pins) \in Nat /\ DOMAIN pins = 1..Len(pins)
  BY BodiesArePinned, ListsDomain DEF PinsOK
<1>2. /\ SomeList(g.list) /\ DOMAIN g = {"list", "defaults", "needs"}
      /\ Len(g.list) \in Nat /\ DOMAIN g.list = 1..Len(g.list)
  BY GenericIs, ListsDomain
<1>3. s = [g EXCEPT !.list = own \o others,
                    !.defaults = Inputs!Entered(unpinned, Inputs!Values(pins))]
  BY Zenon DEF Inputs!Scoped
<1>4. s.list = own \o others /\ s.defaults = Inputs!Entered(unpinned, Inputs!Values(pins))
  BY <1>2, <1>3
<1>5. SomeList(own) /\ Len(own) = Len(pins)
  <2>1. DOMAIN own = 1..Len(pins) /\ own = [i \in DOMAIN own |-> own[i]] BY <1>1
  <2>2. QED BY <1>1, <2>1, ListIs
<1>6. \A c \in Listed(own) : OfPins(c, pins)
  <2>1. ASSUME NEW n \in 1..Len(pins)
        PROVE  OfPins(Inputs!Pinned(pins[Len(pins) + 1 - n], body.category), pins)
    <3> PICK k : k = Len(pins) + 1 - n OBVIOUS
    <3>1. k \in DOMAIN pins BY <1>1
    <3>3. \A i \in DOMAIN pins : pins[k].field = pins[i].field => i = k
      BY <1>1, <3>1 DEF PinsOK
    <3>4. QED BY <3>3 DEF OfPins, Inputs!Pinned
  <2>2. \A c \in Listed(own) : \E n \in 1..Len(pins) :
           c = Inputs!Pinned(pins[Len(pins) + 1 - n], body.category)
    BY <1>1 DEF Listed
  <2>3. QED BY <2>1, <2>2
<1>7. TakenFrom(others, g.list, places) BY <1>2, PickedList, InputsPicked
<1>8. \A c \in Listed(others) : OfPins(c, pins)
  <2>1. \A i \in places : OfPins(g.list[i], pins) BY DEF OfPins
  <2>2. QED BY <1>7, <2>1, PickedOfPins
<1>9. SomeList(others) BY <1>7 DEF TakenFrom
<1>10. SomeList(s.list) /\ \A c \in Listed(s.list) : OfPins(c, pins)
  <2>1. SomeList(own \o others)
        /\ Listed(own \o others) \subseteq Listed(own) \cup Listed(others)
    BY <1>5, <1>9, ListedCat
  <2>2. QED BY <1>4, <1>6, <1>8, <2>1
<1>11. AgreeWith(s.defaults, pins)
  <2>1. AgreeWith(unpinned, pins)
    <3>1. \A i \in DOMAIN pins : pins[i].field \in fields OBVIOUS
    <3>2. DOMAIN unpinned = DOMAIN g.defaults \ fields OBVIOUS
    <3>3. QED BY <3>1, <3>2, OthersAgree
  <2>2. AgreeWith(Inputs!Values(pins), pins) BY <1>1, ValuesAgree
  <2>3. QED BY <1>4, <2>1, <2>2, EnteredAgree
<1>12. QED BY <1>10, <1>11 DEF PinnedTo

\* Cases that enter for pinned fields what the variant says, but for what a user
\* has typed, in the case that is made of it.
CasesAgree(cases, pins, typed) ==
    /\ SomeList(cases)
    /\ \A i \in DOMAIN cases :
         AgreeBut(cases[i].inputs, pins,
                  IF cases[i].category = "user_override" THEN typed ELSE {})

\* generate_profile_cases: what is pinned makes cases that agree.
LEMMA CaseAgrees ==
    ASSUME NEW pins, NEW rec, PinnedTo(rec, pins), NEW c, OfPins(c, pins), NEW policy
    PROVE  AgreeWith(Inputs!CaseOf(c, rec, policy).inputs, pins)
<1> PICK own : own = IF c.omit THEN Inputs!NoInputs ELSE [name \in {c.field} |-> c.value]
  OBVIOUS
<1>1. AgreeWith(own, pins)
  <2>1. CASE c.omit BY <2>1, NothingAgrees
  <2>2. CASE ~c.omit BY <2>2 DEF AgreeWith, OfPins
  <2>3. QED BY <2>1, <2>2
<1>2. Inputs!CaseOf(c, rec, policy).inputs \in {own, rec.defaults}
  BY DEF Inputs!CaseOf
<1>3. QED BY <1>1, <1>2 DEF PinnedTo

\* The cases of the best candidates.
ManyCases(rec, policy) ==
    LET chosen == Inputs!Picked(Inputs!CategoryOrder,
                    {n \in DOMAIN Inputs!CategoryOrder :
                       Inputs!Best(rec.list, Inputs!CategoryOrder[n], policy) # {}})
        size == IF Len(chosen) < policy.budget THEN Len(chosen) ELSE policy.budget
    IN [n \in 1..size |->
          Inputs!CaseOf(CHOOSE c \in Inputs!Best(rec.list, chosen[n], policy) : TRUE, rec, policy)]

LEMMA CasesAre ==
    ASSUME NEW pins, NEW rec, PinnedTo(rec, pins), NEW policy \in Policies,
           NEW cases, cases = Inputs!Cases(rec, policy)
    PROVE  CasesAgree(cases, pins, {})
<1>1. CASE rec.list = <<>> /\ ~rec.needs
  <2>1. cases = <<[category |-> Inputs!Happy, review |-> FALSE, inputs |-> Inputs!NoInputs]>>
    BY <1>1 DEF Inputs!Cases
  <2>2. DOMAIN cases = {1} /\ cases[1].inputs = Inputs!NoInputs BY <2>1
  <2>3. SomeList(cases) BY <2>1, ShortLists
  <2>4. QED BY <2>2, <2>3, NothingAgrees, AgreeMore DEF CasesAgree
<1>2. CASE ~(rec.list = <<>> /\ ~rec.needs)
  <2> PICK places : places = {n \in DOMAIN Inputs!CategoryOrder :
                                Inputs!Best(rec.list, Inputs!CategoryOrder[n], policy) # {}}
    OBVIOUS
  <2> PICK chosen : chosen = Inputs!Picked(Inputs!CategoryOrder, places) OBVIOUS
  <2> PICK size : size = IF Len(chosen) < policy.budget THEN Len(chosen) ELSE policy.budget
    OBVIOUS
  <2>1. cases = [n \in 1..size |->
                  Inputs!CaseOf(CHOOSE c \in Inputs!Best(rec.list, chosen[n], policy) : TRUE,
                                rec, policy)]
    <3>1. cases = ManyCases(rec, policy) BY <1>2, Zenon DEF Inputs!Cases, ManyCases
    <3>2. QED BY <3>1 DEF ManyCases
  <2>2. TakenFrom(chosen, Inputs!CategoryOrder, places)
    <3>1. DOMAIN Inputs!CategoryOrder = 1..6 BY DEF Inputs!CategoryOrder
    <3>2. QED BY <2>1, <3>1, PickedList, InputsPicked
  <2>3. policy.budget \in Nat BY PoliciesAssumption
  <2>4. Len(chosen) \in Nat BY <2>2, ListsDomain DEF TakenFrom
  <2>5. size \in Nat /\ size <= Len(chosen) BY <2>1, <2>3, <2>4
  <2>6. SomeList(cases) /\ DOMAIN cases = 1..size
    <3>1. DOMAIN cases = 1..size /\ cases = [n \in DOMAIN cases |-> cases[n]] BY <2>1
    <3>2. QED BY <2>5, <3>1, ListIs
  <2>7. ASSUME NEW n \in 1..size PROVE AgreeWith(cases[n].inputs, pins)
    <3> PICK fit : fit = Inputs!Best(rec.list, chosen[n], policy) OBVIOUS
    <3> PICK c : c = CHOOSE x \in fit : TRUE OBVIOUS
    <3>1. fit # {}
      <4>1. n \in 1..Len(chosen) BY <2>4, <2>5
      <4>2. PICK i \in places : chosen[n] = Inputs!CategoryOrder[i]
        BY <2>2, <4>1 DEF TakenFrom
      <4>3. QED BY <2>1, <4>2
    <3>2. c \in fit BY <3>1
    <3>3. fit \subseteq Listed(rec.list) BY DEF Inputs!Best, Listed
    <3>5. OfPins(c, pins) BY <3>2, <3>3 DEF PinnedTo
    <3>6. cases[n] = Inputs!CaseOf(c, rec, policy) BY <2>1
    <3>7. QED BY <3>5, <3>6, CaseAgrees
  <2>8. QED BY <2>6, <2>7, AgreeMore DEF CasesAgree
<1>3. QED BY <1>1, <1>2

\* The case that a user enters agrees but for what was typed, and it changes none
\* of the others.
LEMMA OverriddenAgree ==
    ASSUME NEW pins, NEW cases, CasesAgree(cases, pins, {}), NEW over
    PROVE  /\ CasesAgree(cases, pins, DOMAIN over)
           /\ CasesAgree(Inputs!Overridden(cases, over), pins, DOMAIN over)
<1> PICK first : first = IF cases = <<>> THEN Inputs!NoInputs ELSE Head(cases).inputs
  OBVIOUS
<1> PICK one : one = [category |-> "user_override", review |-> TRUE,
                      inputs |-> Inputs!Entered(first, over)]
  OBVIOUS
<1> PICK all : all = Inputs!Overridden(cases, over) OBVIOUS
<1>1. all = <<one>> \o cases BY DEF Inputs!Overridden
<1>2. PICK U : U = {one} \cup Listed(cases) OBVIOUS
<1>3. cases \in Seq(U) BY <1>2 DEF CasesAgree, SomeList
<1>4. one \in U BY <1>2
<1>5. Len(all) = Len(cases) + 1 /\ DOMAIN all = 1..Len(all) /\ all[1] = one
      /\ \A n \in 2..Len(all) : all[n] = cases[n - 1] /\ n - 1 \in 1..Len(cases)
  BY <1>1, <1>3, <1>4
<1>6. all \in Seq(U) BY <1>1, <1>3, <1>4
<1>7. SomeList(all) BY <1>6, SeqOfListed DEF SomeList
<1>8. ASSUME NEW n \in DOMAIN cases, NEW typed PROVE AgreeBut(cases[n].inputs, pins, typed)
  <2>1. AgreeBut(cases[n].inputs, pins, {}) BY DEF CasesAgree
  <2>2. QED BY <2>1, AgreeMore
<1>9. AgreeBut(first, pins, DOMAIN over)
  <2>1. CASE cases = <<>> BY <2>1, NothingAgrees, AgreeMore
  <2>2. CASE cases # <<>>
    <3>1. 1 \in DOMAIN cases /\ Head(cases) = cases[1] BY <1>3, <2>2
    <3>2. first = cases[1].inputs BY <2>2, <3>1
    <3>3. QED BY <1>8, <3>1, <3>2
  <2>3. QED BY <2>1, <2>2
<1>10. AgreeBut(one.inputs, pins, DOMAIN over)
  <2>1. AgreeBut(over, pins, DOMAIN over) BY AgreeMore
  <2>2. AgreeBut(Inputs!Entered(first, over), pins, DOMAIN over) BY <1>9, <2>1, EnteredBut
  <2>3. QED BY <2>2
<1>11. ASSUME NEW n \in DOMAIN all
       PROVE  AgreeBut(all[n].inputs, pins,
                       IF all[n].category = "user_override" THEN DOMAIN over ELSE {})
  <2>1. CASE n = 1
    <3>1. all[n] = one /\ one.category = "user_override" BY <1>5, <2>1
    <3>2. QED BY <1>10, <3>1
  <2>2. CASE n # 1
    <3>1. n \in 2..Len(all) BY <1>3, <1>5, <2>2
    <3>2. all[n] = cases[n - 1] /\ n - 1 \in DOMAIN cases BY <1>3, <1>5, <3>1
    <3>3. QED BY <1>8, <3>2
  <2>3. QED BY <2>1, <2>2
<1>12. CasesAgree(cases, pins, DOMAIN over) BY <1>8 DEF CasesAgree
<1>13. CasesAgree(all, pins, DOMAIN over) BY <1>7, <1>11 DEF CasesAgree
<1>14. QED BY <1>12, <1>13

LEMMA InputsFirst ==
    ASSUME NEW S, S \subseteq Nat, S # {} PROVE Inputs!First(S) \in S
<1>1. Inputs!First(S) = First(S) BY DEF Inputs!First, First
<1>2. QED BY <1>1, FirstIs

\* _resolve_inputs takes the first that there is.
LEMMA FirstOfAgrees ==
    ASSUME NEW choices, SomeList(choices), NEW pins, NEW typed,
           \A x \in Listed(choices) : AgreeBut(x, pins, typed)
    PROVE  AgreeBut(Inputs!FirstOf(choices), pins, typed)
<1> PICK given : given = {i \in DOMAIN choices : choices[i] # Inputs!NoInputs} OBVIOUS
<1>1. CASE given = {} BY <1>1, NothingAgrees, AgreeMore DEF Inputs!FirstOf
<1>2. CASE given # {}
  <2>1. DOMAIN choices = 1..Len(choices) BY ListsDomain
  <2>2. given \subseteq Nat BY <2>1
  <2> PICK i : i = Inputs!First(given) OBVIOUS
  <2>3. i \in DOMAIN choices BY <1>2, <2>2, InputsFirst
  <2>4. Inputs!FirstOf(choices) = choices[i] BY <1>2 DEF Inputs!FirstOf
  <2>5. QED BY <2>3, <2>4 DEF Listed
<1>3. QED BY <1>1, <1>2

\* What a run enters for a profile's first case.
FirstInputs(p) == IF p.cases = <<>> THEN Inputs!NoInputs ELSE Head(p.cases).inputs

LEMMA ResolvedAgree ==
    ASSUME NEW body \in Bodies, body = memory.scenario.body,
           NEW profiles, IsFiniteSet(profiles), IsFiniteSet(memory.recs),
           NEW over, NEW typed, DOMAIN over \subseteq typed,
           \A p \in profiles : AgreeBut(FirstInputs(p), body.pins, typed),
           \A r \in Inputs!Newest(memory.recs) : AgreeWith(r.body.defaults, body.pins)
    PROVE  AgreeBut(Inputs!Resolved(profiles, over), body.pins, typed)
<1> PICK pins : pins = body.pins OBVIOUS
<1> PICK newest : newest = Inputs!Newest(memory.recs) OBVIOUS
<1> PICK of : of = [p \in profiles |-> FirstInputs(p)] OBVIOUS
<1> PICK default : default = [r \in newest |-> r.body.defaults] OBVIOUS
<1>1. IsFiniteSet(newest)
  <2>1. newest \subseteq memory.recs BY DEF Inputs!Newest
  <2>2. QED BY <2>1, FS_Subset
<1>2. IsFiniteSet({of[p] : p \in profiles}) /\ IsFiniteSet({default[r] : r \in newest})
  BY <1>1, FiniteImage
<1> PICK firsts : firsts = Inputs!SetToSeq({of[p] : p \in profiles}) OBVIOUS
<1> PICK defaults : defaults = Inputs!SetToSeq({default[r] : r \in newest}) OBVIOUS
<1>3. SomeList(firsts) /\ Listed(firsts) \subseteq {of[p] : p \in profiles}
  BY <1>2, SetToSeqIs, ListedOf
<1>4. SomeList(defaults) /\ Listed(defaults) \subseteq {default[r] : r \in newest}
  BY <1>2, SetToSeqIs, ListedOf
<1> PICK last : last = <<Inputs!Values(pins)>> OBVIOUS
<1>5. SomeList(last) /\ Listed(last) = {Inputs!Values(pins)}
  <2>1. SomeList(last) BY ShortLists
  <2>2. DOMAIN last = {1} /\ last[1] = Inputs!Values(pins) OBVIOUS
  <2>3. QED BY <2>1, <2>2 DEF Listed
<1> PICK choices : choices = firsts \o defaults \o last OBVIOUS
<1>6. SomeList(choices)
      /\ Listed(choices) \subseteq Listed(firsts) \cup Listed(defaults) \cup Listed(last)
  <2>1. SomeList(firsts \o defaults)
        /\ Listed(firsts \o defaults) \subseteq Listed(firsts) \cup Listed(defaults)
    BY <1>3, <1>4, ListedCat
  <2>2. SomeList(firsts \o defaults \o last)
        /\ Listed(firsts \o defaults \o last) \subseteq Listed(firsts \o defaults) \cup Listed(last)
    BY <1>5, <2>1, ListedCat
  <2>3. QED BY <2>1, <2>2
<1>7. \A x \in Listed(choices) : AgreeBut(x, pins, typed)
  <2>1. \A p \in profiles : AgreeBut(of[p], pins, typed) OBVIOUS
  <2>2. \A r \in newest : AgreeBut(default[r], pins, typed) BY AgreeMore
  <2>3. AgreeBut(Inputs!Values(pins), pins, typed) BY BodiesArePinned, ValuesAgree, AgreeMore
  <2>4. \A x \in Listed(firsts) : AgreeBut(x, pins, typed)
    <3>1. \A x \in {of[p] : p \in profiles} : AgreeBut(x, pins, typed) BY <2>1
    <3>2. QED BY <1>3, <3>1
  <2>5. \A x \in Listed(defaults) : AgreeBut(x, pins, typed)
    <3>1. \A x \in {default[r] : r \in newest} : AgreeBut(x, pins, typed) BY <2>2
    <3>2. QED BY <1>4, <3>1
  <2>6. \A x \in Listed(last) : AgreeBut(x, pins, typed) BY <1>5, <2>3
  <2>7. QED BY <1>6, <2>4, <2>5, <2>6
<1>8. AgreeBut(Inputs!FirstOf(choices), pins, typed) BY <1>6, <1>7, FirstOfAgrees
<1> PICK inputs : inputs = Inputs!Entered(Inputs!FirstOf(choices), over) OBVIOUS
<1>9. AgreeBut(inputs, pins, typed)
  <2>1. AgreeBut(over, pins, typed) BY AgreeMore
  <2>2. QED BY <1>8, <2>1, EnteredBut
<1>10. AgreeBut(Inputs!Entered(inputs, [customerId |-> "CUS-1001"]), pins, typed)
  <2> PICK customer : customer = [customerId |-> "CUS-1001"] OBVIOUS
  <2>1. DOMAIN customer = {"customerId"} OBVIOUS
  <2>2. \A i \in DOMAIN pins : pins[i].field # "customerId" BY BodiesArePinned DEF PinsOK
  <2>3. AgreeBut(customer, pins, typed) BY <2>1, <2>2, OthersAgree, AgreeMore
  <2>4. QED BY <1>9, <2>3, EnteredBut
<1>11. Inputs!Resolved(profiles, over)
         \in {inputs, Inputs!Entered(inputs, [customerId |-> "CUS-1001"])}
  <2>1. {of[p] : p \in profiles}
          = {IF p.cases = <<>> THEN Inputs!NoInputs ELSE Head(p.cases).inputs : p \in profiles}
    BY DEF FirstInputs
  <2>2. {default[r] : r \in newest} = {r.body.defaults : r \in Inputs!Newest(memory.recs)}
    OBVIOUS
  <2>3. inputs = Inputs!Entered(Inputs!FirstOf(
           Inputs!SetToSeq({IF p.cases = <<>> THEN Inputs!NoInputs ELSE Head(p.cases).inputs :
                              p \in profiles})
           \o Inputs!SetToSeq({r.body.defaults : r \in Inputs!Newest(memory.recs)})
           \o <<Inputs!Values(memory.scenario.body.pins)>>), over)
    BY <2>1, <2>2
  <2>4. QED BY <2>3, Zenon DEF Inputs!Resolved
<1>12. QED BY <1>9, <1>10, <1>11

\* The pins of the scenario as it is.
PinnedNow == memory.scenario.body.pins

\* What is made for the scenario as it is says what its variant says; and
\* nothing is made for a scenario that is still to be generated.
RecOK(r) ==
    /\ r.of \in 0..past.requests
    /\ r.of = memory.scenario.made => PinnedTo(r.body, PinnedNow)

ItemOK(p) ==
    /\ DOMAIN p = InputFields
    /\ p.of \in 0..past.requests
    /\ p.of = memory.scenario.made /\ p.pinned => CasesAgree(p.cases, PinnedNow, p.typed)

RunOK(run) ==
    run # Inputs!NoCopy =>
        /\ run.of \in 0..past.requests \cup {Bound.inputs + 1}
        /\ run.of = memory.scenario.made /\ run.pinned =>
             AgreeBut(run.inputs, PinnedNow, run.typed)

\* A copy of the scenario is older, or says the same.
CopyOK(s) ==
    /\ s.body \in Bodies
    /\ s.made \in 0..past.requests
    /\ s.made = memory.scenario.made => s.body = memory.scenario.body

HeldOK(t) ==
    /\ t.step \in {"contract", "recommend"} => CopyOK(t.scenario)
    /\ t.step \in {"contract", "recommend", "save", "create", "cases"} => t.policy \in Policies
    /\ t.step \in {"save", "create", "cases"} => RecOK(t.rec)
    /\ t.step \in {"approve", "cases", "run"} => ItemOK(t.item)

\* Whatever there is, and whatever a request holds, is pinned or out of date.
PinIInv ==
    /\ past.requests \in 0..Bound.inputs
    /\ memory.scenario.body \in Bodies /\ memory.scenario.made \in 0..past.requests
    /\ IsFiniteSet(memory.recs) /\ IsFiniteSet(memory.profiles)
    /\ \A r \in memory.recs : RecOK(r)
    /\ \A p \in memory.profiles : ItemOK(p)
    /\ RunOK(memory.run)
    /\ \A w \in Actor : HeldOK(thread[w])

LEMMA InputsBound == Bound.inputs \in Nat
BY BoundAssumption

\* The scenario stays, or is generated again by a request that nothing has been
\* made for.
Onwards ==
    /\ past'.requests \in past.requests..Bound.inputs
    /\ \/ memory'.scenario = memory.scenario
       \/ /\ memory'.scenario.body \in Bodies
          /\ memory'.scenario.made = past.requests + 1 /\ past'.requests = past.requests + 1

\* What was right stays right, or was made for an older scenario.
LEMMA PinsLast ==
    ASSUME PinIInv, Onwards
    PROVE  /\ past'.requests \in 0..Bound.inputs
           /\ memory'.scenario.body \in Bodies /\ memory'.scenario.made \in 0..past'.requests
           /\ \A r : RecOK(r) => RecOK(r)'
           /\ \A p : ItemOK(p) => ItemOK(p)'
           /\ \A run : RunOK(run) => RunOK(run)'
           /\ \A s : CopyOK(s) => CopyOK(s)'
           /\ \A t : HeldOK(t) => HeldOK(t)'
<1> USE InputsBound
<1>1. /\ past'.requests \in 0..Bound.inputs /\ past.requests \in 0..Bound.inputs
      /\ past.requests <= past'.requests
      /\ memory'.scenario.body \in Bodies /\ memory'.scenario.made \in 0..past'.requests
  BY DEF PinIInv, Onwards
<1>2. \/ memory'.scenario = memory.scenario
      \/ memory'.scenario.made = past.requests + 1 /\ past.requests + 1 <= Bound.inputs
  BY DEF PinIInv, Onwards
<1>3. \A r : RecOK(r) => RecOK(r)' BY <1>1, <1>2 DEF RecOK, PinnedNow
<1>4. \A p : ItemOK(p) => ItemOK(p)' BY <1>1, <1>2 DEF ItemOK, PinnedNow
<1>5. \A run : RunOK(run) => RunOK(run)' BY <1>1, <1>2 DEF RunOK, PinnedNow
<1>6. \A s : CopyOK(s) => CopyOK(s)' BY <1>1, <1>2 DEF CopyOK
<1>7. \A t : HeldOK(t) => HeldOK(t)' BY <1>3, <1>4, <1>6 DEF HeldOK
<1>8. QED BY <1>1, <1>3, <1>4, <1>5, <1>6, <1>7

\* A step of one request.
LEMMA PinStep ==
    ASSUME InputIInv, PinIInv, Onwards, NEW w \in Actor, NEW t,
           thread' = [thread EXCEPT ![w] = t], HeldOK(t)',
           IsFiniteSet(memory'.recs), \A r \in memory'.recs \ memory.recs : RecOK(r)',
           IsFiniteSet(memory'.profiles),
           \A p \in memory'.profiles \ memory.profiles : ItemOK(p)',
           memory'.run = memory.run \/ RunOK(memory.run)'
    PROVE  PinIInv'
<1>1. \A v \in Actor : thread'[v] = t \/ thread'[v] = thread[v]
  BY DEF InputIInv, InputShape
<1>2. ASSUME NEW v \in Actor PROVE HeldOK(thread[v])'
  <2> PICK held : held = thread'[v] OBVIOUS
  <2>1. held = t \/ held = thread[v] BY <1>1
  <2>2. HeldOK(held)' BY <2>1, PinsLast DEF PinIInv
  <2>3. QED BY <2>2 DEF HeldOK
<1>3. \A r \in memory'.recs : RecOK(r)' BY PinsLast DEF PinIInv
<1>4. \A p \in memory'.profiles : ItemOK(p)' BY PinsLast DEF PinIInv
<1>5. RunOK(memory.run)'
  <2>1. CASE memory'.run = memory.run
    <3> PICK run : run = memory.run OBVIOUS
    <3>1. RunOK(run)' BY PinsLast DEF PinIInv
    <3>2. QED BY <2>1, <3>1 DEF RunOK
  <2>2. QED BY <2>1
<1>6. QED BY <1>2, <1>3, <1>4, <1>5, PinsLast DEF PinIInv

\* What is recommended for a copy of the scenario is pinned to the copy.
LEMMA RecommendationIs ==
    ASSUME PinIInv, NEW s, CopyOK(s), NEW made
    PROVE  RecOK(Inputs!Recommendation(s, made))
<1> PICK r : r = Inputs!Recommendation(s, made) OBVIOUS
<1>1. r.of = s.made /\ r.body = Inputs!Scoped(Inputs!Generic, s.body)
  BY DEF Inputs!Recommendation
<1>2. PinnedTo(r.body, s.body.pins) BY <1>1, ScopedIs DEF CopyOK
<1>3. QED BY <1>1, <1>2 DEF RecOK, CopyOK, PinnedNow

LEMMA PinInit == Inputs!Init => PinIInv
<1> SUFFICES ASSUME Inputs!Init PROVE PinIInv OBVIOUS
<1>1. PICK s \in Bodies, rec \in {TRUE, FALSE} :
        memory = [scenario |-> [body |-> s, made |-> 0], profiles |-> {}, run |-> Inputs!NoCopy,
                  contract |-> IF rec THEN "ready" ELSE "none",
                  recs |-> IF rec THEN {Inputs!Recommendation([body |-> s, made |-> 0], 0)}
                           ELSE {}]
  BY DEF Inputs!Init
<1> PICK r : r = Inputs!Recommendation([body |-> s, made |-> 0], 0) OBVIOUS
<1>2. /\ memory.scenario.body = s /\ memory.scenario.made = 0 /\ memory.profiles = {}
      /\ memory.run = Inputs!NoCopy /\ memory.recs \in {{r}, {}}
  BY <1>1
<1>3. past.requests = 0 /\ \A w \in Actor : thread[w].step = "idle"
  BY DEF Inputs!Init, Inputs!Free
<1>4. RecOK(r)
  <2>1. r.of = 0 /\ r.body = Inputs!Scoped(Inputs!Generic, s) BY DEF Inputs!Recommendation
  <2>2. PinnedTo(r.body, s.pins) BY <2>1, ScopedIs
  <2>3. QED BY <1>2, <1>3, <2>1, <2>2 DEF RecOK, PinnedNow
<1>5. IsFiniteSet(memory.recs) /\ IsFiniteSet(memory.profiles)
  <2>1. IsFiniteSet({r}) /\ IsFiniteSet({}) BY FS_EmptySet, FS_Singleton
  <2>2. QED BY <1>2, <2>1
<1>6. RunOK(memory.run) BY <1>2 DEF RunOK
<1>7. \A w \in Actor : HeldOK(thread[w]) BY <1>3 DEF HeldOK
<1>8. QED BY <1>2, <1>3, <1>4, <1>5, <1>6, <1>7, InputsBound DEF PinIInv

LEMMA FinitelyMore ==
    ASSUME NEW S, IsFiniteSet(S), NEW x, NEW T, T \subseteq S \cup {x}
    PROVE  IsFiniteSet(T)
<1>1. IsFiniteSet(S \cup {x}) BY FS_AddElement
<1>2. QED BY <1>1, FS_Subset

\* A profile made of the cases of a recommendation that was pinned.
LEMMA ProfileIs ==
    ASSUME PinIInv, NEW rec, RecOK(rec), NEW p, DOMAIN p = InputFields, p.of = rec.of,
           rec.of = memory.scenario.made => CasesAgree(p.cases, PinnedNow, p.typed)
    PROVE  ItemOK(p)
BY DEF ItemOK, RecOK

\* The first case of a profile agrees but for what was typed.
LEMMA FirstAgrees ==
    ASSUME NEW p, NEW pins, CasesAgree(p.cases, pins, p.typed)
    PROVE  AgreeBut(FirstInputs(p), pins, p.typed)
<1> PICK cases, typed : cases = p.cases /\ typed = p.typed OBVIOUS
<1>1. CASE cases = <<>> BY <1>1, NothingAgrees, AgreeMore DEF FirstInputs
<1>2. CASE cases # <<>>
  <2>1. cases \in Seq(Listed(cases)) BY DEF CasesAgree, SomeList
  <2>2. 1 \in DOMAIN cases /\ Head(cases) = cases[1] BY <1>2, <2>1
  <2>3. AgreeBut(cases[1].inputs, pins,
                 IF cases[1].category = "user_override" THEN typed ELSE {})
    BY <2>2 DEF CasesAgree
  <2>4. AgreeBut(cases[1].inputs, pins, typed) BY <2>3, AgreeMore
  <2>5. FirstInputs(p) = cases[1].inputs BY <1>2, <2>2 DEF FirstInputs
  <2>6. QED BY <2>4, <2>5
<1>3. QED BY <1>1, <1>2

\* A run enters what the variant says.
LEMMA StartsPinned ==
    ASSUME InputIInv, PinIInv, NEW profiles, profiles \subseteq memory.profiles, NEW over,
           Inputs!Starts(profiles, over), past'.requests \in past.requests..Bound.inputs
    PROVE  /\ memory' = [memory EXCEPT !.run = memory'.run]
           /\ RunOK(memory.run)'
<1> USE InputsBound
<1> PICK made : made = memory.scenario.made OBVIOUS
<1> PICK run : run =
        [id |-> 1, inputs |-> Inputs!Resolved(profiles, over),
         typed |-> DOMAIN over \cup UNION {p.typed : p \in profiles},
         of |-> IF \A x \in profiles \cup Inputs!Newest(memory.recs) : x.of = made
                THEN made ELSE Bound.inputs + 1,
         pinned |-> \A p \in profiles : p.pinned]
  OBVIOUS
<1>1. memory' = [memory EXCEPT !.run = run] BY DEF Inputs!Starts
<1>2. DOMAIN memory = {"scenario", "profiles", "run", "contract", "recs"}
  BY DEF InputIInv, InputShape
<1>3. memory'.run = run /\ memory'.scenario = memory.scenario BY <1>1, <1>2
<1>4. made \in 0..past.requests /\ past.requests \in 0..Bound.inputs BY DEF PinIInv
<1>5. run.of \in {made, Bound.inputs + 1} OBVIOUS
<1>6. run.of \in 0..past'.requests \cup {Bound.inputs + 1} BY <1>4, <1>5
<1>7. ASSUME run.of = made, run.pinned PROVE AgreeBut(run.inputs, PinnedNow, run.typed)
  <2>1. \A x \in profiles \cup Inputs!Newest(memory.recs) : x.of = made
    BY <1>4, <1>7
  <2>2. \A p \in profiles : p.pinned BY <1>7
  <2> PICK typed : typed = run.typed OBVIOUS
  <2>3. DOMAIN over \subseteq typed /\ \A p \in profiles : p.typed \subseteq typed OBVIOUS
  <2>5. ASSUME NEW p \in profiles PROVE AgreeBut(FirstInputs(p), PinnedNow, typed)
    <3>1. CasesAgree(p.cases, PinnedNow, p.typed) BY <2>1, <2>2 DEF PinIInv, ItemOK
    <3>2. AgreeBut(FirstInputs(p), PinnedNow, p.typed) BY <3>1, FirstAgrees
    <3>3. QED BY <2>3, <3>2, AgreeMore
  <2>6. ASSUME NEW r \in Inputs!Newest(memory.recs)
        PROVE  AgreeWith(r.body.defaults, PinnedNow)
    <3>1. r \in memory.recs BY DEF Inputs!Newest
    <3>2. QED BY <2>1, <3>1 DEF PinIInv, RecOK, PinnedTo
  <2>7. IsFiniteSet(profiles) /\ IsFiniteSet(memory.recs)
    BY FS_Subset DEF PinIInv
  <2> PICK body \in Bodies : body = memory.scenario.body BY DEF PinIInv
  <2>8. AgreeBut(Inputs!Resolved(profiles, over), body.pins, typed)
    BY <2>3, <2>5, <2>6, <2>7, ResolvedAgree DEF PinnedNow
  <2>9. run.inputs = Inputs!Resolved(profiles, over) OBVIOUS
  <2>10. QED BY <2>8, <2>9 DEF PinnedNow
<1>8. RunOK(run)' BY <1>3, <1>6, <1>7 DEF RunOK, PinnedNow
<1>9. RunOK(memory.run)' BY <1>3, <1>8 DEF RunOK
<1>10. QED BY <1>1, <1>3, <1>9

LEMMA PinNext ==
    InputIInv /\ PinIInv /\ [Inputs!Next]_(Inputs!vars) => PinIInv'
<1> SUFFICES ASSUME InputIInv, PinIInv, [Inputs!Next]_(Inputs!vars) PROVE PinIInv' OBVIOUS
<1> USE InputsBound
<1>s. /\ disk = memory
      /\ DOMAIN memory = {"scenario", "profiles", "run", "contract", "recs"}
      /\ DOMAIN past = {"requests", "restarts", "alone", "ids", "approvals"}
      /\ \A w \in Actor : InputThreadOK(thread[w])
      /\ \A w \in Actor : thread = [thread EXCEPT ![w] = thread[w]]
  BY DEF InputIInv, InputShape, InputThreadOK
<1>p. /\ past.requests \in 0..Bound.inputs
      /\ memory.scenario.body \in Bodies /\ memory.scenario.made \in 0..past.requests
      /\ IsFiniteSet(memory.recs) /\ IsFiniteSet(memory.profiles)
      /\ \A r \in memory.recs : RecOK(r)
      /\ \A p \in memory.profiles : ItemOK(p)
      /\ \A w \in Actor : HeldOK(thread[w])
  BY DEF PinIInv
<1>f. HeldOK(Inputs!Free)' BY DEF Inputs!Free, HeldOK
<1>c. CopyOK(memory.scenario) BY <1>p DEF CopyOK
<1>r. ASSUME NEW w \in Actor, Inputs!Request(w)
      PROVE  past'.requests = past.requests + 1 /\ past'.requests \in past.requests..Bound.inputs
  BY <1>s, <1>p, <1>r DEF Inputs!Request
<1>m. ASSUME NEW w \in Actor, NEW t, thread' = [thread EXCEPT ![w] = t], HeldOK(t)',
             past'.requests \in past.requests..Bound.inputs, memory' = memory
      PROVE  PinIInv'
  <2>1. Onwards BY <1>m DEF Onwards
  <2>2. QED BY <1>m, <1>p, <2>1, PinStep
<1>1. CASE UNCHANGED Inputs!vars
  <2>1. \A r : RecOK(r) <=> RecOK(r)' BY <1>1 DEF Inputs!vars, RecOK, PinnedNow
  <2>2. \A p : ItemOK(p) <=> ItemOK(p)' BY <1>1 DEF Inputs!vars, ItemOK, PinnedNow
  <2>3. \A run : RunOK(run) <=> RunOK(run)' BY <1>1 DEF Inputs!vars, RunOK, PinnedNow
  <2>4. \A s : CopyOK(s) <=> CopyOK(s)' BY <1>1 DEF Inputs!vars, CopyOK
  <2>5. \A t : HeldOK(t) <=> HeldOK(t)' BY <2>1, <2>2, <2>4 DEF HeldOK
  <2>6. memory' = memory /\ thread' = thread /\ past' = past BY <1>1 DEF Inputs!vars
  <2>7. RunOK(memory.run)'
    <3> PICK run : run = memory.run OBVIOUS
    <3>1. RunOK(run)' BY <2>3 DEF PinIInv
    <3>2. QED BY <2>6, <3>1 DEF RunOK
  <2>8. ASSUME NEW w \in Actor PROVE HeldOK(thread[w])'
    <3> PICK t : t = thread[w] OBVIOUS
    <3>1. HeldOK(t)' BY <1>p, <2>5
    <3>2. QED BY <2>6, <3>1 DEF HeldOK
  <2>9. QED BY <1>p, <2>1, <2>2, <2>6, <2>7, <2>8 DEF PinIInv
<1>2. ASSUME NEW w \in Actor, Inputs!Regenerate(w) PROVE PinIInv'
  <2>1. PICK s \in Bodies :
          memory' = [memory EXCEPT !.scenario = [body |-> s, made |-> past.requests + 1]]
    BY <1>2 DEF Inputs!Regenerate, Inputs!Saves
  <2>2. /\ memory'.scenario.body = s /\ memory'.scenario.made = past.requests + 1
        /\ memory'.recs = memory.recs /\ memory'.profiles = memory.profiles
        /\ memory'.run = memory.run
    BY <1>s, <2>1
  <2>3. Inputs!Request(w) /\ thread' = thread BY <1>2 DEF Inputs!Regenerate
  <2>4. Onwards BY <1>r, <2>2, <2>3 DEF Onwards
  <2>5. HeldOK(thread[w])'
    <3> PICK t : t = thread[w] OBVIOUS
    <3>1. HeldOK(t)' BY <1>p, <2>4, PinsLast
    <3>2. QED BY <2>3, <3>1 DEF HeldOK
  <2> PICK t : t = thread[w] OBVIOUS
  <2>6. HeldOK(t)' /\ thread' = [thread EXCEPT ![w] = t]
    BY <1>s, <1>p, <2>3, <2>4, PinsLast
  <2>7. QED BY <1>p, <2>2, <2>4, <2>6, PinStep
<1>3. ASSUME NEW w \in Actor, NEW policy \in Policies, NEW then \in {"idle", "save"},
             Inputs!Recommend(w, policy, then)
      PROVE  PinIInv'
  <2> PICK t : t = [Inputs!Free EXCEPT !.step = "contract", !.scenario = memory.scenario,
                                       !.policy = policy, !.then = then]
    OBVIOUS
  <2>1. t.step = "contract" /\ t.scenario = memory.scenario /\ t.policy = policy
    BY DEF Inputs!Free
  <2>2. /\ thread' = [thread EXCEPT ![w] = t] /\ memory' = memory
        /\ past'.requests \in past.requests..Bound.inputs
    BY <1>r, <1>3 DEF Inputs!Recommend, Inputs!Becomes
  <2>3. Onwards BY <2>2 DEF Onwards
  <2>4. HeldOK(t) BY <1>c, <2>1 DEF HeldOK
  <2>5. HeldOK(t)' BY <2>3, <2>4, PinsLast
  <2>6. QED BY <1>m, <2>2, <2>5
<1>4. ASSUME NEW w \in Actor, Inputs!Contracts(w) PROVE PinIInv'
  <2> PICK t : /\ t \in {[thread[w] EXCEPT !.step = "recommend"], Inputs!Free}
               /\ thread' = [thread EXCEPT ![w] = t]
    BY <1>4 DEF Inputs!Contracts, Inputs!Becomes
  <2>1. thread[w].step = "contract" /\ past' = past
    BY <1>4 DEF Inputs!Contracts, Inputs!At
  <2>2. /\ memory'.scenario = memory.scenario
        /\ memory'.recs = memory.recs /\ memory'.profiles = memory.profiles
        /\ memory'.run = memory.run
    BY <1>s, <1>4 DEF Inputs!Contracts, Inputs!Saves
  <2>3. Onwards BY <1>p, <2>1, <2>2 DEF Onwards
  <2>4. HeldOK(t)
    <3>1. CASE t = [thread[w] EXCEPT !.step = "recommend"]
      <4>1. t.step = "recommend" /\ t.scenario = thread[w].scenario /\ t.policy = thread[w].policy
        BY <1>s, <3>1 DEF InputThreadOK
      <4>2. QED BY <1>p, <2>1, <4>1 DEF HeldOK
    <3>2. CASE t = Inputs!Free BY <3>2 DEF Inputs!Free, HeldOK
    <3>3. QED BY <3>1, <3>2
  <2>5. HeldOK(t)' BY <2>3, <2>4, PinsLast
  <2>6. QED BY <1>p, <2>2, <2>3, <2>5, PinStep
<1>5. ASSUME NEW w \in Actor, Inputs!Recommends(w) PROVE PinIInv'
  <2> PICK rec : rec = Inputs!Recommendation(thread[w].scenario, past.ids + 1) OBVIOUS
  <2> PICK t : t = IF thread[w].then = "idle" THEN Inputs!Free
                   ELSE [thread[w] EXCEPT !.step = thread[w].then, !.rec = rec,
                                          !.scenario = Inputs!NoCopy]
    OBVIOUS
  <2>1. /\ thread[w].step = "recommend"
        /\ memory' = [memory EXCEPT !.recs = {r \in @ : r.id # rec.id} \cup {rec},
                                    !.contract = "ready"]
        /\ past' = [past EXCEPT !.ids = @ + 1]
        /\ thread' = [thread EXCEPT ![w] = t]
    BY <1>5, Zenon DEF Inputs!Recommends, Inputs!Saves, Inputs!At, Inputs!Becomes
  <2>2. /\ memory'.scenario = memory.scenario
        /\ memory'.recs \subseteq memory.recs \cup {rec} /\ memory'.profiles = memory.profiles
        /\ memory'.run = memory.run /\ past'.requests = past.requests
    BY <1>s, <2>1
  <2>3. Onwards BY <1>p, <2>2 DEF Onwards
  <2>4. RecOK(rec) BY <1>p, <2>1, RecommendationIs DEF HeldOK
  <2>5. HeldOK(t)
    <3>1. CASE thread[w].then = "idle" BY <3>1 DEF Inputs!Free, HeldOK
    <3>2. CASE thread[w].then # "idle"
      <4>1. t.step \in {"save", "create"} /\ t.rec = rec /\ t.policy = thread[w].policy
        BY <1>s, <3>2 DEF InputThreadOK
      <4>2. QED BY <1>p, <2>1, <2>4, <4>1 DEF HeldOK
    <3>3. QED BY <3>1, <3>2
  <2>6. HeldOK(t)' /\ RecOK(rec)' BY <2>3, <2>4, <2>5, PinsLast
  <2>7. IsFiniteSet(memory'.recs) BY <1>p, <2>2, FinitelyMore
  <2>8. QED BY <1>p, <2>1, <2>2, <2>3, <2>6, <2>7, PinStep
<1>6. ASSUME NEW w \in Actor, NEW p, ItemOK(p), NEW kept, kept \subseteq memory.profiles,
             Inputs!Saves([memory EXCEPT !.profiles = kept \cup {p}]),
             past'.requests = past.requests, Inputs!Becomes(w, Inputs!Free)
      PROVE  PinIInv'
  <2>1. /\ memory'.scenario = memory.scenario
        /\ memory'.recs = memory.recs /\ memory'.profiles \subseteq memory.profiles \cup {p}
        /\ memory'.run = memory.run
    BY <1>s, <1>6 DEF Inputs!Saves
  <2>2. Onwards BY <1>p, <1>6, <2>1 DEF Onwards
  <2>3. ItemOK(p)' BY <1>6, <2>2, PinsLast
  <2>4. IsFiniteSet(memory'.profiles) BY <1>p, <2>1, FinitelyMore
  <2>5. thread' = [thread EXCEPT ![w] = Inputs!Free] BY <1>6 DEF Inputs!Becomes
  <2>6. QED BY <1>p, <1>f, <2>1, <2>2, <2>3, <2>4, <2>5, PinStep
<1>7. ASSUME NEW w \in Actor, Inputs!SavesProfile(w) PROVE PinIInv'
  <2> PICK t : t = thread[w] OBVIOUS
  <2>1. /\ t.step = "save" /\ past' = [past EXCEPT !.approvals = Append(@, 0)]
        /\ Inputs!Becomes(w, Inputs!Free)
    BY <1>7 DEF Inputs!SavesProfile, Inputs!At
  <2>2. RecOK(t.rec) /\ t.policy \in Policies BY <1>p, <2>1 DEF HeldOK
  <2> PICK id : id = Inputs!Cardinality(memory.profiles) + 1 OBVIOUS
  <2>3. PICK p :
          /\ \/ p = Inputs!Profile(id, t.rec, Inputs!Cases(t.rec.body, t.policy), t.policy)
             \/ p = [Inputs!Profile(id, t.rec, Inputs!Cases(Inputs!Generic, t.policy), t.policy)
                       EXCEPT !.pinned = FALSE]
          /\ Inputs!Saves([memory EXCEPT !.profiles = @ \cup {p}])
    BY <1>7, Zenon DEF Inputs!SavesProfile
  <2>4. ItemOK(p)
    <3>1. CASE p = Inputs!Profile(id, t.rec, Inputs!Cases(t.rec.body, t.policy), t.policy)
      <4>1. t.rec.of = memory.scenario.made =>
              CasesAgree(Inputs!Cases(t.rec.body, t.policy), PinnedNow, {})
        BY <2>2, CasesAre DEF RecOK
      <4>2. /\ DOMAIN p = InputFields /\ p.of = t.rec.of /\ p.typed = {}
            /\ p.cases = Inputs!Cases(t.rec.body, t.policy)
        BY <3>1 DEF Inputs!Profile, InputFields
      <4>3. QED BY <2>2, <4>1, <4>2, ProfileIs
    <3>2. CASE p = [Inputs!Profile(id, t.rec, Inputs!Cases(Inputs!Generic, t.policy), t.policy)
                      EXCEPT !.pinned = FALSE]
      <4>1. DOMAIN p = InputFields /\ p.of = t.rec.of /\ p.pinned = FALSE
        BY <3>2 DEF Inputs!Profile, InputFields
      <4>2. QED BY <2>2, <4>1 DEF ItemOK, RecOK
    <3>3. QED BY <2>3, <3>1, <3>2
  <2>5. past'.requests = past.requests BY <1>s, <2>1
  <2>6. QED BY <1>6, <2>1, <2>3, <2>4, <2>5
<1>8. ASSUME NEW w \in Actor, Inputs!CreateSaves(w) PROVE PinIInv'
  <2> PICK t : t = thread[w] OBVIOUS
  <2> PICK cases : cases = Inputs!Cases(t.rec.body, t.policy) OBVIOUS
  <2>1. /\ t.step = "create" /\ past' = [past EXCEPT !.approvals = Append(@, 0)]
        /\ Inputs!Becomes(w, Inputs!Free)
    BY <1>8 DEF Inputs!CreateSaves, Inputs!At
  <2>2. RecOK(t.rec) /\ t.policy \in Policies BY <1>p, <2>1 DEF HeldOK
  <2>3. PICK all : all = IF t.over = Inputs!NoInputs THEN cases
                         ELSE Inputs!Overridden(cases, t.over)
    OBVIOUS
  <2>4. PICK p : p = [Inputs!Profile(Inputs!Cardinality(memory.profiles) + 1, t.rec, all, t.policy)
                        EXCEPT !.typed = DOMAIN t.over]
    OBVIOUS
  <2>5. Inputs!Saves([memory EXCEPT !.profiles = @ \cup {p}])
    BY <1>8, <2>3, <2>4, Zenon DEF Inputs!CreateSaves
  <2>6. ItemOK(p)
    <3>1. ASSUME t.rec.of = memory.scenario.made
          PROVE  CasesAgree(all, PinnedNow, DOMAIN t.over)
      <4>1. CasesAgree(cases, PinnedNow, {}) BY <2>2, <3>1, CasesAre DEF RecOK
      <4>2. QED BY <2>3, <4>1, OverriddenAgree
    <3>2. /\ DOMAIN p = InputFields /\ p.of = t.rec.of /\ p.cases = all
          /\ p.typed = DOMAIN t.over
      BY <2>4 DEF Inputs!Profile, InputFields
    <3>3. QED BY <2>2, <3>1, <3>2, ProfileIs
  <2>7. past'.requests = past.requests BY <1>s, <2>1
  <2>8. QED BY <1>6, <2>1, <2>5, <2>6, <2>7
<1>9. ASSUME NEW w \in Actor, NEW policy \in Policies, NEW over \in Overrides,
             Inputs!CreateProfile(w, policy, over)
      PROVE  PinIInv'
  <2>1. Inputs!Request(w) /\ memory' = memory BY <1>9 DEF Inputs!CreateProfile
  <2>2. PICK t : /\ HeldOK(t) /\ thread' = [thread EXCEPT ![w] = t]
    <3>1. CASE \E rec \in Inputs!Newest(memory.recs) :
            Inputs!Becomes(w, [Inputs!Free EXCEPT !.step = "create", !.rec = rec,
                                    !.policy = policy, !.over = over])
      <4>1. PICK rec \in Inputs!Newest(memory.recs) :
              Inputs!Becomes(w, [Inputs!Free EXCEPT !.step = "create", !.rec = rec,
                                    !.policy = policy, !.over = over])
        BY <3>1
      <4> PICK t : t = [Inputs!Free EXCEPT !.step = "create", !.rec = rec,
                                    !.policy = policy, !.over = over]
        OBVIOUS
      <4>2. t.step = "create" /\ t.rec = rec /\ t.policy = policy BY DEF Inputs!Free
      <4>3. RecOK(rec) BY <1>p DEF Inputs!Newest
      <4>4. HeldOK(t) BY <4>2, <4>3 DEF HeldOK
      <4>5. QED BY <4>1, <4>4 DEF Inputs!Becomes
    <3>2. CASE Inputs!Becomes(w, [Inputs!Free EXCEPT !.step = "contract",
                                     !.scenario = memory.scenario, !.policy = policy,
                                     !.over = over, !.then = "create"])
      <4> PICK t : t = [Inputs!Free EXCEPT !.step = "contract",
                                     !.scenario = memory.scenario, !.policy = policy,
                                     !.over = over, !.then = "create"]
        OBVIOUS
      <4>1. t.step = "contract" /\ t.scenario = memory.scenario /\ t.policy = policy
        BY DEF Inputs!Free
      <4>2. HeldOK(t) BY <1>c, <4>1 DEF HeldOK
      <4>3. QED BY <3>2, <4>2 DEF Inputs!Becomes
    <3>3. QED BY <1>9, <3>1, <3>2, Zenon DEF Inputs!CreateProfile
  <2>3. Onwards BY <1>r, <2>1 DEF Onwards
  <2>4. HeldOK(t)' BY <2>2, <2>3, PinsLast
  <2>5. QED BY <1>m, <1>r, <2>1, <2>2, <2>4
<1>10. ASSUME NEW w \in Actor, NEW step \in {"approve", "run"}, Inputs!Reads(w, step)
       PROVE  PinIInv'
  <2>1. PICK item \in memory.profiles :
          thread' = [thread EXCEPT ![w] = [Inputs!Free EXCEPT !.step = step, !.item = item]]
    BY <1>10 DEF Inputs!Reads, Inputs!Becomes
  <2> PICK t : t = [Inputs!Free EXCEPT !.step = step, !.item = item] OBVIOUS
  <2>2. t.step = step /\ t.item = item BY DEF Inputs!Free
  <2>3. HeldOK(t) BY <1>p, <2>2 DEF HeldOK
  <2>4. Inputs!Request(w) /\ memory' = memory BY <1>10 DEF Inputs!Reads
  <2>5. Onwards BY <1>r, <2>4 DEF Onwards
  <2>6. HeldOK(t)' BY <2>3, <2>5, PinsLast
  <2>7. QED BY <1>m, <1>r, <2>1, <2>4, <2>6
<1>11. ASSUME NEW w \in Actor, NEW policy \in Policies, Inputs!ReadsForCases(w, policy)
       PROVE  PinIInv'
  <2>1. PICK item \in memory.profiles, rec \in memory.recs :
          thread' = [thread EXCEPT ![w] = [Inputs!Free EXCEPT !.step = "cases", !.item = item,
                                             !.rec = rec, !.policy = policy]]
    BY <1>11 DEF Inputs!ReadsForCases, Inputs!Becomes
  <2> PICK t : t = [Inputs!Free EXCEPT !.step = "cases", !.item = item, !.rec = rec,
                                       !.policy = policy]
    OBVIOUS
  <2>2. t.step = "cases" /\ t.item = item /\ t.rec = rec /\ t.policy = policy
    BY DEF Inputs!Free
  <2>3. HeldOK(t) BY <1>p, <2>2 DEF HeldOK
  <2>4. Inputs!Request(w) /\ memory' = memory BY <1>11 DEF Inputs!ReadsForCases
  <2>5. Onwards BY <1>r, <2>4 DEF Onwards
  <2>6. HeldOK(t)' BY <2>3, <2>5, PinsLast
  <2>7. QED BY <1>m, <1>r, <2>1, <2>4, <2>6
<1>12. ASSUME NEW w \in Actor, Inputs!Approves(w) PROVE PinIInv'
  <2> PICK item : item = thread[w].item OBVIOUS
  <2> PICK p : p = [item EXCEPT !.status = "APPROVED",
                                !.version = IF item.status = "APPROVED" THEN @ + 1 ELSE @]
    OBVIOUS
  <2>1. /\ Inputs!Saves([memory EXCEPT !.profiles = {q \in @ : q.id # p.id} \cup {p}])
        /\ past' = [past EXCEPT !.approvals[item.id] = @ + 1]
        /\ Inputs!Becomes(w, Inputs!Free) /\ thread[w].step = "approve"
    BY <1>12, Zenon DEF Inputs!Approves, Inputs!Replaces, Inputs!At
  <2>2. ItemOK(item) BY <1>p, <2>1 DEF HeldOK
  <2>3. /\ DOMAIN p = InputFields /\ p.of = item.of /\ p.pinned = item.pinned
        /\ p.cases = item.cases /\ p.typed = item.typed
    BY <2>2 DEF ItemOK, InputFields
  <2>4. ItemOK(p) BY <2>2, <2>3 DEF ItemOK
  <2> PICK kept : kept = {q \in memory.profiles : q.id # p.id} OBVIOUS
  <2>5. Inputs!Saves([memory EXCEPT !.profiles = kept \cup {p}]) BY <2>1
  <2>6. past'.requests = past.requests BY <1>s, <2>1
  <2>7. QED BY <1>6, <2>1, <2>4, <2>5, <2>6
<1>13. ASSUME NEW w \in Actor, Inputs!GeneratesCases(w) PROVE PinIInv'
  <2> PICK t : t = thread[w] OBVIOUS
  <2> PICK cases : cases = Inputs!Cases(t.rec.body, t.policy) OBVIOUS
  <2> PICK p : p = [t.item EXCEPT !.cases = cases, !.policy = t.policy,
                                  !.of = t.rec.of, !.pinned = TRUE, !.typed = {}]
    OBVIOUS
  <2>1. /\ Inputs!Saves([memory EXCEPT !.profiles = {q \in @ : q.id # p.id} \cup {p}])
        /\ past' = past /\ Inputs!Becomes(w, Inputs!Free) /\ t.step = "cases"
    BY <1>13, Zenon DEF Inputs!GeneratesCases, Inputs!Replaces, Inputs!At
  <2>2. ItemOK(t.item) /\ RecOK(t.rec) /\ t.policy \in Policies BY <1>p, <2>1 DEF HeldOK
  <2>3. /\ DOMAIN p = InputFields /\ p.of = t.rec.of /\ p.cases = cases /\ p.typed = {}
    BY <2>2 DEF ItemOK, InputFields
  <2>4. t.rec.of = memory.scenario.made => CasesAgree(cases, PinnedNow, {})
    BY <2>2, CasesAre DEF RecOK
  <2>5. ItemOK(p) BY <2>2, <2>3, <2>4 DEF ItemOK, RecOK
  <2> PICK kept : kept = {q \in memory.profiles : q.id # p.id} OBVIOUS
  <2>6. Inputs!Saves([memory EXCEPT !.profiles = kept \cup {p}]) BY <2>1
  <2>7. QED BY <1>6, <2>1, <2>5, <2>6
<1>14. ASSUME NEW w \in Actor, NEW profiles, profiles \subseteq memory.profiles, NEW over,
              Inputs!Starts(profiles, over), past'.requests \in past.requests..Bound.inputs,
              NEW t, thread' = [thread EXCEPT ![w] = t], HeldOK(t)
       PROVE  PinIInv'
  <2>1. memory' = [memory EXCEPT !.run = memory'.run] /\ RunOK(memory.run)'
    BY <1>14, StartsPinned
  <2>2. /\ memory'.scenario = memory.scenario
        /\ memory'.recs = memory.recs /\ memory'.profiles = memory.profiles
    BY <1>s, <2>1
  <2>3. Onwards BY <1>14, <2>2 DEF Onwards
  <2>4. HeldOK(t)' BY <1>14, <2>3, PinsLast
  <2>5. QED BY <1>p, <1>14, <2>1, <2>2, <2>3, <2>4, PinStep
<1>15. ASSUME NEW w \in Actor, NEW over \in Overrides, Inputs!StartPlain(w, over)
       PROVE  PinIInv'
  <2> PICK t : t = thread[w] OBVIOUS
  <2>1. Inputs!Starts({}, over) /\ Inputs!Request(w) /\ thread' = [thread EXCEPT ![w] = t]
    BY <1>s, <1>15 DEF Inputs!StartPlain
  <2>2. HeldOK(t) BY <1>p
  <2>3. QED BY <1>14, <1>r, <2>1, <2>2
<1>16. ASSUME NEW w \in Actor, NEW over \in Overrides, Inputs!StartSeen(w, over)
       PROVE  PinIInv'
  <2> PICK seen : seen = {p \in memory.profiles : /\ p.id = thread[w].item.id
                                                  /\ p.version = thread[w].item.version}
    OBVIOUS
  <2>1. /\ IF seen = {} THEN UNCHANGED <<memory, disk>> ELSE Inputs!Starts(seen, over)
        /\ thread' = [thread EXCEPT ![w] = Inputs!Free] /\ past' = past
    BY <1>16 DEF Inputs!StartSeen, Inputs!Becomes
  <2>2. past'.requests \in past.requests..Bound.inputs BY <1>p, <2>1
  <2>3. HeldOK(Inputs!Free) BY DEF Inputs!Free, HeldOK
  <2>4. CASE seen = {} BY <1>f, <1>m, <2>1, <2>2, <2>4
  <2>5. CASE seen # {} BY <1>14, <2>1, <2>2, <2>3, <2>5
  <2>6. QED BY <2>4, <2>5
<1>17. ASSUME Inputs!Restart PROVE PinIInv'
  <2>1. /\ memory' = memory /\ past'.requests = past.requests
        /\ thread' = [w \in Actor |-> Inputs!Free]
    BY <1>s, <1>17 DEF Inputs!Restart
  <2>2. Onwards BY <1>p, <2>1 DEF Onwards
  <2>3. RunOK(memory.run)'
    <3> PICK run : run = memory.run OBVIOUS
    <3>1. RunOK(run)' BY <2>2, PinsLast DEF PinIInv
    <3>2. QED BY <2>1, <3>1 DEF RunOK
  <2>4. ASSUME NEW w \in Actor PROVE HeldOK(thread[w])'
    <3>1. thread'[w].step = "idle" BY <2>1 DEF Inputs!Free
    <3>2. QED BY <3>1 DEF HeldOK
  <2>5. \A r \in memory'.recs : RecOK(r)' BY <1>p, <2>1, <2>2, PinsLast
  <2>6. \A p \in memory'.profiles : ItemOK(p)' BY <1>p, <2>1, <2>2, PinsLast
  <2>7. QED BY <1>p, <2>1, <2>2, <2>3, <2>4, <2>5, <2>6, PinsLast DEF PinIInv
<1>18. QED
  BY <1>1, <1>2, <1>3, <1>4, <1>5, <1>7, <1>8, <1>9, <1>10, <1>11, <1>12, <1>13, <1>15,
     <1>16, <1>17
  DEF Inputs!Next

\* The invariant of the pins holds when the inputs are looked at.
PinInv == service = "inputs" => PinIInv

LEMMA PinInvariant == Spec => []PinInv
<1>1. Init => PinInv BY PinInit DEF PinInv, Init
<1>2. InputInv /\ PinInv /\ [Next]_vars => PinInv'
  <2> SUFFICES ASSUME InputInv, PinInv, [Next]_vars, service' = "inputs" PROVE PinIInv'
    BY DEF PinInv
  <2>1. InputIInv /\ PinIInv /\ [Inputs!Next]_(Inputs!vars)
    BY DEF InputInv, PinInv, Next, vars, Inputs!vars
  <2>2. QED BY <2>1, PinNext
<1>3. QED BY <1>1, <1>2, InputInvariant, PTL DEF Spec

\* Nothing that is recommended for a scenario, made of the recommendation or run
\* with it says of a field that no user has typed anything else than the
\* scenario's variant (_scope_to_scenario, generate_profile_cases,
\* _resolve_inputs), for any contract, variants and policies, and any number of
\* requests and restarts.
THEOREM VariantStaysPinned == Spec => []VariantIsPinned
<1>1. PinIInv => Inputs!VariantIsPinned
  <2> SUFFICES ASSUME PinIInv PROVE Inputs!VariantIsPinned OBVIOUS
  <2>0. \A inputs, typed : Inputs!Agrees(inputs, typed) <=> AgreeBut(inputs, PinnedNow, typed)
    BY DEF Inputs!Agrees, Inputs!Pins, AgreeBut, PinnedNow
  <2>1. \A r \in memory.recs : Inputs!Current(r) => Inputs!Agrees(r.body.defaults, {})
    BY <2>0, AgreeMore DEF PinIInv, RecOK, PinnedTo, Inputs!Current
  <2>2. \A p \in memory.profiles : Inputs!Current(p) /\ p.pinned =>
         \A i \in DOMAIN p.cases :
             Inputs!Agrees(p.cases[i].inputs,
                           IF p.cases[i].category = "user_override" THEN p.typed ELSE {})
    BY <2>0 DEF PinIInv, ItemOK, CasesAgree, Inputs!Current
  <2>3. LET run == memory.run IN
        run # Inputs!NoCopy =>
          (Inputs!Current(run) /\ run.pinned => Inputs!Agrees(run.inputs, run.typed))
    BY <2>0 DEF PinIInv, RunOK, Inputs!Current
  <2>4. QED BY <2>1, <2>2, <2>3 DEF Inputs!VariantIsPinned
<1>2. PinInv => VariantIsPinned BY <1>1 DEF PinInv, VariantIsPinned
<1>3. QED BY PinInvariant, <1>2, PTL

=============================================================================
