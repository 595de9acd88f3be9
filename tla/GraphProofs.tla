----------------------------- MODULE GraphProofs -----------------------------
(***************************************************************************)
(* TLAPS proofs about the interaction graph: how it is composed of the     *)
(* analyses, whatever these hold, and how its edges are edited.            *)
(***************************************************************************)
EXTENDS Services, ListProofs

\* A step of the services is one of the service that is looked at.
LEMMA GraphSteps ==
    ASSUME [Next]_vars
    PROVE  /\ service' = service
           /\ service = "edges" => [Edges!Next]_(Edges!vars)
           /\ service = "composition" => [Composition!Next]_(Composition!vars)
BY DEF Next, vars, Edges!vars, Composition!vars

LEMMA GraphInits ==
    ASSUME Init
    PROVE  /\ service = "edges" => Edges!Init
           /\ service = "composition" => Composition!Init
BY DEF Init

-----------------------------------------------------------------------------
(* The edges of a graph.                                                   *)

EdgeFields == {"id", "to", "type"}
EdgeMap(edge) ==
    /\ DOMAIN edge = Edges!Object
    /\ \A o \in Edges!Object : DOMAIN edge[o] = EdgeFields /\ edge[o].id \in 0..past.made
EdgeList(list) == list \subseteq 0..past.made
EdgeGraph(g) ==
    /\ DOMAIN g = {"exists", "list", "edge"}
    /\ EdgeMap(g.edge) /\ EdgeList(g.list)

EdgesShape ==
    /\ EdgeGraph(memory) /\ EdgeGraph(disk)
    /\ DOMAIN thread = Actor
    /\ \A w \in Actor :
         /\ DOMAIN thread[w] = {"step", "list", "id", "edge", "alone"}
         /\ thread[w].step \in {"idle", "edit", "save"}
         /\ EdgeList(thread[w].list)
    /\ DOMAIN past = {"made", "edits", "restarts", "composed", "wanted", "raced", "refused"}
    /\ past.made \in 0..Bound.edges /\ DOMAIN past.wanted = Edges!Id

\* No list has two edges with one identifier: not the stored one, nor one that
\* a request may store.
EdgeIdsDiffer(edge, list) == \A o, p \in list : edge[o].id = edge[p].id => o = p
EdgesUnique ==
    /\ EdgeIdsDiffer(memory.edge, memory.list)
    /\ EdgeIdsDiffer(disk.edge, disk.list)
    /\ \A w \in Actor : EdgeIdsDiffer(memory.edge, thread[w].list)

\* A request that is alone has the graph for itself.
EdgesAlone ==
    \A w, v \in Actor :
        thread[w].alone /\ ~Edges!At(w, "idle") /\ v # w => Edges!At(v, "idle")

EdgesOf(edge, list, i) == {edge[o] : o \in {p \in list : edge[p].id = i}}

\* The list of every request, as the graph itself, has the edges that are wanted,
\* but for those that are being edited, or that it edits.
EdgesDisturbed == past.raced \cup past.refused \cup Edges!Editing
EdgesWanted(edge, list) ==
    \A i \in Edges!Id \ EdgesDisturbed :
        EdgesOf(edge, list, i) = {past.wanted[i]} \ {Edges!NoEdge}
EdgesAsWanted ==
    /\ EdgesWanted(memory.edge, memory.list)
    /\ EdgesWanted(disk.edge, disk.list)
    /\ \A w \in Actor : ~Edges!At(w, "idle") => EdgesWanted(memory.edge, thread[w].list)

\* What a request will store of the edge that it edits, when nobody else edits.
EdgesEdited ==
    \A w \in Actor :
        /\ Edges!At(w, "edit") => thread[w].edge = Edges!NoEdge
        /\ Edges!At(w, "save") =>
             /\ thread[w].id \in Edges!Id
             /\ thread[w].alone =>
                  EdgesOf(memory.edge, thread[w].list, thread[w].id)
                    = {thread[w].edge} \ {Edges!NoEdge}

\* Before there is a graph nobody edits it.
EdgesUncomposed ==
    ~past.composed =>
        /\ ~memory.exists /\ memory.list = {} /\ ~disk.exists /\ disk.list = {}
        /\ \A w \in Actor : Edges!At(w, "idle") /\ thread[w].list = {}
        /\ \A i \in Edges!Id : past.wanted[i] = Edges!NoEdge

EdgesIInv ==
    /\ EdgesShape /\ EdgesUnique /\ EdgesAlone /\ EdgesAsWanted /\ EdgesEdited
    /\ EdgesUncomposed

-----------------------------------------------------------------------------

LEMMA EdgesBound == Bound.edges \in Nat /\ Bound.edgeEdits \in Nat
BY BoundAssumption

\* An edge made by hand has an identifier that no edge of the list has.
LEMMA ManualIdIsNew ==
    ASSUME EdgesShape, NEW list, EdgeList(list), past.made < Bound.edges
    PROVE  /\ Edges!ManualId(list) \in 1..(past.made + 1)
           /\ Edges!ManualId(list) \notin Edges!Ids(list)
<1> USE EdgesBound
<1> DEFINE free == (1..Bound.edges) \ Edges!Ids(list)
           new == past.made + 1
<1>1. past.made \in 0..Bound.edges /\ new \in 1..Bound.edges BY DEF EdgesShape
<1>2. \A o \in list : memory.edge[o].id \in 0..past.made
  BY <1>1 DEF EdgesShape, EdgeGraph, EdgeMap, EdgeList, Edges!Object
<1>3. new \in free BY <1>1, <1>2 DEF Edges!Ids
<1>4. free \subseteq Nat OBVIOUS
<1> HIDE DEF free
<1>5. \E x \in free : \A y \in free : x =< y BY <1>3, <1>4, SmallestOf
<1>6. Edges!ManualId(list) = CHOOSE x \in free : \A y \in free : x =< y
  BY DEF Edges!ManualId, Edges!Min, free
<1>7. Edges!ManualId(list) \in free /\ Edges!ManualId(list) =< new BY <1>3, <1>5, <1>6
<1>8. QED BY <1>1, <1>7 DEF free

EdgesAfter(edge, o, new) == [edge EXCEPT ![o] = new]

\* To change an edge, and not its identifier, disturbs that identifier alone.
LEMMA EdgesPatched ==
    ASSUME NEW edge, NEW new, NEW o, NEW list, EdgeMap(edge), list \subseteq Edges!Object,
           new.id = edge[o].id
    PROVE  LET after == EdgesAfter(edge, o, new) IN
           /\ EdgeIdsDiffer(edge, list) => EdgeIdsDiffer(after, list)
           /\ \A i : i = new.id /\ o \in list /\ EdgeIdsDiffer(edge, list)
                     => EdgesOf(after, list, i) = {new}
           /\ \A i : i # new.id => EdgesOf(after, list, i) = EdgesOf(edge, list, i)
<1> DEFINE after == EdgesAfter(edge, o, new)
<1>1. /\ \A p \in list : after[p] = IF p = o THEN new ELSE edge[p]
      /\ \A p \in list : after[p].id = edge[p].id
  BY DEF EdgeMap, EdgesAfter
<1> HIDE DEF after
<1>2. EdgeIdsDiffer(edge, list) => EdgeIdsDiffer(after, list)
  BY <1>1 DEF EdgeIdsDiffer
<1>3. ASSUME EdgeIdsDiffer(edge, list), o \in list PROVE EdgesOf(after, list, new.id) = {new}
  <2>1. {p \in list : after[p].id = new.id} = {o} BY <1>1, <1>3 DEF EdgeIdsDiffer
  <2>2. QED BY <1>1, <1>3, <2>1 DEF EdgesOf
<1>4. ASSUME NEW i, i # new.id PROVE EdgesOf(after, list, i) = EdgesOf(edge, list, i)
  <2>1. /\ {p \in list : after[p].id = i} = {p \in list : edge[p].id = i}
        /\ \A p \in {q \in list : edge[q].id = i} : after[p] = edge[p]
    BY <1>1, <1>4
  <2>2. QED BY <2>1 DEF EdgesOf
<1>5. QED BY <1>2, <1>3, <1>4 DEF after

\* The edges of a list do not depend on those outside of it.
LEMMA EdgesOfList ==
    ASSUME NEW edge, NEW after, NEW list, \A p \in list : after[p] = edge[p]
    PROVE  /\ EdgeIdsDiffer(edge, list) => EdgeIdsDiffer(after, list)
           /\ \A i : EdgesOf(after, list, i) = EdgesOf(edge, list, i)
<1>1. EdgeIdsDiffer(edge, list) => EdgeIdsDiffer(after, list) BY DEF EdgeIdsDiffer
<1>2. ASSUME NEW i PROVE EdgesOf(after, list, i) = EdgesOf(edge, list, i)
  <2>1. {p \in list : after[p].id = i} = {p \in list : edge[p].id = i} OBVIOUS
  <2>2. QED BY <2>1 DEF EdgesOf
<1>3. QED BY <1>1, <1>2

LEMMA EdgesFields ==
    /\ DOMAIN Edges!NoEdge = EdgeFields /\ Edges!NoEdge.id = 0 /\ Edges!NoEdge.to \notin Node
    /\ DOMAIN Edges!Composed = EdgeFields /\ Edges!Composed.id = 0 /\ Edges!Composed.to \in Node
    /\ DOMAIN Edges!Free = {"step", "list", "id", "edge", "alone"}
    /\ Edges!Free.step = "idle" /\ Edges!Free.list = {} /\ Edges!Free.edge = Edges!NoEdge
BY NodeAssumption DEF Edges!NoEdge, Edges!Composed, Edges!Free, EdgeFields

LEMMA EdgesOfNone == \A edge, i : EdgesOf(edge, {}, i) = {} /\ EdgeIdsDiffer(edge, {})
BY DEF EdgesOf, EdgeIdsDiffer

\* A graph that is written has the edges of its list.
LEMMA EdgesWritten ==
    ASSUME NEW exists, NEW edge, NEW list, past.made \in Nat,
           list \subseteq 0..past.made, list \subseteq Edges!Object,
           \A p \in list : DOMAIN edge[p] = EdgeFields /\ edge[p].id \in 0..past.made
    PROVE  LET g == Edges!Graph(exists, edge, list) IN
           /\ EdgeGraph(g) /\ g.list = list /\ g.exists = exists
           /\ \A p \in list : g.edge[p] = edge[p]
BY EdgesFields DEF Edges!Graph, EdgeGraph, EdgeMap, EdgeList

LEMMA EdgesInit == ASSUME Edges!Init PROVE EdgesIInv
<1> USE EdgesBound
<1>1. /\ memory = Edges!Graph(FALSE, <<>>, {}) /\ disk = memory
      /\ thread = [w \in Actor |-> Edges!Free]
      /\ past = [made |-> 0, edits |-> 0, restarts |-> 0, composed |-> FALSE,
                 wanted |-> [i \in Edges!Id |-> Edges!NoEdge], raced |-> {}, refused |-> {}]
  BY DEF Edges!Init, Edges!NoGraph
<1>2. /\ past.made = 0 /\ DOMAIN past.wanted = Edges!Id
      /\ \A i \in Edges!Id : past.wanted[i] = Edges!NoEdge
      /\ DOMAIN past = {"made", "edits", "restarts", "composed", "wanted", "raced", "refused"}
  BY <1>1
<1>3. EdgeGraph(memory) /\ memory.list = {} /\ memory.exists = FALSE
  <2> DEFINE none == <<>>
             no == FALSE
             g == Edges!Graph(no, none, {})
  <2>2. memory = g /\ no = FALSE BY <1>1
  <2> HIDE DEF none, no
  <2>1. EdgeGraph(g) /\ g.list = {} /\ g.exists = no BY <1>2, EdgesWritten
  <2> HIDE DEF g
  <2>3. QED BY <2>1, <2>2
<1>4. EdgesShape
  <2>1. EdgeGraph(memory) /\ EdgeGraph(disk) BY <1>1, <1>3
  <2>2. \A w \in Actor : thread[w] = Edges!Free BY <1>1
  <2>3. EdgeList({}) BY DEF EdgeList
  <2>4. DOMAIN thread = Actor BY <1>1
  <2>5. QED BY <1>2, <2>1, <2>2, <2>3, <2>4, EdgesFields DEF EdgesShape
<1>5. EdgesUnique BY <1>1, <1>3, EdgesFields, EdgesOfNone DEF EdgesUnique
<1>6. EdgesAlone /\ EdgesEdited BY <1>1, EdgesFields DEF EdgesAlone, EdgesEdited, Edges!At
<1>7. EdgesAsWanted
  BY <1>1, <1>2, <1>3, EdgesFields, EdgesOfNone DEF EdgesAsWanted, EdgesWanted, Edges!At
<1>8. EdgesUncomposed BY <1>1, <1>2, <1>3, EdgesFields DEF EdgesUncomposed, Edges!At
<1>9. QED BY <1>4, <1>5, <1>6, <1>7, <1>8 DEF EdgesIInv

\* The graph is composed.
LEMMA EdgesCreateForProject == ASSUME EdgesIInv, Edges!CreateForProject PROVE EdgesIInv'
<1> USE EdgesBound
<1>0. EdgesShape /\ EdgesUncomposed BY DEF EdgesIInv
<1> DEFINE yes == TRUE
           edge == [o \in Edges!Object |-> Edges!Composed]
           g == Edges!Graph(yes, edge, {0})
<1>1. /\ memory' = g /\ disk' = g /\ thread' = thread /\ ~past.composed
      /\ past' = [past EXCEPT !.composed = TRUE, !.wanted[0] = Edges!Composed]
  BY DEF Edges!CreateForProject
<1> HIDE DEF yes
<1>2. /\ past'.made = past.made /\ past'.raced = past.raced /\ past'.refused = past.refused
      /\ past'.composed /\ past'.wanted = [past.wanted EXCEPT ![0] = Edges!Composed]
      /\ DOMAIN past' = DOMAIN past
  BY <1>0, <1>1 DEF EdgesShape
<1>3. past.made \in Nat /\ 0 \in Edges!Object /\ 0 \in Edges!Id
  BY <1>0 DEF EdgesShape, Edges!Object, Edges!Id
<1>4. edge[0] = Edges!Composed BY <1>3
<1> HIDE DEF edge
<1>5. EdgeGraph(g) /\ g.list = {0} /\ g.edge[0] = Edges!Composed
  BY <1>3, <1>4, EdgesFields, EdgesWritten
<1> HIDE DEF g
<1>6. \A w \in Actor : Edges!At(w, "idle") /\ thread[w].list = {}
  BY <1>0, <1>1 DEF EdgesUncomposed
<1>7. EdgesShape' BY <1>0, <1>1, <1>2, <1>5 DEF EdgesShape, EdgeGraph, EdgeMap, EdgeList
<1>8. EdgesUnique' BY <1>1, <1>5, <1>6, EdgesOfNone DEF EdgesUnique, EdgeIdsDiffer
<1>9. EdgesAlone' /\ EdgesEdited' BY <1>1, <1>6 DEF EdgesAlone, EdgesEdited, Edges!At
<1>10. EdgesAsWanted'
  <2>1. EdgesOf(g.edge, {0}, 0) = {Edges!Composed} BY <1>5, EdgesFields DEF EdgesOf
  <2>2. \A i : i # 0 => EdgesOf(g.edge, {0}, i) = {} BY <1>5, EdgesFields DEF EdgesOf
  <2>3. \A i \in Edges!Id : past'.wanted[i]
            = IF i = 0 THEN Edges!Composed ELSE Edges!NoEdge
    BY <1>0, <1>1, <1>2 DEF EdgesShape, EdgesUncomposed
  <2>4. Edges!Composed # Edges!NoEdge BY EdgesFields
  <2>5. \A i \in Edges!Id : EdgesOf(g.edge, {0}, i) = {past'.wanted[i]} \ {Edges!NoEdge}
    BY <2>1, <2>2, <2>3, <2>4
  <2>6. QED BY <1>1, <1>5, <1>6, <2>5 DEF EdgesAsWanted, EdgesWanted, Edges!At
<1>11. EdgesUncomposed' BY <1>2 DEF EdgesUncomposed
<1>12. QED BY <1>7, <1>8, <1>9, <1>10, <1>11 DEF EdgesIInv

\* The graph is deleted.
LEMMA EdgesDeleteGraph == ASSUME EdgesIInv, Edges!DeleteGraph PROVE EdgesIInv'
<1> USE EdgesBound
<1>0. EdgesShape /\ EdgesUnique /\ EdgesEdited /\ EdgesUncomposed BY DEF EdgesIInv
<1>1. /\ memory.exists /\ memory' = [memory EXCEPT !.exists = FALSE, !.list = {}]
      /\ disk' = Edges!NoGraph
      /\ past' = [past EXCEPT !.wanted = [i \in Edges!Id |-> Edges!NoEdge], !.refused = {},
                              !.raced = IF Edges!Idle THEN {} ELSE Edges!Id]
      /\ thread' = [w \in Actor |-> [thread[w] EXCEPT !.alone = Edges!At(w, "idle")]]
  BY DEF Edges!DeleteGraph
<1>2. /\ past'.made = past.made /\ past'.refused = {} /\ DOMAIN past' = DOMAIN past
      /\ past'.raced = (IF Edges!Idle THEN {} ELSE Edges!Id) /\ past'.composed = past.composed
      /\ past'.wanted = [i \in Edges!Id |-> Edges!NoEdge]
  BY <1>0, <1>1 DEF EdgesShape
<1>3. /\ memory'.edge = memory.edge /\ memory'.list = {} /\ DOMAIN memory' = DOMAIN memory
  BY <1>0, <1>1 DEF EdgesShape, EdgeGraph
<1>4. EdgeGraph(disk') /\ disk'.list = {}
  <2> DEFINE none == <<>>
             no == FALSE
             g == Edges!Graph(no, none, {})
  <2>1. disk' = g BY <1>1 DEF Edges!NoGraph
  <2> HIDE DEF none, no
  <2>2. past.made \in Nat BY <1>0 DEF EdgesShape
  <2>3. EdgeGraph(g) /\ g.list = {} BY <2>2, EdgesWritten
  <2> HIDE DEF g
  <2>4. QED BY <2>1, <2>3
<1>5. \A w \in Actor :
        /\ DOMAIN thread'[w] = DOMAIN thread[w] /\ thread'[w].step = thread[w].step
        /\ thread'[w].list = thread[w].list /\ thread'[w].id = thread[w].id
        /\ thread'[w].edge = thread[w].edge
        /\ thread'[w].alone <=> Edges!At(w, "idle")
  BY <1>0, <1>1 DEF EdgesShape
<1>6. EdgesShape'
  BY <1>0, <1>1, <1>2, <1>3, <1>4, <1>5 DEF EdgesShape, EdgeGraph, EdgeMap, EdgeList
<1>7. EdgesUnique' BY <1>0, <1>3, <1>4, <1>5, EdgesOfNone DEF EdgesUnique
<1>8. EdgesAlone' /\ EdgesEdited' BY <1>0, <1>3, <1>5 DEF EdgesAlone, EdgesEdited, Edges!At
<1>9. EdgesAsWanted'
  <2>1. CASE Edges!Idle
    <3>1. \A w \in Actor : thread'[w].step = "idle" BY <1>5, <2>1 DEF Edges!Idle, Edges!At
    <3>2. \A i \in Edges!Id : past'.wanted[i] = Edges!NoEdge BY <1>2
    <3>3. QED BY <1>3, <1>4, <3>1, <3>2, EdgesOfNone DEF EdgesAsWanted, EdgesWanted, Edges!At
  <2>2. CASE ~Edges!Idle
    <3>1. past'.raced = Edges!Id BY <1>2, <2>2
    <3>2. QED BY <3>1 DEF EdgesAsWanted, EdgesWanted, EdgesDisturbed
  <2>3. QED BY <2>1, <2>2
<1>10. EdgesUncomposed' BY <1>0, <1>1, <1>2 DEF EdgesUncomposed
<1>11. QED BY <1>6, <1>7, <1>8, <1>9, <1>10 DEF EdgesIInv

\* A request reads the graph.
LEMMA EdgesRead ==
    ASSUME EdgesIInv, NEW w \in Actor, Edges!GraphParts(w)
    PROVE  EdgesIInv'
<1> USE EdgesBound
<1>0. /\ EdgesShape /\ EdgesUnique /\ EdgesAlone /\ EdgesAsWanted /\ EdgesEdited
      /\ EdgesUncomposed
  BY DEF EdgesIInv
<1>1. /\ Edges!At(w, "idle") /\ memory.exists /\ memory' = memory /\ disk' = disk
      /\ past' = [past EXCEPT !.edits = @ + 1]
      /\ thread' = [v \in Actor |->
           IF v = w THEN [Edges!Free EXCEPT !.step = "edit", !.list = memory.list,
                                            !.alone = Edges!Idle]
           ELSE [thread[v] EXCEPT !.alone = Edges!At(v, "idle")]]
  BY DEF Edges!GraphParts
<1>2. /\ past'.made = past.made /\ past'.raced = past.raced /\ past'.refused = past.refused
      /\ past'.composed = past.composed /\ past'.wanted = past.wanted
      /\ DOMAIN past' = DOMAIN past
  BY <1>0, <1>1 DEF EdgesShape
<1>3. /\ DOMAIN thread'[w] = {"step", "list", "id", "edge", "alone"} /\ thread'[w].step = "edit"
      /\ thread'[w].list = memory.list /\ thread'[w].edge = Edges!NoEdge
      /\ thread'[w].alone <=> Edges!Idle
  BY <1>1, EdgesFields
<1>4. \A v \in Actor : v # w =>
        /\ DOMAIN thread'[v] = DOMAIN thread[v] /\ thread'[v].step = thread[v].step
        /\ thread'[v].list = thread[v].list /\ thread'[v].id = thread[v].id
        /\ thread'[v].edge = thread[v].edge
        /\ thread'[v].alone <=> Edges!At(v, "idle")
  BY <1>0, <1>1 DEF EdgesShape
<1>5. EdgesShape'
  BY <1>0, <1>1, <1>2, <1>3, <1>4 DEF EdgesShape, EdgeGraph, EdgeMap, EdgeList
<1>6. EdgesUnique' BY <1>0, <1>1, <1>3, <1>4 DEF EdgesUnique
<1>7. EdgesAlone'
  <2> SUFFICES ASSUME NEW u \in Actor, NEW v \in Actor, thread'[u].alone,
                      thread'[u].step # "idle", v # u
               PROVE  thread'[v].step = "idle"
    BY DEF EdgesAlone, Edges!At
  <2>1. CASE u = w
    <3>1. thread[v].step = "idle" BY <1>3, <2>1 DEF Edges!Idle, Edges!At
    <3>2. QED BY <1>4, <2>1, <3>1
  <2>2. CASE u # w BY <1>4, <2>2 DEF Edges!At
  <2>3. QED BY <2>1, <2>2
<1>8. EdgesEdited'
  <2> SUFFICES ASSUME NEW v \in Actor
               PROVE  /\ thread'[v].step = "edit" => thread'[v].edge = Edges!NoEdge
                      /\ thread'[v].step = "save" =>
                           /\ thread'[v].id \in Edges!Id
                           /\ thread'[v].alone =>
                                EdgesOf(memory'.edge, thread'[v].list, thread'[v].id)
                                  = {thread'[v].edge} \ {Edges!NoEdge}
    BY DEF EdgesEdited, Edges!At
  <2>1. CASE v = w BY <1>3, <2>1
  <2>2. CASE v # w BY <1>0, <1>4, <2>2 DEF EdgesEdited, Edges!At
  <2>3. QED BY <2>1, <2>2
<1>9. EdgesAsWanted'
  <2>0. {v \in Actor : thread'[v].step = "save"} = {v \in Actor : thread[v].step = "save"}
    BY <1>1, <1>3, <1>4 DEF Edges!At
  <2>1. Edges!Editing' = Edges!Editing
    <3> DEFINE savers == {v \in Actor : thread[v].step = "save"}
    <3>1. /\ Edges!Editing' = {thread'[v].id : v \in savers}
          /\ Edges!Editing = {thread[v].id : v \in savers}
      BY <2>0 DEF Edges!Editing, Edges!At
    <3>2. \A v \in savers : thread'[v].id = thread[v].id BY <1>1, <1>4 DEF Edges!At
    <3> HIDE DEF savers
    <3>3. QED BY <3>1, <3>2
  <2>2. EdgesDisturbed' = EdgesDisturbed BY <1>2, <2>1 DEF EdgesDisturbed
  <2>3. \A list : EdgesWanted(memory.edge, list)' <=> EdgesWanted(memory.edge, list)
    BY <1>1, <1>2, <2>2 DEF EdgesWanted
  <2>4. EdgesWanted(disk.edge, disk.list)' <=> EdgesWanted(disk.edge, disk.list)
    BY <1>1, <1>2, <2>2 DEF EdgesWanted
  <2>5. QED BY <1>0, <1>1, <1>3, <1>4, <2>3, <2>4 DEF EdgesAsWanted, Edges!At
<1>10. EdgesUncomposed' BY <1>0, <1>1, <1>2 DEF EdgesUncomposed
<1>11. QED BY <1>5, <1>6, <1>7, <1>8, <1>9, <1>10 DEF EdgesIInv

\* What is known of the other requests when one of them is at work.
LEMMA EdgesOthers ==
    ASSUME EdgesAlone, NEW w \in Actor, ~Edges!At(w, "idle")
    PROVE  \A v \in Actor : v # w /\ ~Edges!At(v, "idle") => ~thread[v].alone
BY DEF EdgesAlone

\* A request becomes free, and the graph stays.
LEMMA EdgesRefuse ==
    ASSUME EdgesIInv, NEW w \in Actor, Edges!Refuse(w)
    PROVE  EdgesIInv'
<1>0. /\ EdgesShape /\ EdgesUnique /\ EdgesAlone /\ EdgesAsWanted /\ EdgesEdited
      /\ EdgesUncomposed
  BY DEF EdgesIInv
<1>1. /\ Edges!At(w, "edit") /\ thread' = [thread EXCEPT ![w] = Edges!Free]
      /\ memory' = memory /\ disk' = disk /\ past' = past
  BY DEF Edges!Refuse, Edges!Becomes
<1>2. thread'[w] = Edges!Free /\ \A v \in Actor : v # w => thread'[v] = thread[v]
  BY <1>0, <1>1 DEF EdgesShape
<1>3. EdgesShape'
  BY <1>0, <1>1, <1>2, EdgesFields DEF EdgesShape, EdgeGraph, EdgeMap, EdgeList
<1>4. EdgesUnique' BY <1>0, <1>1, <1>2, EdgesFields, EdgesOfNone DEF EdgesUnique
<1>5. EdgesAlone' /\ EdgesEdited'
  BY <1>0, <1>1, <1>2, EdgesFields DEF EdgesAlone, EdgesEdited, Edges!At
<1>6. EdgesAsWanted'
  <2>1. {v \in Actor : thread'[v].step = "save"} = {v \in Actor : thread[v].step = "save"}
    BY <1>1, <1>2, EdgesFields DEF Edges!At
  <2>2. Edges!Editing' = Edges!Editing
    <3> DEFINE savers == {v \in Actor : thread[v].step = "save"}
    <3>1. /\ Edges!Editing' = {thread'[v].id : v \in savers}
          /\ Edges!Editing = {thread[v].id : v \in savers}
      BY <2>1 DEF Edges!Editing, Edges!At
    <3>2. \A v \in savers : thread'[v].id = thread[v].id BY <1>1, <1>2 DEF Edges!At
    <3> HIDE DEF savers
    <3>3. QED BY <3>1, <3>2
  <2>3. \A list : EdgesWanted(memory.edge, list)' <=> EdgesWanted(memory.edge, list)
    BY <1>1, <2>2 DEF EdgesWanted, EdgesDisturbed
  <2>4. EdgesWanted(disk.edge, disk.list)' <=> EdgesWanted(disk.edge, disk.list)
    BY <1>1, <2>2 DEF EdgesWanted, EdgesDisturbed
  <2>5. QED BY <1>0, <1>1, <1>2, <2>3, <2>4, EdgesFields DEF EdgesAsWanted, Edges!At
<1>7. EdgesUncomposed' BY <1>0, <1>1, <1>2 DEF EdgesUncomposed, Edges!At
<1>8. QED BY <1>3, <1>4, <1>5, <1>6, <1>7 DEF EdgesIInv

\* The identifiers that are edited, when one more is.
LEMMA EdgesEditing ==
    ASSUME NEW w \in Actor, Edges!At(w, "edit"), \A v \in Actor : v # w => thread'[v] = thread[v]
    PROVE  /\ thread'[w].step = "save" => Edges!Editing' = Edges!Editing \cup {thread'[w].id}
           /\ thread'[w].step = "idle" => Edges!Editing' = Edges!Editing
<1>1. \A x : x \in Edges!Editing <=> \E v \in Actor : thread[v].step = "save" /\ x = thread[v].id
  BY DEF Edges!Editing, Edges!At
<1>2. \A x : x \in Edges!Editing' <=> \E v \in Actor : thread'[v].step = "save" /\ x = thread'[v].id
  BY DEF Edges!Editing, Edges!At
<1>3. thread[w].step = "edit" BY DEF Edges!At
<1>4. CASE thread'[w].step = "save"
  <2>1. \A x : x \in Edges!Editing' <=> x \in Edges!Editing \/ x = thread'[w].id
    BY <1>1, <1>2, <1>3, <1>4
  <2>2. QED BY <1>4, <2>1
<1>5. CASE thread'[w].step = "idle"
  <2>1. \A x : x \in Edges!Editing' <=> x \in Edges!Editing BY <1>1, <1>2, <1>3, <1>5
  <2>2. QED BY <1>5, <2>1
<1>6. QED BY <1>4, <1>5

\* An edge is changed in place: by a request that will save, or is refused.
LEMMA EdgesPatch ==
    ASSUME EdgesIInv, NEW w \in Actor, NEW o \in Edges!Object, NEW to \in Node,
           Edges!PatchRefused(w, o, to) \/ \E type \in Type : Edges!PatchEdge(w, o, to, type)
    PROVE  EdgesIInv'
<1> USE EdgesBound
<1>0. /\ EdgesShape /\ EdgesUnique /\ EdgesAlone /\ EdgesAsWanted /\ EdgesEdited
      /\ EdgesUncomposed
  BY DEF EdgesIInv
<1>1. /\ Edges!At(w, "edit") /\ o \in thread[w].list /\ disk' = disk
      /\ DOMAIN memory.edge[o] = EdgeFields
  BY <1>0 DEF Edges!PatchRefused, Edges!PatchEdge, EdgesShape, EdgeGraph, EdgeMap
<1>2. PICK edge :
        /\ DOMAIN edge = EdgeFields /\ edge.id = memory.edge[o].id /\ edge.to = to
        /\ memory' = [memory EXCEPT !.edge[o] = edge]
        /\ \/ /\ past' = [past EXCEPT !.refused = @ \cup {edge.id}]
              /\ thread' = [thread EXCEPT ![w] = Edges!Free]
           \/ /\ past' = past
              /\ thread' = [thread EXCEPT ![w] =
                   [thread[w] EXCEPT !.step = "save", !.id = edge.id, !.edge = edge]]
  <2>1. CASE Edges!PatchRefused(w, o, to)
    <3> DEFINE edge == [memory.edge[o] EXCEPT !.to = to]
    <3>1. DOMAIN edge = EdgeFields /\ edge.id = memory.edge[o].id /\ edge.to = to
      BY <1>1 DEF EdgeFields
    <3>2. /\ memory' = [memory EXCEPT !.edge[o] = edge]
          /\ past' = [past EXCEPT !.refused = @ \cup {memory.edge[o].id}]
          /\ thread' = [thread EXCEPT ![w] = Edges!Free]
      BY <2>1 DEF Edges!PatchRefused, Edges!InPlace, Edges!Becomes
    <3> HIDE DEF edge
    <3>3. QED BY <3>1, <3>2
  <2>2. ASSUME NEW type \in Type, Edges!PatchEdge(w, o, to, type)
        PROVE \E edge :
        /\ DOMAIN edge = EdgeFields /\ edge.id = memory.edge[o].id /\ edge.to = to
        /\ memory' = [memory EXCEPT !.edge[o] = edge]
        /\ \/ /\ past' = [past EXCEPT !.refused = @ \cup {edge.id}]
              /\ thread' = [thread EXCEPT ![w] = Edges!Free]
           \/ /\ past' = past
              /\ thread' = [thread EXCEPT ![w] =
                   [thread[w] EXCEPT !.step = "save", !.id = edge.id, !.edge = edge]]
    <3> DEFINE edge == [memory.edge[o] EXCEPT !.to = to, !.type = type]
    <3>1. DOMAIN edge = EdgeFields /\ edge.id = memory.edge[o].id /\ edge.to = to
      BY <1>1 DEF EdgeFields
    <3>2. /\ memory' = [memory EXCEPT !.edge[o] = edge] /\ past' = past
          /\ thread' = [thread EXCEPT ![w] =
                   [thread[w] EXCEPT !.step = "save", !.id = edge.id, !.edge = edge]]
      BY <2>2 DEF Edges!PatchEdge, Edges!InPlace, Edges!Becomes
    <3> HIDE DEF edge
    <3>3. QED BY <3>1, <3>2
  <2>3. QED BY <2>1, <2>2
<1>3. /\ memory'.edge = [memory.edge EXCEPT ![o] = edge] /\ memory'.list = memory.list
      /\ memory'.exists = memory.exists /\ DOMAIN memory' = DOMAIN memory
      /\ edge.id \in 0..past.made /\ EdgeMap(memory.edge)
  BY <1>0, <1>2 DEF EdgesShape, EdgeGraph, EdgeMap
<1>4. /\ past'.made = past.made /\ past'.raced = past.raced /\ DOMAIN past' = DOMAIN past
      /\ past'.composed = past.composed /\ past'.wanted = past.wanted
      /\ past'.refused = past.refused \/ past'.refused = past.refused \cup {edge.id}
  BY <1>0, <1>2 DEF EdgesShape
<1>5. /\ \A v \in Actor : v # w => thread'[v] = thread[v]
      /\ \/ thread'[w] = Edges!Free /\ past'.refused = past.refused \cup {edge.id}
         \/ /\ DOMAIN thread'[w] = DOMAIN thread[w] /\ thread'[w].step = "save"
            /\ thread'[w].list = thread[w].list /\ thread'[w].id = edge.id
            /\ thread'[w].edge = edge /\ thread'[w].alone = thread[w].alone
            /\ past' = past
  BY <1>0, <1>2 DEF EdgesShape
<1>6. ASSUME NEW list, list \subseteq Edges!Object
      PROVE  /\ EdgeIdsDiffer(memory.edge, list) => EdgeIdsDiffer(memory'.edge, list)
             /\ o \in list /\ EdgeIdsDiffer(memory.edge, list)
                  => EdgesOf(memory'.edge, list, edge.id) = {edge}
             /\ \A i : i # edge.id => EdgesOf(memory'.edge, list, i) = EdgesOf(memory.edge, list, i)
  <2> DEFINE old == memory.edge
             after == EdgesAfter(old, o, edge)
  <2>1. EdgeMap(old) /\ edge.id = old[o].id /\ memory'.edge = after /\ old = memory.edge
    BY <1>2, <1>3 DEF EdgesAfter
  <2> HIDE DEF old
  <2>2. /\ EdgeIdsDiffer(old, list) => EdgeIdsDiffer(after, list)
        /\ \A i : i = edge.id /\ o \in list /\ EdgeIdsDiffer(old, list)
                  => EdgesOf(after, list, i) = {edge}
        /\ \A i : i # edge.id => EdgesOf(after, list, i) = EdgesOf(old, list, i)
    BY <1>6, <2>1, EdgesPatched
  <2> HIDE DEF after
  <2>3. QED BY <2>1, <2>2
<1>7. /\ \A v \in Actor : thread[v].list \subseteq Edges!Object
      /\ memory.list \subseteq Edges!Object /\ {} \subseteq Edges!Object
  BY <1>0 DEF EdgesShape, EdgeGraph, EdgeList, Edges!Object
<1>8. EdgesShape'
  <2>1. EdgeMap(memory.edge)'
    <3>1. \A p \in Edges!Object : memory'.edge[p] = IF p = o THEN edge ELSE memory.edge[p]
      BY <1>3 DEF EdgeMap
    <3>2. DOMAIN memory'.edge = Edges!Object BY <1>3 DEF EdgeMap
    <3>3. QED BY <1>2, <1>3, <1>4, <3>1, <3>2 DEF EdgeMap
  <2>2. EdgeGraph(memory)' BY <1>0, <1>3, <1>4, <2>1 DEF EdgesShape, EdgeGraph, EdgeList
  <2>3. EdgeGraph(disk)' BY <1>0, <1>1, <1>4 DEF EdgesShape, EdgeGraph, EdgeMap, EdgeList
  <2>4. DOMAIN thread' = Actor BY <1>0, <1>2 DEF EdgesShape
  <2>5. \A v \in Actor :
          /\ DOMAIN thread'[v] = {"step", "list", "id", "edge", "alone"}
          /\ thread'[v].step \in {"idle", "edit", "save"}
          /\ EdgeList(thread[v].list)'
    BY <1>0, <1>4, <1>5, EdgesFields DEF EdgesShape, EdgeList
  <2>6. QED BY <1>0, <1>4, <2>2, <2>3, <2>4, <2>5 DEF EdgesShape
<1>9. EdgesUnique'
  <2>1. EdgeIdsDiffer(memory'.edge, memory'.list) /\ EdgeIdsDiffer(disk'.edge, disk'.list)
    BY <1>0, <1>1, <1>3, <1>6, <1>7 DEF EdgesUnique
  <2>2. ASSUME NEW v \in Actor PROVE EdgeIdsDiffer(memory'.edge, thread'[v].list)
    <3>1. thread'[v].list \in {thread[v].list, {}} BY <1>5, EdgesFields
    <3>2. EdgeIdsDiffer(memory.edge, thread[v].list) BY <1>0 DEF EdgesUnique
    <3>3. QED BY <1>6, <1>7, <3>1, <3>2, EdgesOfNone
  <2>3. QED BY <2>1, <2>2 DEF EdgesUnique
<1>10. EdgesAlone'
  BY <1>0, <1>1, <1>5, EdgesFields DEF EdgesAlone, Edges!At
<1>11. EdgesEdited'
  <2> SUFFICES ASSUME NEW v \in Actor
               PROVE  /\ thread'[v].step = "edit" => thread'[v].edge = Edges!NoEdge
                      /\ thread'[v].step = "save" =>
                           /\ thread'[v].id \in Edges!Id
                           /\ thread'[v].alone =>
                                EdgesOf(memory'.edge, thread'[v].list, thread'[v].id)
                                  = {thread'[v].edge} \ {Edges!NoEdge}
    BY DEF EdgesEdited, Edges!At
  <2>1. CASE v # w
    BY <1>0, <1>1, <1>5, <2>1, EdgesOthers DEF EdgesEdited, Edges!At
  <2>2. CASE v = w /\ thread'[w].step = "save"
    <3>1. edge # Edges!NoEdge BY <1>2, EdgesFields
    <3>2. EdgesOf(memory'.edge, thread[w].list, edge.id) = {edge}
      BY <1>0, <1>1, <1>6, <1>7 DEF EdgesUnique
    <3>3. edge.id \in Edges!Id BY <1>0, <1>3 DEF EdgesShape, Edges!Id
    <3>4. QED BY <1>5, <2>2, <3>1, <3>2, <3>3, EdgesFields
  <2>3. CASE v = w /\ thread'[w].step # "save" BY <1>5, <2>3, EdgesFields
  <2>4. QED BY <2>1, <2>2, <2>3
<1>12. EdgesAsWanted'
  <2>1. EdgesDisturbed' = EdgesDisturbed \cup {edge.id}
    BY <1>1, <1>4, <1>5, EdgesEditing, EdgesFields DEF EdgesDisturbed
  <2>2. \A list : list \subseteq Edges!Object /\ EdgesWanted(memory.edge, list)
                  => \A i \in Edges!Id \ EdgesDisturbed' :
                       EdgesOf(memory'.edge, list, i) = {past'.wanted[i]} \ {Edges!NoEdge}
    BY <1>4, <1>6, <2>1 DEF EdgesWanted
  <2>3. EdgesWanted(disk.edge, disk.list)' BY <1>0, <1>1, <1>4, <2>1 DEF EdgesAsWanted, EdgesWanted
  <2>4. EdgesWanted(memory.edge, memory.list)'
    BY <1>0, <1>3, <1>7, <2>2 DEF EdgesAsWanted, EdgesWanted
  <2>5. ASSUME NEW v \in Actor, thread'[v].step # "idle"
        PROVE  EdgesWanted(memory.edge, thread[v].list)'
    <3>1. thread'[v].list = thread[v].list /\ ~Edges!At(v, "idle")
      BY <1>1, <1>5, <2>5, EdgesFields DEF Edges!At
    <3>2. EdgesWanted(memory.edge, thread[v].list) BY <1>0, <3>1 DEF EdgesAsWanted
    <3>3. QED BY <1>7, <2>2, <3>1, <3>2 DEF EdgesWanted
  <2>6. QED BY <2>3, <2>4, <2>5 DEF EdgesAsWanted, Edges!At
<1>13. EdgesUncomposed' BY <1>0, <1>1, <1>4 DEF EdgesUncomposed, Edges!At
<1>14. QED BY <1>8, <1>9, <1>10, <1>11, <1>12, <1>13 DEF EdgesIInv

\* An edge is taken from a request's list.
LEMMA EdgesDelete ==
    ASSUME EdgesIInv, NEW w \in Actor, NEW d \in Edges!Id, Edges!DeleteEdge(w, d)
    PROVE  EdgesIInv'
<1> USE EdgesBound
<1>0. /\ EdgesShape /\ EdgesUnique /\ EdgesAlone /\ EdgesAsWanted /\ EdgesEdited
      /\ EdgesUncomposed
  BY DEF EdgesIInv
<1> DEFINE list == {o \in thread[w].list : memory.edge[o].id # d}
<1>1. /\ Edges!At(w, "edit") /\ memory' = memory /\ disk' = disk /\ past' = past
      /\ thread' = [thread EXCEPT ![w] = [thread[w] EXCEPT !.step = "save", !.id = d,
                                                          !.list = list]]
  BY DEF Edges!DeleteEdge, Edges!Becomes
<1>2. /\ list \subseteq thread[w].list
      /\ \A i : i # d => EdgesOf(memory.edge, list, i) = EdgesOf(memory.edge, thread[w].list, i)
      /\ EdgesOf(memory.edge, list, d) = {}
  <2>1. ASSUME NEW i, i # d
        PROVE  EdgesOf(memory.edge, list, i) = EdgesOf(memory.edge, thread[w].list, i)
    <3>1. {p \in list : memory.edge[p].id = i} = {p \in thread[w].list : memory.edge[p].id = i}
      BY <2>1
    <3> HIDE DEF list
    <3>2. QED BY <3>1 DEF EdgesOf
  <2>2. EdgesOf(memory.edge, list, d) = {} BY DEF EdgesOf
  <2>3. QED BY <2>1, <2>2
<1> HIDE DEF list
<1>3. /\ \A v \in Actor : v # w => thread'[v] = thread[v]
      /\ DOMAIN thread'[w] = DOMAIN thread[w] /\ thread'[w].step = "save"
      /\ thread'[w].list = list /\ thread'[w].id = d
      /\ thread'[w].edge = Edges!NoEdge /\ thread'[w].alone = thread[w].alone
  BY <1>0, <1>1 DEF EdgesShape, EdgesEdited
<1>4. EdgesShape'
  <2>1. EdgeGraph(memory)' /\ EdgeGraph(disk)'
    BY <1>0, <1>1 DEF EdgesShape, EdgeGraph, EdgeMap, EdgeList
  <2>2. DOMAIN thread' = Actor BY <1>0, <1>1 DEF EdgesShape
  <2>3. \A v \in Actor :
          /\ DOMAIN thread'[v] = {"step", "list", "id", "edge", "alone"}
          /\ thread'[v].step \in {"idle", "edit", "save"}
          /\ EdgeList(thread[v].list)'
    BY <1>0, <1>1, <1>2, <1>3 DEF EdgesShape, EdgeList
  <2>4. QED BY <1>0, <1>1, <2>1, <2>2, <2>3 DEF EdgesShape
<1>5. EdgesUnique'
  <2>1. EdgeIdsDiffer(memory.edge, list) BY <1>0, <1>2 DEF EdgesUnique, EdgeIdsDiffer
  <2>2. QED BY <1>0, <1>1, <1>3, <2>1 DEF EdgesUnique
<1>6. EdgesAlone' BY <1>0, <1>1, <1>3 DEF EdgesAlone, Edges!At
<1>7. EdgesEdited'
  <2> SUFFICES ASSUME NEW v \in Actor
               PROVE  /\ thread'[v].step = "edit" => thread'[v].edge = Edges!NoEdge
                      /\ thread'[v].step = "save" =>
                           /\ thread'[v].id \in Edges!Id
                           /\ thread'[v].alone =>
                                EdgesOf(memory'.edge, thread'[v].list, thread'[v].id)
                                  = {thread'[v].edge} \ {Edges!NoEdge}
    BY DEF EdgesEdited, Edges!At
  <2>1. CASE v # w BY <1>0, <1>1, <1>3, <2>1 DEF EdgesEdited, Edges!At
  <2>2. CASE v = w BY <1>1, <1>2, <1>3, <2>2
  <2>3. QED BY <2>1, <2>2
<1>8. EdgesAsWanted'
  <2>1. EdgesDisturbed' = EdgesDisturbed \cup {d}
    BY <1>1, <1>3, EdgesEditing DEF EdgesDisturbed
  <2>2. EdgesWanted(memory.edge, memory.list)' /\ EdgesWanted(disk.edge, disk.list)'
    BY <1>0, <1>1, <2>1 DEF EdgesAsWanted, EdgesWanted
  <2>3. ASSUME NEW v \in Actor, thread'[v].step # "idle"
        PROVE  EdgesWanted(memory.edge, thread[v].list)'
    <3>1. ~Edges!At(v, "idle") BY <1>1, <1>3, <2>3 DEF Edges!At
    <3>2. EdgesWanted(memory.edge, thread[v].list) BY <1>0, <3>1 DEF EdgesAsWanted
    <3>3. CASE v # w BY <1>1, <1>3, <2>1, <3>2, <3>3 DEF EdgesWanted
    <3>4. CASE v = w BY <1>1, <1>2, <1>3, <2>1, <3>2, <3>4 DEF EdgesWanted
    <3>5. QED BY <3>3, <3>4
  <2>4. QED BY <2>2, <2>3 DEF EdgesAsWanted, Edges!At
<1>9. EdgesUncomposed' BY <1>0, <1>1 DEF EdgesUncomposed, Edges!At
<1>10. QED BY <1>4, <1>5, <1>6, <1>7, <1>8, <1>9 DEF EdgesIInv

\* An edge is made, with an identifier of its own, and added to a request's list.
LEMMA EdgesCreate ==
    ASSUME EdgesIInv, NEW w \in Actor, NEW to \in Node, NEW type \in Type,
           Edges!CreateEdge(w, to, type)
    PROVE  EdgesIInv'
<1> USE EdgesBound
<1>0. /\ EdgesShape /\ EdgesUnique /\ EdgesAlone /\ EdgesAsWanted /\ EdgesEdited
      /\ EdgesUncomposed
  BY DEF EdgesIInv
<1> DEFINE new == past.made + 1
           id == Edges!ManualId(thread[w].list)
           edge == [id |-> id, to |-> to, type |-> type]
           list == thread[w].list \cup {new}
<1>1. /\ Edges!At(w, "edit") /\ past.made < Bound.edges /\ disk' = disk
      /\ memory' = [memory EXCEPT !.edge[new] = edge]
      /\ past' = [past EXCEPT !.made = new]
      /\ thread' = [thread EXCEPT ![w] = [thread[w] EXCEPT !.step = "save", !.list = list,
                                           !.id = edge.id, !.edge = edge]]
  BY DEF Edges!CreateEdge, Edges!InPlace, Edges!Becomes
<1>2. /\ past.made \in Nat /\ new \in 1..Bound.edges /\ new \in Edges!Object
      /\ id \in 1..new /\ id \notin Edges!Ids(thread[w].list)
  BY <1>0, <1>1, ManualIdIsNew DEF EdgesShape, Edges!Object
<1>3. /\ DOMAIN edge = EdgeFields /\ edge.id = id /\ edge # Edges!NoEdge
  BY EdgesFields DEF EdgeFields
<1> HIDE DEF id, edge
<1>4. /\ memory'.edge = [memory.edge EXCEPT ![new] = edge] /\ memory'.list = memory.list
      /\ memory'.exists = memory.exists /\ DOMAIN memory' = DOMAIN memory
      /\ EdgeMap(memory.edge)
  BY <1>0, <1>1 DEF EdgesShape, EdgeGraph
<1>5. /\ past'.made = new /\ past'.raced = past.raced /\ DOMAIN past' = DOMAIN past
      /\ past'.composed = past.composed /\ past'.wanted = past.wanted
      /\ past'.refused = past.refused
  BY <1>0, <1>1 DEF EdgesShape
<1>6. /\ \A v \in Actor : v # w => thread'[v] = thread[v]
      /\ DOMAIN thread'[w] = DOMAIN thread[w] /\ thread'[w].step = "save"
      /\ thread'[w].list = list /\ thread'[w].id = id
      /\ thread'[w].edge = edge /\ thread'[w].alone = thread[w].alone
  BY <1>0, <1>1, <1>3 DEF EdgesShape
<1>7. \A x : EdgeList(x) => x \subseteq Edges!Object /\ new \notin x
  BY <1>0, <1>2 DEF EdgesShape, EdgeList, Edges!Object
<1>8. ASSUME NEW x, EdgeList(x)
      PROVE  /\ EdgeIdsDiffer(memory.edge, x) => EdgeIdsDiffer(memory'.edge, x)
             /\ \A i : EdgesOf(memory'.edge, x, i) = EdgesOf(memory.edge, x, i)
  <2>1. \A p \in x : memory'.edge[p] = memory.edge[p] BY <1>4, <1>7, <1>8 DEF EdgeMap
  <2> DEFINE old == memory.edge
             after == memory'.edge
  <2>2. \A p \in x : after[p] = old[p] BY <2>1
  <2> HIDE DEF old, after
  <2>3. /\ EdgeIdsDiffer(old, x) => EdgeIdsDiffer(after, x)
        /\ \A i : EdgesOf(after, x, i) = EdgesOf(old, x, i)
    BY <2>2, EdgesOfList
  <2>4. QED BY <2>3 DEF old, after
<1>9. memory'.edge[new] = edge BY <1>2, <1>4 DEF EdgeMap
<1> HIDE DEF new
<1>10. /\ \A v \in Actor : EdgeList(thread[v].list)
       /\ EdgeList(memory.list) /\ EdgeList(disk.list)
  BY <1>0 DEF EdgesShape, EdgeGraph
<1>11. \A p \in thread[w].list : memory'.edge[p] = memory.edge[p] /\ memory'.edge[p].id # id
  <2>1. \A p \in thread[w].list : memory'.edge[p] = memory.edge[p]
    BY <1>4, <1>7, <1>10 DEF EdgeMap
  <2>2. QED BY <1>2, <2>1 DEF Edges!Ids
<1>12. /\ EdgeIdsDiffer(memory'.edge, thread[w].list) => EdgeIdsDiffer(memory'.edge, list)
       /\ EdgesOf(memory'.edge, list, id) = {edge}
       /\ \A i : i # id => EdgesOf(memory'.edge, list, i) = EdgesOf(memory'.edge, thread[w].list, i)
  <2>1. EdgeIdsDiffer(memory'.edge, thread[w].list) => EdgeIdsDiffer(memory'.edge, list)
    BY <1>3, <1>9, <1>11 DEF EdgeIdsDiffer
  <2>2. EdgesOf(memory'.edge, list, id) = {edge}
    <3>1. {p \in list : memory'.edge[p].id = id} = {new} BY <1>3, <1>9, <1>11
    <3>2. QED BY <1>9, <3>1 DEF EdgesOf
  <2>3. ASSUME NEW i, i # id
        PROVE  EdgesOf(memory'.edge, list, i) = EdgesOf(memory'.edge, thread[w].list, i)
    <3>1. {p \in list : memory'.edge[p].id = i} = {p \in thread[w].list : memory'.edge[p].id = i}
      BY <1>3, <1>9, <2>3
    <3> HIDE DEF list
    <3>2. QED BY <3>1 DEF EdgesOf
  <2>4. QED BY <2>1, <2>2, <2>3
<1>13. EdgesShape'
  <2>1. EdgeMap(memory.edge)'
    <3>1. \A p \in Edges!Object : memory'.edge[p] = IF p = new THEN edge ELSE memory.edge[p]
      BY <1>4 DEF EdgeMap
    <3>2. DOMAIN memory'.edge = Edges!Object BY <1>4 DEF EdgeMap
    <3>3. 0..past.made \subseteq 0..new BY <1>2 DEF new
    <3>4. QED BY <1>2, <1>3, <1>4, <1>5, <3>1, <3>2, <3>3 DEF EdgeMap
  <2>2. \A x : EdgeList(x) => x \subseteq 0..new BY <1>2 DEF EdgeList, new
  <2>3. EdgeGraph(memory)' BY <1>0, <1>4, <1>5, <1>10, <2>1, <2>2
    DEF EdgesShape, EdgeGraph, EdgeList
  <2>4. EdgeGraph(disk)'
    <3>1. 0..past.made \subseteq 0..new BY <1>2 DEF new
    <3>2. QED BY <1>0, <1>1, <1>5, <1>10, <2>2, <3>1 DEF EdgesShape, EdgeGraph, EdgeMap, EdgeList
  <2>5. DOMAIN thread' = Actor BY <1>0, <1>1 DEF EdgesShape
  <2>6. new \in 0..new /\ new \in 0..Bound.edges BY <1>2
  <2>7. \A v \in Actor :
          /\ DOMAIN thread'[v] = {"step", "list", "id", "edge", "alone"}
          /\ thread'[v].step \in {"idle", "edit", "save"}
          /\ thread'[v].list \subseteq 0..new
    BY <1>0, <1>6, <1>10, <2>2, <2>6 DEF EdgesShape
  <2>8. QED BY <1>0, <1>5, <2>3, <2>4, <2>5, <2>6, <2>7 DEF EdgesShape, EdgeList
<1>14. EdgesUnique'
  <2>1. EdgeIdsDiffer(memory'.edge, memory'.list) /\ EdgeIdsDiffer(disk'.edge, disk'.list)
    BY <1>0, <1>1, <1>4, <1>8, <1>10 DEF EdgesUnique
  <2>2. ASSUME NEW v \in Actor PROVE EdgeIdsDiffer(memory'.edge, thread'[v].list)
    <3>1. EdgeIdsDiffer(memory'.edge, thread[v].list) BY <1>0, <1>8, <1>10 DEF EdgesUnique
    <3>2. QED BY <1>6, <1>12, <3>1
  <2>3. QED BY <2>1, <2>2 DEF EdgesUnique
<1>15. EdgesAlone' BY <1>0, <1>1, <1>6 DEF EdgesAlone, Edges!At
<1>16. EdgesEdited'
  <2> SUFFICES ASSUME NEW v \in Actor
               PROVE  /\ thread'[v].step = "edit" => thread'[v].edge = Edges!NoEdge
                      /\ thread'[v].step = "save" =>
                           /\ thread'[v].id \in Edges!Id
                           /\ thread'[v].alone =>
                                EdgesOf(memory'.edge, thread'[v].list, thread'[v].id)
                                  = {thread'[v].edge} \ {Edges!NoEdge}
    BY DEF EdgesEdited, Edges!At
  <2>1. CASE v # w
    BY <1>0, <1>1, <1>6, <2>1, EdgesOthers DEF EdgesEdited, Edges!At
  <2>2. CASE v = w
    <3>1. id \in Edges!Id BY <1>2 DEF Edges!Id, new
    <3>2. QED BY <1>3, <1>6, <1>12, <2>2, <3>1
  <2>3. QED BY <2>1, <2>2
<1>17. EdgesAsWanted'
  <2>1. EdgesDisturbed' = EdgesDisturbed \cup {id}
    BY <1>1, <1>5, <1>6, EdgesEditing DEF EdgesDisturbed
  <2>2. \A x : EdgeList(x) /\ EdgesWanted(memory.edge, x)
                  => \A i \in Edges!Id \ EdgesDisturbed' :
                       EdgesOf(memory'.edge, x, i) = {past'.wanted[i]} \ {Edges!NoEdge}
    BY <1>5, <1>8, <2>1 DEF EdgesWanted
  <2>3. EdgesWanted(memory.edge, memory.list)'
    BY <1>0, <1>4, <1>10, <2>2 DEF EdgesAsWanted, EdgesWanted
  <2>4. EdgesWanted(disk.edge, disk.list)' BY <1>0, <1>1, <1>5, <2>1 DEF EdgesAsWanted, EdgesWanted
  <2>5. ASSUME NEW v \in Actor, thread'[v].step # "idle"
        PROVE  EdgesWanted(memory.edge, thread[v].list)'
    <3>1. ~Edges!At(v, "idle") BY <1>1, <1>6, <2>5 DEF Edges!At
    <3>2. EdgesWanted(memory.edge, thread[v].list) BY <1>0, <3>1 DEF EdgesAsWanted
    <3>3. CASE v # w BY <1>6, <1>10, <2>2, <3>2, <3>3 DEF EdgesWanted
    <3>4. CASE v = w
      <4>1. \A i \in Edges!Id \ EdgesDisturbed' :
              /\ EdgesOf(memory'.edge, thread[w].list, i) = {past'.wanted[i]} \ {Edges!NoEdge}
              /\ EdgesOf(memory'.edge, list, i) = EdgesOf(memory'.edge, thread[w].list, i)
        BY <1>10, <1>12, <2>1, <2>2, <3>2, <3>4
      <4> HIDE DEF list
      <4>2. QED BY <1>6, <3>4, <4>1 DEF EdgesWanted
    <3>5. QED BY <3>3, <3>4
  <2>6. QED BY <2>3, <2>4, <2>5 DEF EdgesAsWanted, Edges!At
<1>18. EdgesUncomposed' BY <1>0, <1>1, <1>5 DEF EdgesUncomposed, Edges!At
<1>19. QED BY <1>13, <1>14, <1>15, <1>16, <1>17, <1>18 DEF EdgesIInv

\* A request stores its list.
LEMMA EdgesSave ==
    ASSUME EdgesIInv, NEW w \in Actor, Edges!SaveEdges(w)
    PROVE  EdgesIInv'
<1> USE EdgesBound
<1>0. /\ EdgesShape /\ EdgesUnique /\ EdgesAlone /\ EdgesAsWanted /\ EdgesEdited
      /\ EdgesUncomposed
  BY DEF EdgesIInv
<1> DEFINE list == thread[w].list
           id == thread[w].id
           yes == TRUE
           g == Edges!Graph(yes, memory.edge, list)
<1>1. /\ Edges!At(w, "save") /\ memory' = [memory EXCEPT !.exists = TRUE, !.list = list]
      /\ disk' = g /\ thread' = [thread EXCEPT ![w] = Edges!Free]
      /\ past' = [past EXCEPT !.wanted[id] = thread[w].edge,
                   !.raced = IF thread[w].alone THEN @ \ {id} ELSE @ \cup {id}]
  BY DEF Edges!SaveEdges, Edges!Becomes
<1>2. /\ past'.made = past.made /\ past'.refused = past.refused /\ DOMAIN past' = DOMAIN past
      /\ past'.wanted = [past.wanted EXCEPT ![id] = thread[w].edge]
      /\ past'.raced = IF thread[w].alone THEN past.raced \ {id} ELSE past.raced \cup {id}
      /\ past'.composed = past.composed
  BY <1>0, <1>1 DEF EdgesShape
<1>3. past'.raced \cup {id} = past.raced \cup {id} BY <1>2
<1>4. /\ memory'.edge = memory.edge /\ memory'.list = list /\ DOMAIN memory' = DOMAIN memory
  BY <1>0, <1>1 DEF EdgesShape, EdgeGraph
<1>5. /\ thread'[w] = Edges!Free /\ \A v \in Actor : v # w => thread'[v] = thread[v]
      /\ DOMAIN thread' = Actor
  BY <1>0, <1>1 DEF EdgesShape
<1>6. /\ past.made \in Nat /\ EdgeList(list) /\ list \subseteq Edges!Object
      /\ EdgeMap(memory.edge) /\ EdgeIdsDiffer(memory.edge, list)
      /\ EdgesWanted(memory.edge, list) /\ id \in Edges!Id
  BY <1>0, <1>1
  DEF EdgesShape, EdgeGraph, EdgeList, Edges!Object, EdgesUnique, EdgesAsWanted, EdgesEdited,
      Edges!At
<1> HIDE DEF yes
<1>7. EdgeGraph(g) /\ g.list = list /\ \A p \in list : g.edge[p] = memory.edge[p]
  <2> DEFINE old == memory.edge
  <2>1. /\ \A p \in list : DOMAIN old[p] = EdgeFields /\ old[p].id \in 0..past.made
        /\ list \subseteq 0..past.made /\ list \subseteq Edges!Object /\ past.made \in Nat
    BY <1>6 DEF EdgeMap, EdgeList
  <2>2. old = memory.edge /\ g = Edges!Graph(yes, old, list) OBVIOUS
  <2> HIDE DEF old, g, list
  <2>3. EdgeGraph(Edges!Graph(yes, old, list)) BY <2>1, EdgesWritten
  <2>4. /\ Edges!Graph(yes, old, list).list = list
        /\ \A p \in list : Edges!Graph(yes, old, list).edge[p] = old[p]
    BY <2>1 DEF Edges!Graph
  <2>5. QED BY <2>2, <2>3, <2>4
<1> HIDE DEF g, list, id
<1>8. EdgesShape'
  <2>1. EdgeGraph(memory)' BY <1>0, <1>2, <1>4, <1>6 DEF EdgesShape, EdgeGraph, EdgeMap, EdgeList
  <2>2. EdgeGraph(disk)' BY <1>1, <1>2, <1>7 DEF EdgeGraph, EdgeMap, EdgeList
  <2>3. DOMAIN past'.wanted = Edges!Id BY <1>0, <1>2 DEF EdgesShape
  <2>4. \A v \in Actor :
          /\ DOMAIN thread'[v] = {"step", "list", "id", "edge", "alone"}
          /\ thread'[v].step \in {"idle", "edit", "save"}
          /\ EdgeList(thread[v].list)'
    BY <1>0, <1>2, <1>5, EdgesFields DEF EdgesShape, EdgeList
  <2>5. QED BY <1>0, <1>2, <1>5, <2>1, <2>2, <2>3, <2>4 DEF EdgesShape
<1>9. /\ EdgeIdsDiffer(g.edge, list)
      /\ \A i : EdgesOf(g.edge, list, i) = EdgesOf(memory.edge, list, i)
  <2> DEFINE old == memory.edge
             after == g.edge
  <2>1. (\A p \in list : after[p] = old[p]) /\ EdgeIdsDiffer(old, list) BY <1>6, <1>7
  <2> HIDE DEF old, after
  <2>2. EdgeIdsDiffer(after, list) /\ \A i : EdgesOf(after, list, i) = EdgesOf(old, list, i)
    BY <2>1, EdgesOfList
  <2>3. QED BY <2>2 DEF old, after
<1>10. EdgesUnique'
  BY <1>0, <1>1, <1>4, <1>5, <1>6, <1>7, <1>9, EdgesFields, EdgesOfNone DEF EdgesUnique
<1>11. EdgesAlone' BY <1>0, <1>5, EdgesFields DEF EdgesAlone, Edges!At
<1>12. EdgesEdited' BY <1>0, <1>4, <1>5, EdgesFields DEF EdgesEdited, Edges!At
<1>13. Edges!Editing \subseteq Edges!Editing' \cup {id}
  <2>1. \A x : x \in Edges!Editing => \E v \in Actor : thread[v].step = "save" /\ x = thread[v].id
    BY DEF Edges!Editing, Edges!At
  <2>2. \A v \in Actor : thread'[v].step = "save" => thread'[v].id \in Edges!Editing'
    BY DEF Edges!Editing, Edges!At
  <2>3. QED BY <1>5, <2>1, <2>2 DEF id
\* The edge that is stored is as it is wanted now, when nobody else has edited.
<1>14. ASSUME NEW i \in Edges!Id \ EdgesDisturbed'
       PROVE  /\ EdgesOf(memory.edge, list, i) = {past'.wanted[i]} \ {Edges!NoEdge}
              /\ i # id => i \notin EdgesDisturbed /\ past'.wanted[i] = past.wanted[i]
              /\ i = id => thread[w].alone
  <2>1. CASE i # id
    <3>1. i \notin EdgesDisturbed /\ past'.wanted[i] = past.wanted[i]
      BY <1>0, <1>2, <1>3, <1>13, <1>14, <2>1 DEF EdgesDisturbed, EdgesShape
    <3>2. QED BY <1>6, <1>14, <2>1, <3>1 DEF EdgesWanted
  <2>2. CASE i = id
    <3>1. thread[w].alone BY <1>2, <1>14, <2>2 DEF EdgesDisturbed
    <3>2. EdgesOf(memory.edge, list, id) = {thread[w].edge} \ {Edges!NoEdge}
      BY <1>0, <1>1, <3>1 DEF EdgesEdited, list, id
    <3>3. past'.wanted[id] = thread[w].edge BY <1>0, <1>2, <1>6 DEF EdgesShape
    <3>4. QED BY <2>2, <3>1, <3>2, <3>3
  <2>3. QED BY <2>1, <2>2
<1>15. EdgesAsWanted'
  <2>1. EdgesWanted(memory.edge, memory.list)' BY <1>4, <1>14 DEF EdgesWanted
  <2>2. EdgesWanted(disk.edge, disk.list)' BY <1>1, <1>7, <1>9, <1>14 DEF EdgesWanted
  <2>3. ASSUME NEW v \in Actor, thread'[v].step # "idle",
               NEW i \in Edges!Id \ EdgesDisturbed'
        PROVE  EdgesOf(memory'.edge, thread'[v].list, i) = {past'.wanted[i]} \ {Edges!NoEdge}
    <3>1. v # w /\ thread'[v] = thread[v] /\ ~Edges!At(v, "idle") /\ ~Edges!At(w, "idle")
      BY <1>1, <1>5, <2>3, EdgesFields DEF Edges!At
    <3>2. ~thread[w].alone BY <1>0, <3>1 DEF EdgesAlone
    <3>3. i \notin EdgesDisturbed /\ past'.wanted[i] = past.wanted[i]
      BY <1>14, <2>3, <3>2
    <3>4. QED BY <1>0, <1>4, <2>3, <3>1, <3>3 DEF EdgesAsWanted, EdgesWanted
  <2>4. QED BY <2>1, <2>2, <2>3 DEF EdgesAsWanted, EdgesWanted, Edges!At
<1>16. EdgesUncomposed' BY <1>0, <1>1, <1>2 DEF EdgesUncomposed, Edges!At
<1>17. QED BY <1>8, <1>10, <1>11, <1>12, <1>15, <1>16 DEF EdgesIInv

\* The graph is written as it is, or read as it was written.
LEMMA EdgesStored == ASSUME EdgesIInv, Edges!Persist \/ Edges!Restart PROVE EdgesIInv'
<1> USE EdgesBound
<1>0. /\ EdgesShape /\ EdgesUnique /\ EdgesAlone /\ EdgesAsWanted /\ EdgesEdited
      /\ EdgesUncomposed
  BY DEF EdgesIInv
<1>1. CASE Edges!Persist
  <2> DEFINE g == Edges!Graph(memory.exists, memory.edge, memory.list)
  <2>1. memory' = memory /\ disk' = g /\ thread' = thread /\ past' = past
    BY <1>1 DEF Edges!Persist
  <2>2. /\ past.made \in Nat /\ EdgeMap(memory.edge) /\ EdgeList(memory.list)
        /\ memory.list \subseteq Edges!Object
        /\ EdgeIdsDiffer(memory.edge, memory.list) /\ EdgesWanted(memory.edge, memory.list)
    BY <1>0
    DEF EdgesShape, EdgeGraph, EdgeList, Edges!Object, EdgesUnique, EdgesAsWanted
  <2>3. /\ EdgeGraph(g) /\ g.list = memory.list /\ g.exists = memory.exists
        /\ \A p \in memory.list : g.edge[p] = memory.edge[p]
    <3> DEFINE old == memory.edge
               list == memory.list
               exists == memory.exists
               graph == Edges!Graph(exists, old, list)
    <3>1. /\ \A p \in list : DOMAIN old[p] = EdgeFields /\ old[p].id \in 0..past.made
          /\ list \subseteq 0..past.made /\ list \subseteq Edges!Object /\ past.made \in Nat
      BY <2>2 DEF EdgeMap, EdgeList
    <3>2. graph = g OBVIOUS
    <3> HIDE DEF g, old, list, exists
    <3>3. EdgeGraph(graph) BY <3>1, EdgesWritten
    <3>4. /\ graph.list = list /\ graph.exists = exists
          /\ \A p \in list : graph.edge[p] = old[p]
      BY <3>1 DEF Edges!Graph
    <3> HIDE DEF graph
    <3>5. QED BY <3>2, <3>3, <3>4 DEF old, list, exists
  <2> HIDE DEF g
  <2>4. /\ EdgeIdsDiffer(g.edge, g.list)
        /\ \A i : EdgesOf(g.edge, g.list, i) = EdgesOf(memory.edge, memory.list, i)
    <3> DEFINE old == memory.edge
               list == memory.list
               after == g.edge
    <3>1. (\A p \in list : after[p] = old[p]) /\ EdgeIdsDiffer(old, list) BY <2>2, <2>3
    <3> HIDE DEF old, after, list
    <3>2. EdgeIdsDiffer(after, list) /\ \A i : EdgesOf(after, list, i) = EdgesOf(old, list, i)
      BY <3>1, EdgesOfList
    <3>3. QED BY <2>3, <3>2 DEF old, after, list
  <2>5. EdgesShape' BY <1>0, <2>1, <2>3 DEF EdgesShape, EdgeGraph, EdgeMap, EdgeList
  <2>6. EdgesUnique' BY <1>0, <2>1, <2>4 DEF EdgesUnique
  <2>7. EdgesAlone' /\ EdgesEdited' /\ EdgesUncomposed'
    BY <1>0, <2>1, <2>3 DEF EdgesAlone, EdgesEdited, EdgesUncomposed, Edges!At
  <2>8. EdgesDisturbed' = EdgesDisturbed BY <2>1 DEF EdgesDisturbed, Edges!Editing, Edges!At
  <2>9. EdgesWanted(disk.edge, disk.list)' BY <2>1, <2>2, <2>4, <2>8 DEF EdgesWanted
  <2>10. EdgesAsWanted' BY <1>0, <2>1, <2>8, <2>9 DEF EdgesAsWanted, EdgesWanted, Edges!At
  <2>11. QED BY <2>5, <2>6, <2>7, <2>10 DEF EdgesIInv
<1>2. CASE Edges!Restart
  <2>1. /\ memory' = disk /\ disk' = disk /\ thread' = [w \in Actor |-> Edges!Free]
        /\ past' = [past EXCEPT !.restarts = @ + 1, !.raced = @ \cup Edges!Editing]
    BY <1>2 DEF Edges!Restart
  <2>2. /\ past'.made = past.made /\ past'.refused = past.refused /\ DOMAIN past' = DOMAIN past
        /\ past'.wanted = past.wanted /\ past'.raced = past.raced \cup Edges!Editing
        /\ past'.composed = past.composed
    BY <1>0, <2>1 DEF EdgesShape
  <2>3. DOMAIN thread' = Actor /\ \A w \in Actor : thread'[w] = Edges!Free BY <2>1
  <2>4. EdgesShape'
    BY <1>0, <2>1, <2>2, <2>3, EdgesFields DEF EdgesShape, EdgeGraph, EdgeMap, EdgeList
  <2>5. EdgesUnique' BY <1>0, <2>1, <2>3, EdgesFields, EdgesOfNone DEF EdgesUnique
  <2>6. EdgesAlone' /\ EdgesEdited' /\ EdgesUncomposed'
    BY <1>0, <2>1, <2>2, <2>3, EdgesFields
    DEF EdgesAlone, EdgesEdited, EdgesUncomposed, Edges!At
  <2>7. EdgesDisturbed \subseteq EdgesDisturbed' BY <2>2 DEF EdgesDisturbed
  <2>8. EdgesWanted(disk.edge, disk.list)' BY <1>0, <2>1, <2>2, <2>7 DEF EdgesAsWanted, EdgesWanted
  <2>9. EdgesAsWanted'
    BY <2>1, <2>3, <2>8, EdgesFields DEF EdgesAsWanted, EdgesWanted, Edges!At
  <2>10. QED BY <2>4, <2>5, <2>6, <2>9 DEF EdgesIInv
<1>3. QED BY <1>1, <1>2

LEMMA EdgesNext == ASSUME EdgesIInv, [Edges!Next]_(Edges!vars) PROVE EdgesIInv'
<1>1. CASE UNCHANGED Edges!vars
  <2>1. EdgesDisturbed' = EdgesDisturbed
    BY <1>1 DEF Edges!vars, EdgesDisturbed, Edges!Editing, Edges!At
  <2>2. UNCHANGED <<memory, disk, thread, past>> BY <1>1 DEF Edges!vars
  <2>3. EdgesShape' /\ EdgesUnique'
    BY <2>2 DEF EdgesIInv, EdgesShape, EdgeGraph, EdgeMap, EdgeList, EdgesUnique
  <2>4. EdgesAlone' /\ EdgesEdited' /\ EdgesUncomposed'
    BY <2>2 DEF EdgesIInv, EdgesAlone, EdgesEdited, EdgesUncomposed, Edges!At
  <2>5. EdgesAsWanted'
    BY <2>1, <2>2 DEF EdgesIInv, EdgesAsWanted, EdgesWanted, Edges!At
  <2>6. QED BY <2>3, <2>4, <2>5 DEF EdgesIInv
<1>2. CASE Edges!Next
  BY <1>2, EdgesCreateForProject, EdgesDeleteGraph, EdgesStored, EdgesRead, EdgesRefuse,
     EdgesSave, EdgesPatch, EdgesDelete, EdgesCreate DEF Edges!Next
<1>3. QED BY <1>1, <1>2

\* The invariant of the edges holds when they are looked at.
EdgesInv == service = "edges" => EdgesIInv

LEMMA EdgesInvariant == Spec => []EdgesInv
<1>1. Init => EdgesInv BY GraphInits, EdgesInit DEF EdgesInv
<1>2. EdgesInv /\ [Next]_vars => EdgesInv' BY GraphSteps, EdgesNext DEF EdgesInv
<1>3. QED BY <1>1, <1>2, PTL DEF Spec

\* An edit that was accepted stays, in memory and in the catalog, unless two
\* requests overlapped or a refused one had changed the edge: for any graph,
\* edits, requests and restarts.
THEOREM AcceptedEditsStay == Spec => []EditsStay
<1>1. ASSUME EdgesInv PROVE EditsStay
  <2> SUFFICES ASSUME service = "edges" PROVE Edges!EditsStay BY DEF EditsStay
  <2>1. EdgesAsWanted BY <1>1 DEF EdgesInv, EdgesIInv
  <2>2. QED BY <2>1 DEF EdgesAsWanted, EdgesWanted, EdgesDisturbed, EdgesOf, Edges!EditsStay
<1>2. QED BY EdgesInvariant, <1>1, PTL

-----------------------------------------------------------------------------
(* The composed graph.                                                     *)

Ids(nodes) == Composition!Ids(nodes)

\* What is taken from lists is the same here, too.
LEMMA ComposedPicked ==
    ASSUME NEW list, NEW places
    PROVE  Composition!Picked(list, places) = Picked(list, places)
BY DEF Picked, Composition!Picked, Cardinality, Composition!Cardinality

LEMMA ComposedCount ==
    ASSUME NEW S PROVE Composition!Cardinality(S) = Cardinality(S)
BY DEF Composition!Cardinality, Cardinality

LEMMA ComposedFirst ==
    ASSUME NEW S
    PROVE  /\ S \subseteq Nat /\ S # {} => Composition!First(S) \in S
           /\ \A n \in Nat : S \subseteq 1..n /\ S # {} => Composition!Latest(S) \in S
<1>1. Composition!First(S) = First(S) BY DEF Composition!First, First
<1>2. Composition!Latest(S) = Latest(S) BY DEF Composition!Latest, Latest
<1>3. QED BY <1>1, <1>2, FirstIs, LatestIs

\* The nodes' identifiers differ, and tell what a node is.
WellTyped(n) ==
    /\ n.type = "request_dto" => n.id[1] = "req"
    /\ n.type = "response_dto" => n.id[1] = "resp"
    /\ n.type = "binding" => n.id[1] = "binding"
    /\ n.type = "frontend_api_call" <=> n.id[1] = "call"

NodeList(nodes) ==
    /\ SomeList(nodes) /\ \A n \in Listed(nodes) : WellTyped(n)
    /\ \A i, j \in DOMAIN nodes : nodes[i].id = nodes[j].id => i = j

\* The nodes after some are made.
Plus(nodes, new) ==
    nodes \o Composition!Picked(new, {i \in DOMAIN new :
        new[i].id \notin Ids(nodes) /\ \A j \in 1..(i - 1) : new[j].id # new[i].id})

LEMMA IdsAre ==
    ASSUME NEW nodes PROVE Ids(nodes) = {n.id : n \in Listed(nodes)}
BY DEF Ids, Composition!Ids, Listed

LEMMA PlusIs ==
    ASSUME NEW nodes, NodeList(nodes), NEW new, SomeList(new),
           \A n \in Listed(new) : WellTyped(n)
    PROVE  NodeList(Plus(nodes, new)) /\ Ids(Plus(nodes, new)) = Ids(nodes) \cup Ids(new)
<1> PICK places : places = {i \in DOMAIN new : /\ new[i].id \notin Ids(nodes)
                                               /\ \A j \in 1..(i - 1) : new[j].id # new[i].id}
  OBVIOUS
<1> PICK picked : picked = Composition!Picked(new, places) OBVIOUS
<1> PICK N : N = Len(new) OBVIOUS
<1>1. Plus(nodes, new) = nodes \o picked BY DEF Plus
<1>2. N \in Nat /\ DOMAIN new = 1..N /\ places \subseteq 1..N BY ListsDomain
<1>3. /\ DOMAIN picked = 1..Cardinality(places) /\ Cardinality(places) \in Nat
      /\ \A n \in DOMAIN picked : \E i \in places :
           picked[n] = new[i] /\ Cardinality(Below(places, i)) = n
  <2>1. InOrder(new, places, picked) BY <1>2, PickedIs, ComposedPicked
  <2>2. QED BY <2>1 DEF InOrder
<1>4. SomeList(picked) /\ SomeList(nodes)
  <2>1. TakenFrom(picked, new, places) BY <1>2, PickedList, ComposedPicked
  <2>2. QED BY <2>1 DEF TakenFrom, NodeList
<1>5. Listed(picked) \subseteq Listed(new)
  <2>1. ASSUME NEW x \in Listed(picked) PROVE x \in Listed(new)
    <3>1. PICK i \in places : x = new[i] BY <1>3 DEF Listed
    <3>2. QED BY <1>2, <3>1 DEF Listed
  <2>2. QED BY <2>1
<1>6. \A n \in Listed(picked) : n.id \notin Ids(nodes)
  <2>1. ASSUME NEW n \in Listed(picked) PROVE n.id \notin Ids(nodes)
    <3>1. PICK i \in places : n = new[i] BY <1>3 DEF Listed
    <3>2. QED BY <3>1
  <2>2. QED BY <2>1
<1>7. ASSUME NEW i \in places, NEW j \in places, new[i].id = new[j].id PROVE i = j
  <2>1. i \in Nat /\ j \in Nat /\ i >= 1 /\ j >= 1 BY <1>2
  <2>2. j \notin 1..(i - 1) /\ i \notin 1..(j - 1) BY <1>7
  <2>3. QED BY <2>1, <2>2
<1>8. \A m, n \in DOMAIN picked : picked[m].id = picked[n].id => m = n
  <2>1. ASSUME NEW m \in DOMAIN picked, NEW n \in DOMAIN picked, picked[m].id = picked[n].id
        PROVE  m = n
    <3>1. PICK i \in places : picked[m] = new[i] /\ Cardinality(Below(places, i)) = m BY <1>3
    <3>2. PICK j \in places : picked[n] = new[j] /\ Cardinality(Below(places, j)) = n BY <1>3
    <3>3. i = j BY <1>7, <2>1, <3>1, <3>2
    <3>4. QED BY <3>1, <3>2, <3>3
  <2>2. QED BY <2>1
<1>9. ASSUME NEW i \in 1..N, new[i].id \notin Ids(nodes)
      PROVE  new[i].id \in Ids(picked)
  <2> DEFINE same == {j \in 1..N : new[j].id = new[i].id}
  <2>1. PICK j \in same : \A k \in same : j <= k
    <3>1. same \subseteq Nat /\ same # {} BY <1>2
    <3> HIDE DEF same
    <3>2. QED BY <3>1, SmallestOf
  <2>2. j \in 1..N /\ new[j].id = new[i].id OBVIOUS
  <2>3. \A k \in 1..(j - 1) : new[k].id # new[j].id
    <3>1. ASSUME NEW k \in 1..(j - 1), new[k].id = new[j].id PROVE FALSE
      <4>1. k \in 1..N /\ ~(j <= k) BY <1>2, <2>2
      <4>2. k \in same BY <2>2, <3>1, <4>1
      <4>3. QED BY <2>1, <4>1, <4>2
    <3>2. QED BY <3>1
  <2>4. j \in places BY <1>2, <1>9, <2>2, <2>3
  <2>5. HasAll(picked, new, places) BY <1>2, PickedAll, ComposedPicked
  <2>6. PICK n \in DOMAIN picked : picked[n] = new[j] BY <2>4, <2>5 DEF HasAll
  <2>7. QED BY <2>2, <2>6 DEF Ids, Composition!Ids
<1> PICK all : all = nodes \o picked OBVIOUS
<1>10. SomeList(all) /\ Listed(all) = Listed(nodes) \cup Listed(picked)
  BY <1>4, ListCat, CatListed
<1>11. Ids(all) = Ids(nodes) \cup Ids(new)
  <2>1. Ids(all) = Ids(nodes) \cup Ids(picked) BY <1>10, IdsAre
  <2>2. Ids(picked) \subseteq Ids(new) BY <1>5, IdsAre
  <2>3. ASSUME NEW id \in Ids(new) PROVE id \in Ids(nodes) \cup Ids(picked)
    <3>1. PICK i \in 1..N : id = new[i].id BY <1>2 DEF Ids, Composition!Ids
    <3>2. QED BY <1>9, <3>1
  <2>4. QED BY <2>1, <2>2, <2>3
<1>12. \A i, j \in DOMAIN all : all[i].id = all[j].id => i = j
  <2> PICK U : U = Listed(nodes) \cup Listed(picked) OBVIOUS
  <2>1. nodes \in Seq(U) /\ picked \in Seq(U) BY <1>4, ListOver
  <2>2. all \in Seq(U) /\ Len(all) = Len(nodes) + Len(picked) BY <2>1
  <2>3. /\ Len(nodes) \in Nat /\ Len(picked) \in Nat
        /\ DOMAIN nodes = 1..Len(nodes) /\ DOMAIN picked = 1..Len(picked)
    BY <1>4, ListsDomain
  <2>4. DOMAIN all = 1..(Len(nodes) + Len(picked)) BY <2>2, <2>3, SeqIs
  <2>5. \A i \in DOMAIN all :
          \/ i \in DOMAIN nodes /\ all[i] = nodes[i]
          \/ i - Len(nodes) \in DOMAIN picked /\ all[i] = picked[i - Len(nodes)]
    BY <2>1, <2>3, <2>4
  <2>6. \A i \in DOMAIN nodes, j \in DOMAIN picked : nodes[i].id # picked[j].id
    BY <1>6 DEF Listed, Ids, Composition!Ids
  <2>7. ASSUME NEW i \in DOMAIN all, NEW j \in DOMAIN all, all[i].id = all[j].id PROVE i = j
    <3>1. i \in Nat /\ j \in Nat BY <2>3, <2>4
    <3>2. CASE i \in DOMAIN nodes /\ all[i] = nodes[i] /\ j \in DOMAIN nodes /\ all[j] = nodes[j]
      BY <2>7, <3>2 DEF NodeList
    <3>3. CASE i - Len(nodes) \in DOMAIN picked /\ all[i] = picked[i - Len(nodes)]
               /\ j - Len(nodes) \in DOMAIN picked /\ all[j] = picked[j - Len(nodes)]
      <4>1. i - Len(nodes) = j - Len(nodes) BY <1>8, <2>7, <3>3
      <4>2. QED BY <2>3, <3>1, <4>1
    <3>4. CASE i \in DOMAIN nodes /\ all[i] = nodes[i]
               /\ j - Len(nodes) \in DOMAIN picked /\ all[j] = picked[j - Len(nodes)]
      <4>1. nodes[i].id # picked[j - Len(nodes)].id BY <2>6, <3>4
      <4>2. QED BY <2>7, <3>4, <4>1
    <3>5. CASE j \in DOMAIN nodes /\ all[j] = nodes[j]
               /\ i - Len(nodes) \in DOMAIN picked /\ all[i] = picked[i - Len(nodes)]
      <4>1. nodes[j].id # picked[i - Len(nodes)].id BY <2>6, <3>5
      <4>2. QED BY <2>7, <3>5, <4>1
    <3>6. QED BY <2>5, <3>2, <3>3, <3>4, <3>5
  <2>8. QED BY <2>7
<1>13. \A n \in Listed(all) : WellTyped(n) BY <1>5, <1>10 DEF NodeList
<1>14. QED BY <1>1, <1>10, <1>11, <1>12, <1>13 DEF NodeList

-----------------------------------------------------------------------------

EdgesOK(edges, ids) ==
    /\ IsFiniteSet(edges)
    /\ \A e \in edges : e.from \in ids /\ e.to \in ids
    /\ \A e, f \in edges : e.id = f.id => e = f

\* New edges between nodes, of which each has a name of its own.
NewEdges(new, ids) ==
    /\ IsFiniteSet(new)
    /\ \A e \in new : e.from \in ids /\ e.to \in ids
    /\ \A e, f \in new : e.name = f.name => e = f

\* The edges after some are drawn.
Drawing(edges, new) ==
    edges \cup {Composition!Numbered(e, Composition!Number(edges, e)) : e \in new}

LEMMA FiniteIds ==
    ASSUME NEW edges, IsFiniteSet(edges) PROVE IsFiniteSet({f.id : f \in edges})
<1> PICK g : g = [f \in edges |-> f.id] OBVIOUS
<1>1. IsFiniteSet({g[f] : f \in edges}) BY FiniteImage
<1>2. {g[f] : f \in edges} = {f.id : f \in edges} OBVIOUS
<1>3. QED BY <1>1, <1>2

LEMMA NoInjection ==
    ASSUME NEW S, NEW T, IsFiniteSet(S), IsFiniteSet(T), Cardinality(T) < Cardinality(S),
           NEW f \in [S -> T], \A x, y \in S : f[x] = f[y] => x = y
    PROVE  FALSE
<1>1. \E x, y \in S : x # y /\ f[x] = f[y] BY FS_PigeonHole
<1>2. QED BY <1>1

LEMMA NoRoom ==
    ASSUME NEW T, IsFiniteSet(T), NEW k, k = Cardinality(T), NEW name,
           \A m \in 1..(k + 1) : <<name, m>> \in T
    PROVE  FALSE
<1> PICK f : f = [m \in 1..(k + 1) |-> <<name, m>>] OBVIOUS
<1> PICK I : I = 1..(k + 1) OBVIOUS
<1>1. k \in Nat BY FS_CardinalityType
<1>2. k + 1 \in Int /\ 1 \in Int /\ ~(1 > k + 1) BY <1>1
<1>3. IsFiniteSet(I) /\ Cardinality(I) = k + 1
  <2>1. IsFiniteSet(1..(k + 1)) /\ Cardinality(1..(k + 1)) = (k + 1) - 1 + 1 BY <1>2, FS_Interval
  <2>2. (k + 1) - 1 + 1 = k + 1 BY <1>1
  <2>3. QED BY <2>1, <2>2
<1>4. f \in [I -> T] OBVIOUS
<1>5. Cardinality(T) < Cardinality(I) BY <1>1, <1>3
<1>6. \A x, y \in I : f[x] = f[y] => x = y
  <2>1. \A x \in I : f[x] = <<name, x>> OBVIOUS
  <2>2. \A x, y : <<name, x>> = <<name, y>> => x = y OBVIOUS
  <2>3. QED BY <2>1, <2>2
<1>7. QED BY <1>1, <1>3, <1>4, <1>5, <1>6, NoInjection

\* There is always a suffix that makes an identifier new.
LEMMA NumberIs ==
    ASSUME NEW edges, IsFiniteSet(edges), NEW e, NEW n, n = Composition!Number(edges, e)
    PROVE  \/ Composition!Numbered(e, n) \in edges
           \/ <<e.name, n>> \notin {f.id : f \in edges}
<1> PICK taken : taken = {f.id : f \in edges} OBVIOUS
<1> PICK k : k = Cardinality(taken) OBVIOUS
<1>1. IsFiniteSet(taken) /\ k \in Nat BY FiniteIds, FS_CardinalityType
<1> DEFINE free == {m \in 1..(k + 1) : <<e.name, m>> \notin taken}
<1>2. free # {}
  <2>1. ~ \A m \in 1..(k + 1) : <<e.name, m>> \in taken BY <1>1, NoRoom
  <2>2. QED BY <2>1
<1>3. free \subseteq Nat BY <1>1
<1>4. Composition!Cardinality(taken) = k BY ComposedCount
<1>5. n = IF Composition!Numbered(e, 1) \in edges THEN 1 ELSE Composition!First(free)
  BY <1>4 DEF Composition!Number
<1>6. Composition!First(free) \in free
  <2> HIDE DEF free
  <2>1. QED BY <1>2, <1>3, ComposedFirst
<1>7. QED BY <1>5, <1>6

LEMMA FiniteDrawing ==
    ASSUME NEW edges, NEW new, IsFiniteSet(edges), IsFiniteSet(new)
    PROVE  IsFiniteSet(Drawing(edges, new))
<1> PICK g : g = [e \in new |-> Composition!Numbered(e, Composition!Number(edges, e))] OBVIOUS
<1> PICK T : T = {g[e] : e \in new} OBVIOUS
<1>1. IsFiniteSet(T) BY FiniteImage
<1>2. Drawing(edges, new) = edges \cup T BY DEF Drawing
<1>3. IsFiniteSet(edges \cup T) BY <1>1, FS_Union
<1>4. QED BY <1>2, <1>3

SameJoin(e, f) == e.from = f.from /\ e.to = f.to /\ e.type = f.type

LEMMA DrawingIs ==
    ASSUME NEW edges, NEW new, NEW ids, EdgesOK(edges, ids), NewEdges(new, ids)
    PROVE  /\ EdgesOK(Drawing(edges, new), ids)
           /\ \A e \in Drawing(edges, new) : e \in edges \/ \E x \in new : SameJoin(e, x)
           /\ \A x \in new : \E e \in Drawing(edges, new) : SameJoin(e, x)
<1> PICK n : n = [e \in new |-> Composition!Number(edges, e)] OBVIOUS
<1> PICK all : all = Drawing(edges, new) OBVIOUS
<1>1. all = edges \cup {Composition!Numbered(e, n[e]) : e \in new} BY DEF Drawing
<1>2. ASSUME NEW e \in new
      PROVE  \/ Composition!Numbered(e, n[e]) \in edges
             \/ <<e.name, n[e]>> \notin {f.id : f \in edges}
  <2>1. n[e] = Composition!Number(edges, e) OBVIOUS
  <2>2. QED BY <2>1, NumberIs DEF EdgesOK
<1>3. ASSUME NEW e \in new
      PROVE  /\ SameJoin(Composition!Numbered(e, n[e]), e)
             /\ Composition!Numbered(e, n[e]).id = <<e.name, n[e]>>
  BY DEF Composition!Numbered, SameJoin
<1>4. \A e \in all : e \in edges \/ \E x \in new : e = Composition!Numbered(x, n[x]) BY <1>1
<1>5. \A e \in all : e.from \in ids /\ e.to \in ids
  BY <1>3, <1>4 DEF EdgesOK, NewEdges, SameJoin
<1>6. ASSUME NEW x \in new, NEW f \in edges, Composition!Numbered(x, n[x]).id = f.id
      PROVE  Composition!Numbered(x, n[x]) = f
  <2>1. Composition!Numbered(x, n[x]) \in edges BY <1>2, <1>3, <1>6
  <2>2. QED BY <1>6, <2>1 DEF EdgesOK
<1>7. ASSUME NEW x \in new, NEW y \in new,
             Composition!Numbered(x, n[x]).id = Composition!Numbered(y, n[y]).id
      PROVE  x = y
  <2>1. <<x.name, n[x]>> = <<y.name, n[y]>> BY <1>3, <1>7
  <2>2. x.name = y.name BY <2>1
  <2>3. QED BY <2>2 DEF NewEdges
<1>8. \A e, f \in all : e.id = f.id => e = f
  <2>1. ASSUME NEW e \in all, NEW f \in all, e.id = f.id PROVE e = f
    <3>1. CASE e \in edges /\ f \in edges BY <2>1, <3>1 DEF EdgesOK
    <3>2. CASE \E x \in new : e = Composition!Numbered(x, n[x])
      <4>1. PICK x \in new : e = Composition!Numbered(x, n[x]) BY <3>2
      <4>2. QED BY <1>4, <1>6, <1>7, <2>1, <4>1
    <3>3. CASE e \in edges /\ \E x \in new : f = Composition!Numbered(x, n[x])
      BY <1>6, <2>1, <3>3
    <3>4. QED BY <1>4, <3>1, <3>2, <3>3
  <2>2. QED BY <2>1
<1>9. IsFiniteSet(all) BY FiniteDrawing DEF EdgesOK, NewEdges
<1>10. EdgesOK(all, ids) BY <1>5, <1>8, <1>9 DEF EdgesOK
<1>11. \A e \in all : e \in edges \/ \E x \in new : SameJoin(e, x) BY <1>3, <1>4
<1>12. \A x \in new : \E e \in all : SameJoin(e, x) BY <1>1, <1>3
<1>13. QED BY <1>10, <1>11, <1>12

-----------------------------------------------------------------------------
(* The graph and its registers.                                            *)

CompFields == {"nodes", "edges", "routes", "calls", "endpoints", "inputs", "transitions",
               "alias", "rows", "path"}

GraphOK(g) ==
    /\ DOMAIN g = CompFields
    /\ NodeList(g.nodes) /\ EdgesOK(g.edges, Ids(g.nodes))

Registers(g) ==
    /\ SomeList(g.routes) /\ SomeList(g.calls) /\ SomeList(g.endpoints)
    /\ SomeList(g.inputs) /\ SomeList(g.transitions)

\* What is registered has a node, but for calls and endpoints of probes.
Placed(g) ==
    /\ \A r \in Listed(g.routes) : Composition!ScreenId(r) \in Ids(g.nodes)
    /\ \A c \in Listed(g.calls) : ~Composition!Probe(c.path) =>
         Composition!CallId(Composition!Key(c)) \in Ids(g.nodes)
    /\ \A e \in Listed(g.endpoints) :
         /\ e \in Endpoints
         /\ ~Composition!Probe(e.path) => Composition!EndpointId(e) \in Ids(g.nodes)
    /\ Listed(g.inputs) \subseteq Ids(g.nodes)
    /\ Listed(g.transitions) \subseteq Ids(g.nodes)
    /\ g.alias \subseteq Ids(g.nodes)

PathOK(g) == Listed(g.path) \subseteq Ids(g.nodes) /\ Distinct(g.path)

CompOK(g) == GraphOK(g) /\ Registers(g) /\ Placed(g) /\ PathOK(g)

\* Two graphs with the same registers.
SameButGraph(g, h) ==
    /\ DOMAIN h = DOMAIN g
    /\ h.routes = g.routes /\ h.calls = g.calls /\ h.endpoints = g.endpoints
    /\ h.inputs = g.inputs /\ h.transitions = g.transitions /\ h.alias = g.alias
    /\ h.rows = g.rows /\ h.path = g.path

LEMMA NodesGrow ==
    ASSUME NEW g, GraphOK(g), NEW new, SomeList(new), \A n \in Listed(new) : WellTyped(n),
           NEW h, h = Composition!WithNodes(g, new)
    PROVE  /\ GraphOK(h) /\ SameButGraph(g, h) /\ h.edges = g.edges
           /\ Ids(h.nodes) = Ids(g.nodes) \cup Ids(new)
<1>1. h = [g EXCEPT !.nodes = Plus(g.nodes, new)] BY DEF Composition!WithNodes, Plus, Ids
<1>2. DOMAIN g = CompFields /\ NodeList(g.nodes) /\ EdgesOK(g.edges, Ids(g.nodes)) BY DEF GraphOK
<1> PICK plus : plus = Plus(g.nodes, new) OBVIOUS
<1>3. NodeList(plus) /\ Ids(plus) = Ids(g.nodes) \cup Ids(new) BY <1>2, PlusIs
<1>4. h.nodes = plus /\ h.edges = g.edges /\ SameButGraph(g, h)
  BY <1>1, <1>2 DEF CompFields, SameButGraph
<1>5. EdgesOK(h.edges, Ids(h.nodes)) BY <1>2, <1>3, <1>4 DEF EdgesOK
<1>6. DOMAIN h = CompFields BY <1>2, <1>4 DEF SameButGraph
<1>7. QED BY <1>3, <1>4, <1>5, <1>6 DEF GraphOK

LEMMA OneNode ==
    ASSUME NEW g, GraphOK(g), NEW id, NEW type, NEW file, NEW of,
           WellTyped(Composition!NewNode(id, type, file, of)),
           NEW h, h = Composition!WithNode(g, id, type, file, of)
    PROVE  /\ GraphOK(h) /\ SameButGraph(g, h) /\ h.edges = g.edges
           /\ Ids(h.nodes) = Ids(g.nodes) \cup {id}
<1> PICK n : n = Composition!NewNode(id, type, file, of) OBVIOUS
<1> PICK new : new = <<n>> OBVIOUS
<1>1. SomeList(new) BY ShortLists
<1>2. Listed(new) = {n} BY DEF Listed
<1>3. n.id = id BY DEF Composition!NewNode
<1>4. Ids(new) = {id} BY <1>2, <1>3, IdsAre
<1>5. h = Composition!WithNodes(g, new) BY DEF Composition!WithNode
<1>6. \A m \in Listed(new) : WellTyped(m) BY <1>2
<1>7. QED BY <1>1, <1>4, <1>5, <1>6, NodesGrow

\* What the new edges join is joined, and nothing else.
Joined(old, edges, new) ==
    /\ old \subseteq edges
    /\ \A e \in edges : e \in old \/ \E x \in new : SameJoin(e, x)
    /\ \A x \in new : \E e \in edges : SameJoin(e, x)

LEMMA EdgesGrow ==
    ASSUME NEW g, GraphOK(g), NEW new, NewEdges(new, Ids(g.nodes)),
           NEW h, h = Composition!WithEdges(g, new)
    PROVE  /\ GraphOK(h) /\ SameButGraph(g, h) /\ h.nodes = g.nodes
           /\ Joined(g.edges, h.edges, new)
<1> PICK edges : edges = Drawing(g.edges, new) OBVIOUS
<1>1. h = [g EXCEPT !.edges = edges] BY DEF Composition!WithEdges, Drawing
<1>2. DOMAIN g = CompFields /\ EdgesOK(g.edges, Ids(g.nodes)) BY DEF GraphOK
<1>3. h.edges = edges /\ h.nodes = g.nodes /\ SameButGraph(g, h)
  BY <1>1, <1>2 DEF CompFields, SameButGraph
<1>4. /\ EdgesOK(edges, Ids(g.nodes))
      /\ \A e \in edges : e \in g.edges \/ \E x \in new : SameJoin(e, x)
      /\ \A x \in new : \E e \in edges : SameJoin(e, x)
  BY <1>2, DrawingIs
<1>5. g.edges \subseteq edges BY DEF Drawing
<1>6. QED BY <1>2, <1>3, <1>4, <1>5 DEF GraphOK, Joined, SameButGraph

\* A graph that grows, and whose registers take up what has a node.
LEMMA Grows ==
    ASSUME NEW g, CompOK(g), NEW h, GraphOK(h), Ids(g.nodes) \subseteq Ids(h.nodes),
           Registers(h), h.path = g.path,
           \A r \in Listed(h.routes) :
              r \in Listed(g.routes) \/ Composition!ScreenId(r) \in Ids(h.nodes),
           \A c \in Listed(h.calls) : c \in Listed(g.calls) \/ Composition!Probe(c.path)
              \/ Composition!CallId(Composition!Key(c)) \in Ids(h.nodes),
           \A e \in Listed(h.endpoints) : e \in Listed(g.endpoints)
              \/ (e \in Endpoints /\ (Composition!Probe(e.path)
                                       \/ Composition!EndpointId(e) \in Ids(h.nodes))),
           Listed(h.inputs) \subseteq Ids(h.nodes), Listed(h.transitions) \subseteq Ids(h.nodes),
           h.alias \subseteq Ids(h.nodes)
    PROVE  CompOK(h)
<1>1. Placed(h) BY DEF Placed, CompOK
<1>2. PathOK(h) BY DEF PathOK, CompOK
<1>3. QED BY <1>1, <1>2 DEF CompOK

LEMMA GrowsQuietly ==
    ASSUME NEW g, CompOK(g), NEW h, GraphOK(h), Ids(g.nodes) \subseteq Ids(h.nodes),
           SameButGraph(g, h)
    PROVE  CompOK(h)
<1>1. Registers(h) /\ h.path = g.path BY DEF CompOK, Registers, SameButGraph
<1>2. /\ Listed(h.inputs) \subseteq Ids(h.nodes) /\ Listed(h.transitions) \subseteq Ids(h.nodes)
      /\ h.alias \subseteq Ids(h.nodes)
  BY DEF CompOK, Placed, SameButGraph
<1>3. h.routes = g.routes /\ h.calls = g.calls /\ h.endpoints = g.endpoints BY DEF SameButGraph
<1>4. /\ \A r \in Listed(h.routes) : r \in Listed(g.routes)
      /\ \A c \in Listed(h.calls) : c \in Listed(g.calls)
      /\ \A e \in Listed(h.endpoints) : e \in Listed(g.endpoints)
  BY <1>3
<1>5. QED BY <1>1, <1>2, <1>4, Grows

-----------------------------------------------------------------------------
(* What is read from the registers.                                        *)

AtMostOne(S) == \A x, y \in S : x = y

LEMMA FirstIsListed ==
    ASSUME NEW list, SomeList(list), NEW places, places \subseteq DOMAIN list
    PROVE  /\ Composition!FirstOf(list, places) \subseteq Listed(list)
           /\ AtMostOne(Composition!FirstOf(list, places))
           /\ IsFiniteSet(Composition!FirstOf(list, places))
           /\ \A x \in Composition!FirstOf(list, places) : \E i \in places : x = list[i]
           /\ places # {} => Composition!FirstOf(list, places) # {}
<1> PICK first : first = Composition!FirstOf(list, places) OBVIOUS
<1>1. DOMAIN list \subseteq Nat BY ListsDomain
<1>2. CASE places = {}
  <2>1. first = {} BY <1>2 DEF Composition!FirstOf
  <2>2. IsFiniteSet(first) BY <2>1, FS_EmptySet
  <2>3. QED BY <1>2, <2>1, <2>2 DEF AtMostOne
<1>3. CASE places # {}
  <2> PICK i : i = Composition!First(places) OBVIOUS
  <2>1. i \in places BY <1>1, <1>3, ComposedFirst
  <2>2. first = {list[i]} BY <1>3 DEF Composition!FirstOf
  <2>3. IsFiniteSet(first) BY <2>2, FS_Singleton
  <2>4. QED BY <2>1, <2>2, <2>3 DEF AtMostOne, Listed
<1>4. QED BY <1>2, <1>3

LEMMA LastIsListed ==
    ASSUME NEW list, SomeList(list), NEW places, places \subseteq DOMAIN list
    PROVE  /\ AtMostOne(Composition!LastOf(list, places))
           /\ IsFiniteSet(Composition!LastOf(list, places))
           /\ \A x \in Composition!LastOf(list, places) : \E i \in places : x = list[i]
           /\ places # {} => Composition!LastOf(list, places) # {}
<1> PICK last : last = Composition!LastOf(list, places) OBVIOUS
<1>1. DOMAIN list = 1..Len(list) /\ Len(list) \in Nat BY ListsDomain
<1>2. CASE places = {}
  <2>1. last = {} BY <1>2 DEF Composition!LastOf
  <2>2. IsFiniteSet(last) BY <2>1, FS_EmptySet
  <2>3. QED BY <1>2, <2>1, <2>2 DEF AtMostOne
<1>3. CASE places # {}
  <2> PICK i : i = Composition!Latest(places) OBVIOUS
  <2>1. i \in places BY <1>1, <1>3, ComposedFirst
  <2>2. last = {list[i]} BY <1>3 DEF Composition!LastOf
  <2>3. IsFiniteSet(last) BY <2>2, FS_Singleton
  <2>4. QED BY <2>1, <2>2, <2>3 DEF AtMostOne
<1>4. QED BY <1>2, <1>3

LEMMA FiniteListed == ASSUME NEW s, SomeList(s) PROVE IsFiniteSet(Listed(s))
<1> PICK I : I = DOMAIN s OBVIOUS
<1>1. Len(s) \in Nat /\ I = 1..Len(s) BY ListsDomain
<1>2. IsFiniteSet(I) BY <1>1, FS_Interval
<1>3. IsFiniteSet({s[i] : i \in I}) BY <1>2, FiniteImage
<1>4. QED BY <1>3 DEF Listed

\* The screens that a field, an event or a validation may be shown on: one of
\* the routes', or none.
SomeScreen(S, routes) ==
    /\ IsFiniteSet(S) /\ AtMostOne(S)
    /\ \A s \in S : \E r \in Listed(routes) : s = Composition!ScreenId(r)

LEMMA ScreenOf ==
    ASSUME NEW routes, SomeList(routes), NEW places, places \subseteq DOMAIN routes,
           NEW S, S = {Composition!ScreenId(r) : r \in Composition!FirstOf(routes, places)}
    PROVE  SomeScreen(S, routes)
<1> PICK F : F = Composition!FirstOf(routes, places) OBVIOUS
<1>1. F \subseteq Listed(routes) /\ AtMostOne(F) /\ IsFiniteSet(F) BY FirstIsListed
<1> PICK g : g = [r \in F |-> Composition!ScreenId(r)] OBVIOUS
<1>2. S = {g[r] : r \in F} OBVIOUS
<1>3. IsFiniteSet(S) BY <1>1, <1>2, FiniteImage
<1>4. QED BY <1>1, <1>3 DEF SomeScreen, AtMostOne

LEMMA FirstScreenIs ==
    ASSUME NEW g, SomeList(g.routes) PROVE SomeScreen(Composition!FirstScreen(g), g.routes)
BY ScreenOf DEF Composition!FirstScreen

LEMMA ScreenForIs ==
    ASSUME NEW g, SomeList(g.routes), NEW file
    PROVE  SomeScreen(Composition!ScreenFor(g, file), g.routes)
<1> PICK same : same = {i \in DOMAIN g.routes :
        Composition!NodeOf(g, Composition!ScreenId(g.routes[i])).file = file} OBVIOUS
<1>1. same \subseteq DOMAIN g.routes OBVIOUS
<1> PICK S : S = {Composition!ScreenId(r) : r \in Composition!FirstOf(g.routes, same)} OBVIOUS
<1>2. SomeScreen(S, g.routes) BY <1>1, ScreenOf
<1>3. Composition!ScreenFor(g, file) = IF same = {} THEN Composition!FirstScreen(g) ELSE S
  BY DEF Composition!ScreenFor
<1>4. QED BY <1>2, <1>3, FirstScreenIs

\* Edges of which each has a name of its own.
Spread(S, name, from, to, type) ==
    {Composition!NewEdge(name[x], from[x], to[x], type) : x \in S}

LEMMA SomeEdges ==
    ASSUME NEW S, IsFiniteSet(S), NEW ids, NEW name, NEW from, NEW to, NEW type,
           \A x \in S : from[x] \in ids /\ to[x] \in ids,
           \A x, y \in S : name[x] = name[y] => x = y
    PROVE  /\ NewEdges(Spread(S, name, from, to, type), ids)
           /\ \A e \in Spread(S, name, from, to, type) : \E x \in S : e.name = name[x]
<1> PICK new : new = Spread(S, name, from, to, type) OBVIOUS
<1> PICK g : g = [x \in S |-> Composition!NewEdge(name[x], from[x], to[x], type)] OBVIOUS
<1>1. new = {g[x] : x \in S} BY DEF Spread
<1>2. IsFiniteSet(new) BY <1>1, FiniteImage
<1>3. \A x \in S : /\ g[x].name = name[x]
                   /\ g[x].from = from[x] /\ g[x].to = to[x]
  BY DEF Composition!NewEdge
<1>4. \A e \in new : \E x \in S : e = g[x] BY <1>1
<1>5. \A e \in new : e.from \in ids /\ e.to \in ids BY <1>3, <1>4
<1>6. \A e, f \in new : e.name = f.name => e = f BY <1>3, <1>4
<1>7. \A e \in new : \E x \in S : e.name = name[x] BY <1>3, <1>4
<1>8. QED BY <1>2, <1>5, <1>6, <1>7 DEF NewEdges

\* Edges of different kinds, each with names of its own.
LEMMA MoreEdges ==
    ASSUME NEW a, NEW b, NEW ids, NewEdges(a, ids), NewEdges(b, ids),
           \A e \in a, f \in b : e.name # f.name
    PROVE  NewEdges(a \cup b, ids)
<1>1. IsFiniteSet(a \cup b) BY FS_Union DEF NewEdges
<1>2. QED BY <1>1 DEF NewEdges

LEMMA WiderEdges ==
    ASSUME NEW a, NEW ids, NEW more, NewEdges(a, ids), ids \subseteq more
    PROVE  NewEdges(a, more)
BY DEF NewEdges

-----------------------------------------------------------------------------
(* The steps that read the lists of the analyses.                          *)

LEMMA ToSetIs == ASSUME NEW list PROVE Composition!ToSet(list) = Listed(list)
BY DEF Composition!ToSet, Listed

LEMMA OneEdge ==
    ASSUME NEW ids, NEW name, NEW from \in ids, NEW to \in ids, NEW type
    PROVE  NewEdges({Composition!NewEdge(name, from, to, type)}, ids)
<1>1. IsFiniteSet({Composition!NewEdge(name, from, to, type)}) BY FS_Singleton
<1>2. QED BY <1>1 DEF NewEdges, Composition!NewEdge

LEMMA TwoEdges ==
    ASSUME NEW a, NEW b, NEW ids, NewEdges({a}, ids), NewEdges({b}, ids), a.name # b.name
    PROVE  NewEdges({a, b}, ids)
<1>1. NewEdges({a} \cup {b}, ids) BY MoreEdges
<1>2. {a, b} = {a} \cup {b} OBVIOUS
<1>3. QED BY <1>1, <1>2

LEMMA NoEdges == ASSUME NEW ids PROVE NewEdges({}, ids)
BY FS_EmptySet DEF NewEdges

\* Edges from what is one or none to a node, or from a node to it.
Froms(S, name, id, type) == {Composition!NewEdge(name[s], s, id, type) : s \in S}
Tos(S, name, id, type) == {Composition!NewEdge(name[s], id, s, type) : s \in S}

LEMMA EdgesFrom ==
    ASSUME NEW S, IsFiniteSet(S), AtMostOne(S), NEW ids, S \subseteq ids, NEW id \in ids,
           NEW name, NEW type
    PROVE  NewEdges(Froms(S, name, id, type), ids)
<1>a. PICK new : new = Froms(S, name, id, type) OBVIOUS
<1>1. CASE S = {}
  <2>1. new = {} BY <1>1, <1>a DEF Froms
  <2>2. QED BY <2>1, <1>a, NoEdges
<1>2. CASE S # {}
  <2>1. PICK s : s \in S BY <1>2
  <2>2. S = {s} BY <2>1 DEF AtMostOne
  <2>3. new = {Composition!NewEdge(name[s], s, id, type)} BY <2>2, <1>a DEF Froms
  <2>4. s \in ids BY <2>1
  <2>5. QED BY <2>3, <2>4, <1>a, OneEdge
<1>3. QED BY <1>1, <1>2

LEMMA EdgesTo ==
    ASSUME NEW S, IsFiniteSet(S), AtMostOne(S), NEW ids, S \subseteq ids, NEW id \in ids,
           NEW name, NEW type
    PROVE  NewEdges(Tos(S, name, id, type), ids)
<1>a. PICK new : new = Tos(S, name, id, type) OBVIOUS
<1>1. CASE S = {}
  <2>1. new = {} BY <1>1, <1>a DEF Tos
  <2>2. QED BY <2>1, <1>a, NoEdges
<1>2. CASE S # {}
  <2>1. PICK s : s \in S BY <1>2
  <2>2. S = {s} BY <2>1 DEF AtMostOne
  <2>3. new = {Composition!NewEdge(name[s], id, s, type)} BY <2>2, <1>a DEF Tos
  <2>4. s \in ids BY <2>1
  <2>5. QED BY <2>3, <2>4, <1>a, OneEdge
<1>3. QED BY <1>1, <1>2

\* No edge that leads from a call is drawn.
NoCall(old, edges) == \A x \in edges : x \in old \/ x.type # "calls" \/ x.from[1] # "call"

LEMMA NoCallJoined ==
    ASSUME NEW old, NEW edges, NEW new, Joined(old, edges, new),
           \A y \in new : y.type # "calls" \/ y.from[1] # "call"
    PROVE  NoCall(old, edges)
BY DEF Joined, SameJoin, NoCall

LEMMA FromsTypes ==
    ASSUME NEW S, NEW name, NEW id, NEW type
    PROVE  /\ \A e \in Froms(S, name, id, type) : e.type = type
           /\ \A e \in Tos(S, name, id, type) : e.type = type
           /\ \A from, to : \A e \in Spread(S, name, from, to, type) : e.type = type
BY DEF Froms, Tos, Spread, Composition!NewEdge

LEMMA ScreenStep ==
    ASSUME CompOK(memory), NEW s, Composition!Screen(s)
    PROVE  /\ CompOK(memory') /\ NoCall(memory.edges, memory'.edges)
           /\ memory'.endpoints = memory.endpoints
<1> PICK id : id = Composition!ScreenId(s.route) OBVIOUS
<1> PICK g : g = Composition!WithNode(memory, id, "screen", s.file, <<>>) OBVIOUS
<1> PICK routes : routes = IF s.route \in Composition!ToSet(g.routes) THEN g.routes
                           ELSE Append(g.routes, s.route) OBVIOUS
<1>1. memory' = [g EXCEPT !.routes = routes, !.alias = @ \cup {id}]
  BY DEF Composition!Screen, Composition!Becomes
<1>2. GraphOK(memory) BY DEF CompOK
<1>3. WellTyped(Composition!NewNode(id, "screen", s.file, <<>>))
  BY DEF WellTyped, Composition!NewNode, Composition!ScreenId
<1>4. /\ GraphOK(g) /\ SameButGraph(memory, g) /\ g.edges = memory.edges
      /\ Ids(g.nodes) = Ids(memory.nodes) \cup {id}
  BY <1>2, <1>3, OneNode
<1>5. /\ DOMAIN memory' = DOMAIN g /\ memory'.nodes = g.nodes /\ memory'.edges = g.edges
      /\ memory'.routes = routes /\ memory'.alias = g.alias \cup {id}
      /\ memory'.calls = g.calls /\ memory'.endpoints = g.endpoints
      /\ memory'.inputs = g.inputs /\ memory'.transitions = g.transitions
      /\ memory'.path = g.path
  BY <1>1, <1>4 DEF GraphOK, CompFields
<1>6. GraphOK(memory') BY <1>4, <1>5 DEF GraphOK
<1>7. SomeList(g.routes) BY <1>4 DEF CompOK, Registers, SameButGraph
<1>8. SomeList(routes) /\ \A r \in Listed(routes) : r \in Listed(g.routes) \/ r = s.route
  BY <1>7, AppendIs
<1>9. Registers(memory') BY <1>4, <1>5, <1>8 DEF CompOK, Registers, SameButGraph
<1>10. /\ Listed(g.inputs) \subseteq Ids(memory.nodes)
       /\ Listed(g.transitions) \subseteq Ids(memory.nodes)
       /\ g.alias \subseteq Ids(memory.nodes)
       /\ g.path = memory.path /\ g.calls = memory.calls /\ g.endpoints = memory.endpoints
       /\ g.routes = memory.routes
  BY <1>4 DEF CompOK, Placed, SameButGraph
<1>11. Ids(memory.nodes) \subseteq Ids(memory'.nodes) /\ id \in Ids(memory'.nodes) BY <1>4, <1>5
<1>12. /\ Listed(memory'.inputs) \subseteq Ids(memory'.nodes)
       /\ Listed(memory'.transitions) \subseteq Ids(memory'.nodes)
       /\ memory'.alias \subseteq Ids(memory'.nodes)
  BY <1>5, <1>10, <1>11
<1>13. \A r \in Listed(memory'.routes) :
         r \in Listed(memory.routes) \/ Composition!ScreenId(r) \in Ids(memory'.nodes)
  BY <1>5, <1>8, <1>10, <1>11
<1>14. CompOK(memory') BY <1>5, <1>6, <1>9, <1>10, <1>11, <1>12, <1>13, Grows
<1>15. NoCall(memory.edges, memory'.edges) BY <1>4, <1>5 DEF NoCall
<1>16. QED BY <1>5, <1>10, <1>14, <1>15

LEMMA LinkStep ==
    ASSUME CompOK(memory), NEW route, NEW l, Composition!Link(route, l)
    PROVE  /\ CompOK(memory') /\ NoCall(memory.edges, memory'.edges)
           /\ memory'.endpoints = memory.endpoints
<1>e. PICK none : none = "none" OBVIOUS
<1>a. PICK id : id = <<"link", Cut(route), l.selector, Cut(l.to)>> OBVIOUS
<1>b. PICK g : g = Composition!WithNode(memory, id, "event", none, <<>>) OBVIOUS
<1>c. PICK a : a = Composition!NewEdge(<<"screen-event", Cut(route), l.selector>>,
                   Composition!ScreenId(route), id, "triggers") OBVIOUS
<1>d. PICK b : b = Composition!NewEdge(<<"event-screen", l.selector, Cut(l.to)>>, id,
                   Composition!ScreenId(l.to), "navigates_to") OBVIOUS
<1>1. memory' = Composition!WithEdges(g, {a, b}) /\ {route, l.to} \subseteq Listed(memory.routes)
  BY <1>a, <1>b, <1>c, <1>d, <1>e, ToSetIs DEF Composition!Link, Composition!Becomes
<1>2. GraphOK(memory) BY DEF CompOK
<1>3. WellTyped(Composition!NewNode(id, "event", none, <<>>))
  BY <1>a DEF WellTyped, Composition!NewNode
<1>4. /\ GraphOK(g) /\ SameButGraph(memory, g) /\ g.edges = memory.edges
      /\ Ids(g.nodes) = Ids(memory.nodes) \cup {id}
  BY <1>2, <1>3, <1>b, OneNode
<1>5. /\ Composition!ScreenId(route) \in Ids(g.nodes) /\ Composition!ScreenId(l.to) \in Ids(g.nodes)
      /\ id \in Ids(g.nodes)
  BY <1>1, <1>4 DEF CompOK, Placed
<1>6. NewEdges({a}, Ids(g.nodes)) /\ NewEdges({b}, Ids(g.nodes)) BY <1>5, <1>c, <1>d, OneEdge
<1>7. a.name # b.name
  <2>1. a.name[1] = "screen-event" /\ b.name[1] = "event-screen"
    BY <1>c, <1>d DEF Composition!NewEdge
  <2>2. QED BY <2>1
<1>8. NewEdges({a, b}, Ids(g.nodes)) BY <1>6, <1>7, TwoEdges
<1>9. /\ GraphOK(memory') /\ SameButGraph(g, memory') /\ memory'.nodes = g.nodes
      /\ Joined(g.edges, memory'.edges, {a, b})
  BY <1>1, <1>4, <1>8, EdgesGrow
<1>10. SameButGraph(memory, memory') BY <1>4, <1>9 DEF SameButGraph
<1>11. Ids(memory.nodes) \subseteq Ids(memory'.nodes) BY <1>4, <1>9
<1>12. CompOK(memory') BY <1>9, <1>10, <1>11, GrowsQuietly
<1>13. a.type # "calls" /\ b.type # "calls" BY <1>c, <1>d DEF Composition!NewEdge
<1>14. NoCall(memory.edges, memory'.edges) BY <1>4, <1>9, <1>13, NoCallJoined
<1>15. QED BY <1>10, <1>12, <1>14 DEF SameButGraph

LEMMA SameTwice ==
    ASSUME NEW a, NEW b, NEW c, SameButGraph(a, b), SameButGraph(b, c) PROVE SameButGraph(a, c)
BY DEF SameButGraph

\* What has a node is noted, and nothing else changes.
LEMMA Noted ==
    ASSUME NEW g, CompOK(g), NEW h, GraphOK(h), SameButGraph(g, h),
           Ids(g.nodes) \subseteq Ids(h.nodes), NEW id \in Ids(h.nodes),
           NEW k, DOMAIN k = DOMAIN h, k.nodes = h.nodes, k.edges = h.edges,
           k.routes = h.routes, k.calls = h.calls, k.endpoints = h.endpoints, k.path = h.path,
           k.inputs = h.inputs \/ k.inputs = Append(h.inputs, id),
           k.transitions = h.transitions \/ k.transitions = Append(h.transitions, id),
           k.alias = h.alias \cup {id}
    PROVE  CompOK(k)
<1>1. GraphOK(k) BY DEF GraphOK
<1>2. Registers(g) /\ Placed(g) BY DEF CompOK
<1>3. /\ h.routes = g.routes /\ h.calls = g.calls /\ h.endpoints = g.endpoints
      /\ h.inputs = g.inputs /\ h.transitions = g.transitions /\ h.alias = g.alias
      /\ h.path = g.path
  BY DEF SameButGraph
<1>4. SomeList(h.inputs) /\ SomeList(h.transitions) BY <1>2, <1>3 DEF Registers
<1>a. ASSUME NEW s, SomeList(s), NEW t, t = s \/ t = Append(s, id)
      PROVE  SomeList(t) /\ Listed(t) \subseteq Listed(s) \cup {id}
  <2>1. CASE t = s BY <1>a, <2>1
  <2>2. CASE t = Append(s, id) BY <1>a, <2>2, AppendIs
  <2>3. QED BY <1>a, <2>1, <2>2
<1>5. SomeList(k.inputs) /\ Listed(k.inputs) \subseteq Listed(g.inputs) \cup {id}
  BY <1>3, <1>4, <1>a
<1>6. SomeList(k.transitions) /\ Listed(k.transitions) \subseteq Listed(g.transitions) \cup {id}
  BY <1>3, <1>4, <1>a
<1>7. Registers(k) BY <1>2, <1>3, <1>5, <1>6 DEF Registers
<1>8. /\ Listed(k.inputs) \subseteq Ids(k.nodes) /\ Listed(k.transitions) \subseteq Ids(k.nodes)
      /\ k.alias \subseteq Ids(k.nodes)
  BY <1>2, <1>3, <1>5, <1>6 DEF Placed
<1>9. /\ \A r \in Listed(k.routes) : r \in Listed(g.routes)
      /\ \A c \in Listed(k.calls) : c \in Listed(g.calls)
      /\ \A e \in Listed(k.endpoints) : e \in Listed(g.endpoints)
      /\ k.path = g.path /\ Ids(g.nodes) \subseteq Ids(k.nodes)
  BY <1>3
<1>10. QED BY <1>1, <1>7, <1>8, <1>9, Grows

\* A screen of the routes has a node.
LEMMA ScreensPlaced ==
    ASSUME NEW g, CompOK(g), NEW S, SomeScreen(S, g.routes)
    PROVE  S \subseteq Ids(g.nodes) /\ IsFiniteSet(S) /\ AtMostOne(S)
BY DEF SomeScreen, CompOK, Placed

LEMMA CallStep ==
    ASSUME CompOK(memory), NEW c, Composition!Call(c)
    PROVE  /\ CompOK(memory') /\ NoCall(memory.edges, memory'.edges)
           /\ memory'.endpoints = memory.endpoints
<1>a. PICK id : id = Composition!CallId(Composition!Key(c)) OBVIOUS
<1>b. PICK none : none = "none" OBVIOUS
<1>c. PICK seen : seen = [memory EXCEPT !.calls = Append(@, c)] OBVIOUS
<1>d. PICK more : more = [seen EXCEPT !.alias = @ \cup {id}] OBVIOUS
<1>e. PICK g : g = Composition!WithNode(more, id, "frontend_api_call", none, <<>>) OBVIOUS
<1>f. PICK from : from = {c.from} \cap Composition!ToSet(memory.routes) OBVIOUS
<1>g. PICK new : new = {Composition!NewEdge(<<"screen-call", id>>, Composition!ScreenId(r), id,
                                            "triggers") : r \in from} OBVIOUS
<1>1. memory' = IF Composition!Probe(c.path) THEN seen ELSE Composition!WithEdges(g, new)
  BY <1>a, <1>b, <1>c, <1>d, <1>e, <1>f, <1>g DEF Composition!Call, Composition!Becomes
<1>2. GraphOK(memory) /\ Registers(memory) /\ Placed(memory) BY DEF CompOK
<1>3. /\ DOMAIN seen = DOMAIN memory /\ seen.nodes = memory.nodes /\ seen.edges = memory.edges
      /\ seen.routes = memory.routes /\ seen.calls = Append(memory.calls, c)
      /\ seen.endpoints = memory.endpoints /\ seen.inputs = memory.inputs
      /\ seen.transitions = memory.transitions /\ seen.alias = memory.alias
      /\ seen.path = memory.path
  BY <1>2, <1>c DEF GraphOK, CompFields
<1>4. /\ DOMAIN more = DOMAIN memory /\ more.nodes = memory.nodes /\ more.edges = memory.edges
      /\ more.routes = memory.routes /\ more.calls = Append(memory.calls, c)
      /\ more.endpoints = memory.endpoints /\ more.inputs = memory.inputs
      /\ more.transitions = memory.transitions /\ more.alias = memory.alias \cup {id}
      /\ more.path = memory.path
  BY <1>2, <1>3, <1>d DEF GraphOK, CompFields
<1>5. SomeList(Append(memory.calls, c))
      /\ \A d \in Listed(Append(memory.calls, c)) : d \in Listed(memory.calls) \/ d = c
  BY <1>2, AppendIs DEF Registers
<1>6. CASE Composition!Probe(c.path)
  <2>1. memory' = seen BY <1>1, <1>6
  <2>2. GraphOK(seen) BY <1>2, <1>3 DEF GraphOK
  <2>3. Registers(seen) BY <1>2, <1>3, <1>5 DEF Registers
  <2>4. /\ Listed(seen.inputs) \subseteq Ids(seen.nodes) /\ seen.alias \subseteq Ids(seen.nodes)
        /\ Listed(seen.transitions) \subseteq Ids(seen.nodes)
    BY <1>2, <1>3 DEF Placed
  <2>5. /\ \A r \in Listed(seen.routes) : r \in Listed(memory.routes)
        /\ \A d \in Listed(seen.calls) : d \in Listed(memory.calls) \/ Composition!Probe(d.path)
        /\ \A e \in Listed(seen.endpoints) : e \in Listed(memory.endpoints)
        /\ seen.path = memory.path /\ Ids(memory.nodes) \subseteq Ids(seen.nodes)
    BY <1>3, <1>5, <1>6
  <2>6. CompOK(seen) BY <2>2, <2>3, <2>4, <2>5, Grows
  <2>7. NoCall(memory.edges, memory'.edges) BY <1>3, <2>1 DEF NoCall
  <2>8. QED BY <1>3, <2>1, <2>6, <2>7
<1>7. CASE ~Composition!Probe(c.path)
  <2>1. GraphOK(more) BY <1>2, <1>4 DEF GraphOK
  <2>2. WellTyped(Composition!NewNode(id, "frontend_api_call", none, <<>>))
    BY <1>a DEF WellTyped, Composition!NewNode, Composition!CallId
  <2>3. /\ GraphOK(g) /\ SameButGraph(more, g) /\ Ids(g.nodes) = Ids(more.nodes) \cup {id}
        /\ g.edges = more.edges
    BY <2>1, <2>2, <1>e, OneNode
  <2>4. NewEdges(new, Ids(g.nodes))
    <3>1. CASE c.from \in Listed(memory.routes)
      <4>1. from = {c.from} BY <3>1, <1>f, ToSetIs
      <4>2. new = {Composition!NewEdge(<<"screen-call", id>>, Composition!ScreenId(c.from), id,
                                       "triggers")}
        BY <4>1, <1>g
      <4>3. Composition!ScreenId(c.from) \in Ids(g.nodes) /\ id \in Ids(g.nodes)
        BY <1>2, <1>4, <2>3, <3>1 DEF Placed
      <4>4. QED BY <4>2, <4>3, OneEdge
    <3>2. CASE c.from \notin Listed(memory.routes)
      <4>1. from = {} BY <3>2, <1>f, ToSetIs
      <4>2. new = {} BY <4>1, <1>g
      <4>3. QED BY <4>2, NoEdges
    <3>3. QED BY <3>1, <3>2
  <2>5. memory' = Composition!WithEdges(g, new) BY <1>1, <1>7
  <2>6. /\ GraphOK(memory') /\ SameButGraph(g, memory') /\ memory'.nodes = g.nodes
        /\ Joined(g.edges, memory'.edges, new)
    BY <2>3, <2>4, <2>5, EdgesGrow
  <2>7. SameButGraph(more, memory') BY <2>3, <2>6, SameTwice
  <2>8. /\ memory'.routes = memory.routes /\ memory'.calls = Append(memory.calls, c)
        /\ memory'.endpoints = memory.endpoints /\ memory'.inputs = memory.inputs
        /\ memory'.transitions = memory.transitions /\ memory'.alias = memory.alias \cup {id}
        /\ memory'.path = memory.path
    BY <1>4, <2>7 DEF SameButGraph
  <2>9. Ids(memory'.nodes) = Ids(memory.nodes) \cup {id} BY <1>4, <2>3, <2>6
  <2>10. Registers(memory') BY <1>2, <1>5, <2>8 DEF Registers
  <2>11. /\ Listed(memory'.inputs) \subseteq Ids(memory'.nodes)
         /\ memory'.alias \subseteq Ids(memory'.nodes)
         /\ Listed(memory'.transitions) \subseteq Ids(memory'.nodes)
    BY <1>2, <2>8, <2>9 DEF Placed
  <2>12. /\ \A r \in Listed(memory'.routes) : r \in Listed(memory.routes)
         /\ \A d \in Listed(memory'.calls) : d \in Listed(memory.calls)
              \/ Composition!CallId(Composition!Key(d)) \in Ids(memory'.nodes)
         /\ \A e \in Listed(memory'.endpoints) : e \in Listed(memory.endpoints)
         /\ Ids(memory.nodes) \subseteq Ids(memory'.nodes)
    BY <1>a, <1>5, <2>8, <2>9
  <2>13. CompOK(memory') BY <2>6, <2>8, <2>10, <2>11, <2>12, Grows
  <2>14. \A y \in new : y.type # "calls" BY <1>g DEF Composition!NewEdge
  <2>15. NoCall(memory.edges, memory'.edges) BY <1>4, <2>3, <2>6, <2>14, NoCallJoined
  <2>16. QED BY <2>8, <2>13, <2>15
<1>8. QED BY <1>6, <1>7

LEMMA InputStep ==
    ASSUME CompOK(memory), NEW x, Composition!Input(x)
    PROVE  /\ CompOK(memory') /\ NoCall(memory.edges, memory'.edges)
           /\ memory'.endpoints = memory.endpoints
<1>a. PICK id : id = <<"input", x.field, x.line>> OBVIOUS
<1>b. PICK type : type = IF x.trigger THEN "event" ELSE "input" OBVIOUS
<1>c. PICK g : g = Composition!WithNode(memory, id, type, x.file, <<>>) OBVIOUS
<1>d. PICK S : S = Composition!ScreenFor(memory, x.file) OBVIOUS
<1>e. PICK name : name = [s \in S |-> <<"screen-input", s, x.field>>] OBVIOUS
<1>f. PICK new : new = Froms(S, name, id, "contains") OBVIOUS
<1>g. PICK h : h = Composition!WithEdges(g, new) OBVIOUS
<1>0. new = {Composition!NewEdge(<<"screen-input", s, x.field>>, s, id, "contains") : s \in S}
  BY <1>e, <1>f DEF Froms
<1>1. memory' = [h EXCEPT !.inputs = Append(@, id), !.alias = @ \cup {id}]
  BY <1>0, <1>a, <1>b, <1>c, <1>d, <1>g DEF Composition!Input, Composition!Becomes
<1>2. GraphOK(memory) /\ Registers(memory) BY DEF CompOK
<1>3. WellTyped(Composition!NewNode(id, type, x.file, <<>>))
  BY <1>a, <1>b DEF WellTyped, Composition!NewNode
<1>4. /\ GraphOK(g) /\ SameButGraph(memory, g) /\ Ids(g.nodes) = Ids(memory.nodes) \cup {id}
      /\ g.edges = memory.edges
  BY <1>2, <1>3, <1>c, OneNode
<1>5. S \subseteq Ids(memory.nodes) /\ IsFiniteSet(S) /\ AtMostOne(S)
  BY <1>2, <1>d, ScreenForIs, ScreensPlaced DEF Registers
<1>6. S \subseteq Ids(g.nodes) /\ id \in Ids(g.nodes) BY <1>4, <1>5
<1>7. NewEdges(new, Ids(g.nodes)) BY <1>5, <1>6, <1>f, EdgesFrom
<1>8. /\ GraphOK(h) /\ SameButGraph(g, h) /\ h.nodes = g.nodes /\ Joined(g.edges, h.edges, new)
  BY <1>4, <1>7, <1>g, EdgesGrow
<1>9. SameButGraph(memory, h) BY <1>4, <1>8, SameTwice
<1>10. /\ DOMAIN memory' = DOMAIN h /\ memory'.nodes = h.nodes /\ memory'.edges = h.edges
       /\ memory'.routes = h.routes /\ memory'.calls = h.calls
       /\ memory'.endpoints = h.endpoints /\ memory'.path = h.path
       /\ memory'.inputs = Append(h.inputs, id) /\ memory'.transitions = h.transitions
       /\ memory'.alias = h.alias \cup {id}
  BY <1>1, <1>8 DEF GraphOK, CompFields
<1>11. Ids(memory.nodes) \subseteq Ids(h.nodes) /\ id \in Ids(h.nodes) BY <1>4, <1>8
<1>12. CompOK(memory') BY <1>8, <1>9, <1>10, <1>11, Noted
<1>13. \A y \in new : y.type = "contains" BY <1>f, FromsTypes
<1>14. NoCall(memory.edges, memory'.edges) BY <1>4, <1>8, <1>10, <1>13, NoCallJoined
<1>15. QED BY <1>9, <1>10, <1>12, <1>14 DEF SameButGraph

LEMMA FromsNames ==
    ASSUME NEW S, NEW name, NEW id, NEW type
    PROVE  /\ \A e \in Froms(S, name, id, type) : \E s \in S : e.name = name[s]
           /\ \A e \in Tos(S, name, id, type) : \E s \in S : e.name = name[s]
BY DEF Froms, Tos, Composition!NewEdge

LEMMA EventStep ==
    ASSUME CompOK(memory), NEW x, Composition!Event(x)
    PROVE  /\ CompOK(memory') /\ NoCall(memory.edges, memory'.edges)
           /\ memory'.endpoints = memory.endpoints
<1>a. PICK id : id = <<"event", x.label, x.line>> OBVIOUS
<1>b. PICK g : g = Composition!WithNode(memory, id, "event", x.file, <<>>) OBVIOUS
<1>c. PICK S : S = Composition!ScreenFor(memory, x.file) OBVIOUS
<1>d. PICK n : n = [s \in S |-> <<"screen-event", s, x.label, x.line>>] OBVIOUS
<1>e. PICK a : a = Froms(S, n, id, "contains") OBVIOUS
<1>f. PICK F : F = {f \in Composition!ToSet(g.inputs) :
        Composition!NodeOf(g, f).type = "input" /\ Composition!NodeOf(g, f).file = x.file} OBVIOUS
<1>g. PICK m : m = [f \in F |-> <<"input-event", f, id>>] OBVIOUS
<1>h. PICK i : i = [f \in F |-> f] OBVIOUS
<1>i. PICK j : j = [f \in F |-> id] OBVIOUS
<1>j. PICK b : b = Spread(F, m, i, j, "triggers") OBVIOUS
<1>k. PICK h : h = Composition!WithEdges(g, a \cup b) OBVIOUS
<1>1. a = {Composition!NewEdge(<<"screen-event", s, x.label, x.line>>, s, id, "contains") : s \in S}
  BY <1>d, <1>e DEF Froms
<1>2. b = {Composition!NewEdge(<<"input-event", f, id>>, f, id, "triggers") : f \in F}
  BY <1>g, <1>h, <1>i, <1>j DEF Spread
<1>3. memory' = [h EXCEPT !.alias = @ \cup {id}]
  BY <1>1, <1>2, <1>a, <1>b, <1>c, <1>f, <1>k DEF Composition!Event, Composition!Becomes
<1>4. GraphOK(memory) /\ Registers(memory) /\ Placed(memory) BY DEF CompOK
<1>5. WellTyped(Composition!NewNode(id, "event", x.file, <<>>))
  BY <1>a DEF WellTyped, Composition!NewNode
<1>6. /\ GraphOK(g) /\ SameButGraph(memory, g) /\ Ids(g.nodes) = Ids(memory.nodes) \cup {id}
      /\ g.edges = memory.edges
  BY <1>4, <1>5, <1>b, OneNode
<1>7. S \subseteq Ids(memory.nodes) /\ IsFiniteSet(S) /\ AtMostOne(S)
  BY <1>4, <1>c, ScreenForIs, ScreensPlaced DEF Registers
<1>8. S \subseteq Ids(g.nodes) /\ id \in Ids(g.nodes) BY <1>6, <1>7
<1>9. NewEdges(a, Ids(g.nodes)) BY <1>7, <1>8, <1>e, EdgesFrom
<1>10. NewEdges(b, Ids(g.nodes)) /\ \A e \in b : \E f \in F : e.name = m[f]
  <2>1. SomeList(g.inputs) /\ Listed(g.inputs) \subseteq Ids(g.nodes)
    BY <1>4, <1>6 DEF Registers, Placed, SameButGraph
  <2>2. F \subseteq Listed(g.inputs) BY <1>f, ToSetIs
  <2>3. IsFiniteSet(F) BY <2>1, <2>2, FiniteListed, FS_Subset
  <2>4. \A f \in F : i[f] \in Ids(g.nodes) /\ j[f] \in Ids(g.nodes)
    BY <1>8, <2>1, <2>2, <1>h, <1>i
  <2>5. \A f, k \in F : m[f] = m[k] => f = k BY <1>g
  <2>6. QED BY <2>3, <2>4, <2>5, <1>j, SomeEdges
<1>11. NewEdges(a \cup b, Ids(g.nodes))
  <2>1. \A e \in a : e.name[1] = "screen-event"
    <3>1. \A e \in a : \E s \in S : e.name = n[s] BY <1>e, FromsNames
    <3>2. QED BY <3>1, <1>d
  <2>2. \A e \in b : e.name[1] = "input-event" BY <1>10, <1>g
  <2>3. \A e \in a, f \in b : e.name # f.name BY <2>1, <2>2
  <2>4. QED BY <1>9, <1>10, <2>3, MoreEdges
<1>12. /\ GraphOK(h) /\ SameButGraph(g, h) /\ h.nodes = g.nodes
       /\ Joined(g.edges, h.edges, a \cup b)
  BY <1>6, <1>11, <1>k, EdgesGrow
<1>13. SameButGraph(memory, h) BY <1>6, <1>12, SameTwice
<1>14. /\ DOMAIN memory' = DOMAIN h /\ memory'.nodes = h.nodes /\ memory'.edges = h.edges
       /\ memory'.routes = h.routes /\ memory'.calls = h.calls
       /\ memory'.endpoints = h.endpoints /\ memory'.path = h.path
       /\ memory'.inputs = h.inputs /\ memory'.transitions = h.transitions
       /\ memory'.alias = h.alias \cup {id}
  BY <1>3, <1>12 DEF GraphOK, CompFields
<1>15. Ids(memory.nodes) \subseteq Ids(h.nodes) /\ id \in Ids(h.nodes) BY <1>6, <1>12
<1>16. CompOK(memory') BY <1>12, <1>13, <1>14, <1>15, Noted
<1>17. \A y \in a \cup b : y.type # "calls" BY <1>e, <1>j, FromsTypes
<1>18. NoCall(memory.edges, memory'.edges) BY <1>6, <1>12, <1>14, <1>17, NoCallJoined
<1>19. QED BY <1>13, <1>14, <1>16, <1>18 DEF SameButGraph

LEMMA ValidationStep ==
    ASSUME CompOK(memory), NEW x, Composition!Validation(x)
    PROVE  /\ CompOK(memory') /\ NoCall(memory.edges, memory'.edges)
           /\ memory'.endpoints = memory.endpoints
<1> DEFINE id == <<"validation", x.field, x.kind>>
           g == Composition!WithNode(memory, id, "validation", x.file, <<>>)
           S == Composition!ScreenFor(g, Composition!NodeOf(g, id).file)
           P == {i \in DOMAIN g.calls : ~Composition!Probe(g.calls[i].path)}
           F == Composition!FirstOf(g.calls, P)
           A == {Composition!NewEdge(<<"validation-block", id>>, id, s, "branches_to") : s \in S}
           B == {Composition!NewEdge(<<"validation-call", id>>, id,
                   Composition!CallId(Composition!Key(c)), "triggers") : c \in F}
<1>0. memory' = [Composition!WithEdges(g, A \cup B) EXCEPT !.alias = @ \cup {id}]
  BY DEF Composition!Validation, Composition!Becomes
<1>a. id = <<"validation", x.field, x.kind>> OBVIOUS
<1>b. g = Composition!WithNode(memory, id, "validation", x.file, <<>>) OBVIOUS
<1>c. S = Composition!ScreenFor(g, Composition!NodeOf(g, id).file) OBVIOUS
<1>f. P = {i \in DOMAIN g.calls : ~Composition!Probe(g.calls[i].path)} OBVIOUS
<1>g. F = Composition!FirstOf(g.calls, P) OBVIOUS
<1>l. A = {Composition!NewEdge(<<"validation-block", id>>, id, s, "branches_to") : s \in S} OBVIOUS
<1>m. B = {Composition!NewEdge(<<"validation-call", id>>, id,
             Composition!CallId(Composition!Key(c)), "triggers") : c \in F}
  OBVIOUS
<1> HIDE DEF id, g, S, P, F, A, B
<1>d. PICK n : n = [s \in S |-> <<"validation-block", id>>] OBVIOUS
<1>e. PICK a : a = Tos(S, n, id, "branches_to") OBVIOUS
<1>h. PICK T : T = {Composition!CallId(Composition!Key(c)) : c \in F} OBVIOUS
<1>i. PICK m : m = [s \in T |-> <<"validation-call", id>>] OBVIOUS
<1>j. PICK b : b = Tos(T, m, id, "triggers") OBVIOUS
<1>k. PICK h : h = Composition!WithEdges(g, a \cup b) OBVIOUS
<1>1. a = A BY <1>d, <1>e, <1>l DEF Tos
<1>2. b = B BY <1>h, <1>i, <1>j, <1>m DEF Tos
<1>3. memory' = [h EXCEPT !.alias = @ \cup {id}]
  BY <1>0, <1>1, <1>2, <1>k
<1>4. GraphOK(memory) /\ Registers(memory) /\ Placed(memory) BY DEF CompOK
<1>5. WellTyped(Composition!NewNode(id, "validation", x.file, <<>>))
  BY <1>a DEF WellTyped, Composition!NewNode
<1>6. /\ GraphOK(g) /\ SameButGraph(memory, g) /\ Ids(g.nodes) = Ids(memory.nodes) \cup {id}
      /\ g.edges = memory.edges
  BY <1>4, <1>5, <1>b, OneNode
<1>7. S \subseteq Ids(memory.nodes) /\ IsFiniteSet(S) /\ AtMostOne(S)
  <2>1. g.routes = memory.routes BY <1>6 DEF SameButGraph
  <2>2. SomeScreen(S, memory.routes) BY <1>4, <2>1, <1>c, ScreenForIs DEF Registers
  <2>3. QED BY <2>2, ScreensPlaced
<1>8. S \subseteq Ids(g.nodes) /\ id \in Ids(g.nodes) BY <1>6, <1>7
<1>9. NewEdges(a, Ids(g.nodes)) BY <1>7, <1>8, <1>e, EdgesTo
<1>10. NewEdges(b, Ids(g.nodes))
  <2>1. SomeList(g.calls) /\ g.calls = memory.calls
    BY <1>4, <1>6 DEF Registers, SameButGraph
  <2>2. P \subseteq DOMAIN g.calls BY <1>f
  <2>3. /\ IsFiniteSet(F) /\ AtMostOne(F)
        /\ \A c \in F : \E i \in P : c = g.calls[i]
    BY <2>1, <2>2, <1>g, FirstIsListed
  <2>4. \A c \in F : Composition!CallId(Composition!Key(c)) \in Ids(g.nodes)
    <3>1. ASSUME NEW c \in F PROVE Composition!CallId(Composition!Key(c)) \in Ids(g.nodes)
      <4>1. PICK i \in P : c = g.calls[i] BY <2>3
      <4>2. c \in Listed(memory.calls) /\ ~Composition!Probe(c.path)
        BY <2>1, <4>1, <1>f DEF Listed
      <4>3. QED BY <1>4, <1>6, <4>2 DEF Placed
    <3>2. QED BY <3>1
  <2> PICK f : f = [c \in F |-> Composition!CallId(Composition!Key(c))] OBVIOUS
  <2>5. T = {f[c] : c \in F} BY <1>h
  <2>6. IsFiniteSet(T) BY <2>3, <2>5, FiniteImage
  <2>7. AtMostOne(T) BY <2>3, <2>5 DEF AtMostOne
  <2>8. T \subseteq Ids(g.nodes) BY <2>4, <1>h
  <2>9. QED BY <2>6, <2>7, <2>8, <1>8, <1>j, EdgesTo
<1>11. NewEdges(a \cup b, Ids(g.nodes))
  <2>1. \A e \in a : e.name[1] = "validation-block"
    <3>1. \A e \in a : \E s \in S : e.name = n[s] BY <1>e, FromsNames
    <3>2. QED BY <3>1, <1>d
  <2>2. \A e \in b : e.name[1] = "validation-call"
    <3>1. \A e \in b : \E s \in T : e.name = m[s] BY <1>j, FromsNames
    <3>2. QED BY <3>1, <1>i
  <2>3. \A e \in a, f \in b : e.name # f.name BY <2>1, <2>2
  <2>4. QED BY <1>9, <1>10, <2>3, MoreEdges
<1>12. /\ GraphOK(h) /\ SameButGraph(g, h) /\ h.nodes = g.nodes
       /\ Joined(g.edges, h.edges, a \cup b)
  BY <1>6, <1>11, <1>k, EdgesGrow
<1>13. SameButGraph(memory, h) BY <1>6, <1>12, SameTwice
<1>14. /\ DOMAIN memory' = DOMAIN h /\ memory'.nodes = h.nodes /\ memory'.edges = h.edges
       /\ memory'.routes = h.routes /\ memory'.calls = h.calls
       /\ memory'.endpoints = h.endpoints /\ memory'.path = h.path
       /\ memory'.inputs = h.inputs /\ memory'.transitions = h.transitions
       /\ memory'.alias = h.alias \cup {id}
  BY <1>3, <1>12 DEF GraphOK, CompFields
<1>15. Ids(memory.nodes) \subseteq Ids(h.nodes) /\ id \in Ids(h.nodes) BY <1>6, <1>12
<1>16. CompOK(memory') BY <1>12, <1>13, <1>14, <1>15, Noted
<1>17. \A y \in a \cup b : y.type # "calls" BY <1>e, <1>j, FromsTypes
<1>18. NoCall(memory.edges, memory'.edges) BY <1>6, <1>12, <1>14, <1>17, NoCallJoined
<1>19. QED BY <1>13, <1>14, <1>16, <1>18 DEF SameButGraph

LEMMA TransitionStep ==
    ASSUME CompOK(memory), NEW x, Composition!Transition(x)
    PROVE  /\ CompOK(memory') /\ NoCall(memory.edges, memory'.edges)
           /\ memory'.endpoints = memory.endpoints
<1> DEFINE id == <<"transition", Cut(x.to), x.kind>>
           g == Composition!WithNode(memory, id, "route_transition", "none", <<>>)
           P == {i \in DOMAIN g.routes : Composition!RouteMatches(x.to, g.routes[i])}
           F == Composition!FirstOf(g.routes, P)
           A == {Composition!NewEdge(<<"transition-screen", id>>, id, Composition!ScreenId(r),
                   "navigates_to") : r \in F}
<1>0. memory' = [Composition!WithEdges(g, A) EXCEPT
                   !.alias = @ \cup {id}, !.transitions = Append(@, id)]
  BY DEF Composition!Transition, Composition!Becomes
<1>a. id = <<"transition", Cut(x.to), x.kind>> OBVIOUS
<1>c. g = Composition!WithNode(memory, id, "route_transition", "none", <<>>) OBVIOUS
<1>d. P = {i \in DOMAIN g.routes : Composition!RouteMatches(x.to, g.routes[i])} OBVIOUS
<1>e. F = Composition!FirstOf(g.routes, P) OBVIOUS
<1>l. A = {Composition!NewEdge(<<"transition-screen", id>>, id, Composition!ScreenId(r),
             "navigates_to") : r \in F}
  OBVIOUS
<1> HIDE DEF id, g, P, F, A
<1>f. PICK S : S = {Composition!ScreenId(r) : r \in F} OBVIOUS
<1>g. PICK n : n = [s \in S |-> <<"transition-screen", id>>] OBVIOUS
<1>h. PICK a : a = Tos(S, n, id, "navigates_to") OBVIOUS
<1>i. PICK h : h = Composition!WithEdges(g, a) OBVIOUS
<1>1. a = A BY <1>f, <1>g, <1>h, <1>l DEF Tos
<1>2. memory' = [h EXCEPT !.alias = @ \cup {id}, !.transitions = Append(@, id)]
  BY <1>0, <1>1, <1>i
<1>3. GraphOK(memory) /\ Registers(memory) BY DEF CompOK
<1>4. WellTyped(Composition!NewNode(id, "route_transition", "none", <<>>))
  BY <1>a DEF WellTyped, Composition!NewNode
<1>5. /\ GraphOK(g) /\ SameButGraph(memory, g) /\ Ids(g.nodes) = Ids(memory.nodes) \cup {id}
      /\ g.edges = memory.edges
  BY <1>3, <1>4, <1>c, OneNode
<1>6. S \subseteq Ids(memory.nodes) /\ IsFiniteSet(S) /\ AtMostOne(S)
  <2>1. g.routes = memory.routes /\ SomeList(g.routes)
    BY <1>3, <1>5 DEF SameButGraph, Registers
  <2>2. P \subseteq DOMAIN g.routes BY <1>d
  <2>3. SomeScreen(S, g.routes) BY <2>1, <2>2, <1>e, <1>f, ScreenOf
  <2>4. QED BY <2>1, <2>3, ScreensPlaced
<1>7. S \subseteq Ids(g.nodes) /\ id \in Ids(g.nodes) BY <1>5, <1>6
<1>8. NewEdges(a, Ids(g.nodes)) BY <1>6, <1>7, <1>h, EdgesTo
<1>9. /\ GraphOK(h) /\ SameButGraph(g, h) /\ h.nodes = g.nodes /\ Joined(g.edges, h.edges, a)
  BY <1>5, <1>8, <1>i, EdgesGrow
<1>10. SameButGraph(memory, h) BY <1>5, <1>9, SameTwice
<1>11. /\ DOMAIN memory' = DOMAIN h /\ memory'.nodes = h.nodes /\ memory'.edges = h.edges
       /\ memory'.routes = h.routes /\ memory'.calls = h.calls
       /\ memory'.endpoints = h.endpoints /\ memory'.path = h.path
       /\ memory'.inputs = h.inputs /\ memory'.transitions = Append(h.transitions, id)
       /\ memory'.alias = h.alias \cup {id}
  BY <1>2, <1>9 DEF GraphOK, CompFields
<1>12. Ids(memory.nodes) \subseteq Ids(h.nodes) /\ id \in Ids(h.nodes) BY <1>5, <1>9
<1>13. CompOK(memory') BY <1>9, <1>10, <1>11, <1>12, Noted
<1>14. \A y \in a : y.type = "navigates_to" BY <1>h, FromsTypes
<1>15. NoCall(memory.edges, memory'.edges) BY <1>5, <1>9, <1>11, <1>14, NoCallJoined
<1>16. QED BY <1>10, <1>11, <1>13, <1>15 DEF SameButGraph

LEMMA EdgeStep ==
    ASSUME CompOK(memory), NEW a \in memory.alias, NEW b \in memory.alias, NEW name,
           NEW type, type # "calls",
           memory' = Composition!WithEdges(memory, {Composition!NewEdge(name, a, b, type)})
    PROVE  /\ CompOK(memory') /\ NoCall(memory.edges, memory'.edges)
           /\ memory'.endpoints = memory.endpoints
<1>1. GraphOK(memory) /\ Placed(memory) BY DEF CompOK
<1>2. a \in Ids(memory.nodes) /\ b \in Ids(memory.nodes) BY <1>1 DEF Placed
<1>3. NewEdges({Composition!NewEdge(name, a, b, type)}, Ids(memory.nodes)) BY <1>2, OneEdge
<1>4. /\ GraphOK(memory') /\ SameButGraph(memory, memory') /\ memory'.nodes = memory.nodes
      /\ Joined(memory.edges, memory'.edges, {Composition!NewEdge(name, a, b, type)})
  BY <1>1, <1>3, EdgesGrow
<1>5. Ids(memory.nodes) \subseteq Ids(memory'.nodes) BY <1>4
<1>6. CompOK(memory') BY <1>4, <1>5, GrowsQuietly
<1>7. \A y \in {Composition!NewEdge(name, a, b, type)} : y.type # "calls"
  BY DEF Composition!NewEdge
<1>8. NoCall(memory.edges, memory'.edges) BY <1>4, <1>7, NoCallJoined
<1>9. QED BY <1>4, <1>6, <1>8 DEF SameButGraph

LEMMA BindingStep ==
    ASSUME CompOK(memory), NEW relation \in DOMAIN Composition!Ends,
           NEW from \in memory.alias, NEW to \in memory.alias,
           Composition!Binding(relation, from, to)
    PROVE  /\ CompOK(memory') /\ NoCall(memory.edges, memory'.edges)
           /\ memory'.endpoints = memory.endpoints
<1> DEFINE edge(a, b, type) == Composition!WithEdges(memory,
               {Composition!NewEdge(<<"fe-bind", a, b, relation>>, a, b, type)})
<1>1. memory' = CASE relation = "event-triggers-api" -> edge(from, to, "triggers")
                  [] relation = "event-triggers-route" -> edge(from, to, "navigates_to")
                  [] relation = "validation-on-input" -> edge(to, from, "validates")
  BY DEF Composition!Binding, Composition!Becomes
<1> HIDE DEF edge
<1>2. relation \in {"event-triggers-api", "event-triggers-route", "validation-on-input"}
  BY DEF Composition!Ends
<1>3. \/ memory' = edge(from, to, "triggers") \/ memory' = edge(from, to, "navigates_to")
      \/ memory' = edge(to, from, "validates")
  BY <1>1, <1>2
<1>4. CASE memory' = edge(from, to, "triggers") BY <1>4, EdgeStep DEF edge
<1>5. CASE memory' = edge(from, to, "navigates_to") BY <1>5, EdgeStep DEF edge
<1>6. CASE memory' = edge(to, from, "validates") BY <1>6, EdgeStep DEF edge
<1>7. QED BY <1>3, <1>4, <1>5, <1>6

\* An endpoint's request and response.
LEMMA DtoNames ==
    ASSUME NEW e, NEW has, has = (IF e.request THEN <<"req">> ELSE <<>>)
                                   \o (IF e.fields = <<>> THEN <<>> ELSE <<"resp">>)
    PROVE  SomeList(has) /\ Listed(has) \subseteq {"req", "resp"}
<1>1. PICK a : a = IF e.request THEN <<"req">> ELSE <<>> OBVIOUS
<1>2. PICK b : b = IF e.fields = <<>> THEN <<>> ELSE <<"resp">> OBVIOUS
<1>3. has = a \o b BY <1>1, <1>2
<1>4. SomeList(a) /\ SomeList(b) BY <1>1, <1>2, ShortLists
<1>a. Listed(<<>>) = {} /\ \A x : Listed(<<x>>) = {x} BY DEF Listed
<1>5. Listed(a) \subseteq {"req"} /\ Listed(b) \subseteq {"resp"} BY <1>1, <1>2, <1>a
<1>6. SomeList(a \o b) /\ Listed(a \o b) = Listed(a) \cup Listed(b) BY <1>4, ListCat, CatListed
<1>7. QED BY <1>3, <1>5, <1>6

LEMMA DtoNodes ==
    ASSUME NEW has, SomeList(has), Listed(has) \subseteq {"req", "resp"},
           NEW m, NEW p,
           NEW type, type = [req |-> "request_dto", resp |-> "response_dto"], NEW key,
           NEW nodes,
           nodes = [i \in DOMAIN has |->
                      Composition!NewNode(<<has[i], m, p>>, type[has[i]], "none", key)]
    PROVE  /\ SomeList(nodes) /\ \A n \in Listed(nodes) : WellTyped(n)
           /\ \A name \in Listed(has) : <<name, m, p>> \in Ids(nodes)
<1> PICK N : N = Len(has) OBVIOUS
<1>1. N \in Nat /\ DOMAIN has = 1..N BY ListsDomain
<1>2. SomeList(nodes)
  <2>1. DOMAIN nodes = 1..N /\ nodes = [i \in DOMAIN nodes |-> nodes[i]] BY <1>1
  <2>2. QED BY <1>1, <2>1, ListIs
<1>3. \A i \in DOMAIN has : /\ has[i] \in {"req", "resp"} /\ nodes[i].id[1] = has[i]
                            /\ nodes[i].id = <<has[i], m, p>> /\ nodes[i].type = type[has[i]]
  BY DEF Composition!NewNode, Listed
<1>4. \A n \in Listed(nodes) : WellTyped(n)
  <2>1. ASSUME NEW i \in DOMAIN has PROVE WellTyped(nodes[i])
    <3>1. CASE has[i] = "req" BY <1>3, <3>1 DEF WellTyped
    <3>2. CASE has[i] = "resp" BY <1>3, <3>2 DEF WellTyped
    <3>3. QED BY <1>3, <3>1, <3>2
  <2>2. \A n \in Listed(nodes) : \E i \in DOMAIN has : n = nodes[i] BY DEF Listed
  <2>3. QED BY <2>1, <2>2
<1>5. \A name \in Listed(has) : <<name, m, p>> \in Ids(nodes)
  <2>1. ASSUME NEW i \in DOMAIN has PROVE <<has[i], m, p>> \in Ids(nodes)
    <3>1. i \in DOMAIN nodes /\ nodes[i].id = <<has[i], m, p>> BY <1>3
    <3>2. QED BY <3>1 DEF Ids, Composition!Ids
  <2>2. QED BY <2>1 DEF Listed
<1>6. QED BY <1>2, <1>4, <1>5

LEMMA EndpointStep ==
    ASSUME CompOK(memory), NEW e \in Endpoints, Composition!Endpoint(e)
    PROVE  /\ CompOK(memory') /\ NoCall(memory.edges, memory'.edges)
           /\ memory'.endpoints = Append(memory.endpoints, e)
<1> DEFINE id == Composition!EndpointId(e)
           dto(name) == <<name, e.method, Cut(e.path)>>
           type == [req |-> "request_dto", resp |-> "response_dto"]
           has == (IF e.request THEN <<"req">> ELSE <<>>)
                    \o (IF e.fields = <<>> THEN <<>> ELSE <<"resp">>)
           nodes == [i \in DOMAIN has |->
                       Composition!NewNode(dto(has[i]), type[has[i]], "none", Composition!Key(e))]
           A == {Composition!NewEdge(<<"be", dto(name)>>, id, dto(name), "contains") :
                   name \in Composition!ToSet(has)}
           seen == [memory EXCEPT !.endpoints = Append(@, e)]
           g == Composition!WithNode(seen, id, "backend_endpoint", "none", <<>>)
           h == Composition!WithNodes(g, nodes)
<1>0. memory' = IF Composition!Probe(e.path) THEN seen ELSE Composition!WithEdges(h, A)
  BY DEF Composition!Endpoint, Composition!Becomes
<1>a. id[1] = "endpoint" BY DEF Composition!EndpointId
<1>b. id = Composition!EndpointId(e) OBVIOUS
<1>c. SomeList(has) /\ Listed(has) \subseteq {"req", "resp"} BY DtoNames
<1>d. nodes = [i \in DOMAIN has |->
                 Composition!NewNode(<<has[i], e.method, Cut(e.path)>>, type[has[i]], "none",
                                     Composition!Key(e))]
  OBVIOUS
<1>e. type = [req |-> "request_dto", resp |-> "response_dto"] OBVIOUS
<1>f. \A name : dto(name) = <<name, e.method, Cut(e.path)>> OBVIOUS
<1>i. g = Composition!WithNode(seen, id, "backend_endpoint", "none", <<>>) OBVIOUS
<1>j. h = Composition!WithNodes(g, nodes) OBVIOUS
<1>k. A = {Composition!NewEdge(<<"be", dto(name)>>, id, dto(name), "contains") :
             name \in Composition!ToSet(has)}
  OBVIOUS
<1>l. \A x, y : dto(x) = dto(y) => x = y OBVIOUS
<1>1. GraphOK(memory) /\ Registers(memory) /\ Placed(memory) BY DEF CompOK
<1>2. /\ DOMAIN seen = DOMAIN memory /\ seen.nodes = memory.nodes /\ seen.edges = memory.edges
      /\ seen.routes = memory.routes /\ seen.calls = memory.calls
      /\ seen.endpoints = Append(memory.endpoints, e) /\ seen.inputs = memory.inputs
      /\ seen.transitions = memory.transitions /\ seen.alias = memory.alias
      /\ seen.path = memory.path
  BY <1>1 DEF GraphOK, CompFields
<1>3. /\ SomeList(Append(memory.endpoints, e))
      /\ \A d \in Listed(Append(memory.endpoints, e)) : d \in Listed(memory.endpoints) \/ d = e
  BY <1>1, AppendIs DEF Registers
<1> HIDE DEF id, dto, type, has, nodes, A, seen, g, h
<1>g. /\ SomeList(nodes) /\ \A n \in Listed(nodes) : WellTyped(n)
      /\ \A name \in Listed(has) : dto(name) \in Ids(nodes)
  <2>1. /\ SomeList(nodes) /\ \A n \in Listed(nodes) : WellTyped(n)
        /\ \A name \in Listed(has) : <<name, e.method, Cut(e.path)>> \in Ids(nodes)
    BY <1>c, <1>d, <1>e, DtoNodes
  <2>2. QED BY <2>1, <1>f
<1>4. GraphOK(seen) BY <1>1, <1>2 DEF GraphOK
<1>5. CASE Composition!Probe(e.path)
  <2>1. memory' = seen BY <1>0, <1>5
  <2>2. Registers(seen) BY <1>1, <1>2, <1>3 DEF Registers
  <2>3. /\ Listed(seen.inputs) \subseteq Ids(seen.nodes) /\ seen.alias \subseteq Ids(seen.nodes)
        /\ Listed(seen.transitions) \subseteq Ids(seen.nodes)
    BY <1>1, <1>2 DEF Placed
  <2>4. /\ \A r \in Listed(seen.routes) : r \in Listed(memory.routes)
        /\ \A d \in Listed(seen.calls) : d \in Listed(memory.calls)
        /\ \A d \in Listed(seen.endpoints) : d \in Listed(memory.endpoints)
             \/ (d \in Endpoints /\ Composition!Probe(d.path))
        /\ seen.path = memory.path /\ Ids(memory.nodes) \subseteq Ids(seen.nodes)
    BY <1>2, <1>3, <1>5
  <2>5. CompOK(seen) BY <1>4, <2>2, <2>3, <2>4, Grows
  <2>6. NoCall(memory.edges, memory'.edges) BY <1>2, <2>1 DEF NoCall
  <2>7. QED BY <1>2, <2>1, <2>5, <2>6
<1>6. CASE ~Composition!Probe(e.path)
  <2>1. WellTyped(Composition!NewNode(id, "backend_endpoint", "none", <<>>))
    BY <1>a DEF WellTyped, Composition!NewNode
  <2>2. /\ GraphOK(g) /\ SameButGraph(seen, g) /\ Ids(g.nodes) = Ids(seen.nodes) \cup {id}
        /\ g.edges = seen.edges
    BY <1>4, <2>1, <1>i, OneNode
  <2>3. /\ GraphOK(h) /\ SameButGraph(g, h) /\ Ids(h.nodes) = Ids(g.nodes) \cup Ids(nodes)
        /\ h.edges = g.edges
    BY <2>2, <1>g, <1>j, NodesGrow
  <2>4. NewEdges(A, Ids(h.nodes))
    <3> DEFINE T == Listed(has)
               n == [name \in T |-> <<"be", dto(name)>>]
               i == [name \in T |-> id]
               j == [name \in T |-> dto(name)]
    <3>1. A = Spread(T, n, i, j, "contains") BY <1>k, ToSetIs DEF Spread
    <3>2. IsFiniteSet(T) BY <1>c, FiniteListed
    <3>3. \A x \in T : i[x] \in Ids(h.nodes) /\ j[x] \in Ids(h.nodes) BY <2>2, <2>3, <1>g
    <3>4. \A x, y \in T : n[x] = n[y] => x = y BY <1>l
    <3> HIDE DEF T, n, i, j
    <3>5. NewEdges(Spread(T, n, i, j, "contains"), Ids(h.nodes)) BY <3>2, <3>3, <3>4, SomeEdges
    <3>6. QED BY <3>1, <3>5
  <2>5. memory' = Composition!WithEdges(h, A) BY <1>0, <1>6
  <2>6. /\ GraphOK(memory') /\ SameButGraph(h, memory') /\ memory'.nodes = h.nodes
        /\ Joined(h.edges, memory'.edges, A)
    BY <2>3, <2>4, <2>5, EdgesGrow
  <2>7. SameButGraph(seen, memory') BY <2>2, <2>3, <2>6, SameTwice
  <2>8. /\ memory'.routes = memory.routes /\ memory'.calls = memory.calls
        /\ memory'.endpoints = Append(memory.endpoints, e) /\ memory'.inputs = memory.inputs
        /\ memory'.transitions = memory.transitions /\ memory'.alias = memory.alias
        /\ memory'.path = memory.path
    BY <1>2, <2>7 DEF SameButGraph
  <2>9. Ids(memory.nodes) \subseteq Ids(memory'.nodes) /\ id \in Ids(memory'.nodes)
    BY <1>2, <2>2, <2>3, <2>6
  <2>10. Registers(memory') BY <1>1, <1>3, <2>8 DEF Registers
  <2>11. /\ Listed(memory'.inputs) \subseteq Ids(memory'.nodes)
         /\ memory'.alias \subseteq Ids(memory'.nodes)
         /\ Listed(memory'.transitions) \subseteq Ids(memory'.nodes)
    BY <1>1, <2>8, <2>9 DEF Placed
  <2>12. /\ \A r \in Listed(memory'.routes) : r \in Listed(memory.routes)
         /\ \A d \in Listed(memory'.calls) : d \in Listed(memory.calls)
         /\ \A d \in Listed(memory'.endpoints) : d \in Listed(memory.endpoints)
              \/ (d \in Endpoints /\ Composition!EndpointId(d) \in Ids(memory'.nodes))
    BY <1>b, <1>3, <2>8, <2>9
  <2>13. CompOK(memory') BY <2>6, <2>8, <2>9, <2>10, <2>11, <2>12, Grows
  <2>14. \A y \in A : y.type # "calls" BY <1>k DEF Composition!NewEdge
  <2>15. NoCall(memory.edges, memory'.edges)
    BY <1>2, <2>2, <2>3, <2>6, <2>14, NoCallJoined
  <2>16. QED BY <2>8, <2>13, <2>15
<1>7. QED BY <1>5, <1>6

\* The mapping is kept beside the graph.
OtherThanRows(g, h) ==
    /\ h.nodes = g.nodes /\ h.edges = g.edges /\ h.calls = g.calls
    /\ h.endpoints = g.endpoints

LEMMA OnlyRows ==
    ASSUME NEW g, CompOK(g), NEW rows, NEW h, h = [g EXCEPT !.rows = rows]
    PROVE  CompOK(h) /\ OtherThanRows(g, h)
<1>1. GraphOK(g) /\ Registers(g) /\ Placed(g) /\ PathOK(g) BY DEF CompOK
<1>2. /\ DOMAIN h = DOMAIN g /\ h.nodes = g.nodes /\ h.edges = g.edges
      /\ h.routes = g.routes /\ h.calls = g.calls /\ h.endpoints = g.endpoints
      /\ h.inputs = g.inputs /\ h.transitions = g.transitions /\ h.alias = g.alias
      /\ h.path = g.path
  BY <1>1 DEF GraphOK, CompFields
<1>3. GraphOK(h) BY <1>1, <1>2 DEF GraphOK
<1>4. Registers(h) BY <1>1, <1>2 DEF Registers
<1>5. Placed(h) BY <1>1, <1>2 DEF Placed
<1>6. PathOK(h) BY <1>1, <1>2 DEF PathOK
<1>7. QED BY <1>2, <1>3, <1>4, <1>5, <1>6 DEF CompOK, OtherThanRows

LEMMA RowSteps ==
    ASSUME CompOK(memory),
           \/ Composition!EndOfList \/ Composition!CreateMapping
           \/ \E i, status, id : Composition!PatchMapping(i, status, id)
    PROVE  CompOK(memory') /\ OtherThanRows(memory, memory')
<1>1. CASE Composition!EndOfList
  <2>1. memory' = memory BY <1>1 DEF Composition!EndOfList
  <2>2. QED BY <2>1 DEF OtherThanRows
<1>2. CASE Composition!CreateMapping
  <2>1. memory' = [memory EXCEPT
                     !.rows = Composition!Mapping(memory.calls, memory.endpoints)]
    BY <1>2 DEF Composition!CreateMapping
  <2>2. QED BY <2>1, OnlyRows
<1>3. CASE \E i, status, id : Composition!PatchMapping(i, status, id)
  <2>1. PICK i, status, id : Composition!PatchMapping(i, status, id) BY <1>3
  <2>2. \E rows : memory' = [memory EXCEPT !.rows = rows]
    <3>1. memory' = [[memory EXCEPT !.rows[i].status = status] EXCEPT !.rows[i].endpoint = {id}]
      BY <2>1 DEF Composition!PatchMapping
    <3>2. PICK a : a = [memory.rows EXCEPT ![i].status = status] OBVIOUS
    <3>3. PICK b : b = [a EXCEPT ![i].endpoint = {id}] OBVIOUS
    <3>4. "rows" \in DOMAIN memory BY DEF CompOK, GraphOK, CompFields
    <3>5. memory' = [[memory EXCEPT !.rows = a] EXCEPT !.rows = b] BY <3>1, <3>2, <3>3, <3>4
    <3>6. memory' = [memory EXCEPT !.rows = b] BY <3>4, <3>5
    <3>7. QED BY <3>6
  <2>3. QED BY <2>2, OnlyRows
<1>4. QED BY <1>1, <1>2, <1>3

-----------------------------------------------------------------------------
(* The calls and the endpoints that are no probes'.                        *)

LEMMA BusinessIs ==
    ASSUME SomeList(memory.endpoints)
    PROVE  /\ SomeList(Composition!Business)
           /\ \A e \in Listed(Composition!Business) :
                e \in Listed(memory.endpoints) /\ ~Composition!Probe(e.path)
           /\ \A e \in Listed(memory.endpoints) :
                ~Composition!Probe(e.path) => e \in Listed(Composition!Business)
<1>a. PICK all : all = memory.endpoints OBVIOUS
<1>b. PICK P : P = {i \in DOMAIN all : ~Composition!Probe(all[i].path)} OBVIOUS
<1>c. PICK s : s = Picked(all, P) OBVIOUS
<1>d. PICK N : N = Len(all) OBVIOUS
<1>1. Composition!Business = s
  <2>1. Composition!Business = Composition!Picked(all, P) BY <1>a, <1>b DEF Composition!Business
  <2>2. QED BY <2>1, <1>c, ComposedPicked
<1>2. N \in Nat /\ DOMAIN all = 1..N /\ P \subseteq 1..N BY <1>a, <1>b, <1>d, ListsDomain
<1>3. TakenFrom(s, all, P) BY <1>2, <1>c, PickedList
<1>4. HasAll(s, all, P) BY <1>2, <1>c, PickedAll
<1>5. SomeList(s) /\ \A e \in Listed(s) : \E i \in P : e = all[i]
  BY <1>3, ListedPicked DEF TakenFrom
<1>6. \A e \in Listed(s) : e \in Listed(all) /\ ~Composition!Probe(e.path)
  BY <1>5, <1>b DEF Listed
<1>7. ASSUME NEW e \in Listed(all), ~Composition!Probe(e.path) PROVE e \in Listed(s)
  <2>1. PICK i \in DOMAIN all : e = all[i] BY DEF Listed
  <2>2. i \in P BY <1>7, <2>1, <1>b
  <2>3. PICK n \in DOMAIN s : s[n] = all[i] BY <1>4, <2>2 DEF HasAll
  <2>4. QED BY <2>1, <2>3 DEF Listed
<1>8. QED BY <1>1, <1>5, <1>6, <1>7, <1>a

\* An endpoint of a key: one of those that are no probes, if any has the key.
OneEndpoint(S, key, endpoints, ids) ==
    /\ IsFiniteSet(S) /\ AtMostOne(S) /\ S \subseteq ids
    /\ \A id \in S : \E e \in Listed(endpoints) :
         /\ id = Composition!EndpointId(e) /\ Composition!Key(e) = key
         /\ ~Composition!Probe(e.path)
    /\ \A e \in Listed(endpoints) :
         Composition!Key(e) = key /\ ~Composition!Probe(e.path) => S # {}

LEMMA EndpointOfIs ==
    ASSUME CompOK(memory), NEW key
    PROVE  OneEndpoint(Composition!EndpointOf(key), key, memory.endpoints, Ids(memory.nodes))
<1>a. PICK s : s = Composition!Business OBVIOUS
<1>b. PICK P : P = {i \in DOMAIN s : Composition!Key(s[i]) = key} OBVIOUS
<1>c. PICK F : F = Composition!LastOf(s, P) OBVIOUS
<1>d. PICK f : f = [e \in F |-> Composition!EndpointId(e)] OBVIOUS
<1>e. PICK S : S = Composition!EndpointOf(key) OBVIOUS
<1>1. SomeList(memory.endpoints) /\ Placed(memory) BY DEF CompOK, Registers
<1>2. /\ SomeList(s)
      /\ \A e \in Listed(s) : e \in Listed(memory.endpoints) /\ ~Composition!Probe(e.path)
      /\ \A e \in Listed(memory.endpoints) : ~Composition!Probe(e.path) => e \in Listed(s)
  BY <1>1, <1>a, BusinessIs
<1>3. P \subseteq DOMAIN s BY <1>b
<1>4. /\ AtMostOne(F) /\ IsFiniteSet(F) /\ \A e \in F : \E i \in P : e = s[i]
      /\ P # {} => F # {}
  BY <1>2, <1>3, <1>c, LastIsListed
<1>5. S = {f[e] : e \in F}
  <2>1. S = {Composition!EndpointId(e) : e \in F}
    BY <1>a, <1>b, <1>c, <1>e DEF Composition!EndpointOf
  <2>2. QED BY <2>1, <1>d
<1>6. IsFiniteSet(S) BY <1>4, <1>5, FiniteImage
<1>7. AtMostOne(S) BY <1>4, <1>5 DEF AtMostOne
<1>8. \A e \in F : /\ e \in Listed(memory.endpoints) /\ ~Composition!Probe(e.path)
                   /\ Composition!Key(e) = key
  <2>1. ASSUME NEW e \in F
        PROVE  /\ e \in Listed(memory.endpoints) /\ ~Composition!Probe(e.path)
               /\ Composition!Key(e) = key
    <3>1. PICK i \in P : e = s[i] BY <1>4
    <3>2. e \in Listed(s) /\ Composition!Key(e) = key BY <1>3, <1>b, <3>1 DEF Listed
    <3>3. QED BY <1>2, <3>2
  <2>2. QED BY <2>1
<1>9. \A e \in F : f[e] = Composition!EndpointId(e) BY <1>d
<1>10. S \subseteq Ids(memory.nodes) BY <1>1, <1>5, <1>8, <1>9 DEF Placed
<1>11. \A id \in S : \E e \in Listed(memory.endpoints) :
         /\ id = Composition!EndpointId(e) /\ Composition!Key(e) = key
         /\ ~Composition!Probe(e.path)
  BY <1>5, <1>8, <1>9
<1>12. \A e \in Listed(memory.endpoints) :
         Composition!Key(e) = key /\ ~Composition!Probe(e.path) => S # {}
  <2>1. ASSUME NEW e \in Listed(memory.endpoints), Composition!Key(e) = key,
               ~Composition!Probe(e.path)
        PROVE  S # {}
    <3>1. PICK i \in DOMAIN s : e = s[i] BY <1>2, <2>1 DEF Listed
    <3>2. i \in P BY <2>1, <3>1, <1>b
    <3>3. QED BY <1>4, <1>5, <3>2
  <2>2. QED BY <2>1
<1>13. QED BY <1>6, <1>7, <1>10, <1>11, <1>12, <1>e DEF OneEndpoint

LEMMA CallOfIs ==
    ASSUME CompOK(memory), NEW key, NEW S, S = Composition!CallOf(key)
    PROVE  /\ S \subseteq {Composition!CallId(key)} /\ S \subseteq Ids(memory.nodes)
           /\ S # {} <=> \E c \in Listed(memory.calls) :
                Composition!Key(c) = key /\ ~Composition!Probe(c.path)
<1>1. S \subseteq {Composition!CallId(key)} BY DEF Composition!CallOf
<1>2. S # {} <=> \E c \in Listed(memory.calls) :
                Composition!Key(c) = key /\ ~Composition!Probe(c.path)
  BY DEF Composition!CallOf, Listed
<1>3. S \subseteq Ids(memory.nodes)
  <2>1. CASE S = {} BY <2>1
  <2>2. CASE S # {}
    <3>1. PICK c \in Listed(memory.calls) :
            Composition!Key(c) = key /\ ~Composition!Probe(c.path)
      BY <1>2, <2>2
    <3>2. Composition!CallId(key) \in Ids(memory.nodes) BY <3>1 DEF CompOK, Placed
    <3>3. QED BY <1>1, <3>2
  <2>3. QED BY <2>1, <2>2
<1>4. QED BY <1>1, <1>2, <1>3

\* Edges from some things to others, that are one or none.
Pairs(A, B, name, type) ==
    {Composition!NewEdge(name, x[1], x[2], type) : x \in A \X B}

LEMMA SomePairs ==
    ASSUME NEW ids, NEW A, NEW B, A \subseteq ids, B \subseteq ids, AtMostOne(A), AtMostOne(B),
           NEW name, NEW type
    PROVE  NewEdges(Pairs(A, B, name, type), ids)
<1>a. PICK new : new = Pairs(A, B, name, type) OBVIOUS
<1>1. CASE A = {} \/ B = {}
  <2>0. A \X B = {} BY <1>1
  <2>1. new = {} BY <2>0, <1>a DEF Pairs
  <2>2. QED BY <2>1, <1>a, NoEdges
<1>2. CASE A # {} /\ B # {}
  <2>1. PICK a, b : a \in A /\ b \in B BY <1>2
  <2>2. A = {a} /\ B = {b} BY <2>1 DEF AtMostOne
  <2>6. PICK p : p = <<a, b>> OBVIOUS
  <2>7. A \X B = {p} BY <2>2, <2>6
  <2>8. p[1] = a /\ p[2] = b BY <2>6
  <2>9. new = {Composition!NewEdge(name, p[1], p[2], type)} BY <2>7, <1>a DEF Pairs
  <2>3. new = {Composition!NewEdge(name, a, b, type)} BY <2>8, <2>9
  <2>4. a \in ids /\ b \in ids BY <2>1
  <2>5. QED BY <2>3, <2>4, <1>a, OneEdge
<1>3. QED BY <1>1, <1>2

\* The endpoint that a row is drawn to.
ServedBy(row) ==
    LET same == Composition!EndpointOf(Composition!Key(row))
        named == {i \in DOMAIN Composition!Business :
                    Composition!Business[i].id \in row.endpoint} IN
    IF same # {} THEN same
    ELSE {Composition!EndpointId(e) : e \in Composition!FirstOf(Composition!Business, named)}
CallsOf(row) == IF row.status = "confirmed" THEN Composition!CallOf(Composition!Key(row)) ELSE {}

LEMMA ServedIs ==
    ASSUME CompOK(memory), NEW row, NEW S, S = ServedBy(row)
    PROVE  /\ S \subseteq Ids(memory.nodes) /\ AtMostOne(S)
           /\ \A id \in S : \E e \in Listed(memory.endpoints) :
                /\ id = Composition!EndpointId(e) /\ ~Composition!Probe(e.path)
                /\ Composition!Key(e) = Composition!Key(row) \/ e.id \in row.endpoint
<1>a. PICK same : same = Composition!EndpointOf(Composition!Key(row)) OBVIOUS
<1>b. PICK s : s = Composition!Business OBVIOUS
<1>c. PICK P : P = {i \in DOMAIN s : s[i].id \in row.endpoint} OBVIOUS
<1>d. PICK F : F = Composition!FirstOf(s, P) OBVIOUS
<1>e. PICK T : T = {Composition!EndpointId(e) : e \in F} OBVIOUS
<1>1. S = IF same # {} THEN same ELSE T BY <1>a, <1>b, <1>c, <1>d, <1>e DEF ServedBy
<1>2. OneEndpoint(same, Composition!Key(row), memory.endpoints, Ids(memory.nodes))
  BY <1>a, EndpointOfIs
<1>3. CASE same # {} BY <1>1, <1>2, <1>3 DEF OneEndpoint
<1>4. CASE same = {}
  <2>1. S = T BY <1>1, <1>4
  <2>2. /\ SomeList(s)
        /\ \A e \in Listed(s) : e \in Listed(memory.endpoints) /\ ~Composition!Probe(e.path)
    BY <1>b, BusinessIs DEF CompOK, Registers
  <2>3. P \subseteq DOMAIN s BY <1>c
  <2>4. AtMostOne(F) /\ \A e \in F : \E i \in P : e = s[i] BY <2>2, <2>3, <1>d, FirstIsListed
  <2>5. \A e \in F : /\ e \in Listed(memory.endpoints) /\ ~Composition!Probe(e.path)
                     /\ e.id \in row.endpoint
    BY <2>2, <2>4, <1>c DEF Listed
  <2>6. AtMostOne(T) BY <2>4, <1>e DEF AtMostOne
  <2>7. T \subseteq Ids(memory.nodes) BY <2>5, <1>e DEF CompOK, Placed
  <2>8. \A id \in T : \E e \in Listed(memory.endpoints) :
          /\ id = Composition!EndpointId(e) /\ ~Composition!Probe(e.path)
          /\ Composition!Key(e) = Composition!Key(row) \/ e.id \in row.endpoint
    BY <2>5, <1>e
  <2>9. QED BY <2>1, <2>6, <2>7, <2>8
<1>5. QED BY <1>3, <1>4

LEMMA DrawnIs ==
    ASSUME CompOK(memory), NEW row, memory' = Composition!Drawn(row)
    PROVE  /\ CompOK(memory') /\ SameButGraph(memory, memory') /\ memory'.nodes = memory.nodes
           /\ Joined(memory.edges, memory'.edges,
                     Pairs(CallsOf(row), ServedBy(row),
                           <<"map", row.method, Cut(row.path)>>, "calls"))
<1> DEFINE new == Pairs(CallsOf(row), ServedBy(row), <<"map", row.method, Cut(row.path)>>,
                        "calls")
<1>1. memory' = Composition!WithEdges(memory, new)
  BY DEF Composition!Drawn, CallsOf, ServedBy, Pairs
<1>2. CallsOf(row) \subseteq Ids(memory.nodes) /\ AtMostOne(CallsOf(row))
  BY CallOfIs DEF CallsOf, AtMostOne
<1>3. ServedBy(row) \subseteq Ids(memory.nodes) /\ AtMostOne(ServedBy(row)) BY ServedIs
<1>4. NewEdges(new, Ids(memory.nodes)) BY <1>2, <1>3, SomePairs
<1> HIDE DEF new
<1>5. GraphOK(memory) BY DEF CompOK
<1>6. /\ GraphOK(memory') /\ SameButGraph(memory, memory') /\ memory'.nodes = memory.nodes
      /\ Joined(memory.edges, memory'.edges, new)
  BY <1>1, <1>4, <1>5, EdgesGrow
<1>7. Ids(memory.nodes) \subseteq Ids(memory'.nodes) BY <1>6
<1>8. CompOK(memory') BY <1>6, <1>7, GrowsQuietly
<1>9. QED BY <1>6, <1>8 DEF new

\* What there is, at most one, as a list.
LEMMA ListedIs ==
    ASSUME NEW S, NEW list, list = Composition!Listed(S)
    PROVE  /\ SomeList(list) /\ Distinct(list) /\ Listed(list) \subseteq S
           /\ AtMostOne(Listed(list)) /\ IsFiniteSet(Listed(list))
<1>1. CASE S = {}
  <2>1. list = <<>> BY <1>1 DEF Composition!Listed
  <2>2. Listed(list) = {} BY <2>1 DEF Listed
  <2>3. QED BY <2>1, <2>2, ShortLists, FS_EmptySet DEF Distinct, AtMostOne
<1>2. CASE S # {}
  <2>1. PICK x : x = CHOOSE y \in S : TRUE OBVIOUS
  <2>2. x \in S BY <1>2, <2>1
  <2>3. list = <<x>> BY <1>2, <2>1 DEF Composition!Listed
  <2>4. Listed(list) = {x} BY <2>3 DEF Listed
  <2>5. Distinct(list) BY <2>3 DEF Distinct
  <2>6. SomeList(list) BY <2>3, ShortLists
  <2>7. IsFiniteSet(Listed(list)) BY <2>4, FS_Singleton
  <2>8. QED BY <2>2, <2>4, <2>5, <2>6, <2>7 DEF AtMostOne
<1>3. QED BY <1>1, <1>2

\* Names of edges for every field, from or to what is one or none.
ByField(name, T, S, F, tag, cut) ==
    T = S \X F /\ \A x \in T : name[x] = <<tag, cut, x[1]>>
Named(name, T, tag) ==
    IsFiniteSet(T) /\ \A x \in T : name[x][1] = tag /\ \A y \in T : name[x] = name[y] => x = y

LEMMA NamesByField ==
    ASSUME NEW S, IsFiniteSet(S), NEW F, IsFiniteSet(F), AtMostOne(F), NEW T,
           NEW tag, NEW cut, NEW name, ByField(name, T, S, F, tag, cut)
    PROVE  Named(name, T, tag)
<1>1. T = S \X F BY DEF ByField
<1>2. \A x \in T : name[x] = <<tag, cut, x[1]>> BY DEF ByField
<1>3. IsFiniteSet(T) BY <1>1, FS_Product
<1>4. ASSUME NEW x \in T, NEW y \in T, name[x] = name[y] PROVE x = y
  <2>1. PICK a \in S, b \in F : x = <<a, b>> BY <1>1
  <2>2. PICK c \in S, d \in F : y = <<c, d>> BY <1>1
  <2>3. x[1] = a /\ y[1] = c BY <2>1, <2>2
  <2>4. <<tag, cut, x[1]>> = <<tag, cut, y[1]>> BY <1>2, <1>4
  <2>5. x[1] = y[1] BY <2>4
  <2>6. b = d BY DEF AtMostOne
  <2>7. QED BY <2>1, <2>2, <2>3, <2>5, <2>6
<1>5. \A x \in T : name[x][1] = tag BY <1>2
<1>6. QED BY <1>3, <1>4, <1>5 DEF Named

\* Nodes for the elements of a list.
LEMMA NodesOf ==
    ASSUME NEW s, SomeList(s), NEW a, a = [i \in DOMAIN s |-> a[i]],
           NEW id, \A i \in DOMAIN s : a[i].id = id[s[i]] /\ WellTyped(a[i])
    PROVE  /\ SomeList(a) /\ \A n \in Listed(a) : WellTyped(n)
           /\ \A x \in Listed(s) : id[x] \in Ids(a)
<1>1. PICK N : N = Len(s) OBVIOUS
<1>2. N \in Nat /\ DOMAIN s = 1..N BY <1>1, ListsDomain
<1>3. DOMAIN a = DOMAIN s OBVIOUS
<1>4. SomeList(a) BY <1>2, <1>3, ListIs
<1>5. \A n \in Listed(a) : WellTyped(n) BY <1>3 DEF Listed
<1>6. \A x \in Listed(s) : id[x] \in Ids(a)
  <2>1. ASSUME NEW x \in Listed(s) PROVE id[x] \in Ids(a)
    <3>1. PICK i \in DOMAIN s : x = s[i] BY DEF Listed
    <3>2. id[x] = a[i].id /\ i \in DOMAIN a BY <1>3, <3>1
    <3>3. QED BY <3>2 DEF Ids, Composition!Ids
  <2>2. QED BY <2>1
<1>7. QED BY <1>4, <1>5, <1>6

LEMMA ResponseStep ==
    ASSUME CompOK(memory), NEW e \in Listed(Composition!Business),
           memory' = Composition!Response(e)
    PROVE  /\ CompOK(memory') /\ NoCall(memory.edges, memory'.edges)
           /\ SameButGraph(memory, memory')
<1> DEFINE served == CHOOSE id \in Composition!EndpointOf(Composition!Key(e)) : TRUE
           called(s) == <<"service", s>>
           binding(f) == <<"binding", Cut(e.path), f>>
           responses == {i \in DOMAIN memory.nodes :
               memory.nodes[i].type = "response_dto" /\ memory.nodes[i].of = Composition!Key(e)}
           leads(t) == {x.to : x \in {y \in memory.edges : y.from = t /\ y.type = "navigates_to"}}
           leading == {i \in DOMAIN memory.transitions : leads(memory.transitions[i]) # {}}
           target == UNION {leads(t) : t \in Composition!FirstOf(memory.transitions, leading)}
           a == [i \in DOMAIN e.services |->
                   Composition!NewNode(called(e.services[i]), "service", "none", <<>>)]
           b == [i \in DOMAIN e.fields |->
                   Composition!NewNode(binding(e.fields[i]), "binding", "none",
                                       Composition!Key(e))]
           F == Composition!FirstOf(memory.nodes, responses)
           G == Composition!ToSet(Composition!Listed(target))
           B == IF e.notFound THEN Composition!FirstScreen(memory) ELSE {}
           services == Composition!ToSet(e.services)
           fields == Composition!ToSet(e.fields)
           calls == {Composition!NewEdge(<<"be-service", e.method, Cut(e.path), s>>, served,
                                         called(s), "calls") : s \in services}
           binds == {Composition!NewEdge(<<"resp-binding", Cut(e.path), x[1]>>, x[2].id,
                                         binding(x[1]), "binds_to") : x \in fields \X F}
           shows == {Composition!NewEdge(<<"binding-screen", Cut(e.path), x[1]>>, binding(x[1]),
                                         x[2], "binds_to") : x \in fields \X G}
           back == {Composition!NewEdge(<<"notfound", e.method, Cut(e.path)>>, served, s,
                                        "returns") : s \in B}
           h == Composition!WithNodes(memory, a \o b)
<1>0. memory' = Composition!WithEdges(h, calls \cup binds \cup shows \cup back)
  BY DEF Composition!Response
<1>a. served = CHOOSE id \in Composition!EndpointOf(Composition!Key(e)) : TRUE OBVIOUS
<1>b. F = Composition!FirstOf(memory.nodes, responses) /\ responses \subseteq DOMAIN memory.nodes
  OBVIOUS
<1>c. G = Composition!ToSet(Composition!Listed(target)) OBVIOUS
<1>d. \A x \in target : \E y \in memory.edges : x = y.to OBVIOUS
<1>e. B = IF e.notFound THEN Composition!FirstScreen(memory) ELSE {} OBVIOUS
<1>f. h = Composition!WithNodes(memory, a \o b) OBVIOUS
<1>g. services = Listed(e.services) /\ fields = Listed(e.fields) BY ToSetIs
<1>h. a = [i \in DOMAIN e.services |-> a[i]] /\ b = [i \in DOMAIN e.fields |-> b[i]] OBVIOUS
<1>i. \A i \in DOMAIN e.services : a[i].id = called(e.services[i]) /\ WellTyped(a[i])
  BY DEF Composition!NewNode, WellTyped
<1>j. \A i \in DOMAIN e.fields : b[i].id = binding(e.fields[i]) /\ WellTyped(b[i])
  BY DEF Composition!NewNode, WellTyped
<1>k. calls = {Composition!NewEdge(<<"be-service", e.method, Cut(e.path), s>>, served,
                                   called(s), "calls") : s \in services}
  OBVIOUS
<1>l. binds = {Composition!NewEdge(<<"resp-binding", Cut(e.path), x[1]>>, x[2].id,
                                   binding(x[1]), "binds_to") : x \in fields \X F}
  OBVIOUS
<1>m. shows = {Composition!NewEdge(<<"binding-screen", Cut(e.path), x[1]>>, binding(x[1]),
                                   x[2], "binds_to") : x \in fields \X G}
  OBVIOUS
<1>n. back = {Composition!NewEdge(<<"notfound", e.method, Cut(e.path)>>, served, s,
                                  "returns") : s \in B}
  OBVIOUS
<1>o. \A s, t : called(s) = called(t) => s = t OBVIOUS
<1> HIDE DEF served, called, binding, responses, leads, leading, target, a, b, F, G, B,
             services, fields, calls, binds, shows, back, h
<1>1. GraphOK(memory) /\ Registers(memory) /\ Placed(memory) BY DEF CompOK
<1>2. /\ e \in Listed(memory.endpoints) /\ ~Composition!Probe(e.path) /\ e \in Endpoints
  BY <1>1, BusinessIs DEF Registers, Placed
<1>3. SomeList(e.services) /\ SomeList(e.fields)
  <2>1. e.services \in Seq(STRING) /\ e.fields \in Seq(STRING) BY <1>2, EndpointsAssumption
  <2>2. QED BY <2>1, ListedOf
<1>4. IsFiniteSet(services) /\ IsFiniteSet(fields) BY <1>3, <1>g, FiniteListed
<1>5. served \in Ids(memory.nodes) /\ served[1] = "endpoint"
  <2>1. PICK S : S = Composition!EndpointOf(Composition!Key(e)) OBVIOUS
  <2>2. OneEndpoint(S, Composition!Key(e), memory.endpoints, Ids(memory.nodes))
    BY <2>1, EndpointOfIs
  <2>3. S # {} /\ S \subseteq Ids(memory.nodes) BY <1>2, <2>2 DEF OneEndpoint
  <2>4. \A id \in S : id[1] = "endpoint" BY <2>2 DEF OneEndpoint, Composition!EndpointId
  <2>5. QED BY <2>1, <2>3, <2>4, <1>a
<1>6. /\ SomeList(a) /\ \A n \in Listed(a) : WellTyped(n)
      /\ \A s \in services : called(s) \in Ids(a)
  <2>1. PICK id : id = [s \in services |-> called(s)] OBVIOUS
  <2>2. \A i \in DOMAIN e.services : a[i].id = id[e.services[i]] /\ WellTyped(a[i])
    BY <2>1, <1>g, <1>i DEF Listed
  <2>3. /\ SomeList(a) /\ \A n \in Listed(a) : WellTyped(n)
        /\ \A s \in Listed(e.services) : id[s] \in Ids(a)
    BY <1>3, <1>h, <2>2, NodesOf
  <2>4. QED BY <2>1, <2>3, <1>g
<1>7. /\ SomeList(b) /\ \A n \in Listed(b) : WellTyped(n)
      /\ \A f \in fields : binding(f) \in Ids(b)
  <2>1. PICK id : id = [f \in fields |-> binding(f)] OBVIOUS
  <2>2. \A i \in DOMAIN e.fields : b[i].id = id[e.fields[i]] /\ WellTyped(b[i])
    BY <2>1, <1>g, <1>j DEF Listed
  <2>3. /\ SomeList(b) /\ \A n \in Listed(b) : WellTyped(n)
        /\ \A f \in Listed(e.fields) : id[f] \in Ids(b)
    BY <1>3, <1>h, <2>2, NodesOf
  <2>4. QED BY <2>1, <2>3, <1>g
<1>8. /\ GraphOK(h) /\ SameButGraph(memory, h) /\ h.edges = memory.edges
      /\ Ids(h.nodes) = Ids(memory.nodes) \cup Ids(a) \cup Ids(b)
  <2>1. PICK new : new = a \o b OBVIOUS
  <2>2. SomeList(new) /\ Listed(new) = Listed(a) \cup Listed(b)
    BY <1>6, <1>7, <2>1, ListCat, CatListed
  <2>3. \A n \in Listed(new) : WellTyped(n) BY <1>6, <1>7, <2>2
  <2>4. Ids(new) = Ids(a) \cup Ids(b) BY <2>2, IdsAre
  <2>5. /\ GraphOK(h) /\ SameButGraph(memory, h) /\ h.edges = memory.edges
        /\ Ids(h.nodes) = Ids(memory.nodes) \cup Ids(new)
    BY <1>1, <1>f, <2>1, <2>2, <2>3, NodesGrow
  <2>6. QED BY <2>4, <2>5
<1>9. PICK ids : ids = Ids(h.nodes) OBVIOUS
<1>10. /\ served \in ids /\ Ids(memory.nodes) \subseteq ids
       /\ \A s \in services : called(s) \in ids
       /\ \A f \in fields : binding(f) \in ids
  BY <1>5, <1>6, <1>7, <1>8, <1>9
<1>11. NewEdges(calls, ids) /\ \A x \in calls : x.name[1] = "be-service"
  <2>1. PICK n : n = [s \in services |-> <<"be-service", e.method, Cut(e.path), s>>] OBVIOUS
  <2>2. PICK i : i = [s \in services |-> served] OBVIOUS
  <2>3. PICK j : j = [s \in services |-> called(s)] OBVIOUS
  <2>4. calls = Spread(services, n, i, j, "calls") BY <1>k, <2>1, <2>2, <2>3 DEF Spread
  <2>5. \A s \in services : i[s] \in ids /\ j[s] \in ids BY <1>10, <2>2, <2>3
  <2>6. \A s, t \in services : n[s] = n[t] => s = t BY <2>1
  <2>7. NewEdges(calls, ids) /\ \A x \in calls : \E s \in services : x.name = n[s]
    BY <1>4, <2>4, <2>5, <2>6, SomeEdges
  <2>8. QED BY <2>1, <2>7
<1>12. NewEdges(binds, ids) /\ \A x \in binds : x.name[1] = "resp-binding"
  <2>0. PICK T : T = fields \X F OBVIOUS
  <2>1. PICK n : n = [x \in T |-> <<"resp-binding", Cut(e.path), x[1]>>] OBVIOUS
  <2>2. PICK i : i = [x \in T |-> x[2].id] OBVIOUS
  <2>3. PICK j : j = [x \in T |-> binding(x[1])] OBVIOUS
  <2>4. binds = Spread(T, n, i, j, "binds_to") BY <1>l, <2>0, <2>1, <2>2, <2>3 DEF Spread
  <2>5. AtMostOne(F) /\ IsFiniteSet(F) /\ F \subseteq Listed(memory.nodes)
    BY <1>1, <1>b, FirstIsListed DEF GraphOK, NodeList
  <2>6. \A r \in F : r.id \in ids BY <1>10, <2>5, IdsAre
  <2>7. \A x \in T : i[x] \in ids /\ j[x] \in ids BY <1>10, <2>0, <2>2, <2>3, <2>6
  <2>8. Named(n, T, "resp-binding")
    <3>1. PICK cut : cut = Cut(e.path) OBVIOUS
    <3>2. ByField(n, T, fields, F, "resp-binding", cut) BY <2>0, <2>1, <3>1 DEF ByField
    <3>3. QED BY <1>4, <2>5, <3>2, NamesByField
  <2>9. NewEdges(binds, ids) /\ \A y \in binds : \E x \in T : y.name = n[x]
    BY <2>4, <2>7, <2>8, SomeEdges DEF Named
  <2>10. QED BY <2>8, <2>9 DEF Named
<1>13. NewEdges(shows, ids) /\ \A x \in shows : x.name[1] = "binding-screen"
  <2>0. PICK T : T = fields \X G OBVIOUS
  <2>1. PICK n : n = [x \in T |-> <<"binding-screen", Cut(e.path), x[1]>>] OBVIOUS
  <2>2. PICK i : i = [x \in T |-> binding(x[1])] OBVIOUS
  <2>3. PICK j : j = [x \in T |-> x[2]] OBVIOUS
  <2>4. shows = Spread(T, n, i, j, "binds_to") BY <1>m, <2>0, <2>1, <2>2, <2>3 DEF Spread
  <2>5. AtMostOne(G) /\ IsFiniteSet(G) /\ G \subseteq target BY <1>c, ToSetIs, ListedIs
  <2>6. \A s \in G : s \in ids BY <1>1, <1>10, <1>d, <2>5 DEF GraphOK, EdgesOK
  <2>7. \A x \in T : i[x] \in ids /\ j[x] \in ids BY <1>10, <2>0, <2>2, <2>3, <2>6
  <2>8. Named(n, T, "binding-screen")
    <3>1. PICK cut : cut = Cut(e.path) OBVIOUS
    <3>2. ByField(n, T, fields, G, "binding-screen", cut) BY <2>0, <2>1, <3>1 DEF ByField
    <3>3. QED BY <1>4, <2>5, <3>2, NamesByField
  <2>9. NewEdges(shows, ids) /\ \A y \in shows : \E x \in T : y.name = n[x]
    BY <2>4, <2>7, <2>8, SomeEdges DEF Named
  <2>10. QED BY <2>8, <2>9 DEF Named
<1>14. NewEdges(back, ids) /\ \A x \in back : x.name[1] = "notfound"
  <2>1. PICK n : n = [s \in B |-> <<"notfound", e.method, Cut(e.path)>>] OBVIOUS
  <2>2. back = Tos(B, n, served, "returns") BY <1>n, <2>1 DEF Tos
  <2>3. SomeScreen(B, memory.routes)
    <3>1. SomeScreen(Composition!FirstScreen(memory), memory.routes)
      BY <1>1, FirstScreenIs DEF Registers
    <3>2. SomeScreen({}, memory.routes) BY FS_EmptySet DEF SomeScreen, AtMostOne
    <3>3. QED BY <3>1, <3>2, <1>e
  <2>4. B \subseteq ids /\ IsFiniteSet(B) /\ AtMostOne(B) BY <1>10, <2>3, ScreensPlaced
  <2>5. NewEdges(back, ids) BY <1>10, <2>2, <2>4, EdgesTo
  <2>6. \A x \in back : \E s \in B : x.name = n[s] BY <2>2, FromsNames
  <2>7. QED BY <2>1, <2>5, <2>6
<1>15. NewEdges(calls \cup binds \cup shows \cup back, ids)
  <2>1. NewEdges(calls \cup binds, ids)
    <3>1. \A x \in calls, y \in binds : x.name # y.name BY <1>11, <1>12
    <3>2. QED BY <3>1, <1>11, <1>12, MoreEdges
  <2>2. NewEdges(calls \cup binds \cup shows, ids)
    <3>1. \A x \in calls \cup binds, y \in shows : x.name # y.name BY <1>11, <1>12, <1>13
    <3>2. QED BY <3>1, <2>1, <1>13, MoreEdges
  <2>3. \A x \in calls \cup binds \cup shows, y \in back : x.name # y.name
    BY <1>11, <1>12, <1>13, <1>14
  <2>4. QED BY <2>2, <2>3, <1>14, MoreEdges
<1>16. /\ GraphOK(memory') /\ SameButGraph(h, memory') /\ memory'.nodes = h.nodes
       /\ Joined(h.edges, memory'.edges, calls \cup binds \cup shows \cup back)
  BY <1>0, <1>8, <1>9, <1>15, EdgesGrow
<1>17. SameButGraph(memory, memory') /\ Ids(memory.nodes) \subseteq Ids(memory'.nodes)
  BY <1>8, <1>16, SameTwice
<1>18. CompOK(memory') BY <1>16, <1>17, GrowsQuietly
<1>19. /\ \A x \in calls : x.from = served
       /\ \A x \in binds \cup shows \cup back : x.type # "calls"
  BY <1>k, <1>l, <1>m, <1>n DEF Composition!NewEdge
<1>20. \A x \in calls \cup binds \cup shows \cup back : x.type # "calls" \/ x.from[1] # "call"
  BY <1>5, <1>19
<1>21. NoCall(memory.edges, memory'.edges) BY <1>8, <1>16, <1>20, NoCallJoined
<1>22. QED BY <1>17, <1>18, <1>21

-----------------------------------------------------------------------------
(* The path that is shown first.                                           *)

\* A part of the path: nodes, each once, of one kind.
Part(list, tag, ids) ==
    /\ SomeList(list) /\ Distinct(list) /\ Listed(list) \subseteq ids
    /\ \A x \in Listed(list) : x[1] = tag

\* Parts of the path.
Parts(list, tags, ids) ==
    /\ SomeList(list) /\ Distinct(list) /\ Listed(list) \subseteq ids
    /\ \A x \in Listed(list) : x[1] \in tags

LEMMA OneMorePart ==
    ASSUME NEW a, NEW b, NEW tags, NEW tag, tag \notin tags, NEW ids,
           Parts(a, tags, ids), Part(b, tag, ids)
    PROVE  Parts(a \o b, tags \cup {tag}, ids)
<1>1. SomeList(a) /\ SomeList(b) /\ Distinct(a) /\ Distinct(b) BY DEF Parts, Part
<1>2. Listed(a) \cap Listed(b) = {} BY DEF Parts, Part
<1>3. SomeList(a \o b) BY <1>1, ListCat
<1>4. Distinct(a \o b) BY <1>1, <1>2, CatDistinct
<1>5. Listed(a \o b) = Listed(a) \cup Listed(b) BY <1>1, CatListed
<1>6. QED BY <1>3, <1>4, <1>5 DEF Parts, Part

\* The identifiers of some of the nodes.
IdsAt(nodes, places) ==
    [n \in 1..Composition!Cardinality(places) |-> Composition!Picked(nodes, places)[n].id]

LEMMA IdsAtIs ==
    ASSUME NEW nodes, NodeList(nodes), NEW places, places \subseteq DOMAIN nodes, NEW tag,
           \A i \in places : nodes[i].id[1] = tag
    PROVE  Part(IdsAt(nodes, places), tag, Ids(nodes))
<1>a. PICK s : s = Picked(nodes, places) OBVIOUS
<1>b. PICK k : k = Cardinality(places) OBVIOUS
<1>c. PICK list : list = IdsAt(nodes, places) OBVIOUS
<1>d. PICK N : N = Len(nodes) OBVIOUS
<1>1. list = [n \in 1..k |-> s[n].id]
  BY <1>a, <1>b, <1>c, ComposedPicked, ComposedCount DEF IdsAt
<1>2. N \in Nat /\ DOMAIN nodes = 1..N /\ places \subseteq 1..N
  BY <1>d, ListsDomain DEF NodeList
<1>3. InOrder(nodes, places, s) BY <1>2, <1>a, PickedIs
<1>4. /\ k \in Nat /\ DOMAIN s = 1..k
      /\ \A n \in 1..k : \E i \in places : s[n] = nodes[i] /\ Cardinality(Below(places, i)) = n
  BY <1>3, <1>b DEF InOrder
<1>5. SomeList(list)
  <2>1. DOMAIN list = 1..k /\ list = [i \in DOMAIN list |-> list[i]] BY <1>1
  <2>2. QED BY <1>4, <2>1, ListIs
<1>6. \A n \in 1..k : \E i \in places :
        list[n] = nodes[i].id /\ Cardinality(Below(places, i)) = n
  BY <1>1, <1>4
<1>7. DOMAIN list = 1..k BY <1>1
<1>8. Distinct(list)
  <2>1. ASSUME NEW m \in 1..k, NEW n \in 1..k, list[m] = list[n] PROVE m = n
    <3>1. PICK i \in places : list[m] = nodes[i].id /\ Cardinality(Below(places, i)) = m BY <1>6
    <3>2. PICK j \in places : list[n] = nodes[j].id /\ Cardinality(Below(places, j)) = n BY <1>6
    <3>3. i = j BY <2>1, <3>1, <3>2 DEF NodeList
    <3>4. QED BY <3>1, <3>2, <3>3
  <2>2. QED BY <2>1, <1>7 DEF Distinct
<1>9. \A x \in Listed(list) : \E i \in places : x = nodes[i].id BY <1>6, <1>7 DEF Listed
<1>10. Listed(list) \subseteq Ids(nodes) BY <1>9 DEF Ids, Composition!Ids
<1>11. \A x \in Listed(list) : x[1] = tag BY <1>9
<1>12. QED BY <1>5, <1>8, <1>10, <1>11, <1>c DEF Part

LEMMA OnePart ==
    ASSUME NEW S, NEW list, list = Composition!Listed(S), NEW ids, S \subseteq ids, NEW tag,
           \A x \in S : x[1] = tag
    PROVE  Part(list, tag, ids)
<1>1. SomeList(list) /\ Distinct(list) /\ Listed(list) \subseteq S BY ListedIs
<1>2. QED BY <1>1 DEF Part

LEMMA PathIs ==
    ASSUME CompOK(memory), NEW path, path = Composition!PrimaryPath
    PROVE  SomeList(path) /\ Listed(path) \subseteq Ids(memory.nodes) /\ Distinct(path)
<1> DEFINE e == Composition!Business[1]
           words(r) == {r.segs[i].text : i \in DOMAIN r.segs} \cap Words
           alike == {i \in DOMAIN memory.routes :
                       words(memory.routes[i]) \cap words(e.path) # {}}
           screen == IF alike = {} THEN Composition!FirstScreen(memory)
                     ELSE {Composition!ScreenId(r) :
                             r \in Composition!FirstOf(memory.routes, alike)}
           of(type) == {i \in DOMAIN memory.nodes : memory.nodes[i].type = type}
           own(type) == {i \in of(type) : memory.nodes[i].of = Composition!Key(e)}
           shown == {i \in of("binding") :
                       Composition!Cardinality({j \in of("binding") : j < i}) < 2}
           call == Composition!CallOf(Composition!Key(e))
           endpoint == Composition!EndpointOf(Composition!Key(e))
           a == Composition!Listed(screen)
           b == Composition!Listed(call)
           c == Composition!Listed(endpoint)
           d == IdsAt(memory.nodes, own("request_dto"))
           f == IdsAt(memory.nodes, own("response_dto"))
           g == IdsAt(memory.nodes, shown)
<1>0. path = IF Composition!Business = <<>> THEN <<>> ELSE a \o b \o c \o d \o f \o g
  BY DEF Composition!PrimaryPath, IdsAt
<1>a. screen = IF alike = {} THEN Composition!FirstScreen(memory)
               ELSE {Composition!ScreenId(r) : r \in Composition!FirstOf(memory.routes, alike)}
  OBVIOUS
<1>b. alike \subseteq DOMAIN memory.routes OBVIOUS
<1>c. /\ a = Composition!Listed(screen) /\ b = Composition!Listed(call)
      /\ c = Composition!Listed(endpoint)
  OBVIOUS
<1>d. call = Composition!CallOf(Composition!Key(e)) OBVIOUS
<1>e. endpoint = Composition!EndpointOf(Composition!Key(e)) OBVIOUS
<1>f. d = IdsAt(memory.nodes, own("request_dto")) /\ f = IdsAt(memory.nodes, own("response_dto"))
      /\ g = IdsAt(memory.nodes, shown)
  OBVIOUS
<1>g. \A t : own(t) \subseteq DOMAIN memory.nodes /\ \A i \in own(t) : memory.nodes[i].type = t
  OBVIOUS
<1>h. shown \subseteq DOMAIN memory.nodes /\ \A i \in shown : memory.nodes[i].type = "binding"
  OBVIOUS
<1> PICK key : key = Composition!Key(e) OBVIOUS
<1> HIDE DEF e, words, alike, screen, of, own, shown, call, endpoint, a, b, c, d, f, g
<1>1. GraphOK(memory) /\ Registers(memory) /\ Placed(memory) BY DEF CompOK
<1>2. PICK ids : ids = Ids(memory.nodes) OBVIOUS
<1>3. Part(a, "screen", ids)
  <2>1. SomeList(memory.routes) BY <1>1 DEF Registers
  <2>2. SomeScreen(Composition!FirstScreen(memory), memory.routes) BY <2>1, FirstScreenIs
  <2>3. PICK S : S = {Composition!ScreenId(r) : r \in Composition!FirstOf(memory.routes, alike)}
    OBVIOUS
  <2>4. SomeScreen(S, memory.routes) BY <1>b, <2>1, <2>3, ScreenOf
  <2>5. SomeScreen(screen, memory.routes) BY <1>a, <2>2, <2>3, <2>4
  <2>6. screen \subseteq ids BY <1>2, <2>5, ScreensPlaced
  <2>7. \A x \in screen : x[1] = "screen" BY <2>5 DEF SomeScreen, Composition!ScreenId
  <2>8. QED BY <1>c, <2>6, <2>7, OnePart
<1>4. Part(b, "call", ids)
  <2>1. call \subseteq {Composition!CallId(key)} /\ call \subseteq ids BY <1>d, <1>2, CallOfIs
  <2>2. \A x \in call : x[1] = "call" BY <2>1 DEF Composition!CallId
  <2>3. QED BY <1>c, <2>1, <2>2, OnePart
<1>5. Part(c, "endpoint", ids)
  <2>1. OneEndpoint(endpoint, key, memory.endpoints, ids) BY <1>e, <1>2, EndpointOfIs
  <2>2. endpoint \subseteq ids BY <2>1 DEF OneEndpoint
  <2>3. \A x \in endpoint : x[1] = "endpoint" BY <2>1 DEF OneEndpoint, Composition!EndpointId
  <2>4. QED BY <1>c, <2>2, <2>3, OnePart
<1>6. /\ NodeList(memory.nodes)
      /\ \A i \in DOMAIN memory.nodes :
           /\ memory.nodes[i].type = "request_dto" => memory.nodes[i].id[1] = "req"
           /\ memory.nodes[i].type = "response_dto" => memory.nodes[i].id[1] = "resp"
           /\ memory.nodes[i].type = "binding" => memory.nodes[i].id[1] = "binding"
  BY <1>1 DEF GraphOK, NodeList, WellTyped, Listed
<1>7. Part(d, "req", ids) BY <1>2, <1>6, <1>f, <1>g, IdsAtIs
<1>8. Part(f, "resp", ids) BY <1>2, <1>6, <1>f, <1>g, IdsAtIs
<1>9. Part(g, "binding", ids) BY <1>2, <1>6, <1>f, <1>h, IdsAtIs
<1>10. CASE Composition!Business = <<>>
  <2>1. path = <<>> BY <1>0, <1>10
  <2>2. QED BY <2>1, ShortLists DEF Listed, Distinct
<1>11. CASE Composition!Business # <<>>
  <2>1. path = a \o b \o c \o d \o f \o g BY <1>0, <1>11
  <2>2. Parts(a, {"screen"}, ids) BY <1>3 DEF Part, Parts
  <2>3. Parts(a \o b, {"screen"} \cup {"call"}, ids) BY <1>4, <2>2, OneMorePart
  <2>4. PICK t3 : t3 = {"screen"} \cup {"call"} \cup {"endpoint"} OBVIOUS
  <2>5. Parts(a \o b \o c, t3, ids)
    <3>1. "endpoint" \notin {"screen"} \cup {"call"} OBVIOUS
    <3>2. QED BY <1>5, <2>3, <2>4, <3>1, OneMorePart
  <2>6. PICK t4 : t4 = t3 \cup {"req"} OBVIOUS
  <2>7. Parts(a \o b \o c \o d, t4, ids)
    <3>1. "req" \notin t3 BY <2>4
    <3>2. QED BY <1>7, <2>5, <2>6, <3>1, OneMorePart
  <2>8. PICK t5 : t5 = t4 \cup {"resp"} OBVIOUS
  <2>9. Parts(a \o b \o c \o d \o f, t5, ids)
    <3>1. "resp" \notin t4 BY <2>4, <2>6
    <3>2. QED BY <1>8, <2>7, <2>8, <3>1, OneMorePart
  <2>10. Parts(a \o b \o c \o d \o f \o g, t5 \cup {"binding"}, ids)
    <3>1. "binding" \notin t5 BY <2>4, <2>6, <2>8
    <3>2. QED BY <1>9, <2>9, <3>1, OneMorePart
  <2>11. QED BY <1>2, <2>1, <2>10 DEF Parts
<1>12. QED BY <1>10, <1>11

LEMMA PathStep ==
    ASSUME CompOK(memory), Composition!Path
    PROVE  CompOK(memory') /\ OtherThanRows(memory, memory')
<1>a. PICK path : path = Composition!PrimaryPath OBVIOUS
<1>1. memory' = [memory EXCEPT !.path = path] BY <1>a DEF Composition!Path
<1>2. GraphOK(memory) /\ Registers(memory) /\ Placed(memory) BY DEF CompOK
<1>3. /\ DOMAIN memory' = DOMAIN memory /\ memory'.nodes = memory.nodes
      /\ memory'.edges = memory.edges /\ memory'.routes = memory.routes
      /\ memory'.calls = memory.calls /\ memory'.endpoints = memory.endpoints
      /\ memory'.inputs = memory.inputs /\ memory'.transitions = memory.transitions
      /\ memory'.alias = memory.alias /\ memory'.path = path
  BY <1>1, <1>2 DEF GraphOK, CompFields
<1>4. GraphOK(memory') BY <1>2, <1>3 DEF GraphOK
<1>5. Registers(memory') BY <1>2, <1>3 DEF Registers
<1>6. Placed(memory') BY <1>2, <1>3 DEF Placed
<1>7. PathOK(memory') BY <1>3, <1>a, PathIs DEF PathOK
<1>8. QED BY <1>3, <1>4, <1>5, <1>6, <1>7 DEF CompOK, OtherThanRows

LEMMA CompOKInit == ASSUME Composition!Init PROVE CompOK(memory)
<1>1. /\ DOMAIN memory = CompFields /\ memory.nodes = <<>> /\ memory.edges = {}
      /\ memory.routes = <<>> /\ memory.calls = <<>> /\ memory.endpoints = <<>>
      /\ memory.inputs = <<>> /\ memory.transitions = <<>> /\ memory.alias = {}
      /\ memory.path = <<>>
  BY DEF Composition!Init, CompFields
<1>2. Listed(<<>>) = {} /\ SomeList(<<>>) /\ Distinct(<<>>) BY ShortLists DEF Listed, Distinct
<1>3. NodeList(<<>>) BY <1>2 DEF NodeList
<1>4. EdgesOK({}, Ids(<<>>)) BY FS_EmptySet DEF EdgesOK
<1>5. GraphOK(memory) BY <1>1, <1>3, <1>4 DEF GraphOK
<1>6. Registers(memory) BY <1>1, <1>2 DEF Registers
<1>7. Placed(memory) BY <1>1, <1>2 DEF Placed
<1>8. PathOK(memory) BY <1>1, <1>2 DEF PathOK
<1>9. QED BY <1>5, <1>6, <1>7, <1>8 DEF CompOK

LEMMA CompIsWhole == ASSUME CompOK(memory) PROVE Composition!GraphIsWhole
<1>1. \A e \in memory.edges : e.from \in Ids(memory.nodes) /\ e.to \in Ids(memory.nodes)
  BY DEF CompOK, GraphOK, EdgesOK
<1>2. \A e, f \in memory.edges : e.id = f.id => e = f BY DEF CompOK, GraphOK, EdgesOK
<1>3. Composition!Range(memory.path) \subseteq Ids(memory.nodes)
  BY DEF CompOK, PathOK, Listed, Composition!Range
<1>4. Composition!IsInjective(memory.path)
  BY DEF CompOK, PathOK, Distinct, Composition!IsInjective
<1>5. QED BY <1>1, <1>2, <1>3, <1>4 DEF Composition!GraphIsWhole, Ids

-----------------------------------------------------------------------------
(* Which endpoint a call is mapped to.                                     *)

LEMMA ScoreIs ==
    ASSUME NEW c, NEW e
    PROVE  /\ Composition!Score(c, e) \in 0..100
           /\ Composition!Score(c, e) >= 100 <=> Composition!Fits(c, e)
<1>1. PICK a : a = IF c.method = e.method THEN 50 ELSE 0 OBVIOUS
<1>2. PICK p, q : p = Composition!Normal(c.path) /\ q = Composition!Normal(e.path) OBVIOUS
<1>4. \E d \in {0, 35} : Composition!Score(c, e) = a + (IF p = q THEN 50 ELSE d)
  <2>1. Composition!Score(c, e)
          = a + (IF p = q THEN 50 ELSE IF /\ Len(p.segs) = Len(q.segs)
                                          /\ \A i \in DOMAIN p.segs :
                                               \/ p.segs[i] = q.segs[i]
                                               \/ /\ p.segs[i].kind = "braced"
                                                  /\ q.segs[i].kind = "braced"
                                       THEN 35 ELSE 0)
    BY <1>1, <1>2 DEF Composition!Score, Composition!SameStructure
  <2>2. QED BY <2>1
<1>5. Composition!Fits(c, e) <=> a = 50 /\ p = q BY <1>1, <1>2 DEF Composition!Fits
<1>6. a \in {0, 50} BY <1>1
<1>7. QED BY <1>4, <1>5, <1>6

Fitting(c, endpoints) == {i \in DOMAIN endpoints : Composition!Fits(c, endpoints[i])}

\* A row is confirmed exactly when one endpoint fits.
LEMMA MappedIs ==
    ASSUME NEW endpoints, SomeList(endpoints), NEW c,
           NEW row, row = Composition!Mapped(c, endpoints)
    PROVE  /\ row.method = c.method /\ row.path = Composition!Normal(c.path)
           /\ row.status = "confirmed" =>
                \E i \in DOMAIN endpoints : Fitting(c, endpoints) = {i}
           /\ \A i \in DOMAIN endpoints : Fitting(c, endpoints) = {i} =>
                row.status = "confirmed" /\ row.endpoint = {endpoints[i].id}
<1>a. PICK peers : peers = Composition!Peers(c, endpoints) OBVIOUS
<1>b. PICK best : best = IF peers = {} THEN 0
                         ELSE Composition!Score(c, endpoints[Composition!Min(peers)]) OBVIOUS
<1>c. PICK k : k = Cardinality(peers) OBVIOUS
<1>d. PICK N : N = Len(endpoints) OBVIOUS
<1>1. /\ row.method = c.method /\ row.path = Composition!Normal(c.path)
      /\ row.status = IF k > 1 THEN "ambiguous" ELSE IF best >= 100 THEN "confirmed"
                      ELSE IF best >= 70 THEN "candidate" ELSE "unmapped"
      /\ ~(k > 1) /\ best >= 100 => row.endpoint = {endpoints[i].id : i \in peers}
  BY <1>a, <1>b, <1>c, ComposedCount DEF Composition!Mapped
<1>2. N \in Nat /\ DOMAIN endpoints = 1..N BY <1>d, ListsDomain
<1>e. PICK score : score = [i \in 1..N |-> Composition!Score(c, endpoints[i])] OBVIOUS
<1>3. peers = {i \in 1..N : score[i] > 0 /\ \A j \in 1..N : score[j] <= score[i]}
  BY <1>2, <1>a, <1>e DEF Composition!Peers
<1>4. \A i \in 1..N : /\ score[i] \in 0..100
                      /\ score[i] >= 100 <=> i \in Fitting(c, endpoints)
  BY <1>2, <1>e, ScoreIs DEF Fitting
<1>5. Fitting(c, endpoints) \subseteq peers
  <2>1. ASSUME NEW i \in Fitting(c, endpoints) PROVE i \in peers
    <3>1. i \in 1..N BY <1>2 DEF Fitting
    <3>2. score[i] >= 100 /\ score[i] \in 0..100 BY <1>4, <3>1
    <3>3. \A j \in 1..N : score[j] <= score[i] BY <1>4, <3>2
    <3>4. QED BY <1>3, <3>1, <3>2, <3>3
  <2>2. QED BY <2>1
<1>6. IsFiniteSet(peers) /\ k \in Nat
  <2>1. IsFiniteSet(1..N) BY <1>2, FS_Interval
  <2>2. peers \subseteq 1..N BY <1>3
  <2>3. QED BY <2>1, <2>2, <1>c, FS_Subset, FS_CardinalityType
<1>7. ASSUME peers # {} PROVE Composition!Min(peers) \in peers
  <2>1. peers \subseteq Nat BY <1>2, <1>3
  <2>2. PICK x \in peers : \A y \in peers : x =< y BY <1>7, <2>1, SmallestOf
  <2>3. QED BY <2>2 DEF Composition!Min
<1>8. ASSUME row.status = "confirmed" PROVE \E i \in DOMAIN endpoints : Fitting(c, endpoints) = {i}
  <2>1. ~(k > 1) /\ best >= 100 BY <1>1, <1>8
  <2>2. peers # {}
    <3>1. peers = {} => best = 0 BY <1>b
    <3>2. QED BY <2>1, <3>1
  <2>3. PICK m : m = Composition!Min(peers) OBVIOUS
  <2>4. m \in peers BY <1>7, <2>2, <2>3
  <2>5. score[m] >= 100 BY <2>1, <2>2, <2>3, <2>4, <1>b, <1>e, <1>3
  <2>6. m \in Fitting(c, endpoints) BY <1>3, <1>4, <2>4, <2>5
  <2>7. k # 0 BY <1>6, <1>c, <2>2, FS_EmptySet
  <2>8. k = 1 BY <1>6, <2>1, <2>7
  <2>9. \E x : peers = {x} BY <1>6, <1>c, <2>8, FS_Singleton
  <2>10. peers = {m} BY <2>4, <2>9
  <2>11. QED BY <1>5, <2>6, <2>10 DEF Fitting
<1>9. ASSUME NEW i \in DOMAIN endpoints, Fitting(c, endpoints) = {i}
      PROVE  row.status = "confirmed" /\ row.endpoint = {endpoints[i].id}
  <2>1. i \in peers BY <1>5, <1>9
  <2>2. score[i] >= 100 BY <1>2, <1>4, <1>9
  <2>3. ASSUME NEW j \in peers PROVE j = i
    <3>1. score[i] <= score[j] /\ j \in 1..N BY <1>2, <1>3
    <3>5. i \in 1..N BY <1>2
    <3>6. score[i] \in 0..100 /\ score[j] \in 0..100 BY <1>4, <3>1, <3>5
    <3>2. score[j] \in Nat /\ score[i] \in Nat BY <3>6
    <3>4. score[j] >= 100 BY <2>2, <3>1, <3>2
    <3>3. QED BY <1>4, <1>9, <3>1, <3>4
  <2>4. peers = {i} BY <2>1, <2>3
  <2>5. k = 1 BY <2>4, <1>c, FS_Singleton
  <2>6. Composition!Min(peers) = i BY <1>7, <2>4
  <2>7. best = score[i] BY <1>2, <1>b, <1>e, <2>4, <2>6
  <2>8. ~(k > 1) /\ best >= 100 BY <2>2, <2>5, <2>7
  <2>9. QED BY <1>1, <2>4, <2>8
<1>10. QED BY <1>1, <1>8, <1>9

\* The normal form of a normal form, and what it says of probes.
LEMMA KindTwice ==
    ASSUME NEW s, NEW t, t = [s EXCEPT !.kind = IF @ = "static" THEN @ ELSE "braced"]
    PROVE  [t EXCEPT !.kind = IF @ = "static" THEN @ ELSE "braced"] = t
<1>1. CASE "kind" \in DOMAIN s
  <2>1. t.kind \in {"static", "braced"} BY <1>1
  <2>2. QED BY <2>1
<1>2. CASE "kind" \notin DOMAIN s BY <1>2
<1>3. QED BY <1>1, <1>2

LEMMA NormalTwice ==
    ASSUME NEW p
    PROVE  Composition!Normal(Composition!Normal(p)) = Composition!Normal(p)
<1>1. PICK n : n = Composition!Normal(p) OBVIOUS
<1>2. n = [host |-> FALSE, slash |-> FALSE,
           segs |-> [i \in DOMAIN p.segs |->
                       [p.segs[i] EXCEPT !.kind = IF @ = "static" THEN @ ELSE "braced"]]]
  BY <1>1 DEF Composition!Normal
<1>3. PICK segs : segs = [i \in DOMAIN p.segs |->
            [p.segs[i] EXCEPT !.kind = IF @ = "static" THEN @ ELSE "braced"]]
  OBVIOUS
<1>4. n.segs = segs /\ DOMAIN segs = DOMAIN p.segs BY <1>2, <1>3
<1>5. \A i \in DOMAIN segs :
        [segs[i] EXCEPT !.kind = IF @ = "static" THEN @ ELSE "braced"] = segs[i]
  <2>1. ASSUME NEW i \in DOMAIN segs
        PROVE  [segs[i] EXCEPT !.kind = IF @ = "static" THEN @ ELSE "braced"] = segs[i]
    <3>1. segs[i] = [p.segs[i] EXCEPT !.kind = IF @ = "static" THEN @ ELSE "braced"]
      BY <1>3
    <3>2. QED BY <3>1, KindTwice
  <2>2. QED BY <2>1
<1>6. segs = [i \in DOMAIN segs |-> segs[i]] BY <1>3
<1>7. [i \in DOMAIN segs |-> [segs[i] EXCEPT !.kind = IF @ = "static" THEN @ ELSE "braced"]]
        = segs
  <2>1. PICK f : f = [i \in DOMAIN segs |->
              [segs[i] EXCEPT !.kind = IF @ = "static" THEN @ ELSE "braced"]]
    OBVIOUS
  <2>2. DOMAIN f = DOMAIN segs /\ f = [i \in DOMAIN f |-> f[i]] BY <2>1
  <2>3. \A i \in DOMAIN segs : f[i] = segs[i] BY <1>5, <2>1
  <2>4. f = segs BY <1>6, <2>2, <2>3
  <2>5. QED BY <2>1, <2>4
<1>8. Composition!Normal(n) = [host |-> FALSE, slash |-> FALSE, segs |-> segs]
  BY <1>4, <1>7 DEF Composition!Normal
<1>9. n = [host |-> FALSE, slash |-> FALSE, segs |-> segs] BY <1>2, <1>3
<1>10. QED BY <1>1, <1>8, <1>9

LEMMA ProbeNormal ==
    ASSUME NEW e \in Endpoints
    PROVE  Composition!Probe(Composition!Normal(e.path)) <=> Composition!Probe(e.path)
<1>1. PICK segs : segs = e.path.segs OBVIOUS
<1>2. segs \in Seq([text : STRING, kind : {"static", "braced", "other"}])
  BY <1>1, EndpointsAssumption
<1>3. PICK new : new = Composition!Normal(e.path).segs OBVIOUS
<1>4. new = [i \in DOMAIN segs |->
               [segs[i] EXCEPT !.kind = IF @ = "static" THEN @ ELSE "braced"]]
  BY <1>1, <1>3 DEF Composition!Normal
<1>5. \A i \in DOMAIN segs : segs[i] \in [text : STRING, kind : {"static", "braced", "other"}]
  BY <1>2, SeqIs
<1>6. \A i \in DOMAIN segs : new[i].text = segs[i].text BY <1>4, <1>5
<1>7. DOMAIN new = DOMAIN segs BY <1>4
<1>8. QED BY <1>1, <1>3, <1>6, <1>7 DEF Composition!Probe

-----------------------------------------------------------------------------
(* What the rows of the mapping draw.                                      *)

\* No two endpoints have one identifier.
OwnIds(endpoints) == \A i, j \in DOMAIN endpoints : endpoints[i].id = endpoints[j].id => i = j

\* A call that one endpoint fits, at place i.
CertainAt(g, c, i) ==
    /\ ~Composition!Probe(c.path)
    /\ i \in DOMAIN g.endpoints /\ Fitting(c, g.endpoints) = {i}

\* What is drawn for it leads from its node to that of the endpoint.
Leads(g, c, i, from, to) ==
    from = Composition!CallId(Composition!Key(c)) /\ to = Composition!EndpointId(g.endpoints[i])

LEMMA KeyIs ==
    ASSUME NEW x, NEW m, NEW p, Composition!Key(x) = <<m, p>>
    PROVE  x.method = m /\ x.path = p
BY DEF Composition!Key

\* A row leads from a certain call to its endpoint only.
LEMMA RowIsCertain ==
    ASSUME CompOK(memory), OwnIds(memory.endpoints), NEW c \in Listed(memory.calls),
           NEW row, row = Composition!Mapped(c, memory.endpoints),
           NEW from \in CallsOf(row), NEW to \in ServedBy(row)
    PROVE  /\ \E d \in Listed(memory.calls), i \in DOMAIN memory.endpoints :
                CertainAt(memory, d, i) /\ Leads(memory, d, i, from, to)
           /\ \A i : CertainAt(memory, c, i) => to = Composition!EndpointId(memory.endpoints[i])
<1>a. PICK endpoints : endpoints = memory.endpoints OBVIOUS
<1>b. PICK path : path = Composition!Normal(c.path) OBVIOUS
<1>c. PICK key : key = Composition!Key(row) OBVIOUS
<1>1. SomeList(endpoints) BY <1>a DEF CompOK, Registers
<1>2. /\ row.method = c.method /\ row.path = path
      /\ row.status = "confirmed" =>
           \E i \in DOMAIN endpoints : Fitting(c, endpoints) = {i}
      /\ \A i \in DOMAIN endpoints : Fitting(c, endpoints) = {i} =>
           row.status = "confirmed" /\ row.endpoint = {endpoints[i].id}
  BY <1>1, <1>a, <1>b, MappedIs
<1>3. row.status = "confirmed" /\ from \in Composition!CallOf(key) BY <1>c DEF CallsOf
<1>4. PICK i \in DOMAIN endpoints : Fitting(c, endpoints) = {i} BY <1>2, <1>3
<1>5. row.endpoint = {endpoints[i].id} BY <1>2, <1>4
<1>6. key = <<c.method, path>> BY <1>2, <1>c DEF Composition!Key
<1>7. PICK d \in Listed(memory.calls) :
        Composition!Key(d) = key /\ ~Composition!Probe(d.path)
  BY <1>3, CallOfIs
<1>8. from = Composition!CallId(Composition!Key(d)) BY <1>3, <1>7, CallOfIs
<1>9. d.method = c.method /\ d.path = path BY <1>6, <1>7, KeyIs
<1>10. Composition!Normal(path) = path BY <1>b, NormalTwice
<1>11. \A e : Composition!Fits(d, e) <=> Composition!Fits(c, e)
  BY <1>9, <1>10, <1>b DEF Composition!Fits
<1>12. Fitting(d, endpoints) = {i} BY <1>4, <1>11 DEF Fitting
<1>13. PICK e \in Listed(endpoints) :
         /\ to = Composition!EndpointId(e)
         /\ Composition!Key(e) = key \/ e.id \in row.endpoint
  BY <1>a, <1>c, ServedIs
<1>14. PICK j \in DOMAIN endpoints : e = endpoints[j] BY DEF Listed
<1>15. j = i
  <2>1. CASE Composition!Key(e) = key
    <3>1. e.method = c.method /\ e.path = path BY <1>6, <2>1, KeyIs
    <3>2. Composition!Fits(c, e) BY <1>10, <1>b, <3>1 DEF Composition!Fits
    <3>3. j \in Fitting(c, endpoints) BY <1>14, <3>2 DEF Fitting
    <3>4. QED BY <1>4, <3>3
  <2>2. CASE e.id \in row.endpoint BY <1>5, <1>14, <1>a, <2>2 DEF OwnIds
  <2>3. QED BY <1>13, <2>1, <2>2
<1>16. CertainAt(memory, d, i) BY <1>4, <1>7, <1>12, <1>a DEF CertainAt
<1>17. Leads(memory, d, i, from, to) BY <1>8, <1>13, <1>14, <1>15, <1>a DEF Leads
<1>18. to = Composition!EndpointId(memory.endpoints[i]) BY <1>17 DEF Leads
<1>19. \A k : CertainAt(memory, c, k) => k = i BY <1>4, <1>a DEF CertainAt
<1>20. QED BY <1>4, <1>7, <1>16, <1>17, <1>18, <1>19, <1>a

\* The row of a certain call in the normal form leads somewhere.
LEMMA RowIsDrawn ==
    ASSUME CompOK(memory), NEW c \in Listed(memory.calls), NEW i, CertainAt(memory, c, i),
           Composition!Normal(c.path) = c.path,
           NEW row, row = Composition!Mapped(c, memory.endpoints)
    PROVE  /\ CallsOf(row) = {Composition!CallId(Composition!Key(c))}
           /\ ServedBy(row) # {}
<1>a. PICK endpoints : endpoints = memory.endpoints OBVIOUS
<1>c. PICK key : key = Composition!Key(row) OBVIOUS
<1>d. PICK e : e = endpoints[i] OBVIOUS
<1>1. SomeList(endpoints) BY <1>a DEF CompOK, Registers
<1>2. i \in DOMAIN endpoints /\ Fitting(c, endpoints) = {i} /\ ~Composition!Probe(c.path)
  BY <1>a DEF CertainAt
<1>3. /\ row.method = c.method /\ row.path = c.path
      /\ row.status = "confirmed" /\ row.endpoint = {e.id}
  BY <1>1, <1>2, <1>a, <1>d, MappedIs
<1>4. key = Composition!Key(c) BY <1>3, <1>c DEF Composition!Key
<1>5. CallsOf(row) = Composition!CallOf(key) BY <1>3, <1>c DEF CallsOf
<1>6. CallsOf(row) = {Composition!CallId(Composition!Key(c))}
  <2>1. CallsOf(row) # {} BY <1>2, <1>4, <1>5, CallOfIs
  <2>2. CallsOf(row) \subseteq {Composition!CallId(Composition!Key(c))}
    BY <1>4, <1>5, CallOfIs
  <2>3. QED BY <2>1, <2>2
<1>7. e \in Listed(endpoints) /\ e \in Endpoints
  <2>1. e \in Listed(endpoints) BY <1>2, <1>d DEF Listed
  <2>2. QED BY <2>1, <1>a DEF CompOK, Placed
<1>8. ~Composition!Probe(e.path)
  <2>1. i \in Fitting(c, endpoints) BY <1>2
  <2>2. Composition!Fits(c, e) BY <2>1, <1>d DEF Fitting
  <2>3. Composition!Normal(e.path) = c.path BY <2>2 DEF Composition!Fits
  <2>4. QED BY <1>2, <1>7, <2>3, ProbeNormal
<1>9. PICK s : s = Composition!Business OBVIOUS
<1>10. SomeList(s) /\ e \in Listed(s) BY <1>1, <1>7, <1>8, <1>9, <1>a, BusinessIs
<1>11. PICK P : P = {k \in DOMAIN s : s[k].id \in row.endpoint} OBVIOUS
<1>12. P # {} BY <1>3, <1>10, <1>11 DEF Listed
<1>13. PICK F : F = Composition!FirstOf(s, P) OBVIOUS
<1>14. F # {} BY <1>10, <1>11, <1>12, <1>13, FirstIsListed
<1>15. ServedBy(row) = IF Composition!EndpointOf(key) # {} THEN Composition!EndpointOf(key)
                       ELSE {Composition!EndpointId(x) : x \in F}
  BY <1>9, <1>11, <1>13, <1>c DEF ServedBy
<1>16. QED BY <1>6, <1>14, <1>15

-----------------------------------------------------------------------------
(* The composition, stage by stage.                                        *)

\* An edge that leads from a call to an endpoint.
FromCall(e) == e.type = "calls" /\ e.from[1] = "call"

\* Only certain calls lead to an endpoint.
DrawnRight(g) ==
    \A e \in g.edges : FromCall(e) =>
      \E c \in Listed(g.calls), i \in DOMAIN g.endpoints :
        CertainAt(g, c, i) /\ Leads(g, c, i, e.from, e.to)

\* A certain call that is written in the normal form leads to its endpoint.
DrawnAt(g, c) ==
    Composition!Normal(c.path) = c.path =>
      \A i : CertainAt(g, c, i) =>
        \E e \in g.edges : FromCall(e) /\ Leads(g, c, i, e.from, e.to)

CallsIInv ==
    /\ CompOK(memory) /\ OwnIds(memory.endpoints) /\ DrawnRight(memory)
    /\ thread \in [at : 1..14, index : Nat \ {0}]
    /\ thread.at < 12 => \A e \in memory.edges : ~FromCall(e)
    /\ thread.at > 10 => disk = Composition!Mapping(memory.calls, memory.endpoints)
    /\ thread.at >= 12 =>
         \A k \in DOMAIN memory.calls :
           thread.at > 12 \/ k < thread.index => DrawnAt(memory, memory.calls[k])

LEMMA StageIs ==
    ASSUME NEW n \in 1..14
    PROVE  /\ Composition!Stages[n] \in Composition!Reading => n < 10
           /\ Composition!Stages[n] = "endpoints" => n = 4
           /\ Composition!Stages[n] = "map" => n = 10
           /\ Composition!Stages[n] = "responses" => n = 11
           /\ Composition!Stages[n] = "mappings" => n = 12
           /\ Composition!Stages[n] = "path" => n = 13
           /\ Composition!Stages[n] = "done" => n = 14
<1>1. n \in {1, 2, 3, 4, 5, 6, 7, 8, 9, 10, 11, 12, 13, 14} OBVIOUS
<1>2. QED BY <1>1, SMTT(30) DEF Composition!Stages, Composition!Reading

LEMMA CallsInit == ASSUME Composition!Init PROVE CallsIInv
<1>1. CompOK(memory) BY CompOKInit
<1>2. memory.edges = {} /\ memory.endpoints = <<>> BY DEF Composition!Init
<1>3. thread = [at |-> 1, index |-> 1] BY DEF Composition!Init
<1>4. OwnIds(memory.endpoints) /\ DrawnRight(memory) BY <1>2 DEF OwnIds, DrawnRight
<1>5. thread \in [at : 1..14, index : Nat \ {0}] /\ thread.at = 1 BY <1>3
<1>6. QED BY <1>1, <1>2, <1>4, <1>5 DEF CallsIInv

\* A list is read.
LEMMA ReadingKeeps ==
    ASSUME CallsIInv, CompOK(memory'), NoCall(memory.edges, memory'.edges),
           OwnIds(memory'.endpoints), thread' = thread, thread.at < 10
    PROVE  CallsIInv'
<1>1. \A e \in memory'.edges : ~FromCall(e) BY DEF CallsIInv, NoCall, FromCall
<1>2. thread \in [at : 1..14, index : Nat \ {0}] BY DEF CallsIInv
<1>3. thread.at \in 1..14 BY <1>2
<1>4. thread.at < 12 /\ ~(thread.at > 10) /\ ~(thread.at >= 12) BY <1>3
<1>5. DrawnRight(memory') BY <1>1 DEF DrawnRight
<1>6. QED BY <1>1, <1>2, <1>4, <1>5 DEF CallsIInv

\* What is said of the calls is said of the graph's edges and registers.
LEMMA SameCalls ==
    ASSUME NEW g, NEW h, h.edges = g.edges, h.calls = g.calls, h.endpoints = g.endpoints
    PROVE  /\ DrawnRight(g) => DrawnRight(h)
           /\ \A c : DrawnAt(g, c) => DrawnAt(h, c)
           /\ OwnIds(g.endpoints) => OwnIds(h.endpoints)
<1>1. \A c, i : CertainAt(h, c, i) <=> CertainAt(g, c, i) BY DEF CertainAt
<1>2. \A c, i, from, to : Leads(h, c, i, from, to) <=> Leads(g, c, i, from, to) BY DEF Leads
<1>3. QED BY <1>1, <1>2 DEF DrawnRight, DrawnAt

\* The graph grows, and its calls and endpoints stay.
LEMMA MoreDrawn ==
    ASSUME NEW g, NEW h, g.edges \subseteq h.edges, h.calls = g.calls, h.endpoints = g.endpoints
    PROVE  \A c : DrawnAt(g, c) => DrawnAt(h, c)
<1>1. \A c, i : CertainAt(h, c, i) <=> CertainAt(g, c, i) BY DEF CertainAt
<1>2. \A c, i, from, to : Leads(h, c, i, from, to) <=> Leads(g, c, i, from, to) BY DEF Leads
<1>3. QED BY <1>1, <1>2 DEF DrawnAt

LEMMA Reads ==
    ASSUME CallsIInv,
           \/ \E s \in Screens : Composition!Screen(s)
           \/ \E r \in Composition!ToSet(memory.routes), l \in Links : Composition!Link(r, l)
           \/ \E c \in Calls : Composition!Call(c)
           \/ \E e \in Endpoints : Composition!Endpoint(e)
           \/ \E x \in Fields : Composition!Input(x)
           \/ \E x \in Events : Composition!Event(x)
           \/ \E x \in Rules : Composition!Validation(x)
           \/ \E x \in Transitions : Composition!Transition(x)
           \/ \E relation \in DOMAIN Composition!Ends, from, to \in memory.alias :
                Composition!Binding(relation, from, to)
    PROVE  CallsIInv'
<1>1. thread.at \in 1..14 /\ CompOK(memory) /\ OwnIds(memory.endpoints) BY DEF CallsIInv
<1>2. ASSUME NEW stage \in Composition!Reading, Composition!At(stage) PROVE thread.at < 10
  BY <1>1, <1>2, StageIs DEF Composition!At
<1>3. ASSUME CompOK(memory') /\ NoCall(memory.edges, memory'.edges),
             memory'.endpoints = memory.endpoints,
             NEW stage \in Composition!Reading, Composition!At(stage), thread' = thread
      PROVE  CallsIInv'
  <2>1. OwnIds(memory'.endpoints) BY <1>1, <1>3
  <2>2. thread.at < 10 BY <1>2, <1>3
  <2>3. QED BY <1>3, <2>1, <2>2, ReadingKeeps
<1>4. CASE \E s \in Screens : Composition!Screen(s)
  <2>1. PICK s \in Screens : Composition!Screen(s) BY <1>4
  <2>2. /\ CompOK(memory') /\ NoCall(memory.edges, memory'.edges)
        /\ memory'.endpoints = memory.endpoints
    BY <1>1, <2>1, ScreenStep
  <2>3. Composition!At("screens") /\ thread' = thread
    BY <2>1 DEF Composition!Screen, Composition!Becomes
  <2>4. "screens" \in Composition!Reading BY DEF Composition!Reading
  <2>5. QED BY <1>3, <2>2, <2>3, <2>4
<1>5. CASE \E r \in Composition!ToSet(memory.routes), l \in Links : Composition!Link(r, l)
  <2>1. PICK r, l : Composition!Link(r, l) BY <1>5
  <2>2. /\ CompOK(memory') /\ NoCall(memory.edges, memory'.edges)
        /\ memory'.endpoints = memory.endpoints
    BY <1>1, <2>1, LinkStep
  <2>3. Composition!At("links") /\ thread' = thread
    BY <2>1 DEF Composition!Link, Composition!Becomes
  <2>4. "links" \in Composition!Reading BY DEF Composition!Reading
  <2>5. QED BY <1>3, <2>2, <2>3, <2>4
<1>6. CASE \E c \in Calls : Composition!Call(c)
  <2>1. PICK c : Composition!Call(c) BY <1>6
  <2>2. /\ CompOK(memory') /\ NoCall(memory.edges, memory'.edges)
        /\ memory'.endpoints = memory.endpoints
    BY <1>1, <2>1, CallStep
  <2>3. Composition!At("calls") /\ thread' = thread
    BY <2>1 DEF Composition!Call, Composition!Becomes
  <2>4. "calls" \in Composition!Reading BY DEF Composition!Reading
  <2>5. QED BY <1>3, <2>2, <2>3, <2>4
<1>7. CASE \E e \in Endpoints : Composition!Endpoint(e)
  <2>1. PICK e \in Endpoints : Composition!Endpoint(e) BY <1>7
  <2>a. PICK all : all = memory.endpoints OBVIOUS
  <2>b. PICK more : more = memory'.endpoints OBVIOUS
  <2>2. /\ CompOK(memory') /\ NoCall(memory.edges, memory'.edges)
        /\ more = Append(all, e)
    BY <1>1, <2>1, <2>a, <2>b, EndpointStep
  <2>3. /\ Composition!At("endpoints") /\ thread' = thread
        /\ \A i \in DOMAIN all : all[i].id # e.id
    BY <2>1, <2>a DEF Composition!Endpoint, Composition!Becomes
  <2>4. "endpoints" \in Composition!Reading BY DEF Composition!Reading
  <2>5. OwnIds(more)
    <3>1. SomeList(all) BY <1>1, <2>a DEF CompOK, Registers
    <3>2. all \in Seq(Listed(all) \cup {e}) /\ e \in Listed(all) \cup {e} BY <3>1, ListOver
    <3>3. Len(all) \in Nat /\ DOMAIN all = 1..Len(all) BY <3>1, ListsDomain
    <3>4. DOMAIN more = 1..(Len(all) + 1) /\ more[Len(all) + 1] = e
          /\ \A i \in 1..Len(all) : more[i] = all[i]
      BY <2>2, <3>2
    <3>5. ASSUME NEW i \in DOMAIN more PROVE i \in DOMAIN all \/ i = Len(all) + 1
      BY <3>3, <3>4
    <3>6. OwnIds(all) BY <1>1, <2>a
    <3>7. ASSUME NEW i \in DOMAIN more, NEW j \in DOMAIN more, more[i].id = more[j].id
          PROVE  i = j
      <4>1. CASE i \in DOMAIN all /\ j \in DOMAIN all
        BY <3>3, <3>4, <3>6, <3>7, <4>1 DEF OwnIds
      <4>2. CASE i \in DOMAIN all /\ j = Len(all) + 1 BY <2>3, <3>3, <3>4, <3>7, <4>2
      <4>3. CASE j \in DOMAIN all /\ i = Len(all) + 1 BY <2>3, <3>3, <3>4, <3>7, <4>3
      <4>4. QED BY <3>5, <4>1, <4>2, <4>3
    <3>8. QED BY <3>7 DEF OwnIds
  <2>6. thread.at < 10 BY <1>2, <2>3, <2>4
  <2>7. QED BY <2>2, <2>3, <2>5, <2>6, <2>b, ReadingKeeps
<1>8. CASE \E x \in Fields : Composition!Input(x)
  <2>1. PICK x : Composition!Input(x) BY <1>8
  <2>2. /\ CompOK(memory') /\ NoCall(memory.edges, memory'.edges)
        /\ memory'.endpoints = memory.endpoints
    BY <1>1, <2>1, InputStep
  <2>3. Composition!At("inputs") /\ thread' = thread
    BY <2>1 DEF Composition!Input, Composition!Becomes
  <2>4. "inputs" \in Composition!Reading BY DEF Composition!Reading
  <2>5. QED BY <1>3, <2>2, <2>3, <2>4
<1>9. CASE \E x \in Events : Composition!Event(x)
  <2>1. PICK x : Composition!Event(x) BY <1>9
  <2>2. /\ CompOK(memory') /\ NoCall(memory.edges, memory'.edges)
        /\ memory'.endpoints = memory.endpoints
    BY <1>1, <2>1, EventStep
  <2>3. Composition!At("events") /\ thread' = thread
    BY <2>1 DEF Composition!Event, Composition!Becomes
  <2>4. "events" \in Composition!Reading BY DEF Composition!Reading
  <2>5. QED BY <1>3, <2>2, <2>3, <2>4
<1>10. CASE \E x \in Rules : Composition!Validation(x)
  <2>1. PICK x : Composition!Validation(x) BY <1>10
  <2>2. /\ CompOK(memory') /\ NoCall(memory.edges, memory'.edges)
        /\ memory'.endpoints = memory.endpoints
    BY <1>1, <2>1, ValidationStep
  <2>3. Composition!At("validations") /\ thread' = thread
    BY <2>1 DEF Composition!Validation, Composition!Becomes
  <2>4. "validations" \in Composition!Reading BY DEF Composition!Reading
  <2>5. QED BY <1>3, <2>2, <2>3, <2>4
<1>11. CASE \E x \in Transitions : Composition!Transition(x)
  <2>1. PICK x : Composition!Transition(x) BY <1>11
  <2>2. /\ CompOK(memory') /\ NoCall(memory.edges, memory'.edges)
        /\ memory'.endpoints = memory.endpoints
    BY <1>1, <2>1, TransitionStep
  <2>3. Composition!At("transitions") /\ thread' = thread
    BY <2>1 DEF Composition!Transition, Composition!Becomes
  <2>4. "transitions" \in Composition!Reading BY DEF Composition!Reading
  <2>5. QED BY <1>3, <2>2, <2>3, <2>4
<1>12. CASE \E relation \in DOMAIN Composition!Ends, from, to \in memory.alias :
                Composition!Binding(relation, from, to)
  <2>1. PICK relation \in DOMAIN Composition!Ends, from \in memory.alias, to \in memory.alias :
          Composition!Binding(relation, from, to)
    BY <1>12
  <2>2. /\ CompOK(memory') /\ NoCall(memory.edges, memory'.edges)
        /\ memory'.endpoints = memory.endpoints
    BY <1>1, <2>1, BindingStep
  <2>3. Composition!At("bindings") /\ thread' = thread
    BY <2>1 DEF Composition!Binding, Composition!Becomes
  <2>4. "bindings" \in Composition!Reading BY DEF Composition!Reading
  <2>5. QED BY <1>3, <2>2, <2>3, <2>4
<1>13. QED BY <1>4, <1>5, <1>6, <1>7, <1>8, <1>9, <1>10, <1>11, <1>12

\* The next place in the list, or the next list.
LEMMA Further ==
    ASSUME thread \in [at : 1..14, index : Nat \ {0}]
    PROVE  /\ thread' = [thread EXCEPT !.index = @ + 1] =>
                /\ thread' \in [at : 1..14, index : Nat \ {0}]
                /\ thread'.at = thread.at /\ thread'.index = thread.index + 1
           /\ Composition!NextStage /\ thread.at < 14 =>
                /\ thread' \in [at : 1..14, index : Nat \ {0}]
                /\ thread'.at = thread.at + 1 /\ thread'.index = 1
<1>1. thread.at \in 1..14 /\ thread.index \in Nat \ {0} OBVIOUS
<1>2. ASSUME thread' = [thread EXCEPT !.index = @ + 1]
      PROVE  /\ thread' \in [at : 1..14, index : Nat \ {0}]
             /\ thread'.at = thread.at /\ thread'.index = thread.index + 1
  BY <1>1, <1>2
<1>3. ASSUME Composition!NextStage, thread.at < 14
      PROVE  /\ thread' \in [at : 1..14, index : Nat \ {0}]
             /\ thread'.at = thread.at + 1 /\ thread'.index = 1
  <2>1. thread' = [at |-> thread.at + 1, index |-> 1] BY <1>3 DEF Composition!NextStage
  <2>2. thread.at + 1 \in 1..14 BY <1>1, <1>3
  <2>3. QED BY <2>1, <2>2
<1>4. QED BY <1>2, <1>3

LEMMA MappingIs ==
    ASSUME NEW calls, SomeList(calls), NEW endpoints, NEW rows,
           rows = Composition!Mapping(calls, endpoints)
    PROVE  /\ Len(calls) \in Nat /\ Len(rows) = Len(calls)
           /\ DOMAIN rows = 1..Len(calls) /\ DOMAIN calls = 1..Len(calls)
           /\ \A k \in DOMAIN rows : rows[k] = Composition!Mapped(calls[k], endpoints)
<1>1. Len(calls) \in Nat /\ DOMAIN calls = 1..Len(calls) BY ListsDomain
<1>2. rows = [k \in DOMAIN calls |-> Composition!Mapped(calls[k], endpoints)]
  BY DEF Composition!Mapping
<1>3. DOMAIN rows = 1..Len(calls) /\ rows = [k \in DOMAIN rows |-> rows[k]] BY <1>1, <1>2
<1>4. Len(rows) = Len(calls) BY <1>1, <1>3, ListIs
<1>5. QED BY <1>1, <1>2, <1>3, <1>4

\* The graph is not drawn at, and the stage is the same or the next, but not the
\* one of the rows.
LEMMA MovesOn ==
    ASSUME CallsIInv, CompOK(memory'), OtherThanRows(memory, memory'),
           thread' \in [at : 1..14, index : Nat \ {0}],
           \/ thread' = thread /\ disk' = disk
           \/ thread'.at = thread.at + 1 /\ thread.at \notin {10, 11, 12} /\ disk' = disk
           \/ /\ thread.at = 10 /\ thread'.at = 11
              /\ disk' = Composition!Mapping(memory.calls, memory.endpoints)
    PROVE  CallsIInv'
<1>1. thread.at \in 1..14 /\ thread.index \in Nat \ {0} BY DEF CallsIInv
<1>2. thread'.at \in 1..14 OBVIOUS
<1>3. /\ memory'.edges = memory.edges /\ memory'.calls = memory.calls
      /\ memory'.endpoints = memory.endpoints
  BY DEF OtherThanRows
<1>4. /\ DrawnRight(memory') /\ OwnIds(memory'.endpoints)
      /\ \A c : DrawnAt(memory, c) => DrawnAt(memory', c)
  BY <1>3, SameCalls DEF CallsIInv
<1>5. thread'.at < 12 => \A e \in memory'.edges : ~FromCall(e)
  <2>1. thread'.at < 12 => thread.at < 12 BY <1>1, <1>2
  <2>2. QED BY <1>3, <2>1 DEF CallsIInv
<1>6. thread'.at > 10 => disk' = Composition!Mapping(memory'.calls, memory'.endpoints)
  <2>1. CASE thread.at = 10 /\ disk' = Composition!Mapping(memory.calls, memory.endpoints)
    BY <1>3, <2>1
  <2>2. CASE disk' = disk /\ (thread'.at > 10 => thread.at > 10)
    BY <1>3, <2>2 DEF CallsIInv
  <2>3. thread'.at = thread.at + 1 /\ thread.at # 10 => (thread'.at > 10 => thread.at > 10)
    BY <1>1, <1>2
  <2>4. QED BY <2>1, <2>2, <2>3
<1>7. ASSUME thread'.at >= 12, NEW k \in DOMAIN memory'.calls,
             thread'.at > 12 \/ k < thread'.index
      PROVE  DrawnAt(memory', memory'.calls[k])
  <2>1. CASE thread' = thread BY <1>3, <1>4, <1>7, <2>1 DEF CallsIInv
  <2>2. CASE thread'.at = thread.at + 1 /\ thread.at \notin {10, 11, 12}
    <3>1. thread.at > 12 /\ thread.at >= 12 BY <1>1, <1>2, <1>7, <2>2
    <3>2. DrawnAt(memory, memory.calls[k]) BY <1>3, <1>7, <3>1 DEF CallsIInv
    <3>3. QED BY <1>3, <1>4, <3>2
  <2>3. CASE thread'.at = 11 BY <1>7, <2>3
  <2>4. QED BY <2>1, <2>2, <2>3
<1>8. QED BY <1>4, <1>5, <1>6, <1>7 DEF CallsIInv

LEMMA RowsMove ==
    ASSUME CallsIInv,
           \/ Composition!EndOfList \/ Composition!CreateMapping \/ Composition!Path
           \/ \E i, status, id : Composition!PatchMapping(i, status, id)
    PROVE  CallsIInv'
<1>1. /\ thread \in [at : 1..14, index : Nat \ {0}] /\ thread.at \in 1..14
      /\ CompOK(memory)
  BY DEF CallsIInv
<1>2. CASE Composition!EndOfList
  <2>1. CompOK(memory') /\ OtherThanRows(memory, memory') BY <1>1, <1>2, RowSteps
  <2>2. Composition!Stages[thread.at] \in Composition!Reading /\ Composition!NextStage
        /\ disk' = disk
    BY <1>2 DEF Composition!EndOfList
  <2>3. thread.at < 10 /\ thread.at < 14 BY <1>1, <2>2, StageIs
  <2>4. thread' \in [at : 1..14, index : Nat \ {0}] /\ thread'.at = thread.at + 1
    BY <1>1, <2>2, <2>3, Further
  <2>5. thread.at \notin {10, 11, 12} BY <1>1, <2>3
  <2>6. QED BY <2>1, <2>2, <2>4, <2>5, MovesOn
<1>3. CASE Composition!CreateMapping
  <2>1. CompOK(memory') /\ OtherThanRows(memory, memory') BY <1>1, <1>3, RowSteps
  <2>2. Composition!Stages[thread.at] = "map" /\ Composition!NextStage
    BY <1>3 DEF Composition!CreateMapping, Composition!At
  <2>3. thread.at = 10 /\ thread.at < 14 BY <1>1, <2>2, StageIs
  <2>4. thread' \in [at : 1..14, index : Nat \ {0}] /\ thread'.at = 11
    BY <1>1, <2>2, <2>3, Further
  <2>5. disk' = Composition!Mapping(memory.calls, memory.endpoints)
    <3>1. DOMAIN memory = CompFields BY <1>1 DEF CompOK, GraphOK
    <3>2. QED BY <1>3, <3>1 DEF Composition!CreateMapping, CompFields
  <2>6. QED BY <2>1, <2>3, <2>4, <2>5, MovesOn
<1>4. CASE Composition!Path
  <2>1. CompOK(memory') /\ OtherThanRows(memory, memory') BY <1>1, <1>4, PathStep
  <2>2. Composition!Stages[thread.at] = "path" /\ Composition!NextStage /\ disk' = disk
    BY <1>4 DEF Composition!Path, Composition!At
  <2>3. thread.at = 13 /\ thread.at < 14 BY <1>1, <2>2, StageIs
  <2>4. thread' \in [at : 1..14, index : Nat \ {0}] /\ thread'.at = thread.at + 1
    BY <1>1, <2>2, <2>3, Further
  <2>5. thread.at \notin {10, 11, 12} BY <2>3
  <2>6. QED BY <2>1, <2>2, <2>4, <2>5, MovesOn
<1>5. CASE \E i, status, id : Composition!PatchMapping(i, status, id)
  <2>1. CompOK(memory') /\ OtherThanRows(memory, memory') BY <1>1, <1>5, RowSteps
  <2>2. thread' = thread /\ disk' = disk BY <1>5 DEF Composition!PatchMapping
  <2>3. thread' \in [at : 1..14, index : Nat \ {0}] BY <1>1, <2>2
  <2>6. QED BY <2>1, <2>2, <2>3, MovesOn
<1>6. QED BY <1>2, <1>3, <1>4, <1>5

LEMMA ResponsesKeep ==
    ASSUME CallsIInv, Composition!Responses
    PROVE  CallsIInv'
<1>1. /\ thread \in [at : 1..14, index : Nat \ {0}] /\ thread.at \in 1..14
      /\ thread.index \in Nat \ {0}
      /\ CompOK(memory)
      /\ disk = Composition!Mapping(memory.calls, memory.endpoints) \/ ~(thread.at > 10)
      /\ OwnIds(memory.endpoints)
      /\ thread.at < 12 => \A e \in memory.edges : ~FromCall(e)
  BY DEF CallsIInv
<1>2. thread.at = 11 /\ disk' = disk
  <2>1. Composition!Stages[thread.at] = "responses" /\ disk' = disk
    BY DEF Composition!Responses, Composition!At
  <2>2. QED BY <1>1, <2>1, StageIs
<1>3. /\ disk = Composition!Mapping(memory.calls, memory.endpoints)
      /\ \A e \in memory.edges : ~FromCall(e)
  BY <1>1, <1>2
<1>4. CASE /\ thread.index <= Len(Composition!Business)
           /\ memory' = Composition!Response(Composition!Business[thread.index])
           /\ thread' = [thread EXCEPT !.index = @ + 1]
  <2>a. PICK e : e = Composition!Business[thread.index] OBVIOUS
  <2>1. SomeList(Composition!Business) BY <1>1, BusinessIs DEF CompOK, Registers
  <2>2. e \in Listed(Composition!Business) BY <1>1, <1>4, <2>1, <2>a, ListsDomain DEF Listed
  <2>3. /\ CompOK(memory') /\ NoCall(memory.edges, memory'.edges)
        /\ SameButGraph(memory, memory')
    BY <1>1, <1>4, <2>2, <2>a, ResponseStep
  <2>4. \A x \in memory'.edges : ~FromCall(x) BY <1>3, <2>3 DEF NoCall, FromCall
  <2>5. memory'.calls = memory.calls /\ memory'.endpoints = memory.endpoints
    BY <2>3 DEF SameButGraph
  <2>6. thread' \in [at : 1..14, index : Nat \ {0}] /\ thread'.at = 11
    BY <1>1, <1>2, <1>4, Further
  <2>7. DrawnRight(memory') /\ OwnIds(memory'.endpoints) BY <1>1, <2>4, <2>5 DEF DrawnRight
  <2>8. QED BY <1>2, <1>3, <2>3, <2>4, <2>5, <2>6, <2>7 DEF CallsIInv
<1>5. CASE Composition!NextStage /\ memory' = memory
  <2>1. /\ thread' \in [at : 1..14, index : Nat \ {0}]
        /\ thread'.at = 12 /\ thread'.index = 1
    BY <1>1, <1>2, <1>5, Further
  <2>2. DrawnRight(memory) BY DEF CallsIInv
  <2>3. SomeList(memory.calls) BY <1>1 DEF CompOK, Registers
  <2>4. \A k \in DOMAIN memory.calls : ~(thread'.at > 12) /\ ~(k < thread'.index)
    <3>1. \A k \in DOMAIN memory.calls : k \in Nat /\ k >= 1 BY <2>3, ListsDomain
    <3>2. QED BY <2>1, <3>1
  <2>5. ~(thread'.at < 12) BY <2>1
  <2>6. QED BY <1>1, <1>2, <1>3, <1>5, <2>1, <2>2, <2>4, <2>5 DEF CallsIInv
<1>6. QED BY <1>4, <1>5 DEF Composition!Responses

\* What a row draws leads from certain calls, and draws that of its own call.
LEMMA RowDraws ==
    ASSUME CompOK(memory), OwnIds(memory.endpoints), DrawnRight(memory),
           NEW c \in Listed(memory.calls), NEW row,
           row = Composition!Mapped(c, memory.endpoints),
           memory' = Composition!Drawn(row)
    PROVE  /\ CompOK(memory') /\ SameButGraph(memory, memory')
           /\ memory.edges \subseteq memory'.edges
           /\ DrawnRight(memory') /\ DrawnAt(memory', c)
<1>a. PICK new : new = Pairs(CallsOf(row), ServedBy(row), <<"map", row.method, Cut(row.path)>>,
                             "calls") OBVIOUS
<1>1. /\ CompOK(memory') /\ SameButGraph(memory, memory')
      /\ Joined(memory.edges, memory'.edges, new)
  BY <1>a, DrawnIs
<1>2. memory'.calls = memory.calls /\ memory'.endpoints = memory.endpoints
  BY <1>1 DEF SameButGraph
<1>3. memory.edges \subseteq memory'.edges BY <1>1 DEF Joined
<1>4. \A d, i : CertainAt(memory', d, i) <=> CertainAt(memory, d, i) BY <1>2 DEF CertainAt
<1>5. \A d, i, from, to : Leads(memory', d, i, from, to) <=> Leads(memory, d, i, from, to)
  BY <1>2 DEF Leads
<1>6. ASSUME NEW x \in new
      PROVE  /\ x.type = "calls" /\ x.from \in CallsOf(row) /\ x.to \in ServedBy(row)
  <2>1. PICK p \in CallsOf(row) \X ServedBy(row) :
          \E name : x = Composition!NewEdge(name, p[1], p[2], "calls")
    BY <1>6, <1>a DEF Pairs
  <2>2. PICK name : x = Composition!NewEdge(name, p[1], p[2], "calls") BY <2>1
  <2>3. x.type = "calls" /\ x.from = p[1] /\ x.to = p[2] BY <2>2 DEF Composition!NewEdge
  <2>4. p[1] \in CallsOf(row) /\ p[2] \in ServedBy(row) BY <2>1
  <2>5. QED BY <2>3, <2>4
<1>7. DrawnRight(memory')
  <2>1. ASSUME NEW e \in memory'.edges, FromCall(e)
        PROVE  \E d \in Listed(memory.calls), i \in DOMAIN memory.endpoints :
                 CertainAt(memory, d, i) /\ Leads(memory, d, i, e.from, e.to)
    <3>1. CASE e \in memory.edges BY <2>1, <3>1 DEF DrawnRight
    <3>2. CASE e \notin memory.edges
      <4>1. PICK x \in new : e.from = x.from /\ e.to = x.to BY <1>1, <3>2 DEF Joined, SameJoin
      <4>2. e.from \in CallsOf(row) /\ e.to \in ServedBy(row) BY <1>6, <4>1
      <4>3. QED BY <4>2, RowIsCertain
    <3>3. QED BY <3>1, <3>2
  <2>2. QED BY <1>2, <1>4, <1>5, <2>1 DEF DrawnRight
<1>8. DrawnAt(memory', c)
  <2>1. ASSUME Composition!Normal(c.path) = c.path, NEW i, CertainAt(memory, c, i)
        PROVE  \E e \in memory'.edges : FromCall(e) /\ Leads(memory, c, i, e.from, e.to)
    <3>1. /\ CallsOf(row) = {Composition!CallId(Composition!Key(c))}
          /\ ServedBy(row) # {}
      BY <2>1, RowIsDrawn
    <3>2. PICK from, to : from \in CallsOf(row) /\ to \in ServedBy(row) BY <3>1
    <3>3. PICK p : p = <<from, to>> OBVIOUS
    <3>4. p \in CallsOf(row) \X ServedBy(row) /\ p[1] = from /\ p[2] = to BY <3>2, <3>3
    <3>5. PICK name : name = <<"map", row.method, Cut(row.path)>> OBVIOUS
    <3>6. PICK x : x = Composition!NewEdge(name, p[1], p[2], "calls") OBVIOUS
    <3>7. x \in new BY <3>4, <3>5, <3>6, <1>a DEF Pairs
    <3>8. x.from = from /\ x.to = to /\ x.type = "calls"
      BY <3>4, <3>6 DEF Composition!NewEdge
    <3>9. PICK e \in memory'.edges : SameJoin(e, x) BY <1>1, <3>7 DEF Joined
    <3>10. e.from = from /\ e.to = to /\ e.type = "calls" BY <3>8, <3>9 DEF SameJoin
    <3>11. from = Composition!CallId(Composition!Key(c)) BY <3>1, <3>2
    <3>12. from[1] = "call" BY <3>11 DEF Composition!CallId
    <3>13. FromCall(e) BY <3>10, <3>12 DEF FromCall
    <3>14. to = Composition!EndpointId(memory.endpoints[i]) BY <2>1, <3>2, RowIsCertain
    <3>15. Leads(memory, c, i, e.from, e.to) BY <3>10, <3>11, <3>14 DEF Leads
    <3>16. QED BY <3>13, <3>15
  <2>2. QED BY <1>4, <1>5, <2>1 DEF DrawnAt
<1>9. QED BY <1>1, <1>3, <1>7, <1>8

LEMMA MappingsKeep ==
    ASSUME CallsIInv, Composition!Mappings
    PROVE  CallsIInv'
<1>1. /\ thread \in [at : 1..14, index : Nat \ {0}] /\ thread.at \in 1..14
      /\ thread.index \in Nat \ {0}
      /\ CompOK(memory) /\ OwnIds(memory.endpoints) /\ DrawnRight(memory)
  BY DEF CallsIInv
<1>2. thread.at = 12 /\ disk' = disk
  <2>1. Composition!Stages[thread.at] = "mappings" /\ disk' = disk
    BY DEF Composition!Mappings, Composition!At
  <2>2. QED BY <1>1, <2>1, StageIs
<1>3. disk = Composition!Mapping(memory.calls, memory.endpoints)
  BY <1>2 DEF CallsIInv
<1>4. \A k \in DOMAIN memory.calls : k < thread.index => DrawnAt(memory, memory.calls[k])
  BY <1>2 DEF CallsIInv
<1>a. PICK n : n = Len(memory.calls) OBVIOUS
<1>5. /\ n \in Nat /\ Len(disk) = n /\ DOMAIN disk = 1..n /\ DOMAIN memory.calls = 1..n
      /\ \A k \in DOMAIN disk : disk[k] = Composition!Mapped(memory.calls[k], memory.endpoints)
  <2>1. SomeList(memory.calls) BY <1>1 DEF CompOK, Registers
  <2>2. QED BY <1>3, <1>a, <2>1, MappingIs
<1>6. CASE /\ thread.index \in DOMAIN disk
           /\ memory' = Composition!Drawn(disk[thread.index])
           /\ thread' = [thread EXCEPT !.index = @ + 1]
  <2>a. PICK c : c = memory.calls[thread.index] OBVIOUS
  <2>b. PICK row : row = disk[thread.index] OBVIOUS
  <2>1. c \in Listed(memory.calls) BY <1>5, <1>6, <2>a DEF Listed
  <2>2. row = Composition!Mapped(c, memory.endpoints) BY <1>5, <1>6, <2>a, <2>b
  <2>3. /\ CompOK(memory') /\ SameButGraph(memory, memory')
        /\ memory.edges \subseteq memory'.edges
        /\ DrawnRight(memory') /\ DrawnAt(memory', c)
    BY <1>1, <1>6, <2>1, <2>2, <2>b, RowDraws
  <2>4. memory'.calls = memory.calls /\ memory'.endpoints = memory.endpoints
    BY <2>3 DEF SameButGraph
  <2>5. \A d : DrawnAt(memory, d) => DrawnAt(memory', d) BY <2>3, <2>4, MoreDrawn
  <2>6. /\ thread' \in [at : 1..14, index : Nat \ {0}]
        /\ thread'.at = 12 /\ thread'.index = thread.index + 1
    BY <1>1, <1>2, <1>6, Further
  <2>7. ASSUME NEW k \in DOMAIN memory'.calls, k < thread'.index
        PROVE  DrawnAt(memory', memory'.calls[k])
    <3>1. k < thread.index \/ k = thread.index BY <1>1, <1>5, <2>4, <2>6, <2>7
    <3>2. CASE k < thread.index BY <1>4, <2>4, <2>5, <2>7, <3>2
    <3>3. CASE k = thread.index BY <2>3, <2>4, <2>a, <3>3
    <3>4. QED BY <3>1, <3>2, <3>3
  <2>8. OwnIds(memory'.endpoints) BY <1>1, <2>4
  <2>9. disk' = Composition!Mapping(memory'.calls, memory'.endpoints) BY <1>2, <1>3, <2>4
  <2>10. ~(thread'.at < 12) /\ ~(thread'.at > 12) BY <2>6
  <2>11. QED BY <2>3, <2>6, <2>7, <2>8, <2>9, <2>10 DEF CallsIInv
<1>7. CASE thread.index > Len(disk) /\ Composition!NextStage /\ memory' = memory
  <2>1. /\ thread' \in [at : 1..14, index : Nat \ {0}] /\ thread'.at = 13
    BY <1>1, <1>2, <1>7, Further
  <2>2. \A k \in DOMAIN memory.calls : k < thread.index BY <1>1, <1>5, <1>7
  <2>3. ~(thread'.at < 12) BY <2>1
  <2>4. QED BY <1>1, <1>2, <1>3, <1>4, <1>7, <2>1, <2>2, <2>3 DEF CallsIInv
<1>8. QED BY <1>6, <1>7 DEF Composition!Mappings

LEMMA CallsNext ==
    ASSUME CallsIInv, [Composition!Next]_(Composition!vars)
    PROVE  CallsIInv'
<1>1. CASE UNCHANGED Composition!vars
  <2>1. memory' = memory /\ disk' = disk /\ thread' = thread BY <1>1 DEF Composition!vars
  <2>2. OtherThanRows(memory, memory') BY <2>1 DEF OtherThanRows
  <2>3. thread \in [at : 1..14, index : Nat \ {0}] /\ CompOK(memory) BY DEF CallsIInv
  <2>4. thread' \in [at : 1..14, index : Nat \ {0}] /\ CompOK(memory') BY <2>1, <2>3
  <2>5. QED BY <2>1, <2>2, <2>4, MovesOn
<1>2. CASE Composition!Responses BY <1>2, ResponsesKeep
<1>3. CASE Composition!Mappings BY <1>3, MappingsKeep
<1>4. CASE Composition!EndOfList \/ Composition!CreateMapping \/ Composition!Path BY <1>4, RowsMove
<1>5. CASE \E i \in DOMAIN memory.rows, e \in Composition!ToSet(memory.endpoints) :
             Composition!PatchMapping(i, "confirmed", e.id)
  <2>1. \E i, status, id : Composition!PatchMapping(i, status, id) BY <1>5
  <2>2. QED BY <2>1, RowsMove
<1>6. CASE \/ \E s \in Screens : Composition!Screen(s)
           \/ \E r \in Composition!ToSet(memory.routes), l \in Links : Composition!Link(r, l)
           \/ \E c \in Calls : Composition!Call(c)
           \/ \E e \in Endpoints : Composition!Endpoint(e)
           \/ \E x \in Fields : Composition!Input(x)
           \/ \E x \in Events : Composition!Event(x)
           \/ \E x \in Rules : Composition!Validation(x)
           \/ \E x \in Transitions : Composition!Transition(x)
           \/ \E relation \in DOMAIN Composition!Ends, from, to \in memory.alias :
                Composition!Binding(relation, from, to)
  BY <1>6, Reads
<1>7. QED BY <1>1, <1>2, <1>3, <1>4, <1>5, <1>6 DEF Composition!Next

\* A node is a call's exactly when its identifier says so.
LEMMA CallNodes ==
    ASSUME NEW g, GraphOK(g), NEW id \in Ids(g.nodes)
    PROVE  Composition!NodeOf(g, id).type = "frontend_api_call" <=> id[1] = "call"
<1>1. PICK n : n = Composition!NodeOf(g, id) OBVIOUS
<1>2. \E i \in DOMAIN g.nodes : g.nodes[i].id = id BY DEF Ids, Composition!Ids
<1>3. n \in Listed(g.nodes) /\ n.id = id
  <2>1. PICK i : i = CHOOSE k \in DOMAIN g.nodes : g.nodes[k].id = id OBVIOUS
  <2>2. i \in DOMAIN g.nodes /\ g.nodes[i].id = id BY <1>2, <2>1
  <2>3. n = g.nodes[i] BY <1>1, <2>1 DEF Composition!NodeOf
  <2>4. QED BY <2>2, <2>3 DEF Listed
<1>4. WellTyped(n) BY <1>3 DEF GraphOK, NodeList
<1>5. QED BY <1>1, <1>3, <1>4 DEF WellTyped

LEMMA OneFits ==
    ASSUME CompOK(memory), NEW c, NEW S, S = Fitting(c, memory.endpoints)
    PROVE  Composition!Cardinality(S) = 1 <=> \E i : S = {i}
<1>1. DOMAIN memory.endpoints = 1..Len(memory.endpoints) /\ Len(memory.endpoints) \in Nat
  BY ListsDomain DEF CompOK, Registers
<1>2. PICK N : N = 1..Len(memory.endpoints) OBVIOUS
<1>3. IsFiniteSet(N) BY <1>1, <1>2, FS_Interval
<1>4. S \subseteq N BY <1>1, <1>2 DEF Fitting
<1>5. IsFiniteSet(S) BY <1>3, <1>4, FS_Subset
<1>6. Cardinality(S) = 1 <=> \E i : S = {i} BY <1>5, FS_Singleton
<1>7. QED BY <1>6, ComposedCount

LEMMA CallsCertain == ASSUME CallsIInv PROVE Composition!CallsAreCertain
<1> DEFINE fitting(c) == {i \in DOMAIN memory.endpoints :
                            Composition!Fits(c, memory.endpoints[i])}
           certain == {c \in Composition!ToSet(memory.calls) :
                         ~Composition!Probe(c.path) /\ Composition!Cardinality(fitting(c)) = 1}
           drawn == {<<e.from, e.to>> : e \in {x \in memory.edges :
                       /\ x.type = "calls"
                       /\ Composition!NodeOf(memory, x.from).type = "frontend_api_call"}}
           joins(c) == {<<Composition!CallId(Composition!Key(c)),
                          Composition!EndpointId(memory.endpoints[i])>> : i \in fitting(c)}
<1>1. SUFFICES ASSUME Composition!At("done")
               PROVE  /\ drawn \subseteq UNION {joins(c) : c \in certain}
                      /\ \A c \in certain :
                           Composition!Normal(c.path) = c.path => joins(c) \subseteq drawn
  BY DEF Composition!CallsAreCertain
<1>2. /\ thread.at \in 1..14 /\ CompOK(memory) /\ DrawnRight(memory)
      /\ thread.at >= 12 =>
           \A k \in DOMAIN memory.calls :
             thread.at > 12 \/ k < thread.index => DrawnAt(memory, memory.calls[k])
  BY DEF CallsIInv
<1>3. thread.at = 14 BY <1>1, <1>2, StageIs DEF Composition!At
<1>4. \A c : fitting(c) = Fitting(c, memory.endpoints) BY DEF Fitting
<1>5. Composition!ToSet(memory.calls) = Listed(memory.calls) BY ToSetIs
<1>6. ASSUME NEW c \in Listed(memory.calls)
      PROVE  c \in certain <=> \E i : CertainAt(memory, c, i)
  <2>a. PICK F : F = fitting(c) OBVIOUS
  <2>1. Composition!Cardinality(fitting(c)) = 1 <=> \E i : fitting(c) = {i}
    <3>1. F = Fitting(c, memory.endpoints) BY <1>4, <2>a
    <3>2. Composition!Cardinality(F) = 1 <=> \E i : F = {i} BY <1>2, <3>1, OneFits
    <3>3. QED BY <2>a, <3>2
  <2>2. \A i : fitting(c) = {i} => i \in DOMAIN memory.endpoints OBVIOUS
  <2>3. \A i : CertainAt(memory, c, i) <=>
          /\ ~Composition!Probe(c.path)
          /\ i \in DOMAIN memory.endpoints /\ fitting(c) = {i}
    BY <1>4 DEF CertainAt
  <2>4. c \in certain <=>
          ~Composition!Probe(c.path) /\ Composition!Cardinality(fitting(c)) = 1
    BY <1>5
  <2>5. QED BY <2>1, <2>2, <2>3, <2>4
<1>7. ASSUME NEW e \in memory.edges
      PROVE  Composition!NodeOf(memory, e.from).type = "frontend_api_call" <=> e.from[1] = "call"
  <2>1. e.from \in Ids(memory.nodes) BY <1>2 DEF CompOK, GraphOK, EdgesOK
  <2>2. QED BY <1>2, <2>1, CallNodes DEF CompOK
<1>8. ASSUME NEW c, NEW i, CertainAt(memory, c, i)
      PROVE  joins(c) = {<<Composition!CallId(Composition!Key(c)),
                           Composition!EndpointId(memory.endpoints[i])>>}
  <2>1. fitting(c) = {i} BY <1>4, <1>8 DEF CertainAt
  <2>2. QED BY <2>1
<1>9. ASSUME NEW p \in drawn PROVE p \in UNION {joins(c) : c \in certain}
  <2>1. PICK e \in memory.edges :
          /\ e.type = "calls" /\ p = <<e.from, e.to>>
          /\ Composition!NodeOf(memory, e.from).type = "frontend_api_call"
    OBVIOUS
  <2>2. FromCall(e) BY <1>7, <2>1 DEF FromCall
  <2>3. PICK c \in Listed(memory.calls), i \in DOMAIN memory.endpoints :
          CertainAt(memory, c, i) /\ Leads(memory, c, i, e.from, e.to)
    BY <1>2, <2>2 DEF DrawnRight
  <2>4. p \in joins(c) BY <1>8, <2>1, <2>3 DEF Leads
  <2>5. c \in certain BY <1>6, <2>3
  <2> HIDE DEF joins, certain
  <2>6. QED BY <2>4, <2>5
<1>10. ASSUME NEW c \in certain, Composition!Normal(c.path) = c.path, NEW p \in joins(c)
       PROVE  p \in drawn
  <2>1. c \in Listed(memory.calls) BY <1>5
  <2>2. PICK i : CertainAt(memory, c, i) BY <1>6, <2>1
  <2>3. DrawnAt(memory, c) BY <1>2, <1>3, <2>1 DEF Listed
  <2>4. PICK e \in memory.edges : FromCall(e) /\ Leads(memory, c, i, e.from, e.to)
    BY <1>10, <2>2, <2>3 DEF DrawnAt
  <2>5. p = <<e.from, e.to>> BY <1>8, <1>10, <2>2, <2>4 DEF Leads
  <2>6. e.type = "calls" /\ Composition!NodeOf(memory, e.from).type = "frontend_api_call"
    BY <1>7, <2>4 DEF FromCall
  <2>7. QED BY <2>5, <2>6
<1>11. QED BY <1>9, <1>10

\* The invariant of the composition holds when it is looked at.
CallsInv == service = "composition" => CallsIInv

LEMMA CallsInvariant == Spec => []CallsInv
<1>1. Init => CallsInv BY GraphInits, CallsInit DEF CallsInv
<1>2. CallsInv /\ [Next]_vars => CallsInv' BY GraphSteps, CallsNext DEF CallsInv
<1>3. QED BY <1>1, <1>2, PTL DEF Spec

\* In a composed graph a call leads to an endpoint exactly when it is the only
\* one that fits (create_mapping, and the rows of the mapping that compose_graph
\* draws): for any analyses, however identifiers collide.
THEOREM CallsStayCertain == Spec => []CallsAreCertain
<1>1. CallsInv => CallsAreCertain BY CallsCertain DEF CallsInv, CallsAreCertain
<1>2. QED BY CallsInvariant, <1>1, PTL

\* A graph is whole, as it is composed (compose_graph) and as it is edited: no
\* two edges have one identifier, whatever identifiers collide and whichever
\* lists overwrite each other; and in a composed graph every edge joins two
\* nodes, and the path that is shown first goes over nodes, each once.
THEOREM GraphStaysWhole == Spec => []GraphIsWhole
<1>1. EdgesInv => (service = "edges" => Edges!IdsAreUnique)
  BY DEF EdgesInv, EdgesIInv, EdgesUnique, EdgeIdsDiffer, Edges!IdsAreUnique
<1>2. CallsInv => (service = "composition" => Composition!GraphIsWhole)
  BY CompIsWhole DEF CallsInv, CallsIInv
<1>3. EdgesInv /\ CallsInv => GraphIsWhole BY <1>1, <1>2 DEF GraphIsWhole
<1>4. QED BY EdgesInvariant, CallsInvariant, <1>3, PTL

=============================================================================
