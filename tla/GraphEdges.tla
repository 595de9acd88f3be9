------------------------------ MODULE GraphEdges ------------------------------
(***************************************************************************)
(* The edges of one interaction graph, edited by hand.  A request copies   *)
(* the list of edges, but not the edges: it changes an edge of the stored  *)
(* graph in place, adds to its copy or takes from it, and saves its list.  *)
(*                                                                         *)
(* An object number stands for an edge in memory.  The edges all start at  *)
(* one node, and the identifier of an edge made by hand is its suffix.     *)
(***************************************************************************)
EXTENDS FiniteSetsExt, Naturals

CONSTANTS
    Editor,         \* the requests that edit the graph
    Node,           \* the nodes an edge may lead to
    Type,           \* EDGE_TYPES, those the instance uses
    MaxEdges,       \* a bound on the edges created
    MaxEdits,       \* a bound on the requests that read the graph
    MaxRestarts     \* a bound on the restarts of the process

VARIABLES
    memory,         \* the graph: whether it exists, its edges, by object, and its list
    disk,           \* the graph in the catalog
    thread,         \* of each editor: its step, its list, the identifier it has
                    \* edited and the edge it wants of it; alone, no other request
                    \* has run since it read the graph
    past            \* the bounds, and what a property has to remember:
                    \* wanted, the edges as the requests accepted made them
                    \* raced, identifiers edited by requests that overlapped
                    \* refused, identifiers changed by a request that was refused

vars == <<memory, disk, thread, past>>

Object == 0..MaxEdges
Id == 0..MaxEdges
NoEdge == [id |-> 0, to |-> "none", type |-> "none"]
Composed == [id |-> 0, to |-> CHOOSE n \in Node : TRUE, type |-> CHOOSE t \in Type : TRUE]
Graph(exists, edge, list) ==
    [exists |-> exists, list |-> list,
     edge |-> [o \in Object |-> IF o \in list THEN edge[o] ELSE NoEdge]]
NoGraph == Graph(FALSE, <<>>, {})

Free == [step |-> "idle", list |-> {}, id |-> 0, edge |-> NoEdge, alone |-> TRUE]
At(w, step) == thread[w].step = step
Becomes(w, t) == thread' = [thread EXCEPT ![w] = t]
Idle == \A w \in Editor : At(w, "idle")
Editing == {thread[w].id : w \in {v \in Editor : At(v, "save")}}

Ids(list) == {memory.edge[o].id : o \in list}

Init ==
    /\ memory = NoGraph /\ disk = NoGraph
    /\ thread = [w \in Editor |-> Free]
    /\ past = [made |-> 0, edits |-> 0, restarts |-> 0, composed |-> FALSE,
               wanted |-> [i \in Id |-> NoEdge], raced |-> {}, refused |-> {}]

\* create_for_project: the workflow composes a graph, with edges of its own.
CreateForProject ==
    /\ ~past.composed
    /\ memory' = Graph(TRUE, [o \in Object |-> Composed], {0})
    /\ disk' = memory'
    /\ past' = [past EXCEPT !.composed = TRUE, !.wanted[0] = Composed]
    /\ UNCHANGED thread

\* _graph_parts: a list of one's own, of the edges of the stored graph.
GraphParts(w) ==
    /\ At(w, "idle") /\ past.edits < MaxEdits /\ memory.exists
    /\ thread' = [v \in Editor |->
                    IF v = w
                    THEN [Free EXCEPT !.step = "edit", !.list = memory.list, !.alone = Idle]
                    ELSE [thread[v] EXCEPT !.alone = At(v, "idle")]]
    /\ past' = [past EXCEPT !.edits = @ + 1]
    /\ UNCHANGED <<memory, disk>>

\* A node or an edge that is not there, an edge to itself, a twin: nothing
\* has been changed yet.
Refuse(w) ==
    /\ At(w, "edit")
    /\ Becomes(w, Free)
    /\ UNCHANGED <<memory, disk, past>>

\* A copy of the edge is changed, and dropped.
MutantInPlace(o, edge) == [memory EXCEPT !.edge[o] = IF @ = NoEdge THEN edge ELSE @]

\* The memory when an object has been made this edge.
InPlace(o, edge) == [memory EXCEPT !.edge[o] = edge]

\* patch_edge and rewire_edge change the edge, and save afterwards.
PatchEdge(w, o, to, type) ==
    LET edge == [memory.edge[o] EXCEPT !.to = to, !.type = type] IN
    /\ At(w, "edit") /\ o \in thread[w].list
    /\ memory' = InPlace(o, edge)
    /\ Becomes(w, [thread[w] EXCEPT !.step = "save", !.id = edge.id, !.edge = edge])
    /\ UNCHANGED <<disk, past>>

\* patch_edge finds that the type is not supported when it has changed the
\* target.
PatchRefused(w, o, to) ==
    /\ At(w, "edit") /\ o \in thread[w].list
    /\ memory' = InPlace(o, [memory.edge[o] EXCEPT !.to = to])
    /\ past' = [past EXCEPT !.refused = @ \cup {memory.edge[o].id}]
    /\ Becomes(w, Free)
    /\ UNCHANGED disk

DeleteEdge(w, i) ==
    /\ At(w, "edit") /\ i \in Ids(thread[w].list)
    /\ Becomes(w, [thread[w] EXCEPT !.step = "save", !.id = i,
                     !.list = {o \in @ : memory.edge[o].id # i}])
    /\ UNCHANGED <<memory, disk, past>>

\* The first suffix that the list does not have.
ManualId(list) == Min((1..MaxEdges) \ Ids(list))

CreateEdge(w, to, type) ==
    LET new == past.made + 1
        edge == [id |-> ManualId(thread[w].list), to |-> to, type |-> type] IN
    /\ At(w, "edit") /\ past.made < MaxEdges
    /\ ~\E o \in thread[w].list : memory.edge[o].to = to /\ memory.edge[o].type = type
    /\ memory' = InPlace(new, edge)
    /\ past' = [past EXCEPT !.made = new]
    /\ Becomes(w, [thread[w] EXCEPT !.step = "save", !.list = @ \cup {new},
                     !.id = edge.id, !.edge = edge])
    /\ UNCHANGED disk

\* _save_edges: the list, whatever became of the graph since it was read.
SaveEdges(w) ==
    LET t == thread[w] IN
    /\ At(w, "save")
    /\ memory' = [memory EXCEPT !.exists = TRUE, !.list = t.list]
    /\ disk' = Graph(TRUE, memory.edge, t.list)
    /\ past' = [past EXCEPT
         !.wanted[t.id] = t.edge,
         !.raced = IF t.alone THEN @ \ {t.id} ELSE @ \cup {t.id}]
    /\ Becomes(w, Free)

\* A request that has read the graph saves it again.
DeleteGraph ==
    /\ memory.exists
    /\ memory' = [memory EXCEPT !.exists = FALSE, !.list = {}]
    /\ disk' = NoGraph
    /\ past' = [past EXCEPT !.wanted = [i \in Id |-> NoEdge], !.refused = {},
                            !.raced = IF Idle THEN {} ELSE Id]
    /\ thread' = [w \in Editor |-> [thread[w] EXCEPT !.alone = At(w, "idle")]]

\* Another record of the store is saved, and the graph as it is with it.
Persist ==
    /\ disk' = Graph(memory.exists, memory.edge, memory.list)
    /\ UNCHANGED <<memory, thread, past>>

Restart ==
    /\ past.restarts < MaxRestarts
    /\ memory' = disk
    /\ thread' = [w \in Editor |-> Free]
    /\ past' = [past EXCEPT !.restarts = @ + 1, !.raced = @ \cup Editing]
    /\ UNCHANGED disk

Next ==
    \/ CreateForProject \/ DeleteGraph \/ Persist \/ Restart
    \/ \E w \in Editor :
         \/ GraphParts(w) \/ Refuse(w) \/ SaveEdges(w)
         \/ \E o \in Object, to \in Node :
              PatchRefused(w, o, to) \/ \E type \in Type : PatchEdge(w, o, to, type)
         \/ \E i \in Id : DeleteEdge(w, i)
         \/ \E to \in Node, type \in Type : CreateEdge(w, to, type)

Spec == Init /\ [][Next]_vars

-----------------------------------------------------------------------------

\* However the lists of two requests overwrite each other, no two edges of
\* the stored graph have one identifier, by which patch_edge and delete_edge
\* find an edge, so that an edit changes the edge that was meant.
IdsAreUnique ==
    \A o, p \in memory.list : memory.edge[o].id = memory.edge[p].id => o = p

\* An edit that was accepted stays, in memory and in the catalog, until the
\* next accepted edit of that edge; except when two requests overlapped
\* (_save_edges stores a whole list), or when a request that was refused had
\* changed the edge in place (patch_edge, 169).
EditsStay ==
    \A i \in Id \ (past.raced \cup past.refused \cup Editing) :
        \A graph \in {memory, disk} :
            {graph.edge[o] : o \in {p \in graph.list : graph.edge[p].id = i}}
              = {past.wanted[i]} \ {NoEdge}

=============================================================================
