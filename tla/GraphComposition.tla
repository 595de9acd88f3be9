--------------------------- MODULE GraphComposition ---------------------------
(***************************************************************************)
(* The interaction graph, composed from the analyses of the two roles and  *)
(* from the mapping of their calls: compose_graph goes over the lists of   *)
(* the analyses, one after the other.  What a list holds is chosen as it   *)
(* is read.  The mapping, made from calls and endpoints alone, is written  *)
(* to a file and kept in the store, where a person may correct it.         *)
(*                                                                         *)
(* A key is a method with a path as it is written.  The identifier of a    *)
(* node is made from what Cut leaves of a path (_safe_id), so that two     *)
(* things may get one node.                                                *)
(***************************************************************************)
EXTENDS ApiMapping, SequencesExt, Lists

CONSTANTS
    Screens,        \* [route, file]
    Links,          \* [selector, to]
    Calls,          \* [method, path, from], from a route or <<>>
    Endpoints,      \* [id, method, path, request, services, fields, notFound]
    Fields,         \* [field, line, file, trigger]
    Events,         \* [label, line, file]
    Validations,    \* [field, kind, file]
    Transitions,    \* [to, kind]
    Words,          \* the words by which a screen is found for a path
    Cut(_),         \* what an identifier keeps of a path
    MaxItems        \* a bound on the items of the analyses

VARIABLES
    memory,         \* the graph, and what compose_graph has seen so far; rows, the
                    \* mapping in the store
    disk,           \* the file of the mapping
    thread,         \* the list that is read, and the place in it
    past            \* the number of items read

vars == <<memory, disk, thread, past>>

Stages == <<"screens", "links", "calls", "endpoints", "inputs", "events", "validations",
            "transitions", "bindings", "map", "responses", "mappings", "path", "done">>
Reading == {"screens", "links", "calls", "endpoints", "inputs", "events", "validations",
            "transitions", "bindings"}

Key(x) == <<x.method, x.path>>
Probe(path) == \E i \in DOMAIN path.segs : path.segs[i].text = "health"
\* The first or the last of the things at some places of a list, if any is there.
FirstOf(list, places) == IF places = {} THEN {} ELSE {list[First(places)]}
LastOf(list, places) == IF places = {} THEN {} ELSE {list[Latest(places)]}
\* What there is, at most one, as a list.
Listed(set) == IF set = {} THEN <<>> ELSE <<CHOOSE x \in set : TRUE>>

\* _route_matches: the same route, but for the names of its parameters.
RouteMatches(p, q) ==
    /\ Len(p.segs) = Len(q.segs)
    /\ \A i \in DOMAIN p.segs :
         /\ (p.segs[i].kind = "static") = (q.segs[i].kind = "static")
         /\ p.segs[i].kind = "static" => p.segs[i].text = q.segs[i].text

ScreenId(route) == <<"screen", Cut(route)>>
CallId(key) == <<"call", key[1], Cut(key[2])>>
EndpointId(e) == <<"endpoint", e.method, Cut(e.path), e.id>>

Ids(nodes) == {nodes[i].id : i \in DOMAIN nodes}
NodeOf(g, id) == g.nodes[CHOOSE i \in DOMAIN g.nodes : g.nodes[i].id = id]

NewNode(id, type, file, of) == [id |-> id, type |-> type, file |-> file, of |-> of]
\* _node: a node that is there stays as it is.
WithNodes(g, new) ==
    [g EXCEPT !.nodes = @ \o Picked(new, {i \in DOMAIN new :
        new[i].id \notin Ids(@) /\ \A j \in 1..(i - 1) : new[j].id # new[i].id})]
WithNode(g, id, type, file, of) == WithNodes(g, <<NewNode(id, type, file, of)>>)

NewEdge(name, from, to, type) == [name |-> name, from |-> from, to |-> to, type |-> type]
Numbered(e, n) == [id |-> <<e.name, n>>, from |-> e.from, to |-> e.to, type |-> e.type]

\* An identifier that is taken is taken again.
MutantNumber(edges, e) == 1

\* _edge: an edge whose identifier is taken is the same edge, or gets a suffix.
Number(edges, e) ==
    LET taken == {f.id : f \in edges} IN
    IF Numbered(e, 1) \in edges THEN 1
    ELSE First({n \in 1..(Cardinality(taken) + 1) : <<e.name, n>> \notin taken})
\* The new edges of a step have names that differ.
WithEdges(g, new) == [g EXCEPT !.edges = @ \cup {Numbered(e, Number(@, e)) : e \in new}]

\* The screens' nodes, in the order of the routes; that of a file, or the first.
FirstScreen(g) == {ScreenId(r) : r \in FirstOf(g.routes, DOMAIN g.routes)}
ScreenFor(g, file) ==
    LET same == {i \in DOMAIN g.routes : NodeOf(g, ScreenId(g.routes[i])).file = file} IN
    IF same = {} THEN FirstScreen(g) ELSE {ScreenId(r) : r \in FirstOf(g.routes, same)}

Init ==
    /\ memory = [nodes |-> <<>>, edges |-> {}, routes |-> <<>>, calls |-> <<>>,
                 endpoints |-> <<>>, inputs |-> <<>>, transitions |-> <<>>, alias |-> {},
                 rows |-> <<>>, path |-> <<>>]
    /\ disk = <<>>
    /\ thread = [at |-> 1, index |-> 1]
    /\ past = [items |-> 0]

At(stage) == Stages[thread.at] = stage
NextStage == thread' = [at |-> thread.at + 1, index |-> 1]
Becomes(g) ==
    /\ past.items < MaxItems /\ past' = [past EXCEPT !.items = @ + 1]
    /\ memory' = g
    /\ UNCHANGED <<disk, thread>>

\* A list has no more items.
EndOfList ==
    /\ Stages[thread.at] \in Reading
    /\ NextStage
    /\ UNCHANGED <<memory, disk, past>>

Screen(s) ==
    LET g == WithNode(memory, ScreenId(s.route), "screen", s.file, <<>>) IN
    /\ At("screens")
    /\ Becomes([g EXCEPT
         !.routes = IF s.route \in ToSet(@) THEN @ ELSE Append(@, s.route),
         !.alias = @ \cup {ScreenId(s.route)}])

\* A screen's link to a screen: the event that it is, between the two.
Link(route, l) ==
    LET id == <<"link", Cut(route), l.selector, Cut(l.to)>> IN
    /\ At("links")
    /\ {route, l.to} \subseteq ToSet(memory.routes)
    /\ Becomes(WithEdges(WithNode(memory, id, "event", "none", <<>>),
         {NewEdge(<<"screen-event", Cut(route), l.selector>>, ScreenId(route), id, "triggers"),
          NewEdge(<<"event-screen", l.selector, Cut(l.to)>>, id, ScreenId(l.to), "navigates_to")}))

\* A call.  That of a probe is not drawn, but it is mapped.
Call(c) ==
    LET id == CallId(Key(c))
        seen == [memory EXCEPT !.calls = Append(@, c)]
        g == WithNode([seen EXCEPT !.alias = @ \cup {id}], id, "frontend_api_call", "none", <<>>)
        from == {c.from} \cap ToSet(memory.routes) IN
    /\ At("calls")
    /\ Becomes(IF Probe(c.path) THEN seen
               ELSE WithEdges(g, {NewEdge(<<"screen-call", id>>, ScreenId(r), id, "triggers") :
                                    r \in from}))

\* An endpoint, with its request and its response.
Endpoint(e) ==
    LET id == EndpointId(e)
        dto(name) == <<name, e.method, Cut(e.path)>>
        type == [req |-> "request_dto", resp |-> "response_dto"]
        has == (IF e.request THEN <<"req">> ELSE <<>>)
                 \o (IF e.fields = <<>> THEN <<>> ELSE <<"resp">>)
        nodes == [i \in DOMAIN has |-> NewNode(dto(has[i]), type[has[i]], "none", Key(e))]
        edges == {NewEdge(<<"be", dto(name)>>, id, dto(name), "contains") : name \in ToSet(has)}
        seen == [memory EXCEPT !.endpoints = Append(@, e)]
        g == WithNode(seen, id, "backend_endpoint", "none", <<>>) IN
    /\ At("endpoints")
    /\ e.id \notin {memory.endpoints[i].id : i \in DOMAIN memory.endpoints}
    /\ Becomes(IF Probe(e.path) THEN seen ELSE WithEdges(WithNodes(g, nodes), edges))

\* A field or a button, on the screen of its file.
Input(x) ==
    LET id == <<"input", x.field, x.line>>
        g == WithNode(memory, id, IF x.trigger THEN "event" ELSE "input", x.file, <<>>)
        edges == {NewEdge(<<"screen-input", s, x.field>>, s, id, "contains") :
                    s \in ScreenFor(memory, x.file)} IN
    /\ At("inputs")
    /\ Becomes([WithEdges(g, edges) EXCEPT
                  !.inputs = Append(@, id), !.alias = @ \cup {id}])

\* An event, on the screen of its file, that the fields of its file lead to.
Event(x) ==
    LET id == <<"event", x.label, x.line>>
        g == WithNode(memory, id, "event", x.file, <<>>)
        fields == {f \in ToSet(g.inputs) :
                     NodeOf(g, f).type = "input" /\ NodeOf(g, f).file = x.file}
        edges == {NewEdge(<<"screen-event", s, x.label, x.line>>, s, id, "contains") :
                    s \in ScreenFor(memory, x.file)}
                 \cup {NewEdge(<<"input-event", f, id>>, f, id, "triggers") : f \in fields} IN
    /\ At("events")
    /\ Becomes([WithEdges(g, edges) EXCEPT !.alias = @ \cup {id}])

\* A validation: back to the screen, or on to the first call.
Validation(x) ==
    LET id == <<"validation", x.field, x.kind>>
        g == WithNode(memory, id, "validation", x.file, <<>>)
        calls == {i \in DOMAIN g.calls : ~Probe(g.calls[i].path)}
        edges == {NewEdge(<<"validation-block", id>>, id, s, "branches_to") :
                    s \in ScreenFor(g, NodeOf(g, id).file)}
                 \cup {NewEdge(<<"validation-call", id>>, id, CallId(Key(c)), "triggers") :
                         c \in FirstOf(g.calls, calls)} IN
    /\ At("validations")
    /\ Becomes([WithEdges(g, edges) EXCEPT !.alias = @ \cup {id}])

\* A change of the route, to the first screen that matches.
Transition(x) ==
    LET id == <<"transition", Cut(x.to), x.kind>>
        g == WithNode(memory, id, "route_transition", "none", <<>>)
        matching == {i \in DOMAIN g.routes : RouteMatches(x.to, g.routes[i])}
        edges == {NewEdge(<<"transition-screen", id>>, id, ScreenId(r), "navigates_to") :
                    r \in FirstOf(g.routes, matching)} IN
    /\ At("transitions")
    /\ Becomes([WithEdges(g, edges) EXCEPT
                  !.alias = @ \cup {id}, !.transitions = Append(@, id)])

\* The types of the things that a connection names.
Ends == [r \in {"event-triggers-api", "event-triggers-route", "validation-on-input"} |->
           CASE r = "event-triggers-api" -> <<"event", "frontend_api_call">>
             [] r = "event-triggers-route" -> <<"event", "route_transition">>
             [] r = "validation-on-input" -> <<"validation", "input">>]

\* A connection of two things that the analysis names; that of a validation is
\* read from the field.
Binding(relation, from, to) ==
    LET edge(a, b, type) ==
            WithEdges(memory, {NewEdge(<<"fe-bind", a, b, relation>>, a, b, type)}) IN
    /\ At("bindings")
    /\ <<NodeOf(memory, from).type, NodeOf(memory, to).type>> = Ends[relation]
    /\ Becomes(CASE relation = "event-triggers-api" -> edge(from, to, "triggers")
                 [] relation = "event-triggers-route" -> edge(from, to, "navigates_to")
                 [] relation = "validation-on-input" -> edge(to, from, "validates"))

\* The mapping is made, and written to its file.
CreateMapping ==
    /\ At("map")
    /\ memory' = [memory EXCEPT !.rows = Mapping(memory.calls, memory.endpoints)]
    /\ disk' = memory'.rows
    /\ NextStage /\ UNCHANGED past

\* patch_mapping: in the store, not in the file.
PatchMapping(i, status, id) ==
    /\ past.items < MaxItems /\ i \in DOMAIN memory.rows
    /\ memory' = [memory EXCEPT !.rows[i].status = status, !.rows[i].endpoint = {id}]
    /\ past' = [past EXCEPT !.items = @ + 1]
    /\ UNCHANGED <<disk, thread>>

Business ==
    Picked(memory.endpoints, {i \in DOMAIN memory.endpoints : ~Probe(memory.endpoints[i].path)})
\* ep_ids, call_ids: of a key that several have, the last.
EndpointOf(key) ==
    {EndpointId(e) : e \in LastOf(Business, {i \in DOMAIN Business : Key(Business[i]) = key})}
CallOf(key) ==
    {CallId(key) : i \in {i \in DOMAIN memory.calls :
                           Key(memory.calls[i]) = key /\ ~Probe(memory.calls[i].path)}}

\* An endpoint's services, the fields of its response as the screen shows them
\* to which the first transition leads, and its way back when nothing is found.
Response(e) ==
    LET served == CHOOSE id \in EndpointOf(Key(e)) : TRUE
        service(s) == <<"service", s>>
        binding(f) == <<"binding", Cut(e.path), f>>
        responses == {i \in DOMAIN memory.nodes :
                        memory.nodes[i].type = "response_dto" /\ memory.nodes[i].of = Key(e)}
        leads(t) == {x.to : x \in {y \in memory.edges : y.from = t /\ y.type = "navigates_to"}}
        leading == {i \in DOMAIN memory.transitions : leads(memory.transitions[i]) # {}}
        target == UNION {leads(t) : t \in FirstOf(memory.transitions, leading)}
        nodes == [i \in DOMAIN e.services |->
                    NewNode(service(e.services[i]), "service", "none", <<>>)]
                 \o [i \in DOMAIN e.fields |->
                       NewNode(binding(e.fields[i]), "binding", "none", Key(e))]
        calls == {NewEdge(<<"be-service", e.method, Cut(e.path), s>>, served, service(s), "calls") :
                    s \in ToSet(e.services)}
        binds == {NewEdge(<<"resp-binding", Cut(e.path), x[1]>>, x[2].id, binding(x[1]),
                          "binds_to") :
                    x \in ToSet(e.fields) \X FirstOf(memory.nodes, responses)}
        shows == {NewEdge(<<"binding-screen", Cut(e.path), x[1]>>, binding(x[1]), x[2],
                          "binds_to") :
                    x \in ToSet(e.fields) \X ToSet(Listed(target))}
        back == {NewEdge(<<"notfound", e.method, Cut(e.path)>>, served, s, "returns") :
                   s \in IF e.notFound THEN FirstScreen(memory) ELSE {}} IN
    WithEdges(WithNodes(memory, nodes), calls \cup binds \cup shows \cup back)
Responses ==
    /\ At("responses")
    /\ \/ /\ thread.index <= Len(Business)
          /\ memory' = Response(Business[thread.index])
          /\ thread' = [thread EXCEPT !.index = @ + 1]
       \/ thread.index > Len(Business) /\ NextStage /\ UNCHANGED memory
    /\ UNCHANGED <<disk, past>>

\* A confirmed row joins its call, when it is written in the normal form, with
\* the endpoint that is written so, or that has the identifier.
Drawn(row) ==
    LET same == EndpointOf(Key(row))
        named == {i \in DOMAIN Business : Business[i].id \in row.endpoint}
        served == IF same # {} THEN same ELSE {EndpointId(e) : e \in FirstOf(Business, named)}
        calls == IF row.status = "confirmed" THEN CallOf(Key(row)) ELSE {} IN
    WithEdges(memory, {NewEdge(<<"map", row.method, Cut(row.path)>>, x[1], x[2], "calls") :
                         x \in calls \X served})
Mappings ==
    /\ At("mappings")
    /\ \/ /\ thread.index \in DOMAIN disk
          /\ memory' = Drawn(disk[thread.index])
          /\ thread' = [thread EXCEPT !.index = @ + 1]
       \/ thread.index > Len(disk) /\ NextStage /\ UNCHANGED memory
    /\ UNCHANGED <<disk, past>>

\* The path that is shown first: of the first endpoint, from a screen of its
\* words, or the first one, to two of the fields that are shown.
PrimaryPath ==
    LET e == Business[1]
        words(r) == {r.segs[i].text : i \in DOMAIN r.segs} \cap Words
        alike == {i \in DOMAIN memory.routes : words(memory.routes[i]) \cap words(e.path) # {}}
        screen == IF alike = {} THEN FirstScreen(memory)
                  ELSE {ScreenId(r) : r \in FirstOf(memory.routes, alike)}
        of(type) == {i \in DOMAIN memory.nodes : memory.nodes[i].type = type}
        own(type) == {i \in of(type) : memory.nodes[i].of = Key(e)}
        shown == {i \in of("binding") : Cardinality({j \in of("binding") : j < i}) < 2}
        ids(places) == [n \in 1..Cardinality(places) |-> Picked(memory.nodes, places)[n].id] IN
    IF Business = <<>> THEN <<>>
    ELSE Listed(screen) \o Listed(CallOf(Key(e))) \o Listed(EndpointOf(Key(e)))
           \o ids(own("request_dto")) \o ids(own("response_dto")) \o ids(shown)
Path ==
    /\ At("path")
    /\ memory' = [memory EXCEPT !.path = PrimaryPath]
    /\ NextStage /\ UNCHANGED <<disk, past>>

Next ==
    \/ EndOfList \/ CreateMapping \/ Responses \/ Mappings \/ Path
    \/ \E s \in Screens : Screen(s)
    \/ \E r \in ToSet(memory.routes), l \in Links : Link(r, l)
    \/ \E c \in Calls : Call(c)
    \/ \E e \in Endpoints : Endpoint(e)
    \/ \E x \in Fields : Input(x)
    \/ \E x \in Events : Event(x)
    \/ \E x \in Validations : Validation(x)
    \/ \E x \in Transitions : Transition(x)
    \/ \E relation \in DOMAIN Ends, from, to \in memory.alias : Binding(relation, from, to)
    \/ \E i \in DOMAIN memory.rows, e \in ToSet(memory.endpoints) :
         PatchMapping(i, "confirmed", e.id)

Spec == Init /\ [][Next]_vars

-----------------------------------------------------------------------------

\* At every step, however identifiers collide and whatever the analyses lack,
\* the graph is one that can be edited, searched and shown: an edge joins two
\* nodes of it, no two edges have one identifier, and the path that is shown
\* first goes over nodes, each once.
GraphIsWhole ==
    LET ids == Ids(memory.nodes) IN
    /\ \A e \in memory.edges : {e.from, e.to} \subseteq ids
    /\ \A e, f \in memory.edges : e.id = f.id => e = f
    /\ Range(memory.path) \subseteq ids
    /\ IsInjective(memory.path)

Fits(c, e) == c.method = e.method /\ Normal(c.path) = Normal(e.path)

\* In a composed graph a call leads to an endpoint exactly when it is the only
\* one that fits the call; no edge is drawn to one of several controllers with
\* the same path, or to a path that is only alike, and a correction of the
\* mapping, which does not reach its file, draws none.  A call whose path is
\* not in the normal form may have no edge (its row has the normal form), nor
\* has one that fits a probe.
CallsAreCertain ==
    LET fitting(c) == {i \in DOMAIN memory.endpoints : Fits(c, memory.endpoints[i])}
        certain == {c \in ToSet(memory.calls) : ~Probe(c.path) /\ Cardinality(fitting(c)) = 1}
        drawn == {<<e.from, e.to>> : e \in {x \in memory.edges :
                    x.type = "calls" /\ NodeOf(memory, x.from).type = "frontend_api_call"}}
        joins(c) == {<<CallId(Key(c)), EndpointId(memory.endpoints[i])>> : i \in fitting(c)} IN
    At("done") =>
        /\ drawn \subseteq UNION {joins(c) : c \in certain}
        /\ \A c \in certain : Normal(c.path) = c.path => joins(c) \subseteq drawn

=============================================================================
