--------------------------- MODULE AnalysisPipeline ---------------------------
(***************************************************************************)
(* The pipeline of one project, from the analyses of its repositories to a *)
(* mapping, a graph, scenarios, their contracts and their recommended      *)
(* inputs.  Whatever fails ends it with a partial result.  Pipelines may   *)
(* overlap, and users delete what they have made.                          *)
(***************************************************************************)
EXTENDS Naturals, FiniteSets

CONSTANTS
    Worker,         \* the requests at work
    Case,           \* cases that scenarios may be of: a scenario is stored under
                    \* the identifier of its case
    MaxRequests     \* a bound on the requests

VARIABLES
    memory,         \* the stored analyses, mappings, graphs, scenarios, contracts
                    \* and recommendations, and the steps of the project's journey
    disk,           \* those in the catalog
    thread,         \* of each worker: its step, and what it has so far
    past            \* the bounds, the identifiers given, and the complete
                    \* results

vars == <<memory, disk, thread, past>>

None == 0
NoAsk == [fe |-> None, be |-> None]
Role == {"frontend", "backend"}
Analysis(id, role, status, workspace) ==
    [id |-> id, role |-> role, status |-> status, workspace |-> workspace]
NoScenario == [case |-> None, graph |-> None]

\* names: the scenarios of the result; todo: those that a step has yet to treat;
\* since and alone: the number of the request, and whether none was at work.
Free == [step |-> "idle", ask |-> NoAsk, fe |-> None, be |-> None, map |-> None,
         graph |-> None, names |-> {}, todo |-> {}, scenario |-> NoScenario,
         since |-> None, alone |-> FALSE]
At(w, step) == thread[w].step = step
Becomes(w, t) == thread' = [thread EXCEPT ![w] = t]

\* The project has been analysed before.
Init ==
    /\ memory = [analyses |-> {Analysis(1, "frontend", "complete", TRUE),
                               Analysis(2, "backend", "complete", TRUE)},
                 maps |-> {}, graphs |-> {}, scenarios |-> {}, contracts |-> {},
                 recs |-> {}, journey |-> [create |-> "pending", list |-> "pending"]]
    /\ disk = memory
    /\ thread = [w \in Worker |-> Free]
    /\ past = [requests |-> 0, ids |-> 2, results |-> {}]

Saves(m) == memory' = m /\ disk' = m
New == past.ids + 1
Counted == past' = [past EXCEPT !.ids = New]

Request(w) ==
    /\ At(w, "idle") /\ past.requests < MaxRequests
    /\ past' = [past EXCEPT !.requests = @ + 1]

Start(w, ask) ==
    /\ Request(w)
    /\ Becomes(w, [Free EXCEPT !.step = "frontend", !.ask = ask,
                               !.since = past.requests + 1,
                               !.alone = \A v \in Worker : At(v, "idle")])
    /\ UNCHANGED <<memory, disk>>

\* A pipeline that fails has a partial result; what it has stored stays.
Fails(w) ==
    /\ Becomes(w, Free)
    /\ UNCHANGED <<memory, disk, past>>

Complete(id) == {a \in memory.analyses : a.id = id /\ a.status = "complete"}

NewestComplete(role) ==
    LET complete == {a.id : a \in {x \in memory.analyses :
                                     x.role = role /\ x.status = "complete"}}
    IN  {id \in complete : \A x \in complete : x <= id}

\* FrontendAnalysisService.run and its backend counterpart: an analysis that is
\* there already is returned again, a new one is saved whatever becomes of it,
\* and without a workspace there is none.
Analyses(w, role, then, otherwise) ==
    LET save(status) ==
          Saves([memory EXCEPT !.analyses = @ \cup {Analysis(New, role, status, TRUE)}])
        with(id) == [thread[w] EXCEPT !.fe = IF role = "frontend" THEN id ELSE @,
                                      !.be = IF role = "backend" THEN id ELSE @]
    IN
    \/ \E id \in NewestComplete(role) :
         /\ Becomes(w, [with(id) EXCEPT !.step = then])
         /\ UNCHANGED <<memory, disk, past>>
    \/ /\ save("complete")
       /\ Becomes(w, [with(New) EXCEPT !.step = then])
       /\ Counted
    \/ /\ save("error")
       /\ Becomes(w, [thread[w] EXCEPT !.step = otherwise])
       /\ Counted
    \/ /\ Becomes(w, [thread[w] EXCEPT !.step = otherwise])
       /\ UNCHANGED <<memory, disk, past>>

\* An analysis that is named and complete is taken as it is.
FrontEnd(w) ==
    LET ask == thread[w].ask IN
    /\ At(w, "frontend")
    /\ IF Complete(ask.fe) # {}
       THEN /\ Becomes(w, [thread[w] EXCEPT !.fe = ask.fe, !.step = "backend"])
            /\ UNCHANGED <<memory, disk, past>>
       ELSE Analyses(w, "frontend", "backend", "again")

\* Once more, in the workspace of the backend's analysis when it is named.
FrontEndAgain(w) ==
    /\ At(w, "again")
    /\ IF \E a \in memory.analyses : a.id = thread[w].ask.be /\ a.workspace
       THEN Analyses(w, "frontend", "backend", "failed")
       ELSE Fails(w)

Failed(w) == At(w, "failed") /\ Fails(w)

BackEnd(w) ==
    LET ask == thread[w].ask IN
    /\ At(w, "backend")
    /\ IF Complete(ask.be) # {}
       THEN /\ Becomes(w, [thread[w] EXCEPT !.be = ask.be, !.step = "map"])
            /\ UNCHANGED <<memory, disk, past>>
       ELSE Analyses(w, "backend", "map", "failed")

\* Without looking at the role of an analysis that is named.
MutantResolves(role, id) == Complete(id) # {}

\* _resolve_analysis, of an analysis that is named.
Resolves(role, id) == \E a \in Complete(id) : a.role = role

\* create_for_project: the workflow may fail.
Maps(w) ==
    LET t == thread[w] IN
    /\ At(w, "map")
    /\ \/ /\ Resolves("frontend", t.fe) /\ Resolves("backend", t.be)
          /\ Saves([memory EXCEPT !.maps = @ \cup {[id |-> New, fe |-> t.fe, be |-> t.be]}])
          /\ Becomes(w, [t EXCEPT !.map = New, !.step = "graph", !.ask = NoAsk])
          /\ Counted
       \/ Fails(w)

Graphs(w) ==
    LET t == thread[w]
        graph == [id |-> New, fe |-> t.fe, be |-> t.be, map |-> t.map, service |-> "found"] IN
    /\ At(w, "graph")
    /\ \/ /\ Resolves("frontend", t.fe) /\ Resolves("backend", t.be)
          /\ \E m \in memory.maps : m.id = t.map
          /\ Saves([memory EXCEPT !.graphs = @ \cup {graph}])
          /\ Becomes(w, [t EXCEPT !.graph = New, !.step = "stamp"])
          /\ Counted
       \/ Fails(w)

\* The graph is saved again, as it was made, with the service that is asked for:
\* also when it was deleted meanwhile.
Stamps(w) ==
    LET t == thread[w]
        graph == [id |-> t.graph, fe |-> t.fe, be |-> t.be, map |-> t.map,
                  service |-> "asked"] IN
    /\ At(w, "stamp")
    /\ Saves([memory EXCEPT !.graphs = {g \in @ : g.id # graph.id} \cup {graph}])
    /\ Becomes(w, [t EXCEPT !.step = "scenarios"])
    /\ UNCHANGED past

\* create_from_graph, whose workflow may fail, stores the scenarios one by one.
Scenarios(w) ==
    /\ At(w, "scenarios")
    /\ \/ /\ \E g \in memory.graphs : g.id = thread[w].graph
          /\ \E cases \in SUBSET Case :
               Becomes(w, [thread[w] EXCEPT !.step = "store", !.names = cases,
                                            !.todo = cases])
          /\ UNCHANGED <<memory, disk, past>>
       \/ Fails(w)

\* A step that has treated all scenarios, or has none to treat.
Treated(w, step, then) ==
    /\ At(w, step) /\ thread[w].todo = {}
    /\ Becomes(w, [thread[w] EXCEPT !.step = then, !.todo = thread[w].names])
    /\ UNCHANGED <<memory, disk, past>>

StoresScenario(w) ==
    LET t == thread[w] IN
    \/ Treated(w, "store", "contract")
    \/ /\ At(w, "store")
       /\ \E case \in t.todo :
            /\ Saves([memory EXCEPT !.scenarios =
                        {s \in @ : s.case # case} \cup {[case |-> case, graph |-> t.graph]}])
            /\ Becomes(w, [t EXCEPT !.todo = @ \ {case}])
       /\ UNCHANGED past

\* build_for_scenario reads the scenario, unless it is gone ...
ReadsForContract(w) ==
    \/ Treated(w, "contract", "recommend")
    \/ /\ At(w, "contract")
       /\ \E case \in thread[w].todo :
            LET found == {s \in memory.scenarios : s.case = case} IN
            IF found = {} THEN Fails(w)
            ELSE /\ \E s \in found :
                      Becomes(w, [thread[w] EXCEPT !.step = "build", !.scenario = s])
                 /\ UNCHANGED <<memory, disk, past>>

\* _resolve_analyses, and again _analyses_for_scenario: those of the scenario's
\* graph, or when it is gone the newest that are complete.
AnalysesOf(graph, role) ==
    LET own == {IF role = "frontend" THEN g.fe ELSE g.be :
                  g \in {x \in memory.graphs : x.id = graph}}
    IN  IF own # {} THEN own ELSE NewestComplete(role)

\* ... and saves a contract, unless there is no analysis of the frontend or the
\* skill fails.
BuildsContract(w) ==
    LET t == thread[w]
        contract(fe, be) ==
          [case |-> t.scenario.case, graph |-> t.scenario.graph, fe |-> fe, be |-> be] IN
    /\ At(w, "build")
    /\ \/ /\ \E fe \in AnalysesOf(t.scenario.graph, "frontend"),
                be \in AnalysesOf(t.scenario.graph, "backend") :
               Saves([memory EXCEPT !.contracts =
                        {c \in @ : c.case # t.scenario.case} \cup {contract(fe, be)}])
          /\ Becomes(w, [t EXCEPT !.step = "contract", !.scenario = NoScenario,
                                 !.todo = @ \ {t.scenario.case}])
          /\ UNCHANGED past
       \/ Fails(w)

\* recommend reads the scenario and its newest contract, which the step before
\* has built, and looks up the analyses once more.
Recommends(w) ==
    LET t == thread[w] IN
    \/ Treated(w, "recommend", "journey")
    \/ /\ At(w, "recommend")
       /\ \E case \in t.todo :
            \/ /\ \E s \in memory.scenarios, c \in memory.contracts :
                    /\ s.case = case /\ c.case = case
                    /\ \E fe \in AnalysesOf(s.graph, "frontend"),
                          be \in AnalysesOf(s.graph, "backend") :
                         Saves([memory EXCEPT !.recs =
                                  {r \in @ : r.contract.case # case}
                                    \cup {[contract |-> c, fe |-> fe, be |-> be]}])
               /\ Becomes(w, [t EXCEPT !.todo = @ \ {case}])
               /\ UNCHANGED past
            \/ Fails(w)

Completes(w) ==
    /\ At(w, "journey")
    /\ Saves([memory EXCEPT !.journey =
         [create |-> "complete",
          list |-> IF thread[w].names = {} THEN "pending" ELSE "complete"]])
    /\ past' = [past EXCEPT !.results = @ \cup {[thread[w] EXCEPT !.step = "complete"]}]
    /\ Becomes(w, Free)

-----------------------------------------------------------------------------

DeleteScenario(w) ==
    /\ Request(w)
    /\ \E s \in memory.scenarios : Saves([memory EXCEPT !.scenarios = @ \ {s}])
    /\ UNCHANGED thread

DeleteGraph(w) ==
    /\ Request(w)
    /\ \E g \in memory.graphs : Saves([memory EXCEPT !.graphs = @ \ {g}])
    /\ UNCHANGED thread

Asks == {NoAsk, [fe |-> 1, be |-> 2], [fe |-> 2, be |-> 2], [fe |-> None, be |-> 2]}

Next ==
    \E w \in Worker :
        \/ \E ask \in Asks : Start(w, ask)
        \/ FrontEnd(w) \/ FrontEndAgain(w) \/ BackEnd(w) \/ Failed(w)
        \/ Maps(w) \/ Graphs(w) \/ Stamps(w) \/ Scenarios(w) \/ StoresScenario(w)
        \/ ReadsForContract(w) \/ BuildsContract(w) \/ Recommends(w) \/ Completes(w)
        \/ DeleteScenario(w) \/ DeleteGraph(w)

Spec == Init /\ [][Next]_vars

-----------------------------------------------------------------------------

\* What a complete result names belongs together, whichever analyses it was
\* asked to take again and however the frontend's was obtained at last: the
\* mapping and the graph are of the two analyses, each of its role, and the
\* graph has the service that was asked for; the scenarios are of that graph,
\* and each has a contract and recommended inputs made from it and from those
\* analyses, not from the newest ones; except what other requests have changed
\* at the same time, or since.
CompleteIsTraceable ==
    \A r \in past.results :
        /\ \E a \in memory.analyses : a.id = r.fe /\ a.role = "frontend"
        /\ \E a \in memory.analyses : a.id = r.be /\ a.role = "backend"
        /\ [id |-> r.map, fe |-> r.fe, be |-> r.be] \in memory.maps
        /\ \A g \in memory.graphs : g.id = r.graph =>
             g = [id |-> r.graph, fe |-> r.fe, be |-> r.be, map |-> r.map,
                  service |-> "asked"]
        /\ r.alone /\ r.since = past.requests =>
             \A case \in r.names :
                LET whole == [case |-> case, graph |-> r.graph, fe |-> r.fe, be |-> r.be] IN
                /\ [case |-> case, graph |-> r.graph] \in memory.scenarios
                /\ whole \in memory.contracts
                /\ [contract |-> whole, fe |-> r.fe, be |-> r.be] \in memory.recs

=============================================================================
