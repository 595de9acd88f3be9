------------------------------- MODULE Catalog -------------------------------
(***************************************************************************)
(* The platform store: dictionaries in memory, changed under one lock, and *)
(* the catalog of them, which is made under the lock and written to SQLite *)
(* after it has been released.                                             *)
(*                                                                         *)
(* The instance follows one record of each kind, and two repository sets;  *)
(* a version stands for the content of a record, 0 for its absence.        *)
(* Identifiers are fresh (uuid4): a record that was deleted comes back     *)
(* only when somebody saves a copy of it.  Passwords and accounts are left *)
(* out.                                                                    *)
(***************************************************************************)
EXTENDS Naturals

CONSTANTS
    Writer,         \* the threads that use the store
    Key,            \* the records the instance follows
    MaxChanges,     \* a bound on the changes made
    MaxRestarts     \* a bound on the restarts of the process

VARIABLES
    memory,         \* the dictionaries: versions, the project's list of sets,
                    \* and the number of the change that made them so
    disk,           \* the value of platform_catalog_v1
    thread,         \* of each writer: its step, the record it saves, what it read or made
    past            \* the bounds, and what a property has to remember:
                    \* known, the records that have been created
                    \* unsaved, the last change of each that does not persist, until
                    \* a catalog with it has been written
                    \* newest, when the newest catalog written was made
                    \* stale, an older one has been written over it
                    \* late, records saved when the one they belong to had gone, and
                    \* sets that were saved off the list of their project

vars == <<memory, disk, thread, past>>

Set == Key \cap {"set1", "set2"}

\* The record that a record belongs to.
Owner(k) == CASE k = "files" -> "set1"
              [] k = "selection" -> "analysis"
              [] k = "nodeRuntime" -> "graph"
              [] k \in {"run", "contract"} -> "scenario"
              [] k = "events" -> "run"
              [] OTHER -> "project"

Empty == [version |-> [k \in Key |-> 0], sets |-> {}, at |-> 0]
Present(c, k) == c.version[k] > 0

Free == [step |-> "idle", key |-> "project", copy |-> Empty]
At(w, step) == thread[w].step = step
Becomes(w, t) == thread' = [thread EXCEPT ![w] = t]

Init ==
    /\ memory = Empty /\ disk = Empty
    /\ thread = [w \in Writer |-> Free]
    /\ past = [changes |-> 0, restarts |-> 0, known |-> {}, unsaved |-> [k \in Key |-> 0],
               late |-> {}, newest |-> 0, stale |-> FALSE]

\* A request, or a service's thread, reads the record it is going to change,
\* or the one it is going to add to.
Read(w, k) ==
    /\ At(w, "idle") /\ past.changes < MaxChanges
    /\ \/ k \in past.known /\ Present(memory, k)
       \/ k \notin past.known /\ (k = "project" \/ Present(memory, Owner(k)))
    /\ Becomes(w, [step |-> "save", key |-> k, copy |-> [Empty EXCEPT !.sets = memory.sets]])
    /\ UNCHANGED <<memory, disk, past>>

\* The records the writer w is about to save.  create_repository_set adds the
\* set, and saves the project as it was read with the set on its list.
Stored(w) ==
    LET k == thread[w].key
        new == k \in Set \ past.known IN
    [version |-> [x \in Key |-> IF x = k \/ (new /\ x = "project")
                                THEN past.changes + 1 ELSE memory.version[x]],
     sets |-> IF new THEN thread[w].copy.sets \cup {k} ELSE memory.sets,
     at |-> past.changes + 1]

\* Records among ks that c holds without what they belong to.
Orphans(c, ks) == {k \in ks \ {"project"} : Present(c, k) /\ ~Present(c, Owner(k))}

\* Sets that c holds and does not list.
Unlisted(c) == {k \in Set \ c.sets : Present(c, k)}

\* save_<kind> and create_<kind>: nothing is looked up again under the lock,
\* except by update_project.
Save(w) ==
    LET k == thread[w].key IN
    /\ At(w, "save")
    /\ k = "project" /\ k \in past.known => Present(memory, k)
    /\ memory' = Stored(w)
    /\ Becomes(w, [thread[w] EXCEPT !.step = "make", !.copy = Empty])
    /\ past' = [past EXCEPT
         !.changes = @ + 1, !.known = @ \cup {k},
         !.late = @ \cup Orphans(Stored(w), {k}) \cup Unlisted(Stored(w))]
    /\ UNCHANGED disk

\* update_project finds no project under the lock.
Missed(w) ==
    /\ At(w, "save") /\ thread[w].key = "project"
    /\ "project" \in past.known /\ ~Present(memory, "project")
    /\ Becomes(w, Free)
    /\ UNCHANGED <<memory, disk, past>>

\* Deleting a project without looking for its graphs.
MutantCascade(k) ==
    CASE k = "project" -> {"project", "analysis", "scenario", "contract", "batch"} \cup memory.sets
      [] k = "analysis" -> {"analysis", "selection"}
      [] OTHER -> {k}

\* What goes with a record that is deleted: delete_project takes the runs of
\* the scenarios it finds, so the run of a scenario deleted before stays.
Cascade(k) ==
    CASE k = "project" ->
           {"project", "analysis", "graph", "scenario", "contract", "batch"}
             \cup memory.sets \cup (IF "set1" \in memory.sets THEN {"files"} ELSE {})
             \cup (IF Present(memory, "scenario") THEN {"run"} ELSE {})
      [] k = "set1" -> {"set1", "files"}
      [] k = "analysis" -> {"analysis", "selection"}
      [] k = "graph" -> {"graph", "nodeRuntime"}
      [] k = "run" -> {"run", "events"}
      [] OTHER -> {k}

\* What a deletion does next: only that of a set does not persist.
MutantAfterDelete(k) == IF k \in Set \cup {"analysis"} THEN "idle" ELSE "make"
AfterDelete(k) == IF k \in Set THEN "idle" ELSE "make"

\* delete_<kind>; delete_repository_set also takes the set off its project's
\* list, and does not persist.
Delete(w, k) ==
    LET gone == Cascade(k) \cap Key IN
    /\ At(w, "idle") /\ past.changes < MaxChanges
    /\ k \in {"project", "analysis", "graph", "scenario", "run"} \cup Set
    /\ Present(memory, k)
    /\ memory' = [version |-> [x \in Key |-> IF x \in gone THEN 0 ELSE memory.version[x]],
                  sets |-> IF k = "project" THEN {} ELSE memory.sets \ gone,
                  at |-> past.changes + 1]
    /\ Becomes(w, [Free EXCEPT !.step = AfterDelete(k)])
    /\ past' = [past EXCEPT !.changes = @ + 1,
                            !.unsaved = [x \in Key |-> IF k \in Set /\ x \in gone
                                                       THEN past.changes + 1 ELSE @[x]]]
    /\ UNCHANGED disk

\* rename_repository_set, add_repository, update_repository and
\* delete_repository, append_log, set_files, set_resource_selection and
\* update_project_journey change the memory and do not persist; set_files and
\* set_resource_selection do not look for what they belong to.
Touch(w, k) ==
    /\ At(w, "idle") /\ past.changes < MaxChanges
    /\ \/ k \in Set \cup {"project"} /\ Present(memory, k)
       \/ k \in {"files", "selection"} /\ Owner(k) \in past.known
    /\ memory' = [memory EXCEPT !.version[k] = past.changes + 1, !.at = past.changes + 1]
    /\ past' = [past EXCEPT !.changes = @ + 1, !.known = @ \cup {k},
                            !.unsaved[k] = past.changes + 1,
                            !.late = @ \cup Orphans(memory', {k})]
    /\ UNCHANGED <<disk, thread>>

\* _persist_catalog makes the catalog under the lock ...
MakeCatalog(w) ==
    /\ At(w, "make")
    /\ Becomes(w, [Free EXCEPT !.step = "write", !.copy = memory])
    /\ UNCHANGED <<memory, disk, past>>

\* The dictionaries of which it has the ones in use, and no copy.
Live == {"files", "selection", "nodeRuntime"}

\* ... and writes it without: the live ones as they are by then.
WriteCatalog(w) ==
    LET c == thread[w].copy IN
    /\ At(w, "write")
    /\ Becomes(w, Free)
    /\ disk' = [c EXCEPT !.version =
                  [k \in Key |-> IF k \in Live THEN memory.version[k] ELSE @[k]]]
    /\ past' = [past EXCEPT
         !.stale = c.at < past.newest,
         !.newest = IF c.at < @ THEN @ ELSE c.at,
         !.unsaved = [k \in Key |-> IF @[k] <= c.at THEN 0 ELSE @[k]]]
    /\ UNCHANGED memory

\* The process ends, and another one hydrates from the catalog.
Restart ==
    /\ past.restarts < MaxRestarts
    /\ memory' = disk
    /\ thread' = [w \in Writer |-> Free]
    /\ past' = [past EXCEPT !.restarts = @ + 1, !.newest = disk.at,
                            !.stale = FALSE, !.unsaved = [k \in Key |-> 0]]
    /\ UNCHANGED disk

Next ==
    \/ \E w \in Writer :
         \/ \E k \in Key : Read(w, k) \/ Delete(w, k) \/ Touch(w, k)
         \/ Save(w) \/ Missed(w) \/ MakeCatalog(w) \/ WriteCatalog(w)
    \/ Restart

Spec == Init /\ [][Next]_vars

-----------------------------------------------------------------------------

\* Kinds that go with their project.
Owned == Set \cup ({"analysis", "graph", "scenario", "batch"} \cap Key)

\* "Deleting a project takes its analyses, graphs and scenarios down with it"
\* (_purge_project_artifacts): in memory and in any catalog a restart may
\* find, what belongs to a project is not left without it, unless a thread
\* that had looked the project up saved it afterwards, or it is a set that is
\* not on the project's list: two requests made sets at once and one fell off
\* it, or a copy of a set was saved after the set had been deleted.
NothingLeftBehind ==
    \A c \in {memory, disk} : Orphans(c, Owned) \subseteq past.late

\* When no writer is between its change and its write, a restart finds every
\* record as it was changed last, unless an older catalog was written over a
\* newer one: only the operations that do not persist are lost.
ChangesAreDurable ==
    ~past.stale /\ (\A w \in Writer : thread[w].step \notin {"make", "write"})
      => \A k \in Key : past.unsaved[k] = 0 => disk.version[k] = memory.version[k]

=============================================================================
