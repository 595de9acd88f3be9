----------------------------- MODULE AnalysisRun -----------------------------
(***************************************************************************)
(* One analysis of a workspace.  A separate program analyses the files and *)
(* writes how many are done; two threads publish that number: the watcher, *)
(* until it is stopped, and the request, once more when the program has    *)
(* ended.  They share the record they change ("summary"), and the number   *)
(* published last; the request then ends the record.                       *)
(***************************************************************************)
EXTENDS Naturals

CONSTANTS
    Files,          \* fileTotal
    MaxRestarts     \* a bound on the restarts of the process

VARIABLES
    memory,         \* the stored record, or its absence
    disk,           \* the record in the catalog
    thread,         \* the two threads, and what they share: the summary, the number
                    \* published last, the file of the program, the stop event
    past            \* the bound, and what a property has to remember:
                    \* abandoned, the request went on while the watcher was publishing

vars == <<memory, disk, thread, past>>

Publisher == {"request", "watcher"}
Record == [status : {"none", "progressing", "complete", "error"}, done : 0..Files]
NoRecord == [status |-> "none", done |-> 0]
NoThreads ==
    [step |-> [p \in Publisher |-> "off"], mine |-> [p \in Publisher |-> NoRecord],
     summary |-> NoRecord, last |-> Files + 1, file |-> 0, stop |-> FALSE]

Init ==
    /\ memory = NoRecord /\ disk = NoRecord
    /\ thread = NoThreads
    /\ past = [restarts |-> 0, abandoned |-> FALSE]

At(p, step) == thread.step[p] = step
Stored(record) == memory' = record /\ disk' = record

\* run: unless an analysis that is complete is returned again, a new record is
\* saved, and the watcher and the program started.
Starts ==
    /\ At("request", "off") /\ At("watcher", "off")
    /\ LET new == [status |-> "progressing", done |-> 0] IN
         /\ Stored(new)
         /\ thread' = [NoThreads EXCEPT !.summary = new,
                         !.step = [request |-> "runs", watcher |-> "waits"]]
    /\ past' = [past EXCEPT !.abandoned = FALSE]

\* The program counts a file.
Counts ==
    /\ At("request", "runs") /\ thread.file < Files
    /\ thread' = [thread EXCEPT !.file = @ + 1]
    /\ UNCHANGED <<memory, disk, past>>

\* The program ends, well or not: the watcher is told to stop.
OperationEnds ==
    /\ At("request", "runs")
    /\ thread' = [thread EXCEPT !.stop = TRUE, !.step["request"] = "reads"]
    /\ UNCHANGED <<memory, disk, past>>

\* watch: between two waits, unless it has been stopped.
Wakes ==
    /\ At("watcher", "waits")
    /\ thread' = [thread EXCEPT !.step["watcher"] = IF thread.stop THEN "off" ELSE "reads"]
    /\ UNCHANGED <<memory, disk, past>>

-----------------------------------------------------------------------------
(* publish and on_progress, in four steps: the file, a copy of the         *)
(* summary, the summary, the store.                                        *)

Published == [request |-> "joins", watcher |-> "waits"]

\* Nothing is published when the file cannot be read, or says the same.
PublishReads(p) ==
    /\ At(p, "reads")
    /\ \/ thread' = [thread EXCEPT !.step[p] = Published[p]]
       \/ /\ thread.file # thread.last
          /\ thread' = [thread EXCEPT !.last = thread.file, !.step[p] = "copies",
                                      !.mine[p].done = thread.file]
    /\ UNCHANGED <<memory, disk, past>>

PublishCopies(p) ==
    /\ At(p, "copies")
    /\ thread' = [thread EXCEPT !.mine[p].status = thread.summary.status,
                                !.step[p] = "assigns"]
    /\ UNCHANGED <<memory, disk, past>>

PublishAssigns(p) ==
    /\ At(p, "assigns")
    /\ thread' = [thread EXCEPT !.summary = thread.mine[p], !.step[p] = "saves"]
    /\ UNCHANGED <<memory, disk, past>>

PublishSaves(p) ==
    /\ At(p, "saves")
    /\ Stored(thread.summary)
    /\ thread' = [thread EXCEPT !.step[p] = Published[p]]
    /\ UNCHANGED past

-----------------------------------------------------------------------------
(* The end of the request.                                                 *)

\* join(timeout=1): the watcher has ended, or is given up.
Joins ==
    /\ At("request", "joins")
    /\ thread' = [thread EXCEPT !.step["request"] = "ends"]
    /\ past' = [past EXCEPT !.abandoned = ~At("watcher", "off")]
    /\ UNCHANGED <<memory, disk>>

\* The number of files done is left to the watcher.
MutantEndAssigns ==
    /\ At("request", "ends")
    /\ \E status \in {"complete", "error"} :
         thread' = [thread EXCEPT !.summary.status = status, !.step["request"] = "endSaves"]
    /\ UNCHANGED <<memory, disk, past>>

\* The summary becomes complete with every file, or an error; the record
\* saved is what the summary is then.
EndAssigns ==
    /\ At("request", "ends")
    /\ \E status \in {"complete", "error"} :
         thread' = [thread EXCEPT
           !.summary = [status |-> status,
                        done |-> IF status = "complete" THEN Files ELSE @.done],
           !.step["request"] = "endSaves"]
    /\ UNCHANGED <<memory, disk, past>>

EndSaves ==
    /\ At("request", "endSaves")
    /\ Stored(thread.summary)
    /\ thread' = [thread EXCEPT !.step["request"] = "off"]
    /\ UNCHANGED past

\* delete_analysis, at any time.
Delete ==
    /\ memory.status # "none"
    /\ Stored(NoRecord)
    /\ UNCHANGED <<thread, past>>

\* The record of an analysis that was cut off stays progressing.
Restart ==
    /\ past.restarts < MaxRestarts
    /\ memory' = disk
    /\ thread' = NoThreads
    /\ past' = [past EXCEPT !.restarts = @ + 1, !.abandoned = @ \/ disk.status = "progressing"]
    /\ UNCHANGED disk

Next ==
    \/ Starts \/ Counts \/ OperationEnds \/ Wakes
    \/ \E p \in Publisher :
         PublishReads(p) \/ PublishCopies(p) \/ PublishAssigns(p) \/ PublishSaves(p)
    \/ Joins \/ EndAssigns \/ EndSaves
    \/ Delete \/ Restart

Spec == Init /\ [][Next]_vars

-----------------------------------------------------------------------------

\* When the request has returned, the stored analysis is over (or was
\* deleted), and complete in all its files, whichever thread saved it: no
\* progress still being published makes it run again, or lowers its count.
\* Except when the watcher has not ended within the second it is waited for
\* (analysis_progress, 100), or the process did not live to end the analysis.
EndIsLast ==
    At("request", "off") /\ ~past.abandoned =>
        /\ memory.status # "progressing"
        /\ memory.status = "complete" => memory.done = Files
        /\ disk = memory

=============================================================================
