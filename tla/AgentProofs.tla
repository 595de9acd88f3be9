----------------------------- MODULE AgentProofs -----------------------------
(***************************************************************************)
(* TLAPS proofs about what the agents leave behind: the record of an       *)
(* analysis, the profile and the key of a model, the events of workflows,  *)
(* and what a pipeline has made; and about what is reported of a run: the  *)
(* driver's verdict, the evidence package and the review report.           *)
(***************************************************************************)
EXTENDS Services, Sequences, TLAPS

\* A step of the services is one of the service that is looked at.
LEMMA AgentSteps ==
    ASSUME [Next]_vars
    PROVE  /\ service' = service
           /\ service = "analysis" => [Analysis!Next]_(Analysis!vars)
           /\ service = "models" => [Models!Next]_(Models!vars)
           /\ service = "plans" => [Plans!Next]_(Plans!vars)
           /\ service = "pipeline" => [Pipeline!Next]_(Pipeline!vars)
BY DEF Next, vars, Analysis!vars, Models!vars, Plans!vars, Pipeline!vars

LEMMA AgentInits ==
    ASSUME Init
    PROVE  /\ service = "analysis" => Analysis!Init
           /\ service = "models" => Models!Init
           /\ service = "plans" => Plans!Init
           /\ service = "pipeline" => Pipeline!Init
BY DEF Init

-----------------------------------------------------------------------------
(* The watcher and the request of an analysis.                             *)

AnalysisSteps ==
    {"off", "runs", "waits", "reads", "copies", "assigns", "saves", "joins", "ends", "endSaves"}
AnalysisThreads ==
    [step : [Analysis!Publisher -> AnalysisSteps],
     mine : [Analysis!Publisher -> Analysis!Record], summary : Analysis!Record,
     last : Nat, file : 0..Files, stop : BOOLEAN]

AnalysisTypeOK ==
    /\ memory \in Analysis!Record /\ disk \in Analysis!Record
    /\ thread \in AnalysisThreads
    /\ past \in [restarts : Nat, abandoned : BOOLEAN]

\* The catalog holds what the memory holds: both are written in one step.
AnalysisSame == disk = memory

\* A watcher that was not given up has ended before the request goes on.
AnalysisWatcherOff ==
    ~past.abandoned /\ thread.step["request"] \in {"ends", "endSaves", "off"}
      => thread.step["watcher"] = "off"

\* Only a request that has waited for its watcher gives it up.
AnalysisNotYetGivenUp ==
    thread.step["request"] \notin {"ends", "endSaves", "off"} => ~past.abandoned

\* As long as the request is at work, the record, the summary and the copies of
\* it that are about to be assigned are in progress.
AnalysisInProgress ==
    ~past.abandoned /\ thread.step["request"] \notin {"endSaves", "off"} =>
        /\ thread.summary.status = "progressing"
        /\ \A p \in Analysis!Publisher :
             thread.step[p] = "assigns" => thread.mine[p].status = "progressing"

AnalysisUnended ==
    ~past.abandoned /\ thread.step["request"] # "off"
      => memory.status \in {"none", "progressing"}

AnalysisWhole(record) ==
    /\ record.status # "progressing"
    /\ record.status = "complete" => record.done = Files

\* What the request is about to save is the end; what it has saved is.
AnalysisEnded ==
    ~past.abandoned =>
        /\ thread.step["request"] = "endSaves" => AnalysisWhole(thread.summary)
        /\ thread.step["request"] = "off" => AnalysisWhole(memory)

AnalysisIInv ==
    /\ AnalysisTypeOK /\ AnalysisSame /\ AnalysisWatcherOff /\ AnalysisNotYetGivenUp
    /\ AnalysisInProgress /\ AnalysisUnended /\ AnalysisEnded

\* The strengthened invariant holds initially.
LEMMA AnalysisInitIInv == Analysis!Init => AnalysisIInv
BY FilesAssumption
   DEF Analysis!Init, AnalysisIInv, AnalysisTypeOK, AnalysisSame, AnalysisWatcherOff,
       AnalysisNotYetGivenUp, AnalysisInProgress, AnalysisUnended, AnalysisEnded,
       AnalysisWhole, AnalysisThreads,
       AnalysisSteps, Analysis!Publisher, Analysis!Record, Analysis!NoRecord,
           Analysis!NoThreads

\* Every step keeps the types ...
LEMMA AnalysisNextTypes == ASSUME AnalysisTypeOK, [Analysis!Next]_(Analysis!vars)
  PROVE AnalysisTypeOK'
<1> USE FilesAssumption
  DEF AnalysisTypeOK, AnalysisThreads, AnalysisSteps, Analysis!Publisher, Analysis!Record,
    Analysis!NoRecord, Analysis!At, Analysis!Stored
<1>1. CASE Analysis!Starts
  <2>1. memory' \in Analysis!Record /\ disk' \in Analysis!Record BY <1>1 DEF Analysis!Starts
  <2>2. Analysis!NoThreads \in AnalysisThreads BY DEF Analysis!NoThreads
  <2>3. [request |-> "runs",
      watcher |-> "waits"] \in [Analysis!Publisher -> AnalysisSteps]
    OBVIOUS
  <2>4. thread' \in AnalysisThreads
    <3> DEFINE new == [status |-> "progressing", done |-> 0]
    <3>1. new \in Analysis!Record OBVIOUS
    <3>2. thread' = [Analysis!NoThreads EXCEPT !.summary = new,
                       !.step = [request |-> "runs", watcher |-> "waits"]]
      BY <1>1 DEF Analysis!Starts
    <3> HIDE DEF new
    <3>3. QED BY <2>2, <2>3, <3>1, <3>2
  <2>5. QED BY <1>1, <2>1, <2>4 DEF Analysis!Starts
<1>2. CASE Analysis!Counts BY <1>2 DEF Analysis!Counts
<1>3. CASE Analysis!OperationEnds BY <1>3 DEF Analysis!OperationEnds
<1>4. CASE Analysis!Wakes BY <1>4 DEF Analysis!Wakes
<1>5. ASSUME NEW p \in Analysis!Publisher, Analysis!PublishReads(p) PROVE AnalysisTypeOK'
  <2>1. Analysis!Published[p] \in AnalysisSteps BY DEF Analysis!Published
  <2>2. CASE thread' = [thread EXCEPT !.step[p] = Analysis!Published[p]]
    BY <1>5, <2>1, <2>2 DEF Analysis!PublishReads
  <2>3. CASE thread' = [thread EXCEPT !.last = thread.file, !.step[p] = "copies",
                                      !.mine[p].done = thread.file]
    <3>1. [thread.mine[p] EXCEPT !.done = thread.file] \in Analysis!Record OBVIOUS
    <3>2. [thread.mine EXCEPT ![p].done = thread.file] \in [Analysis!Publisher -> Analysis!Record]
    BY <3>1
    <3>3. [thread.step EXCEPT ![p] = "copies"] \in [Analysis!Publisher -> AnalysisSteps] OBVIOUS
    <3>4. thread.file \in Nat OBVIOUS
    <3>5. thread' = [thread EXCEPT !.last = thread.file,
                       !.step = [thread.step EXCEPT ![p] = "copies"],
                       !.mine = [thread.mine EXCEPT ![p].done = thread.file]]
      BY <2>3
    <3>6. thread' \in AnalysisThreads BY <3>2, <3>3, <3>4, <3>5
    <3>7. QED BY <1>5, <3>6 DEF Analysis!PublishReads
  <2>4. QED BY <1>5, <2>2, <2>3 DEF Analysis!PublishReads
<1>6. ASSUME NEW p \in Analysis!Publisher, Analysis!PublishCopies(p) PROVE AnalysisTypeOK'
  <2>1. [thread.mine[p] EXCEPT !.status = thread.summary.status] \in Analysis!Record OBVIOUS
  <2>2. [thread.mine EXCEPT ![p].status = thread.summary.status]
          \in [Analysis!Publisher -> Analysis!Record]
    BY <2>1
  <2>3. [thread.step EXCEPT ![p] = "assigns"] \in [Analysis!Publisher -> AnalysisSteps] OBVIOUS
  <2>4. thread' \in AnalysisThreads BY <1>6, <2>2, <2>3 DEF Analysis!PublishCopies
  <2>5. QED BY <1>6, <2>4 DEF Analysis!PublishCopies
<1>7. ASSUME NEW p \in Analysis!Publisher, Analysis!PublishAssigns(p) PROVE AnalysisTypeOK'
    BY <1>7 DEF Analysis!PublishAssigns
<1>8. ASSUME NEW p \in Analysis!Publisher, Analysis!PublishSaves(p) PROVE AnalysisTypeOK'
  <2>1. Analysis!Published[p] \in AnalysisSteps BY DEF Analysis!Published
  <2>2. QED BY <1>8, <2>1 DEF Analysis!PublishSaves
<1>9. CASE Analysis!Joins BY <1>9 DEF Analysis!Joins
<1>10. CASE Analysis!EndAssigns
  <2>1. PICK status \in {"complete", "error"} :
          thread' = [thread EXCEPT
            !.summary = [status |-> status,
                         done |-> IF status = "complete" THEN Files ELSE @.done],
            !.step["request"] = "endSaves"]
    BY <1>10 DEF Analysis!EndAssigns
  <2>2. [status |-> status,
         done |-> IF status = "complete" THEN Files ELSE thread.summary.done] \in Analysis!Record
    OBVIOUS
  <2>3. [thread.step EXCEPT !["request"] = "endSaves"]
          \in [Analysis!Publisher -> AnalysisSteps]
    OBVIOUS
  <2>4. thread' \in AnalysisThreads BY <2>1, <2>2, <2>3
  <2>5. QED BY <1>10, <2>4 DEF Analysis!EndAssigns
<1>11. CASE Analysis!EndSaves BY <1>11 DEF Analysis!EndSaves
<1>12. CASE Analysis!Delete BY <1>12 DEF Analysis!Delete
<1>13. CASE Analysis!Restart
  <2>1. Analysis!NoThreads \in AnalysisThreads BY DEF Analysis!NoThreads
  <2>2. (past.abandoned \/ disk.status = "progressing") \in BOOLEAN OBVIOUS
  <2>3. past' \in [restarts : Nat, abandoned : BOOLEAN]
    <3>1. PICK abandoned \in BOOLEAN :
            past' = [past EXCEPT !.restarts = @ + 1, !.abandoned = abandoned]
      BY <1>13, <2>2, Zenon DEF Analysis!Restart
    <3>2. past \in [restarts : Nat, abandoned : BOOLEAN] OBVIOUS
    <3>3. past.restarts \in Nat BY <3>2
    <3>4. past' = [restarts |-> past.restarts + 1, abandoned |-> abandoned]
      BY <3>1, <3>2
    <3>5. QED BY <3>3, <3>4
  <2>4. QED BY <1>13, <2>1, <2>3 DEF Analysis!Restart
<1>14. CASE UNCHANGED Analysis!vars BY <1>14 DEF Analysis!vars
<1>15. QED
    BY <1>1, <1>2, <1>3, <1>4, <1>5, <1>6, <1>7, <1>8, <1>9, <1>10, <1>11, <1>12, <1>13,
       <1>14 DEF Analysis!Next

\* ... and the strengthened invariant.
LEMMA AnalysisNextIInv == ASSUME AnalysisIInv, [Analysis!Next]_(Analysis!vars)
  PROVE AnalysisIInv'
<1> USE FilesAssumption
  DEF AnalysisIInv, AnalysisSame, AnalysisWatcherOff, AnalysisNotYetGivenUp,
    AnalysisInProgress, AnalysisUnended, AnalysisEnded, AnalysisWhole, AnalysisTypeOK,
    AnalysisThreads, Analysis!Publisher,
            Analysis!Record, Analysis!NoRecord, Analysis!At, Analysis!Stored
<1>0. AnalysisTypeOK' BY AnalysisNextTypes
<1>1. CASE Analysis!Starts
  <2>1. /\ thread'.summary.status = "progressing"
        /\ thread'.step = [request |-> "runs", watcher |-> "waits"]
    BY <1>1 DEF Analysis!Starts, Analysis!NoThreads
  <2>2. memory'.status = "progressing" /\ disk' = memory' BY <1>1 DEF Analysis!Starts
  <2>3. past'.abandoned = FALSE BY <1>1 DEF Analysis!Starts
  <2>4. QED BY <1>0, <2>1, <2>2, <2>3
<1>2. CASE Analysis!Counts BY <1>0, <1>2 DEF Analysis!Counts
<1>3. CASE Analysis!OperationEnds BY <1>0, <1>3 DEF Analysis!OperationEnds
<1>4. CASE Analysis!Wakes BY <1>0, <1>4 DEF Analysis!Wakes
<1>5. ASSUME NEW p \in Analysis!Publisher, Analysis!PublishReads(p) PROVE AnalysisIInv'
  <2>1. CASE thread' = [thread EXCEPT !.step[p] = Analysis!Published[p]]
    BY <1>0, <1>5, <2>1 DEF Analysis!PublishReads, Analysis!Published
  <2>2. CASE thread' = [thread EXCEPT !.last = thread.file, !.step[p] = "copies",
                                      !.mine[p].done = thread.file]
    <3>1. /\ thread'.summary = thread.summary
          /\ thread'.step = [thread.step EXCEPT ![p] = "copies"]
          /\ thread'.mine = [thread.mine EXCEPT ![p].done = thread.file]
      BY <2>2
    <3>2. \A q \in Analysis!Publisher : thread'.mine[q].status = thread.mine[q].status
      BY <3>1
    <3>3. thread.step[p] = "reads" /\ UNCHANGED <<memory, disk, past>>
      BY <1>5 DEF Analysis!PublishReads
    <3>4. QED BY <1>0, <3>1, <3>2, <3>3
  <2>3. QED BY <1>5, <2>1, <2>2 DEF Analysis!PublishReads
<1>6. ASSUME NEW p \in Analysis!Publisher, Analysis!PublishCopies(p) PROVE AnalysisIInv'
    BY <1>0, <1>6 DEF Analysis!PublishCopies
<1>7. ASSUME NEW p \in Analysis!Publisher, Analysis!PublishAssigns(p) PROVE AnalysisIInv'
    BY <1>0, <1>7 DEF Analysis!PublishAssigns
<1>8. ASSUME NEW p \in Analysis!Publisher, Analysis!PublishSaves(p) PROVE AnalysisIInv'
    BY <1>0, <1>8 DEF Analysis!PublishSaves, Analysis!Published
<1>9. CASE Analysis!Joins
  <2>1. /\ thread.step["request"] = "joins"
        /\ thread'.step = [thread.step EXCEPT !["request"] = "ends"]
        /\ thread'.summary = thread.summary /\ thread'.mine = thread.mine
        /\ memory' = memory /\ disk' = disk
    BY <1>9 DEF Analysis!Joins
  <2>2. CASE thread.step["watcher"] = "off"
    <3>1. past'.abandoned = FALSE BY <1>9, <2>2 DEF Analysis!Joins
    <3>2. QED BY <1>0, <2>1, <2>2, <3>1
  <2>3. CASE thread.step["watcher"] # "off"
    <3>1. past'.abandoned = TRUE BY <1>9, <2>3 DEF Analysis!Joins
    <3>2. QED BY <1>0, <2>1, <3>1
  <2>4. QED BY <2>2, <2>3
<1>10. CASE Analysis!EndAssigns BY <1>0, <1>10 DEF Analysis!EndAssigns
<1>11. CASE Analysis!EndSaves BY <1>0, <1>11 DEF Analysis!EndSaves
<1>12. CASE Analysis!Delete BY <1>0, <1>12 DEF Analysis!Delete
<1>13. CASE Analysis!Restart BY <1>0, <1>13 DEF Analysis!Restart, Analysis!NoThreads
<1>14. CASE UNCHANGED Analysis!vars BY <1>0, <1>14 DEF Analysis!vars
<1>15. QED
    BY <1>1, <1>2, <1>3, <1>4, <1>5, <1>6, <1>7, <1>8, <1>9, <1>10, <1>11, <1>12, <1>13,
       <1>14 DEF Analysis!Next

\* The invariant of an analysis holds when analyses are looked at.
AnalysisInv == service = "analysis" => AnalysisIInv

LEMMA AnalysisInvariant == Spec => []AnalysisInv
<1>1. Init => AnalysisInv BY AgentInits, AnalysisInitIInv DEF AnalysisInv
<1>2. AnalysisInv /\ [Next]_vars => AnalysisInv' BY AgentSteps, AnalysisNextIInv DEF AnalysisInv
<1>3. QED BY <1>1, <1>2, PTL DEF Spec

\* When the request has returned, whichever thread saved last, the stored
\* analysis is over, and complete in all of its files; unless the watcher was
\* given up, or the process died.
THEOREM AnalysisEndStays == Spec => []EndIsLast
<1>1. AnalysisInv => EndIsLast
    BY DEF AnalysisInv, AnalysisIInv, AnalysisSame, AnalysisEnded, AnalysisWhole, EndIsLast,
       Analysis!EndIsLast, Analysis!At
<1>2. QED BY AnalysisInvariant, <1>1, PTL

-----------------------------------------------------------------------------
(* A model's profile and its key.                                          *)

ModelProfiles == [exists : BOOLEAN, hasApiKey : BOOLEAN, version : Nat]
ModelRequests == {"none", "create", "key", "noKey", "other", "delete"}
ModelMemories == [profile : ModelProfiles, key : Nat]
ModelDisks == [profile : ModelProfiles, vault : Nat]
ModelThreads == [request : ModelRequests, key : Nat, check : ModelProfiles]
ModelPasts ==
    [changes : Nat, restarts : Nat, created : BOOLEAN, deleted : BOOLEAN,
     raced : BOOLEAN, leftover : BOOLEAN]

ModelTypeOK ==
    /\ memory \in ModelMemories /\ disk \in ModelDisks
    /\ thread \in ModelThreads /\ past \in ModelPasts

\* A profile is in the catalog when it is in memory, and only after its creation.
ModelSame == memory.profile.exists = disk.profile.exists
ModelCreated ==
    memory.profile.exists \/ thread.request # "none" \/ thread.check.exists \/ past.deleted
      => past.created

\* What the request that holds the lock may rely on.
ModelHeld ==
    /\ thread.request = "create" => ~past.deleted
    /\ thread.request \in {"key", "noKey", "other", "delete"} => memory.profile.exists
    /\ thread.request = "delete" /\ ~past.leftover => disk.vault = 0

ModelIInv == ModelTypeOK /\ ModelSame /\ ModelCreated /\ ModelHeld /\ Models!KeyFollowsProfile

\* That a number is not 0 is a truth value.
LEMMA ModelPositive == ASSUME NEW n \in Nat PROVE \E b \in BOOLEAN : b = (n > 0)
<1>1. CASE n > 0
  <2>1. (n > 0) = TRUE BY <1>1
  <2>2. QED BY <2>1, Zenon
<1>2. CASE ~(n > 0)
  <2>1. (n > 0) = FALSE BY <1>2
  <2>2. QED BY <2>1, Zenon
<1>3. QED BY <1>1, <1>2

\* The types of what the actions assign.
LEMMA ModelDiskTypes ==
    ASSUME ModelTypeOK
    PROVE  /\ \A v \in Nat : [disk EXCEPT !.vault = v] \in ModelDisks
           /\ \A p \in ModelProfiles : [disk EXCEPT !.profile = p] \in ModelDisks
BY DEF ModelTypeOK, ModelDisks

LEMMA ModelThreadTypes ==
    ASSUME ModelTypeOK, NEW v \in Nat, NEW r \in ModelRequests
    PROVE  [thread EXCEPT !.request = r, !.key = v] \in ModelThreads
BY DEF ModelTypeOK, ModelThreads

LEMMA ModelPastTypes ==
    ASSUME ModelTypeOK, NEW c \in BOOLEAN, NEW d \in BOOLEAN, NEW r \in BOOLEAN,
        NEW l \in BOOLEAN
    PROVE  /\ [past EXCEPT !.changes = @ + 1, !.created = c, !.leftover = l] \in ModelPasts
           /\ [past EXCEPT !.changes = @ + 1, !.leftover = l] \in ModelPasts
           /\ [past EXCEPT !.restarts = @ + 1, !.raced = r, !.leftover = l] \in ModelPasts
<1>1. past.changes + 1 \in Nat /\ past.restarts + 1 \in Nat BY DEF ModelTypeOK, ModelPasts
<1>2. \A n, m \in Nat :
        /\ [past EXCEPT !.changes = n, !.created = c, !.leftover = l] \in ModelPasts
        /\ [past EXCEPT !.changes = n, !.leftover = l] \in ModelPasts
        /\ [past EXCEPT !.restarts = m, !.raced = r, !.leftover = l] \in ModelPasts
    BY DEF ModelTypeOK, ModelPasts
<1>3. QED BY <1>1, <1>2, Zenon

\* The strengthened invariant holds initially.
LEMMA ModelInitIInv == Models!Init => ModelIInv
<1> SUFFICES ASSUME Models!Init PROVE ModelIInv OBVIOUS
<1>1. ModelTypeOK
    BY DEF Models!Init, ModelTypeOK, ModelMemories, ModelDisks, ModelThreads,
        Models!NoProfile, Models!NoRequest, ModelProfiles, ModelRequests, ModelPasts
<1>2. ModelSame /\ ModelCreated /\ ModelHeld
  BY DEF Models!Init, ModelSame, ModelCreated, ModelHeld, Models!NoRequest, Models!NoProfile
<1>3. Models!KeyFollowsProfile
  <2>1. memory.profile.hasApiKey = FALSE /\ (memory.key > 0) = FALSE
    BY DEF Models!Init, Models!NoProfile
  <2>2. ~past.deleted /\ disk.vault = 0 BY DEF Models!Init
  <2>3. QED BY <2>1, <2>2 DEF Models!KeyFollowsProfile
<1>4. QED BY <1>1, <1>2, <1>3 DEF ModelIInv

\* Every step keeps it.
LEMMA ModelNextIInv == ASSUME ModelIInv, [Models!Next]_(Models!vars)
  PROVE ModelIInv'
<1> USE DEF ModelIInv
<1>0. CASE UNCHANGED Models!vars
  BY <1>0 DEF Models!vars, ModelTypeOK, ModelSame, ModelCreated, ModelHeld,
      Models!KeyFollowsProfile, Models!Unlocked
<1>1. CASE Models!Create
  <2>1. PICK key \in Nat, vault \in Nat, request \in {"none", "create"} :
          /\ disk' = [disk EXCEPT !.vault = vault]
          /\ thread' = [thread EXCEPT !.request = request, !.key = key]
    <3>1. CASE \E key \in Secret : Models!VaultSet("create", key)
      <4>1. PICK key \in Secret : Models!VaultSet("create", key) BY <3>1
      <4>2. PICK vault \in {disk.vault, key} :
              /\ disk' = [disk EXCEPT !.vault = vault]
              /\ Models!Released \/ (vault = key /\ Models!Holds("create", key))
        BY <4>1 DEF Models!VaultSet
      <4>3. vault \in Nat /\ key \in Nat BY SecretAssumption DEF ModelTypeOK, ModelDisks
      <4>4. CASE Models!Released BY <4>2, <4>3, <4>4 DEF Models!Released, Models!Holds
      <4>5. CASE Models!Holds("create", key) BY <4>2, <4>3, <4>5 DEF Models!Holds
      <4>6. QED BY <4>2, <4>4, <4>5
    <3>2. CASE Models!Holds("create", 0) /\ UNCHANGED disk
      <4>1. disk.vault \in Nat /\ disk' = [disk EXCEPT !.vault = disk.vault]
        BY <3>2 DEF ModelTypeOK, ModelDisks
      <4>2. QED BY <3>2, <4>1 DEF Models!Holds
    <3>3. QED BY <1>1, <3>1, <3>2 DEF Models!Create
  <2>2. /\ memory' = memory /\ ~past.created /\ thread.request = "none"
        /\ thread'.request = request /\ disk'.vault = vault /\ disk'.profile = disk.profile
    BY <1>1, <2>1
        DEF Models!Create, Models!Requested, Models!Unlocked, ModelTypeOK, ModelDisks,
        ModelThreads
  <2>3. PICK left \in BOOLEAN : left = (request = "none" /\ vault > 0) BY Zenon
  <2>4. past' = [past EXCEPT !.changes = @ + 1, !.created = TRUE, !.leftover = left]
    BY <1>1, <2>2, <2>3 DEF Models!Create
  <2>5. ModelTypeOK'
    <3>1. disk' \in ModelDisks /\ thread' \in ModelThreads
      BY <2>1, ModelDiskTypes, ModelThreadTypes DEF ModelRequests
    <3>2. past' \in ModelPasts BY <2>4, ModelPastTypes, Zenon
    <3>3. QED BY <2>2, <3>1, <3>2 DEF ModelTypeOK
  <2>6. /\ past'.created = TRUE /\ past'.leftover = left
        /\ past'.deleted = past.deleted /\ past'.raced = past.raced
    BY <2>4 DEF ModelTypeOK, ModelPasts
  <2>7. ~past.deleted /\ ~memory.profile.exists
    BY <2>2 DEF ModelCreated, ModelTypeOK, ModelPasts
  <2>8. ModelSame' /\ ModelCreated' /\ ModelHeld'
    BY <2>1, <2>2, <2>6, <2>7 DEF ModelSame, ModelCreated, ModelHeld
  <2>9. Models!KeyFollowsProfile'
    <3>1. (~past.raced => memory.profile.hasApiKey = (memory.key > 0))'
      BY <2>2, <2>6 DEF Models!KeyFollowsProfile
    <3>2. (~disk.profile.exists /\ Models!Unlocked /\ ~past.leftover => disk.vault = 0)'
      <4> SUFFICES ASSUME request = "none", ~left PROVE vault = 0
        BY <2>2, <2>6 DEF Models!Unlocked
      <4>1. ~(vault > 0) BY <2>3
      <4>2. QED BY <4>1
    <3>3. QED BY <2>6, <2>7, <3>1, <3>2 DEF Models!KeyFollowsProfile
  <2>10. QED BY <2>5, <2>8, <2>9
<1>2. CASE Models!CreateSaves
  <2> DEFINE p == [exists |-> TRUE, hasApiKey |-> thread.key > 0, version |-> past.changes]
  <2>1. p \in ModelProfiles
    <3>1. PICK b \in BOOLEAN : b = (thread.key > 0)
      <4>1. thread.key \in Nat BY DEF ModelTypeOK, ModelThreads
      <4>2. QED BY <4>1, ModelPositive, Zenon
    <3>2. p = [exists |-> TRUE, hasApiKey |-> b, version |-> past.changes] BY <3>1, Zenon
    <3>3. past.changes \in Nat BY DEF ModelTypeOK, ModelPasts
    <3>4. QED BY <3>2, <3>3 DEF ModelProfiles
  <2>2. p.exists = TRUE /\ p.hasApiKey = (thread.key > 0) OBVIOUS
  <2> HIDE DEF p
  <2>3. /\ memory' = [profile |-> p, key |-> thread.key]
        /\ disk' = [disk EXCEPT !.profile = p]
        /\ thread' = [thread EXCEPT !.request = "none", !.key = 0]
        /\ past' = past /\ thread.request = "create"
    BY <1>2 DEF Models!CreateSaves, Models!Saves, Models!Released, Models!Holds, p
  <2>4. memory' \in ModelMemories BY <2>1, <2>3 DEF ModelTypeOK, ModelMemories, ModelThreads
  <2>5. disk' \in ModelDisks /\ thread' \in ModelThreads
    BY <2>1, <2>3, ModelDiskTypes, ModelThreadTypes DEF ModelRequests
  <2>6. /\ memory'.profile = p /\ disk'.profile = p /\ memory'.key = thread.key
        /\ thread'.request = "none"
    BY <2>3 DEF ModelTypeOK, ModelDisks, ModelThreads
  <2>7. ModelSame' /\ ModelCreated' /\ ModelHeld'
    BY <2>2, <2>3, <2>6 DEF ModelSame, ModelCreated, ModelHeld
  <2>8. Models!KeyFollowsProfile'
    BY <2>2, <2>3, <2>6 DEF Models!KeyFollowsProfile, ModelHeld
  <2>9. QED BY <2>3, <2>4, <2>5, <2>7, <2>8 DEF ModelTypeOK
<1>3. CASE Models!Update
  <2>1. PICK key \in Nat, vault \in Nat, request \in {"none", "key", "noKey", "other"} :
          /\ disk' = [disk EXCEPT !.vault = vault]
          /\ thread' = [thread EXCEPT !.request = request, !.key = key]
    <3>1. CASE \E key \in Secret : Models!VaultSet("key", key)
      <4>1. PICK key \in Secret : Models!VaultSet("key", key) BY <3>1
      <4>2. PICK vault \in {disk.vault, key} :
              /\ disk' = [disk EXCEPT !.vault = vault]
              /\ Models!Released \/ (vault = key /\ Models!Holds("key", key))
        BY <4>1 DEF Models!VaultSet
      <4>3. vault \in Nat /\ key \in Nat BY SecretAssumption DEF ModelTypeOK, ModelDisks
      <4>4. CASE Models!Released BY <4>2, <4>3, <4>4 DEF Models!Released, Models!Holds
      <4>5. CASE Models!Holds("key", key) BY <4>2, <4>3, <4>5 DEF Models!Holds
      <4>6. QED BY <4>2, <4>4, <4>5
    <3>2. CASE Models!VaultDelete("noKey")
      <4>1. PICK vault \in {disk.vault, 0} : disk' = [disk EXCEPT !.vault = vault]
        BY <3>2 DEF Models!VaultDelete
      <4>2. vault \in Nat BY DEF ModelTypeOK, ModelDisks
      <4>3. QED BY <3>2, <4>1, <4>2 DEF Models!VaultDelete, Models!Holds
    <3>3. CASE Models!Holds("other", 0) /\ UNCHANGED disk
      <4>1. disk.vault \in Nat /\ disk' = [disk EXCEPT !.vault = disk.vault]
        BY <3>3 DEF ModelTypeOK, ModelDisks
      <4>2. QED BY <3>3, <4>1 DEF Models!Holds
    <3>4. QED BY <1>3, <3>1, <3>2, <3>3 DEF Models!Update
  <2>2. /\ memory' = memory /\ memory.profile.exists
        /\ past' = [past EXCEPT !.changes = @ + 1]
        /\ thread'.request = request /\ disk'.profile = disk.profile
    BY <1>3, <2>1 DEF Models!Update, ModelTypeOK, ModelDisks, ModelThreads
  <2>3. disk' \in ModelDisks /\ thread' \in ModelThreads /\ past' \in ModelPasts
    <3>1. disk' \in ModelDisks /\ thread' \in ModelThreads
      BY <2>1, ModelDiskTypes, ModelThreadTypes DEF ModelRequests
    <3>2. past' \in ModelPasts BY <2>2 DEF ModelTypeOK, ModelPasts
    <3>3. QED BY <3>1, <3>2
  <2>4. /\ past'.created = past.created /\ past'.leftover = past.leftover
        /\ past'.deleted = past.deleted /\ past'.raced = past.raced
    BY <2>2 DEF ModelTypeOK, ModelPasts
  <2>5. ModelSame' /\ ModelCreated' /\ ModelHeld'
    BY <2>1, <2>2, <2>4 DEF ModelSame, ModelCreated, ModelHeld
  <2>6. Models!KeyFollowsProfile' BY <2>2, <2>4 DEF Models!KeyFollowsProfile, ModelSame
  <2>7. QED BY <2>2, <2>3, <2>5, <2>6 DEF ModelTypeOK
<1>4. CASE Models!UpdateSaves
  <2>1. PICK key \in Nat : key = IF thread.request = "other" THEN memory.key ELSE thread.key
    BY DEF ModelTypeOK, ModelMemories, ModelThreads
  <2>2. PICK b \in BOOLEAN :
          b = IF thread.request = "other" THEN memory.profile.hasApiKey ELSE thread.key > 0
    <3>1. memory.profile.hasApiKey \in BOOLEAN
      BY DEF ModelTypeOK, ModelMemories, ModelProfiles
    <3>2. CASE thread.request = "other" BY <3>1, <3>2
    <3>3. CASE thread.request # "other"
      <4>1. thread.key \in Nat BY DEF ModelTypeOK, ModelThreads
      <4>2. PICK c \in BOOLEAN : c = (thread.key > 0) BY <4>1, ModelPositive, Zenon
      <4>3. QED BY <3>3, <4>2, Zenon
    <3>4. QED BY <3>2, <3>3
  <2> DEFINE p == [memory.profile EXCEPT !.hasApiKey = b, !.version = past.changes]
  <2>3. p \in ModelProfiles /\ p.exists = memory.profile.exists /\ p.hasApiKey = b
    BY DEF ModelTypeOK, ModelMemories, ModelProfiles, ModelPasts
  <2>4. Models!Updated = p BY <2>2, Zenon DEF Models!Updated
  <2> HIDE DEF p
  <2>5. /\ memory' = [profile |-> p, key |-> key]
        /\ disk' = [disk EXCEPT !.profile = p]
        /\ thread' = [thread EXCEPT !.request = "none", !.key = 0]
        /\ past' = past /\ thread.request \in {"key", "noKey", "other"}
    BY <1>4, <2>1, <2>4 DEF Models!UpdateSaves, Models!Saves, Models!Released, Models!Holds
  <2>6. memory' \in ModelMemories BY <2>1, <2>3, <2>5 DEF ModelMemories
  <2>7. disk' \in ModelDisks /\ thread' \in ModelThreads
    BY <2>3, <2>5, ModelDiskTypes, ModelThreadTypes DEF ModelRequests
  <2>8. /\ memory'.profile = p /\ disk'.profile = p /\ memory'.key = key
        /\ thread'.request = "none"
    BY <2>5 DEF ModelTypeOK, ModelDisks, ModelThreads
  <2>9. ModelSame' /\ ModelCreated' /\ ModelHeld'
    BY <2>3, <2>5, <2>8 DEF ModelSame, ModelCreated, ModelHeld
  <2>10. ~past.raced => b = (key > 0)
    <3>1. CASE thread.request = "other" BY <2>1, <2>2, <3>1 DEF Models!KeyFollowsProfile
    <3>2. CASE thread.request # "other" BY <2>1, <2>2, <3>2
    <3>3. QED BY <3>1, <3>2
  <2>11. memory.profile.exists BY <2>5 DEF ModelHeld
  <2>12. Models!KeyFollowsProfile'
    BY <2>3, <2>5, <2>8, <2>10, <2>11 DEF Models!KeyFollowsProfile
  <2>13. QED BY <2>5, <2>6, <2>7, <2>9, <2>12 DEF ModelTypeOK
<1>5. CASE Models!Delete
  <2>1. PICK vault \in Nat : disk' = [disk EXCEPT !.vault = vault]
    BY <1>5 DEF Models!Delete, Models!VaultDelete, ModelTypeOK, ModelDisks
  <2>2. PICK left \in BOOLEAN : left = (vault > 0) BY ModelPositive, Zenon
  <2>3. /\ memory' = memory /\ memory.profile.exists /\ thread.request = "none"
        /\ disk'.vault = vault /\ disk'.profile = disk.profile
        /\ thread' = [thread EXCEPT !.request = "delete", !.key = 0]
    BY <1>5, <2>1
        DEF Models!Delete, Models!VaultDelete, Models!Holds, Models!Requested,
        Models!Unlocked, ModelTypeOK, ModelDisks
  <2>4. past' = [past EXCEPT !.changes = @ + 1, !.leftover = left]
    BY <1>5, <2>2, <2>3 DEF Models!Delete
  <2>5. /\ past'.created = past.created /\ past'.leftover = left
        /\ past'.deleted = past.deleted /\ past'.raced = past.raced
        /\ thread'.request = "delete"
    BY <2>3, <2>4 DEF ModelTypeOK, ModelPasts, ModelThreads
  <2>6. ModelTypeOK'
    <3>1. disk' \in ModelDisks /\ thread' \in ModelThreads
      BY <2>1, <2>3, ModelDiskTypes, ModelThreadTypes DEF ModelRequests
    <3>2. past' \in ModelPasts BY <2>4, ModelPastTypes, Zenon
    <3>3. QED BY <2>3, <3>1, <3>2 DEF ModelTypeOK
  <2>7. ModelSame' /\ ModelCreated' BY <2>3, <2>5 DEF ModelSame, ModelCreated
  <2>8. ModelHeld'
    <3>1. ~left => ~(vault > 0) BY <2>2, Zenon
    <3>2. ~left => vault = 0 BY <3>1
    <3>3. QED BY <2>3, <2>5, <3>2 DEF ModelHeld
  <2>9. Models!KeyFollowsProfile'
    BY <2>3, <2>5 DEF Models!KeyFollowsProfile, ModelSame, Models!Unlocked
  <2>10. QED BY <2>6, <2>7, <2>8, <2>9
<1>6. CASE Models!DeleteSaves
  <2>1. /\ memory' = [profile |-> Models!NoProfile, key |-> 0]
        /\ disk' = [disk EXCEPT !.profile = Models!NoProfile]
        /\ thread' = [thread EXCEPT !.request = "none", !.key = 0]
        /\ past' = [past EXCEPT !.deleted = TRUE, !.raced = FALSE]
        /\ thread.request = "delete"
    BY <1>6 DEF Models!DeleteSaves, Models!Saves, Models!Released, Models!Holds
  <2>2. /\ Models!NoProfile \in ModelProfiles
        /\ Models!NoProfile.exists = FALSE /\ Models!NoProfile.hasApiKey = FALSE
    BY DEF Models!NoProfile, ModelProfiles
  <2>3. /\ memory'.profile = Models!NoProfile /\ memory'.key = 0 /\ disk'.profile = Models!NoProfile
        /\ disk'.vault = disk.vault /\ thread'.request = "none"
    BY <2>1 DEF ModelTypeOK, ModelDisks, ModelThreads
  <2>4. /\ past'.created = past.created /\ past'.leftover = past.leftover
        /\ past'.deleted = TRUE /\ past'.raced = FALSE
    BY <2>1 DEF ModelTypeOK, ModelPasts
  <2>5. ModelTypeOK'
    <3>1. disk' \in ModelDisks /\ thread' \in ModelThreads
      BY <2>1, <2>2, ModelDiskTypes, ModelThreadTypes DEF ModelRequests
    <3>2. past' \in ModelPasts /\ memory' \in ModelMemories
      BY <2>1, <2>2 DEF ModelTypeOK, ModelPasts, ModelMemories
    <3>3. QED BY <3>1, <3>2 DEF ModelTypeOK
  <2>6. ModelSame' /\ ModelCreated' /\ ModelHeld'
    BY <2>1, <2>2, <2>3, <2>4 DEF ModelSame, ModelCreated, ModelHeld
  <2>7. (memory.key > 0)' = FALSE BY <2>3
  <2>8. Models!KeyFollowsProfile'
    BY <2>1, <2>2, <2>3, <2>4, <2>7 DEF Models!KeyFollowsProfile, ModelHeld
  <2>9. QED BY <2>5, <2>6, <2>8
<1>7. CASE Models!CheckReads
  BY <1>7 DEF Models!CheckReads, ModelTypeOK, ModelMemories, ModelThreads, ModelSame,
      ModelCreated, ModelHeld, Models!KeyFollowsProfile,
              Models!Unlocked, ModelProfiles
<1>8. CASE Models!CheckSaves
  <2>1. /\ memory' = [profile |-> thread.check, key |-> memory.key]
        /\ disk' = [disk EXCEPT !.profile = thread.check]
        /\ thread' = [thread EXCEPT !.check = Models!NoProfile]
        /\ thread.check.exists /\ thread.request = "none"
    BY <1>8 DEF Models!CheckSaves, Models!Saves, Models!Unlocked
  <2>2. PICK b \in BOOLEAN : b = (past.raced \/ thread.check # memory.profile) BY Zenon
  <2>3. past' = [past EXCEPT !.raced = b] BY <1>8, <2>2 DEF Models!CheckSaves
  <2>4. /\ memory'.profile = thread.check /\ memory'.key = memory.key
        /\ disk'.profile = thread.check /\ thread'.request = "none" /\ disk'.vault = disk.vault
    BY <2>1 DEF ModelTypeOK, ModelDisks, ModelThreads
  <2>5. /\ past'.created = past.created /\ past'.leftover = past.leftover
        /\ past'.deleted = past.deleted /\ past'.raced = b
    BY <2>3 DEF ModelTypeOK, ModelPasts
  <2>6. ModelTypeOK'
    <3>1. Models!NoProfile \in ModelProfiles BY DEF Models!NoProfile, ModelProfiles
    <3>2. thread.check \in ModelProfiles BY DEF ModelTypeOK, ModelThreads
    <3>3. disk' \in ModelDisks BY <2>1, <3>2, ModelDiskTypes
    <3>4. memory' \in ModelMemories BY <2>1, <3>2 DEF ModelTypeOK, ModelMemories
    <3>5. thread' \in ModelThreads BY <2>1, <3>1 DEF ModelTypeOK, ModelThreads
    <3>6. past' \in ModelPasts BY <2>3 DEF ModelTypeOK, ModelPasts
    <3>7. QED BY <3>3, <3>4, <3>5, <3>6 DEF ModelTypeOK
  <2>7. past.created BY <2>1 DEF ModelCreated
  <2>8. ModelSame' /\ ModelCreated' /\ ModelHeld'
    BY <2>1, <2>4, <2>5, <2>7 DEF ModelSame, ModelCreated, ModelHeld
  <2>9. Models!KeyFollowsProfile'
    <3>1. CASE b BY <2>1, <2>4, <2>5, <3>1 DEF Models!KeyFollowsProfile
    <3>2. CASE ~b
      <4>1. ~past.raced /\ thread.check = memory.profile BY <2>2, <3>2
      <4>2. QED BY <2>1, <2>4, <2>5, <4>1 DEF Models!KeyFollowsProfile
    <3>3. QED BY <3>1, <3>2
  <2>10. QED BY <2>6, <2>8, <2>9
<1>9. CASE Models!Restart
  <2>1. PICK key \in {0, disk.vault} : memory' = Models!Hydrated(key)
    BY <1>9 DEF Models!Restart
  <2>2. PICK b \in BOOLEAN : b = (disk.profile.exists /\ key > 0) BY Zenon
  <2>3. key \in Nat /\ disk.profile \in ModelProfiles BY DEF ModelTypeOK, ModelDisks
  <2> DEFINE p == [disk.profile EXCEPT !.hasApiKey = b]
             k == IF disk.profile.exists THEN key ELSE 0
  <2>4. memory' = [profile |-> p, key |-> k] BY <2>1, <2>2, Zenon DEF Models!Hydrated
  <2>5. p \in ModelProfiles /\ p.exists = disk.profile.exists /\ p.hasApiKey = b
    BY <2>3 DEF ModelProfiles
  <2>6. k \in Nat /\ b = (k > 0)
    <3>1. CASE disk.profile.exists BY <2>2, <2>3, <3>1
    <3>2. CASE ~disk.profile.exists BY <2>2, <2>3, <3>2
    <3>3. QED BY <3>1, <3>2
  <2> HIDE DEF p, k
  <2>7. PICK raced \in BOOLEAN : raced = (past.deleted /\ disk.profile.exists) BY Zenon
  <2>8. PICK left \in BOOLEAN : left = (past.leftover \/ thread.request = "create") BY Zenon
  <2>9. past' = [past EXCEPT !.restarts = @ + 1, !.raced = raced, !.leftover = left]
    BY <1>9, <2>7, <2>8 DEF Models!Restart
  <2>10. disk' = disk /\ thread' = Models!NoRequest BY <1>9 DEF Models!Restart
  <2>11. /\ past'.created = past.created /\ past'.leftover = left
         /\ past'.deleted = past.deleted /\ past'.raced = raced
         /\ memory'.profile = p /\ memory'.key = k /\ thread'.request = "none"
    BY <2>4, <2>9, <2>10 DEF ModelTypeOK, ModelPasts, Models!NoRequest
  <2>12. ModelTypeOK'
    <3>1. memory' \in ModelMemories BY <2>4, <2>5, <2>6 DEF ModelMemories
    <3>2. thread' \in ModelThreads
      BY <2>10 DEF Models!NoRequest, Models!NoProfile, ModelThreads, ModelRequests,
          ModelProfiles
    <3>3. past' \in ModelPasts BY <2>9, ModelPastTypes, Zenon
    <3>4. QED BY <2>10, <3>1, <3>2, <3>3 DEF ModelTypeOK
  <2>13. ModelSame' /\ ModelCreated' /\ ModelHeld'
    BY <2>5, <2>10, <2>11
        DEF ModelSame, ModelCreated, ModelHeld, Models!NoRequest, Models!NoProfile
  <2>14. Models!KeyFollowsProfile'
    <3>1. (~past.raced => memory.profile.hasApiKey = (memory.key > 0))'
      BY <2>5, <2>6, <2>11
    <3>2. (past.deleted /\ ~past.raced => ~memory.profile.exists /\ ~disk.profile.exists)'
      BY <2>5, <2>7, <2>10, <2>11
    <3>3. (~disk.profile.exists /\ Models!Unlocked /\ ~past.leftover => disk.vault = 0)'
      <4> SUFFICES ASSUME ~disk.profile.exists, ~left PROVE disk.vault = 0
        BY <2>10, <2>11
      <4>1. ~past.leftover /\ thread.request # "create" BY <2>8
      <4>2. thread.request = "none"
        BY <4>1 DEF ModelHeld, ModelSame, ModelTypeOK, ModelThreads, ModelRequests
      <4>3. QED BY <4>1, <4>2 DEF Models!KeyFollowsProfile, Models!Unlocked
    <3>4. QED BY <3>1, <3>2, <3>3 DEF Models!KeyFollowsProfile
  <2>15. QED BY <2>12, <2>13, <2>14
<1>10. QED
  BY <1>0, <1>1, <1>2, <1>3, <1>4, <1>5, <1>6, <1>7, <1>8, <1>9 DEF Models!Next

\* The invariant of a model's profile holds when models are looked at.
ModelInv == service = "models" => ModelIInv

LEMMA ModelInvariant == Spec => []ModelInv
<1>1. Init => ModelInv BY AgentInits, ModelInitIInv DEF ModelInv
<1>2. ModelInv /\ [Next]_vars => ModelInv' BY AgentSteps, ModelNextIInv DEF ModelInv
<1>3. QED BY <1>1, <1>2, PTL DEF Spec

\* A profile and its key go together (registry.py), whatever requests, failures
\* of the vault, health checks and restarts do, except where KeyFollowsProfile
\* says so.
THEOREM KeyFollows == Spec => []KeyFollowsProfile
<1>1. ModelInv => KeyFollowsProfile BY DEF ModelInv, ModelIInv, KeyFollowsProfile
<1>2. QED BY <1>1, ModelInvariant, PTL

-----------------------------------------------------------------------------
(* The events of the workflows.                                            *)

PlanNodes == {"idle", "plan", "execute", "fail", "reduce", "respond", "ended"}
PlanTypes ==
    {"workflow_started", "plan_created", "step_started", "step_completed", "step_failed",
     "workflow_failed", "workflow_completed", "review_completed", "reduce_completed"}
PlanEvents == [trace : Actor, type : PlanTypes]

PlanShape ==
    /\ memory \in Seq(PlanEvents) /\ disk = memory
    /\ DOMAIN thread = Actor
    /\ \A t \in Actor :
         /\ DOMAIN thread[t] = {"node", "plan", "completed", "notOk", "ready", "running"}
         /\ thread[t].node \in PlanNodes
    /\ DOMAIN past = {"restarts", "outcome", "silent"}
    /\ past.outcome \in [Actor -> {"none", "complete", "error"}]

\* A workflow runs a step when it executes, and one that is ready and not completed.
PlanRuns(t) ==
    /\ thread[t].running => Plans!At(t, "execute") /\ thread[t].ready # {}
    /\ thread[t].ready \subseteq thread[t].plan.steps \ thread[t].completed
    /\ thread[t].node \in {"idle", "plan"} => thread[t].ready = {}

\* A workflow has its outcome when it has ended.
PlanEnds ==
    \A t \in Actor :
        /\ past.outcome[t] = "none" <=> ~Plans!At(t, "ended")
        /\ t \in past.silent => past.outcome[t] = "error"
        /\ PlanRuns(t)

\* The list has an event of this type of a workflow as long as it has any of it.
PlanLasts(t, type) ==
    \A i \in DOMAIN memory : memory[i].trace = t =>
        \E j \in DOMAIN memory : i =< j /\ memory[j].trace = t /\ memory[j].type = type
PlanNever(t, types) == \A i \in DOMAIN memory : memory[i].trace = t => memory[i].type \notin types

\* What the list says of a workflow.
PlanSaysOf(t) ==
    /\ Plans!At(t, "fail") =>
         /\ PlanLasts(t, "step_failed")
         /\ PlanNever(t, {"workflow_failed", "workflow_completed"})
    /\ ~Plans!At(t, "fail") /\ (past.outcome[t] = "none" \/ t \in past.silent) =>
         PlanNever(t, {"workflow_failed", "workflow_completed", "step_failed"})
    /\ past.outcome[t] = "complete" =>
         PlanLasts(t, "workflow_completed") /\ PlanNever(t, {"workflow_failed"})
    /\ past.outcome[t] = "error" /\ t \notin past.silent =>
         \/ PlanLasts(t, "workflow_failed")
         \/ /\ PlanLasts(t, "step_failed")
            /\ PlanNever(t, {"workflow_failed", "workflow_completed"})
PlanSays == \A t \in Actor : PlanSaysOf(t)

PlanIInv == PlanShape /\ PlanEnds /\ PlanSays

\* What record leaves of the list: its end, and the event.
LEMMA PlanRecords ==
    ASSUME PlanShape, NEW t \in Actor, NEW type \in PlanTypes, Plans!Records(t, type)
    PROVE  /\ memory' \in Seq(PlanEvents) /\ disk' = memory'
           /\ \E k \in 0..Len(memory) + 1 :
                /\ Len(memory') = Len(memory) + 1 - k
                /\ \A i \in 1..Len(memory') :
                     memory'[i] = IF i + k =< Len(memory) THEN memory[i + k]
                                  ELSE [trace |-> t, type |-> type]
<1> DEFINE event == [trace |-> t, type |-> type]
           list == Append(memory, event)
           k == IF Len(list) > Bound.events THEN Len(list) - Bound.events ELSE 0
<1>1. Bound.events \in Nat BY BoundAssumption
<1>2. memory \in Seq(PlanEvents) /\ event \in PlanEvents BY DEF PlanShape, PlanEvents
<1>3. /\ list \in Seq(PlanEvents) /\ Len(list) = Len(memory) + 1
      /\ \A i \in 1..Len(list) : list[i] = IF i =< Len(memory) THEN memory[i] ELSE event
  BY <1>2
<1>4. disk' = memory' /\ memory' = SubSeq(list, k + 1, Len(list))
  BY <1>1, <1>3 DEF Plans!Records, Plans!Newest
<1> HIDE DEF list
<1>5. k \in 0..Len(list) BY <1>1, <1>3
<1> HIDE DEF k
<1>6. /\ memory' \in Seq(PlanEvents) /\ Len(memory') = Len(list) - k
      /\ \A i \in 1..Len(memory') : memory'[i] = list[i + k]
  BY <1>3, <1>4, <1>5
<1>7. \A i \in 1..Len(memory') : memory'[i] = IF i + k =< Len(memory) THEN memory[i + k] ELSE event
  BY <1>3, <1>5, <1>6
<1>8. k \in 0..Len(memory) + 1 /\ Len(memory') = Len(memory) + 1 - k BY <1>3, <1>5, <1>6
<1> HIDE DEF event
<1>9. \E m \in 0..Len(memory) + 1 :
        /\ Len(memory') = Len(memory) + 1 - m
        /\ \A i \in 1..Len(memory') :
             memory'[i] = IF i + m =< Len(memory) THEN memory[i + m] ELSE event
  BY <1>7, <1>8
<1>10. QED BY <1>4, <1>6, <1>9 DEF event

\* What was never recorded of a workflow is not in the list, what was the last
\* of it still is, and what is recorded is the last.
LEMMA PlanKeeps ==
    ASSUME PlanShape, NEW t \in Actor, NEW type \in PlanTypes, Plans!Records(t, type),
           NEW u \in Actor
    PROVE  /\ \A types \in SUBSET PlanTypes :
                PlanNever(u, types) /\ (u # t \/ type \notin types) => PlanNever(u, types)'
           /\ \A other \in PlanTypes : u # t /\ PlanLasts(u, other) => PlanLasts(u, other)'
           /\ PlanLasts(t, type)'
<1> DEFINE event == [trace |-> t, type |-> type]
<1>1. memory' \in Seq(PlanEvents) BY PlanRecords
<1>2. PICK k \in 0..Len(memory) + 1 :
        /\ Len(memory') = Len(memory) + 1 - k
        /\ \A i \in 1..Len(memory') :
             memory'[i] = IF i + k =< Len(memory) THEN memory[i + k] ELSE event
  BY PlanRecords
<1>3. memory \in Seq(PlanEvents) BY DEF PlanShape
<1>4. DOMAIN memory = 1..Len(memory) /\ DOMAIN memory' = 1..Len(memory') BY <1>1, <1>3
<1>5. Len(memory) \in Nat BY <1>3
<1>6. \A i \in DOMAIN memory' :
        \/ i + k \in DOMAIN memory /\ memory'[i] = memory[i + k]
        \/ i + k = Len(memory) + 1 /\ memory'[i] = event
  BY <1>2, <1>4, <1>5
<1>7. ASSUME NEW types \in SUBSET PlanTypes, PlanNever(u, types), u # t \/ type \notin types
      PROVE  PlanNever(u, types)'
  BY <1>6, <1>7 DEF PlanNever
<1>8. ASSUME NEW other \in PlanTypes, u # t, PlanLasts(u, other) PROVE PlanLasts(u, other)'
  <2> SUFFICES ASSUME NEW i \in DOMAIN memory', memory'[i].trace = u
               PROVE  \E j \in DOMAIN memory' :
                        i =< j /\ memory'[j].trace = u /\ memory'[j].type = other
    BY DEF PlanLasts
  <2>1. i + k \in DOMAIN memory /\ memory'[i] = memory[i + k] BY <1>6, <1>8
  <2>2. PICK m \in DOMAIN memory : i + k =< m /\ memory[m].trace = u /\ memory[m].type = other
    BY <1>8, <2>1 DEF PlanLasts
  <2>3. m - k \in DOMAIN memory' /\ i =< m - k BY <1>2, <1>4, <1>5, <2>2
  <2>4. memory'[m - k] = memory[m] BY <1>2, <1>4, <1>5, <2>2, <2>3
  <2>5. QED BY <2>2, <2>3, <2>4
<1>9. PlanLasts(t, type)'
  <2> SUFFICES ASSUME NEW i \in DOMAIN memory', memory'[i].trace = t
               PROVE  \E j \in DOMAIN memory' :
                        i =< j /\ memory'[j].trace = t /\ memory'[j].type = type
    BY DEF PlanLasts
  <2>1. Len(memory') \in DOMAIN memory' /\ i =< Len(memory') BY <1>1, <1>4
  <2>2. memory'[Len(memory')] = event BY <1>2, <1>4, <1>5, <2>1
  <2>3. QED BY <2>1, <2>2
<1>10. QED BY <1>7, <1>8, <1>9

\* The invariant holds initially.
LEMMA PlanInitIInv == Plans!Init => PlanIInv
<1> SUFFICES ASSUME Plans!Init PROVE PlanIInv OBVIOUS
<1>1. PlanShape BY DEF Plans!Init, Plans!Free, PlanShape, PlanNodes
<1>2. memory = <<>> /\ DOMAIN memory = {} BY DEF Plans!Init
<1>3. \A t \in Actor : /\ thread[t].node = "idle" /\ ~thread[t].running /\ thread[t].ready = {}
                       /\ past.outcome[t] = "none" /\ t \notin past.silent
  BY DEF Plans!Init, Plans!Free
<1>4. PlanEnds BY <1>3 DEF PlanEnds, PlanRuns, Plans!At
<1>5. PlanSays BY <1>2, <1>3 DEF PlanSays, PlanSaysOf, Plans!At, PlanNever
<1>6. QED BY <1>1, <1>4, <1>5 DEF PlanIInv

\* What a step of a workflow changes: its node, and its outcome once.
PlanStep(t) ==
    /\ ~Plans!At(t, "ended")
    /\ DOMAIN thread' = Actor /\ \A u \in Actor \ {t} : thread'[u] = thread[u]
    /\ DOMAIN thread'[t] = {"node", "plan", "completed", "notOk", "ready", "running"}
    /\ thread'[t].node \in PlanNodes
    /\ PlanRuns(t)'
    /\ DOMAIN past' = {"restarts", "outcome", "silent"}
    /\ past'.outcome \in [Actor -> {"none", "complete", "error"}]
    /\ \A u \in Actor \ {t} :
         /\ past'.outcome[u] = past.outcome[u]
         /\ u \in past'.silent <=> u \in past.silent
    /\ past'.outcome[t] = "none" <=> thread'[t].node # "ended"
    /\ t \in past'.silent => past'.outcome[t] = "error"

LEMMA PlanStepKeeps ==
    ASSUME PlanIInv, NEW t \in Actor, PlanStep(t),
           memory' \in Seq(PlanEvents) /\ disk' = memory'
    PROVE  PlanShape' /\ PlanEnds'
<1>1. PlanShape' BY DEF PlanIInv, PlanShape, PlanStep
<1>2. ASSUME NEW u \in Actor
      PROVE  /\ past'.outcome[u] = "none" <=> thread'[u].node # "ended"
             /\ u \in past'.silent => past'.outcome[u] = "error"
             /\ PlanRuns(u)'
  <2>1. CASE u = t BY <2>1 DEF PlanStep
  <2>2. CASE u # t BY <2>2 DEF PlanStep, PlanIInv, PlanEnds, PlanRuns, Plans!At
  <2>3. QED BY <2>1, <2>2
<1>3. QED BY <1>1, <1>2 DEF PlanEnds, Plans!At

\* A step that says nothing does not end its workflow, or ends it silently.
LEMMA PlanQuietly ==
    ASSUME PlanIInv, NEW t \in Actor, PlanStep(t), Plans!Quietly,
           ~Plans!At(t, "fail"), thread'[t].node # "fail",
           past'.outcome[t] = "none" \/ t \in past'.silent
    PROVE  PlanIInv'
<1>1. memory' = memory /\ disk' = disk BY DEF Plans!Quietly
<1>2. PlanShape' /\ PlanEnds' BY <1>1, PlanStepKeeps DEF PlanIInv, PlanShape
<1>3. past.outcome[t] = "none" /\ t \notin past.silent
  BY DEF PlanIInv, PlanEnds, PlanStep, Plans!At
<1>4. ASSUME NEW u \in Actor PROVE PlanSaysOf(u)'
  <2>1. PlanSaysOf(u) BY DEF PlanIInv, PlanSays
  <2>2. CASE u = t
    <3>1. PlanNever(t, {"workflow_failed", "workflow_completed", "step_failed"})
      BY <1>3, <2>1, <2>2 DEF PlanSaysOf
    <3>2. t \in past'.silent => past'.outcome[t] = "error" BY DEF PlanStep
    <3>3. QED BY <1>1, <2>2, <3>1, <3>2 DEF PlanSaysOf, PlanNever, Plans!At
  <2>3. CASE u # t
    <3>1. /\ thread'[u] = thread[u] /\ past'.outcome[u] = past.outcome[u]
          /\ u \in past'.silent <=> u \in past.silent
      BY <2>3 DEF PlanStep
    <3>2. QED BY <1>1, <2>1, <3>1 DEF PlanSaysOf, PlanNever, PlanLasts, Plans!At
  <2>4. QED BY <2>2, <2>3
<1>5. QED BY <1>2, <1>4 DEF PlanIInv, PlanSays

\* A step that is recorded says how its workflow fails or ends, if it does.
LEMMA PlanTells ==
    ASSUME PlanIInv, NEW t \in Actor, NEW type \in PlanTypes, PlanStep(t),
           Plans!Records(t, type), t \notin past'.silent,
           \/ /\ type \notin {"workflow_failed", "workflow_completed", "step_failed"}
              /\ ~Plans!At(t, "fail") /\ thread'[t].node # "fail" /\ past'.outcome[t] = "none"
           \/ /\ type = "step_failed"
              /\ ~Plans!At(t, "fail") /\ thread'[t].node = "fail" /\ past'.outcome[t] = "none"
           \/ /\ type = "workflow_failed"
              /\ thread'[t].node = "ended" /\ past'.outcome[t] = "error"
           \/ /\ type = "workflow_completed" /\ ~Plans!At(t, "fail")
              /\ thread'[t].node = "ended" /\ past'.outcome[t] = "complete"
    PROVE  PlanIInv'
<1>1. PlanShape BY DEF PlanIInv
<1>2. PlanShape' /\ PlanEnds' BY <1>1, PlanRecords, PlanStepKeeps
<1>3. past.outcome[t] = "none" /\ t \notin past.silent
  BY DEF PlanIInv, PlanEnds, PlanStep, Plans!At
<1>4. ASSUME NEW u \in Actor PROVE PlanSaysOf(u)'
  <2>1. PlanSaysOf(u) BY DEF PlanIInv, PlanSays
  <2>2. /\ \A types \in SUBSET PlanTypes :
             PlanNever(u, types) /\ (u # t \/ type \notin types) => PlanNever(u, types)'
        /\ \A other \in PlanTypes : u # t /\ PlanLasts(u, other) => PlanLasts(u, other)'
        /\ PlanLasts(t, type)'
    BY <1>1, PlanKeeps
  <2> DEFINE all == {"workflow_failed", "workflow_completed", "step_failed"}
             both == {"workflow_failed", "workflow_completed"}
             one == {"workflow_failed"}
  <2>3. /\ PlanNever(u, all) /\ (u # t \/ type \notin all) => PlanNever(u, all)'
        /\ PlanNever(u, both) /\ (u # t \/ type \notin both) => PlanNever(u, both)'
        /\ PlanNever(u, one) /\ (u # t \/ type \notin one) => PlanNever(u, one)'
    <3>1. all \in SUBSET PlanTypes /\ both \in SUBSET PlanTypes /\ one \in SUBSET PlanTypes
      BY DEF PlanTypes
    <3> HIDE DEF all, both, one
    <3>2. QED BY <2>2, <3>1
  <2>4. PlanNever(u, all) => PlanNever(u, both) /\ PlanNever(u, one) BY DEF PlanNever
  <2>5. CASE u = t
    <3>1. IF Plans!At(t, "fail")
          THEN PlanNever(t, both) ELSE PlanNever(t, all)
      BY <1>3, <2>1, <2>5 DEF PlanSaysOf
    <3> HIDE DEF all, both, one
    <3>2. /\ type \notin all /\ PlanNever(t, all) => PlanNever(t, all)'
          /\ type \notin both /\ PlanNever(t, both) => PlanNever(t, both)'
          /\ type \notin one /\ PlanNever(t, one) => PlanNever(t, one)'
          /\ PlanNever(t, all) => PlanNever(t, both) /\ PlanNever(t, one)
      BY <2>3, <2>4, <2>5
    <3> USE DEF all, both, one
    <3>3. QED BY <2>2, <2>5, <3>1, <3>2 DEF PlanSaysOf, Plans!At
  <2>6. CASE u # t
    <3>1. /\ thread'[u] = thread[u] /\ past'.outcome[u] = past.outcome[u]
          /\ u \in past'.silent <=> u \in past.silent
      BY <2>6 DEF PlanStep
    <3>2. \A other \in {"workflow_failed", "workflow_completed", "step_failed"} :
            PlanLasts(u, other) => PlanLasts(u, other)'
      BY <2>2, <2>6 DEF PlanTypes
    <3>3. QED BY <2>1, <2>3, <2>6, <3>1, <3>2 DEF PlanSaysOf, Plans!At
  <2>7. QED BY <2>5, <2>6
<1>5. QED BY <1>2, <1>4 DEF PlanIInv, PlanSays

LEMMA PlanNextIInv == ASSUME PlanIInv, [Plans!Next]_(Plans!vars) PROVE PlanIInv'
<1> USE DEF Plans!At, Plans!Goes, PlanNodes
<1>0. /\ PlanShape /\ PlanEnds
      /\ \A t \in Actor : /\ past.outcome[t] = "none" <=> thread[t].node # "ended"
                          /\ t \in past.silent => past.outcome[t] = "error"
                          /\ PlanRuns(t)
                          /\ DOMAIN thread[t] =
                               {"node", "plan", "completed", "notOk", "ready", "running"}
  BY DEF PlanIInv, PlanEnds, PlanShape
<1>1. ASSUME NEW t \in Actor, Plans!WorkflowStarts(t) PROVE PlanIInv'
  <2>1. PlanStep(t) BY <1>0, <1>1 DEF PlanStep, PlanRuns, PlanShape, Plans!WorkflowStarts
  <2>2. Plans!Records(t, "workflow_started") BY <1>1 DEF Plans!WorkflowStarts
  <2>3. ~Plans!At(t, "fail") /\ thread'[t].node # "fail" /\ past'.outcome[t] = "none"
        /\ t \notin past'.silent
    BY <1>0, <1>1 DEF Plans!WorkflowStarts, PlanShape
  <2>4. QED BY <2>1, <2>2, <2>3, PlanTells DEF PlanTypes
<1>2. ASSUME NEW t \in Actor, Plans!Planned(t) PROVE PlanIInv'
  <2>1. PlanStep(t) BY <1>0, <1>2 DEF PlanStep, PlanRuns, PlanShape, Plans!Planned
  <2>2. Plans!Records(t, "plan_created") BY <1>2 DEF Plans!Planned
  <2>3. ~Plans!At(t, "fail") /\ thread'[t].node # "fail" /\ past'.outcome[t] = "none"
        /\ t \notin past'.silent
    BY <1>0, <1>2 DEF Plans!Planned, PlanShape
  <2>4. QED BY <2>1, <2>2, <2>3, PlanTells DEF PlanTypes
<1>3. ASSUME NEW t \in Actor, Plans!NotPlanned(t) \/ Plans!NoneReady(t) PROVE PlanIInv'
  <2>1. /\ thread' = [thread EXCEPT ![t].node = "ended"] /\ Plans!Quietly
        /\ past' = [past EXCEPT !.outcome[t] = "error", !.silent = @ \cup {t}]
        /\ thread[t].node \in {"plan", "execute"} /\ thread[t].ready = {}
    BY <1>0, <1>3 DEF PlanRuns, Plans!NotPlanned, Plans!NoneReady, Plans!Silently
  <2>2. PlanStep(t) BY <1>0, <2>1 DEF PlanStep, PlanRuns, PlanShape
  <2>3. thread'[t].node = "ended" /\ t \in past'.silent BY <1>0, <2>1 DEF PlanShape
  <2>4. QED BY <2>1, <2>2, <2>3, PlanQuietly
<1>4. ASSUME NEW t \in Actor, Plans!TakesReady(t) PROVE PlanIInv'
  <2>1. PlanStep(t) BY <1>0, <1>4 DEF PlanStep, PlanRuns, PlanShape, Plans!TakesReady, Plans!Ready,
      Plans!Pending
  <2>2. ~Plans!At(t, "fail") /\ thread'[t].node # "fail" /\ past'.outcome[t] = "none"
    BY <1>0, <1>4 DEF Plans!TakesReady, PlanShape
  <2>3. QED BY <1>4, <2>1, <2>2, PlanQuietly DEF Plans!TakesReady
<1>5. ASSUME NEW t \in Actor, Plans!StepStarts(t) PROVE PlanIInv'
  <2>1. PlanStep(t) BY <1>0, <1>5 DEF PlanStep, PlanRuns, PlanShape, Plans!StepStarts
  <2>2. Plans!Records(t, "step_started") BY <1>5 DEF Plans!StepStarts
  <2>3. ~Plans!At(t, "fail") /\ thread'[t].node # "fail" /\ past'.outcome[t] = "none"
        /\ t \notin past'.silent
    BY <1>0, <1>5 DEF Plans!StepStarts, PlanShape
  <2>4. QED BY <2>1, <2>2, <2>3, PlanTells DEF PlanTypes
<1>6. ASSUME NEW t \in Actor, NEW ok \in BOOLEAN, Plans!StepCompletes(t, ok) PROVE PlanIInv'
  <2>1. PlanStep(t) BY <1>0, <1>6 DEF PlanStep, PlanRuns, PlanShape, Plans!StepCompletes
  <2>2. Plans!Records(t, "step_completed") BY <1>6 DEF Plans!StepCompletes
  <2>3. ~Plans!At(t, "fail") /\ thread'[t].node # "fail" /\ past'.outcome[t] = "none"
        /\ t \notin past'.silent
    BY <1>0, <1>6 DEF Plans!StepCompletes, PlanRuns, PlanShape
  <2>4. QED BY <2>1, <2>2, <2>3, PlanTells DEF PlanTypes
<1>7. ASSUME NEW t \in Actor, Plans!StepFails(t) PROVE PlanIInv'
  <2>1. PlanStep(t) BY <1>0, <1>7 DEF PlanStep, PlanRuns, PlanShape, Plans!StepFails, Plans!Free
  <2>2. Plans!Records(t, "step_failed") BY <1>7 DEF Plans!StepFails
  <2>3. ~Plans!At(t, "fail") /\ thread'[t].node = "fail" /\ past'.outcome[t] = "none"
        /\ t \notin past'.silent
    BY <1>0, <1>7 DEF Plans!StepFails, Plans!Free, PlanRuns, PlanShape
  <2>4. QED BY <2>1, <2>2, <2>3, PlanTells DEF PlanTypes
<1>8. ASSUME NEW t \in Actor, Plans!WorkflowFails(t) PROVE PlanIInv'
  <2>1. PlanStep(t)
    BY <1>0, <1>8 DEF PlanStep, PlanRuns, PlanShape, Plans!WorkflowFails, Plans!Outcome
  <2>2. Plans!Records(t, "workflow_failed") BY <1>8 DEF Plans!WorkflowFails
  <2>3. thread'[t].node = "ended" /\ past'.outcome[t] = "error" /\ t \notin past'.silent
    BY <1>0, <1>8 DEF Plans!WorkflowFails, Plans!Outcome, PlanShape
  <2>4. QED BY <2>1, <2>2, <2>3, PlanTells DEF PlanTypes
<1>9. ASSUME NEW t \in Actor, Plans!Reviews(t) PROVE PlanIInv'
  <2>1. PlanStep(t) BY <1>0, <1>9 DEF PlanStep, PlanRuns, PlanShape, Plans!Reviews, Plans!Pending
  <2>2. Plans!Records(t, "review_completed") BY <1>9 DEF Plans!Reviews
  <2>3. ~Plans!At(t, "fail") /\ thread'[t].node # "fail" /\ past'.outcome[t] = "none"
        /\ t \notin past'.silent
    BY <1>0, <1>9 DEF Plans!Reviews, PlanShape
  <2>4. QED BY <2>1, <2>2, <2>3, PlanTells DEF PlanTypes
<1>10. ASSUME NEW t \in Actor, Plans!Reduces(t) PROVE PlanIInv'
  <2>1. PlanStep(t) BY <1>0, <1>10 DEF PlanStep, PlanRuns, PlanShape, Plans!Reduces
  <2>2. Plans!Records(t, "reduce_completed") BY <1>10 DEF Plans!Reduces
  <2>3. ~Plans!At(t, "fail") /\ thread'[t].node # "fail" /\ past'.outcome[t] = "none"
        /\ t \notin past'.silent
    BY <1>0, <1>10 DEF Plans!Reduces, PlanShape
  <2>4. QED BY <2>1, <2>2, <2>3, PlanTells DEF PlanTypes
<1>11. ASSUME NEW t \in Actor, Plans!Responds(t) PROVE PlanIInv'
  <2>1. PICK status \in {"error", "complete"} :
          /\ Plans!Records(t, IF status = "error" THEN "workflow_failed"
                              ELSE "workflow_completed")
          /\ Plans!Outcome(t, status) /\ Plans!Goes(t, "ended") /\ Plans!At(t, "respond")
    BY <1>11 DEF Plans!Responds
  <2>2. PlanStep(t) BY <1>0, <2>1 DEF PlanStep, PlanRuns, PlanShape, Plans!Outcome
  <2>3. thread'[t].node = "ended" /\ past'.outcome[t] = status /\ t \notin past'.silent
        /\ thread[t].node # "fail"
    BY <1>0, <2>1 DEF Plans!Outcome, PlanShape
  <2>4. CASE status = "error"
    <3>1. Plans!Records(t, "workflow_failed") BY <2>1, <2>4
    <3>2. QED BY <2>2, <2>3, <2>4, <3>1, PlanTells DEF PlanTypes
  <2>5. CASE status = "complete"
    <3>1. Plans!Records(t, "workflow_completed") BY <2>1, <2>5
    <3>2. QED BY <2>2, <2>3, <2>5, <3>1, PlanTells DEF PlanTypes
  <2>6. QED BY <2>4, <2>5
<1>12. CASE Plans!Restart
  <2> DEFINE cut == {t \in Actor : thread[t].node # "idle" /\ past.outcome[t] = "none"}
             silent == {t \in cut : thread[t].node # "fail"}
  <2>1. /\ memory' = memory /\ disk' = disk
        /\ thread' = [t \in Actor |-> IF t \in cut THEN [Plans!Free EXCEPT !.node = "ended"]
                                      ELSE thread[t]]
        /\ past' = [past EXCEPT !.restarts = @ + 1, !.silent = @ \cup silent,
                      !.outcome = [t \in Actor |-> IF t \in cut THEN "error" ELSE @[t]]]
    BY <1>0, <1>12 DEF Plans!Restart, PlanShape
  <2>2. /\ past'.outcome = [t \in Actor |-> IF t \in cut THEN "error" ELSE past.outcome[t]]
        /\ past'.silent = past.silent \cup silent
        /\ DOMAIN past' = {"restarts", "outcome", "silent"}
    BY <1>0, <2>1 DEF PlanShape
  <2>3. PlanShape' BY <1>0, <2>1, <2>2 DEF PlanRuns, PlanShape, Plans!Free
  <2>4. ASSUME NEW t \in Actor
        PROVE  /\ past'.outcome[t] = "none" <=> thread'[t].node # "ended"
               /\ t \in past'.silent => past'.outcome[t] = "error"
               /\ PlanRuns(t)'
               /\ PlanSaysOf(t)'
    <3>1. PlanSaysOf(t) BY DEF PlanIInv, PlanSays
    <3>2. CASE t \in cut
      <4>1. /\ thread'[t].node = "ended" /\ ~thread'[t].running /\ past'.outcome[t] = "error"
            /\ t \in past'.silent <=> thread[t].node # "fail"
            /\ past.outcome[t] = "none"
        BY <1>0, <2>1, <2>2, <3>2 DEF Plans!Free
      <4>2. PlanRuns(t)' BY <2>1, <3>2 DEF Plans!Free, PlanRuns
      <4>3. QED BY <2>1, <3>1, <4>1, <4>2 DEF PlanSaysOf, PlanNever, PlanLasts
    <3>3. CASE t \notin cut
      <4>1. /\ thread'[t] = thread[t] /\ past'.outcome[t] = past.outcome[t]
            /\ t \in past'.silent <=> t \in past.silent
        BY <2>1, <2>2, <3>3
      <4>2. QED BY <1>0, <2>1, <3>1, <4>1 DEF PlanRuns, PlanSaysOf, PlanNever, PlanLasts
    <3>4. QED BY <3>2, <3>3
  <2>5. QED BY <2>3, <2>4 DEF PlanIInv, PlanEnds, PlanSays
<1>13. CASE UNCHANGED Plans!vars
  BY <1>13 DEF Plans!vars, PlanIInv, PlanShape, PlanEnds, PlanRuns, PlanSays,
      PlanSaysOf, PlanNever, PlanLasts
<1>14. QED
  BY <1>1, <1>2, <1>3, <1>4, <1>5, <1>6, <1>7, <1>8, <1>9, <1>10, <1>11, <1>12, <1>13
  DEF Plans!Next

\* The invariant of the traces holds when workflows are looked at.
PlanInv == service = "plans" => PlanIInv

LEMMA PlanInvariant == Spec => []PlanInv
<1>1. Init => PlanInv BY AgentInits, PlanInitIInv DEF PlanInv
<1>2. PlanInv /\ [Next]_vars => PlanInv' BY AgentSteps, PlanNextIInv DEF PlanInv
<1>3. QED BY <1>1, <1>2, PTL DEF Spec

\* Whatever the list has forgotten of a workflow (event_store.py), and whichever
\* workflows and restarts there are, what it has left tells how the workflow
\* ended, or that it has not; but for those that ended without an event.
THEOREM TracesTell == Spec => []TracesAreHonest
<1>1. PlanIInv => Plans!TracesAreHonest
  <2> SUFFICES ASSUME PlanIInv, NEW t \in Actor, Plans!Types(t) # {}
               PROVE  Plans!TraceStatus(t) =
                        IF Plans!At(t, "fail") THEN "error"
                        ELSE IF past.outcome[t] = "none" \/ t \in past.silent
                        THEN "running" ELSE past.outcome[t]
    BY DEF Plans!TracesAreHonest
  <2> DEFINE mine == {j \in DOMAIN memory : memory[j].trace = t}
  <2>1. \A type : type \in Plans!Types(t) <=> \E i \in mine : memory[i].type = type
    BY DEF Plans!Types
  <2>2. PICK i \in mine : TRUE BY DEF Plans!Types
  <2>3. ASSUME NEW type, PlanLasts(t, type) PROVE type \in Plans!Types(t)
    BY <2>1, <2>2, <2>3 DEF PlanLasts
  <2>4. ASSUME NEW types, PlanNever(t, types) PROVE \A type \in types : type \notin Plans!Types(t)
    BY <2>1, <2>4 DEF PlanNever
  <2>5. /\ PlanSaysOf(t) /\ past.outcome[t] \in {"none", "complete", "error"}
        /\ t \in past.silent => past.outcome[t] = "error"
        /\ past.outcome[t] = "none" <=> ~Plans!At(t, "ended")
    BY DEF PlanIInv, PlanSays, PlanEnds, PlanShape
  <2> HIDE DEF mine
  <2>6. CASE Plans!At(t, "fail")
    BY <2>3, <2>4, <2>5, <2>6 DEF PlanSaysOf, Plans!TraceStatus
  <2>7. CASE ~Plans!At(t, "fail") /\ (past.outcome[t] = "none" \/ t \in past.silent)
    BY <2>3, <2>4, <2>5, <2>7 DEF PlanSaysOf, Plans!TraceStatus
  <2>8. CASE ~Plans!At(t, "fail") /\ past.outcome[t] = "complete"
    <3>1. "workflow_failed" \notin Plans!Types(t) /\ "workflow_completed" \in Plans!Types(t)
      BY <2>3, <2>4, <2>5, <2>8 DEF PlanSaysOf
    <3>2. QED BY <2>5, <2>8, <3>1 DEF Plans!TraceStatus
  <2>9. CASE ~Plans!At(t, "fail") /\ past.outcome[t] = "error" /\ t \notin past.silent
    <3>1. \/ "workflow_failed" \in Plans!Types(t)
          \/ /\ "step_failed" \in Plans!Types(t)
             /\ "workflow_completed" \notin Plans!Types(t)
      BY <2>3, <2>4, <2>5, <2>9 DEF PlanSaysOf
    <3>2. QED BY <2>5, <2>9, <3>1 DEF Plans!TraceStatus
  <2>10. QED BY <2>5, <2>6, <2>7, <2>8, <2>9
<1>2. PlanInv => TracesAreHonest BY <1>1 DEF PlanInv, TracesAreHonest
<1>3. QED BY PlanInvariant, <1>2, PTL

-----------------------------------------------------------------------------
(* The pipelines.                                                          *)

PipeSteps ==
    {"idle", "frontend", "again", "failed", "backend", "map", "graph", "stamp", "scenarios",
     "store", "contract", "build", "recommend", "journey", "complete"}
PipeFields ==
    {"step", "ask", "fe", "be", "map", "graph", "names", "todo", "scenario", "since", "alone"}

\* The steps that come after one; a result has come to the last.
PipeMapped ==
    {"graph", "stamp", "scenarios", "store", "contract", "build", "recommend", "journey",
     "complete"}
PipeDrawn == PipeMapped \ {"graph"}
PipeStamped == PipeDrawn \ {"stamp"}

PipeThread(t) ==
    /\ DOMAIN t = PipeFields /\ t.step \in PipeSteps
    /\ t.since \in Nat /\ t.since =< past.requests
    /\ t.step \in PipeDrawn => t.graph \in 1..past.ids
    /\ t.step \in PipeStamped \ {"scenarios"} => t.todo \subseteq t.names

PipeShape ==
    /\ DOMAIN memory =
         {"analyses", "maps", "graphs", "scenarios", "contracts", "recs", "journey"}
    /\ \A g \in memory.graphs : g.id \in 1..past.ids
    /\ DOMAIN past = {"requests", "ids", "results"}
    /\ past.requests \in Nat /\ past.ids \in Nat
    /\ DOMAIN thread = Actor
    /\ \A w \in Actor : PipeThread(thread[w])
    /\ \A r \in past.results : PipeThread(r)

\* Since a request that was alone nobody has asked for anything.
PipeUndisturbed(t) == t.alone /\ t.since = past.requests
PipeRests == \A w \in Actor : thread[w].step = "idle" => ~thread[w].alone
PipeAlone ==
    /\ \A w \in Actor : PipeUndisturbed(thread[w]) =>
         \A v \in Actor \ {w} : thread[v].step = "idle"
    /\ \A r \in past.results : PipeUndisturbed(r) => \A v \in Actor : thread[v].step = "idle"

\* A graph is of one request.
PipeApart ==
    \A w \in Actor : thread[w].step \in PipeDrawn =>
        /\ \A v \in Actor \ {w} :
             thread[v].step \in PipeDrawn => thread[v].graph # thread[w].graph
        /\ \A r \in past.results : r.graph # thread[w].graph

\* The cases that a request has stored, made a contract and recommended inputs of.
PipeStored(t) ==
    IF t.step = "store" THEN t.names \ t.todo
    ELSE IF t.step \in {"contract", "build", "recommend", "journey", "complete"} THEN t.names
    ELSE {}
PipeContracted(t) ==
    IF t.step \in {"contract", "build"} THEN t.names \ t.todo
    ELSE IF t.step \in {"recommend", "journey", "complete"} THEN t.names
    ELSE {}
PipeRecommended(t) ==
    IF t.step = "recommend" THEN t.names \ t.todo
    ELSE IF t.step \in {"journey", "complete"} THEN t.names
    ELSE {}

PipeGraph(t) ==
    [id |-> t.graph, fe |-> t.fe, be |-> t.be, map |-> t.map,
     service |-> IF t.step = "stamp" THEN "found" ELSE "asked"]
PipeScenario(t, case) == [case |-> case, graph |-> t.graph]
PipeWhole(t, case) == [case |-> case, graph |-> t.graph, fe |-> t.fe, be |-> t.be]
PipeAdvice(t, case) == [contract |-> PipeWhole(t, case), fe |-> t.fe, be |-> t.be]

\* What a request has made belongs together.
PipeMade(t) ==
    /\ t.step \in PipeMapped =>
         /\ \E a \in memory.analyses : a.id = t.fe /\ a.role = "frontend"
         /\ \E a \in memory.analyses : a.id = t.be /\ a.role = "backend"
         /\ [id |-> t.map, fe |-> t.fe, be |-> t.be] \in memory.maps
    /\ t.step \in PipeDrawn =>
         \A g \in memory.graphs : g.id = t.graph => g = PipeGraph(t)

\* And what it has stored is there when nobody has changed it.
PipeHas(t) ==
    /\ t.step = "build" =>
         t.scenario.case \in t.todo /\ t.scenario = PipeScenario(t, t.scenario.case)
    /\ \A case \in PipeStored(t) : PipeScenario(t, case) \in memory.scenarios
    /\ \A s \in memory.scenarios : s.case \in PipeStored(t) => s = PipeScenario(t, s.case)
    /\ \A case \in PipeContracted(t) : PipeWhole(t, case) \in memory.contracts
    /\ \A c \in memory.contracts :
         c.case \in PipeContracted(t) => c = PipeWhole(t, c.case)
    /\ \A case \in PipeRecommended(t) : PipeAdvice(t, case) \in memory.recs
PipeThere(t) ==
    PipeUndisturbed(t) =>
        /\ t.step \in PipeStamped => \E g \in memory.graphs : g.id = t.graph
        /\ PipeHas(t)

PipeIInv ==
    /\ PipeShape /\ PipeRests /\ PipeAlone /\ PipeApart
    /\ \A w \in Actor : PipeMade(thread[w]) /\ PipeThere(thread[w])
    /\ \A r \in past.results : r.step = "complete" /\ PipeMade(r) /\ PipeThere(r)

\* What a step of a request may change, besides the request itself.
PipeStep(w) ==
    /\ DOMAIN thread' = Actor /\ \A v \in Actor \ {w} : thread'[v] = thread[v]
    /\ PipeThread(thread[w])' /\ (thread'[w].step = "idle" => ~thread'[w].alone)
    /\ DOMAIN memory' = DOMAIN memory
    /\ DOMAIN past' = DOMAIN past /\ past'.ids \in Nat /\ past.ids =< past'.ids
    /\ \/ /\ past'.requests = past.requests /\ thread[w].step # "idle"
          /\ thread'[w].alone => thread[w].alone /\ thread'[w].since = thread[w].since
       \/ /\ past'.requests = past.requests + 1 /\ thread[w].step = "idle"
          /\ \/ ~thread'[w].alone
             \/ \A v \in Actor : thread[v].step = "idle"
    /\ memory.analyses \subseteq memory'.analyses /\ memory.maps \subseteq memory'.maps
    /\ \A g \in memory'.graphs :
         \/ g \in memory.graphs
         \/ g.id = past.ids + 1 /\ past'.ids = past.ids + 1
         \/ g.id = thread[w].graph /\ thread[w].step \in PipeDrawn
    /\ thread'[w].step \in PipeDrawn =>
         \/ thread'[w].graph = past.ids + 1
         \/ thread'[w].graph = thread[w].graph /\ thread[w].step \in PipeDrawn

\* Where nobody else was disturbed nobody else was at work.
LEMMA PipeOthers ==
    ASSUME PipeIInv, NEW w \in Actor, PipeStep(w), NEW t,
           t \in past.results \/ \E v \in Actor \ {w} : t = thread[v]
    PROVE  PipeMade(t)' /\ PipeThere(t)' /\ ~PipeUndisturbed(t)'
<1>1. PipeThread(t) /\ PipeMade(t) /\ PipeThere(t)
  BY DEF PipeIInv, PipeShape
<1>2. past.requests \in Nat /\ past.ids \in Nat /\ \A g \in memory.graphs : g.id \in 1..past.ids
  BY DEF PipeIInv, PipeShape
<1>3. ~(t.alone /\ t.since = past'.requests)
  <2>1. CASE past'.requests = past.requests + 1
    BY <1>1, <1>2, <2>1 DEF PipeThread
  <2>2. CASE past'.requests = past.requests /\ thread[w].step # "idle"
    BY <2>2 DEF PipeIInv, PipeAlone, PipeUndisturbed
  <2>3. QED BY <2>1, <2>2 DEF PipeStep
<1>4. ~PipeUndisturbed(t)' /\ PipeThere(t)' BY <1>3 DEF PipeUndisturbed, PipeThere
<1>5. ASSUME t.step \in PipeDrawn, NEW g \in memory'.graphs, g.id = t.graph
      PROVE  g = PipeGraph(t)
  <2>1. thread[w].step \in PipeDrawn => t.graph # thread[w].graph
    BY <1>5 DEF PipeIInv, PipeApart
  <2>2. t.graph \in 1..past.ids BY <1>1, <1>5 DEF PipeThread
  <2>3. g \in memory.graphs BY <1>2, <1>5, <2>1, <2>2 DEF PipeStep
  <2>4. QED BY <1>1, <1>5, <2>3 DEF PipeMade
<1>6. PipeMade(t)'
  <2>1. memory.analyses \subseteq memory'.analyses /\ memory.maps \subseteq memory'.maps
    BY DEF PipeStep
  <2>2. QED BY <1>1, <1>5, <2>1 DEF PipeMade, PipeGraph
<1>7. QED BY <1>4, <1>6

\* So a step keeps the invariant that keeps it for its request.
LEMMA PipeStepKeeps ==
    ASSUME PipeIInv, NEW w \in Actor, PipeStep(w), past'.results = past.results,
           PipeMade(thread[w])', PipeThere(thread[w])'
    PROVE  PipeIInv'
<1>1. PipeShape BY DEF PipeIInv
<1>2. past.requests \in Nat /\ past.ids \in Nat /\ past'.ids \in Nat /\ past.ids =< past'.ids
      /\ past'.requests \in Nat /\ past.requests =< past'.requests
  BY <1>1 DEF PipeShape, PipeStep
<1>3. ASSUME NEW t, PipeThread(t) PROVE PipeThread(t)'
  BY <1>2, <1>3 DEF PipeThread
<1>4. \A g \in memory'.graphs : g.id \in 1..past'.ids
  <2>1. thread[w].step \in PipeDrawn => thread[w].graph \in 1..past.ids
    BY <1>1 DEF PipeShape, PipeThread
  <2>2. QED BY <1>1, <1>2, <2>1 DEF PipeShape, PipeStep
<1>5. ASSUME NEW v \in Actor \ {w} PROVE PipeThread(thread[v])' /\ thread'[v] = thread[v]
  <2>1. thread'[v] = thread[v] BY DEF PipeStep
  <2>2. PipeThread(thread[v]) BY <1>1 DEF PipeShape
  <2>3. QED BY <1>2, <2>1, <2>2 DEF PipeThread
<1>6. PipeShape' BY <1>1, <1>2, <1>3, <1>4, <1>5 DEF PipeShape, PipeStep
<1>7. ASSUME NEW t, t \in past.results \/ \E v \in Actor \ {w} : t = thread[v]
      PROVE  /\ PipeMade(t)' /\ PipeThere(t)'
             /\ ~(t.alone /\ t.since = past'.requests)
  BY <1>7, PipeOthers DEF PipeUndisturbed
<1>8. ASSUME NEW v \in Actor PROVE PipeMade(thread[v])' /\ PipeThere(thread[v])'
  <2>1. CASE v = w BY <2>1
  <2>2. CASE v # w
    <3>1. PICK old : old = thread[v] OBVIOUS
    <3>2. thread'[v] = old BY <1>5, <2>2, <3>1
    <3>3. PipeMade(old)' /\ PipeThere(old)' BY <1>7, <2>2, <3>1
    <3>4. QED BY <3>2, <3>3 DEF PipeMade, PipeThere, PipeHas, PipeUndisturbed, PipeStored,
        PipeContracted, PipeRecommended, PipeGraph, PipeScenario, PipeWhole, PipeAdvice
  <2>3. QED BY <2>1, <2>2
<1>9. PipeAlone'
  <2>1. ASSUME NEW v \in Actor, thread'[v].alone, thread'[v].since = past'.requests,
               NEW u \in Actor \ {v}
        PROVE  thread'[u].step = "idle"
    <3>1. v = w BY <1>5, <1>7, <2>1
    <3>2. thread'[u] = thread[u] BY <1>5, <3>1
    <3>3. CASE past'.requests = past.requests /\ thread[w].step # "idle"
      BY <2>1, <3>1, <3>2, <3>3 DEF PipeStep, PipeIInv, PipeAlone, PipeUndisturbed
    <3>4. CASE past'.requests = past.requests + 1
      BY <2>1, <3>1, <3>2, <3>4, <1>2 DEF PipeStep
    <3>5. QED BY <3>3, <3>4 DEF PipeStep
  <2>2. QED BY <1>7, <2>1 DEF PipeAlone, PipeUndisturbed
<1>10. PipeApart'
  <2>1. \A t : t \in past.results \/ (\E v \in Actor \ {w} : t = thread[v] /\ t.step \in PipeDrawn)
            => t.graph # past.ids + 1
    <3>1. \A r \in past.results : r.step \in PipeDrawn
      BY DEF PipeIInv, PipeDrawn, PipeMapped
    <3>2. QED BY <1>1, <1>2, <3>1 DEF PipeShape, PipeThread
  <2>2. ASSUME thread'[w].step \in PipeDrawn
        PROVE  /\ \A v \in Actor \ {w} :
                    thread[v].step \in PipeDrawn => thread[v].graph # thread'[w].graph
               /\ \A r \in past.results : r.graph # thread'[w].graph
    BY <2>1, <2>2 DEF PipeStep, PipeIInv, PipeApart
  <2>3. \A v \in Actor \ {w} : thread'[v] = thread[v] BY <1>5
  <2>4. PipeApart BY DEF PipeIInv
  <2>5. QED BY <2>2, <2>3, <2>4 DEF PipeApart
<1>11. PipeRests' BY <1>5 DEF PipeIInv, PipeRests, PipeStep
<1>12. QED BY <1>6, <1>7, <1>8, <1>9, <1>10, <1>11 DEF PipeIInv

\* What a request goes on with, when it does not ask anew.
PipeGoes(w, new) ==
    /\ thread[w].step # "idle" /\ thread' = [thread EXCEPT ![w] = new]
    /\ DOMAIN new = PipeFields /\ new.step \in PipeSteps
    /\ new.step = "idle" => ~new.alone
    /\ \/ ~new.alone /\ new.since = 0
       \/ new.alone = thread[w].alone /\ new.since = thread[w].since
    /\ DOMAIN memory' = DOMAIN memory /\ DOMAIN past' = DOMAIN past
    /\ past'.requests = past.requests

\* It makes nothing, or something new, and keeps its graph.
PipeIds(w, new) ==
    /\ past'.ids \in {past.ids, past.ids + 1}
    /\ memory.analyses \subseteq memory'.analyses /\ memory.maps \subseteq memory'.maps
    /\ new.step \in PipeDrawn => new.graph = thread[w].graph /\ thread[w].step \in PipeDrawn
    /\ new.step \in PipeStamped \ {"scenarios"} => new.todo \subseteq new.names

LEMMA PipeGoesOn ==
    ASSUME PipeIInv, NEW w \in Actor, NEW new, PipeGoes(w, new), PipeIds(w, new),
           memory'.graphs = memory.graphs
    PROVE  PipeStep(w) /\ thread'[w] = new
<1>1. PipeShape /\ PipeThread(thread[w]) BY DEF PipeIInv, PipeShape
<1>2. thread'[w] = new BY <1>1 DEF PipeShape, PipeGoes
<1>3. past.ids \in Nat /\ past.requests \in Nat BY <1>1 DEF PipeShape
<1>4. new.since \in Nat /\ new.since =< past.requests
  BY <1>1, <1>3 DEF PipeGoes, PipeThread
<1>5. PipeThread(thread[w])'
  BY <1>1, <1>2, <1>3, <1>4 DEF PipeGoes, PipeIds, PipeThread
<1>6. QED BY <1>1, <1>2, <1>3, <1>5 DEF PipeGoes, PipeIds, PipeStep, PipeShape

\* Before its mapping a request has nothing to keep.
LEMMA PipeEarly ==
    ASSUME NEW w \in Actor, thread'[w].step \notin PipeMapped
    PROVE  PipeMade(thread[w])' /\ PipeThere(thread[w])'
BY DEF PipeMade, PipeThere, PipeHas, PipeMapped, PipeDrawn, PipeStamped, PipeStored, PipeContracted,
   PipeRecommended

\* What a request does before.
LEMMA PipeBefore ==
    ASSUME PipeIInv, NEW w \in Actor, NEW new, PipeGoes(w, new), PipeIds(w, new),
           new.step \notin PipeMapped, memory'.graphs = memory.graphs,
           past'.results = past.results
    PROVE  PipeIInv'
<1>1. PipeStep(w) /\ thread'[w] = new BY PipeGoesOn
<1>2. PipeMade(thread[w])' /\ PipeThere(thread[w])' BY <1>1, PipeEarly
<1>3. QED BY <1>1, <1>2, PipeStepKeeps

LEMMA PipeFails ==
    ASSUME PipeIInv, NEW w \in Actor, Pipeline!Fails(w), thread[w].step # "idle"
    PROVE  PipeIInv'
<1> DEFINE new == Pipeline!Free
<1>1. /\ thread' = [thread EXCEPT ![w] = new] /\ memory' = memory /\ past' = past
  BY DEF Pipeline!Fails, Pipeline!Becomes
<1>2. /\ DOMAIN new = PipeFields /\ new.step = "idle" /\ ~new.alone /\ new.since = 0
      /\ new.todo = {}
  BY DEF Pipeline!Free, Pipeline!None, PipeFields
<1> HIDE DEF new
<1>3. past.ids \in Nat BY DEF PipeIInv, PipeShape
<1>4. PipeGoes(w, new) /\ PipeIds(w, new) /\ new.step \notin PipeMapped
  BY <1>1, <1>2, <1>3 DEF PipeGoes, PipeIds, PipeMapped, PipeDrawn, PipeStamped, PipeSteps
<1>5. QED BY <1>1, <1>4, PipeBefore

\* An analysis that is made, or not.
LEMMA PipeAnalyses ==
    ASSUME PipeIInv, NEW w \in Actor, NEW role, NEW then, NEW otherwise,
           then \in {"backend", "map"}, otherwise \in {"again", "failed"},
           thread[w].step # "idle", Pipeline!Analyses(w, role, then, otherwise)
    PROVE  PipeIInv'
<1>1. PipeShape /\ PipeThread(thread[w]) BY DEF PipeIInv, PipeShape
<1>2. PICK t : t = thread[w] OBVIOUS
<1>3. PICK new :
        /\ thread' = [thread EXCEPT ![w] = new]
        /\ DOMAIN new = DOMAIN t /\ new.since = t.since /\ new.alone = t.alone
        /\ new.step \in {then, otherwise}
  <2> DEFINE with(id) == [thread[w] EXCEPT !.fe = IF role = "frontend" THEN id ELSE @,
                                           !.be = IF role = "backend" THEN id ELSE @]
  <2>1. \A id : /\ DOMAIN [with(id) EXCEPT !.step = then] = DOMAIN t
                /\ [with(id) EXCEPT !.step = then].since = t.since
                /\ [with(id) EXCEPT !.step = then].alone = t.alone
                /\ [with(id) EXCEPT !.step = then].step = then
    BY <1>1, <1>2 DEF PipeThread, PipeFields
  <2>2. /\ DOMAIN [t EXCEPT !.step = otherwise] = DOMAIN t
        /\ [t EXCEPT !.step = otherwise].since = t.since
        /\ [t EXCEPT !.step = otherwise].alone = t.alone
        /\ [t EXCEPT !.step = otherwise].step = otherwise
    BY <1>1, <1>2 DEF PipeThread, PipeFields
  <2>3. \/ \E id : thread' = [thread EXCEPT ![w] = [with(id) EXCEPT !.step = then]]
        \/ thread' = [thread EXCEPT ![w] = [t EXCEPT !.step = otherwise]]
    BY <1>2 DEF Pipeline!Analyses, Pipeline!Becomes
  <2> HIDE DEF with
  <2>4. CASE \E id : thread' = [thread EXCEPT ![w] = [with(id) EXCEPT !.step = then]]
    BY <2>1, <2>4
  <2>5. CASE thread' = [thread EXCEPT ![w] = [t EXCEPT !.step = otherwise]] BY <2>2, <2>5
  <2>6. QED BY <2>3, <2>4, <2>5
<1>4. /\ \/ memory' = memory
         \/ \E new2 : memory' = [memory EXCEPT !.analyses = @ \cup {new2}]
      /\ \/ past' = past
         \/ past' = [past EXCEPT !.ids = past.ids + 1]
  BY DEF Pipeline!Analyses, Pipeline!Saves, Pipeline!Counted, Pipeline!New
<1>5. /\ memory.analyses \subseteq memory'.analyses /\ memory'.maps = memory.maps
      /\ memory'.graphs = memory.graphs /\ DOMAIN memory' = DOMAIN memory
      /\ DOMAIN past' = DOMAIN past /\ past'.ids \in {past.ids, past.ids + 1}
      /\ past'.requests = past.requests /\ past'.results = past.results
  BY <1>1, <1>4 DEF PipeShape
<1>6. PipeGoes(w, new) /\ PipeIds(w, new) /\ new.step \notin PipeMapped
  BY <1>1, <1>2, <1>3, <1>5
  DEF PipeGoes, PipeIds, PipeThread, PipeMapped, PipeDrawn, PipeStamped, PipeSteps
<1>7. QED BY <1>5, <1>6, PipeBefore

\* A request that takes what there is already.
LEMMA PipeTakes ==
    ASSUME PipeIInv, NEW w \in Actor, NEW new, thread[w].step # "idle",
           thread' = [thread EXCEPT ![w] = new], UNCHANGED <<memory, disk, past>>,
           DOMAIN new = PipeFields, new.since = thread[w].since, new.alone = thread[w].alone,
           new.step \in {"backend", "map"}
    PROVE  PipeIInv'
<1>1. past.ids \in Nat BY DEF PipeIInv, PipeShape
<1>2. PipeGoes(w, new) /\ PipeIds(w, new) /\ new.step \notin PipeMapped
  BY <1>1 DEF PipeGoes, PipeIds, PipeMapped, PipeDrawn, PipeStamped, PipeSteps
<1>3. QED BY <1>2, PipeBefore

\* A new request disturbs the others.
LEMMA PipeRequests ==
    ASSUME PipeIInv, NEW w \in Actor,
           \/ \E ask \in Pipeline!Asks : Pipeline!Start(w, ask)
           \/ Pipeline!DeleteScenario(w) \/ Pipeline!DeleteGraph(w)
    PROVE  PipeIInv'
<1>1. PipeShape /\ PipeThread(thread[w]) BY DEF PipeIInv, PipeShape
<1>2. /\ thread[w].step = "idle" /\ past' = [past EXCEPT !.requests = @ + 1]
  BY DEF Pipeline!Start, Pipeline!DeleteScenario, Pipeline!DeleteGraph, Pipeline!Request,
     Pipeline!At
<1>3. /\ past'.requests = past.requests + 1 /\ past'.ids = past.ids
      /\ past'.results = past.results /\ DOMAIN past' = DOMAIN past
      /\ past.requests \in Nat /\ past.ids \in Nat
  BY <1>1, <1>2 DEF PipeShape
<1>4. CASE \E ask \in Pipeline!Asks : Pipeline!Start(w, ask)
  <2>1. PICK ask : Pipeline!Start(w, ask) BY <1>4
  <2>2. PICK alone \in BOOLEAN : alone = \A v \in Actor : thread[v].step = "idle" BY Zenon
  <2> DEFINE new == [Pipeline!Free EXCEPT !.step = "frontend", !.ask = ask,
                       !.since = past.requests + 1, !.alone = alone]
  <2>3. thread' = [thread EXCEPT ![w] = new] /\ UNCHANGED <<memory, disk>>
    BY <2>1, <2>2, Zenon DEF Pipeline!Start, Pipeline!Becomes, Pipeline!At
  <2>4. /\ DOMAIN new = PipeFields /\ new.step = "frontend" /\ new.alone = alone
        /\ new.since = past.requests + 1
    BY DEF Pipeline!Free, PipeFields
  <2> HIDE DEF new
  <2>5. thread'[w] = new BY <1>1, <2>3 DEF PipeShape
  <2>6. PipeThread(thread[w])'
    BY <1>3, <2>4, <2>5
    DEF PipeThread, PipeSteps, PipeMapped, PipeDrawn, PipeStamped
  <2>7. ~new.alone \/ \A v \in Actor : thread[v].step = "idle" BY <2>2, <2>4
  <2>8. PipeStep(w)
    BY <1>1, <1>2, <1>3, <2>3, <2>4, <2>5, <2>6, <2>7
    DEF PipeStep, PipeShape, PipeMapped, PipeDrawn
  <2>9. PipeMade(thread[w])' /\ PipeThere(thread[w])'
    BY <2>4, <2>5, PipeEarly DEF PipeMapped
  <2>10. QED BY <1>3, <2>8, <2>9, PipeStepKeeps
<1>5. CASE Pipeline!DeleteScenario(w) \/ Pipeline!DeleteGraph(w)
  <2>1. /\ thread' = thread /\ memory'.analyses = memory.analyses
        /\ memory'.maps = memory.maps /\ memory'.graphs \subseteq memory.graphs
        /\ DOMAIN memory' = DOMAIN memory
    <3>1. CASE Pipeline!DeleteScenario(w)
      BY <1>1, <3>1 DEF Pipeline!DeleteScenario, Pipeline!Saves, PipeShape
    <3>2. CASE Pipeline!DeleteGraph(w)
      BY <1>1, <3>2 DEF Pipeline!DeleteGraph, Pipeline!Saves, PipeShape
    <3>3. QED BY <1>5, <3>1, <3>2
  <2>2. PipeThread(thread[w])' BY <1>1, <1>3, <2>1 DEF PipeThread
  <2>3. ~thread[w].alone BY <1>2 DEF PipeIInv, PipeRests
  <2>4. PipeStep(w)
    BY <1>1, <1>2, <1>3, <2>1, <2>2, <2>3
    DEF PipeStep, PipeShape, PipeMapped, PipeDrawn
  <2>5. PipeMade(thread[w])' /\ PipeThere(thread[w])'
    BY <1>2, <2>1, PipeEarly DEF PipeMapped
  <2>6. QED BY <1>3, <2>4, <2>5, PipeStepKeeps
<1>6. QED BY <1>4, <1>5

\* What a request does with its graph keeps what it has.
LEMMA PipeLater ==
    ASSUME PipeIInv, NEW w \in Actor, NEW t, NEW new, t = thread[w],
           PipeGoes(w, new), PipeIds(w, new),
           t.step \in PipeStamped, new.step \in PipeStamped,
           new.fe = t.fe, new.be = t.be, new.map = t.map, new.graph = t.graph,
           memory'.analyses = memory.analyses, memory'.maps = memory.maps,
           memory'.graphs = memory.graphs, past'.results = past.results,
           PipeUndisturbed(t) => PipeHas(thread[w])'
    PROVE  PipeIInv'
<1>1. PipeStep(w) /\ thread'[w] = new BY PipeGoesOn
<1>2. PipeMade(t) /\ PipeThere(t) BY DEF PipeIInv
<1>3. t.step \in PipeMapped /\ new.step \in PipeMapped /\ t.step \in PipeDrawn
      /\ new.step \in PipeDrawn /\ t.step # "stamp" /\ new.step # "stamp"
  BY DEF PipeStamped, PipeDrawn
<1>4. PipeMade(thread[w])' BY <1>1, <1>2, <1>3 DEF PipeMade, PipeGraph
<1>5. PipeThere(thread[w])'
  <2>1. past.requests \in Nat /\ past'.requests = past.requests
    BY DEF PipeIInv, PipeShape, PipeGoes
  <2>2. ASSUME new.alone, new.since = past'.requests PROVE PipeUndisturbed(t)
    BY <2>1, <2>2 DEF PipeGoes, PipeUndisturbed
  <2>3. QED BY <1>1, <1>2, <2>2 DEF PipeThere, PipeUndisturbed
<1>6. QED BY <1>1, <1>4, <1>5, PipeStepKeeps

\* The request goes to another step, and nothing else is changed but what is
\* kept of the cases.
LEMMA PipeMoves ==
    ASSUME PipeIInv, NEW w \in Actor, NEW t, NEW new, t = thread[w],
           thread' = [thread EXCEPT ![w] = new],
           t.step \in PipeStamped, new.step \in PipeStamped \ {"complete"},
           DOMAIN new = DOMAIN t, new.since = t.since, new.alone = t.alone,
           new.fe = t.fe, new.be = t.be, new.map = t.map, new.graph = t.graph,
           new.step \in PipeStamped \ {"scenarios"} => new.todo \subseteq new.names,
           past' = past, DOMAIN memory' = DOMAIN memory,
           memory'.analyses = memory.analyses, memory'.maps = memory.maps,
           memory'.graphs = memory.graphs,
           PipeUndisturbed(t) => PipeHas(thread[w])'
    PROVE  PipeIInv'
<1>1. PipeShape /\ PipeThread(t) BY DEF PipeIInv, PipeShape
<1>3. t.step # "idle" /\ t.step \in PipeDrawn /\ new.step # "idle" /\ new.step \in PipeSteps
  BY DEF PipeStamped, PipeDrawn, PipeMapped, PipeSteps
<1>4. PipeGoes(w, new) BY <1>1, <1>3 DEF PipeGoes, PipeThread
<1>5. PipeIds(w, new) BY <1>3 DEF PipeIds
<1>6. QED BY <1>4, <1>5, PipeLater

LEMMA PipeMaps ==
    ASSUME PipeIInv, NEW w \in Actor, Pipeline!Maps(w) PROVE PipeIInv'
<1> PICK t : t = thread[w] OBVIOUS
<1>1. PipeShape /\ PipeThread(t) /\ t.step = "map"
  BY DEF PipeIInv, PipeShape, Pipeline!Maps, Pipeline!At
<1> DEFINE new == [t EXCEPT !.map = past.ids + 1, !.step = "graph", !.ask = Pipeline!NoAsk]
           made == [id |-> past.ids + 1, fe |-> t.fe, be |-> t.be]
<1>2. CASE Pipeline!Fails(w) BY <1>1, <1>2, PipeFails
<1>3. CASE /\ Pipeline!Resolves("frontend", t.fe) /\ Pipeline!Resolves("backend", t.be)
           /\ memory' = [memory EXCEPT !.maps = @ \cup {made}]
           /\ thread' = [thread EXCEPT ![w] = new]
           /\ past' = [past EXCEPT !.ids = past.ids + 1]
  <2>1. /\ DOMAIN new = PipeFields /\ new.step = "graph" /\ new.fe = t.fe /\ new.be = t.be
        /\ new.map = past.ids + 1 /\ new.since = t.since /\ new.alone = t.alone
    BY <1>1 DEF PipeThread, PipeFields
  <2> HIDE DEF new
  <2>2. /\ memory'.analyses = memory.analyses /\ memory'.maps = memory.maps \cup {made}
        /\ memory'.graphs = memory.graphs /\ DOMAIN memory' = DOMAIN memory
        /\ past'.requests = past.requests /\ past'.ids = past.ids + 1
        /\ past'.results = past.results /\ DOMAIN past' = DOMAIN past
    BY <1>1, <1>3 DEF PipeShape
  <2>3. PipeGoes(w, new) BY <1>1, <1>3, <2>1, <2>2 DEF PipeGoes, PipeSteps
  <2>4. PipeIds(w, new)
    BY <2>1, <2>2 DEF PipeIds, PipeStamped, PipeDrawn, PipeMapped
  <2>5. PipeStep(w) /\ thread'[w] = new BY <2>2, <2>3, <2>4, PipeGoesOn
  <2>6. /\ \E a \in memory'.analyses : a.id = new.fe /\ a.role = "frontend"
        /\ \E a \in memory'.analyses : a.id = new.be /\ a.role = "backend"
    BY <1>3, <2>1, <2>2 DEF Pipeline!Resolves, Pipeline!Complete
  <2>7. PipeMade(thread[w])'
    BY <2>1, <2>2, <2>5, <2>6 DEF PipeMade, PipeDrawn
  <2>8. PipeThere(thread[w])'
    BY <2>1, <2>5
    DEF PipeThere, PipeHas, PipeStamped, PipeDrawn, PipeStored, PipeContracted,
        PipeRecommended
  <2>9. QED BY <2>2, <2>5, <2>7, <2>8, PipeStepKeeps
<1>4. QED
  BY <1>2, <1>3 DEF Pipeline!Maps, Pipeline!Saves, Pipeline!Becomes, Pipeline!Counted, Pipeline!New

LEMMA PipeGraphs ==
    ASSUME PipeIInv, NEW w \in Actor, Pipeline!Graphs(w) PROVE PipeIInv'
<1> PICK t : t = thread[w] OBVIOUS
<1>1. PipeShape /\ PipeThread(t) /\ t.step = "graph" /\ PipeMade(t) /\ past.ids \in Nat
  BY DEF PipeIInv, PipeShape, Pipeline!Graphs, Pipeline!At
<1> DEFINE new == [t EXCEPT !.graph = past.ids + 1, !.step = "stamp"]
           made == [id |-> past.ids + 1, fe |-> t.fe, be |-> t.be, map |-> t.map,
                    service |-> "found"]
<1>2. CASE Pipeline!Fails(w) BY <1>1, <1>2, PipeFails
<1>3. CASE /\ memory' = [memory EXCEPT !.graphs = @ \cup {made}]
           /\ thread' = [thread EXCEPT ![w] = new]
           /\ past' = [past EXCEPT !.ids = past.ids + 1]
  <2>1. /\ DOMAIN new = PipeFields /\ new.step = "stamp" /\ new.fe = t.fe /\ new.be = t.be
        /\ new.map = t.map /\ new.since = t.since /\ new.alone = t.alone
        /\ new.graph = past.ids + 1
    BY <1>1 DEF PipeThread, PipeFields
  <2> HIDE DEF new
  <2>2. /\ memory'.analyses = memory.analyses /\ memory'.maps = memory.maps
        /\ memory'.graphs = memory.graphs \cup {made} /\ DOMAIN memory' = DOMAIN memory
        /\ past'.requests = past.requests /\ past'.ids = past.ids + 1
        /\ past'.results = past.results /\ DOMAIN past' = DOMAIN past
    BY <1>1, <1>3 DEF PipeShape
  <2>3. thread'[w] = new /\ DOMAIN thread' = Actor
        /\ \A v \in Actor \ {w} : thread'[v] = thread[v]
    BY <1>1, <1>3 DEF PipeShape
  <2>4. PipeThread(thread[w])'
    BY <1>1, <2>1, <2>2, <2>3
    DEF PipeThread, PipeSteps, PipeStamped, PipeDrawn, PipeMapped
  <2>5. PipeStep(w) BY <1>1, <2>1, <2>2, <2>3, <2>4 DEF PipeStep
  <2>6. \A g \in memory.graphs : g.id # past.ids + 1 BY <1>1 DEF PipeShape
  <2>7. PipeMade(thread[w])'
    BY <1>1, <2>1, <2>2, <2>3, <2>6 DEF PipeMade, PipeGraph, PipeMapped, PipeDrawn
  <2>8. PipeThere(thread[w])'
    BY <2>1, <2>3
    DEF PipeThere, PipeHas, PipeStamped, PipeStored, PipeContracted, PipeRecommended
  <2>9. QED BY <2>2, <2>5, <2>7, <2>8, PipeStepKeeps
<1>4. QED
  BY <1>2, <1>3
     DEF Pipeline!Graphs, Pipeline!Saves, Pipeline!Becomes, Pipeline!Counted, Pipeline!New

LEMMA PipeStamps ==
    ASSUME PipeIInv, NEW w \in Actor, Pipeline!Stamps(w) PROVE PipeIInv'
<1> PICK t : t = thread[w] OBVIOUS
<1>1. PipeShape /\ PipeThread(t) /\ t.step = "stamp" /\ PipeMade(t) /\ past.ids \in Nat
  BY DEF PipeIInv, PipeShape, Pipeline!Stamps, Pipeline!At
<1> DEFINE new == [t EXCEPT !.step = "scenarios"]
           made == [id |-> t.graph, fe |-> t.fe, be |-> t.be, map |-> t.map,
                    service |-> "asked"]
<1>2. /\ memory' = [memory EXCEPT !.graphs = {g \in @ : g.id # t.graph} \cup {made}]
      /\ thread' = [thread EXCEPT ![w] = new] /\ past' = past
  BY DEF Pipeline!Stamps, Pipeline!Saves, Pipeline!Becomes
<1>3. /\ DOMAIN new = PipeFields /\ new.step = "scenarios" /\ new.fe = t.fe /\ new.be = t.be
      /\ new.map = t.map /\ new.since = t.since /\ new.alone = t.alone
      /\ new.graph = t.graph
  BY <1>1 DEF PipeThread, PipeFields
<1> HIDE DEF new
<1>4. /\ memory'.analyses = memory.analyses /\ memory'.maps = memory.maps
      /\ memory'.graphs = {g \in memory.graphs : g.id # t.graph} \cup {made}
      /\ DOMAIN memory' = DOMAIN memory
  BY <1>1, <1>2 DEF PipeShape
<1>5. thread'[w] = new /\ DOMAIN thread' = Actor
      /\ \A v \in Actor \ {w} : thread'[v] = thread[v]
  BY <1>1, <1>2 DEF PipeShape
<1>6. PipeThread(thread[w])'
  BY <1>1, <1>2, <1>3, <1>5 DEF PipeThread, PipeSteps, PipeStamped, PipeDrawn, PipeMapped
<1>7. PipeStep(w)
  BY <1>1, <1>2, <1>3, <1>4, <1>5, <1>6 DEF PipeStep, PipeDrawn, PipeMapped
<1>8. PipeMade(thread[w])'
  <2>1. \A g \in memory'.graphs : g.id = t.graph => g = made BY <1>4
  <2>2. PipeGraph(new) = made BY <1>3 DEF PipeGraph
  <2>3. /\ \E a \in memory.analyses : a.id = t.fe /\ a.role = "frontend"
        /\ \E a \in memory.analyses : a.id = t.be /\ a.role = "backend"
        /\ [id |-> t.map, fe |-> t.fe, be |-> t.be] \in memory.maps
    BY <1>1 DEF PipeMade, PipeMapped
  <2>4. QED BY <1>3, <1>4, <1>5, <2>1, <2>2, <2>3 DEF PipeMade
<1>9. PipeThere(thread[w])'
  <2>1. made \in memory'.graphs /\ made.id = t.graph BY <1>4
  <2>2. thread'[w].step = "scenarios" /\ thread'[w].graph = t.graph BY <1>3, <1>5
  <2>3. PipeHas(thread[w])' BY <2>2 DEF PipeHas, PipeStored, PipeContracted, PipeRecommended
  <2>4. QED BY <2>1, <2>2, <2>3 DEF PipeThere
<1>10. QED BY <1>2, <1>7, <1>8, <1>9, PipeStepKeeps

LEMMA PipeScenarios ==
    ASSUME PipeIInv, NEW w \in Actor, Pipeline!Scenarios(w) PROVE PipeIInv'
<1> PICK t : t = thread[w] OBVIOUS
<1>1. PipeShape /\ PipeThread(t) /\ t.step = "scenarios" /\ DOMAIN thread = Actor
  BY DEF PipeIInv, PipeShape, Pipeline!Scenarios, Pipeline!At
<1>2. CASE Pipeline!Fails(w) BY <1>1, <1>2, PipeFails
<1>3. ASSUME NEW cases, UNCHANGED <<memory, disk, past>>,
             thread' = [thread EXCEPT ![w] = [t EXCEPT !.step = "store", !.names = cases,
                                                       !.todo = cases]]
      PROVE  PipeIInv'
  <2> DEFINE new == [t EXCEPT !.step = "store", !.names = cases, !.todo = cases]
  <2>1. /\ DOMAIN new = DOMAIN t /\ new.step = "store" /\ new.fe = t.fe /\ new.be = t.be
        /\ new.map = t.map /\ new.since = t.since /\ new.alone = t.alone
        /\ new.graph = t.graph /\ new.names = cases /\ new.todo = cases
    BY <1>1 DEF PipeThread, PipeFields
  <2>2. thread' = [thread EXCEPT ![w] = new] BY <1>3
  <2> HIDE DEF new
  <2>3. thread'[w] = new BY <1>1, <2>2
  <2>4. PipeHas(thread[w])'
    BY <2>1, <2>3 DEF PipeHas, PipeStored, PipeContracted, PipeRecommended
  <2>5. t.step \in PipeStamped /\ new.step \in PipeStamped \ {"complete"}
    BY <1>1, <2>1 DEF PipeStamped, PipeDrawn, PipeMapped
  <2>6. new.todo \subseteq new.names BY <2>1
  <2>7. QED BY <1>3, <2>1, <2>2, <2>4, <2>5, <2>6, PipeMoves, ZenonT(30)
<1>4. QED BY <1>2, <1>3 DEF Pipeline!Scenarios, Pipeline!Becomes

LEMMA PipeTreated ==
    ASSUME PipeIInv, NEW w \in Actor, NEW step, NEW then, Pipeline!Treated(w, step, then),
           \/ step = "store" /\ then = "contract"
           \/ step = "contract" /\ then = "recommend"
           \/ step = "recommend" /\ then = "journey"
    PROVE  PipeIInv'
<1> PICK t : t = thread[w] OBVIOUS
<1>1. PipeShape /\ PipeThread(t) /\ PipeThere(t) /\ t.step = step /\ t.todo = {}
      /\ DOMAIN thread = Actor
  BY DEF PipeIInv, PipeShape, Pipeline!Treated, Pipeline!At
<1> DEFINE new == [t EXCEPT !.step = then, !.todo = t.names]
<1>2. /\ DOMAIN new = DOMAIN t /\ new.step = then /\ new.fe = t.fe /\ new.be = t.be
      /\ new.map = t.map /\ new.since = t.since /\ new.alone = t.alone
      /\ new.graph = t.graph /\ new.names = t.names /\ new.todo = t.names
  BY <1>1 DEF PipeThread, PipeFields
<1>3. thread' = [thread EXCEPT ![w] = new] /\ UNCHANGED <<memory, disk, past>>
  BY DEF Pipeline!Treated, Pipeline!Becomes
<1> HIDE DEF new
<1>4. thread'[w] = new BY <1>1, <1>3
<1>5. t.step \in PipeStamped /\ new.step \in PipeStamped \ {"complete"}
  BY <1>1, <1>2 DEF PipeStamped, PipeDrawn, PipeMapped
<1>6. ASSUME PipeUndisturbed(t) PROVE PipeHas(thread[w])'
  <2>1. PipeHas(t) BY <1>1, <1>6 DEF PipeThere
  <2>2. /\ PipeStored(new) = PipeStored(t) /\ PipeContracted(new) = PipeContracted(t)
        /\ PipeRecommended(new) = PipeRecommended(t)
    <3>1. t.names \ t.todo = t.names /\ new.names \ new.todo = {} BY <1>1, <1>2
    <3>2. QED BY <1>1, <1>2, <3>1 DEF PipeStored, PipeContracted, PipeRecommended
  <2>3. \A case : /\ PipeScenario(new, case) = PipeScenario(t, case)
                  /\ PipeWhole(new, case) = PipeWhole(t, case)
                  /\ PipeAdvice(new, case) = PipeAdvice(t, case)
    BY <1>2 DEF PipeScenario, PipeWhole, PipeAdvice
  <2>4. new.step # "build" BY <1>2
  <2>5. PipeHas(new) BY <2>1, <2>2, <2>3, <2>4 DEF PipeHas
  <2>6. QED BY <1>3, <1>4, <2>5 DEF PipeHas
<1>7. QED BY <1>2, <1>3, <1>5, <1>6, PipeMoves, ZenonT(30)

LEMMA PipeStores ==
    ASSUME PipeIInv, NEW w \in Actor, Pipeline!StoresScenario(w) PROVE PipeIInv'
<1> PICK t : t = thread[w] OBVIOUS
<1>1. PipeShape /\ PipeThread(t) /\ PipeThere(t) /\ DOMAIN thread = Actor
  BY DEF PipeIInv, PipeShape
<1>2. CASE Pipeline!Treated(w, "store", "contract") BY <1>2, PipeTreated
<1>3. ASSUME t.step = "store", NEW case \in t.todo, past' = past,
             memory' = [memory EXCEPT !.scenarios =
               {s \in @ : s.case # case} \cup {[case |-> case, graph |-> t.graph]}],
             thread' = [thread EXCEPT ![w] = [t EXCEPT !.todo = @ \ {case}]]
      PROVE  PipeIInv'
  <2> DEFINE new == [t EXCEPT !.todo = @ \ {case}]
             made == [case |-> case, graph |-> t.graph]
  <2>1. /\ DOMAIN new = DOMAIN t /\ new.step = "store" /\ new.fe = t.fe /\ new.be = t.be
        /\ new.map = t.map /\ new.since = t.since /\ new.alone = t.alone
        /\ new.graph = t.graph /\ new.names = t.names /\ new.todo = t.todo \ {case}
    BY <1>1, <1>3 DEF PipeThread, PipeFields
  <2>2. thread' = [thread EXCEPT ![w] = new] BY <1>3
  <2> HIDE DEF new
  <2>3. thread'[w] = new BY <1>1, <2>2
  <2>4. /\ memory'.scenarios = {s \in memory.scenarios : s.case # case} \cup {made}
        /\ memory'.analyses = memory.analyses /\ memory'.maps = memory.maps
        /\ memory'.graphs = memory.graphs /\ DOMAIN memory' = DOMAIN memory
    BY <1>1, <1>3 DEF PipeShape
  <2>5. t.step \in PipeStamped /\ new.step \in PipeStamped \ {"complete"}
        /\ t.todo \subseteq t.names
    BY <1>1, <1>3, <2>1 DEF PipeThread, PipeStamped, PipeDrawn, PipeMapped
  <2>6. ASSUME PipeUndisturbed(t) PROVE PipeHas(thread[w])'
    <3>1. PipeHas(t) BY <1>1, <2>6 DEF PipeThere
    <3>2. /\ \A c : c \in PipeStored(new) <=> c \in PipeStored(t) \/ c = case
          /\ PipeContracted(new) = {} /\ PipeRecommended(new) = {}
      BY <1>3, <2>1, <2>5 DEF PipeStored, PipeContracted, PipeRecommended
    <3>3. \A c : PipeScenario(new, c) = PipeScenario(t, c) BY <2>1 DEF PipeScenario
    <3>4. made = PipeScenario(t, case) /\ made.case = case BY DEF PipeScenario
    <3>5. \A c : PipeScenario(t, c).case = c BY DEF PipeScenario
    <3> HIDE DEF made
    <3>6. ASSUME NEW c \in PipeStored(new)
          PROVE  PipeScenario(new, c) \in memory'.scenarios
      BY <2>4, <3>1, <3>2, <3>3, <3>4, <3>5 DEF PipeHas
    <3>7. ASSUME NEW s \in memory'.scenarios, s.case \in PipeStored(new)
          PROVE  s = PipeScenario(new, s.case)
      BY <2>4, <3>1, <3>2, <3>3, <3>4, <3>7 DEF PipeHas
    <3>8. QED
      BY <2>1, <2>3, <3>2, <3>6, <3>7
      DEF PipeHas, PipeScenario, PipeWhole, PipeAdvice, PipeStored, PipeContracted,
          PipeRecommended
  <2>7. QED BY <1>3, <2>1, <2>2, <2>4, <2>5, <2>6, PipeMoves, ZenonT(30)
<1>4. QED
  BY <1>2, <1>3
  DEF Pipeline!StoresScenario, Pipeline!Saves, Pipeline!Becomes, Pipeline!At

LEMMA PipeReads ==
    ASSUME PipeIInv, NEW w \in Actor, Pipeline!ReadsForContract(w) PROVE PipeIInv'
<1> PICK t : t = thread[w] OBVIOUS
<1>1. PipeShape /\ PipeThread(t) /\ PipeThere(t) /\ DOMAIN thread = Actor
  BY DEF PipeIInv, PipeShape
<1>2. CASE Pipeline!Treated(w, "contract", "recommend") BY <1>2, PipeTreated
<1>3. CASE t.step = "contract" /\ Pipeline!Fails(w) BY <1>3, PipeFails
<1>4. ASSUME t.step = "contract", NEW s \in memory.scenarios, s.case \in t.todo,
             UNCHANGED <<memory, disk, past>>,
             thread' = [thread EXCEPT ![w] = [t EXCEPT !.step = "build", !.scenario = s]]
      PROVE  PipeIInv'
  <2> DEFINE new == [t EXCEPT !.step = "build", !.scenario = s]
  <2>1. /\ DOMAIN new = DOMAIN t /\ new.step = "build" /\ new.fe = t.fe /\ new.be = t.be
        /\ new.map = t.map /\ new.since = t.since /\ new.alone = t.alone
        /\ new.graph = t.graph /\ new.names = t.names /\ new.todo = t.todo
        /\ new.scenario = s
    BY <1>1, <1>4 DEF PipeThread, PipeFields
  <2>2. thread' = [thread EXCEPT ![w] = new] BY <1>4
  <2> HIDE DEF new
  <2>3. thread'[w] = new BY <1>1, <2>2
  <2>4. t.step \in PipeStamped /\ new.step \in PipeStamped \ {"complete"}
        /\ t.todo \subseteq t.names
    BY <1>1, <1>4, <2>1 DEF PipeThread, PipeStamped, PipeDrawn, PipeMapped
  <2>5. ASSUME PipeUndisturbed(t) PROVE PipeHas(thread[w])'
    <3>1. PipeHas(t) BY <1>1, <2>5 DEF PipeThere
    <3>2. /\ PipeStored(new) = PipeStored(t) /\ PipeContracted(new) = PipeContracted(t)
          /\ PipeRecommended(new) = PipeRecommended(t) /\ PipeStored(t) = t.names
      BY <1>4, <2>1 DEF PipeStored, PipeContracted, PipeRecommended
    <3>3. \A c : /\ PipeScenario(new, c) = PipeScenario(t, c)
                 /\ PipeWhole(new, c) = PipeWhole(t, c)
                 /\ PipeAdvice(new, c) = PipeAdvice(t, c)
      BY <2>1 DEF PipeScenario, PipeWhole, PipeAdvice
    <3>4. s = PipeScenario(t, s.case) BY <1>4, <2>4, <3>1, <3>2 DEF PipeHas
    <3>5. PipeHas(new) BY <1>4, <2>1, <3>1, <3>2, <3>3, <3>4 DEF PipeHas
    <3>6. QED BY <1>4, <2>3, <3>5 DEF PipeHas
  <2>6. QED BY <1>4, <2>1, <2>2, <2>4, <2>5, PipeMoves, ZenonT(30)
<1>5. QED
  <2>1. ASSUME NEW case \in t.todo, t.step = "contract",
               LET found == {s \in memory.scenarios : s.case = case} IN
               IF found = {} THEN Pipeline!Fails(w)
               ELSE /\ \E s \in found :
                         thread' = [thread EXCEPT ![w] =
                                      [t EXCEPT !.step = "build", !.scenario = s]]
                    /\ UNCHANGED <<memory, disk, past>>
        PROVE  PipeIInv'
    BY <1>3, <1>4, <2>1
  <2>2. QED
    BY <1>2, <2>1 DEF Pipeline!ReadsForContract, Pipeline!Becomes, Pipeline!At

\* The analyses that a contract is made from are those of the graph.
LEMMA PipeAnalysesOf ==
    ASSUME NEW t, NEW g \in memory.graphs, g.id = t.graph,
           \A x \in memory.graphs : x.id = t.graph => x = PipeGraph(t)
    PROVE  /\ \A fe \in Pipeline!AnalysesOf(t.graph, "frontend") : fe = t.fe
           /\ \A be \in Pipeline!AnalysesOf(t.graph, "backend") : be = t.be
<1> DEFINE own(role) == {IF role = "frontend" THEN x.fe ELSE x.be :
                           x \in {y \in memory.graphs : y.id = t.graph}}
<1>1. \A role : own(role) # {} OBVIOUS
<1>2. \A role : Pipeline!AnalysesOf(t.graph, role) = own(role)
  BY <1>1, Zenon DEF Pipeline!AnalysesOf
<1>3. \A x \in own("frontend") : x = t.fe BY DEF PipeGraph
<1>4. \A x \in own("backend") : x = t.be BY DEF PipeGraph
<1> HIDE DEF own
<1>5. QED BY <1>2, <1>3, <1>4

LEMMA PipeBuilds ==
    ASSUME PipeIInv, NEW w \in Actor, Pipeline!BuildsContract(w) PROVE PipeIInv'
<1> PICK t : t = thread[w] OBVIOUS
<1>1. PipeShape /\ PipeThread(t) /\ PipeMade(t) /\ PipeThere(t) /\ t.step = "build"
      /\ DOMAIN thread = Actor
  BY DEF PipeIInv, PipeShape, Pipeline!BuildsContract, Pipeline!At
<1>2. CASE Pipeline!Fails(w) BY <1>1, <1>2, PipeFails
<1>3. ASSUME NEW fe \in Pipeline!AnalysesOf(t.scenario.graph, "frontend"),
             NEW be \in Pipeline!AnalysesOf(t.scenario.graph, "backend"), past' = past,
             memory' = [memory EXCEPT !.contracts =
               {c \in @ : c.case # t.scenario.case} \cup
                 {[case |-> t.scenario.case, graph |-> t.scenario.graph, fe |-> fe, be |-> be]}],
             thread' = [thread EXCEPT ![w] =
               [t EXCEPT !.step = "contract", !.scenario = Pipeline!NoScenario,
                         !.todo = @ \ {t.scenario.case}]]
      PROVE  PipeIInv'
  <2> DEFINE case == t.scenario.case
             new == [t EXCEPT !.step = "contract", !.scenario = Pipeline!NoScenario,
                              !.todo = @ \ {t.scenario.case}]
             made == [case |-> t.scenario.case, graph |-> t.scenario.graph, fe |-> fe, be |-> be]
  <2>1. /\ DOMAIN new = DOMAIN t /\ new.step = "contract" /\ new.fe = t.fe /\ new.be = t.be
        /\ new.map = t.map /\ new.since = t.since /\ new.alone = t.alone
        /\ new.graph = t.graph /\ new.names = t.names /\ new.todo = t.todo \ {case}
    BY <1>1 DEF PipeThread, PipeFields
  <2>2. thread' = [thread EXCEPT ![w] = new] BY <1>3
  <2> HIDE DEF new
  <2>3. thread'[w] = new BY <1>1, <2>2
  <2>4. /\ memory'.contracts = {c \in memory.contracts : c.case # case} \cup {made}
        /\ memory'.analyses = memory.analyses /\ memory'.maps = memory.maps
        /\ memory'.graphs = memory.graphs /\ memory'.scenarios = memory.scenarios
        /\ DOMAIN memory' = DOMAIN memory
    BY <1>1, <1>3 DEF PipeShape
  <2>5. t.step \in PipeStamped /\ new.step \in PipeStamped \ {"complete"}
        /\ t.todo \subseteq t.names /\ t.step \in PipeDrawn
    BY <1>1, <2>1 DEF PipeThread, PipeStamped, PipeDrawn, PipeMapped
  <2>6. ASSUME PipeUndisturbed(t) PROVE PipeHas(thread[w])'
    <3>1. PipeHas(t) /\ \E g \in memory.graphs : g.id = t.graph
      BY <1>1, <2>5, <2>6 DEF PipeThere
    <3>2. case \in t.todo /\ t.scenario.graph = t.graph
      BY <1>1, <3>1 DEF PipeHas, PipeScenario
    <3>3. fe = t.fe /\ be = t.be
      <4>1. \A x \in memory.graphs : x.id = t.graph => x = PipeGraph(t)
        BY <1>1, <2>5 DEF PipeMade
      <4>2. fe \in Pipeline!AnalysesOf(t.graph, "frontend")
            /\ be \in Pipeline!AnalysesOf(t.graph, "backend")
        BY <1>3, <3>2
      <4>3. QED BY <3>1, <4>1, <4>2, PipeAnalysesOf
    <3>4. made = PipeWhole(t, case) /\ made.case = case BY <3>2, <3>3 DEF PipeWhole
    <3>5. /\ \A c : c \in PipeContracted(new) <=> c \in PipeContracted(t) \/ c = case
          /\ PipeStored(new) = PipeStored(t) /\ PipeRecommended(new) = {}
      BY <1>1, <2>1, <2>5, <3>2 DEF PipeStored, PipeContracted, PipeRecommended
    <3>6. \A c : /\ PipeScenario(new, c) = PipeScenario(t, c)
                 /\ PipeWhole(new, c) = PipeWhole(t, c) /\ PipeWhole(t, c).case = c
      BY <2>1 DEF PipeScenario, PipeWhole, PipeAdvice
    <3> HIDE DEF made, case
    <3>7. ASSUME NEW c \in PipeContracted(new)
          PROVE  PipeWhole(new, c) \in memory'.contracts
      BY <2>4, <3>1, <3>4, <3>5, <3>6 DEF PipeHas
    <3>8. ASSUME NEW c \in memory'.contracts, c.case \in PipeContracted(new)
          PROVE  c = PipeWhole(new, c.case)
      BY <2>4, <3>1, <3>4, <3>5, <3>6, <3>8 DEF PipeHas
    <3>9. /\ \A c \in PipeStored(new) : PipeScenario(new, c) \in memory'.scenarios
          /\ \A s \in memory'.scenarios :
               s.case \in PipeStored(new) => s = PipeScenario(new, s.case)
      BY <2>4, <3>1, <3>5, <3>6 DEF PipeHas
    <3>10. QED
      BY <2>1, <2>3, <3>5, <3>7, <3>8, <3>9
      DEF PipeHas, PipeScenario, PipeWhole, PipeAdvice, PipeStored, PipeContracted,
          PipeRecommended
  <2>7. new.todo \subseteq new.names BY <2>1, <2>5
  <2>8. QED BY <1>3, <2>1, <2>2, <2>4, <2>5, <2>6, <2>7, PipeMoves, ZenonT(30)
<1>4. QED
  BY <1>2, <1>3
  DEF Pipeline!BuildsContract, Pipeline!Saves, Pipeline!Becomes

LEMMA PipeRecommends ==
    ASSUME PipeIInv, NEW w \in Actor, Pipeline!Recommends(w) PROVE PipeIInv'
<1> PICK t : t = thread[w] OBVIOUS
<1>1. PipeShape /\ PipeThread(t) /\ PipeThere(t) /\ DOMAIN thread = Actor
  BY DEF PipeIInv, PipeShape
<1>9. PipeMade(t) BY DEF PipeIInv
<1>2. CASE Pipeline!Treated(w, "recommend", "journey") BY <1>2, PipeTreated
<1>3. CASE t.step = "recommend" /\ Pipeline!Fails(w) BY <1>3, PipeFails
<1>4. ASSUME t.step = "recommend", NEW case \in t.todo, past' = past,
             NEW s \in memory.scenarios, NEW c \in memory.contracts,
             s.case = case, c.case = case,
             NEW fe \in Pipeline!AnalysesOf(s.graph, "frontend"),
             NEW be \in Pipeline!AnalysesOf(s.graph, "backend"),
             memory' = [memory EXCEPT !.recs =
               {r \in @ : r.contract.case # case} \cup {[contract |-> c, fe |-> fe, be |-> be]}],
             thread' = [thread EXCEPT ![w] = [t EXCEPT !.todo = @ \ {case}]]
      PROVE  PipeIInv'
  <2> DEFINE new == [t EXCEPT !.todo = @ \ {case}]
             made == [contract |-> c, fe |-> fe, be |-> be]
  <2>1. /\ DOMAIN new = DOMAIN t /\ new.step = "recommend" /\ new.fe = t.fe /\ new.be = t.be
        /\ new.map = t.map /\ new.since = t.since /\ new.alone = t.alone
        /\ new.graph = t.graph /\ new.names = t.names /\ new.todo = t.todo \ {case}
    BY <1>1, <1>4 DEF PipeThread, PipeFields
  <2>2. thread' = [thread EXCEPT ![w] = new] BY <1>4
  <2> HIDE DEF new
  <2>3. thread'[w] = new BY <1>1, <2>2
  <2>4. /\ memory'.recs = {r \in memory.recs : r.contract.case # case} \cup {made}
        /\ memory'.analyses = memory.analyses /\ memory'.maps = memory.maps
        /\ memory'.graphs = memory.graphs /\ memory'.scenarios = memory.scenarios
        /\ memory'.contracts = memory.contracts /\ DOMAIN memory' = DOMAIN memory
    BY <1>1, <1>4 DEF PipeShape
  <2>5. t.step \in PipeStamped /\ new.step \in PipeStamped \ {"complete"}
        /\ t.todo \subseteq t.names /\ t.step \in PipeDrawn
    BY <1>1, <1>4, <2>1 DEF PipeThread, PipeStamped, PipeDrawn, PipeMapped
  <2>6. ASSUME PipeUndisturbed(t) PROVE PipeHas(thread[w])'
    <3>1. PipeHas(t) /\ \E g \in memory.graphs : g.id = t.graph
      BY <1>1, <2>5, <2>6 DEF PipeThere
    <3>2. /\ \A x : x \in PipeRecommended(new) <=> x \in PipeRecommended(t) \/ x = case
          /\ PipeStored(new) = PipeStored(t) /\ PipeContracted(new) = PipeContracted(t)
          /\ PipeContracted(t) = t.names
      BY <1>4, <2>1, <2>5 DEF PipeStored, PipeContracted, PipeRecommended
    <3>3. \A x : /\ PipeScenario(new, x) = PipeScenario(t, x)
                 /\ PipeWhole(new, x) = PipeWhole(t, x) /\ PipeWhole(t, x).case = x
                 /\ PipeAdvice(new, x) = PipeAdvice(t, x)
                 /\ PipeAdvice(t, x).contract.case = x
      BY <2>1 DEF PipeScenario, PipeWhole, PipeAdvice
    <3>4. c = PipeWhole(t, case) /\ s.graph = t.graph
      <4>1. case \in PipeContracted(t) BY <1>4, <2>5, <3>2
      <4>2. case \in PipeStored(t) BY <1>4, <2>5 DEF PipeStored
      <4>3. s = PipeScenario(t, case) BY <1>4, <3>1, <4>2 DEF PipeHas
      <4>4. QED BY <1>4, <3>1, <4>1, <4>3 DEF PipeHas, PipeScenario
    <3>5. fe = t.fe /\ be = t.be
      <4>1. \A x \in memory.graphs : x.id = t.graph => x = PipeGraph(t)
        BY <1>9, <2>5 DEF PipeMade
      <4>2. fe \in Pipeline!AnalysesOf(t.graph, "frontend")
            /\ be \in Pipeline!AnalysesOf(t.graph, "backend")
        BY <1>4, <3>4
      <4>3. QED BY <3>1, <4>1, <4>2, PipeAnalysesOf
    <3>6. made = PipeAdvice(t, case) BY <3>4, <3>5 DEF PipeAdvice
    <3> HIDE DEF made
    <3>7. \A x \in PipeRecommended(new) : PipeAdvice(new, x) \in memory'.recs
      BY <2>4, <3>1, <3>2, <3>3, <3>6 DEF PipeHas
    <3>8. /\ \A x \in PipeStored(new) : PipeScenario(new, x) \in memory'.scenarios
          /\ \A x \in memory'.scenarios :
               x.case \in PipeStored(new) => x = PipeScenario(new, x.case)
          /\ \A x \in PipeContracted(new) : PipeWhole(new, x) \in memory'.contracts
          /\ \A x \in memory'.contracts :
               x.case \in PipeContracted(new) => x = PipeWhole(new, x.case)
      BY <2>4, <3>1, <3>2, <3>3 DEF PipeHas
    <3>10. QED
      BY <2>1, <2>3, <3>7, <3>8
      DEF PipeHas, PipeScenario, PipeWhole, PipeAdvice, PipeStored, PipeContracted,
          PipeRecommended
  <2>7. new.todo \subseteq new.names BY <2>1, <2>5
  <2>8. QED BY <1>4, <2>1, <2>2, <2>4, <2>5, <2>6, <2>7, PipeMoves, ZenonT(30)
<1>5. CASE ~Pipeline!Treated(w, "recommend", "journey") /\ ~Pipeline!Fails(w)
  <2> DEFINE made(case, c, fe, be) ==
               [memory EXCEPT !.recs = {r \in @ : r.contract.case # case}
                                         \cup {[contract |-> c, fe |-> fe, be |-> be]}]
  <2>1. PICK case \in t.todo :
          /\ \E s \in memory.scenarios, c \in memory.contracts :
               /\ s.case = case /\ c.case = case
               /\ \E fe \in Pipeline!AnalysesOf(s.graph, "frontend"),
                     be \in Pipeline!AnalysesOf(s.graph, "backend") :
                    Pipeline!Saves(made(case, c, fe, be))
          /\ Pipeline!Becomes(w, [t EXCEPT !.todo = @ \ {case}])
          /\ past' = past
    BY <1>5 DEF Pipeline!Recommends
  <2>2. PICK s \in memory.scenarios, c \in memory.contracts :
          /\ s.case = case /\ c.case = case
          /\ \E fe \in Pipeline!AnalysesOf(s.graph, "frontend"),
                be \in Pipeline!AnalysesOf(s.graph, "backend") :
               Pipeline!Saves(made(case, c, fe, be))
    BY <2>1
  <2>3. PICK fe \in Pipeline!AnalysesOf(s.graph, "frontend"),
             be \in Pipeline!AnalysesOf(s.graph, "backend") :
          Pipeline!Saves(made(case, c, fe, be))
    BY <2>2
  <2>4. t.step = "recommend" BY <1>5 DEF Pipeline!Recommends, Pipeline!At
  <2>5. memory' = made(case, c, fe, be) BY <2>3 DEF Pipeline!Saves
  <2>6. thread' = [thread EXCEPT ![w] = [t EXCEPT !.todo = @ \ {case}]]
    BY <2>1 DEF Pipeline!Becomes
  <2>7. QED BY <1>4, <2>1, <2>2, <2>3, <2>4, <2>5, <2>6
<1>6. QED BY <1>2, <1>3, <1>5 DEF Pipeline!Recommends, Pipeline!At

LEMMA PipeCompletes ==
    ASSUME PipeIInv, NEW w \in Actor, Pipeline!Completes(w) PROVE PipeIInv'
<1> PICK t : t = thread[w] OBVIOUS
<1>1. PipeShape /\ PipeThread(t) /\ PipeMade(t) /\ PipeThere(t) /\ t.step = "journey"
      /\ PipeApart /\ PipeAlone /\ PipeRests
  BY DEF PipeIInv, PipeShape, Pipeline!Completes, Pipeline!At
<1> DEFINE result == [t EXCEPT !.step = "complete"]
           new == Pipeline!Free
<1>2. /\ thread' = [thread EXCEPT ![w] = new]
      /\ past' = [past EXCEPT !.results = @ \cup {result}]
      /\ \E journey : memory' = [memory EXCEPT !.journey = journey]
  BY DEF Pipeline!Completes, Pipeline!Saves, Pipeline!Becomes
<1>3. /\ DOMAIN result = PipeFields /\ result.step = "complete"
      /\ result.fe = t.fe /\ result.be = t.be /\ result.map = t.map
      /\ result.graph = t.graph /\ result.names = t.names /\ result.todo = t.todo
      /\ result.since = t.since /\ result.alone = t.alone
  BY <1>1 DEF PipeThread, PipeFields
<1>4. /\ DOMAIN new = PipeFields /\ new.step = "idle" /\ ~new.alone /\ new.since = 0
  BY DEF Pipeline!Free, Pipeline!None, PipeFields
<1> HIDE DEF result, new
<1>5. /\ DOMAIN memory' = DOMAIN memory /\ memory'.analyses = memory.analyses
      /\ memory'.maps = memory.maps /\ memory'.graphs = memory.graphs
      /\ memory'.scenarios = memory.scenarios /\ memory'.contracts = memory.contracts
      /\ memory'.recs = memory.recs
      /\ past'.results = past.results \cup {result} /\ past'.ids = past.ids
      /\ past'.requests = past.requests /\ DOMAIN past' = DOMAIN past
      /\ past.ids \in Nat /\ past.requests \in Nat
      /\ thread'[w] = new /\ DOMAIN thread' = Actor
      /\ \A v \in Actor \ {w} : thread'[v] = thread[v]
  BY <1>1, <1>2 DEF PipeShape
<1>6. t.step \in PipeStamped /\ "complete" \in PipeStamped /\ "idle" \notin PipeDrawn
  BY <1>1 DEF PipeStamped, PipeDrawn, PipeMapped
<1>7. ASSUME NEW u, PipeThread(u) PROVE PipeThread(u)'
  BY <1>5, <1>7 DEF PipeThread
<1>8. PipeThread(result)
  BY <1>1, <1>3, <1>6 DEF PipeThread, PipeSteps, PipeStamped
<1>9. PipeShape'
  <2>1. PipeThread(new)
    BY <1>4, <1>5, <1>6 DEF PipeThread, PipeSteps, PipeStamped
  <2>2. \A v \in Actor : PipeThread(thread[v])'
    <3>1. ASSUME NEW v \in Actor \ {w} PROVE PipeThread(thread[v])'
      BY <1>1, <1>5 DEF PipeShape, PipeThread
    <3>2. PipeThread(thread[w])' BY <1>5, <2>1 DEF PipeThread
    <3>3. QED BY <3>1, <3>2
  <2>3. \A r \in past'.results : PipeThread(r)'
    BY <1>1, <1>5, <1>7, <1>8 DEF PipeShape
  <2>4. QED BY <1>1, <1>5, <2>2, <2>3 DEF PipeShape
<1>10. PipeRests' BY <1>1, <1>4, <1>5 DEF PipeRests
<1>11. PipeAlone'
  <2>1. PipeUndisturbed(result) => \A v \in Actor \ {w} : thread[v].step = "idle"
    BY <1>1, <1>3 DEF PipeAlone, PipeUndisturbed
  <2>2. QED BY <1>1, <1>4, <1>5, <2>1 DEF PipeAlone, PipeUndisturbed
<1>12. PipeApart'
  <2>1. t.step \in PipeDrawn BY <1>6 DEF PipeStamped
  <2>2. QED BY <1>1, <1>3, <1>4, <1>5, <1>6, <2>1 DEF PipeApart
<1>13. ASSUME NEW u PROVE (PipeMade(u) => PipeMade(u)') /\ (PipeThere(u) => PipeThere(u)')
  BY <1>5 DEF PipeMade, PipeThere, PipeHas, PipeUndisturbed
<1>14. ASSUME NEW v \in Actor PROVE PipeMade(thread[v])' /\ PipeThere(thread[v])'
  <2>1. CASE v = w BY <1>4, <1>5, <2>1, PipeEarly DEF PipeMapped
  <2>2. CASE v # w
    <3>1. PICK old : old = thread[v] OBVIOUS
    <3>2. thread'[v] = old BY <1>5, <2>2, <3>1
    <3>3. PipeMade(old)' /\ PipeThere(old)' BY <1>13, <3>1 DEF PipeIInv
    <3>4. QED BY <3>2, <3>3 DEF PipeMade, PipeThere, PipeHas, PipeUndisturbed, PipeStored,
        PipeContracted, PipeRecommended, PipeGraph, PipeScenario, PipeWhole, PipeAdvice
  <2>3. QED BY <2>1, <2>2
<1>15. PipeMade(result) BY <1>1, <1>3, <1>6 DEF PipeMade, PipeStamped, PipeDrawn, PipeGraph
<1>16. PipeThere(result)
  <2>1. ASSUME PipeUndisturbed(result)
        PROVE  PipeHas(t) /\ \E g \in memory.graphs : g.id = result.graph
    BY <1>1, <1>3, <1>6, <2>1 DEF PipeThere, PipeUndisturbed
  <2>2. /\ PipeStored(result) = PipeStored(t) /\ PipeContracted(result) = PipeContracted(t)
        /\ PipeRecommended(result) = PipeRecommended(t)
    BY <1>1, <1>3 DEF PipeStored, PipeContracted, PipeRecommended
  <2>3. \A c : /\ PipeScenario(result, c) = PipeScenario(t, c)
               /\ PipeWhole(result, c) = PipeWhole(t, c)
               /\ PipeAdvice(result, c) = PipeAdvice(t, c)
    BY <1>3 DEF PipeScenario, PipeWhole, PipeAdvice
  <2>4. PipeHas(t) => PipeHas(result) BY <1>3, <2>2, <2>3 DEF PipeHas
  <2>5. QED BY <2>1, <2>4 DEF PipeThere
<1>17. \A r \in past'.results : r.step = "complete" /\ PipeMade(r)' /\ PipeThere(r)'
  BY <1>3, <1>5, <1>13, <1>15, <1>16 DEF PipeIInv
<1>18. QED BY <1>9, <1>10, <1>11, <1>12, <1>14, <1>17 DEF PipeIInv

\* The invariant holds initially.
LEMMA PipeInitIInv == Pipeline!Init => PipeIInv
<1> SUFFICES ASSUME Pipeline!Init PROVE PipeIInv OBVIOUS
<1>1. /\ DOMAIN memory =
           {"analyses", "maps", "graphs", "scenarios", "contracts", "recs", "journey"}
      /\ memory.graphs = {} /\ DOMAIN past = {"requests", "ids", "results"}
      /\ past.requests = 0 /\ past.ids = 2 /\ past.results = {}
      /\ DOMAIN thread = Actor
  BY DEF Pipeline!Init
<1>2. \A w \in Actor : /\ thread[w].step = "idle" /\ ~thread[w].alone
                       /\ DOMAIN thread[w] = PipeFields /\ thread[w].since = 0
  BY DEF Pipeline!Init, Pipeline!Free, Pipeline!None, PipeFields
<1>3. PipeShape
  BY <1>1, <1>2 DEF PipeShape, PipeThread, PipeSteps, PipeMapped, PipeDrawn, PipeStamped
<1>4. PipeRests /\ PipeAlone BY <1>1, <1>2 DEF PipeRests, PipeAlone, PipeUndisturbed
<1>5. PipeApart BY <1>2 DEF PipeApart, PipeMapped, PipeDrawn
<1>6. \A w \in Actor : PipeMade(thread[w]) /\ PipeThere(thread[w])
  BY <1>2 DEF PipeMade, PipeThere, PipeUndisturbed, PipeMapped, PipeDrawn
<1>7. QED BY <1>1, <1>3, <1>4, <1>5, <1>6 DEF PipeIInv

LEMMA PipeNextIInv == ASSUME PipeIInv, [Pipeline!Next]_(Pipeline!vars) PROVE PipeIInv'
<1>1. PipeShape BY DEF PipeIInv
<1>2. ASSUME NEW w \in Actor, Pipeline!FrontEnd(w) PROVE PipeIInv'
  <2> PICK t : t = thread[w] OBVIOUS
  <2>1. t.step = "frontend" /\ DOMAIN t = PipeFields
    BY <1>1, <1>2 DEF Pipeline!FrontEnd, Pipeline!At, PipeShape, PipeThread
  <2>2. CASE Pipeline!Analyses(w, "frontend", "backend", "again")
    BY <2>1, <2>2, PipeAnalyses
  <2>3. CASE /\ thread' = [thread EXCEPT ![w] = [t EXCEPT !.fe = t.ask.fe, !.step = "backend"]]
             /\ UNCHANGED <<memory, disk, past>>
    <3> DEFINE new == [t EXCEPT !.fe = t.ask.fe, !.step = "backend"]
    <3>1. DOMAIN new = PipeFields /\ new.since = t.since /\ new.alone = t.alone
          /\ new.step = "backend"
      BY <2>1 DEF PipeFields
    <3> HIDE DEF new
    <3>2. thread' = [thread EXCEPT ![w] = new] BY <2>3 DEF new
    <3>3. QED BY <2>1, <2>3, <3>1, <3>2, PipeTakes
  <2>4. QED BY <1>2, <2>2, <2>3 DEF Pipeline!FrontEnd, Pipeline!Becomes
<1>3. ASSUME NEW w \in Actor, Pipeline!FrontEndAgain(w) PROVE PipeIInv'
  <2>1. thread[w].step # "idle" BY <1>3 DEF Pipeline!FrontEndAgain, Pipeline!At
  <2>2. QED BY <1>3, <2>1, PipeAnalyses, PipeFails DEF Pipeline!FrontEndAgain
<1>4. ASSUME NEW w \in Actor, Pipeline!BackEnd(w) PROVE PipeIInv'
  <2> PICK t : t = thread[w] OBVIOUS
  <2>1. t.step = "backend" /\ DOMAIN t = PipeFields
    BY <1>1, <1>4 DEF Pipeline!BackEnd, Pipeline!At, PipeShape, PipeThread
  <2>2. CASE Pipeline!Analyses(w, "backend", "map", "failed")
    BY <2>1, <2>2, PipeAnalyses
  <2>3. CASE /\ thread' = [thread EXCEPT ![w] = [t EXCEPT !.be = t.ask.be, !.step = "map"]]
             /\ UNCHANGED <<memory, disk, past>>
    <3> DEFINE new == [t EXCEPT !.be = t.ask.be, !.step = "map"]
    <3>1. DOMAIN new = PipeFields /\ new.since = t.since /\ new.alone = t.alone
          /\ new.step = "map"
      BY <2>1 DEF PipeFields
    <3> HIDE DEF new
    <3>2. thread' = [thread EXCEPT ![w] = new] BY <2>3 DEF new
    <3>3. QED BY <2>1, <2>3, <3>1, <3>2, PipeTakes
  <2>4. QED BY <1>4, <2>2, <2>3 DEF Pipeline!BackEnd, Pipeline!Becomes
<1>5. ASSUME NEW w \in Actor, Pipeline!Failed(w) PROVE PipeIInv'
  BY <1>5, PipeFails DEF Pipeline!Failed, Pipeline!At
<1>6. CASE UNCHANGED Pipeline!vars
  <2>1. memory' = memory /\ thread' = thread /\ past' = past BY <1>6 DEF Pipeline!vars
  <2>2. PipeShape' /\ PipeRests' /\ PipeAlone' /\ PipeApart'
    BY <2>1
    DEF PipeIInv, PipeShape, PipeThread, PipeRests, PipeAlone, PipeApart, PipeUndisturbed
  <2>3. \A t : PipeMade(t)' <=> PipeMade(t) BY <2>1 DEF PipeMade
  <2>4. \A t : PipeThere(t)' <=> PipeThere(t)
    BY <2>1 DEF PipeThere, PipeHas, PipeUndisturbed
  <2>5. ASSUME NEW w \in Actor PROVE PipeMade(thread[w])' /\ PipeThere(thread[w])'
    <3>1. PICK t : t = thread[w] OBVIOUS
    <3>2. thread'[w] = t BY <2>1, <3>1
    <3>3. PipeMade(t)' /\ PipeThere(t)' BY <2>3, <2>4, <3>1 DEF PipeIInv
    <3>4. QED BY <3>2, <3>3 DEF PipeMade, PipeThere, PipeHas, PipeUndisturbed, PipeStored,
        PipeContracted, PipeRecommended, PipeGraph, PipeScenario, PipeWhole, PipeAdvice
  <2>6. QED BY <2>1, <2>2, <2>3, <2>4, <2>5 DEF PipeIInv
<1>7. QED
  BY <1>2, <1>3, <1>4, <1>5, <1>6, PipeRequests, PipeMaps, PipeGraphs, PipeStamps,
     PipeScenarios, PipeStores, PipeReads, PipeBuilds, PipeRecommends, PipeCompletes
  DEF Pipeline!Next

\* The invariant of the pipelines holds when they are looked at.
PipeInv == service = "pipeline" => PipeIInv

LEMMA PipeInvariant == Spec => []PipeInv
<1>1. Init => PipeInv BY AgentInits, PipeInitIInv DEF PipeInv
<1>2. PipeInv /\ [Next]_vars => PipeInv' BY AgentSteps, PipeNextIInv DEF PipeInv
<1>3. QED BY <1>1, <1>2, PTL DEF Spec

\* What a complete result names belongs together (pipeline.py), for any number
\* of overlapping pipelines, deletions and cases.
THEOREM ResultsAreTraceable == Spec => []CompleteIsTraceable
<1>1. PipeIInv => Pipeline!CompleteIsTraceable
  <2> SUFFICES ASSUME PipeIInv, NEW r \in past.results
               PROVE
        /\ \E a \in memory.analyses : a.id = r.fe /\ a.role = "frontend"
        /\ \E a \in memory.analyses : a.id = r.be /\ a.role = "backend"
        /\ [id |-> r.map, fe |-> r.fe, be |-> r.be] \in memory.maps
        /\ \A g \in memory.graphs : g.id = r.graph =>
             g = [id |-> r.graph, fe |-> r.fe, be |-> r.be, map |-> r.map,
                  service |-> "asked"]
        /\ r.alone /\ r.since = past.requests =>
             \A case \in r.names :
                /\ [case |-> case, graph |-> r.graph] \in memory.scenarios
                /\ PipeWhole(r, case) \in memory.contracts
                /\ PipeAdvice(r, case) \in memory.recs
    BY DEF Pipeline!CompleteIsTraceable, PipeWhole, PipeAdvice
  <2>1. r.step = "complete" /\ PipeMade(r) /\ PipeThere(r) BY DEF PipeIInv
  <2>2. r.step \in PipeMapped /\ r.step \in PipeDrawn BY <2>1 DEF PipeMapped, PipeDrawn
  <2>3. /\ PipeStored(r) = r.names /\ PipeContracted(r) = r.names
        /\ PipeRecommended(r) = r.names
    BY <2>1 DEF PipeStored, PipeContracted, PipeRecommended
  <2>4. r.alone /\ r.since = past.requests => PipeHas(r)
    BY <2>1 DEF PipeThere, PipeUndisturbed
  <2>5. QED BY <2>1, <2>2, <2>3, <2>4 DEF PipeMade, PipeHas, PipeGraph, PipeScenario
<1>2. PipeInv => CompleteIsTraceable BY <1>1 DEF PipeInv, CompleteIsTraceable
<1>3. QED BY PipeInvariant, <1>2, PTL

-----------------------------------------------------------------------------
\* A step of the services is one of the service that is looked at.
LEMMA ReportSteps ==
    ASSUME [Next]_vars
    PROVE  /\ service' = service
           /\ service = "browser" => [Browser!Next]_(Browser!vars)
           /\ service = "evidence" => [Evidence!Next]_(Evidence!vars)
           /\ service = "report" => [Report!Next]_(Report!vars)
BY DEF Next, vars, Browser!vars, Evidence!vars, Report!vars

LEMMA ReportInits ==
    ASSUME Init
    PROVE  /\ service = "browser" => Browser!Init
           /\ service = "evidence" => Evidence!Init
           /\ service = "report" => Report!Init
BY DEF Init

-----------------------------------------------------------------------------
(* The browser driver.                                                     *)

\* What the driver observes, remembers and writes has the fields it starts with.
Observations ==
    {"errored", "direct", "visible", "session", "ended", "blocked", "invalid", "denied",
     "noRoute", "kept", "reused", "opened", "hasFill", "cancelled"}

BrowserShape ==
    /\ DOMAIN memory = Observations
    /\ DOMAIN disk = {"cancel", "progress", "status", "verdict", "criteria", "wanted", "network"}
    /\ DOMAIN thread = {"at", "steps", "allow", "browser"}
    /\ DOMAIN past = {"refused", "hard", "kept"}

\* What went wrong has been observed, and is not taken back.
Witnessed ==
    /\ past.hard => memory.errored
    /\ past.refused => memory.denied
    /\ past.kept => memory.kept

\* A verdict is the last thing the driver writes.
VerdictIsLast == thread.at # "ended" => disk.status = "none"

BrowserIInv == BrowserShape /\ Witnessed /\ VerdictIsLast /\ Browser!SuccessIsEarned

LEMMA BrowserInit == Browser!Init => BrowserIInv
BY DEF Browser!Init, BrowserIInv, BrowserShape, Observations, Witnessed, VerdictIsLast,
       Browser!SuccessIsEarned, Browser!Observed, Browser!None

\* What follows a step, whatever it observed but for what it takes back.
Keeps(m, denied) ==
    /\ DOMAIN m = Observations
    /\ m.errored = memory.errored
    /\ memory.denied \/ denied => m.denied
    /\ memory.kept => m.kept

LEMMA BrowserRecords ==
    ASSUME BrowserIInv, Browser!Runs, NEW m, NEW status, NEW stop, NEW denied,
           Keeps(m, denied), Browser!Recorded(m, status, stop),
           \/ Browser!Remembers(status, denied)
           \/ past' = [past EXCEPT !.kept = TRUE] /\ m.kept /\ status # "error"
    PROVE  BrowserIInv'
<1>1. /\ DOMAIN memory' = Observations /\ DOMAIN thread' = DOMAIN thread
      /\ DOMAIN past' = DOMAIN past /\ DOMAIN disk' = DOMAIN disk
  BY DEF Browser!Recorded, Browser!Remembers, Keeps
<1>2. /\ memory'.errored = (memory.errored \/ status = "error")
      /\ memory'.denied = m.denied /\ memory'.kept = m.kept
  BY DEF Browser!Recorded, Keeps, Observations
<1>3. Witnessed'
  BY <1>2 DEF Browser!Remembers, Keeps, BrowserIInv, BrowserShape, Witnessed
<1>4. disk.status = "none" /\ disk'.status = disk.status
  BY DEF Browser!Recorded, Browser!Runs, Browser!At, BrowserIInv, BrowserShape, VerdictIsLast
<1>5. QED
  BY <1>1, <1>3, <1>4 DEF BrowserIInv, BrowserShape, VerdictIsLast, Browser!SuccessIsEarned

LEMMA BrowserKeeps ==
    ASSUME BrowserShape, NEW denied \in BOOLEAN, NEW a, NEW b, NEW c, NEW d
    PROVE  /\ Keeps(memory, FALSE)
           /\ Keeps([memory EXCEPT !.session = a], FALSE)
           /\ Keeps([memory EXCEPT !.noRoute = a], FALSE)
           /\ Keeps([memory EXCEPT !.invalid = a], FALSE)
           /\ Keeps([memory EXCEPT !.ended = a], FALSE)
           /\ Keeps([memory EXCEPT !.visible = a], FALSE)
           /\ Keeps([memory EXCEPT !.opened = a, !.hasFill = b], FALSE)
           /\ Keeps([memory EXCEPT !.direct[b] = a], FALSE)
           /\ Keeps([memory EXCEPT !.noRoute = c, !.direct[b] = a], FALSE)
           /\ Keeps([memory EXCEPT !.direct[b] = a, !.visible = c], FALSE)
           /\ Keeps([memory EXCEPT !.visible = a, !.session = b, !.blocked = c], FALSE)
           /\ Keeps([memory EXCEPT !.kept = TRUE], FALSE)
           /\ Keeps([memory EXCEPT !.denied = @ \/ denied], denied)
           /\ Keeps([memory EXCEPT !.opened = TRUE, !.reused = a, !.session = b,
                                   !.denied = @ \/ denied], denied)
BY DEF BrowserShape, Observations, Keeps

LEMMA BrowserStep ==
    ASSUME BrowserIInv, Browser!Runs, NEW m, NEW status, Keeps(m, FALSE),
           Browser!Step(m, status)
    PROVE  BrowserIInv'
BY BrowserRecords DEF Browser!Step

LEMMA BrowserNext == ASSUME BrowserIInv, [Browser!Next]_(Browser!vars) PROVE BrowserIInv'
<1>0. BrowserShape BY DEF BrowserIInv
<1>1. CASE Browser!NoConsent
  BY <1>1 DEF Browser!NoConsent, Browser!Goes, BrowserIInv, BrowserShape, Witnessed,
     VerdictIsLast, Browser!SuccessIsEarned
<1>2. CASE Browser!Begins
  BY <1>2 DEF Browser!Begins, Browser!At, BrowserIInv, BrowserShape, Witnessed,
     VerdictIsLast, Browser!SuccessIsEarned
<1>3. CASE Browser!Cancel
  BY <1>3 DEF Browser!Cancel, Browser!At, BrowserIInv, BrowserShape, Witnessed,
     VerdictIsLast, Browser!SuccessIsEarned
<1>4. CASE Browser!SkipsPrecondition
  BY <1>0, <1>4, BrowserKeeps, BrowserStep DEF Browser!SkipsPrecondition
<1>5. CASE Browser!NavigatesNowhere
  BY <1>0, <1>5, BrowserKeeps, BrowserStep DEF Browser!NavigatesNowhere
<1>6. CASE Browser!Navigates
  <2>1. PICK opens \in BOOLEAN, denied \in BOOLEAN, session \in BOOLEAN :
          LET status == Browser!DeniedOr(IF opens THEN "ok" ELSE "error", denied)
              m == [memory EXCEPT !.opened = TRUE, !.reused = @ \/ session,
                                  !.session = IF session THEN "yes" ELSE @] IN
            /\ Browser!Recorded(Browser!Seen(m, denied), status, status = "error")
            /\ Browser!Remembers(status, denied)
    BY <1>6 DEF Browser!Navigates
  <2> DEFINE status == Browser!DeniedOr(IF opens THEN "ok" ELSE "error", denied)
             m == [memory EXCEPT !.opened = TRUE, !.reused = @ \/ session,
                                 !.session = IF session THEN "yes" ELSE @]
  <2>2. Keeps(Browser!Seen(m, denied), denied)
    BY <1>0 DEF BrowserShape, Observations, Keeps, Browser!Seen
  <2> HIDE DEF m, status
  <2>3. /\ Browser!Recorded(Browser!Seen(m, denied), status, status = "error")
        /\ Browser!Remembers(status, denied)
    BY <2>1 DEF m, status
  <2>4. QED BY <1>6, <2>2, <2>3, BrowserRecords DEF Browser!Navigates
<1>7. CASE Browser!Fills BY <1>0, <1>7, BrowserKeeps, BrowserStep DEF Browser!Fills
<1>8. CASE Browser!Selects BY <1>0, <1>8, BrowserKeeps, BrowserStep DEF Browser!Selects
<1>9. CASE Browser!Captures BY <1>0, <1>9, BrowserKeeps, BrowserStep DEF Browser!Captures
<1>10. CASE Browser!Verifies
  BY <1>0, <1>10, BrowserKeeps, BrowserStep DEF Browser!Verifies, Browser!Finds
<1>11. CASE Browser!KeepsTrigger
  BY <1>0, <1>11, BrowserKeeps, BrowserRecords
     DEF Browser!KeepsTrigger, BrowserShape, Observations
<1>12. CASE Browser!FindsInvalid
  BY <1>0, <1>12, BrowserKeeps, BrowserStep DEF Browser!FindsInvalid
<1>13. CASE Browser!Clicks
  <2>1. PICK denied \in BOOLEAN, status \in {"ok", "warning", "error"} :
          /\ Browser!Recorded(Browser!Seen(memory, denied), status, FALSE)
          /\ Browser!Remembers(status, denied)
    BY <1>13 DEF Browser!Clicks, Browser!DeniedOr
  <2>2. Keeps(Browser!Seen(memory, denied), denied) BY <1>0, BrowserKeeps DEF Browser!Seen
  <2>3. QED BY <1>13, <2>1, <2>2, BrowserRecords DEF Browser!Clicks
<1>14. CASE Browser!Waits
  <2>1. PICK denied \in BOOLEAN, status \in {"ok", "warning", "error"} :
          /\ Browser!Recorded(Browser!Seen(memory, denied), status, FALSE)
          /\ Browser!Remembers(status, denied)
    <3>1. PICK denied \in BOOLEAN, seen \in {"ok", "warning"} :
            /\ Browser!Recorded(Browser!Seen(memory, denied), Browser!DeniedOr(seen, denied), FALSE)
            /\ Browser!Remembers(seen, denied)
      BY <1>14 DEF Browser!Waits
    <3>2. QED BY <3>1 DEF Browser!Remembers, Browser!Recorded, Browser!DeniedOr
  <2>2. Keeps(Browser!Seen(memory, denied), denied) BY <1>0, BrowserKeeps DEF Browser!Seen
  <2>3. QED BY <1>14, <2>1, <2>2, BrowserRecords DEF Browser!Waits
<1>15. CASE Browser!ChecksPage
  <2>1. PICK c \in Browser!Direct \cup {Browser!None}, met \in BOOLEAN :
          LET m == [memory EXCEPT !.noRoute = @ \/ ~met] IN
            Browser!Step(IF c = Browser!None THEN m ELSE Browser!Finds(m, c, met),
                         Browser!Warning(met))
    BY <1>15 DEF Browser!ChecksPage
  <2> DEFINE m == [memory EXCEPT !.noRoute = @ \/ ~met]
             seen == IF c = Browser!None THEN m ELSE Browser!Finds(m, c, met)
  <2>2. Keeps(m, FALSE) BY <1>0, BrowserKeeps
  <2>3. Keeps(seen, FALSE)
    <3> HIDE DEF m
    <3>1. QED BY <2>2 DEF Keeps, Browser!Finds, Observations
  <2>4. Browser!Step(seen, Browser!Warning(met)) BY <2>1
  <2> HIDE DEF seen
  <2>5. QED BY <1>15, <2>3, <2>4, BrowserStep DEF Browser!ChecksPage
<1>16. CASE Browser!ChecksBinding
  BY <1>0, <1>16, BrowserKeeps, BrowserStep DEF Browser!ChecksBinding
<1>17. CASE Browser!AssertsVisible
  BY <1>0, <1>17, BrowserKeeps, BrowserStep DEF Browser!AssertsVisible
<1>18. CASE Browser!AssertsText
  <2>1. PICK c \in Browser!Direct, met \in BOOLEAN, found \in SUBSET Control :
          Browser!Step([Browser!Finds(memory, c, met) EXCEPT
                          !.visible = IF met THEN @ \cup found ELSE @], Browser!Warning(met))
    BY <1>18 DEF Browser!AssertsText
  <2> DEFINE m == Browser!Finds(memory, c, met)
             seen == [m EXCEPT !.visible = IF met THEN @ \cup found ELSE @]
  <2>2. Keeps(m, FALSE) BY <1>0, BrowserKeeps DEF Browser!Finds
  <2>3. Keeps(seen, FALSE)
    <3> HIDE DEF m
    <3>1. QED BY <2>2 DEF Keeps, Observations
  <2>4. Browser!Step(seen, Browser!Warning(met)) BY <2>1
  <2> HIDE DEF seen
  <2>5. QED BY <1>18, <2>3, <2>4, BrowserStep DEF Browser!AssertsText
<1>19. CASE Browser!AssertsAbsent
  BY <1>0, <1>19, BrowserKeeps, BrowserStep DEF Browser!AssertsAbsent
<1>20. CASE Browser!ChecksSession
  <2>1. PICK visible, session, blocked, status :
          Browser!Step([memory EXCEPT !.visible = visible, !.session = session,
                                      !.blocked = blocked], status)
    BY <1>20 DEF Browser!ChecksSession
  <2>2. Keeps([memory EXCEPT !.visible = visible, !.session = session, !.blocked = blocked],
              FALSE)
    BY <1>0, BrowserKeeps
  <2>3. QED BY <1>20, <2>1, <2>2, BrowserStep DEF Browser!ChecksSession
<1>21. CASE Browser!Unsupported
  BY <1>0, <1>21, BrowserKeeps, BrowserStep DEF Browser!Unsupported
<1>22. CASE Browser!Raises
  <2>1. PICK opened, fill, navigate :
          /\ Browser!Recorded([memory EXCEPT !.opened = opened, !.hasFill = fill], "error",
                              navigate)
          /\ Browser!Remembers("error", FALSE)
    BY <1>22 DEF Browser!Raises
  <2>2. Keeps([memory EXCEPT !.opened = opened, !.hasFill = fill], FALSE)
    BY <1>0, BrowserKeeps
  <2>3. QED BY <1>22, <2>1, <2>2, BrowserRecords DEF Browser!Raises
<1>23. CASE \/ Browser!LoopEnds \/ Browser!LoopIsCancelled \/ Browser!LoopIsLeft
            \/ Browser!ProbeSkips \/ Browser!ProbeKeeps \/ Browser!ProbeSubmits
  <2>1. /\ DOMAIN memory' = DOMAIN memory /\ DOMAIN thread' = DOMAIN thread
        /\ UNCHANGED <<disk, past>> /\ thread.at # "ended"
        /\ memory'.errored = memory.errored /\ memory'.denied = memory.denied
        /\ memory.kept => memory'.kept
    BY <1>0, <1>23
       DEF Browser!LoopEnds, Browser!LoopIsCancelled, Browser!LoopIsLeft, Browser!ProbeSkips,
           Browser!ProbeKeeps, Browser!ProbeSubmits, Browser!Goes, Browser!At, BrowserShape,
           Observations
  <2>2. QED
    BY <2>1 DEF BrowserIInv, BrowserShape, Witnessed, VerdictIsLast, Browser!SuccessIsEarned
<1>24. CASE Browser!Finishes
  <2>1. PICK criteria \in SUBSET Browser!Check, wanted \in SUBSET Control,
             network \in {Browser!None, "accepted", "refused"} :
          /\ Browser!Cardinality(criteria) <= Bound.criteria
          /\ "controls_visible" \in criteria \/ wanted = {}
          /\ "request_accepted" \in criteria \/ network = Browser!None
          /\ LET verdict == Browser!Verdict({Browser!Result(c, wanted, network) : c \in criteria})
                 status == Browser!FinalStatus(verdict) IN
             disk' = [disk EXCEPT !.status = status, !.progress = status, !.verdict = verdict,
                        !.criteria = criteria, !.wanted = wanted, !.network = network]
    BY <1>24 DEF Browser!Finishes
  <2> DEFINE results == {Browser!Result(c, wanted, network) : c \in criteria}
             verdict == Browser!Verdict(results)
             status == Browser!FinalStatus(verdict)
  <2>2. /\ thread' = [thread EXCEPT !.at = "ended", !.browser = FALSE]
        /\ UNCHANGED <<memory, past>>
    BY <1>24 DEF Browser!Finishes
  <2>3. /\ disk'.status = status /\ disk'.verdict = verdict /\ disk'.criteria = criteria
        /\ disk'.wanted = wanted /\ disk'.network = network /\ DOMAIN disk' = DOMAIN disk
        /\ thread'.at = "ended" /\ DOMAIN thread' = DOMAIN thread
    <3> HIDE DEF verdict
    <3>1. disk' = [disk EXCEPT !.status = status, !.progress = status, !.verdict = verdict,
                     !.criteria = criteria, !.wanted = wanted, !.network = network]
      BY <2>1 DEF verdict
    <3> HIDE DEF status
    <3>2. QED BY <1>0, <2>2, <3>1 DEF BrowserShape
  <2>4. Browser!SuccessIsEarned'
    <3> SUFFICES ASSUME status = "WAITING_FOR_REVIEW", verdict = "expected_met"
                 PROVE  Browser!SuccessIsEarned'
      BY <2>3 DEF Browser!SuccessIsEarned
    <3>1. ~memory.errored BY DEF Browser!FinalStatus
    <3>2. ~memory.invalid /\ ~memory.blocked /\ results = {"met"}
      <4>1. verdict = Browser!Verdict(results) OBVIOUS
      <4> HIDE DEF results, verdict
      <4>2. QED BY <4>1 DEF Browser!Verdict
    <3>3. criteria # {} /\ \A c \in criteria : Browser!Result(c, wanted, network) = "met"
      BY <3>2
    <3>4. ASSUME NEW c \in criteria
          PROVE  \/ c \in Browser!Direct /\ memory.direct[c] = "met"
                 \/ c = "session_established" /\ memory.session = "yes"
                 \/ c = "logout_effect" /\ memory.ended = "yes"
                 \/ c = "controls_visible" /\ wanted # {} /\ wanted \subseteq memory.visible
                 \/ /\ c = "request_accepted" /\ ~memory.denied /\ ~memory.kept
                    /\ network = "accepted"
      BY <3>3, <3>4 DEF Browser!Result, Browser!BySession, Browser!ByControls,
         Browser!ByRequest, Browser!None
    <3>5. ~past.hard /\ (past.refused => memory.denied) /\ (past.kept => memory.kept)
      BY <3>1 DEF BrowserIInv, Witnessed
    <3>6. QED BY <2>2, <2>3, <3>2, <3>3, <3>4, <3>5 DEF Browser!SuccessIsEarned
  <2>5. QED BY <2>2, <2>3, <2>4 DEF BrowserIInv, BrowserShape, Witnessed, VerdictIsLast
<1>25. CASE Browser!Fails
  BY <1>25 DEF Browser!Fails, BrowserIInv, BrowserShape, Witnessed, VerdictIsLast,
     Browser!SuccessIsEarned
<1>26. CASE UNCHANGED Browser!vars
  BY <1>26 DEF Browser!vars, BrowserIInv, BrowserShape, Witnessed, VerdictIsLast,
     Browser!SuccessIsEarned
<1>27. QED
  BY <1>1, <1>2, <1>3, <1>4, <1>5, <1>6, <1>7, <1>8, <1>9, <1>10, <1>11, <1>12, <1>13, <1>14,
     <1>15, <1>16, <1>17, <1>18, <1>19, <1>20, <1>21, <1>22, <1>23, <1>24, <1>25, <1>26
     DEF Browser!Next

\* The invariant of the driver holds when the driver is looked at.
BrowserInv == service = "browser" => BrowserIInv

LEMMA BrowserInvariant == Spec => []BrowserInv
<1>1. Init => BrowserInv BY ReportInits, BrowserInit DEF BrowserInv
<1>2. BrowserInv /\ [Next]_vars => BrowserInv' BY ReportSteps, BrowserNext DEF BrowserInv
<1>3. QED BY <1>1, <1>2, PTL DEF Spec

\* A run that is reported as having met what was expected has earned it, however
\* many steps and whichever criteria it has.
THEOREM SuccessesAreEarned == Spec => []SuccessIsEarned
<1>1. BrowserInv => SuccessIsEarned BY DEF BrowserInv, BrowserIInv, SuccessIsEarned
<1>2. QED BY BrowserInvariant, <1>1, PTL

-----------------------------------------------------------------------------
(* The review report.                                                      *)

ReportFields ==
    {"status", "verdict", "blocker", "criteria", "direct", "signal", "refused", "stopped",
     "network"}

ReportShape ==
    /\ DOMAIN memory = {"run", "events", "binding", "manifest", "expects"}
    /\ DOMAIN memory.run = ReportFields
    /\ memory.run.refused \in {"no", "named", "business", "http"}
    /\ memory.run.network =>
         memory.run.status \in {"WAITING_FOR_REVIEW", "AUTO_FAILED", "CANCELLED"}
    /\ DOMAIN thread = {"step", "run", "binding", "manifest"}

\* The run that a request has read is the stored one, or the one that had not
\* ended then.
ReadsRun ==
    thread.step \in {"bind", "package", "write"} =>
        thread.run \in {Report!Shown(Report!NoResult), Report!Shown(memory.run)}

\* The run that has a package from which nothing is missing: it has ended, and
\* neither failed nor was cancelled.
Untroubled ==
    memory.run.network /\ memory.run.status \notin {"AUTO_FAILED", "CANCELLED"}

\* A package, stored or held by a request, from which nothing is missing was made
\* of such a run: one made before the run ended has no requests.
PackedRun ==
    /\ memory.manifest \in Report!Packages \cup {Report!NoManifest}
    /\ thread.step = "write" => thread.manifest \in Report!Packages
    /\ memory.manifest \in Report!Packages => memory.manifest.missing \/ Untroubled
    /\ thread.step = "write" => thread.manifest.missing \/ Untroubled

\* A report on an ended run was built of the stored run, of some binding result,
\* and of such a package.
BuiltOfRun ==
    disk.ended =>
        /\ memory.run # Report!NoResult
        /\ \E b, m :
             /\ disk.json = Report!Built(Report!Shown(memory.run), b, m)
             /\ m.missing \/ Untroubled

ReportIInv == ReportShape /\ ReadsRun /\ PackedRun /\ BuiltOfRun

LEMMA ReportInit == Report!Init => ReportIInv
BY DEF Report!Init, ReportIInv, ReportShape, ReportFields, ReadsRun, PackedRun, BuiltOfRun,
       Report!NoResult, Report!Idle, Report!NoManifest, Report!Packages

\* What a package is made of decides whether something is missing from it.
LEMMA PackageTells ==
    ASSUME NEW m \in Report!Package
    PROVE  m \in Report!Packages /\ (m.missing \/ Untroubled)
BY DEF Report!Package, Report!Lacks, Report!Packages, Untroubled

\* A run that has not ended is shown as it is.
LEMMA ReportUnended == Report!Shown(Report!NoResult).status = "RUNNING"
BY DEF Report!Shown, Report!NoResult, Report!Reconciled, Report!Contradicted, Report!ShownStatus

LEMMA ReportNext == ASSUME ReportIInv, [Report!Next]_(Report!vars) PROVE ReportIInv'
<1> USE DEF ReportIInv, ReportShape, ReadsRun, PackedRun, BuiltOfRun
<1>1. CASE Report!RunEnds
  <2>1. PICK result \in Results :
          memory' = [memory EXCEPT !.run = [result EXCEPT !.verdict = Report!Evaluated(result)]]
    BY <1>1 DEF Report!RunEnds
  <2>2. memory.run = Report!NoResult /\ UNCHANGED <<disk, thread>> BY <1>1 DEF Report!RunEnds
  <2>3. /\ DOMAIN result = ReportFields
        /\ result.refused \in {"no", "named", "business", "http"}
        /\ result.status \in {"WAITING_FOR_REVIEW", "AUTO_FAILED", "CANCELLED"}
    BY ResultsAssumption DEF ReportFields
  <2>4. /\ DOMAIN memory'.run = ReportFields /\ DOMAIN memory' = DOMAIN memory
        /\ memory'.run.refused = result.refused /\ memory'.run.status = result.status
        /\ memory'.manifest = memory.manifest
    BY <2>1, <2>3 DEF ReportFields
  <2>5. ~Untroubled BY <2>2 DEF Untroubled, Report!NoResult
  <2>6. QED BY <2>2, <2>3, <2>4, <2>5
<1>2. CASE Report!LogsArrive BY <1>2 DEF Report!LogsArrive, Untroubled
<1>3. CASE Report!Validate BY <1>3 DEF Report!Validate, Untroubled
<1>4. CASE Report!Finalize
  <2>1. PICK m \in Report!Package : memory' = [memory EXCEPT !.manifest = m]
    BY <1>4 DEF Report!Finalize
  <2>2. UNCHANGED <<disk, thread>> BY <1>4 DEF Report!Finalize
  <2>3. Untroubled' = Untroubled BY <2>1 DEF Untroubled
  <2>4. QED BY <2>1, <2>2, <2>3, PackageTells
<1>5. CASE Report!Begins BY <1>5 DEF Report!Begins, Report!Idle, Untroubled
<1>6. CASE Report!Binds BY <1>6 DEF Report!Binds, Untroubled
<1>7. CASE Report!Packs
  <2>1. /\ thread.step = "package" /\ UNCHANGED disk
        /\ \E m \in IF memory.manifest = Report!NoManifest THEN Report!Package
                    ELSE {memory.manifest} :
             /\ memory' = [memory EXCEPT !.manifest = m]
             /\ thread' = [thread EXCEPT !.step = "write", !.manifest = m]
    BY <1>7 DEF Report!Packs
  <2>2. PICK m \in IF memory.manifest = Report!NoManifest THEN Report!Package
                   ELSE {memory.manifest} :
          /\ memory' = [memory EXCEPT !.manifest = m]
          /\ thread' = [thread EXCEPT !.step = "write", !.manifest = m]
    BY <2>1
  <2>3. m \in Report!Packages /\ (m.missing \/ Untroubled) BY <2>2, PackageTells
  <2>4. Untroubled' = Untroubled BY <2>2 DEF Untroubled
  <2>5. QED BY <2>1, <2>2, <2>3, <2>4
<1>8. CASE Report!WritesJson
  <2>1. /\ disk' = [json |-> Report!Built(thread.run, thread.binding, thread.manifest),
                    ended |-> thread.run.status # "RUNNING", same |-> FALSE]
        /\ thread.step = "write" /\ memory' = memory
        /\ thread' = [Report!Idle EXCEPT !.step = "html"]
    BY <1>8 DEF Report!WritesJson
  <2>2. DOMAIN thread' = DOMAIN thread /\ thread'.step = "html" BY <2>1 DEF Report!Idle
  <2>3. Untroubled' = Untroubled BY <2>1 DEF Untroubled
  <2>4. BuiltOfRun'
    <3> SUFFICES ASSUME thread.run.status # "RUNNING"
                 PROVE  /\ memory.run # Report!NoResult
                        /\ \E b, m :
                             /\ disk'.json = Report!Built(Report!Shown(memory.run), b, m)
                             /\ m.missing \/ Untroubled
      BY <2>1, <2>3
    <3>1. thread.run # Report!Shown(Report!NoResult) BY ReportUnended
    <3>2. thread.run = Report!Shown(memory.run) /\ memory.run # Report!NoResult BY <2>1, <3>1
    <3>3. /\ disk'.json = Report!Built(Report!Shown(memory.run), thread.binding, thread.manifest)
          /\ thread.manifest.missing \/ Untroubled
      BY <2>1, <3>2
    <3>4. QED BY <3>2, <3>3
  <2>5. QED BY <2>1, <2>2, <2>3, <2>4
<1>9. CASE Report!WritesHtml
  BY <1>9 DEF Report!WritesHtml, Report!Idle, Untroubled
<1>10. CASE Report!Fails BY <1>10 DEF Report!Fails, Report!Idle, Untroubled
<1>11. CASE UNCHANGED Report!vars BY <1>11 DEF Report!vars, Untroubled
<1>12. QED
  BY <1>1, <1>2, <1>3, <1>4, <1>5, <1>6, <1>7, <1>8, <1>9, <1>10, <1>11 DEF Report!Next

\* The invariant of the report holds when reports are looked at.
ReportInv == service = "report" => ReportIInv

LEMMA ReportInvariant == Spec => []ReportInv
<1>1. Init => ReportInv BY ReportInits, ReportInit DEF ReportInv
<1>2. ReportInv /\ [Next]_vars => ReportInv' BY ReportSteps, ReportNext DEF ReportInv
<1>3. QED BY <1>1, <1>2, PTL DEF Spec

\* A report made of an ended run and the history, which is derived again whenever
\* it is read, say the same of the run: when the result, its logs, binding
\* results, packages and reports come in any order.
THEOREM ReportsAgree == Spec => []ReportAgreesWithHistory
<1>1. ReportInv => ReportAgreesWithHistory
  <2> SUFFICES ASSUME ReportIInv, disk.ended
               PROVE  disk.json.outcome = Report!OutcomeOf(Report!Shown(memory.run))
    BY DEF ReportInv, ReportAgreesWithHistory, Report!ReportAgreesWithHistory
  <2>1. PICK b, m :
          disk.json = Report!Built(Report!Shown(memory.run), b, m) /\ (m.missing \/ Untroubled)
    BY DEF ReportIInv, BuiltOfRun
  <2>2. QED BY <2>1 DEF Report!Built
<1>2. QED BY ReportInvariant, <1>1, PTL

\* What a report without a word of attention says.
LEMMA QuietReport ==
    ASSUME NEW r, NEW b, NEW m, Report!Attention(r, b, m) = {}
    PROVE  /\ Report!DiagnosisOf(r) = "success"
           /\ Report!TechnicalStatus(b.field, b.http) = "TECHNICALLY_MATCHED"
           /\ r.verdict = "expected_met"
           /\ ~m.missing
<1>1. /\ Report!DiagnosisOf(r) \notin {"failure", "undetermined"}
      /\ "MISMATCH" \notin {b.field, b.http} /\ "MISSING_DATA" \notin {b.field, b.http}
      /\ ~m.missing
  BY DEF Report!Attention
<1>2. QED BY <1>1 DEF Report!DiagnosisOf, Report!TechnicalStatus

\* A successful run that shows nothing else is shown as a success.
LEMMA ShownSuccess ==
    ASSUME NEW r, DOMAIN r = ReportFields, Report!Shown(r).verdict = "expected_met",
           ~r.signal, r.refused \in {"no", "named"}, r.status = "WAITING_FOR_REVIEW"
    PROVE  Report!OutcomeOf(Report!Shown(r)) = "success"
<1> DEFINE s == Report!Reconciled(r)
           shown == Report!Shown(r)
<1>1. DOMAIN s = ReportFields /\ s.signal = r.signal /\ s.refused = r.refused
  BY DEF Report!Reconciled, ReportFields
<1>2. shown = [s EXCEPT !.status = Report!ShownStatus(r)] BY DEF Report!Shown
<1>3. s.verdict = "expected_met" BY <1>1, <1>2 DEF ReportFields
<1>4. Report!ShownStatus(r) = "WAITING_FOR_REVIEW" BY <1>1, <1>3 DEF Report!ShownStatus
<1>5. /\ ~shown.signal /\ shown.refused \in {"no", "named"}
      /\ shown.status = "WAITING_FOR_REVIEW" /\ shown.verdict = "expected_met"
  BY <1>1, <1>2, <1>3, <1>4 DEF ReportFields
<1> HIDE DEF shown
<1>6. Report!OutcomeOf(shown) = "success" BY <1>5 DEF Report!OutcomeOf
<1>7. QED BY <1>6 DEF shown

\* A report that calls nothing to the reviewer's attention was made of a run that
\* neither failed nor was cancelled, met all that was expected of it, and saw every
\* field and response it should, however early its package and its binding result
\* were made; and its outcome is a success, but for a refusal by the server.
THEOREM QuietReports == Spec => []QuietReportIsClean
<1>1. ReportInv => QuietReportIsClean
  <2> SUFFICES ASSUME ReportIInv, disk.ended, disk.json.attention = {}
               PROVE  /\ disk.json.diagnosis = "success"
                      /\ disk.json.technical = "TECHNICALLY_MATCHED"
                      /\ memory.run.status = "WAITING_FOR_REVIEW"
                      /\ \/ disk.json.outcome = "success"
                         \/ memory.run.signal \/ memory.run.refused \in {"business", "http"}
    BY DEF ReportInv, QuietReportIsClean, Report!QuietReportIsClean
  <2>1. PICK b, m :
          disk.json = Report!Built(Report!Shown(memory.run), b, m) /\ (m.missing \/ Untroubled)
    BY DEF ReportIInv, BuiltOfRun
  <2>2. /\ disk.json.outcome = Report!OutcomeOf(Report!Shown(memory.run))
        /\ disk.json.diagnosis = Report!DiagnosisOf(Report!Shown(memory.run))
        /\ disk.json.technical = Report!TechnicalStatus(b.field, b.http)
        /\ Report!Attention(Report!Shown(memory.run), b, m) = {}
    BY <2>1 DEF Report!Built
  <2>3. /\ DOMAIN memory.run = ReportFields
        /\ memory.run.refused \in {"no", "named", "business", "http"}
        /\ Untroubled => memory.run.status = "WAITING_FOR_REVIEW"
    BY DEF ReportIInv, ReportShape, Untroubled
  <2>4. /\ Report!Shown(memory.run).verdict = "expected_met" /\ ~m.missing
        /\ Report!DiagnosisOf(Report!Shown(memory.run)) = "success"
        /\ Report!TechnicalStatus(b.field, b.http) = "TECHNICALLY_MATCHED"
    BY <2>2, QuietReport
  <2>5. memory.run.status = "WAITING_FOR_REVIEW" BY <2>1, <2>3, <2>4
  <2>6. QED BY <2>2, <2>3, <2>4, <2>5, ShownSuccess
<1>2. QED BY ReportInvariant, <1>1, PTL

-----------------------------------------------------------------------------
(* The evidence package.                                                   *)

FileSet == [Evidence!Artifact -> Nat]
Manifests == [integrity : {"none", "partial", "complete"}, read : Nat, listed : FileSet]
Callers ==
    [step : {"idle", "reset", "write", "list", "save", "forget"}, read : Nat,
     listed : FileSet, todo : SUBSET Evidence!Artifact]

EvidenceTypeOK ==
    /\ memory \in Manifests
    /\ disk \in [catalog : Manifests, files : FileSet, manifest : Manifests]
    /\ thread \in [Actor -> Callers]
    /\ past \in [takesInput : BOOLEAN, shots : 0..3, version : Nat \ {0}, restarts : Nat,
                 overlapped : BOOLEAN]

\* The files that a finalization writes.
Sourced == {Evidence!Records} \cup Evidence!Sources

\* Nothing else is ever among the files.
NoOthers ==
    /\ \A a \in Evidence!Artifact : disk.files[a] # 0 => a \in Sourced
    /\ \A c \in Actor : thread[c].todo \subseteq Sourced

\* As long as no two callers have been at work at once, one is at work at most.
OneAtWork ==
    ~past.overlapped =>
        \A c, d \in Actor : thread[c].step # "idle" /\ thread[d].step # "idle" => c = d

\* A manifest that is complete lists all files, and records as it has read them.
ListsAll(m) ==
    m.integrity = "complete" =>
        /\ Evidence!Expected \subseteq Evidence!Sources
        /\ \A a \in Sourced : m.listed[a] # 0
        /\ ~past.overlapped => m.listed[0] = m.read
AllList == ListsAll(memory) /\ ListsAll(disk.catalog) /\ ListsAll(disk.manifest)

\* A finalization lists what it has written, and has written what it is to list.
ListsWritten(c) ==
    /\ thread[c].step \in {"write", "list", "save"} =>
         /\ thread[c].read # 0
         /\ \A a \in Sourced : a \in thread[c].todo \/ thread[c].listed[a] # 0
         /\ ~past.overlapped /\ 0 \notin thread[c].todo =>
              thread[c].listed[0] = thread[c].read
    /\ thread[c].step = "save" => thread[c].todo = {}
    /\ thread[c].step = "list" =>
         /\ thread[c].todo # {}
         /\ ~past.overlapped /\ Evidence!NextFile(c) = 0 => disk.files[0] = thread[c].read
Finalizes == \A c \in Actor : ListsWritten(c)

EvidenceIInv == EvidenceTypeOK /\ NoOthers /\ OneAtWork /\ AllList /\ Finalizes

LEMMA EvidenceInit == Evidence!Init => EvidenceIInv
<1> SUFFICES ASSUME Evidence!Init PROVE EvidenceIInv OBVIOUS
<1>1. EvidenceTypeOK
  BY DEF Evidence!Init, EvidenceTypeOK, Manifests, Callers, FileSet, Evidence!NoManifest,
     Evidence!NoFiles, Evidence!Free
<1>2. NoOthers /\ OneAtWork /\ AllList /\ Finalizes
  BY DEF Evidence!Init, NoOthers, OneAtWork, AllList, ListsAll, Finalizes, ListsWritten, Evidence!NoManifest,
     Evidence!NoFiles, Evidence!Free
<1>3. QED BY <1>1, <1>2 DEF EvidenceIInv

\* The next file is one of those to do.
LEMMA EvidenceNextFile ==
    ASSUME EvidenceTypeOK, NEW c \in Actor, thread[c].todo # {}
    PROVE  Evidence!NextFile(c) \in thread[c].todo
<1> DEFINE todo == thread[c].todo
<1>1. todo \subseteq 0..3
  BY DEF EvidenceTypeOK, Callers, Evidence!Artifact, Evidence!Records, Evidence!Stages
<1>2. \E a \in todo : \A b \in todo : a <= b
  <2>1. CASE 0 \in todo BY <1>1, <2>1
  <2>2. CASE 0 \notin todo /\ 1 \in todo BY <1>1, <2>2
  <2>3. CASE 0 \notin todo /\ 1 \notin todo /\ 2 \in todo BY <1>1, <2>3
  <2>4. CASE 0 \notin todo /\ 1 \notin todo /\ 2 \notin todo BY <1>1, <2>4
  <2>5. QED BY <2>1, <2>2, <2>3, <2>4
<1> HIDE DEF todo
<1>3. (CHOOSE a \in todo : \A b \in todo : a <= b) \in todo BY <1>2
<1>4. QED BY <1>3 DEF todo, Evidence!NextFile

\* The files of the run: its sources are the screenshots it should have, or none.
LEMMA EvidenceSources ==
    ASSUME EvidenceTypeOK
    PROVE  /\ Sourced \subseteq Evidence!Artifact /\ 0 \in Sourced
           /\ Evidence!Sources \subseteq Evidence!Expected
BY DEF EvidenceTypeOK, Sourced, Evidence!Sources, Evidence!Expected, Evidence!Stages,
   Evidence!Artifact, Evidence!Records

\* The types of what the actions assign.
LEMMA NoEvidence ==
    /\ Evidence!NoManifest \in Manifests /\ Evidence!NoFiles \in FileSet
    /\ [Evidence!NoManifest EXCEPT !.integrity = "partial"] \in Manifests
    /\ Evidence!Free \in Callers
BY DEF Manifests, FileSet, Callers, Evidence!NoManifest, Evidence!NoFiles, Evidence!Free

LEMMA EvidenceManifest ==
    ASSUME EvidenceTypeOK, NEW c \in Actor
    PROVE  Evidence!Manifest(c) \in Manifests
BY DEF EvidenceTypeOK, Callers, Manifests, Evidence!Manifest

LEMMA EvidencePast ==
    ASSUME EvidenceTypeOK, NEW c \in Actor,
           past' = [past EXCEPT !.overlapped = @ \/ Evidence!Others(c)]
    PROVE  /\ past' \in [takesInput : BOOLEAN, shots : 0..3, version : Nat \ {0},
                         restarts : Nat, overlapped : BOOLEAN]
           /\ past'.takesInput = past.takesInput /\ past'.shots = past.shots
           /\ past'.overlapped <=> past.overlapped \/ Evidence!Others(c)
<1>1. PICK b \in BOOLEAN : b = (past.overlapped \/ Evidence!Others(c)) BY Zenon
<1>2. past' = [past EXCEPT !.overlapped = b] BY <1>1
<1>3. QED BY <1>1, <1>2 DEF EvidenceTypeOK

LEMMA EvidenceTypes ==
    ASSUME EvidenceTypeOK, NoOthers, [Evidence!Next]_(Evidence!vars)
    PROVE  /\ EvidenceTypeOK'
           /\ past'.takesInput = past.takesInput /\ past'.shots = past.shots
<1> USE DEF EvidenceTypeOK, Evidence!At, Evidence!Becomes
<1>1. CASE Evidence!Changes BY <1>1 DEF Evidence!Changes
<1>2. CASE Evidence!Restart BY <1>2, NoEvidence DEF Evidence!Restart
<1>3. ASSUME NEW c \in Actor, Evidence!Begins(c)
      PROVE  EvidenceTypeOK' /\ past'.takesInput = past.takesInput /\ past'.shots = past.shots
  <2>1. [Evidence!Free EXCEPT !.step = "reset"] \in Callers BY NoEvidence DEF Callers
  <2>2. QED BY <1>3, <2>1, EvidencePast DEF Evidence!Begins
<1>4. ASSUME NEW c \in Actor, Evidence!Resets(c)
      PROVE  EvidenceTypeOK' /\ past'.takesInput = past.takesInput /\ past'.shots = past.shots
  <2>1. {Evidence!Records} \cup Evidence!Sources \subseteq Evidence!Artifact
    BY EvidenceSources DEF Sourced
  <2>2. thread' \in [Actor -> Callers] BY <1>4, <2>1 DEF Evidence!Resets, Callers
  <2>3. QED BY <1>4, <2>2, NoEvidence DEF Evidence!Resets
<1>5. ASSUME NEW c \in Actor, Evidence!Writes(c)
      PROVE  EvidenceTypeOK' /\ past'.takesInput = past.takesInput /\ past'.shots = past.shots
  <2> DEFINE a == Evidence!NextFile(c)
             n == IF a = Evidence!Records THEN thread[c].read ELSE 1
  <2>1. disk' = [disk EXCEPT !.files = [disk.files EXCEPT ![a] = n]]
    BY <1>5 DEF Evidence!Writes
  <2>2. n \in Nat BY DEF Callers
  <2> HIDE DEF n
  <2>3. [disk.files EXCEPT ![a] = n] \in FileSet BY <2>2 DEF FileSet
  <2>4. thread' \in [Actor -> Callers] BY <1>5 DEF Evidence!Writes, Callers
  <2>5. QED BY <1>5, <2>1, <2>3, <2>4 DEF Evidence!Writes
<1>6. ASSUME NEW c \in Actor, Evidence!Lists(c)
      PROVE  EvidenceTypeOK' /\ past'.takesInput = past.takesInput /\ past'.shots = past.shots
  <2> DEFINE a == Evidence!NextFile(c)
             listed == [thread[c].listed EXCEPT ![a] = disk.files[a]]
             todo == thread[c].todo \ {a}
  <2>1. thread' = [thread EXCEPT ![c] =
                     [thread[c] EXCEPT !.step = "write", !.listed = listed, !.todo = todo]]
    BY <1>6 DEF Evidence!Lists
  <2>2. listed \in FileSet
    <3>1. thread[c].listed \in [Evidence!Artifact -> Nat]
          /\ disk.files \in [Evidence!Artifact -> Nat]
      BY DEF Callers, FileSet
    <3>2. CASE a \in Evidence!Artifact BY <3>1, <3>2 DEF FileSet
    <3>3. CASE a \notin Evidence!Artifact
      <4>1. listed = thread[c].listed BY <3>1, <3>3
      <4>2. QED BY <3>1, <4>1 DEF FileSet
    <3>4. QED BY <3>2, <3>3
  <2>3. todo \subseteq Evidence!Artifact BY DEF Callers
  <2> HIDE DEF listed, todo
  <2>4. thread' \in [Actor -> Callers] BY <2>1, <2>2, <2>3 DEF Callers
  <2>5. QED BY <1>6, <2>4 DEF Evidence!Lists
<1>7. ASSUME NEW c \in Actor, Evidence!WritesManifest(c)
      PROVE  EvidenceTypeOK' /\ past'.takesInput = past.takesInput /\ past'.shots = past.shots
  BY <1>7, EvidenceManifest DEF Evidence!WritesManifest, Callers
<1>8. ASSUME NEW c \in Actor, Evidence!SavesManifest(c)
      PROVE  EvidenceTypeOK' /\ past'.takesInput = past.takesInput /\ past'.shots = past.shots
  BY <1>8, EvidenceManifest, NoEvidence DEF Evidence!SavesManifest
<1>9. ASSUME NEW c \in Actor, Evidence!Fails(c)
      PROVE  EvidenceTypeOK' /\ past'.takesInput = past.takesInput /\ past'.shots = past.shots
  BY <1>9, NoEvidence DEF Evidence!Fails
<1>10. ASSUME NEW c \in Actor, Evidence!DeletesPackage(c)
       PROVE  EvidenceTypeOK' /\ past'.takesInput = past.takesInput /\ past'.shots = past.shots
  <2>1. [Evidence!Free EXCEPT !.step = "forget"] \in Callers BY NoEvidence DEF Callers
  <2>2. QED BY <1>10, <2>1, NoEvidence, EvidencePast DEF Evidence!DeletesPackage
<1>11. ASSUME NEW c \in Actor, Evidence!DeletesManifest(c)
       PROVE  EvidenceTypeOK' /\ past'.takesInput = past.takesInput /\ past'.shots = past.shots
  BY <1>11, NoEvidence DEF Evidence!DeletesManifest
<1>12. CASE UNCHANGED Evidence!vars BY <1>12 DEF Evidence!vars
<1>13. QED
  BY <1>1, <1>2, <1>3, <1>4, <1>5, <1>6, <1>7, <1>8, <1>9, <1>10, <1>11, <1>12
     DEF Evidence!Next

\* What a step of a caller leaves alone: the other callers.
LEMMA EvidenceStep ==
    ASSUME EvidenceTypeOK, NEW c \in Actor, NEW t, Evidence!Becomes(c, t)
    PROVE  /\ thread'[c] = t
           /\ \A d \in Actor \ {c} : thread'[d] = thread[d]
BY DEF EvidenceTypeOK, Evidence!Becomes

LEMMA EvidenceNoOthers ==
    ASSUME EvidenceTypeOK, NoOthers, [Evidence!Next]_(Evidence!vars) PROVE NoOthers'
<1>0. Sourced' = Sourced /\ EvidenceTypeOK'
  BY EvidenceTypes DEF Sourced, Evidence!Sources
<1> USE DEF NoOthers, Evidence!At
<1> SUFFICES /\ \A a \in Evidence!Artifact : disk'.files[a] # 0 => a \in Sourced
             /\ \A c \in Actor : thread'[c].todo \subseteq Sourced
  BY <1>0
<1>1. CASE Evidence!Changes BY <1>1 DEF Evidence!Changes
<1>2. CASE Evidence!Restart BY <1>2 DEF Evidence!Restart, Evidence!Free
<1>3. ASSUME NEW c \in Actor, NEW t, Evidence!Becomes(c, t), t.todo \subseteq Sourced,
             disk'.files = disk.files \/ disk'.files = Evidence!NoFiles
      PROVE  /\ \A a \in Evidence!Artifact : disk'.files[a] # 0 => a \in Sourced
             /\ \A d \in Actor : thread'[d].todo \subseteq Sourced
  <2>1. \A d \in Actor : thread'[d].todo \subseteq Sourced BY <1>3, EvidenceStep
  <2>2. QED BY <1>3, <2>1 DEF Evidence!NoFiles
<1>4. ASSUME NEW c \in Actor, Evidence!Begins(c) PROVE NoOthers'
  BY <1>0, <1>3, <1>4 DEF Evidence!Begins, Evidence!Free
<1>5. ASSUME NEW c \in Actor, Evidence!Resets(c) PROVE NoOthers'
  <2>1. [thread[c] EXCEPT !.step = "write", !.read = past.version,
                          !.todo = {Evidence!Records} \cup Evidence!Sources].todo = Sourced
    BY DEF Sourced, EvidenceTypeOK, Callers
  <2>2. disk'.files = Evidence!NoFiles BY <1>5 DEF Evidence!Resets, EvidenceTypeOK
  <2>3. QED BY <1>0, <1>3, <1>5, <2>1, <2>2 DEF Evidence!Resets
<1>6. ASSUME NEW c \in Actor, Evidence!Writes(c) PROVE NoOthers'
  <2>1. Evidence!NextFile(c) \in Sourced BY <1>6, EvidenceNextFile DEF Evidence!Writes
  <2>2. \A a \in Evidence!Artifact \ {Evidence!NextFile(c)} : disk'.files[a] = disk.files[a]
    BY <1>6 DEF Evidence!Writes, EvidenceTypeOK, FileSet
  <2>3. thread'[c].todo = thread[c].todo
    BY <1>6 DEF Evidence!Writes, Evidence!Becomes, EvidenceTypeOK, Callers
  <2>4. \A d \in Actor : d # c => thread'[d] = thread[d]
    BY <1>6 DEF Evidence!Writes, Evidence!Becomes, EvidenceTypeOK
  <2>5. QED BY <1>0, <2>1, <2>2, <2>3, <2>4
<1>7. ASSUME NEW c \in Actor, Evidence!Lists(c) PROVE NoOthers'
  <2>1. [thread[c] EXCEPT
           !.step = "write", !.listed[Evidence!NextFile(c)] = disk.files[Evidence!NextFile(c)],
           !.todo = @ \ {Evidence!NextFile(c)}].todo \subseteq Sourced
    BY DEF EvidenceTypeOK, Callers
  <2>2. QED BY <1>0, <1>3, <1>7, <2>1 DEF Evidence!Lists
<1>8. ASSUME NEW c \in Actor, Evidence!WritesManifest(c) PROVE NoOthers'
  <2>1. [thread[c] EXCEPT !.step = "save"].todo \subseteq Sourced
        /\ disk'.files = disk.files
    BY <1>8 DEF EvidenceTypeOK, Callers, Evidence!WritesManifest
  <2>2. QED BY <1>0, <1>3, <1>8, <2>1 DEF Evidence!WritesManifest
<1>9. ASSUME NEW c \in Actor,
             Evidence!SavesManifest(c) \/ Evidence!Fails(c) \/ Evidence!DeletesManifest(c)
      PROVE  NoOthers'
  <2>1. Evidence!Becomes(c, Evidence!Free) /\ disk'.files = disk.files
    BY <1>9 DEF Evidence!SavesManifest, Evidence!Fails, Evidence!DeletesManifest,
       EvidenceTypeOK
  <2>2. QED BY <1>0, <1>3, <2>1 DEF Evidence!Free
<1>10. ASSUME NEW c \in Actor, Evidence!DeletesPackage(c) PROVE NoOthers'
  <2>1. disk'.files = Evidence!NoFiles BY <1>10 DEF Evidence!DeletesPackage, EvidenceTypeOK
  <2>2. QED BY <1>0, <1>3, <1>10, <2>1 DEF Evidence!DeletesPackage, Evidence!Free
<1>11. CASE UNCHANGED Evidence!vars BY <1>11 DEF Evidence!vars
<1>12. QED
  BY <1>0, <1>1, <1>2, <1>4, <1>5, <1>6, <1>7, <1>8, <1>9, <1>10, <1>11 DEF Evidence!Next

LEMMA EvidenceOneAtWork ==
    ASSUME EvidenceTypeOK, NoOthers, OneAtWork, [Evidence!Next]_(Evidence!vars)
    PROVE  OneAtWork'
<1> USE DEF OneAtWork, Evidence!At
<1>1. CASE Evidence!Changes BY <1>1 DEF Evidence!Changes, EvidenceTypeOK
<1>2. CASE Evidence!Restart BY <1>2 DEF Evidence!Restart, Evidence!Free
\* A caller begins when the others are idle.
<1>3. ASSUME NEW c \in Actor, Evidence!Begins(c) \/ Evidence!DeletesPackage(c)
      PROVE  OneAtWork'
  <2>1. past' = [past EXCEPT !.overlapped = @ \/ Evidence!Others(c)]
    BY <1>3 DEF Evidence!Begins, Evidence!DeletesPackage
  <2>2. past'.overlapped <=> past.overlapped \/ Evidence!Others(c) BY <2>1, EvidencePast
  <2>3. \A d \in Actor \ {c} : thread'[d] = thread[d]
    BY <1>3, EvidenceStep DEF Evidence!Begins, Evidence!DeletesPackage
  <2>4. ~past'.overlapped => \A d \in Actor \ {c} : thread'[d].step = "idle"
    BY <2>2, <2>3 DEF Evidence!Others
  <2>5. QED BY <2>4
\* Only one that is not idle does anything else.
<1>4. ASSUME NEW c \in Actor, NEW t, Evidence!Becomes(c, t), thread[c].step # "idle",
             past' = past
      PROVE  OneAtWork'
  BY <1>4, EvidenceStep
<1>5. ASSUME NEW c \in Actor,
             \/ Evidence!Resets(c) \/ Evidence!Writes(c) \/ Evidence!Lists(c)
             \/ Evidence!WritesManifest(c) \/ Evidence!SavesManifest(c) \/ Evidence!Fails(c)
             \/ Evidence!DeletesManifest(c)
      PROVE  OneAtWork'
  <2>1. past' = past /\ thread[c].step # "idle"
    BY <1>5 DEF Evidence!Resets, Evidence!Writes, Evidence!Lists, Evidence!WritesManifest,
       Evidence!SavesManifest, Evidence!Fails, Evidence!DeletesManifest
  <2>2. \E t : Evidence!Becomes(c, t)
    BY <1>5 DEF Evidence!Resets, Evidence!Writes, Evidence!Lists, Evidence!WritesManifest,
       Evidence!SavesManifest, Evidence!Fails, Evidence!DeletesManifest
  <2>3. QED BY <1>4, <2>1, <2>2
<1>6. CASE UNCHANGED Evidence!vars BY <1>6 DEF Evidence!vars
<1>7. QED BY <1>1, <1>2, <1>3, <1>5, <1>6 DEF Evidence!Next

LEMMA EvidenceAllList ==
    ASSUME EvidenceIInv, [Evidence!Next]_(Evidence!vars) PROVE AllList'
<1>0. /\ EvidenceTypeOK /\ EvidenceTypeOK'
      /\ Sourced' = Sourced /\ Evidence!Sources' = Evidence!Sources
      /\ Evidence!Expected' = Evidence!Expected
  BY EvidenceTypes DEF EvidenceIInv, Sourced, Evidence!Sources, Evidence!Expected
<1>1. past.overlapped => past'.overlapped
  <2>1. ASSUME NEW c \in Actor, Evidence!Begins(c) \/ Evidence!DeletesPackage(c)
        PROVE  past.overlapped => past'.overlapped
    BY <1>0, <2>1, EvidencePast DEF Evidence!Begins, Evidence!DeletesPackage
  <2>2. CASE \/ Evidence!Changes \/ Evidence!Restart
             \/ \E c \in Actor :
                  \/ Evidence!Resets(c) \/ Evidence!Writes(c) \/ Evidence!Lists(c)
                  \/ Evidence!WritesManifest(c) \/ Evidence!SavesManifest(c)
                  \/ Evidence!Fails(c) \/ Evidence!DeletesManifest(c)
    BY <1>0, <2>2 DEF Evidence!Changes, Evidence!Restart, Evidence!Resets, Evidence!Writes,
       Evidence!Lists, Evidence!WritesManifest, Evidence!SavesManifest, Evidence!Fails,
       Evidence!DeletesManifest, EvidenceTypeOK
  <2>3. CASE UNCHANGED Evidence!vars BY <2>3 DEF Evidence!vars
  <2>4. QED BY <2>1, <2>2, <2>3 DEF Evidence!Next
<1>2. ASSUME NEW c \in Actor, thread[c].todo = {}, thread[c].step \in {"write", "save"}
      PROVE  ListsAll(Evidence!Manifest(c))
  BY <1>2 DEF EvidenceIInv, Finalizes, ListsWritten, ListsAll, Evidence!Manifest
<1>3. /\ ListsAll(Evidence!NoManifest)
      /\ ListsAll([Evidence!NoManifest EXCEPT !.integrity = "partial"])
      /\ ListsAll(memory) /\ ListsAll(disk.catalog) /\ ListsAll(disk.manifest)
  BY DEF EvidenceIInv, AllList, ListsAll, Evidence!NoManifest
\* A manifest is as it was, lists nothing, or is that of a finalization.
<1>4. ListsAll(memory') /\ ListsAll(disk'.catalog) /\ ListsAll(disk'.manifest)
  <2> USE DEF EvidenceTypeOK, Evidence!At
  <2>1. CASE Evidence!Changes BY <1>3, <2>1 DEF Evidence!Changes
  <2>2. CASE Evidence!Restart BY <1>3, <2>2 DEF Evidence!Restart
  <2>3. ASSUME NEW c \in Actor,
               \/ Evidence!Begins(c) \/ Evidence!Writes(c) \/ Evidence!Lists(c)
        PROVE  memory' = memory /\ disk'.catalog = disk.catalog /\ disk'.manifest = disk.manifest
    BY <1>0, <2>3 DEF Evidence!Begins, Evidence!Writes, Evidence!Lists
  <2>4. ASSUME NEW c \in Actor, Evidence!Resets(c) \/ Evidence!DeletesPackage(c)
        PROVE  /\ memory' = memory /\ disk'.catalog = disk.catalog
               /\ disk'.manifest = Evidence!NoManifest
    BY <1>0, <2>4 DEF Evidence!Resets, Evidence!DeletesPackage
  <2>5. ASSUME NEW c \in Actor, Evidence!WritesManifest(c)
        PROVE  ListsAll(memory') /\ ListsAll(disk'.catalog) /\ ListsAll(disk'.manifest)
    <3>1. /\ memory' = memory /\ disk'.catalog = disk.catalog
          /\ disk'.manifest = Evidence!Manifest(c)
      BY <1>0, <2>5 DEF Evidence!WritesManifest
    <3>2. ListsAll(Evidence!Manifest(c)) BY <1>2, <2>5 DEF Evidence!WritesManifest
    <3>3. QED BY <1>3, <3>1, <3>2
  <2>6. ASSUME NEW c \in Actor, Evidence!SavesManifest(c)
        PROVE  ListsAll(memory') /\ ListsAll(disk'.catalog) /\ ListsAll(disk'.manifest)
    <3>1. /\ memory' = Evidence!Manifest(c) /\ disk'.catalog = Evidence!Manifest(c)
          /\ disk'.manifest = disk.manifest
      BY <1>0, <2>6 DEF Evidence!SavesManifest
    <3>2. thread[c].todo = {} /\ thread[c].step = "save"
      BY <2>6 DEF Evidence!SavesManifest, EvidenceIInv, Finalizes, ListsWritten
    <3>3. ListsAll(Evidence!Manifest(c)) BY <1>2, <3>2
    <3>4. QED BY <1>3, <3>1, <3>3
  <2>7. ASSUME NEW c \in Actor, Evidence!Fails(c)
        PROVE  /\ memory' = [Evidence!NoManifest EXCEPT !.integrity = "partial"]
               /\ disk'.catalog = memory' /\ disk'.manifest = disk.manifest
    BY <1>0, <2>7 DEF Evidence!Fails
  <2>8. ASSUME NEW c \in Actor, Evidence!DeletesManifest(c)
        PROVE  /\ memory' = Evidence!NoManifest /\ disk'.catalog = Evidence!NoManifest
               /\ disk'.manifest = disk.manifest
    BY <1>0, <2>8 DEF Evidence!DeletesManifest
  <2>9. CASE UNCHANGED Evidence!vars BY <1>3, <2>9 DEF Evidence!vars
  <2>10. QED
    BY <1>3, <2>1, <2>2, <2>3, <2>4, <2>5, <2>6, <2>7, <2>8, <2>9 DEF Evidence!Next
<1>5. QED BY <1>0, <1>1, <1>4 DEF AllList, ListsAll

\* What another caller does, a finalization does not notice, when no two callers
\* have been at work at once.
LEMMA EvidenceUnnoticed ==
    ASSUME EvidenceTypeOK, NEW d \in Actor, ListsWritten(d), thread'[d] = thread[d],
           Sourced' = Sourced, past.overlapped => past'.overlapped,
           disk'.files = disk.files \/ past'.overlapped \/ thread[d].step = "idle"
    PROVE  ListsWritten(d)'
<1>1. Evidence!NextFile(d)' = Evidence!NextFile(d) BY DEF Evidence!NextFile
<1>2. CASE thread[d].step = "idle" BY <1>2 DEF ListsWritten
<1>3. CASE disk'.files = disk.files BY <1>1, <1>3 DEF ListsWritten
<1>4. CASE past'.overlapped BY <1>1, <1>4 DEF ListsWritten
<1>5. QED BY <1>2, <1>3, <1>4

LEMMA EvidenceFinalizes ==
    ASSUME EvidenceIInv, [Evidence!Next]_(Evidence!vars) PROVE Finalizes'
<1>0. /\ EvidenceTypeOK /\ EvidenceTypeOK' /\ Sourced' = Sourced
      /\ Sourced \subseteq Evidence!Artifact /\ 0 \in Sourced
  BY EvidenceTypes, EvidenceSources DEF EvidenceIInv, Sourced, Evidence!Sources
<1> USE DEF Evidence!At
<1> SUFFICES ASSUME NEW d \in Actor PROVE ListsWritten(d)' BY DEF Finalizes
<1>1. ListsWritten(d) BY DEF EvidenceIInv, Finalizes
<1>2. CASE Evidence!Changes
  <2>1. UNCHANGED <<disk, thread>> /\ past'.overlapped = past.overlapped
    BY <1>0, <1>2 DEF Evidence!Changes, EvidenceTypeOK
  <2>2. QED BY <1>0, <1>1, <2>1, EvidenceUnnoticed
<1>3. CASE Evidence!Restart
  BY <1>0, <1>3 DEF Evidence!Restart, Evidence!Free, ListsWritten
<1>4. ASSUME NEW c \in Actor, Evidence!Begins(c) \/ Evidence!DeletesPackage(c)
      PROVE  ListsWritten(d)'
  <2>1. past'.overlapped <=> past.overlapped \/ Evidence!Others(c)
    BY <1>0, <1>4, EvidencePast DEF Evidence!Begins, Evidence!DeletesPackage
  <2>2. CASE d = c
    BY <1>0, <1>4, <2>2, EvidenceStep
       DEF Evidence!Begins, Evidence!DeletesPackage, Evidence!Free, ListsWritten
  <2>3. CASE d # c
    <3>1. thread'[d] = thread[d]
      BY <1>0, <1>4, <2>3, EvidenceStep DEF Evidence!Begins, Evidence!DeletesPackage
    <3>2. past'.overlapped \/ thread[d].step = "idle" BY <2>1, <2>3 DEF Evidence!Others
    <3>3. QED BY <1>0, <1>1, <2>1, <3>1, <3>2, EvidenceUnnoticed
  <2>4. QED BY <2>2, <2>3
\* One that is at work is alone, or callers have been at work at once.
<1>5. ASSUME NEW c \in Actor, NEW t, Evidence!Becomes(c, t), d # c, past' = past,
             thread[c].step # "idle"
      PROVE  ListsWritten(d)'
  <2>1. thread'[d] = thread[d] BY <1>0, <1>5, EvidenceStep
  <2>2. past'.overlapped \/ thread[d].step = "idle"
    BY <1>5 DEF EvidenceIInv, OneAtWork
  <2>3. QED BY <1>0, <1>1, <1>5, <2>1, <2>2, EvidenceUnnoticed
<1>6. CASE Evidence!Resets(d)
  <2>1. /\ thread'[d].step = "write" /\ thread'[d].read = past.version
        /\ thread'[d].todo = Sourced
    <3>1. thread'[d] = [thread[d] EXCEPT !.step = "write", !.read = past.version,
                                         !.todo = Sourced]
      BY <1>0, <1>6, EvidenceStep DEF Evidence!Resets, Sourced
    <3>2. thread[d] \in Callers BY <1>0 DEF EvidenceTypeOK
    <3>3. QED BY <3>1, <3>2 DEF Callers
  <2>2. QED BY <1>0, <2>1 DEF ListsWritten, EvidenceTypeOK
<1>7. CASE Evidence!Writes(d)
  <2> DEFINE a == Evidence!NextFile(d)
  <2>1. /\ thread'[d] = [thread[d] EXCEPT !.step = "list"] /\ past' = past
        /\ thread[d].step = "write" /\ thread[d].todo # {}
        /\ disk' = [disk EXCEPT !.files[a] =
                      IF a = Evidence!Records THEN thread[d].read ELSE 1]
    BY <1>0, <1>7, EvidenceStep DEF Evidence!Writes
  <2>2. /\ thread'[d].read = thread[d].read /\ thread'[d].listed = thread[d].listed
        /\ thread'[d].todo = thread[d].todo /\ thread'[d].step = "list"
    BY <1>0, <2>1 DEF EvidenceTypeOK, Callers
  <2>3. Evidence!NextFile(d)' = a BY <2>2 DEF Evidence!NextFile
  <2> HIDE DEF a
  <2>4. a = 0 => disk'.files[0] = thread[d].read
    BY <1>0, <2>1 DEF EvidenceTypeOK, FileSet, Evidence!Records, Evidence!Artifact
  <2>5. QED BY <1>0, <1>1, <2>1, <2>2, <2>3, <2>4 DEF ListsWritten
<1>8. CASE Evidence!Lists(d)
  <2> DEFINE a == Evidence!NextFile(d)
  <2>1. /\ thread'[d] = [thread[d] EXCEPT !.step = "write", !.listed[a] = disk.files[a],
                                          !.todo = @ \ {a}]
        /\ past' = past /\ thread[d].step = "list" /\ disk.files[a] # 0 /\ disk' = disk
    BY <1>0, <1>8, EvidenceStep DEF Evidence!Lists
  <2> HIDE DEF a
  <2>2. /\ thread'[d].read = thread[d].read /\ thread'[d].step = "write"
        /\ thread'[d].listed = [thread[d].listed EXCEPT ![a] = disk.files[a]]
        /\ thread'[d].todo = thread[d].todo \ {a}
    BY <1>0, <2>1 DEF EvidenceTypeOK, Callers
  <2>3. thread[d].listed \in [Evidence!Artifact -> Nat]
    BY <1>0 DEF EvidenceTypeOK, Callers, FileSet
  <2>4. /\ thread[d].read # 0
        /\ \A b \in Sourced : b \in thread[d].todo \/ thread[d].listed[b] # 0
        /\ ~past.overlapped /\ 0 \notin thread[d].todo => thread[d].listed[0] = thread[d].read
        /\ ~past.overlapped /\ a = 0 => disk.files[0] = thread[d].read
    BY <1>1, <2>1 DEF ListsWritten, a
  <2>5. \A b \in Sourced : b \in thread'[d].todo \/ thread'[d].listed[b] # 0
    BY <1>0, <2>1, <2>2, <2>3, <2>4
  <2>6. ~past.overlapped /\ 0 \notin thread'[d].todo => thread'[d].listed[0] = thread[d].read
    BY <1>0, <2>2, <2>3, <2>4
  <2>7. QED BY <1>0, <2>1, <2>2, <2>4, <2>5, <2>6 DEF ListsWritten
<1>9. CASE Evidence!WritesManifest(d)
  <2>1. /\ thread'[d] = [thread[d] EXCEPT !.step = "save"] /\ past' = past
        /\ thread[d].step = "write" /\ thread[d].todo = {}
    BY <1>0, <1>9, EvidenceStep DEF Evidence!WritesManifest
  <2>2. /\ thread'[d].read = thread[d].read /\ thread'[d].listed = thread[d].listed
        /\ thread'[d].todo = thread[d].todo /\ thread'[d].step = "save"
    BY <1>0, <2>1 DEF EvidenceTypeOK, Callers
  <2>3. QED BY <1>0, <1>1, <2>1, <2>2 DEF ListsWritten
<1>10. CASE Evidence!SavesManifest(d) \/ Evidence!Fails(d) \/ Evidence!DeletesManifest(d)
  BY <1>0, <1>10, EvidenceStep DEF Evidence!SavesManifest, Evidence!Fails,
     Evidence!DeletesManifest, Evidence!Free, ListsWritten
<1>11. ASSUME NEW c \in Actor, c # d,
              \/ Evidence!Resets(c) \/ Evidence!Writes(c) \/ Evidence!Lists(c)
              \/ Evidence!WritesManifest(c) \/ Evidence!SavesManifest(c) \/ Evidence!Fails(c)
              \/ Evidence!DeletesManifest(c)
       PROVE  ListsWritten(d)'
  <2>1. past' = past /\ thread[c].step # "idle"
    BY <1>11 DEF Evidence!Resets, Evidence!Writes, Evidence!Lists, Evidence!WritesManifest,
       Evidence!SavesManifest, Evidence!Fails, Evidence!DeletesManifest
  <2>2. \E t : Evidence!Becomes(c, t)
    BY <1>11 DEF Evidence!Resets, Evidence!Writes, Evidence!Lists, Evidence!WritesManifest,
       Evidence!SavesManifest, Evidence!Fails, Evidence!DeletesManifest
  <2>3. QED BY <1>5, <1>11, <2>1, <2>2
<1>12. CASE UNCHANGED Evidence!vars
  BY <1>0, <1>1, <1>12, EvidenceUnnoticed DEF Evidence!vars
<1>13. QED
  BY <1>2, <1>3, <1>4, <1>6, <1>7, <1>8, <1>9, <1>10, <1>11, <1>12 DEF Evidence!Next

\* The invariant of the package holds when evidence packages are looked at.
EvidenceInv == service = "evidence" => EvidenceIInv

LEMMA EvidenceInvariant == Spec => []EvidenceInv
<1>1. Init => EvidenceInv BY ReportInits, EvidenceInit DEF EvidenceInv
<1>2. EvidenceInv /\ [Next]_vars => EvidenceInv'
  <2> SUFFICES ASSUME EvidenceInv, [Next]_vars, service' = "evidence" PROVE EvidenceIInv'
    BY DEF EvidenceInv
  <2>1. EvidenceIInv /\ [Evidence!Next]_(Evidence!vars) BY ReportSteps DEF EvidenceInv
  <2>2. EvidenceTypeOK /\ NoOthers /\ OneAtWork BY <2>1 DEF EvidenceIInv
  <2>3. QED
    BY <2>1, <2>2, EvidenceTypes, EvidenceNoOthers, EvidenceOneAtWork, EvidenceAllList,
       EvidenceFinalizes
       DEF EvidenceIInv
<1>3. QED BY <1>1, <1>2, PTL DEF Spec

\* A package that is reported complete holds every screenshot the run should have,
\* its records, and no other file, whatever failed, was deleted or cut off, and
\* however many were at work on it at once; and the records as one finalization
\* read them, unless two were at work at once.
THEOREM CompletePackages == Spec => []CompleteIsWhole
<1>1. EvidenceInv => CompleteIsWhole
  <2> SUFFICES ASSUME EvidenceIInv, Evidence!Reported = "complete"
               PROVE  /\ {a \in Evidence!Artifact : disk.files[a] # 0}
                           = {Evidence!Records} \cup Evidence!Expected
                      /\ ~past.overlapped => disk.files[Evidence!Records] = Evidence!Found.read
    BY DEF EvidenceInv, CompleteIsWhole, Evidence!CompleteIsWhole
  <2> DEFINE m == Evidence!Found
  <2>1. ~Evidence!Corrupted(m) /\ m.integrity = "complete" BY DEF Evidence!Reported
  <2>2. ListsAll(m) BY DEF EvidenceIInv, AllList, Evidence!Found
  <2> HIDE DEF m
  <2>3. /\ Evidence!Expected \subseteq Evidence!Sources
        /\ \A a \in Sourced : m.listed[a] # 0
        /\ ~past.overlapped => m.listed[0] = m.read
    BY <2>1, <2>2 DEF ListsAll
  <2>4. /\ Sourced \subseteq Evidence!Artifact /\ 0 \in Sourced
        /\ Sourced = {Evidence!Records} \cup Evidence!Expected
    BY <2>3, EvidenceSources DEF EvidenceIInv, Sourced
  <2>5. \A a \in Sourced : disk.files[a] = m.listed[a]
    BY <2>1, <2>3, <2>4 DEF Evidence!Corrupted
  <2>6. \A a \in Evidence!Artifact : disk.files[a] # 0 <=> a \in Sourced
    BY <2>3, <2>4, <2>5 DEF EvidenceIInv, NoOthers
  <2>7. QED BY <2>3, <2>4, <2>5, <2>6 DEF m, Evidence!Records
<1>2. QED BY EvidenceInvariant, <1>1, PTL

=============================================================================
