--------------------------- MODULE BootImportProofs ---------------------------
(***************************************************************************)
(* Theorems about BootImport, for any sources, selections, racks, numbers  *)
(* of attempts and failures.                                               *)
(*                                                                         *)
(* That the images are there is an argument about the order of imports: an *)
(* import that runs while no state waits for it is the one MaaS began on   *)
(* its own, of what was selected then.  The states that join it, and the   *)
(* first that begins another, leave nothing unfetched once the state of    *)
(* the region has succeeded.                                               *)
(***************************************************************************)
EXTENDS BootImport, TLAPS

\* Which states have which places in their code.
PointInv ==
  /\ at = "warmup" => task = Login
  /\ at \in {"create", "purge", "delete"} => task \in SourceTasks
  /\ at \in {"look", "post"} => task \in SelectTasks
  /\ at = "import" => task \in SelectTasks \union {Region}
  /\ at = "idle" => task \in SourceTasks \union SelectTasks \union {Region}
  /\ at \in {"sync", "rack"} => task = AllRacks

\* States succeed after their requisites.
OrderInv ==
  /\ task # NoTask => result[task] = "todo" /\ \A r \in Requires(task) : result[r] = "ok"
  /\ \A t \in Tasks : result[t] = "ok" => \A r \in Requires(t) : result[r] = "ok"
  /\ phase = "done" => task = NoTask /\ \A t \in Tasks : result[t] = "ok"

\* A source that was created stays; one that has succeeded has removed
\* the others, if it was to.
SourceInv ==
  /\ task \in SourceTasks /\ at # "create" => task[2] \in sources
  /\ \A u \in Sources : result[Source(u)] = "ok"
       => (DeleteOthers => sources \subseteq Sources) /\ u \in sources

RestInv == clean /\ at = "delete" => import = "no"

SelectInv ==
  /\ task \in SelectTasks /\ at \in {"import", "idle"} => task[2] \in selections
  /\ \A s \in Wanted : result[Select(s)] = "ok" => SelectionIn(s)

\* What was selected last, and may not be part of the import that runs.
Posted == IF at \in {"import", "idle"} /\ task \in SelectTasks THEN {task[2]} ELSE {}

ImportInv ==
  clean =>
    /\ import = "stopping" => task \in SourceTasks /\ at = "idle"
    /\ import = "running" => selections \ Posted \subseteq target
    /\ at = "idle" /\ task = Region /\ import = "no" => selections \subseteq images
    /\ result[Region] = "ok" =>
         /\ import = "running" => at = "idle" /\ task \in SelectTasks /\ selections \subseteq target
         /\ selections \ Posted \subseteq images
         /\ at = "idle" /\ import = "no" => selections \subseteq images

RackInv ==
  clean =>
    /\ at = "rack" => Racks \ waiting \subseteq synced
    /\ result[AllRacks] = "ok" => synced = Racks

Inv == TypeOK /\ PointInv /\ OrderInv /\ SourceInv /\ RestInv /\ SelectInv /\ ImportInv /\ RackInv

-------------------------------------------------------------------------------
(* Tasks.                                                                   *)

LEMMA TaskKinds ==
  /\ Login \notin SourceTasks \union SelectTasks \union {Region, AllRacks, NoTask}
  /\ Region \notin SourceTasks \union SelectTasks \union {AllRacks, NoTask}
  /\ AllRacks \notin SourceTasks \union SelectTasks \union {NoTask}
  /\ NoTask \notin SourceTasks \union SelectTasks
  /\ SourceTasks \intersect SelectTasks = {}
  /\ NoTask \notin Tasks
BY DEF Login, Region, AllRacks, NoTask, SourceTasks, SelectTasks, Source, Select, Tasks

LEMMA SourceTask ==
  /\ \A t \in SourceTasks : t[2] \in Sources /\ t = Source(t[2]) /\ t \in Tasks
  /\ \A u \in Sources : Source(u) \in SourceTasks /\ Source(u)[2] = u
BY DEF SourceTasks, Source, Tasks

LEMMA SelectTask ==
  /\ \A t \in SelectTasks : t[2] \in Wanted /\ t = Select(t[2]) /\ t \in Tasks
  /\ \A s \in Wanted : Select(s) \in SelectTasks /\ Select(s)[2] = s
BY DEF SelectTasks, Select, Tasks

LEMMA SingleTasks == {Login, Region, AllRacks} \subseteq Tasks
BY DEF Tasks

LEMMA Requirements ==
  /\ Requires(AllRacks) = {Login, Region} \union SelectTasks
  /\ Requires(Region) = {Login} \union SourceTasks
  /\ \A t \in SelectTasks : Requires(t) = {Login} \union SourceTasks
  /\ \A t \in Tasks : Requires(t) \subseteq Tasks
BY TaskKinds DEF Requires, Tasks

LEMMA Entries ==
  /\ Entry(Login) = "warmup"
  /\ Entry(Region) = "import"
  /\ Entry(AllRacks) = "sync"
  /\ \A t \in SelectTasks : Entry(t) = "look"
  /\ \A t \in SourceTasks : Entry(t) = "create"
BY TaskKinds DEF Entry

-------------------------------------------------------------------------------
(* What steps do to the states of an attempt.                               *)

\* A state returns.
Returns(r) == task # NoTask /\ Return(r)

Begins(t) ==
  /\ task = NoTask
  /\ phase = "running"
  /\ result[t] = "todo"
  /\ \A r \in Requires(t) : result[r] = "ok"
  /\ task' = t
  /\ at' = Entry(t)
  /\ UNCHANGED <<result, waiting>>

Blocks(t) ==
  /\ result[t] = "todo"
  /\ \E r \in Requires(t) : result[r] = "failed"
  /\ result' = [result EXCEPT ![t] = "failed"]
  /\ UNCHANGED <<task, at, waiting>>

\* Only the place in the code of a state changes.
Proceeds ==
  \/ CreateSource /\ at = "create" /\ at' = "purge"
  \/ Purge /\ at = "purge" /\ at' = "idle"
  \/ DeleteSource /\ at = "delete" /\ at' = "purge"
  \/ LookForSelection /\ at = "look" /\ at' = "post"
  \/ PostSelection /\ at = "post" /\ at' = "import"
  \/ Import /\ at = "import" /\ at' = "idle"
  \/ (ImportIdle \/ IdleTimeout) /\ at = "idle" /\ at' = "delete" /\ task \in SourceTasks
  \/ SyncRacks /\ at = "sync" /\ at' = "rack"

TaskStep ==
  \/ UNCHANGED <<result, task, at>>
  \/ Proceeds /\ UNCHANGED <<result, task>>
  \/ \E t \in Tasks : Begins(t)
  \/ \E t \in Tasks : Blocks(t)
  \/ \E r \in {"ok", "failed"} : Returns(r)
  \/ EndAttempt

LEMMA TaskSteps == ASSUME TypeOK, [Next]_vars PROVE TaskStep
<1>1. at # "none" => task # NoTask
  BY DEF TypeOK
<1>2. CASE \E t \in Tasks : Begin(t)
  BY <1>2 DEF Begin, Begins, TaskStep
<1>3. CASE \E t \in Tasks : Block(t)
  BY <1>3 DEF Block, Blocks, TaskStep
<1>4. CASE EndAttempt
  BY <1>4 DEF TaskStep
<1>5. CASE Warmup \/ RacksOver
  BY <1>1, <1>5 DEF Warmup, RacksOver, Returns, TaskStep
<1>6. CASE CreateSource \/ DeleteSource \/ PostSelection \/ Import \/ SyncRacks
  BY <1>6 DEF CreateSource, DeleteSource, PostSelection, Import, SyncRacks, Goto, Proceeds, TaskStep
<1>7. CASE Purge \/ LookForSelection
  BY <1>1, <1>7 DEF Purge, LookForSelection, Goto, Returns, Proceeds, TaskStep
<1>8. CASE PostFails
  BY <1>1, <1>8 DEF PostFails, Returns, TaskStep
<1>9. CASE ImportIdle \/ IdleTimeout
  BY <1>1, <1>9 DEF ImportIdle, IdleTimeout, AfterWait, Goto, Returns, Proceeds, TaskStep
<1>10. CASE \E r \in Racks : RackSynced(r) \/ RackTimeout(r)
  BY <1>10 DEF RackSynced, RackTimeout, TaskStep
<1>11. CASE Server
  BY <1>11 DEF Server, CacheStreams, ImportDone, ImportStopped, SyncDone, taskVars, TaskStep
<1>12. CASE Raise
  BY <1>12 DEF Raise, Returns, TaskStep
<1>13. CASE ImportFails \/ \E r \in Racks : SyncFails(r)
  BY <1>13 DEF ImportFails, SyncFails, taskVars, TaskStep
<1>14. CASE Finished \/ UNCHANGED vars
  BY <1>14 DEF Finished, vars, taskVars, TaskStep
<1> QED
  BY <1>2, <1>3, <1>4, <1>5, <1>6, <1>7, <1>8, <1>9, <1>10, <1>11, <1>12, <1>13, <1>14
     DEF Next, Script

LEMMA PointStep ==
  ASSUME TypeOK, PointInv, [Next]_vars
  PROVE  PointInv'
<1>1. TaskStep
  BY TaskSteps
<1>2. CASE UNCHANGED <<result, task, at>>
  BY <1>2 DEF PointInv
<1>3. CASE Proceeds /\ UNCHANGED <<result, task>>
  BY <1>3 DEF PointInv, Proceeds
<1>4. ASSUME NEW t \in Tasks, Begins(t) PROVE PointInv'
  <2>1. t \in {Login, Region, AllRacks} \union SourceTasks \union SelectTasks
    BY DEF Tasks
  <2> QED
    BY <1>4, <2>1, Entries DEF Begins, PointInv
<1>5. ASSUME NEW t \in Tasks, Blocks(t) PROVE PointInv'
  BY <1>5 DEF Blocks, PointInv
<1>6. ASSUME NEW r \in {"ok", "failed"}, Returns(r) PROVE PointInv'
  BY <1>6 DEF Returns, Return, PointInv
<1>7. CASE EndAttempt
  BY <1>7 DEF EndAttempt, PointInv
<1> QED
  BY <1>1, <1>2, <1>3, <1>4, <1>5, <1>6, <1>7 DEF TaskStep

\* The steps that change what MaaS has.
LEMMA ServerSteps ==
  ASSUME [Next]_vars
  PROVE  \/ UNCHANGED serverVars
         \/ CreateSource \/ PostSelection \/ DeleteSource
         \/ Purge \/ Import \/ SyncRacks
         \/ \E u \in Urls : CacheStreams(u)
         \/ ImportDone \/ ImportStopped \/ ImportFails
         \/ \E r \in Racks : SyncDone(r) \/ SyncFails(r)
BY DEF Next, Script, Server, vars, Begin, Block, EndAttempt, Warmup, LookForSelection, PostFails,
       ImportIdle, IdleTimeout, RacksOver, RackSynced, RackTimeout, Raise, Finished

LEMMA OrderStep ==
  ASSUME TypeOK, OrderInv, [Next]_vars
  PROVE  OrderInv'
<1>1. TaskStep
  BY TaskSteps
<1>2. /\ result \in [Tasks -> {"todo", "ok", "failed"}]
      /\ task \in Tasks \union {NoTask}
      /\ \A t \in Tasks : Requires(t) \subseteq Tasks
  BY Requirements DEF TypeOK
<1>3. phase' = phase \/ (phase = "running" /\ phase' # "done") \/ EndAttempt
  BY DEF Next, Script, Server, vars, ctlVars, runVars, Begin, Block, Warmup, CreateSource,
         Purge, DeleteSource, LookForSelection, PostSelection, PostFails, Import, ImportIdle,
         IdleTimeout, SyncRacks, RacksOver, RackSynced, RackTimeout, CacheStreams, ImportDone,
         ImportStopped, SyncDone, Raise, Finished, ImportFails, SyncFails
<1>4. CASE ~EndAttempt /\ UNCHANGED <<result, task>>
  BY <1>3, <1>4 DEF OrderInv
<1>5. ASSUME NEW t \in Tasks, Begins(t), ~EndAttempt PROVE OrderInv'
  BY <1>2, <1>3, <1>5 DEF Begins, OrderInv
<1>6. ASSUME NEW t \in Tasks, Blocks(t), ~EndAttempt PROVE OrderInv'
  BY <1>2, <1>3, <1>6 DEF Blocks, OrderInv
<1>7. ASSUME NEW r \in {"ok", "failed"}, Returns(r), ~EndAttempt PROVE OrderInv'
  BY <1>2, <1>3, <1>7 DEF Returns, Return, OrderInv
<1>8. CASE EndAttempt
  BY <1>2, <1>8 DEF EndAttempt, OrderInv
<1> QED
  BY <1>1, <1>4, <1>5, <1>6, <1>7, <1>8 DEF TaskStep

-------------------------------------------------------------------------------
(* Types.                                                                   *)

ServerTypes ==
  /\ sources \subseteq Urls
  /\ cached \subseteq sources
  /\ selections \subseteq Selections
  /\ \A s \in selections : SourceOf[s] \in sources
  /\ import \in {"no", "running", "stopping"}
  /\ target \subseteq Selections
  /\ images \subseteq Selections
  /\ syncing \subseteq Racks
  /\ synced \subseteq Racks

TaskTypes ==
  /\ result \in [Tasks -> {"todo", "ok", "failed"}]
  /\ task \in Tasks \union {NoTask}
  /\ at \in Points
  /\ task = NoTask <=> at = "none"

LoopTypes ==
  /\ posts \in 0 .. PostTries - 1
  /\ waiting \subseteq Racks
  /\ tries \in 1 .. MaxTries
  /\ phase \in {"running", "done", "failed"}
  /\ faults \in 0 .. MaxFaults
  /\ clean \in BOOLEAN
  /\ late \in [Urls -> 0 .. PostTries]

LEMMA Types == TypeOK <=> ServerTypes /\ TaskTypes /\ LoopTypes
BY DEF TypeOK, ServerTypes, TaskTypes, LoopTypes

LEMMA ServerTypesStep ==
  ASSUME TypeOK, PointInv, [Next]_vars
  PROVE  ServerTypes'
<1>1. ServerTypes
  BY Types
<1>2. CASE UNCHANGED serverVars
  BY <1>1, <1>2 DEF ServerTypes, serverVars, sourceVars, importVars, rackVars
<1>3. CASE CreateSource
  <2>1. task[2] \in Urls
    BY <1>3, SourceTask, BootAssumption DEF CreateSource, PointInv
  <2> QED
    BY <1>1, <1>3, <2>1 DEF CreateSource, ServerTypes, importVars, rackVars
<1>4. CASE PostSelection
  <2>1. task[2] \in Selections
    BY <1>4, SelectTask, BootAssumption DEF PostSelection, PointInv
  <2> QED
    BY <1>1, <1>4, <2>1 DEF PostSelection, ServerTypes, importVars, rackVars
<1>5. CASE DeleteSource
  BY <1>1, <1>5 DEF DeleteSource, ServerTypes, importVars, rackVars
<1>6. CASE Purge \/ Import
  BY <1>1, <1>6 DEF Purge, Import, ServerTypes, sourceVars, rackVars
<1>7. CASE SyncRacks
  BY <1>1, <1>7 DEF SyncRacks, ServerTypes, sourceVars, importVars
<1>8. CASE \E u \in Urls : CacheStreams(u)
  BY <1>1, <1>8 DEF CacheStreams, ServerTypes, importVars, rackVars
<1>9. CASE ImportDone \/ ImportStopped \/ ImportFails
  BY <1>1, <1>9 DEF ImportDone, ImportStopped, ImportFails, ServerTypes, sourceVars, rackVars
<1>10. CASE \E r \in Racks : SyncDone(r) \/ SyncFails(r)
  BY <1>1, <1>10 DEF SyncDone, SyncFails, ServerTypes, sourceVars, importVars
<1> QED
  BY <1>2, <1>3, <1>4, <1>5, <1>6, <1>7, <1>8, <1>9, <1>10, ServerSteps

LEMMA TaskTypesStep ==
  ASSUME TypeOK, [Next]_vars
  PROVE  TaskTypes'
<1>1. TaskStep
  BY TaskSteps
<1>2. TaskTypes
  BY Types
<1>3. CASE UNCHANGED <<result, task, at>>
  BY <1>2, <1>3 DEF TaskTypes
<1>4. CASE Proceeds /\ UNCHANGED <<result, task>>
  BY <1>2, <1>4 DEF TaskTypes, Proceeds, Points
<1>5. ASSUME NEW t \in Tasks, Begins(t) PROVE TaskTypes'
  <2>1. t \in {Login, Region, AllRacks} \union SourceTasks \union SelectTasks
    BY DEF Tasks
  <2>2. Entry(t) \in Points \ {"none"}
    BY <2>1, Entries DEF Points
  <2> QED
    BY <1>2, <1>5, <2>2, TaskKinds DEF Begins, TaskTypes
<1>6. ASSUME NEW t \in Tasks, Blocks(t) PROVE TaskTypes'
  BY <1>2, <1>6 DEF Blocks, TaskTypes
<1>7. ASSUME NEW r \in {"ok", "failed"}, Returns(r) PROVE TaskTypes'
  BY <1>2, <1>7 DEF Returns, Return, TaskTypes, Points
<1>8. CASE EndAttempt
  BY <1>2, <1>8 DEF EndAttempt, TaskTypes
<1> QED
  BY <1>1, <1>3, <1>4, <1>5, <1>6, <1>7, <1>8 DEF TaskStep

LEMMA LoopTypesStep ==
  ASSUME TypeOK, [Next]_vars
  PROVE  LoopTypes'
<1>1. LoopTypes
  BY Types
<1>2. 0 \in 0 .. PostTries - 1
  BY BootAssumption
<1>3. Fault => faults' \in 0 .. MaxFaults
  BY <1>1, BootAssumption DEF Fault, LoopTypes
<1>4. CASE (\E t \in Tasks : Begin(t) \/ Block(t)) \/ Warmup \/ RacksOver \/ LookForSelection \/ Purge
  BY <1>1, <1>2, <1>4
     DEF Begin, Block, Warmup, RacksOver, LookForSelection, Purge, Return, Goto, LoopTypes,
         ctlVars, runVars, history
<1>5. CASE EndAttempt
  BY <1>1, <1>5, BootAssumption DEF EndAttempt, LoopTypes, history
<1>6. CASE CreateSource \/ DeleteSource \/ PostSelection \/ Import
  BY <1>1, <1>6 DEF CreateSource, DeleteSource, PostSelection, Import, Goto, LoopTypes, ctlVars,
                    runVars, history
<1>7. CASE PostFails
  <2>1. faults' \in 0 .. MaxFaults
    BY <1>1, <1>3, <1>7 DEF PostFails, NotPosted, LoopTypes
  <2>2. late' \in [Urls -> 0 .. PostTries]
    <3> DEFINE u == SourceOf[task[2]]
    <3>1. CASE UNCHANGED late
      BY <1>1, <3>1 DEF LoopTypes
    <3>2. CASE late' = [late EXCEPT ![u] = IF @ < PostTries THEN @ + 1 ELSE @]
      <4>1. \A n \in 0 .. PostTries : (IF n < PostTries THEN n + 1 ELSE n) \in 0 .. PostTries
        BY BootAssumption
      <4> QED
        BY <1>1, <3>2, <4>1 DEF LoopTypes
    <3> QED
      BY <1>7, <3>1, <3>2 DEF PostFails, NotPosted
  <2>3. CASE posts < PostTries - 1
    <3>1. posts + 1 \in 0 .. PostTries - 1
      BY <1>1, <2>3, BootAssumption DEF LoopTypes
    <3> QED
      BY <1>1, <1>7, <2>1, <2>2, <2>3, <3>1 DEF PostFails, LoopTypes, runVars
  <2>4. CASE ~(posts < PostTries - 1)
    BY <1>1, <1>2, <1>7, <2>1, <2>2, <2>4 DEF PostFails, Return, LoopTypes, runVars
  <2> QED
    BY <2>3, <2>4
<1>8. CASE ImportIdle \/ IdleTimeout
  BY <1>1, <1>2, <1>8 DEF ImportIdle, IdleTimeout, AfterWait, Goto, Return, LoopTypes, ctlVars,
                          runVars, history
<1>9. CASE SyncRacks \/ \E r \in Racks : RackSynced(r) \/ RackTimeout(r)
  BY <1>1, <1>9 DEF SyncRacks, RackSynced, RackTimeout, LoopTypes, ctlVars, runVars, history
<1>10. CASE Raise
  BY <1>1, <1>2, <1>3, <1>10 DEF Raise, Return, LoopTypes, runVars
<1>11. CASE Server
  BY <1>1, <1>11 DEF Server, CacheStreams, ImportDone, ImportStopped, SyncDone, LoopTypes,
                     taskVars, ctlVars, runVars, history
<1>12. CASE ImportFails \/ \E r \in Racks : SyncFails(r)
  BY <1>1, <1>3, <1>12 DEF ImportFails, SyncFails, LoopTypes, taskVars, runVars, history
<1>13. CASE Finished \/ UNCHANGED vars
  BY <1>1, <1>13 DEF Finished, vars, LoopTypes, taskVars, ctlVars, runVars, history
<1> QED
  BY <1>4, <1>5, <1>6, <1>7, <1>8, <1>9, <1>10, <1>11, <1>12, <1>13 DEF Next, Script

LEMMA TypeStep ==
  ASSUME TypeOK, PointInv, [Next]_vars
  PROVE  TypeOK'
BY ServerTypesStep, TaskTypesStep, LoopTypesStep, Types DEF TypeOK, ServerTypes, TaskTypes, LoopTypes

-------------------------------------------------------------------------------
(* Sources.                                                                 *)

\* How a state succeeds.
LEMMA OkSteps ==
  ASSUME TypeOK, PointInv, [Next]_vars,
         NEW t \in Tasks, result'[t] = "ok", result[t] # "ok"
  PROVE  /\ task = t /\ task' = NoTask /\ at' = "none"
         /\ \/ Warmup
            \/ Purge /\ (DeleteOthers => sources \subseteq Sources)
            \/ LookForSelection /\ SelectionIn(task[2])
            \/ (ImportIdle \/ IdleTimeout) /\ task \notin SourceTasks
            \/ RacksOver
<1>1. result \in [Tasks -> {"todo", "ok", "failed"}] /\ task \in Tasks \union {NoTask}
  BY DEF TypeOK
<1>2. ~UNCHANGED result
  OBVIOUS
<1>3. CASE Warmup \/ RacksOver \/ Purge \/ LookForSelection \/ ImportIdle \/ IdleTimeout
  BY <1>1, <1>2, <1>3
     DEF Warmup, RacksOver, Purge, LookForSelection, ImportIdle, IdleTimeout, AfterWait, Return, Goto
<1>4. CASE (\E b \in Tasks : Begin(b) \/ Block(b)) \/ EndAttempt \/ Raise \/ PostFails
  BY <1>1, <1>2, <1>4 DEF Begin, Block, EndAttempt, Raise, PostFails, Return
<1>5. CASE CreateSource \/ DeleteSource \/ PostSelection \/ Import \/ SyncRacks \/ Server
           \/ ImportFails \/ Finished \/ UNCHANGED vars
  BY <1>2, <1>5 DEF CreateSource, DeleteSource, PostSelection, Import, SyncRacks, Server, ImportFails,
       Finished, vars, taskVars, Goto, CacheStreams, ImportDone, ImportStopped, SyncDone
<1>6. CASE \E r \in Racks : RackSynced(r) \/ RackTimeout(r) \/ SyncFails(r)
  BY <1>2, <1>6 DEF RackSynced, RackTimeout, SyncFails, taskVars
<1> QED
  BY <1>3, <1>4, <1>5, <1>6 DEF Next, Script


LEMMA SourceStep ==
  ASSUME TypeOK, PointInv, OrderInv, SourceInv, [Next]_vars
  PROVE  SourceInv'
<1> DEFINE Kept == \A u \in Sources : u \in sources => u \in sources'
<1>1. ServerTypes /\ TaskTypes
  BY Types
<1>2. Kept
  BY <1>1, ServerSteps
     DEF serverVars, sourceVars, CreateSource, PostSelection, DeleteSource, Purge, Import,
         SyncRacks, CacheStreams, ImportDone, ImportStopped, ImportFails, SyncDone, SyncFails
<1>3. sources \subseteq Sources => sources' \subseteq Sources
  <2>1. CASE CreateSource
    BY <2>1, SourceTask DEF CreateSource, PointInv
  <2> QED
    BY <2>1, ServerSteps
       DEF serverVars, sourceVars, PostSelection, DeleteSource, Purge, Import,
           SyncRacks, CacheStreams, ImportDone, ImportStopped, ImportFails, SyncDone, SyncFails
<1>4. task' \in SourceTasks /\ at' # "create" => task'[2] \in sources'
  <2> SUFFICES ASSUME task' \in SourceTasks, at' # "create" PROVE task'[2] \in sources'
    OBVIOUS
  <2>1. task'[2] \in Sources
    BY SourceTask
  <2>2. CASE CreateSource
    BY <2>2 DEF CreateSource, Goto
  <2>3. CASE ~CreateSource /\ task' = task /\ at # "create"
    BY <1>2, <2>1, <2>3 DEF SourceInv
  <2>4. (task' = task /\ at # "create") \/ CreateSource
    <3>1. TaskStep
      BY TaskSteps
    <3>2. CASE Proceeds /\ UNCHANGED <<result, task>>
      <4>1. CASE at # "create"
        BY <3>2, <4>1
      <4>2. CASE at = "create"
        BY <3>2, <4>2 DEF Proceeds
      <4> QED
        BY <4>1, <4>2
    <3>3. CASE UNCHANGED <<result, task, at>>
      BY <3>3
    <3>4. ASSUME NEW t \in Tasks, Begins(t) PROVE FALSE
      BY <3>4, Entries DEF Begins
    <3>5. ASSUME NEW t \in Tasks, Blocks(t) PROVE task' = task /\ at # "create"
      BY <3>5 DEF Blocks
    <3>6. ASSUME NEW r \in {"ok", "failed"}, Returns(r) PROVE FALSE
      BY <3>6, TaskKinds DEF Returns, Return
    <3>7. CASE EndAttempt
      BY <3>7 DEF EndAttempt
    <3> QED
      BY <3>1, <3>2, <3>3, <3>4, <3>5, <3>6, <3>7 DEF TaskStep
  <2> QED
    BY <2>2, <2>3, <2>4
<1>5. ASSUME NEW u \in Sources, result'[Source(u)] = "ok"
      PROVE  (DeleteOthers => sources' \subseteq Sources) /\ u \in sources'
  <2>1. CASE result[Source(u)] = "ok"
    BY <1>2, <1>3, <1>5, <2>1 DEF SourceInv
  <2>2. CASE result[Source(u)] # "ok"
    <3>1. task = Source(u) /\ task \in SourceTasks /\ task[2] = u
      BY <1>5, <2>2, SourceTask, OkSteps
    <3>2. Purge /\ (DeleteOthers => sources \subseteq Sources)
      BY <1>5, <2>2, <3>1, SourceTask, OkSteps, TaskKinds
         DEF Warmup, LookForSelection, RacksOver, PointInv
    <3> QED
      BY <1>2, <1>3, <3>1, <3>2 DEF SourceInv, Purge
  <2> QED
    BY <2>1, <2>2
<1> QED
  BY <1>4, <1>5 DEF SourceInv

-------------------------------------------------------------------------------
(* Selections.                                                              *)

LEMMA CleanSteps ==
  ASSUME [Next]_vars
  PROVE  /\ clean' => clean
         /\ import = "no" /\ ~Import => import' = "no"
<1>1. clean' => clean
  BY DEF Next, Script, Server, vars, ctlVars, history, Begin, Block, EndAttempt, Warmup,
         CreateSource, Purge, DeleteSource, LookForSelection, PostSelection, PostFails, Import,
         ImportIdle, IdleTimeout, SyncRacks, RacksOver, RackSynced, RackTimeout, CacheStreams,
         ImportDone, ImportStopped, SyncDone, Raise, Finished, ImportFails, SyncFails
<1>2. import = "no" /\ ~Import => import' = "no"
  BY ServerSteps
     DEF serverVars, importVars, CreateSource, PostSelection, DeleteSource, Purge, SyncRacks,
         CacheStreams, ImportDone, ImportStopped, ImportFails, SyncDone, SyncFails
<1> QED
  BY <1>1, <1>2

LEMMA RestStep ==
  ASSUME TypeOK, RestInv, [Next]_vars
  PROVE  RestInv'
<1> SUFFICES ASSUME clean', at' = "delete" PROVE import' = "no"
  BY DEF RestInv
<1>1. TaskStep
  BY TaskSteps
<1>2. CASE at = "delete"
  BY <1>2, CleanSteps DEF RestInv, Import
<1>3. CASE at # "delete"
  <2>1. Proceeds \/ \E t \in Tasks : Begins(t)
    BY <1>1, <1>3 DEF TaskStep, Blocks, Returns, Return, EndAttempt
  <2>2. CASE Proceeds
    BY <1>3, <2>2, CleanSteps DEF Proceeds, ImportIdle, IdleTimeout, Import
  <2>3. ASSUME NEW t \in Tasks, Begins(t) PROVE FALSE
    <3>1. t \in {Login, Region, AllRacks} \union SourceTasks \union SelectTasks
      BY DEF Tasks
    <3> QED
      BY <2>3, <3>1, Entries DEF Begins
  <2> QED
    BY <2>1, <2>2, <2>3
<1> QED
  BY <1>2, <1>3

LEMMA SelectStep ==
  ASSUME TypeOK, PointInv, SelectInv, [Next]_vars
  PROVE  SelectInv'
<1>1. ServerTypes /\ TaskTypes
  BY Types
<1>2. \A s \in Selections : s \in selections /\ SourceOf[s] \in Sources => s \in selections'
  BY <1>1, ServerSteps
     DEF ServerTypes, serverVars, sourceVars, CreateSource, PostSelection, DeleteSource, Purge,
         Import, SyncRacks, CacheStreams, ImportDone, ImportStopped, ImportFails, SyncDone, SyncFails
<1>3. \A s \in Wanted : s \in Selections /\ SourceOf[s] \in Sources
  BY BootAssumption
<1>4. task' \in SelectTasks /\ at' \in {"import", "idle"} => task'[2] \in selections'
  <2> SUFFICES ASSUME task' \in SelectTasks, at' \in {"import", "idle"} PROVE task'[2] \in selections'
    OBVIOUS
  <2>1. task'[2] \in Wanted
    BY SelectTask
  <2>2. CASE PostSelection
    BY <2>2 DEF PostSelection, Goto
  <2>3. task' = task /\ (at \in {"import", "idle"} \/ PostSelection)
    <3>1. TaskStep
      BY TaskSteps
    <3>2. CASE Proceeds /\ UNCHANGED <<result, task>>
      BY <3>2, TaskKinds DEF Proceeds, PointInv
    <3>3. CASE UNCHANGED <<result, task, at>>
      BY <3>3
    <3>4. ASSUME NEW t \in Tasks, Begins(t) PROVE FALSE
      BY <3>4, Entries DEF Begins
    <3>5. ASSUME NEW t \in Tasks, Blocks(t) PROVE task' = task /\ at' = at
      BY <3>5 DEF Blocks
    <3>6. ASSUME NEW r \in {"ok", "failed"}, Returns(r) PROVE FALSE
      BY <3>6, TaskKinds DEF Returns, Return
    <3>7. CASE EndAttempt
      BY <3>7 DEF EndAttempt
    <3> QED
      BY <3>1, <3>2, <3>3, <3>4, <3>5, <3>6, <3>7 DEF TaskStep
  <2> QED
    BY <1>2, <1>3, <2>1, <2>2, <2>3 DEF SelectInv
<1>5. ASSUME NEW s \in Wanted, result'[Select(s)] = "ok"
      PROVE  SelectionIn(s)'
  <2>1. SelectionIn(s) => SelectionIn(s)'
    BY <1>1, <1>2, <1>3 DEF SelectionIn, ServerTypes
  <2>2. CASE result[Select(s)] = "ok"
    BY <2>1, <2>2 DEF SelectInv
  <2>3. CASE result[Select(s)] # "ok"
    <3>1. task = Select(s) /\ task \in SelectTasks /\ task[2] = s
      BY <1>5, <2>3, SelectTask, OkSteps
    <3>2. \/ SelectionIn(task[2])
          \/ at = "idle"
      BY <1>5, <2>3, <3>1, SelectTask, OkSteps, TaskKinds
         DEF Warmup, Purge, RacksOver, PointInv, ImportIdle, IdleTimeout
    <3>3. SelectionIn(s)
      BY <3>1, <3>2 DEF SelectInv, SelectionIn
    <3> QED
      BY <2>1, <3>3
  <2> QED
    BY <2>2, <2>3
<1> QED
  BY <1>4, <1>5 DEF SelectInv

-------------------------------------------------------------------------------
(* The import.                                                              *)

\* Who may be at work, by what has succeeded.
LEMMA Working ==
  ASSUME TypeOK, PointInv, OrderInv
  PROVE  /\ result[Region] = "ok" => task \notin SourceTasks /\ task # Region
         /\ task = AllRacks => result[Region] = "ok"
         /\ result[AllRacks] = "ok" => result[Region] = "ok" /\ at # "idle" /\ task # AllRacks
<1>1. task # NoTask => result[task] = "todo"
  BY DEF OrderInv
<1>2. result[Region] = "ok" => task \notin SourceTasks /\ task # Region
  BY <1>1, TaskKinds, Requirements, SingleTasks DEF OrderInv
<1>3. task = AllRacks => result[Region] = "ok"
  BY TaskKinds, Requirements DEF OrderInv
<1>4. result[AllRacks] = "ok" => result[Region] = "ok" /\ task \notin SelectTasks /\ task # AllRacks
  BY <1>1, TaskKinds, Requirements, SingleTasks DEF OrderInv
<1> QED
  BY <1>2, <1>3, <1>4 DEF PointInv

LEMMA RackStays ==
  ASSUME TypeOK, PointInv, [Next]_vars, at' = "rack"
  PROVE  \/ SyncRacks
         \/ /\ at = "rack"
            /\ \/ waiting' = waiting
               \/ clean' = FALSE
               \/ \E r \in waiting \intersect synced : waiting' = waiting \ {r}
<1>1. TaskStep
  BY TaskSteps
<1>2. CASE at # "rack"
  <2>1. Proceeds \/ \E t \in Tasks : Begins(t)
    BY <1>1, <1>2 DEF TaskStep, Blocks, Returns, Return, EndAttempt
  <2>2. ASSUME NEW t \in Tasks, Begins(t) PROVE FALSE
    <3>1. t \in {Login, Region, AllRacks} \union SourceTasks \union SelectTasks
      BY DEF Tasks
    <3> QED
      BY <2>2, <3>1, Entries DEF Begins
  <2> QED
    BY <2>1, <2>2 DEF Proceeds
<1>3. CASE at = "rack"
  BY <1>3
     DEF Next, Script, Server, vars, taskVars, Begin, Block, EndAttempt, Warmup, CreateSource,
         Purge, DeleteSource, LookForSelection, PostSelection, PostFails, Import, ImportIdle,
         IdleTimeout, SyncRacks, RacksOver, RackSynced, RackTimeout, CacheStreams, ImportDone,
         ImportStopped, SyncDone, Raise, Finished, ImportFails, SyncFails, Return
<1> QED
  BY <1>2, <1>3

LEMMA ImportStep ==
  ASSUME TypeOK, PointInv, OrderInv, ImportInv, [Next]_vars
  PROVE  ImportInv'
<1> SUFFICES ASSUME clean' PROVE ImportInv'
  BY DEF ImportInv
<1>1. clean
  BY CleanSteps
<1>2. /\ result \in [Tasks -> {"todo", "ok", "failed"}] /\ task \in Tasks \union {NoTask}
      /\ task = NoTask <=> at = "none"
      /\ import \in {"no", "running", "stopping"}
      /\ Region \in Tasks /\ NoTask \notin SelectTasks
  BY SingleTasks, TaskKinds DEF TypeOK
<1>3. /\ result[Region] = "ok" => task \notin SourceTasks /\ task # Region
      /\ task = AllRacks => result[Region] = "ok"
  BY Working
<1>4. CASE \E t \in Tasks : Begin(t)
  <2>1. PICK t \in Tasks : Begin(t)
    BY <1>4
  <2>2. t \in {Login, Region, AllRacks} \union SourceTasks \union SelectTasks
    BY DEF Tasks
  <2>3. Posted = {} /\ Posted' = {} /\ at = "none" /\ at' # "idle"
    BY <1>2, <2>1, <2>2, Entries, TaskKinds DEF Begin, Posted
  <2> QED
    BY <1>1, <2>1, <2>3 DEF Begin, ImportInv, serverVars, sourceVars, importVars
<1>5. CASE (\E t \in Tasks : Block(t)) \/ EndAttempt
  <2>1. at' = at /\ task' = task /\ UNCHANGED serverVars
    BY <1>5 DEF Block, EndAttempt
  <2>2. Posted' = Posted
    BY <2>1 DEF Posted
  <2>3. result'[Region] = "ok" => result[Region] = "ok"
    BY <1>2, <1>5 DEF Block, EndAttempt
  <2> QED
    BY <1>1, <2>1, <2>2, <2>3 DEF ImportInv, serverVars, sourceVars, importVars
<1>6. CASE Warmup \/ RacksOver \/ LookForSelection
  <2>1. Posted = {} /\ Posted' = {} /\ at' \notin {"import", "idle"}
    BY <1>6 DEF Warmup, RacksOver, LookForSelection, Return, Goto, Posted
  <2>2. result'[Region] = "ok" => result[Region] = "ok"
    BY <1>2, <1>6, TaskKinds DEF Warmup, RacksOver, LookForSelection, Return, Goto, PointInv
  <2> QED
    BY <1>1, <1>6, <2>1, <2>2
       DEF Warmup, RacksOver, LookForSelection, ImportInv, serverVars, sourceVars, importVars
<1>7. CASE CreateSource \/ DeleteSource \/ Purge
  <2>1. task \in SourceTasks /\ result[Region] # "ok" /\ task # Region /\ task \notin SelectTasks
    BY <1>3, <1>7, TaskKinds DEF CreateSource, DeleteSource, Purge, PointInv
  <2>2. /\ Posted = {} /\ result'[Region] # "ok" /\ task' # Region
        /\ UNCHANGED <<target, images>> /\ selections' \subseteq selections
    <3>1. Posted = {} /\ Region # NoTask
      BY <2>1, TaskKinds DEF Posted
    <3>2. CASE CreateSource \/ DeleteSource
      BY <2>1, <3>1, <3>2 DEF CreateSource, DeleteSource, Goto, importVars
    <3>3. CASE Purge
      BY <1>2, <2>1, <3>1, <3>3 DEF Purge, Goto, Return, sourceVars
    <3> QED
      BY <1>7, <3>2, <3>3
  <2>3. CASE CreateSource \/ DeleteSource
    BY <1>1, <2>1, <2>2, <2>3 DEF CreateSource, DeleteSource, ImportInv, importVars
  <2>4. CASE Purge
    BY <1>1, <1>2, <2>1, <2>2, <2>4 DEF Purge, Goto, ImportInv
  <2> QED
    BY <1>7, <2>3, <2>4
<1>8. CASE PostSelection
  <2>1. task \in SelectTasks /\ task # Region /\ Posted = {} /\ Posted' = {task[2]}
    BY <1>8, TaskKinds DEF PostSelection, PointInv, Goto, Posted
  <2> QED
    BY <1>1, <1>8, <2>1 DEF PostSelection, Goto, ImportInv, importVars
<1>9. CASE PostFails
  <2>1. task \in SelectTasks /\ Posted = {} /\ Posted' = {} /\ at' \notin {"import", "idle"}
    BY <1>9, TaskKinds DEF PostFails, PointInv, Return, Posted
  <2>2. result'[Region] = "ok" => result[Region] = "ok"
    BY <1>2, <1>9, <2>1, TaskKinds DEF PostFails, Return
  <2> QED
    BY <1>1, <1>9, <2>1, <2>2 DEF PostFails, ImportInv, serverVars, sourceVars, importVars
<1>10. CASE Import
  <2>1. /\ at = "import" /\ at' = "idle" /\ UNCHANGED <<result, task, selections, images>>
        /\ task \in SelectTasks \union {Region} /\ Posted' = Posted
    BY <1>10 DEF Import, Goto, PointInv, Posted, sourceVars
  <2>2. CASE import = "no"
    <3>1. import' = "running" /\ target' = selections
      BY <1>10, <2>2 DEF Import
    <3> QED
      BY <1>1, <1>3, <2>1, <3>1 DEF ImportInv, Posted
  <2>3. CASE import # "no"
    <3>1. import' = import /\ target' = target /\ import = "running" /\ result[Region] # "ok"
      BY <1>1, <1>2, <1>10, <2>1, <2>3 DEF Import, ImportInv
    <3> QED
      BY <1>1, <2>1, <3>1 DEF ImportInv, Posted
  <2> QED
    BY <2>2, <2>3
<1>11. CASE ImportIdle
  <2>1. /\ at = "idle" /\ import = "no" /\ UNCHANGED serverVars
        /\ task \in SourceTasks \union SelectTasks \union {Region}
        /\ at' \in {"delete", "none"} /\ Posted' = {}
    BY <1>11 DEF ImportIdle, AfterWait, Goto, Return, PointInv, Posted
  <2>2. result'[Region] = "ok" => selections \subseteq images
    <3>1. CASE task = Region
      BY <1>1, <2>1, <3>1 DEF ImportInv
    <3>2. CASE task # Region
      <4>1. result'[Region] = result[Region]
        BY <1>2, <1>11, <3>2 DEF ImportIdle, AfterWait, Goto, Return
      <4> QED
        BY <1>1, <2>1, <4>1 DEF ImportInv
    <3> QED
      BY <3>1, <3>2
  <2> QED
    BY <2>1, <2>2 DEF ImportInv, serverVars, sourceVars, importVars
<1>12. CASE IdleTimeout
  BY <1>12 DEF IdleTimeout
<1>13. CASE SyncRacks \/ \E r \in Racks : RackSynced(r) \/ RackTimeout(r)
  <2>1. Posted = {} /\ Posted' = {} /\ at' # "idle" /\ UNCHANGED result
    BY <1>13 DEF SyncRacks, RackSynced, RackTimeout, Posted
  <2> QED
    BY <1>1, <1>13, <2>1
       DEF SyncRacks, RackSynced, RackTimeout, ImportInv, serverVars, sourceVars, importVars
<1>14. CASE Raise
  <2>1. Posted = {} /\ Posted' = {} /\ at' = "none" /\ at \notin {"import", "idle"} /\ UNCHANGED serverVars
    BY <1>14 DEF Raise, Return, Posted
  <2>2. result'[Region] = "ok" => result[Region] = "ok"
    BY <1>2, <1>14 DEF Raise, Return
  <2> QED
    BY <1>1, <2>1, <2>2 DEF ImportInv, serverVars, sourceVars, importVars
<1>15. CASE ImportDone
  <2>1. Posted' = Posted /\ UNCHANGED <<selections, task, at, result>>
    BY <1>15 DEF ImportDone, Posted, taskVars, sourceVars
  <2>2. import = "running" /\ import' = "no" /\ images' = target
    BY <1>15 DEF ImportDone
  <2> QED
    BY <1>1, <1>2, <2>1, <2>2, TaskKinds DEF ImportInv, Posted
<1>16. CASE ImportStopped
  <2>1. task \in SourceTasks /\ result[Region] # "ok" /\ task # Region
    BY <1>1, <1>3, <1>16, TaskKinds DEF ImportStopped, ImportInv
  <2> QED
    BY <1>16, <2>1 DEF ImportStopped, ImportInv, taskVars
<1>17. CASE ImportFails
  BY <1>17 DEF ImportFails
<1>18. CASE (\E u \in Urls : CacheStreams(u)) \/ (\E r \in Racks : SyncDone(r) \/ SyncFails(r))
            \/ Finished \/ UNCHANGED vars
  <2>1. UNCHANGED <<selections, import, target, images, result, task, at>>
    BY <1>18 DEF CacheStreams, SyncDone, SyncFails, Finished, vars, serverVars, sourceVars,
                 importVars, taskVars
  <2>2. Posted' = Posted
    BY <2>1 DEF Posted
  <2> QED
    BY <1>1, <2>1, <2>2 DEF ImportInv
<1> QED
  BY <1>4, <1>5, <1>6, <1>7, <1>8, <1>9, <1>10, <1>11, <1>12, <1>13, <1>14, <1>15, <1>16, <1>17,
     <1>18 DEF Next, Script, Server

LEMMA RackStep ==
  ASSUME TypeOK, PointInv, OrderInv, ImportInv, RackInv, [Next]_vars
  PROVE  RackInv'
<1> SUFFICES ASSUME clean' PROVE RackInv'
  BY DEF RackInv
<1>1. clean
  BY CleanSteps
<1>2. /\ result \in [Tasks -> {"todo", "ok", "failed"}] /\ task \in Tasks \union {NoTask}
      /\ AllRacks \in Tasks /\ synced \subseteq Racks
  BY SingleTasks DEF TypeOK
<1>3. /\ task = AllRacks => result[Region] = "ok"
      /\ result[AllRacks] = "ok" => result[Region] = "ok" /\ at # "idle" /\ task # AllRacks
  BY Working
<1>4. CASE at = "rack" \/ result[AllRacks] = "ok"
  <2>1. import # "running"
    BY <1>1, <1>3, <1>4 DEF ImportInv, PointInv
  <2>2. synced \subseteq synced' \/ SyncRacks
    BY <2>1, ServerSteps
       DEF serverVars, rackVars, CreateSource, PostSelection, DeleteSource, Purge, Import,
           CacheStreams, ImportDone, ImportStopped, ImportFails, SyncDone, SyncFails
  <2>3. ~SyncRacks
    BY <1>3, <1>4 DEF SyncRacks, PointInv
  <2>4. synced \subseteq synced' /\ synced' \subseteq Racks
    BY <1>2, <2>2, <2>3, ServerSteps
       DEF serverVars, rackVars, CreateSource, PostSelection, DeleteSource, Purge, Import,
           CacheStreams, ImportDone, ImportStopped, ImportFails, SyncDone, SyncFails
  <2>5. at' = "rack" => Racks \ waiting' \subseteq synced'
    BY <1>1, <2>3, <2>4, RackStays DEF RackInv
  <2>6. ASSUME result'[AllRacks] = "ok" PROVE synced' = Racks
    <3>1. CASE result[AllRacks] = "ok"
      BY <1>1, <2>4, <3>1 DEF RackInv
    <3>2. CASE result[AllRacks] # "ok"
      <4>1. task = AllRacks /\ RacksOver
        BY <1>2, <2>6, <3>2, OkSteps, TaskKinds
           DEF Warmup, Purge, LookForSelection, ImportIdle, IdleTimeout, PointInv
      <4> QED
        BY <1>1, <2>4, <4>1 DEF RacksOver, RackInv
    <3> QED
      BY <3>1, <3>2
  <2> QED
    BY <2>5, <2>6 DEF RackInv
<1>5. CASE at # "rack" /\ result[AllRacks] # "ok"
  <2>1. result'[AllRacks] # "ok"
    BY <1>2, <1>5, OkSteps, TaskKinds
       DEF Warmup, Purge, LookForSelection, ImportIdle, IdleTimeout, RacksOver, PointInv
  <2>2. at' = "rack" => waiting' = Racks
    BY <1>5, RackStays DEF SyncRacks
  <2> QED
    BY <2>1, <2>2 DEF RackInv
<1> QED
  BY <1>4, <1>5

-------------------------------------------------------------------------------
(* The theorems.                                                            *)

LEMMA InitInv == Init => Inv
<1> SUFFICES ASSUME Init PROVE Inv
  OBVIOUS
<1>1. ServerTypes
  BY DEF Init, ServerTypes
<1>2. TaskTypes /\ LoopTypes
  <2>1. TaskTypes
    BY DEF Init, TaskTypes, Points
  <2>2. 0 \in 0 .. PostTries - 1 /\ 1 \in 1 .. MaxTries /\ MaxFaults \in 0 .. MaxFaults
    BY BootAssumption
  <2>3. Init => late \in [Urls -> 0 .. PostTries]
    BY BootAssumption DEF Init
  <2> QED
    BY <2>1, <2>2, <2>3 DEF Init, LoopTypes
<1>3. /\ \A t \in Tasks : result[t] = "todo"
      /\ at = "none" /\ task = NoTask /\ phase = "running" /\ Region \in Tasks /\ AllRacks \in Tasks
  BY SingleTasks DEF Init
<1>4. PointInv /\ RestInv /\ OrderInv
  BY <1>3 DEF PointInv, RestInv, OrderInv
<1>5. SourceInv /\ SelectInv
  BY <1>3, SourceTask, SelectTask, TaskKinds DEF SourceInv, SelectInv
<1>6. ImportInv /\ RackInv
  BY <1>3 DEF Init, ImportInv, RackInv
<1> QED
  BY <1>1, <1>2, <1>4, <1>5, <1>6, Types DEF Inv

LEMMA AlwaysInv == Spec => []Inv
<1>1. Inv /\ [Next]_vars => Inv'
  BY TypeStep, PointStep, OrderStep, SourceStep, RestStep, SelectStep, ImportStep, RackStep DEF Inv
<1> QED
  BY <1>1, InitInv, PTL DEF Spec

(***************************************************************************)
(* The variables have their types, for any sources, selections and racks.  *)
(***************************************************************************)
THEOREM TypeCorrect == Spec => []TypeOK
BY AlwaysInv, PTL DEF Inv

(***************************************************************************)
(* If the pillar has a source at all, then maas.region succeeds only with  *)
(* its sources in MaaS, and no other if others are to be deleted.          *)
(***************************************************************************)
THEOREM RightSources ==
  ASSUME Sources # {}
  PROVE  Spec => []SourcesOfPillar
<1>1. Inv => SourcesOfPillar
  BY SourceTask DEF Inv, OrderInv, SourceInv, SourcesOfPillar
<1> QED
  BY <1>1, AlwaysInv, PTL

(***************************************************************************)
(* Unless an import was given up, maas.region succeeds only with the       *)
(* images of the pillar in the region and on every rack, for any number of *)
(* selections, racks and attempts, and whatever MaaS imported before.      *)
(***************************************************************************)
THEOREM ImagesFetched == Spec => []ImagesWhenDone
<1>1. Inv => ImagesWhenDone
  <2> SUFFICES ASSUME Inv, phase = "done", clean
               PROVE  /\ \A s \in Wanted :
                           s \in images \/ \E t \in selections \ {s} : SourceOf[t] = SourceOf[s]
                      /\ synced = Racks
    BY DEF ImagesWhenDone
  <2>1. /\ at = "none"
        /\ \A t \in Tasks : result[t] = "ok"
    BY DEF Inv, OrderInv, TypeOK
  <2>2. synced = Racks
    BY <2>1, SingleTasks DEF Inv, RackInv
  <2>3. selections \subseteq images
    BY <2>1, SingleTasks DEF Inv, ImportInv, Posted
  <2>4. ASSUME NEW s \in Wanted
        PROVE  s \in images \/ \E t \in selections \ {s} : SourceOf[t] = SourceOf[s]
    <3>1. SelectionIn(s)
      BY <2>1, SelectTask DEF Inv, SelectInv
    <3> QED
      BY <2>3, <3>1 DEF SelectionIn
  <2> QED
    BY <2>2, <2>4
<1> QED
  BY <1>1, AlwaysInv, PTL

(***************************************************************************)
(* No source is deleted under a running import.                            *)
(***************************************************************************)
THEOREM DeletedIdle == Spec => DeletedAtRest
<1>1. Inv /\ [Next]_vars => [clean /\ ~(sources \subseteq sources') => import = "no"]_vars
  <2> SUFFICES ASSUME Inv, [Next]_vars, clean, ~(sources \subseteq sources') PROVE import = "no"
    OBVIOUS
  <2>1. DeleteSource
    BY ServerSteps
       DEF serverVars, sourceVars, CreateSource, PostSelection, Purge, Import,
           SyncRacks, CacheStreams, ImportDone, ImportStopped, ImportFails, SyncDone, SyncFails
  <2> QED
    BY <2>1 DEF Inv, RestInv, DeleteSource
<1> QED
  BY <1>1, AlwaysInv, PTL DEF Spec, DeletedAtRest

===============================================================================
