------------------------------ MODULE BootImport ------------------------------
(***************************************************************************)
(* The boot images of the MaaS region: the part of maas.region (region.sls *)
(* of salt-formula-maas) between logging in to MaaS and maas_config, with  *)
(* the functions of _modules/maasng.py and _states/maasng.py it calls.     *)
(* The maas STATE file applies maas.region under `wait_for 10` before it   *)
(* creates machines, which cannot be commissioned without an image.        *)
(*                                                                         *)
(* MaaS, the external half, caches the streams of a source some time after *)
(* it was created, imports the images of its selections into the region in *)
(* the background, and syncs them to its racks, in the background as well. *)
(*                                                                         *)
(* Abstractions:                                                           *)
(*  - Salt runs the states in an order their requisites allow; any such.   *)
(*  - A selection is a model value: os, release, arches and labels differ. *)
(*  - MaaS imports what was selected when the import began, and does not   *)
(*    begin a second import while one runs.                                *)
(***************************************************************************)
EXTENDS Naturals, FiniteSets

CONSTANTS
  Urls,        \* URLs of boot sources
  Selections,  \* boot source selections
  SourceOf,    \* SourceOf[s]: the source that selection s belongs to
  Sources,     \* maas:region:boot_sources of the pillar
  DeleteOthers, \* maas:region:boot_sources_delete_all_others
  Wanted,      \* maas:region:boot_sources_selections of the pillar
  Racks,       \* the rack controllers
  PostTries,   \* how often a selection is POSTed (10 in the code)
  MaxTries,    \* how often deploy.sh applies the states (10 in the code)
  MaxFaults    \* bound: failures of calls, imports and syncs

ASSUME BootAssumption ==
  /\ SourceOf \in [Selections -> Urls]
  /\ Sources \subseteq Urls
  /\ DeleteOthers \in BOOLEAN
  /\ Wanted \subseteq Selections
  /\ \A s \in Wanted : SourceOf[s] \in Sources
  /\ PostTries \in Nat \ {0}
  /\ MaxTries \in Nat \ {0}
  /\ MaxFaults \in Nat

VARIABLES
  sources,     \* the boot sources MaaS has
  cached,      \* those of them whose streams it knows
  selections,  \* the selections MaaS has
  import,      \* the import into the region: "no", "running", "stopping"
  target,      \* what that import fetches
  images,      \* the selections whose images the region has
  syncing,     \* racks that fetch images from the region
  synced,      \* racks that have the images the region has
  result,      \* result[t]: what the current attempt has made of state t
  task,        \* the state that Salt runs
  at,          \* where in its code
  posts,       \* POSTs of a selection that failed
  waiting,     \* racks that the state has still to wait for
  tries,       \* attempts of deploy.sh
  phase,       \* "running", "done" or "failed"
  faults,      \* failures that may still happen
  clean,       \* history: no import, and no wait for one, was given up
  late         \* history: late[u]: POSTs refused as the streams of u were not
               \* known; it stops at PostTries

sourceVars == <<sources, cached, selections>>
importVars == <<import, target, images>>
rackVars   == <<syncing, synced>>
serverVars == <<sourceVars, importVars, rackVars>>
taskVars   == <<result, task, at, posts, waiting>>
runVars    == <<tries, phase>>
history    == <<clean, late>>
ctlVars    == <<runVars, faults, history>>
vars       == <<serverVars, taskVars, ctlVars>>

Login      == <<"login">>
Region     == <<"region">>
AllRacks   == <<"racks">>
Source(u)  == <<"source", u>>
Select(s)  == <<"selection", s>>
SourceTasks == {Source(u) : u \in Sources}
SelectTasks == {Select(s) : s \in Wanted}
Tasks   == {Login, Region, AllRacks} \union SourceTasks \union SelectTasks
NoTask  == <<"none">>

\* A mutant of Requires: the racks are synced without regard to selections.
RequiresNoSelection(t) ==
  IF t = Login THEN {}
  ELSE IF t = AllRacks THEN {Login, Region}
  ELSE IF t = Region \/ t \in SelectTasks THEN {Login} \union SourceTasks
  ELSE {Login}

\* require and require_in of region.sls.
Requires(t) ==
  IF t = Login THEN {}
  ELSE IF t = AllRacks THEN {Login, Region} \union SelectTasks
  ELSE IF t = Region \/ t \in SelectTasks THEN {Login} \union SourceTasks
  ELSE {Login}

Entry(t) ==
  IF t = Login THEN "warmup"
  ELSE IF t = Region THEN "import"
  ELSE IF t = AllRacks THEN "sync"
  ELSE IF t \in SelectTasks THEN "look" ELSE "create"

Points == {"none", "warmup", "create", "purge", "delete", "look", "post",
           "import", "idle", "sync", "rack"}

TypeOK ==
  /\ sources \subseteq Urls
  /\ cached \subseteq sources
  /\ selections \subseteq Selections
  /\ \A s \in selections : SourceOf[s] \in sources
  /\ import \in {"no", "running", "stopping"}
  /\ target \subseteq Selections
  /\ images \subseteq Selections
  /\ syncing \subseteq Racks
  /\ synced \subseteq Racks
  /\ result \in [Tasks -> {"todo", "ok", "failed"}]
  /\ task \in Tasks \union {NoTask}
  /\ at \in Points
  /\ task = NoTask <=> at = "none"
  /\ posts \in 0 .. PostTries - 1
  /\ waiting \subseteq Racks
  /\ tries \in 1 .. MaxTries
  /\ phase \in {"running", "done", "failed"}
  /\ faults \in 0 .. MaxFaults
  /\ clean \in BOOLEAN
  /\ late \in [Urls -> 0 .. PostTries]

\* The sources and selections MaaS comes with, or an earlier deployment left, and
\* the import MaaS may have begun when it was installed.
Init ==
  /\ sources \in SUBSET Urls
  /\ cached = sources
  /\ selections \in SUBSET {s \in Selections : SourceOf[s] \in sources}
  /\ import \in {"no", "running"}
  /\ target = IF import = "no" THEN {} ELSE selections
  /\ images \in {{}, selections}
  /\ syncing = {}
  /\ synced \in {{}, Racks}
  /\ result = [t \in Tasks |-> "todo"]
  /\ task = NoTask
  /\ at = "none"
  /\ posts = 0
  /\ waiting = {}
  /\ tries = 1
  /\ phase = "running"
  /\ faults = MaxFaults
  /\ clean = TRUE
  /\ late = [u \in Urls |-> 0]

-------------------------------------------------------------------------------
(* Salt.                                                                    *)

Fault == faults > 0 /\ faults' = faults - 1

Begin(t) ==
  /\ phase = "running"
  /\ task = NoTask
  /\ result[t] = "todo"
  /\ \A r \in Requires(t) : result[r] = "ok"
  /\ task' = t
  /\ at' = Entry(t)
  /\ posts' = 0
  /\ UNCHANGED <<serverVars, result, waiting, ctlVars>>

\* A state with a failed requisite is not run, and has failed.
Block(t) ==
  /\ task = NoTask
  /\ result[t] = "todo"
  /\ \E r \in Requires(t) : result[r] = "failed"
  /\ result' = [result EXCEPT ![t] = "failed"]
  /\ UNCHANGED <<serverVars, task, at, posts, waiting, ctlVars>>

Return(r) ==
  /\ result' = [result EXCEPT ![task] = r]
  /\ task' = NoTask
  /\ at' = "none"
  /\ posts' = 0
  /\ waiting' = {}

Goto(p) == at' = p /\ UNCHANGED <<result, task, waiting>>

\* A call raises: the state fails.
Raise ==
  /\ task # NoTask
  /\ Fault
  /\ Return("failed")
  /\ clean' = (clean /\ at \notin {"import", "idle"})
  /\ UNCHANGED <<serverVars, runVars, late>>

\* wait_for 10 "salt ... state.apply maas.region"
EndAttempt ==
  /\ phase = "running"
  /\ \A t \in Tasks : result[t] # "todo"
  /\ IF \A t \in Tasks : result[t] = "ok"
     THEN phase' = "done" /\ UNCHANGED <<result, tries>>
     ELSE IF tries < MaxTries
     THEN /\ tries' = tries + 1
          /\ result' = [t \in Tasks |-> "todo"]
          /\ UNCHANGED phase
     ELSE phase' = "failed" /\ UNCHANGED <<result, tries>>
  /\ task = NoTask
  /\ UNCHANGED <<serverVars, task, at, posts, waiting, faults, history>>

-------------------------------------------------------------------------------
(* The states.                                                              *)

\* wait_for_http_code, createadmin, apikey.
Warmup ==
  /\ at = "warmup"
  /\ Return("ok")
  /\ UNCHANGED <<serverVars, ctlVars>>

\* A mutant of CreateSource: only a source that is new removes the others.
PurgeIfNew ==
  /\ at = "create"
  /\ sources' = sources \union {task[2]}
  /\ IF task[2] \in sources THEN Return("ok") ELSE Goto("purge") /\ posts' = 0
  /\ UNCHANGED <<cached, selections, importVars, rackVars, ctlVars>>

\* boot_source_present: create_boot_source unless MaaS has it.
CreateSource ==
  /\ at = "create"
  /\ sources' = sources \union {task[2]}
  /\ Goto("purge")
  /\ UNCHANGED <<cached, selections, importVars, rackVars, posts, ctlVars>>

\* A mutant of Purge: the source is deleted without a wait for the import.
StopAndGo ==
  /\ at = "purge"
  /\ IF ~DeleteOthers \/ sources \subseteq Sources
     THEN Return("ok") /\ UNCHANGED import
     ELSE /\ import' = IF import = "running" THEN "stopping" ELSE import
          /\ Goto("delete")
          /\ UNCHANGED posts
  /\ UNCHANGED <<sourceVars, target, images, rackVars, ctlVars>>

\* boot_sources_delete_all_others, if it is asked for: stop_import before each.
Purge ==
  /\ at = "purge"
  /\ IF ~DeleteOthers \/ sources \subseteq Sources
     THEN Return("ok") /\ UNCHANGED import
     ELSE /\ import' = IF import = "running" THEN "stopping" ELSE import
          /\ Goto("idle")
          /\ UNCHANGED posts
  /\ UNCHANGED <<sourceVars, target, images, rackVars, ctlVars>>

\* delete_boot_source: the selections of the source go with it.
DeleteSource ==
  /\ at = "delete"
  /\ \E u \in sources \ Sources :
       /\ sources' = sources \ {u}
       /\ cached' = cached \ {u}
       /\ selections' = {s \in selections : SourceOf[s] # u}
  /\ Goto("purge")
  /\ UNCHANGED <<importVars, rackVars, posts, ctlVars>>

(***************************************************************************)
(* is_boot_source_selections_in compares the keys of two selections, and   *)
(* all selections have the same keys: any one of the source will do.       *)
(***************************************************************************)
SelectionIn(s) == \E t \in selections : SourceOf[t] = SourceOf[s]

LookForSelection ==
  /\ at = "look"
  /\ IF SourceOf[task[2]] \notin sources THEN Return("failed")
     ELSE IF SelectionIn(task[2]) THEN Return("ok")
     ELSE Goto("post") /\ UNCHANGED posts
  /\ UNCHANGED <<serverVars, ctlVars>>

PostSelection ==
  /\ at = "post"
  /\ SourceOf[task[2]] \in cached
  /\ selections' = selections \union {task[2]}
  /\ Goto("import")
  /\ UNCHANGED <<sources, cached, importVars, rackVars, posts, ctlVars>>

\* MaaS refuses the POST as it does not know the streams yet; or it fails for
\* another reason.
NotPosted ==
  LET u == SourceOf[task[2]] IN
    \/ /\ u \notin cached /\ UNCHANGED faults
       /\ late' = [late EXCEPT ![u] = IF @ < PostTries THEN @ + 1 ELSE @]
    \/ Fault /\ UNCHANGED late

\* A mutant of PostFails: no retry.
PostOnce ==
  /\ at = "post"
  /\ NotPosted
  /\ Return("failed")
  /\ UNCHANGED <<serverVars, runVars, clean>>

\* Another mutant: one retry too many.
OnePostMore ==
  /\ at = "post"
  /\ NotPosted
  /\ IF posts <= PostTries - 1
     THEN posts' = posts + 1 /\ UNCHANGED <<result, task, at, waiting>>
     ELSE Return("failed")
  /\ UNCHANGED <<serverVars, runVars, clean>>

\* A POST that failed is tried again; after the last one the state has failed.
PostFails ==
  /\ at = "post"
  /\ NotPosted
  /\ IF posts < PostTries - 1
     THEN posts' = posts + 1 /\ UNCHANGED <<result, task, at, waiting>>
     ELSE Return("failed")
  /\ UNCHANGED <<serverVars, runVars, clean>>

\* boot_resources_import(action='import', wait=True)
Import ==
  /\ at = "import"
  /\ IF import = "no" THEN import' = "running" /\ target' = selections
     ELSE UNCHANGED <<import, target>>
  /\ Goto("idle")
  /\ UNCHANGED <<sourceVars, images, rackVars, posts, ctlVars>>

\* What follows a wait for the import, whose result nobody looks at.
AfterWait ==
  IF task \in SourceTasks THEN Goto("delete") /\ UNCHANGED posts
  ELSE Return("ok")

\* boot_resources_is_importing(wait=True)
ImportIdle ==
  /\ at = "idle"
  /\ import = "no"
  /\ AfterWait
  /\ UNCHANGED <<serverVars, ctlVars>>

IdleTimeout ==
  /\ at = "idle"
  /\ import # "no"
  /\ AfterWait
  /\ clean' = FALSE
  /\ UNCHANGED <<serverVars, runVars, faults, late>>

\* sync_bs_to_rack, and list_racks.
SyncRacks ==
  /\ at = "sync"
  /\ syncing' = Racks
  /\ synced' = {}
  /\ at' = "rack"
  /\ waiting' = Racks
  /\ UNCHANGED <<sourceVars, importVars, result, task, posts, ctlVars>>

\* wait_for_sync_bs_to_rack, of one rack after the other
RackSynced(r) ==
  /\ at = "rack"
  /\ r \in waiting \intersect synced
  /\ waiting' = waiting \ {r}
  /\ UNCHANGED <<serverVars, result, task, at, posts, ctlVars>>

RackTimeout(r) ==
  /\ at = "rack"
  /\ r \in waiting \ synced
  /\ waiting' = waiting \ {r}
  /\ clean' = FALSE
  /\ UNCHANGED <<serverVars, result, task, at, posts, runVars, faults, late>>

RacksOver ==
  /\ at = "rack"
  /\ waiting = {}
  /\ Return("ok")
  /\ UNCHANGED <<serverVars, ctlVars>>

-------------------------------------------------------------------------------
(* MaaS.                                                                    *)

CacheStreams(u) ==
  /\ u \in sources \ cached
  /\ cached' = cached \union {u}
  /\ UNCHANGED <<sources, selections, importVars, rackVars, taskVars, ctlVars>>

ImportDone ==
  /\ import = "running"
  /\ import' = "no"
  /\ images' = target
  /\ synced' = IF images' = images THEN synced ELSE {}
  /\ UNCHANGED <<sourceVars, target, syncing, taskVars, ctlVars>>

ImportStopped ==
  /\ import = "stopping"
  /\ import' = "no"
  /\ UNCHANGED <<sourceVars, target, images, rackVars, taskVars, ctlVars>>

ImportFails ==
  /\ import = "running"
  /\ Fault
  /\ import' = "no"
  /\ clean' = FALSE
  /\ UNCHANGED <<sourceVars, target, images, rackVars, taskVars, runVars, late>>

SyncDone(r) ==
  /\ r \in syncing
  /\ syncing' = syncing \ {r}
  /\ synced' = synced \union {r}
  /\ UNCHANGED <<sourceVars, importVars, taskVars, ctlVars>>

SyncFails(r) ==
  /\ r \in syncing
  /\ Fault
  /\ syncing' = syncing \ {r}
  /\ UNCHANGED <<sourceVars, importVars, synced, taskVars, runVars, history>>

-------------------------------------------------------------------------------
Script ==
  \/ \E t \in Tasks : Begin(t) \/ Block(t)
  \/ EndAttempt
  \/ Warmup \/ CreateSource \/ Purge \/ DeleteSource
  \/ LookForSelection \/ PostSelection \/ PostFails \/ Import
  \/ ImportIdle \/ IdleTimeout
  \/ SyncRacks \/ RacksOver
  \/ \E r \in Racks : RackSynced(r) \/ RackTimeout(r)

Server ==
  \/ \E u \in Urls : CacheStreams(u)
  \/ ImportDone \/ ImportStopped
  \/ \E r \in Racks : SyncDone(r)

Finished == phase # "running" /\ UNCHANGED vars

Next ==
  \/ Script \/ Server \/ Raise \/ Finished
  \/ ImportFails \/ \E r \in Racks : SyncFails(r)

Spec == Init /\ [][Next]_vars

\* Salt and MaaS go on with what they have begun.
FairSpec == Spec /\ WF_vars(Script) /\ WF_vars(Server)

-------------------------------------------------------------------------------
(* Properties.                                                              *)

(***************************************************************************)
(* When maas.region has succeeded, MaaS has the sources of the pillar, and *)
(* under boot_sources_delete_all_others no other, whichever calls of       *)
(* earlier attempts failed between the creation of a source and the        *)
(* removal of another.                                                     *)
(***************************************************************************)
SourcesOfPillar ==
  phase = "done" => Sources \subseteq sources /\ (DeleteOthers => sources \subseteq Sources)

(***************************************************************************)
(* When maas.region has succeeded, and in no attempt the POST of an import *)
(* failed, an import failed, or a wait for one ended before it, then the   *)
(* region has the image of every selection of the pillar (unless the       *)
(* source had another selection), and so have the racks: an import that    *)
(* began too early to fetch it is over before one that fetches it begins,  *)
(* and that one is over before the racks are synced.                       *)
(***************************************************************************)
ImagesWhenDone ==
  phase = "done" /\ clean =>
    /\ \A s \in Wanted :
         s \in images \/ \E t \in selections \ {s} : SourceOf[t] = SourceOf[s]
    /\ synced = Racks

(***************************************************************************)
(* No source is deleted under a running import, unless the wait for its    *)
(* end has timed out.                                                      *)
(***************************************************************************)
DeletedAtRest ==
  [][clean /\ ~(sources \subseteq sources') => import = "no"]_vars

(***************************************************************************)
(* Whatever takes too long or fails, less often than there are attempts:   *)
(* maas.region succeeds in the end.  It may fail only if MaaS refused      *)
(* selections of a source, whose streams it had still to read, as often as *)
(* a state asks it to: a state does not give up for less.                  *)
(***************************************************************************)
EventuallyApplied ==
  <>(phase = "done" \/ (phase = "failed" /\ \E u \in Urls : late[u] >= PostTries))
===============================================================================
