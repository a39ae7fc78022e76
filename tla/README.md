# OPNFV Fuel@MCP: a TLA+ model of the deployment

The repository deploys an OPNFV platform with Salt and MaaS: `ci/deploy.sh`
prepares a jump server (patched cloud images, virtual networks and machines,
the Salt master and MaaS in containers) and then runs a list of *STATE files*
on the Salt master, each a script of `salt ... state.apply` commands. What makes
this hard is not any one command but everything around them: they fail, are
retried from the top on what the previous attempt left behind, race with what
MaaS does in the background, and are interrupted by operators.

The modules here model that control flow, TLC checks it on small instances, and
TLAPS proves the central properties for all instances. Paths below are relative
to the repository; `maas.py` and `maasng.py` are in
`mcp/salt-formulas/salt-formula-maas/_modules`, the states of the same name in
`_states`.

## 1. Inventory

| Component | State | Operations | Hard behaviour | What makes it correct |
|---|---|---|---|---|
| `ci/deploy.sh`, `wait_for` in `lib.sh` | options, errexit, the STATE file and attempt it is at, `$?` | set-up, infra steps, STATE loop, exit handler | failures at any command, a kill, signals whose handler returns, reruns with `-f` | STATE files are applied in order; "finished succesfully" is true; every run ends |
| Image cache of the jump server (`lib_jump_deploy.sh`) | image files and links in `MCP_STORAGE_DIR`, nbd devices, mounts | `prepare_vms`, `__mount_image`, `__apt_repos_pkgs_image`, `cleanup_mounts` | runs that die half way, signals, reboots, other nbd users | a cached image is complete and of the inputs its name says; nothing is left mounted; a later run succeeds |
| The `maas` STATE file and `MachinesStatus`, `Machine`, `DeployMachines` in `maas.py` | the status of every machine in MaaS; local state of a wait | create, wait for Ready, storage, deploy, wait for Deployed, hard retries | nodes that fail, calls that fail between two related calls, retries of one machine that deploy others, five attempts of the file | success means all machines deployed; the retry budget; deployed machines are left alone; it ends |
| MaaS region, boot images (`maasng.py`, `region.sls`) | boot sources, selections, an import, racks | `boot_source_present`, `boot_sources_selections_present`, imports and syncs with waits | imports in the background, waits that time out, ten attempts | images in the region and on the racks before machines are created; the pillar's sources and no others |
| MaaS region, fabrics, VLANs, subnets, ranges | networks in MaaS | `fabric_present`, `vlan_present_in_fabric`, `subnet_present`, `iprange_present` | networks that MaaS discovers on its own, fabrics renamed in turn | every subnet in the fabric of the pillar, DHCP on |
| MaaS storage states | partitions, RAIDs, volume groups of a machine, its boot disk | `disk_layout_present`, `select_boot_disk`, `disk_partition_present`, `raid_present`, `volume_group_present`, `volume_present` | one state is many calls; it runs again on what a failed attempt left | the layout of the pillar, or no success; what is left never blocks an attempt |
| Other MaaS objects (`MaasObject` in `maas.py`) | settings, snippets, repositories, scripts, tags, SSH keys, devices, the links of the NICs | list all, then POST or PUT one by one; delete and create a device; disconnect and configure the NICs | failing calls half way, errors that hide others, objects that exclude each other, machines that change after they were listed, waits that time out | the objects of the pillar, or an error; what is right is not disturbed |
| Jump server networks, VMs, containers | libvirt domains, bridges, containers | `create_networks`, `create_vms`, `cleanup_all`, `prepare_containers` | leftovers of earlier runs | a deployment starts from a clean host |
| Barbican and Gnocchi modules and states | secrets, their ACLs, image signatures; archive policies and rules | get, then create, replace, or delete and create | the same states on all compute nodes at once, calls tried again when no answer comes, failures between two calls | resources of the pillar, each once; a later attempt repairs |
| Aodh and Panko modules and states | alarms, events | one call each | none in use | their output |
| XDF templates, Docker image build, service formulas, entry points, data | none, or files | rendering, building, package and service states | none of the above | their output |

Interaction. `deploy.sh` runs the STATE files over ssh under `wait_for 5`
(attempts of ten seconds apart, for every STATE file), and the `maas` file runs
`maas.region` under `wait_for 10`, so that both levels repeat work on what an
earlier attempt left in MaaS. The Salt states act on MaaS over HTTP and only see
what a GET returns; MaaS changes between two GETs (it commissions, deploys,
imports, syncs and discovers). The jump server state outlives every run of
`deploy.sh`. The hazards that follow from this are listed, each at its line, in
`PROJECT.json`.

## 2. Modules

| Module | Models | From |
|---|---|---|
| `MaasServer` | MaaS as the formula uses it: the life cycle of a machine, the calls, failures (external half) | `maas.py` |
| `MaasState` | the `maas` STATE file on top of it, with every attempt `deploy.sh` makes at it | `mcp/config/states/maas`, `maas.py` |
| `MaasStateProofs` | its theorems | |
| `Installation` | abstract specification: what an installation promises | |
| `DeployScript` | `ci/deploy.sh` from its trap to its end; implements `Installation` | `ci/deploy.sh`, `lib.sh`, `lib_jump_deploy.sh` |
| `DeployScriptProofs` | its theorems, with the refinement | |
| `ImageCache` | the patched images, mounts and nbd devices across runs | `lib_jump_deploy.sh` |
| `ImageCacheProofs` | its theorems | |
| `BootImport` | the boot images of the region: sources, selections, import, sync | `maasng.py`, `_states/maasng.py`, `region.sls` |
| `BootImportProofs` | its theorems | |
| `RegionFabrics` | the networks of the region: fabrics, VLANs, DHCP, subnets, ranges | `maasng.py`, `_states/maasng.py`, `region.sls` |
| `RegionFabricsProofs` | its theorems | |
| `StorageLayout` | the storage states of a machine, call by call, attempt by attempt | `storage.sls`, `_states/maasng.py`, `maasng.py` |
| `StorageLayoutProofs` | its theorems | |
| `SaltStages` | a STATE file as stages of states on minions, in parallel, with its attempts | `mcp/config/states/openstack_ha`, `lib.sh` |
| `MaasObjects` | on top of `SaltStages`, what `MaasObject.process` does, and the assignment of addresses | `maas.py`, `region.sls`, `assign_ip.sls` |
| `MaasObjectsProofs` | its theorems | |
| `BarbicanClient` | the Barbican states, on top of `SaltStages` | `salt-formula-barbican` |
| `GnocchiClient` | the Gnocchi states, on top of `SaltStages` | `salt-formula-gnocchi` |
| `OpenstackClient` | both in one STATE file | `mcp/config/states/openstack_ha` |
| `OpenstackClientProofs` | its theorems | |
| `MCMaasState`, `MCBootImport`, `MCRegionFabrics`, `MCStorageLayout`, `MCMaasObjects`, `MCOpenstackClient` | definitions the configurations need | |

### MaasServer, MaasState

`status[m]` is the status MaaS reports for a machine (`"Absent"`: MaaS knows no
machine of that name), `layout[m]` whether its storage configuration is that of
the pillar, `stale` the machines whose MAC in MaaS is not that of the pillar any
more. `pc` is the command of the STATE file, `tries` the attempt of `wait_for 5`.
`total`, `todo`, `failed` are the locals of `wait_for_machine_status`: `total`
and `failed_attempts` under those names, and what is left of the current round
of its `for` loop. `stage[m]` is how far a hard retry of `m` has come: each call
that changes MaaS is a step of its own, because it may fail and because MaaS may
act before the next. `resets` is a history variable, for the retry budget.

`process()` of machines and of deployments is one step: its calls concern
distinct machines, and each tests a status that only this script leaves; any
subset of the calls may fail in it, before or (for the two-call sequences
DELETE+POST and allocate+deploy) between the calls. A failure of anything is
one of `MaxFaults`; `HttpFaults` says whether calls fail or only nodes do.
`AlreadyExists` says whether an error text may contain "already exists", which
makes `process()` swallow all errors of the call (`maas.py:179`).

### DeployScript, Installation

`Installation` has the STATE files applied, a verdict, and the steps Apply (only
on top of the files before), Spoil (an attempt that fails may undo what was
there), Wipe, Report and Again. `DeployScript` has the program counter of
`deploy.sh`, errexit, `$?`, the loop variables and the options (dry run,
`-f`, uninstall, ...). The verdict is what `do_exit` prints. `-f` skips STATE
files on the operator's word: `Sensible` restricts it to files that an earlier
run has applied, which is what the option's documentation asks.

### ImageCache

`file[<<kind, fingerprint>>]` says which phases of patching an image has been
through, `link[kind]` what `base_image_opnfv_fuel.img` and its VCP sibling point
to, `nbd` and `mounts` what the kernel knows; `mnt` and `dev` are the shell
variables `cleanup_mounts` looks at. Runs fail, are killed, are signalled, or
end with a reboot between any two steps, and the next run may have other inputs.

### BootImport

A state of `region.sls` is a task, `Requires` its requisites; Salt runs the
tasks in any order the requisites allow. `at` is the place in the Python code.
`import`, `target` and `images` are the import into the region: it fetches what
was selected when it began, and a POST during an import starts no other.
`clean` and `late` are history variables, for the premises of two properties;
`late[u]` counts the POSTs that were refused because MaaS had not read the
streams of the source `u` yet. `DeleteOthers` is the pillar's
`boot_sources_delete_all_others`: without it no source is deleted.

### RegionFabrics

`fabrics[i]` is the name of the fabric with id `i`, `subnets[c]` the id of the
fabric a subnet is in, `vlans`, `dhcp` and `ipranges` what else MaaS has. `Plan`
is the sequence of states `region.sls` renders: fabrics with their VLANs,
subnets with their ranges, then the VLANs again for DHCP. States that look
something up and then write are two steps, and `Discover` may come between
them: MaaS puts the subnets it finds on the NIC of a rack into a fabric of its
own naming, which `fabric_present` then renames by a guess from the CIDRs. A call
may fail, or be obeyed and its answer be lost. `moves` is what the code cannot
know of MaaS, whether the PUT of a subnet moves it to another fabric; both are
checked.

### StorageLayout

One machine, since the states of two share nothing. `have` maps the items the
machine has (`<<d, 0>>` a RAID or group, `<<d, k>>` a partition or volume of
`d`) to how far each has got: bare, formatted, mounted, or `"default"` for the
one partition of a layout that MaaS lays out itself. `Plan` is the sequence of
states `storage.sls` renders, `Requires` their requisites. A state looks once,
which decides `todo`, the calls it is going to make, and `Call` makes them one
by one against what MaaS allows (nothing that is in use goes, nothing is
created twice). `Raise` is the failure of any of them, obeyed or not. The
machine is deployed only after an attempt in which no state failed, and a
deployed machine is passed over; the pillar may change between runs.

### SaltStages, MaasObjects

`SaltStages` is what STATE files have in common: `stage` the command
`salt ... state.sls`, `at[m]` the state minion `m` applies, `seen[m]` what that
state has found when it last looked, `failed[m]` what went wrong. A state that
looks and then acts is at least two steps, and all minions of a stage go
through them at the same time. A failed stage ends the attempt (`set -e`).

`MaasObjects` adds the locals of `process()`: `listed`, `todo`, the `item` at
hand with its next call `step`, `errors`. Of most classes it only matters
whether MaaS has the object of the pillar (`kept`). Devices have a `mac` and an
`address`, of which MaaS has each only once, so that what an earlier pillar left
on one device may be in the way of another. `link[m]` is what
`AssignMachinesIP` has configured on the NICs. The formula offers this as
`maas.machines.assign_ip`, but no STATE file of the repository applies it:
`Stages` in `MCMaasObjects` is `maas.region` and the wait for Ready, as in
`mcp/config/states/maas`, and then `assign_ip`, as an operator's addition.
`Recommission` is somebody who has a Ready machine commissioned again, at any
time: before its turn in `process()`, in it, or after it. `again` is a history
variable: the machines that were commissioned again since their turn. `Wait` is
the wait for Ready with respect to the status Commissioning, for which it has no
remedy but its timeout; hard retries are in `MaasState`.

### BarbicanClient, GnocchiClient, OpenstackClient

`copies[s]` is how many secrets of a name Barbican has: it takes any number,
while the look-up by name fails when there are two. `tried[m]` is the attempt of
`send` at one call; an answer that is lost leaves the effect and is tried again.
`send` reports a call that was refused, or lost to the last, as an empty answer,
and the state as a success; `hidden` is a history variable for that, `partial`
one for an ACL found with some of the users. `GnocchiClient` has the policies
and rules; a rule is changed by a DELETE and a POST, and a failure leaves it
absent.

## 3. Runs

| Run | Question | Bounds |
|---|---|---|
| `maas_safety` | Can the STATE file succeed with a machine not deployed, retry too often, harm a deployed machine, or lose a storage layout without a retry? No. | 2 machines, 5 faults, 2 hard retries, 3 attempts, `ERASE_ENV`; symmetric |
| `maas_liveness` | Do the retries and attempts get everything deployed? Yes, unless a machine is left Broken. | 2 machines, 3 faults, 4 attempts |
| `maas_reentrant` (violation) | Is the file re-entrant, as the user guide says? No: see below. | 1 machine, 2 faults |
| `deploy_runs` | Does `deploy.sh` implement `Installation`, with crashes, signals and reruns? Yes. | 3 STATE files, 2 attempts each, 2 signals, 2 reruns |
| `image_safety` | Can a cached image be unfinished, or of other inputs, or the device of a mount on `OPNFV_MNT_DIR` be disconnected? No, without signals. | 3 inputs, 2 devices, 3 failures, kills or reboots, another nbd user |
| `image_recovery` | Do later runs succeed, whatever failures, signals and reboots did? Yes. | 3 inputs, 1 device, 3 events |
| `image_signal` (violation) | Is the cache sound under signals? No. | 1 input, 1 signal |
| `boot_images` | Are the images there when `maas.region` succeeds, are the sources right, is a source deleted under an import, does it succeed in the end? | 2 sources, 3 selections, 2 racks, 2 faults, 3 attempts |
| `region_networks` | Are the networks those of the pillar, with DHCP, when `maas.region` succeeds; are they ever mislabelled or changed by a later run; does it succeed in the end? | 2 fabrics, 3 subnets, 3 VLANs, 1 range, 4 NICs, 1 fault, 5 attempts, 1 rerun |
| `machine_storage` | Is the layout that of the pillar when the storage states succeed, and on every deployed machine; does a failed attempt keep a later one from succeeding? | 2 disks, 1 RAID, 1 group, 7 items, 4 layouts, 2 faults, 4 attempts, 2 reruns |
| `maas_objects` | Are the objects in MaaS when the file succeeds, and, with `assign_ip` in it, the NICs configured; is something right ever undone; does it succeed in the end? | 3 things, 2 devices, 2 machines with 2 NICs, 2 faults, 4 attempts |
| `openstack_resources` | Are secrets, ACLs, signatures and rules there when the file succeeds; do secondaries change anything; does it succeed in the end? | 2 + 2 minions, 2 secrets, 2 users, 2 tries per call, 1 policy and rule, 2 faults, 3 attempts |

Why the bounds are enough. Two machines are needed for what one retry does to
another machine and suffice for it: the code keeps no state that relates more
than the machine at hand to all others. Two or three attempts show a first, a
repeated and a last attempt; more faults than attempts let every attempt fail.
Three inputs of the image cache are one that needs no patching, one that does,
and one with a VCP image. Two subnets of one fabric and one of another, on NICs
of their own or shared, give every way a guess of `fabric_present` can go; each
discovery and each fault may cost an attempt, and there is one attempt more.
A machine with a RAID of partitions under a volume group has items that depend
on each other over three levels, the deepest the formula offers. Two devices and
two NICs suffice for exchanges of an address or a MAC, two minions for two
look-ups before two creations; of Barbican's thirty tries, two are a first that
is obeyed and a last.
Three STATE files give a first, a middle and a last
one, and one that may be the MaaS file. The theorems below have no bounds.

What a failing premise would look like. `maas_safety` and `maas_liveness` are
checked with `AlreadyExists = FALSE`; with it, three machines, of which one is
known already and one fails, make the STATE file succeed with a machine missing
(the hidden error of `maas.py:179`). `LayoutUnlessRepaired` has the premise that
no hard retry took place: after one, a machine is commissioned again or taken
as it is, found Ready by `DeployMachines().process()` of another machine, and
deployed with the default layout. The last wait may also do this to a machine
that the first wait had seen Ready: it has gone when the storage states run, and
these report success for a machine that is not Ready (`_states/maasng.py:68`).
`ImagesWhenDone` excludes sources with another selection (the code takes any
selection for the wanted one, `maasng.py:1623`) and attempts in which an import
or the POST of one was given up: the next attempt takes the selection for
imported, and an import that still runs fetches the selections of before.
`split` records that the guess of `check_fabric_guess_with_cidr` had two answers,
or was the same for two fabrics. That happens when MaaS discovers subnets of two
fabrics on one NIC: the fabric is renamed in turn, and `maas.region` fails ten
times. It also happens when a subnet is discovered after its fabric was created
and before the subnet was: if MaaS does not move it, or the PUT fails once, every
later attempt tries to rename the fabric found to a name that is taken. The
comment of the function says as much ("Works only for first shot"), so that this
is a premise here and no violation.

Violations. They are behaviours of the code that contradict what the repository
says of it; the findings of `PROJECT.json` quote both sides.
- `maas_reentrant`: an attempt that fails between mark_broken and mark_fixed
  leaves a machine Broken; no branch of the wait knows that status.
- `image_signal`: the handler of SIGINT and SIGTERM is that of EXIT and returns
  to the script; it unmounts the image under the package
  installation; `mkdir -p` and `tee` succeed in the bare directory, and the
  unfinished image is linked.

Other behaviours seen while modelling, not given a run.

The jump server. On a signal, `do_exit` judges by the `$?` of the last command
and prints its verdict, so that "finished succesfully" may appear before
anything is installed (the mapping of `IsInstallation` excludes signalled runs).
A kill while the VCP image is patched leaves a qemu-nbd that holds the image, and later runs of the
same inputs fail until the jump server is rebooted; `image_recovery` therefore
has no kills. `OPNFV_NBD_DEV` is set to a device that has size 0, and never
unset: if another program connects that device before `qemu-nbd --connect` does,
the connect fails, and the exit handler disconnects the device of that program
(`lib_jump_deploy.sh:589`), although the comment of `cleanup_mounts` speaks of
devices "created while patching base image". What such a program has mounted is
not modelled: `NoDanglingMount` is about the mounts on `OPNFV_MNT_DIR`.

Boot images. The result of a wait for an import or a sync that timed out is
dropped (`if ret is dict`, `maasng.py`), so that `maas.region` succeeds without
an image; `clean` is the premise that this did not happen.

Storage. Without a `type` the states compare partitions only, so that a format
or mount that was lost is reported as present, and a RAID that exists is created
again, which MaaS refuses for good: `EventuallyLaidOut` and the second half of
`LayoutComplete` are about layouts with a type. The README.rst of the formula
says that RAID under LVM "lacks the ability run state twice"; with `custom` it
can, because the schema is dropped first.

Objects. "already exists" in one error hides all errors of the same `process()`
(the premise `taken = {}` of `InPlaceWhenDone`). A machine that is commissioned
again in or after its turn loses the configuration of its NICs, and the file
succeeds all the same, since nobody looks at the machine a second time (the
premise `again` of `AddressesWhenDone`). Devices that exchange their
addresses never do, since neither is unlinked (`Crossed`); those that exchange
their MACs do in a second attempt. `maas_devices` requires
`module: maas_subnets` (`region.sls:420-429`), a state id that no longer exists:
a pillar with devices and subnets, as in the README.rst of the formula, always
fails (`blocked`). `PacketRepository` tests `disabled_pockets` and reads
`disable_pockets`.

Barbican. Two minions that look a secret up before either creates it, or a POST
whose answer is lost, make two secrets of one name, and every later attempt
fails (the premise of `EventuallyApplied`); `barbican.client` runs on all
compute nodes at once. The PUT of an ACL has the users that are missing and
replaces those that are there (`partial`).

## 4. Fairness

- `MaasState`: weak fairness of the script (bash goes on) and of what MaaS has
  begun (commissioning and deploying end); strong fairness of the timeout of a
  wait, which is a clock: a wait that reaches the end of a round again and again
  times out in the end. `Patient` says that the timeout outlasts what MaaS is
  doing; the pillar sets it to the same 40 to 60 minutes MaaS itself uses to
  give up.
- `DeployScript`: weak fairness of the script. Nobody is obliged to rerun it.
- `ImageCache`: weak fairness of the script and of `Start`, since `Recovers` is
  about an operator who does run it again. Faults are bounded, so that at some
  point nothing goes wrong any more.
- `BootImport`: weak fairness of Salt and of MaaS.
- `RegionFabrics`: weak fairness of `deploy.sh` and Salt; MaaS need not discover
  anything.
- `StorageLayout`: weak fairness of the script; a machine need not be deployed,
  nor the file run again.
- `OpenstackClient`: weak fairness of every minion, and of the end of a stage:
  Salt runs the states of a minion whatever the others do.
- `MaasObjects`: the same, and of the end of commissioning in MaaS.

No fairness is assumed of a failure, a signal, a kill or a reboot.

## 5. Proofs

The theorems have no bounds: they hold for any number of machines, STATE files,
minions, objects, images, attempts, retries, faults, signals and reruns. Their
assumptions are those on the constants, which TLC evaluates in every run, and
the premises stated with a theorem. Every module has one inductive invariant,
and one lemma for each of its conjuncts.

`MaasStateProofs` (`ServerAssumption`, `StateAssumption`)
- `TypeCorrect`: `Spec => []TypeOK`. Inductive only together with `RetryInv`:
  `failed[m]` stays within `Attempts` because a hard retry is under way only for
  a machine with retries left, and one at a time.
- `RetryBudget`: `Spec => []HardRetryBudget`. The strengthening `BudgetInv`
  counts the retries of earlier waits, those this wait has counted, and the one
  that may be under way but not counted yet: it is counted at its end only.
- `Success`: `~AlreadyExists => (Spec => []DoneMeansDeployed)`. The wait forgets
  a machine it has once seen Deployed; `SeenInv` says that it stays Deployed,
  which needs `StaleInv` (after `maas.machines` no MAC is out of date, so that
  the `Machine().process()` of another machine's retry does not delete it).
- `Untouched`: `Spec => DeployedUntouched`, an action property.
- `LayoutKept`: `Spec => []LayoutUnlessRepaired`. `LayoutInv` says of runs
  without a hard retry that the machines which the first wait has seen stay as
  they were seen, so that the storage states find all of them Ready or Deployed
  and no machine becomes Ready between them and the deployment.

`DeployScriptProofs` (`DeployAssumption`)
- `TypeCorrect`, `RunInvariant`: types; errexit is off in `check_connection`
  only; in the loop all STATE files before the current one are applied; an
  unsignalled full run reaches its end with `$? = 0` only when all are. This one
  is proved only: no run lists it.
- `Order`: `Spec => AppliedInOrder`.
- `Implementation`: `Spec => IsInstallation`, every step of the script being a
  step or a stutter of `Installation` under the mapping `verdict <- Reported`.

`ImageCacheProofs` (`CacheAssumption`)
- `TypeCorrect`; `MountsStand`: `NoDanglingMount`, whatever happens; it says
  nothing of the devices of other programs. `DevInv`:
  the device that a run may disconnect is mounted by that run only, and then on
  top of what other runs have left mounted, which is what the unmount takes.
- `CacheIsSound`: `CacheSound` without signals (`"signal" \notin Events`), with
  failures, kills and reboots. `CacheInv`: a run writes only to the image it is
  at, through the mount it sees, and no link names this image before the end.
- `RightImages`: `ImagesOfThisRun`. The VCP image is the second one, and nothing
  that is done for it takes the first away (`SecondInv`).
- `CleanEnd`: `NothingLeft` without kills. `CleanInv`: between `Connect` and the
  handler the one device that is not idle is the one the handler disconnects.

`BootImportProofs` (`BootAssumption`)
- `TypeCorrect`, with `PointInv` (which state of `region.sls` has which places
  in its code).
- `RightSources`: `SourcesOfPillar`, if the pillar has a source at all: its sources
  are there, and no others if `DeleteOthers`. A source
  that was created stays, and a state that succeeds has removed the others; the
  states that follow add none but those of the pillar (`SourceInv`).
- `ImagesFetched`: `ImagesWhenDone`. `ImportInv` is about the order of imports.
  An import that runs while no state waits for it is the one MaaS began by
  itself, of all that was selected then. Whoever joins it waits for its end; so
  once the state of the region has succeeded, nothing is left unfetched but the
  selection just posted, and the import that follows a POST is a new one.
  `RackInv`: no import ends, and so makes the racks stale, after they were
  synced, since their state requires all that import (`OrderInv`).
- `DeletedIdle`: `DeletedAtRest`, an action property.

`RegionFabricsProofs` (`RegionAssumption`, `NamesAssumption`)
- `Plan` is put together from the sequences of the pillar. `PlanFacts` says which
  states it has, and that the fabrics come before all others. What a
  concatenation contains is an induction over its length: `Induction` is the
  principle for sets of numbers, from the well-foundedness of `<`; the library
  states it for an operator parameter, which no prover here can instantiate.
- `TypeCorrect`: `Spec => []TypeOK`. MaaS numbers its fabrics, so there has to be
  room for the next one: `Numbered` counts the names of the pillar that MaaS has
  and the subnets it has discovered, and a fabric takes up one of both.
- `Placed`: `NotMisplaced`. `LookedUp`: the id that a fabric's state has looked
  up belongs to this fabric until it writes, whatever is discovered in between.
- `Configured`: `RegionConfigured`. `Kept`: what a state of the attempt has
  achieved stays so until the attempt is over: a subnet that is moved, a fabric
  that is renamed and the first pass over the VLANs take nothing back that a
  later state has done (they come first).
- `NetworksStable`: `Spec => Stable`. `Settled`: after a success everything the
  states would create is there, so that they find it, and nothing is left to be
  discovered.

`StorageLayoutProofs` (`StorageAssumption`)
- What a concatenation contains, and in which order, is an induction over its
  length (`Induction`, as above), stated for the set of its elements and for the
  order of two of them; `SetToSeq` is any order of a finite set. From these come
  the calls a state decides on (`todo`) and the states of `Plan`.
- `Invariant`: `Spec => []Inv`, whose conjuncts are
  `Sound`: nothing is on a RAID or group that is gone, and only the first
  partition of a disk comes from a layout;
  `Working`: the calls left are ordered for each item (delete, create, format,
  mount), and what they make of an item is what the pillar wants of it (`Due`),
  or they are the deletions of a custom layout, and those cover all that is there
  (`DropsAll`);
  `Kept`: the items of a state that has succeeded in this attempt stay, although
  MaaS takes the volumes of a RAID or group along with it: no two states make the
  same item, and a state deletes only what it makes itself or nothing needs;
  `Fresh`: after the layout state, the first partition of a disk is that of the
  layout until the disk's own state has begun, so that this state finds either
  nothing or its own work, and never takes a foreign partition for it;
  `Ended`: success means that no state of the plan has failed.
- `LaidOut`: `LayoutComplete`, from `Kept` for all of `Plan`. `TypeCorrect`.
- `StorageKept`: `DeployedAsPlanned`. A machine is deployed only then.

`MaasObjectsProofs` (`StagesAssumption`, `ObjectsAssumption`, `KindsAssumption`,
`PillarAssumption`)
- `TypeCorrect`, with `ProcessInv` (what the locals of a `process()` have to do
  with each other).
- `DoneInPlace`: `InPlaceWhenDone`. `WorkInv`: what `process()` has treated is
  in place unless there is an error; `PassedInv`: what an attempt has passed is
  in place, and other states, applied later, do not disturb it.
- `AddressesAssigned`: `AddressesWhenDone`, by the same conjuncts, for machines
  that are not in `again`; `StatusInv`: only what was deployed before is ever
  listed as deployed, so that `assign_ip` passes over no other in silence.
- `Undisturbed`: `Spec => NeverDisturbed`, an action property.

`OpenstackClientProofs` (`StagesAssumption`, `BarbicanAssumption`,
`NamesAssumption`, `OrderAssumption`)
- `TypeCorrect`.
- `Secured`: `SecretsWhenDone`. `PassedInv` as above. That a secret with an ACL
  is there once, although two minions may create it, needs `OnceInv`: the
  minion that makes the second one has not looked for the ACL yet, so that its
  attempt fails, and so does each that follows; with `TriedInv` (only a POST and
  a PUT are tried again) and `PutInv` (what is put are all users, unless some
  were there).
- `RulesInPlace`: `RulesWhenDone`; `SecondariesIdle`: `Spec => LastStageIdle`.
  Both from `RuleInv`: a rule that is deleted is not that of the pillar, and the
  minions of the last stage find that of the pillar only.

`MaasObjectsProofs` and `OpenstackClientProofs` both begin with the lemmas about
`SaltStages`, the module their models share.

Only model-checked. All liveness properties (fairness and ENABLED are out of the
prover's reach), among them that the storage states end well in some attempt
(`EventuallyLaidOut`). The violation runs are counterexamples and need no proof.

## 6. Plan

Done: the modules of section 2, and the theorems of section 5. Left:

1. `JumpServer`: networks, VMs and containers across runs, as the refinement of
   the infrastructure steps of `DeployScript`.
2. `StorageLayout` composed with `MaasState`, which sees only the outcome of the
   storage states; two copies of the STATE file at once, after a lost session.
3. Operators for the address filters of `gen_config_lib.py` and the dependency
   walk of `formula-fetch.sh`, each with a reference definition.

## 7. Not modelled

- The inside of the other STATE files: lists of salt commands whose effect is in
  formulas outside of this repository. One attempt is one step of `DeployScript`.
- Declarative formulas (packages, files, services), documentation, reclass data,
  patches: no control flow of their own. The Aodh and Panko states are single
  REST calls that no formula of the repository makes.
- What libvirt, the bridges and the containers of the jump server go through:
  each of the functions for them is one command of `DeployScript`.
- Two copies of a STATE file at once, after a lost ssh session: `DeployScript`
  ends the remote half with its session.
- Wall-clock time: a timeout is a step that may happen, or, under `Patient`, one
  that happens only when nothing else would.
- Wording, logging and layout of output, but for the verdict of `do_exit`.
