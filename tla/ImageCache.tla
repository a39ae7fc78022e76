------------------------------- MODULE ImageCache -----------------------------
(***************************************************************************)
(* prepare_vms of mcp/scripts/lib_jump_deploy.sh: the cache of the patched *)
(* cloud images in MCP_STORAGE_DIR, kept across runs of ci/deploy.sh, and  *)
(* the mounts and nbd devices needed to patch one.  Each run has inputs    *)
(* (the cloud image, the repositories and packages) that the script boils  *)
(* down to a fingerprint; base_image_opnfv_fuel.img and its VCP sibling    *)
(* are symbolic links to the images with a fingerprint in their name, and  *)
(* a link is what tells the next run that an image is finished.            *)
(*                                                                         *)
(* A run may fail at any command, be killed, be interrupted by a signal    *)
(* (whose handler, the exit handler of deploy.sh, cleans the mounts up and *)
(* returns), or end with a reboot of the jump server.                      *)
(*                                                                         *)
(* Abstractions:                                                           *)
(*  - An image is as good as the phases of patching it has been through.   *)
(*  - The loop device and the partition mappings share the fate of the nbd *)
(*    device they sit on; the calls of cleanup_mounts succeed.             *)
(*  - Something is installed or configured in every patched image, so that *)
(*    patching one needs a chroot.                                         *)
(*  - qemu-nbd refuses a device in use, and an image that another device   *)
(*    has open.                                                            *)
(***************************************************************************)
EXTENDS Naturals, Sequences, SequencesExt

CONSTANTS
  Prints,      \* fingerprints: the inputs a run may have
  Vanilla,     \* those of them that leave the base image unpatched
  WithVcp,     \* those of them that need a VCP image
  Devices,     \* the nbd devices of the jump server
  Foreigners,  \* TRUE iff other programs use nbd devices too
  Events,      \* what may happen to a run, see EventKinds
  MaxEvents,   \* bound: how often in all
  None         \* no fingerprint, no device

EventKinds == {"fail", "kill", "reboot", "signal"}

ASSUME CacheAssumption ==
  /\ Vanilla \subseteq Prints
  /\ WithVcp \subseteq Prints \ Vanilla
  /\ Foreigners \in BOOLEAN
  /\ Events \subseteq EventKinds
  /\ MaxEvents \in Nat
  /\ None \notin Prints \union Devices

Kinds == {"base", "vcp"}
Images == Kinds \X Prints

\* What an nbd device may be but a way into an image: unused, a way into a
\* file that has been removed since, or in use by another program.
Free    == <<"free", None>>
Deleted == <<"deleted", None>>
Foreign == <<"foreign", None>>

\* "packaged" lacks the cloud-init datasource, "configured" the packages, ...
Contents == {"missing", "copied", "configured", "packaged", "complete"}

VARIABLES
  pc,      \* the phase of prepare_vms the run is in
  kind,    \* which of the two images it is at
  print,   \* _h, the fingerprint of the run
  mnt,     \* OPNFV_MNT_DIR is set
  dev,     \* OPNFV_NBD_DEV
  file,    \* file[i]: the content of the image i
  link,    \* link[k]: the fingerprint of the image the link of kind k names
  nbd,     \* nbd[d]: the image device d gives access to
  mounts,  \* the devices mounted on OPNFV_MNT_DIR, the visible one last
  events   \* events that may still happen

shell  == <<mnt, dev>>
disk   == <<file, link>>
kernel == <<nbd, mounts>>
vars   == <<pc, kind, print, mnt, dev, file, link, nbd, mounts, events>>

Phases ==
  {"lookup", "wipe", "copy", "pick", "connect", "mount", "configure",
   "packages", "datasource", "cleanup", "link", "done", "exit", "exited"}

TypeOK ==
  /\ pc \in Phases
  /\ kind \in Kinds
  /\ print \in Prints
  /\ mnt \in BOOLEAN
  /\ dev \in Devices \union {None}
  /\ file \in [Images -> Contents]
  /\ link \in [Kinds -> Prints \union {None}]
  /\ nbd \in [Devices -> Images \union {Free, Deleted, Foreign}]
  /\ mounts \in Seq(Devices)
  /\ events \in 0 .. MaxEvents
  /\ kind = "vcp" => print \in WithVcp
  /\ pc \in {"connect", "mount", "configure", "packages", "datasource", "cleanup"}
       => mnt /\ dev # None

Init ==
  /\ pc = "lookup"
  /\ kind = "base"
  /\ print \in Prints
  /\ mnt = FALSE
  /\ dev = None
  /\ file = [i \in Images |-> "missing"]
  /\ link = [k \in Kinds |-> None]
  /\ nbd = [d \in Devices |-> Free]
  /\ mounts = <<>>
  /\ events = MaxEvents

-------------------------------------------------------------------------------
(* Helpers.                                                                 *)

Image == <<kind, print>>
Visible == Last(mounts)
Mounted == mounts # <<>>

\* What is written below OPNFV_MNT_DIR goes to the image that is visible
\* there: nowhere that lasts if nothing is mounted or its file was removed.
Write(content) ==
  file' = IF Mounted /\ nbd[Visible] \in Images
          THEN [file EXCEPT ![nbd[Visible]] = content] ELSE file

Happens(e) ==
  /\ e \in Events
  /\ events > 0
  /\ events' = events - 1

Goto(p) == pc' = p /\ UNCHANGED events

\* After an image: the VCP image if one is needed, else the end of prepare_vms.
NextImage ==
  IF kind = "base" /\ print \in WithVcp
  THEN Goto("lookup") /\ kind' = "vcp"
  ELSE Goto("done") /\ UNCHANGED kind

\* A mutant of CleanupMounts: the nbd device stays connected.
UnmountOnly ==
  /\ mounts' = IF mnt /\ Mounted THEN Front(mounts) ELSE mounts
  /\ nbd' = nbd

\* Another one: it is disconnected under what is mounted from it.
DisconnectOnly ==
  /\ mounts' = mounts
  /\ nbd' = IF dev = None THEN nbd ELSE [nbd EXCEPT ![dev] = Free]

(***************************************************************************)
(* cleanup_mounts: unmount OPNFV_MNT_DIR if something is mounted there and *)
(* disconnect OPNFV_NBD_DEV.  Neither variable is unset afterwards.        *)
(***************************************************************************)
CleanupMounts ==
  /\ mounts' = IF mnt /\ Mounted THEN Front(mounts) ELSE mounts
  /\ nbd' = IF dev = None THEN nbd ELSE [nbd EXCEPT ![dev] = Free]

-------------------------------------------------------------------------------
(* prepare_vms.                                                             *)

\* A mutant of Found: any finished image will do.
FoundAny == link[kind] # None

\* The link and the image of the fingerprint are the same file (-ef).
Found == link[kind] = print /\ file[Image] # "missing"

Lookup ==
  /\ pc = "lookup"
  /\ IF Found THEN NextImage
     ELSE Goto(IF kind = "base" THEN "wipe" ELSE "copy") /\ UNCHANGED kind
  /\ UNCHANGED <<print, shell, disk, kernel>>

\* A mutant of Wipe: the links stay.
WipeImages ==
  /\ pc = "wipe"
  /\ file' = [i \in Images |-> "missing"]
  /\ nbd' = [d \in Devices |-> IF nbd[d] \in Images THEN Deleted ELSE nbd[d]]
  /\ Goto("copy")
  /\ UNCHANGED <<kind, print, shell, link, mounts>>

(***************************************************************************)
(* rm -rf base_image_opnfv_fuel*: both links, and the images of both kinds *)
(* for whatever fingerprint.  A device that has one open keeps it.         *)
(***************************************************************************)
Wipe ==
  /\ pc = "wipe"
  /\ file' = [i \in Images |-> "missing"]
  /\ link' = [k \in Kinds |-> None]
  /\ nbd' = [d \in Devices |-> IF nbd[d] \in Images THEN Deleted ELSE nbd[d]]
  /\ Goto("copy")
  /\ UNCHANGED <<kind, print, shell, mounts>>

\* cp, or a link to the cloud image where nothing is to be patched.
Copy ==
  /\ pc = "copy"
  /\ IF kind = "base" /\ print \in Vanilla
     THEN file' = [file EXCEPT ![Image] = "complete"] /\ Goto("link")
     ELSE file' = [file EXCEPT ![Image] = "copied"] /\ Goto("pick")
  /\ UNCHANGED <<kind, print, shell, link, kernel>>

\* A mutant of Pick: go on without a device.
PickAnyway ==
  /\ pc = "pick"
  /\ IF \E d \in Devices : nbd[d] = Free
     THEN dev' \in {d \in Devices : nbd[d] = Free}
     ELSE UNCHANGED dev
  /\ Goto("connect")
  /\ mnt' = TRUE
  /\ UNCHANGED <<kind, print, disk, kernel>>

\* The first nbd device of size 0; without one, what the variable held before.
Pick ==
  /\ pc = "pick"
  /\ IF \E d \in Devices : nbd[d] = Free
     THEN dev' \in {d \in Devices : nbd[d] = Free} /\ Goto("connect")
     ELSE UNCHANGED dev /\ Goto(IF dev = None THEN "exit" ELSE "connect")
  /\ mnt' = TRUE
  /\ UNCHANGED <<kind, print, disk, kernel>>

Connect ==
  /\ pc = "connect"
  /\ IF nbd[dev] = Free /\ \A d \in Devices : nbd[d] # Image
     THEN nbd' = [nbd EXCEPT ![dev] = Image] /\ Goto("mount")
     ELSE UNCHANGED nbd /\ Goto("exit")
  /\ UNCHANGED <<kind, print, shell, disk, mounts>>

Mount ==
  /\ pc = "mount"
  /\ IF nbd[dev] = Image
     THEN mounts' = Append(mounts, dev) /\ Goto("configure")
     ELSE UNCHANGED mounts /\ Goto("exit")
  /\ UNCHANGED <<kind, print, shell, disk, nbd>>

\* proc, sys, netplan, resolv.conf and grub; and then the packages.  Both need
\* a root file system to chroot into.
InChroot(here, content, next) ==
  /\ pc = here
  /\ IF Mounted /\ nbd[Visible] \in Images \union {Deleted}
     THEN Write(content) /\ Goto(next)
     ELSE UNCHANGED file /\ Goto("exit")
  /\ UNCHANGED <<kind, print, shell, link, kernel>>

Configure == InChroot("configure", "configured", "packages")
Packages  == InChroot("packages", "packaged", "datasource")

\* mkdir -p and tee, which make the directory they find missing.
Datasource ==
  /\ pc = "datasource"
  /\ Write("complete")
  /\ Goto("cleanup")
  /\ UNCHANGED <<kind, print, shell, link, kernel>>

Cleanup ==
  /\ pc = "cleanup"
  /\ CleanupMounts
  /\ Goto("link")
  /\ UNCHANGED <<kind, print, shell, disk>>

Link ==
  /\ pc = "link"
  /\ link' = [link EXCEPT ![kind] = print]
  /\ NextImage
  /\ UNCHANGED <<print, shell, file, kernel>>

\* The rest of deploy.sh does not touch the images.
Rest ==
  /\ pc = "done"
  /\ Goto("exit")
  /\ UNCHANGED <<kind, print, shell, disk, kernel>>

-------------------------------------------------------------------------------
(* The end of a run.                                                        *)

Running == pc \notin {"exit", "exited"}

\* A command fails under `set -e`.
Fails ==
  /\ Running
  /\ Happens("fail")
  /\ pc' = "exit"
  /\ UNCHANGED <<kind, print, shell, disk, kernel>>

\* do_exit on EXIT.
Exit ==
  /\ pc = "exit"
  /\ CleanupMounts
  /\ Goto("exited")
  /\ UNCHANGED <<kind, print, shell, disk>>

\* do_exit on SIGINT or SIGTERM: the script goes on.
Signal ==
  /\ Running
  /\ Happens("signal")
  /\ CleanupMounts
  /\ UNCHANGED <<pc, kind, print, shell, disk>>

\* No handler runs.
Kill ==
  /\ pc # "exited"
  /\ Happens("kill")
  /\ pc' = "exited"
  /\ UNCHANGED <<kind, print, shell, disk, kernel>>

Reboot ==
  /\ Happens("reboot")
  /\ pc' = "exited"
  /\ nbd' = [d \in Devices |-> Free]
  /\ mounts' = <<>>
  /\ UNCHANGED <<kind, print, shell, disk>>

\* deploy.sh once more, with the same inputs or others.
Start ==
  /\ pc = "exited"
  /\ Goto("lookup")
  /\ kind' = "base"
  /\ print' \in Prints
  /\ mnt' = FALSE
  /\ dev' = None
  /\ UNCHANGED <<disk, kernel>>

-------------------------------------------------------------------------------
(* Other users of nbd.                                                      *)

ForeignConnect(d) ==
  /\ Foreigners
  /\ nbd[d] = Free
  /\ nbd' = [nbd EXCEPT ![d] = Foreign]
  /\ UNCHANGED <<pc, kind, print, shell, disk, mounts, events>>

ForeignDisconnect(d) ==
  /\ nbd[d] = Foreign
  /\ nbd' = [nbd EXCEPT ![d] = Free]
  /\ UNCHANGED <<pc, kind, print, shell, disk, mounts, events>>

-------------------------------------------------------------------------------
Script ==
  \/ Lookup \/ Wipe \/ Copy \/ Pick \/ Connect \/ Mount \/ Configure
  \/ Packages \/ Datasource \/ Cleanup \/ Link \/ Rest \/ Exit

Next ==
  \/ Script \/ Start
  \/ Fails \/ Signal \/ Kill \/ Reboot
  \/ \E d \in Devices : ForeignConnect(d) \/ ForeignDisconnect(d)

Spec == Init /\ [][Next]_vars

\* Every command ends; the operator does not give up.
FairSpec == Spec /\ WF_vars(Script) /\ WF_vars(Start)

-------------------------------------------------------------------------------
(* Properties.                                                              *)

(***************************************************************************)
(* "Patched base image found": an image that the cache vouches for has     *)
(* been through all phases, whatever became of the runs that made it.      *)
(***************************************************************************)
CacheSound ==
  \A k \in Kinds : link[k] # None => file[<<k, link[k]>>] = "complete"

(***************************************************************************)
(* prepare_vms returns only with the images of its own inputs in place.    *)
(***************************************************************************)
ImagesOfThisRun ==
  pc = "done" =>
    /\ link["base"] = print
    /\ print \in WithVcp => link["vcp"] = print

(***************************************************************************)
(* A run that ends by itself leaves no mount and no nbd device behind.     *)
(***************************************************************************)
NothingLeft ==
  pc = "exited" => mounts = <<>> /\ \A d \in Devices : nbd[d] \in {Free, Foreign}

(***************************************************************************)
(* What runs of this script have mounted on OPNFV_MNT_DIR never loses its  *)
(* device to cleanup_mounts, although what that unmounts is what it finds  *)
(* there and what it disconnects is what a variable names: a killed run    *)
(* may have left the first, and the second may never have been connected.  *)
(* Nothing is said of other programs' devices and mounts: cleanup_mounts   *)
(* does disconnect a device that another program has connected after it    *)
(* was looked up, or since an earlier image of this run.                   *)
(***************************************************************************)
NoDanglingMount ==
  \A i \in DOMAIN mounts : nbd[mounts[i]] \in Images \union {Deleted}

(***************************************************************************)
(* Once nothing goes wrong any more, runs of deploy.sh get their images,   *)
(* whatever earlier runs and reboots have left behind.                     *)
(***************************************************************************)
Recovers == []<>(pc = "done")
===============================================================================
