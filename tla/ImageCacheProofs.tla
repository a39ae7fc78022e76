---------------------------- MODULE ImageCacheProofs ---------------------------
(***************************************************************************)
(* Proofs about ImageCache for every set of inputs, any number of nbd      *)
(* devices, and any number of failures, kills and reboots.                 *)
(***************************************************************************)
EXTENDS ImageCache, SequenceTheorems, TLAPS

LEMMA FrontFacts ==
  ASSUME NEW S, NEW s \in Seq(S), s # <<>>
  PROVE  /\ Front(s) \in Seq(S)
         /\ Len(Front(s)) = Len(s) - 1
         /\ \A i \in 1 .. Len(s) - 1 : Front(s)[i] = s[i]
         /\ Last(s) \in S /\ Len(s) \in Nat \ {0}
<1>1. /\ Len(s) \in Nat \ {0} /\ Len(s) - 1 \in Nat
      /\ \A i \in 1 .. Len(s) : s[i] \in S
  OBVIOUS
<1>2. PICK n \in Nat : n = Len(s) - 1
  BY <1>1
<1>3. 1 \in Int /\ n \in Int /\ \A i \in 1 .. n : s[i] \in S
  BY <1>1, <1>2
<1>4. /\ SubSeq(s, 1, n) \in Seq(S)
      /\ Len(SubSeq(s, 1, n)) = IF 1 <= n THEN n - 1 + 1 ELSE 0
      /\ \A i \in 1 .. n - 1 + 1 : SubSeq(s, 1, n)[i] = s[1 + i - 1]
  BY <1>3, SubSeqProperties
<1>5. Len(SubSeq(s, 1, n)) = n /\ \A i \in 1 .. n : SubSeq(s, 1, n)[i] = s[i]
  <2>1. n - 1 + 1 = n /\ \A i \in 1 .. n : 1 + i - 1 = i
    OBVIOUS
  <2>2. n \in Nat /\ (~(1 <= n) => n = 0)
    OBVIOUS
  <2> QED
    BY <1>4, <2>1, <2>2
<1> QED
  BY <1>1, <1>2, <1>4, <1>5 DEF Front, Last

\* What cleanup_mounts does to the mounts and the devices.
LEMMA CleanupFacts ==
  ASSUME TypeOK, CleanupMounts
  PROVE  /\ mounts' \in Seq(Devices)
         /\ \/ mounts' = mounts /\ ~(mnt /\ Mounted)
            \/ /\ mnt /\ Mounted /\ Len(mounts) \in Nat \ {0}
               /\ Len(mounts') = Len(mounts) - 1
               /\ \A i \in 1 .. Len(mounts) - 1 : mounts'[i] = mounts[i]
         /\ nbd' \in [Devices -> Images \union {Free, Deleted, Foreign}]
         /\ \A d \in Devices : d # dev => nbd'[d] = nbd[d]
         /\ dev # None => nbd'[dev] = Free
<1>1. mounts \in Seq(Devices) /\ (Mounted <=> mounts # <<>>)
  BY DEF TypeOK, Mounted
<1>2. /\ nbd' \in [Devices -> Images \union {Free, Deleted, Foreign}]
      /\ \A d \in Devices : d # dev => nbd'[d] = nbd[d]
      /\ dev # None => nbd'[dev] = Free
  <2>1. /\ nbd \in [Devices -> Images \union {Free, Deleted, Foreign}]
        /\ dev \in Devices \union {None}
    BY DEF TypeOK
  <2>2. nbd' = IF dev = None THEN nbd ELSE [nbd EXCEPT ![dev] = Free]
    BY DEF CleanupMounts
  <2> QED
    BY <2>1, <2>2
<1>3. CASE mnt /\ Mounted
  <2>1. mounts' = Front(mounts) /\ mounts # <<>>
    BY <1>1, <1>3 DEF CleanupMounts
  <2> QED
    BY <1>1, <1>2, <1>3, <2>1, FrontFacts
<1>4. CASE ~(mnt /\ Mounted)
  <2>1. mounts' = mounts
    BY <1>4 DEF CleanupMounts
  <2> QED
    BY <1>1, <1>2, <1>4, <2>1
<1> QED
  BY <1>3, <1>4

LEMMA WriteType ==
  ASSUME TypeOK, NEW content \in Contents, Write(content)
  PROVE  file' \in [Images -> Contents]
BY DEF Write, TypeOK

LEMMA ChrootType ==
  ASSUME TypeOK, NEW here, NEW content \in Contents,
         NEW next \in {"packages", "datasource"}, InChroot(here, content, next),
         here \in {"configure", "packages"}
  PROVE  TypeOK'
<1>1. file' \in [Images -> Contents]
  BY WriteType DEF InChroot, TypeOK
<1> QED
  BY <1>1 DEF InChroot, TypeOK, Phases, Goto, shell, kernel

LEMMA TypeStep ==
  ASSUME TypeOK, [Next]_vars
  PROVE  TypeOK'
<1> USE CacheAssumption DEF TypeOK, Phases, Goto, shell, disk, kernel
<1>1. Image \in Images
  BY DEF Image, Images
<1>2. CASE Lookup
  BY <1>2 DEF Lookup, NextImage, Kinds
<1>3. CASE Wipe
  BY <1>3 DEF Wipe, Contents
<1>4. CASE Copy
  BY <1>1, <1>4 DEF Copy, Contents
<1>5. CASE Pick
  BY <1>5 DEF Pick
<1>6. CASE Connect
  BY <1>1, <1>6 DEF Connect
<1>7. CASE Mount
  <2>1. mounts' \in Seq(Devices)
    <3>1. dev \in Devices /\ mounts \in Seq(Devices)
      BY <1>7 DEF Mount
    <3>2. Append(mounts, dev) \in Seq(Devices)
      BY <3>1
    <3>3. mounts' = Append(mounts, dev) \/ mounts' = mounts
      BY ONLY <1>7 DEF Mount
    <3> QED
      BY ONLY <3>1, <3>2, <3>3
  <2> QED
    BY <1>7, <2>1 DEF Mount
<1>8. CASE Configure
  BY <1>8, ChrootType DEF Configure, Contents
<1>9. CASE Packages
  BY <1>9, ChrootType DEF Packages, Contents
<1>10. CASE Datasource
  BY <1>10, WriteType DEF Datasource, Contents
<1>11. CASE Cleanup \/ Exit \/ Signal
  BY <1>11, CleanupFacts DEF Cleanup, Exit, Signal, Happens
<1>12. CASE Link
  BY <1>12 DEF Link, NextImage, Kinds
<1>13. CASE Rest
  BY <1>13 DEF Rest
<1>14. CASE Fails \/ Kill
  BY <1>14 DEF Fails, Kill, Happens
<1>15. CASE Reboot
  BY <1>15 DEF Reboot, Happens
<1>16. CASE Start
  BY <1>16 DEF Start, Kinds
<1>17. ASSUME NEW d \in Devices, ForeignConnect(d) \/ ForeignDisconnect(d)
       PROVE  TypeOK'
  BY <1>17 DEF ForeignConnect, ForeignDisconnect
<1>18. CASE UNCHANGED vars
  BY <1>18 DEF vars
<1> QED
  BY <1>2, <1>3, <1>4, <1>5, <1>6, <1>7, <1>8, <1>9, <1>10, <1>11, <1>12, <1>13,
     <1>14, <1>15, <1>16, <1>17, <1>18 DEF Next, Script

-------------------------------------------------------------------------------
(* The mounts.                                                              *)

\* The device of the run is mounted by the run only, on top of everything.
DevInv ==
  /\ dev # None => mnt
  /\ \A i \in DOMAIN mounts : mounts[i] = dev =>
       /\ i = Len(mounts)
       /\ pc \in {"configure", "packages", "datasource", "cleanup", "exit", "exited"}

LEMMA CleanupKeeps ==
  ASSUME TypeOK, DevInv, NoDanglingMount, CleanupMounts, UNCHANGED <<mnt, dev>>
  PROVE  /\ DevInv' /\ NoDanglingMount'
         /\ \A i \in DOMAIN mounts' : mounts'[i] # dev
<1>1. /\ mounts \in Seq(Devices) /\ Len(mounts) \in Nat /\ DOMAIN mounts = 1 .. Len(mounts)
      /\ mounts' \in Seq(Devices) /\ Len(mounts') \in Nat
      /\ DOMAIN mounts' = 1 .. Len(mounts')
  BY CleanupFacts DEF TypeOK
<1>2. \A i \in DOMAIN mounts' : i \in DOMAIN mounts /\ mounts'[i] = mounts[i] /\ mounts[i] # dev
                                /\ mounts[i] \in Devices
  <2>1. CASE mnt /\ Mounted /\ Len(mounts') = Len(mounts) - 1
             /\ \A i \in 1 .. Len(mounts) - 1 : mounts'[i] = mounts[i]
    BY <1>1, <2>1 DEF DevInv
  <2>2. CASE mounts' = mounts /\ ~(mnt /\ Mounted)
    <3>1. dev = None \/ DOMAIN mounts' = {}
      BY <1>1, <2>2 DEF DevInv, Mounted
    <3> QED
      BY <1>1, <2>2, <3>1, CacheAssumption
  <2> QED
    BY <2>1, <2>2, CleanupFacts
<1>3. NoDanglingMount'
  BY <1>2, CleanupFacts DEF NoDanglingMount, Images
<1> QED
  BY <1>2, <1>3 DEF DevInv

LEMMA MountStep ==
  ASSUME TypeOK, DevInv, NoDanglingMount, [Next]_vars
  PROVE  DevInv' /\ NoDanglingMount'
<1> USE CacheAssumption DEF TypeOK, Goto, shell, disk, kernel
<1>1. /\ mounts \in Seq(Devices) /\ Len(mounts) \in Nat /\ DOMAIN mounts = 1 .. Len(mounts)
      /\ Image \in Images /\ {Free, Foreign} \intersect (Images \union {Deleted}) = {}
      /\ \A i \in DOMAIN mounts : mounts[i] \in Devices
  BY DEF Image, Images, Kinds, Free, Foreign, Deleted
<1>2. ASSUME UNCHANGED <<mnt, dev, mounts, nbd>>,
             \/ pc' = pc \/ pc' \in {"exit", "exited"}
             \/ pc \in {"configure", "packages", "datasource"}
                /\ pc' \in {"packages", "datasource", "cleanup"}
             \/ pc \in {"lookup", "wipe", "copy", "link", "done"}
      PROVE  DevInv' /\ NoDanglingMount'
  BY <1>2 DEF DevInv, NoDanglingMount, Images
<1>3. CASE Lookup \/ Copy \/ Link \/ Rest \/ Configure \/ Packages \/ Datasource \/ Fails \/ Kill
  BY <1>2, <1>3 DEF Lookup, NextImage, Copy, Link, Rest, Configure, Packages, InChroot,
                    Datasource, Fails, Kill, Happens
<1>4. CASE Wipe
  <2>1. \A d \in Devices : nbd[d] \in Images \union {Deleted} => nbd'[d] = Deleted
    BY <1>4 DEF Wipe
  <2>2. UNCHANGED <<mnt, dev, mounts>> /\ pc = "wipe"
    BY <1>4 DEF Wipe
  <2>3. \A i \in DOMAIN mounts : mounts[i] \in Devices
    BY <1>1
  <2> QED
    BY <2>1, <2>2, <2>3 DEF DevInv, NoDanglingMount
<1>5. CASE Pick
  <2>1. mnt' /\ UNCHANGED <<mounts, nbd>>
    BY <1>5 DEF Pick
  <2>2. \A i \in DOMAIN mounts : mounts[i] # dev'
    <3>1. CASE nbd[dev'] = Free
      BY <1>1, <3>1 DEF NoDanglingMount
    <3>2. CASE dev' = dev
      BY <1>5, <3>2 DEF Pick, DevInv
    <3> QED
      BY <1>5, <3>1, <3>2 DEF Pick
  <2> QED
    BY <2>1, <2>2 DEF DevInv, NoDanglingMount, Images
<1>6. CASE Connect
  <2>1. UNCHANGED <<mnt, dev, mounts>> /\ \A i \in DOMAIN mounts : mounts[i] # dev
    BY <1>6 DEF Connect, DevInv
  <2>2. \A d \in Devices : d # dev => nbd'[d] = nbd[d]
    BY <1>6 DEF Connect
  <2> QED
    BY <1>1, <2>1, <2>2 DEF DevInv, NoDanglingMount, Images
<1>7. CASE Mount
  <2>1. UNCHANGED <<mnt, dev, nbd>> /\ \A i \in DOMAIN mounts : mounts[i] # dev
    BY <1>7 DEF Mount, DevInv
  <2>2. CASE mounts' = Append(mounts, dev) /\ pc' = "configure" /\ nbd[dev] = Image
    <3>1. /\ DOMAIN mounts' = 1 .. Len(mounts) + 1 /\ Len(mounts') = Len(mounts) + 1
          /\ mounts'[Len(mounts) + 1] = dev
          /\ \A i \in 1 .. Len(mounts) : mounts'[i] = mounts[i]
      BY <1>1, <1>7, <2>2 DEF Mount
    <3>2. \A i \in DOMAIN mounts' : i \in DOMAIN mounts \/ i = Len(mounts) + 1
      BY <1>1, <3>1
    <3> QED
      BY <1>1, <2>1, <2>2, <3>1, <3>2 DEF DevInv, NoDanglingMount, Images
  <2>3. CASE UNCHANGED mounts
    BY <2>1, <2>3 DEF DevInv, NoDanglingMount, Images
  <2> QED
    BY <1>7, <2>2, <2>3 DEF Mount
<1>8. CASE Cleanup \/ Exit \/ Signal
  BY <1>8, CleanupKeeps DEF Cleanup, Exit, Signal
<1>9. CASE Reboot \/ Start
  BY <1>1, <1>2, <1>9 DEF Reboot, Start, DevInv, NoDanglingMount, Images
<1>10. ASSUME NEW d \in Devices, ForeignConnect(d) \/ ForeignDisconnect(d)
       PROVE  DevInv' /\ NoDanglingMount'
  <2>1. UNCHANGED <<pc, mnt, dev, mounts>> /\ nbd[d] \in {Free, Foreign}
    BY <1>10 DEF ForeignConnect, ForeignDisconnect
  <2>2. \A e \in Devices : e # d => nbd'[e] = nbd[e]
    BY <1>10 DEF ForeignConnect, ForeignDisconnect
  <2>3. \A i \in DOMAIN mounts : nbd'[mounts[i]] = nbd[mounts[i]]
    <3>1. \A i \in DOMAIN mounts : mounts[i] # d
      BY <1>1, <2>1 DEF NoDanglingMount
    <3> QED
      BY <1>1, <2>2, <3>1
  <2> QED
    BY <2>1, <2>3 DEF DevInv, NoDanglingMount, Images
<1>11. CASE UNCHANGED vars
  BY <1>2, <1>11 DEF vars
<1> QED
  BY <1>3, <1>4, <1>5, <1>6, <1>7, <1>8, <1>9, <1>10, <1>11 DEF Next, Script

LEMMA InitType == Init => TypeOK
<1> SUFFICES ASSUME Init
             PROVE  TypeOK
  OBVIOUS
<1>1. mounts \in Seq(Devices)
  BY DEF Init
<1>2. mnt \in BOOLEAN
  BY Zenon DEF Init
<1>3. dev \in Devices \union {None}
  BY DEF Init
<1>4. file \in [Images -> Contents] /\ link \in [Kinds -> Prints \union {None}]
  BY DEF Init, Contents
<1>5. nbd \in [Devices -> Images \union {Free, Deleted, Foreign}] /\ events \in 0 .. MaxEvents
  BY CacheAssumption DEF Init
<1> QED
  BY <1>1, <1>2, <1>3, <1>4, <1>5 DEF Init, TypeOK, Phases, Kinds

LEMMA AlwaysMounts == Spec => [](TypeOK /\ DevInv /\ NoDanglingMount)
<1>1. Init => TypeOK /\ DevInv /\ NoDanglingMount
  BY InitType DEF Init, DevInv, NoDanglingMount
<1> QED
  BY <1>1, TypeStep, MountStep, PTL DEF Spec

-------------------------------------------------------------------------------
(* The cache.                                                               *)

Patching == {"configure", "packages", "datasource", "cleanup"}

\* A run without signals writes to the image it is at, which no link vouches for.
CacheInv ==
  /\ CacheSound
  /\ pc \in Patching => Mounted /\ Visible = dev /\ nbd[dev] = Image
  /\ pc \in {"copy", "pick", "connect", "mount", "link"} \union Patching => link[kind] # print
  /\ pc \in {"cleanup", "link"} => file[Image] = "complete"

\* What is written to the image of a run leaves the others as they are.
LEMMA OwnImage ==
  ASSUME TypeOK, CacheSound, link[kind] # print, NEW content \in Contents,
         file' = [file EXCEPT ![Image] = content], UNCHANGED <<link, kind, print>>
  PROVE  CacheSound' /\ file'[Image] = content
<1>1. Image \in Images
  BY DEF TypeOK, Image, Images
<1>2. ASSUME NEW k \in Kinds, link[k] # None
      PROVE  file'[<<k, link[k]>>] = "complete"
  <2>1. <<k, link[k]>> # Image /\ <<k, link[k]>> \in Images
    BY <1>2 DEF TypeOK, Image, Images
  <2> QED
    BY <1>2, <2>1 DEF CacheSound, TypeOK
<1> QED
  BY <1>1, <1>2 DEF CacheSound, TypeOK

LEMMA PatchStep ==
  ASSUME TypeOK, CacheInv, pc \in Patching, NEW content \in Contents, Write(content),
         UNCHANGED <<kind, print, dev, link, nbd, mounts>>,
         pc' \in {"packages", "datasource", "cleanup"}, pc' = "cleanup" => content = "complete"
  PROVE  CacheInv'
<1>1. Mounted /\ Visible = dev /\ nbd[dev] = Image /\ link[kind] # print /\ Image \in Images
  BY DEF CacheInv, Image, Images, TypeOK
<1>2. file' = [file EXCEPT ![Image] = content]
  BY <1>1 DEF Write
<1>3. CacheSound' /\ file'[Image] = content
  BY <1>1, <1>2, OwnImage DEF CacheInv
<1>4. Image' = Image /\ Mounted' = Mounted /\ Visible' = Visible
  BY DEF Image, Mounted, Visible, Last
<1> QED
  BY <1>1, <1>3, <1>4 DEF CacheInv, Patching

LEMMA CacheStep ==
  ASSUME "signal" \notin Events, TypeOK, CacheInv, [Next]_vars
  PROVE  CacheInv'
<1> USE DEF TypeOK, Goto, shell, disk, kernel, Patching
<1>1. ASSUME UNCHANGED <<file, link>>, pc' \in {"lookup", "wipe", "done", "exit", "exited"}
      PROVE  CacheInv'
  BY <1>1 DEF CacheInv, CacheSound
<1>2. ASSUME UNCHANGED <<file, link, kind, print, pc, dev, mounts>>,
             pc \in Patching => nbd'[dev] = nbd[dev]
      PROVE  CacheInv'
  <2>1. Image' = Image /\ Mounted' = Mounted /\ Visible' = Visible
    BY <1>2 DEF Image, Mounted, Visible, Last
  <2> QED
    BY <1>2, <2>1 DEF CacheInv, CacheSound
<1>3. CASE Lookup
  <2>1. CASE Found
    BY <1>1, <1>3, <2>1 DEF Lookup, NextImage
  <2>2. CASE ~Found
    <3>1. link[kind] # print
      BY <2>2, CacheAssumption DEF Found, CacheInv, CacheSound, Image
    <3> QED
      BY <1>3, <2>2, <3>1 DEF Lookup, CacheInv, CacheSound
  <2> QED
    BY <2>1, <2>2
<1>4. CASE Wipe
  BY <1>4, CacheAssumption DEF Wipe, CacheInv, CacheSound
<1>5. CASE Copy
  <2>1. link[kind] # print /\ UNCHANGED <<kind, print, link>>
    BY <1>5 DEF Copy, CacheInv
  <2>2. Image' = Image
    BY <2>1 DEF Image
  <2>3. CASE file' = [file EXCEPT ![Image] = "complete"] /\ pc' = "link"
    BY <2>1, <2>2, <2>3, OwnImage DEF CacheInv, Contents
  <2>4. CASE file' = [file EXCEPT ![Image] = "copied"] /\ pc' = "pick"
    BY <2>1, <2>2, <2>4, OwnImage DEF CacheInv, Contents
  <2> QED
    BY <1>5, <2>3, <2>4 DEF Copy
<1>6. CASE Pick
  BY <1>6 DEF Pick, CacheInv, CacheSound
<1>7. CASE Connect
  BY <1>7 DEF Connect, CacheInv, CacheSound
<1>8. CASE Mount
  <2>1. CASE mounts' = Append(mounts, dev) /\ pc' = "configure" /\ nbd[dev] = Image
    <3>1. Mounted' /\ Visible' = dev /\ dev' = dev /\ Image' = Image
      BY <1>8, <2>1 DEF Mount, Mounted, Visible, Last, Image
    <3> QED
      BY <1>8, <2>1, <3>1 DEF Mount, CacheInv, CacheSound
  <2> QED
    BY <1>1, <1>8, <2>1 DEF Mount
<1>9. CASE Configure
  BY <1>1, <1>9, PatchStep DEF Configure, InChroot, Contents
<1>10. CASE Packages
  BY <1>1, <1>10, PatchStep DEF Packages, InChroot, Contents
<1>11. CASE Datasource
  BY <1>11, PatchStep DEF Datasource, Contents
<1>12. CASE Cleanup
  <2>1. Image' = Image
    BY <1>12 DEF Cleanup, Image
  <2> QED
    BY <1>12, <2>1 DEF Cleanup, CacheInv, CacheSound
<1>13. CASE Link
  <2>1. file[Image] = "complete" /\ print \in Prints /\ kind \in Kinds
    BY <1>13 DEF Link, CacheInv
  <2>2. CacheSound'
    BY <1>13, <2>1, CacheAssumption DEF Link, CacheInv, CacheSound, Image
  <2>3. pc' \in {"lookup", "done"}
    BY <1>13 DEF Link, NextImage
  <2> QED
    BY <2>2, <2>3 DEF CacheInv
<1>14. CASE Rest \/ Fails \/ Exit \/ Kill \/ Reboot \/ Start
  BY <1>1, <1>14 DEF Rest, Fails, Exit, Kill, Reboot, Start
<1>15. ASSUME Signal
       PROVE  FALSE
  BY <1>15 DEF Signal, Happens
<1>16. ASSUME NEW d \in Devices, ForeignConnect(d) \/ ForeignDisconnect(d)
       PROVE  CacheInv'
  <2>1. nbd[d] \notin Images
    BY <1>16 DEF ForeignConnect, ForeignDisconnect, Free, Foreign, Images, Kinds
  <2>2. pc \in Patching => nbd'[dev] = nbd[dev]
    BY <1>16, <2>1 DEF ForeignConnect, ForeignDisconnect, CacheInv, Image, Images
  <2> QED
    BY <1>2, <1>16, <2>2 DEF ForeignConnect, ForeignDisconnect
<1>17. CASE UNCHANGED vars
  BY <1>2, <1>17 DEF vars
<1> QED
  BY <1>3, <1>4, <1>5, <1>6, <1>7, <1>8, <1>9, <1>10, <1>11, <1>12, <1>13, <1>14, <1>15, <1>16,
     <1>17 DEF Next, Script

-------------------------------------------------------------------------------
(* The images of a run.                                                     *)

\* The VCP image is the second one; what comes first is not removed for it.
SecondInv ==
  /\ kind = "vcp" => link["base"] = print
  /\ pc = "wipe" => kind = "base"

LEMMA ImagesStep ==
  ASSUME TypeOK, SecondInv, ImagesOfThisRun, [Next]_vars
  PROVE  SecondInv' /\ ImagesOfThisRun'
<1> USE DEF TypeOK, Goto, shell, disk, kernel, Kinds, SecondInv, ImagesOfThisRun
<1>1. ASSUME UNCHANGED <<kind, print, link>>, pc' = pc \/ pc' \notin {"wipe", "done"}
      PROVE  SecondInv' /\ ImagesOfThisRun'
  BY <1>1
<1>2. ASSUME NextImage, link'[kind] = print, UNCHANGED print,
             \A k \in Kinds : k # kind => link'[k] = link[k]
      PROVE  SecondInv' /\ ImagesOfThisRun'
  <2>1. CASE kind = "base"
    BY <1>2, <2>1 DEF NextImage
  <2>2. CASE kind = "vcp"
    BY <1>2, <2>2 DEF NextImage
  <2> QED
    BY <2>1, <2>2
<1>3. CASE Lookup
  BY <1>2, <1>3 DEF Lookup, Found
<1>4. CASE Wipe
  BY <1>4 DEF Wipe
<1>5. CASE Link
  BY <1>2, <1>5 DEF Link
<1>6. CASE Copy \/ Pick \/ Connect \/ Mount \/ Configure \/ Packages \/ Datasource \/ Cleanup
           \/ Rest \/ Exit
  BY <1>1, <1>6
     DEF Copy, Pick, Connect, Mount, Configure, Packages, InChroot, Datasource, Cleanup, Rest, Exit
<1>7. CASE Fails \/ Signal \/ Kill \/ Reboot
  BY <1>1, <1>7 DEF Fails, Signal, Kill, Reboot
<1>8. CASE Start
  BY <1>8 DEF Start
<1>9. CASE \E d \in Devices : ForeignConnect(d) \/ ForeignDisconnect(d)
  BY <1>1, <1>9 DEF ForeignConnect, ForeignDisconnect
<1>10. CASE UNCHANGED vars
  BY <1>1, <1>10 DEF vars
<1> QED
  BY <1>3, <1>4, <1>5, <1>6, <1>7, <1>8, <1>9, <1>10 DEF Next, Script

-------------------------------------------------------------------------------
(* What a run leaves behind.                                                *)

Idle == {Free, Foreign}

\* Only the device of the run is a way into an image, from Connect to the end.
CleanInv ==
  /\ \A d \in Devices : d # dev => nbd[d] \in Idle
  /\ mounts = <<>> \/ mounts = <<dev>>
  /\ pc \notin Patching \union {"exit"} => mounts = <<>>
  /\ pc \notin Patching \union {"mount", "exit"} => \A d \in Devices : nbd[d] \in Idle

LEMMA CleanStep ==
  ASSUME "kill" \notin Events, TypeOK, DevInv, CleanInv, [Next]_vars
  PROVE  CleanInv'
<1> USE DEF TypeOK, Goto, shell, disk, kernel, Patching
<1>1. ASSUME UNCHANGED <<dev, nbd, mounts>>,
             \/ pc' = pc \/ pc' = "exit"
             \/ pc \notin Patching \union {"mount", "exit"}
             \/ pc \in Patching /\ pc' \in Patching
      PROVE  CleanInv'
  BY <1>1 DEF CleanInv
<1>2. CASE Lookup \/ Copy \/ Link \/ Rest \/ Configure \/ Packages \/ Datasource \/ Fails
  BY <1>1, <1>2 DEF Lookup, NextImage, Copy, Link, Rest, Configure, Packages, InChroot,
                    Datasource, Fails, Happens
<1>3. CASE Wipe
  <2>1. \A d \in Devices : nbd[d] \in Idle
    BY <1>3 DEF Wipe, CleanInv
  <2>2. \A d \in Devices : nbd[d] \notin Images
    BY <2>1 DEF Idle, Free, Foreign, Images, Kinds
  <2>3. nbd' = nbd
    BY <1>3, <2>2 DEF Wipe
  <2> QED
    BY <1>1, <1>3, <2>3 DEF Wipe
<1>4. CASE Pick
  BY <1>4 DEF Pick, CleanInv
<1>5. CASE Connect
  BY <1>5 DEF Connect, CleanInv
<1>6. CASE Mount
  BY <1>6 DEF Mount, CleanInv
<1>7. CASE Cleanup \/ Exit \/ Signal
  <2>1. CleanupMounts /\ dev' = dev
    BY <1>7 DEF Cleanup, Exit, Signal
  <2>2. \A d \in Devices : nbd'[d] \in Idle
    BY <2>1, CleanupFacts, CacheAssumption DEF CleanInv, Idle
  <2>3. mounts' = <<>>
    <3>1. CASE mounts = <<>>
      BY <2>1, <3>1 DEF CleanupMounts, Mounted
    <3>2. CASE mounts = <<dev>>
      <4>1. dev \in Devices /\ mounts # <<>> /\ Len(mounts) = 1
        BY <3>2
      <4>2. mnt /\ Mounted
        BY <4>1, CacheAssumption DEF DevInv, Mounted
      <4>3. mounts' \in Seq(Devices) /\ Len(mounts') = 0
        BY <2>1, <4>1, <4>2, CleanupFacts
      <4> QED
        BY <4>3
    <3> QED
      BY <3>1, <3>2 DEF CleanInv
  <2> QED
    BY <2>2, <2>3 DEF CleanInv
<1>8. CASE Reboot
  BY <1>8 DEF Reboot, CleanInv, Idle
<1>9. CASE Start
  BY <1>9 DEF Start, CleanInv
<1>10. ASSUME Kill
       PROVE  FALSE
  BY <1>10 DEF Kill, Happens
<1>11. ASSUME NEW d \in Devices, ForeignConnect(d) \/ ForeignDisconnect(d)
       PROVE  CleanInv'
  <2>1. \A e \in Devices : nbd[e] \in Idle => nbd'[e] \in Idle
    BY <1>11 DEF ForeignConnect, ForeignDisconnect, Idle
  <2> QED
    BY <1>11, <2>1 DEF ForeignConnect, ForeignDisconnect, CleanInv
<1>12. CASE UNCHANGED vars
  BY <1>1, <1>12 DEF vars
<1> QED
  BY <1>2, <1>3, <1>4, <1>5, <1>6, <1>7, <1>8, <1>9, <1>10, <1>11, <1>12 DEF Next, Script

-------------------------------------------------------------------------------
(* The theorems.                                                            *)

(***************************************************************************)
(* The variables have their types, whatever happens to the runs.           *)
(***************************************************************************)
THEOREM TypeCorrect == Spec => []TypeOK
BY AlwaysMounts, PTL

(***************************************************************************)
(* What runs of the script have mounted on OPNFV_MNT_DIR does not lose its *)
(* device to cleanup_mounts, whatever happens to the runs.  Nothing is     *)
(* said of the devices of other programs.                                  *)
(***************************************************************************)
THEOREM MountsStand == Spec => []NoDanglingMount
BY AlwaysMounts, PTL

(***************************************************************************)
(* Failures, kills and reboots, but no signal: a link vouches for a        *)
(* finished image.                                                         *)
(***************************************************************************)
THEOREM CacheIsSound ==
  ASSUME "signal" \notin Events
  PROVE  Spec => []CacheSound
<1>1. Init => CacheInv
  BY DEF Init, CacheInv, CacheSound, Patching
<1>2. TypeOK /\ CacheInv /\ [Next]_vars => CacheInv'
  BY CacheStep
<1>3. CacheInv => CacheSound
  BY DEF CacheInv
<1> QED
  BY <1>1, <1>2, <1>3, TypeCorrect, PTL DEF Spec

(***************************************************************************)
(* The end of prepare_vms is reached with the images of the run's inputs,  *)
(* whatever happens to it.                                                 *)
(***************************************************************************)
THEOREM RightImages == Spec => []ImagesOfThisRun
<1>1. Init => SecondInv /\ ImagesOfThisRun
  BY DEF Init, SecondInv, ImagesOfThisRun
<1> QED
  BY <1>1, ImagesStep, TypeCorrect, PTL DEF Spec

(***************************************************************************)
(* Failures, signals and reboots, but no kill: a run that is over has left *)
(* no mount and no device, with any number of devices and other users.     *)
(***************************************************************************)
THEOREM CleanEnd ==
  ASSUME "kill" \notin Events
  PROVE  Spec => []NothingLeft
<1>1. Init => CleanInv
  BY DEF Init, CleanInv, Idle
<1>2. TypeOK /\ DevInv /\ CleanInv /\ [Next]_vars => CleanInv'
  BY CleanStep
<1>3. CleanInv => NothingLeft
  BY DEF CleanInv, NothingLeft, Idle, Patching
<1> QED
  BY <1>1, <1>2, <1>3, AlwaysMounts, PTL DEF Spec
===============================================================================
