--------------------------- MODULE MCStorageLayout ---------------------------
(* A small instance of StorageLayout. *)
EXTENDS StorageLayout

CONSTANTS sda, sdb, md0, vg0

\* A root partition on sda; a RAID of a partition and a whole disk, with a
\* volume group on top of it.
MCOrder   == <<sda, md0, vg0>>
MCKids    == (sda :> 2) @@ (md0 :> 0) @@ (vg0 :> 1)
MCMembers == (md0 :> {<<sda, 1>>, <<sdb, 0>>}) @@ (vg0 :> {<<md0, 0>>})
MCFinal   == [i \in Planned |-> IF i \in {<<sda, 2>>, <<vg0, 1>>} THEN "mounted" ELSE "bare"]
===============================================================================
