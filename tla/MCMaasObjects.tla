---------------------------- MODULE MCMaasObjects ----------------------------
(* A small instance of MaasObjects. *)
EXTENDS MaasObjects

CONSTANTS mas01, dns, tag, key, ipmi1, ipmi2, node1, node2, eth0, eth1

\* maas.region and the wait, as in the STATE file maas, and then assign_ip, which
\* that file does not have.
MCStages ==
  << [minions |-> {mas01},
      states  |-> << [kind |-> "settings", items |-> {dns}],
                     [kind |-> "devices",  items |-> Devices],
                     [kind |-> "things",   items |-> {tag}],
                     [kind |-> "key",      name  |-> key] >>],
     [minions |-> {mas01}, states |-> << [kind |-> "wait"] >>],
     [minions |-> {mas01}, states |-> << [kind |-> "assign", items |-> Machines] >>] >>

MCNicOrder == <<eth0, eth1>>
===============================================================================
