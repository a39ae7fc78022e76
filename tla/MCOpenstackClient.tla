-------------------------- MODULE MCOpenstackClient --------------------------
(* A small instance of OpenstackClient. *)
EXTENDS OpenstackClient

CONSTANTS cmp1, cmp2, mdb1, mdb2, cert, key, alice, bob, low, default

\* A certificate with an ACL that signs the image, a key without payload, and
\* a policy with a rule.
MCBarbican == << [kind |-> "secret", name |-> cert], [kind |-> "secret", name |-> key],
                 [kind |-> "acl", name |-> cert], [kind |-> "signature", name |-> cert] >>
MCGnocchi  == << [kind |-> "policy", name |-> low],
                 [kind |-> "rule", name |-> default, policy |-> low] >>
MCStages   == << [minions |-> {cmp1, cmp2}, states |-> MCBarbican],
                 [minions |-> {mdb1}, states |-> MCGnocchi],
                 [minions |-> {mdb2}, states |-> MCGnocchi] >>
===============================================================================
