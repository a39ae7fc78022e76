--------------------------- MODULE MCRegionFabrics ---------------------------
(* A small instance of RegionFabrics. *)
EXTENDS RegionFabrics

CONSTANTS pxe_admin, mgmt, pxe_net, edge_net, mgmt_net, pool

MCFabricOrder == <<pxe_admin, mgmt>>
MCCidrOrder   == <<mgmt_net, pxe_net, edge_net>>
MCVlans    == (pxe_admin :> <<0>>) @@ (mgmt :> <<0, 7>>)
MCDhcp     == {<<pxe_admin, 0>>}
MCFabricOf == (pxe_net :> pxe_admin) @@ (edge_net :> pxe_admin) @@ (mgmt_net :> mgmt)
MCRanges   == (pxe_net :> <<pool>>) @@ (edge_net :> <<>>) @@ (mgmt_net :> <<>>)

\* A NIC for each, one that has both subnets of a fabric, and one with subnets
\* of two fabrics.
MCNics == {{pxe_net}, {mgmt_net}, {pxe_net, edge_net}, {edge_net, mgmt_net}}
===============================================================================
