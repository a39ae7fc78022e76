---------------------------- MODULE MCBootImport ------------------------------
(* Small instances of BootImport. *)
EXTENDS BootImport, TLC

CONSTANTS daily, stable, bionic, xenial, trusty

\* The source of the pillar, and the one MaaS comes with.
MCSourceOf == (bionic :> daily) @@ (xenial :> daily) @@ (trusty :> stable)

MCOneSource == bionic :> daily
===============================================================================
