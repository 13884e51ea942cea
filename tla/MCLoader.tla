------------------------------ MODULE MCLoader ------------------------------
(***************************************************************************)
(* Which modules are loaded, for the instances that are checked.           *)
(***************************************************************************)
EXTENDS Loader, TLC

Plain == {}
HostsAlike == Permutations(HostFunctions)
RefusedLate == {"after code"}
=============================================================================
