-------------------------- MODULE MCClaimRetention --------------------------
(* Instances of ClaimRetention for TLC. *)
EXTENDS ClaimRetention

AllPolicies == [scaled : {"Retain", "Delete"}, deleted : {"Retain", "Delete"}]
DeleteWhenScaled == [scaled : {"Delete"}, deleted : {"Retain"}]
=============================================================================
