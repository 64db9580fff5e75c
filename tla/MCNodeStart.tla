---------------------------- MODULE MCNodeStart ----------------------------
(* NodeStart for TLC: a core, which is the seed, a provider, and a node    *)
(* whose `roles` property was left null.                                   *)
EXTENDS NodeStart, TLC

CONSTANTS core, provider, unset

MCRolesOf == (core :> {"core"}) @@ (provider :> {"provider", "monitor"})
               @@ (unset :> {})
=============================================================================
