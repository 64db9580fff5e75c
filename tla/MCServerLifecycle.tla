------------------------- MODULE MCServerLifecycle -------------------------
(* ServerLifecycle for TLC: a server of each kind, two of one class, and   *)
(* one of a socket type that is not supported.                             *)
EXTENDS ServerLifecycle, TLC

CONSTANTS s1, s2, s3, s4

MCKinds == (s1 :> "plain") @@ (s2 :> "delayed") @@ (s3 :> "periodic")
             @@ (s4 :> "plain")
MCClasses == (s1 :> "A") @@ (s2 :> "B") @@ (s3 :> "A") @@ (s4 :> "B")
=============================================================================
