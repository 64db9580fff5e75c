----------------------------- MODULE RemoteCall ----------------------------
(***************************************************************************)
(* What a consumer may rely on when it calls a remote service: the service *)
(* runs the call at most once, at any time after it was begun; the call    *)
(* ends once, with the answer only if the service has run by then; and a   *)
(* call that ended without an answer tells nothing: it may have run, may   *)
(* still run, or never will.                                               *)
(***************************************************************************)
EXTENDS Naturals

CONSTANT Calls

VARIABLES state,   \* of a call: "idle", "pending", "answered", "failed"
          runs     \* how often the service has run a call

vars == <<state, runs>>

Init ==
  /\ state = [c \in Calls |-> "idle"]
  /\ runs = [c \in Calls |-> 0]

Begin(c) ==
  /\ state[c] = "idle"
  /\ state' = [state EXCEPT ![c] = "pending"]
  /\ UNCHANGED runs

\* Also after the caller has given up.
Run(c) ==
  /\ state[c] # "idle"
  /\ runs[c] = 0
  /\ runs' = [runs EXCEPT ![c] = 1]
  /\ UNCHANGED state

Answer(c) ==
  /\ state[c] = "pending"
  /\ runs[c] = 1
  /\ state' = [state EXCEPT ![c] = "answered"]
  /\ UNCHANGED runs

GiveUp(c) ==
  /\ state[c] = "pending"
  /\ state' = [state EXCEPT ![c] = "failed"]
  /\ UNCHANGED runs

Next == \E c \in Calls : Begin(c) \/ Run(c) \/ Answer(c) \/ GiveUp(c)

Spec == Init /\ [][Next]_vars
=============================================================================
