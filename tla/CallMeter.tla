----------------------------- MODULE CallMeter -----------------------------
(***************************************************************************)
(* What the call statistics of the provider actors promise to the monitor  *)
(* centre: a call is counted once, a count is reported at most once, and   *)
(* only a crash of an actor may lose the counts it has not reported yet.   *)
(***************************************************************************)
EXTENDS Naturals

CONSTANTS Meters,     \* the actors that count
          Methods

VARIABLES handled,    \* calls an actor took up, per method
          pending,    \* counted and not yet reported
          reported    \* reported to the monitor

meter == <<handled, pending, reported>>

None == [m \in Methods |-> 0]

Init ==
  /\ handled = [a \in Meters |-> None]
  /\ pending = [a \in Meters |-> None]
  /\ reported = [a \in Meters |-> None]

Count(a, m) ==
  /\ handled' = [handled EXCEPT ![a][m] = @ + 1]
  /\ pending' = [pending EXCEPT ![a][m] = @ + 1]
  /\ UNCHANGED reported

Report(a) ==
  /\ reported' = [reported EXCEPT ![a] =
                     [m \in Methods |-> @[m] + pending[a][m]]]
  /\ pending' = [pending EXCEPT ![a] = None]
  /\ UNCHANGED handled

Crash(a) ==
  /\ pending' = [pending EXCEPT ![a] = None]
  /\ UNCHANGED <<handled, reported>>

Next == \E a \in Meters :
  Report(a) \/ Crash(a) \/ \E m \in Methods : Count(a, m)

Spec == Init /\ [][Next]_meter
=============================================================================
