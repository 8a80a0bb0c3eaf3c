-------------------------------- MODULE Clock --------------------------------
(***************************************************************************)
(* time.Now() as the server's tables see it: it passes by itself.          *)
(***************************************************************************)
EXTENDS Integers

CONSTANT MaxTime   \* where the model's clock stops

ASSUME ClockAssumption == MaxTime \in Nat

VARIABLE now

Tick == now < MaxTime /\ now' = now + 1
=============================================================================
