------------------------------ MODULE MCRelay ------------------------------
(***************************************************************************)
(* One tunnel, two connections (one replaces the other) and a few          *)
(* requests in flight.                                                     *)
(***************************************************************************)
EXTENDS Relay, TLC

CONSTANTS c1, c2, h1, h2, p1, fox

MCNameOf == [r \in Requests |-> fox]

Interchangeable == Permutations({c1, c2})
=============================================================================
