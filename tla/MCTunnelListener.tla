-------------------------- MODULE MCTunnelListener --------------------------
(***************************************************************************)
(* Two clients and three connections: one connection may be half open      *)
(* while its client and a rival come back under the same name.             *)
(***************************************************************************)
EXTENDS TunnelListener, TLC

CONSTANTS c1, c2, c3,      \* connections
          named, unnamed,  \* clients: --name fox, and no name
          fox, foxSky      \* subdomains: the second is the first with a suffix

MCGenerated == {fox}

\* Two names suffice for every race: the suffixed one may be taken as well.
MCSuffixes == [n \in {fox, foxSky} |-> {fox, foxSky} \ {n}]

MCConfigured == [cl \in {named, unnamed} |-> IF cl = named THEN fox ELSE NoName]

Interchangeable == Permutations({c1, c2, c3})
=============================================================================
