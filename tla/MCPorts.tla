------------------------------ MODULE MCPorts ------------------------------
(* Ports on small instances: two hosts behind one client address.          *)
EXTENDS Ports, TLC

CONSTANTS a1, a2, i1, i2, h1, h2, nil, zero

MCActivity == {a1, a2}
TwoInstances == {i1, i2}
MCHostOf == (i1 :> h1) @@ (i2 :> h2)

(* i1 is an instance whose port is random or the named one, which lies in  *)
(* the range; i2 is a service instance, which has one port.                *)
MCRequests ==
  (i1 :> {[port |-> zero, patroni |-> zero], [port |-> 2, patroni |-> zero]})
    @@ (i2 :> {[port |-> zero, patroni |-> nil]})

OneDatabase == {{i1, i2}}
Symmetry == Permutations(MCActivity)
=============================================================================
