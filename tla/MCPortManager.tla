--------------------------- MODULE MCPortManager ---------------------------
(* PortManager on small instances. *)
EXTENDS PortManager, TLC

(* Proxies and names are interchangeable, and so are the ports, as long as *)
(* a configuration may ask for each of them. *)
Symmetry == Permutations(Proxy) \cup Permutations(PxyName) \cup Permutations(AllowPort)
=============================================================================
