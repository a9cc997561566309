---------------------------- MODULE MCControls ----------------------------
(***************************************************************************)
(* Model-checking instance of three parts of frps: controls and the names  *)
(* and listeners of their proxies, the ledger of ports, and the pool of    *)
(* work connections of one control.  Each behaviour is one of one part;    *)
(* the others stay as they start.                                          *)
(***************************************************************************)
EXTENDS ProxyRegistry, PortManager, WorkConnPool, TLC

CONSTANT Parts   \* the parts that a run looks at

VARIABLE part

parts == <<vars, portVars, poolVars, part>>

PartsInit ==
    /\ part \in Parts
    /\ Init /\ PortInit /\ PoolInit
    /\ part # "ports" => netType = CHOOSE t \in NetTypes : TRUE

PartsNext ==
    \/ part = "registry" /\ Next /\ UNCHANGED <<portVars, poolVars, part>>
    \/ part = "ports" /\ PortNext /\ UNCHANGED <<vars, poolVars, part>>
    \/ part = "pool" /\ PoolNext /\ UNCHANGED <<vars, portVars, part>>

PartsSpec == PartsInit /\ [][PartsNext]_parts

(* The fairness of the registry, and of the pool of a client that reads,   *)
(* while each is the part at work.                                         *)
PartsFairness ==
    LET re == part = "registry"
        po == part = "pool"
    IN  /\ \A c \in Control : WF_vars(re /\ Server(c))
        /\ \A u \in User : WF_poolVars(po /\ Serve(u))
        /\ WF_poolVars(po /\ Transmit)

PartsFairSpec == PartsSpec /\ PartsFairness

(* Controls, names and run IDs are interchangeable; proxies, names and     *)
(* ports in the ledger, as long as a configuration may ask for each port;  *)
(* users and work connections.  A run that gives the parts the same values *)
(* permutes them together.  Used for safety only.                          *)
Symmetry ==
    Permutations(Control) \cup Permutations(Name) \cup Permutations(RunID)
=============================================================================
