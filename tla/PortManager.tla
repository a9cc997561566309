---------------------------- MODULE PortManager ----------------------------
(***************************************************************************)
(* frps: server/ports/ports.go, and the proxies that use it, the TCPProxy  *)
(* and UDPProxy of server/proxy.                                           *)
(*                                                                         *)
(* The ledger of the manager is kept under its own mutex, but the sockets  *)
(* the ledger is about are opened and closed outside of it: Run acquires a *)
(* port and then listens, Close shuts the socket and then releases, and    *)
(* Acquire tries a port by listening on it for an instant.  A release is   *)
(* by number, and UDPProxy.Close releases each time it is called: once for *)
(* CloseProxy, once for the goroutine that read the socket.                *)
(***************************************************************************)
EXTENDS Naturals, FiniteSets

CONSTANTS Proxy,        \* proxy objects; each runs once
          PxyName,      \* proxy names
          AllowPort,    \* the ports allowPorts lists
          RemotePorts,  \* values of remotePort in the configurations
          AnyPort,      \* remotePort 0: the manager chooses
          MaxTry,       \* how many free ports are tried then
          NetTypes,     \* the managers considered, of "tcp" and "udp"
          Other,        \* a process that is not frps
          Nobody

ASSUME PortAssumption ==
    /\ AnyPort \notin AllowPort /\ Nobody \notin AllowPort \cup Proxy \cup {AnyPort}
    /\ Other \notin Proxy \cup {Nobody}
    /\ RemotePorts \subseteq AllowPort \cup {AnyPort}
    /\ IsFiniteSet(AllowPort) /\ MaxTry \in Nat \ {0}
    /\ NetTypes \subseteq {"tcp", "udp"}

VARIABLES
    netType,   \* pm.netType; frps has one manager of each type
    pc,        \* how far a proxy has come
    name,      \* its name
    asked,     \* cfg.RemotePort
    real,      \* realBindPort
    again,     \* will the other goroutine of a udp proxy call Close as well?
    bound,     \* the operating system: who listens on a port
    free,      \* pm.freePorts
    usedPorts, \* pm.usedPorts; a PortCtx is named by the proxy it was made for
    reserved,  \* pm.reservedPorts
    ctx        \* Closed and UpdateTime of the PortCtx of a proxy

portVars == <<netType, pc, name, asked, real, again, bound, free, usedPorts, reserved, ctx>>

Place   == {"new", "acquired", "listening", "unbound", "closed"}
CtxAge  == {"open", "closed", "expired"}

PortInit ==
    /\ netType \in NetTypes
    /\ pc = [x \in Proxy |-> "new"]
    /\ name = [x \in Proxy |-> Nobody]
    /\ asked = [x \in Proxy |-> Nobody]
    /\ real = [x \in Proxy |-> Nobody]
    /\ again = [x \in Proxy |-> FALSE]
    /\ bound = [p \in AllowPort |-> Nobody]
    /\ free = AllowPort
    /\ usedPorts = [p \in AllowPort |-> Nobody]
    /\ reserved = [n \in PxyName |-> Nobody]
    /\ ctx = [x \in Proxy |-> "open"]

-----------------------------------------------------------------------------
(* Acquire                                                                 *)

(* isPortAvailable: a trial listen. *)
IsPortAvailable(p) == bound[p] = Nobody

Configure(x, n, r) ==
    /\ pc[x] = "new" /\ r \in RemotePorts
    /\ name' = [name EXCEPT ![x] = n]
    /\ asked' = [asked EXCEPT ![x] = r]

Grant(x, n, p) ==
    /\ pc' = [pc EXCEPT ![x] = "acquired"]
    /\ real' = [real EXCEPT ![x] = p]
    /\ usedPorts' = [usedPorts EXCEPT ![p] = x]
    /\ reserved' = [reserved EXCEPT ![n] = x]
    /\ free' = free \ {p}
    /\ UNCHANGED <<netType, again, bound, ctx>>

(* The port this name had the last time, looked up in reservedPorts only. *)
Kept(n) == reserved[n] # Nobody /\ IsPortAvailable(real[reserved[n]])

AcquireKept(x, n) ==
    /\ Configure(x, n, AnyPort)
    /\ Kept(n)
    /\ Grant(x, n, real[reserved[n]])

AcquireAny(x, n) ==
    /\ Configure(x, n, AnyPort)
    /\ ~Kept(n)
    /\ \E p \in free : IsPortAvailable(p) /\ Grant(x, n, p)

AcquireFixed(x, n) ==
    \E p \in AllowPort :
        /\ Configure(x, n, p)
        /\ p \in free /\ IsPortAvailable(p)
        /\ Grant(x, n, p)

(* ErrNoAvailablePort: the few ports that were tried are taken by others. *)
NoneFound ==
    LET taken == Cardinality({p \in free : ~IsPortAvailable(p)})
    IN  taken = Cardinality(free) \/ taken >= MaxTry

(* ErrPortUnAvailable or ErrPortAlreadyUsed, or nothing found. *)
AcquireFails(x, n) ==
    \E r \in RemotePorts :
        /\ Configure(x, n, r)
        /\ IF r = AnyPort THEN ~Kept(n) /\ NoneFound
                          ELSE r \notin free \/ ~IsPortAvailable(r)
        /\ pc' = [pc EXCEPT ![x] = "closed"]
        /\ UNCHANGED <<netType, real, again, bound, free, usedPorts, reserved, ctx>>

-----------------------------------------------------------------------------
(* The sockets, in Run and Close of the proxies                            *)

Listen(x) ==
    /\ pc[x] = "acquired" /\ bound[real[x]] = Nobody
    /\ pc' = [pc EXCEPT ![x] = "listening"]
    /\ bound' = [bound EXCEPT ![real[x]] = x]
    /\ UNCHANGED <<netType, name, asked, real, again, free, usedPorts, reserved, ctx>>

(* Fault: Run returns an error and releases nothing. *)
ListenFailsHolding(x) ==
    /\ pc[x] = "acquired"
    /\ pc' = [pc EXCEPT ![x] = "closed"]
    /\ UNCHANGED <<netType, name, asked, real, again, bound, free, usedPorts, reserved, ctx>>

(* Run returns an error; its deferred Release is still to come. *)
ListenFails(x) ==
    /\ pc[x] = "acquired"
    /\ pc' = [pc EXCEPT ![x] = "unbound"]
    /\ UNCHANGED <<netType, name, asked, real, again, bound, free, usedPorts, reserved, ctx>>

(* Fault: a tcp proxy, too, is closed by its accept loop as well. *)
CloseSocketTwice(x) ==
    /\ pc[x] = "listening"
    /\ pc' = [pc EXCEPT ![x] = "unbound"]
    /\ bound' = [bound EXCEPT ![real[x]] = Nobody]
    /\ again' = [again EXCEPT ![x] = TRUE]
    /\ UNCHANGED <<netType, name, asked, real, free, usedPorts, reserved, ctx>>

(* The first half of Close, whoever calls it.  Closing the socket of a udp *)
(* proxy ends ForwardUserConn, and its goroutine calls Close too.          *)
CloseSocket(x) ==
    /\ pc[x] = "listening"
    /\ pc' = [pc EXCEPT ![x] = "unbound"]
    /\ bound' = [bound EXCEPT ![real[x]] = Nobody]
    /\ again' = [again EXCEPT ![x] = netType = "udp"]
    /\ UNCHANGED <<netType, name, asked, real, free, usedPorts, reserved, ctx>>

(* Manager.Release: by number, whoever took the port. *)
ReleasePort(p) ==
    \/ /\ usedPorts[p] # Nobody
       /\ free' = free \cup {p}
       /\ usedPorts' = [usedPorts EXCEPT ![p] = Nobody]
       /\ ctx' = [ctx EXCEPT ![usedPorts[p]] = "closed"]
    \/ usedPorts[p] = Nobody /\ UNCHANGED <<free, usedPorts, ctx>>

Release(x) ==
    /\ pc[x] = "unbound"
    /\ ReleasePort(real[x])
    /\ pc' = [pc EXCEPT ![x] = "closed"]
    /\ UNCHANGED <<netType, name, asked, real, again, bound, reserved>>

(* The second Close of a udp proxy: isClosed is set, and yet it releases. *)
CloseAgain(x) ==
    /\ pc[x] = "closed" /\ again[x]
    /\ ReleasePort(real[x])
    /\ again' = [again EXCEPT ![x] = FALSE]
    /\ UNCHANGED <<netType, pc, name, asked, real, bound, reserved>>

-----------------------------------------------------------------------------
(* Time, and other processes                                               *)

(* A day passes since UpdateTime. *)
Expires(x) ==
    /\ ctx[x] = "closed"
    /\ ctx' = [ctx EXCEPT ![x] = "expired"]
    /\ UNCHANGED <<netType, pc, name, asked, real, again, bound, free, usedPorts, reserved>>

Stale == {n \in PxyName : reserved[n] # Nobody /\ ctx[reserved[n]] = "expired"}

(* One round of cleanReservedPortsWorker. *)
CleanReservedPorts ==
    /\ Stale # {}
    /\ reserved' = [n \in PxyName |-> IF n \in Stale THEN Nobody ELSE reserved[n]]
    /\ UNCHANGED <<netType, pc, name, asked, real, again, bound, free, usedPorts, ctx>>

OtherListens(p) ==
    /\ bound[p] = Nobody
    /\ bound' = [bound EXCEPT ![p] = Other]
    /\ UNCHANGED <<netType, pc, name, asked, real, again, free, usedPorts, reserved, ctx>>

OtherCloses(p) ==
    /\ bound[p] = Other
    /\ bound' = [bound EXCEPT ![p] = Nobody]
    /\ UNCHANGED <<netType, pc, name, asked, real, again, free, usedPorts, reserved, ctx>>

Acquire(x, n) == AcquireKept(x, n) \/ AcquireAny(x, n) \/ AcquireFixed(x, n) \/ AcquireFails(x, n)

PortNext ==
    \/ \E x \in Proxy, n \in PxyName : Acquire(x, n)
    \/ \E x \in Proxy : \/ Listen(x) \/ ListenFails(x) \/ CloseSocket(x)
                        \/ Release(x) \/ CloseAgain(x) \/ Expires(x)
    \/ CleanReservedPorts
    \/ \E p \in AllowPort : OtherListens(p) \/ OtherCloses(p)

PortSpec == PortInit /\ [][PortNext]_portVars

-----------------------------------------------------------------------------
(* Correctness                                                             *)

PortTypeOK ==
    /\ netType \in NetTypes
    /\ pc \in [Proxy -> Place]
    /\ name \in [Proxy -> PxyName \cup {Nobody}]
    /\ asked \in [Proxy -> RemotePorts \cup {Nobody}]
    /\ real \in [Proxy -> AllowPort \cup {Nobody}]
    /\ again \in [Proxy -> BOOLEAN]
    /\ bound \in [AllowPort -> Proxy \cup {Nobody, Other}]
    /\ free \subseteq AllowPort
    /\ usedPorts \in [AllowPort -> Proxy \cup {Nobody}]
    /\ reserved \in [PxyName -> Proxy \cup {Nobody}]
    /\ ctx \in [Proxy -> CtxAge]

(* A port is free or used, never both and never neither, whatever order    *)
(* the releases by number come in: no port disappears from the server.     *)
LedgerPartition == free = {p \in AllowPort : usedPorts[p] = Nobody}

HoldsPort(x, p) == pc[x] \in {"acquired", "listening", "unbound"} /\ real[x] = p

(* What the ledger calls used is used: the proxy that acquired the port    *)
(* last has not finished.  A failed Run or a Close leaves no port behind.  *)
NoPortLost == \A p \in AllowPort : usedPorts[p] # Nobody => HoldsPort(usedPorts[p], p)

(* A kept port or a second Close can give the port of one proxy to another: *)
(* what follows holds for a tcp manager when no proxy asks for any port.    *)
Plain == netType = "tcp" /\ \A x \in Proxy : asked[x] # AnyPort

(* Between Acquire and Release a port has one owner, the one the ledger    *)
(* names: no Release by number gives away the port of somebody else.       *)
OneOwner == Plain => \A x \in Proxy, p \in AllowPort : usedPorts[p] = x <=> HoldsPort(x, p)

(* The port kept for a name can expire: its context is marked closed no    *)
(* later than the proxy it was made for has finished.                      *)
ReservationsEnd ==
    Plain => \A n \in PxyName :
        reserved[n] # Nobody /\ pc[reserved[n]] = "closed" => ctx[reserved[n]] # "open"

(* "Release reserved port if it isn't used in last 24 hours": a port stays *)
(* reserved for a name as long as the proxy of that name listens on it.    *)
ReservedWhileUsed ==
    [][\A n \in PxyName : reserved[n] # Nobody /\ reserved'[n] = Nobody
            => pc[reserved[n]] # "listening"]_portVars
=============================================================================
