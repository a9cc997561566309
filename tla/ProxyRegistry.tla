--------------------------- MODULE ProxyRegistry ---------------------------
(***************************************************************************)
(* frps: the life of a control (one logged-in client) and the registration *)
(* of its proxies.  server/service.go RegisterControl, server/control.go   *)
(* (ControlManager, Control), server/proxy/proxy.go (Manager).             *)
(*                                                                         *)
(* Every control runs one message loop whose handlers are sequential; when *)
(* that loop ends, its worker tears the proxies down.  What interleaves is *)
(* the loops of different controls, over three tables they share: the map  *)
(* of controls by run ID, the map of proxies by name, and the machine's    *)
(* tcp ports, of which a tcp proxy takes one with net.Listen in Run and    *)
(* gives it back in Close, by closing its own listener.  The ledger of     *)
(* ports that Run asks before it listens, and that every Close releases by *)
(* number, is the subject of PortManager: here it only makes Run fail.     *)
(***************************************************************************)
EXTENDS Integers, FiniteSets

CONSTANTS Control,   \* control objects, one per login
          RunID,     \* run IDs that clients log in with
          Name,      \* proxy names
          Port,      \* tcp ports that tcp proxies listen on
          MaxPorts,  \* serverCfg.MaxPortsPerClient, 0 for no limit
          None,      \* the nil control, or no name
          NoPort,    \* port of a proxy type that takes none (stcp, http)
          Counted,   \* port of a proxy that counts one in the quota and holds no
                     \* tcp listener of its own (udp, a member of a tcp group)
          Asked,     \* which of all these the clients ask for
          Absent     \* ctl.proxies has no entry

ASSUME SentinelAssumption ==
    /\ None \notin Control /\ None \notin Name
    /\ NoPort \notin Port /\ Counted \notin Port /\ NoPort # Counted
    /\ Absent \notin Port /\ Absent # NoPort /\ Absent # Counted

ASSUME AskedAssumption == Asked \subseteq Port \cup {NoPort, Counted}

ASSUME LimitAssumption == MaxPorts \in Nat /\ IsFiniteSet(Name)

VARIABLES
    st,       \* [Control -> Status], where RegisterControl and worker are
    runID,    \* loginMsg.RunID of the control
    conn,     \* is the control connection open?
    prev,     \* the control this one replaced and waits for
    ctls,     \* ControlManager.ctlsByRunID
    step,     \* the handler (or teardown) a control is in the middle of
    proxies,  \* ctl.proxies, with the port each proxy took
    used,     \* ctl.portsUsedNum
    todo,     \* proxies the worker has still to close
    pxys,     \* Manager.pxys, by the control that owns the proxy
    listens,  \* whose listener each port has
    shut      \* ControlManager.Close has run

vars == <<st, runID, conn, prev, ctls, step, proxies, used, todo, pxys, listens, shut>>

Status == {"unused", "waiting", "running", "stopping", "closed", "reaped"}
Op     == {"idle", "exist", "run", "add", "put", "rollback", "del", "teardel"}
Registering == {"exist", "run", "add", "put", "rollback"}
Handler == [op : Op, name : Name \cup {None}, port : Port \cup {NoPort, Counted}]
Idle   == [op |-> "idle", name |-> None, port |-> NoPort]

Active(c)   == st[c] \in {"running", "stopping"}
Finished(c) == st[c] \in {"closed", "reaped"}

(* pxy.GetUsedPortsNum: tcp and udp proxies count one port, others none. *)
UsedPorts(p) == IF p = NoPort THEN 0 ELSE 1

Init ==
    /\ st = [c \in Control |-> "unused"]
    /\ runID = [c \in Control |-> None]
    /\ conn = [c \in Control |-> FALSE]
    /\ prev = [c \in Control |-> None]
    /\ ctls = [r \in RunID |-> None]
    /\ step = [c \in Control |-> Idle]
    /\ proxies = [c \in Control |-> [n \in Name |-> Absent]]
    /\ used = [c \in Control |-> 0]
    /\ todo = [c \in Control |-> {}]
    /\ pxys = [n \in Name |-> None]
    /\ listens = [p \in Port |-> None]
    /\ shut = FALSE

-----------------------------------------------------------------------------
(* Sessions: Service.RegisterControl and ControlManager                    *)

(* ControlManager.Add under cm.mu: the control found under the same run ID *)
(* is Replaced, that is its connection is closed.                          *)
Login(c, r) ==
    /\ st[c] = "unused"
    /\ st' = [st EXCEPT ![c] = "waiting"]
    /\ runID' = [runID EXCEPT ![c] = r]
    /\ conn' = [d \in Control |-> \/ d = c
                                  \/ conn[d] /\ d # ctls[r]]
    /\ prev' = [prev EXCEPT ![c] = ctls[r]]
    /\ ctls' = [ctls EXCEPT ![r] = c]
    /\ UNCHANGED <<step, proxies, used, todo, pxys, listens, shut>>

(* RegisterControl goes on once oldCtl.WaitClosed returns: Control.Start.  *)
Start(c) ==
    /\ st[c] = "waiting"
    /\ prev[c] # None => Finished(prev[c])
    /\ st' = [st EXCEPT ![c] = "running"]
    /\ UNCHANGED <<runID, conn, prev, ctls, step, proxies, used, todo, pxys, listens, shut>>

(* The peer goes away, or heartbeatWorker closes the connection. *)
ConnLost(c) ==
    /\ conn[c]
    /\ conn' = [conn EXCEPT ![c] = FALSE]
    /\ UNCHANGED <<st, runID, prev, ctls, step, proxies, used, todo, pxys, listens, shut>>

(* ControlManager.Close, called by Service.Close. *)
ShutDown ==
    /\ ~shut
    /\ shut' = TRUE
    /\ conn' = [c \in Control |-> conn[c] /\ \A r \in RunID : ctls[r] # c]
    /\ ctls' = [r \in RunID |-> None]
    /\ UNCHANGED <<st, runID, prev, step, proxies, used, todo, pxys, listens>>

-----------------------------------------------------------------------------
(* RegisterProxy, run by the message loop of control c                     *)

Receives(c) == st[c] = "running" /\ conn[c] /\ step[c] = Idle

At(c, op)  == step[c].op = op
Goto(c, o) == step' = [step EXCEPT ![c].op = o]
Return(c)  == step' = [step EXCEPT ![c] = Idle]

(* The deferred give-back of the quota when RegisterProxy returns an error. *)
Charge(c, k) == used' = IF MaxPorts > 0 THEN [used EXCEPT ![c] = @ + k] ELSE used

sessionVars == <<st, runID, conn, prev, ctls, todo, shut>>

(* The quota check under ctl.mu; a message refused by config, by the       *)
(* John_San check or by the quota changes nothing.                         *)
NewProxy(c, n, p) ==
    /\ Receives(c)
    /\ MaxPorts > 0 => used[c] + UsedPorts(p) <= MaxPorts
    /\ Charge(c, UsedPorts(p))
    /\ step' = [step EXCEPT ![c] = [op |-> "exist", name |-> n, port |-> p]]
    /\ UNCHANGED <<proxies, pxys, listens>> /\ UNCHANGED sessionVars

(* pxyManager.Exist: only an early answer, nothing is reserved. *)
Exist(c) ==
    /\ At(c, "exist")
    /\ \/ /\ pxys[step[c].name] # None
          /\ Return(c) /\ Charge(c, -UsedPorts(step[c].port))
       \/ /\ pxys[step[c].name] = None
          /\ Goto(c, "run") /\ UNCHANGED used
    /\ UNCHANGED <<proxies, pxys, listens>> /\ UNCHANGED sessionVars

(* pxy.Run of a tcp proxy ends with a listener on a port that nobody       *)
(* listens on: the ledger's answer is not enough, net.Listen has to agree. *)
RunOK(c) ==
    /\ At(c, "run")
    /\ step[c].port \in Port => listens[step[c].port] = None
    /\ listens' = [p \in Port |-> IF p = step[c].port THEN c ELSE listens[p]]
    /\ Goto(c, "add")
    /\ UNCHANGED <<proxies, used, pxys>> /\ UNCHANGED sessionVars

(* Fault: an error return that does not give the quota back. *)
RunFailsCharged(c) ==
    /\ At(c, "run")
    /\ Return(c)
    /\ UNCHANGED <<used, proxies, pxys, listens>> /\ UNCHANGED sessionVars

(* Run fails with no listener: the ledger refuses (any time, whatever it   *)
(* holds: not allowed, in use, reserved, none left), or it agreed and      *)
(* net.Listen found the port taken.                                        *)
RunFails(c) ==
    /\ At(c, "run")
    /\ Return(c) /\ Charge(c, -UsedPorts(step[c].port))
    /\ UNCHANGED <<proxies, pxys, listens>> /\ UNCHANGED sessionVars

(* Fault: Add trusts the earlier answer of Exist. *)
AddUnchecked(c) ==
    /\ At(c, "add")
    /\ Goto(c, "put")
    /\ pxys' = [pxys EXCEPT ![step[c].name] = c]
    /\ UNCHANGED <<proxies, used, listens>> /\ UNCHANGED sessionVars

(* pxyManager.Add, the check that counts, under pm.mu. *)
Add(c) ==
    /\ At(c, "add")
    /\ \/ /\ pxys[step[c].name] # None
          /\ Goto(c, "rollback") /\ UNCHANGED pxys
       \/ /\ pxys[step[c].name] = None
          /\ Goto(c, "put")
          /\ pxys' = [pxys EXCEPT ![step[c].name] = c]
    /\ UNCHANGED <<proxies, used, listens>> /\ UNCHANGED sessionVars

(* BaseProxy.Close: the listener that the proxy of c opened on p, if any. *)
CloseListeners(c, p) ==
    listens' = [q \in Port |-> IF q = p /\ listens[q] = c THEN None ELSE listens[q]]

(* Fault: the proxy that lost the name is dropped, but not closed. *)
RollbackOpen(c) ==
    /\ At(c, "rollback")
    /\ Return(c) /\ Charge(c, -UsedPorts(step[c].port))
    /\ UNCHANGED <<proxies, pxys, listens>> /\ UNCHANGED sessionVars

(* The deferred pxy.Close after a failed Add, then the quota. *)
Rollback(c) ==
    /\ At(c, "rollback")
    /\ CloseListeners(c, step[c].port)
    /\ Return(c) /\ Charge(c, -UsedPorts(step[c].port))
    /\ UNCHANGED <<proxies, pxys>> /\ UNCHANGED sessionVars

Put(c) ==
    /\ At(c, "put")
    /\ proxies' = [proxies EXCEPT ![c][step[c].name] = step[c].port]
    /\ Return(c)
    /\ UNCHANGED <<used, pxys, listens>> /\ UNCHANGED sessionVars

-----------------------------------------------------------------------------
(* CloseProxy, and the teardown in worker                                  *)

(* Under ctl.mu: the quota, then pxy.Close closes the listener ... *)
CloseProxy(c, n) ==
    /\ Receives(c) /\ proxies[c][n] # Absent
    /\ Charge(c, -UsedPorts(proxies[c][n]))
    /\ CloseListeners(c, proxies[c][n])
    /\ step' = [step EXCEPT ![c] = [op |-> "del", name |-> n, port |-> NoPort]]
    /\ UNCHANGED <<proxies, pxys>> /\ UNCHANGED sessionVars

(* Manager.Del: by name, whoever is registered under it. *)
Del(n) == pxys' = [pxys EXCEPT ![n] = None]

(* ... then the name.  Other controls may run in between. *)
CloseDel(c) ==
    /\ At(c, "del")
    /\ Del(step[c].name)
    /\ proxies' = [proxies EXCEPT ![c][step[c].name] = Absent]
    /\ Return(c)
    /\ UNCHANGED <<used, listens>> /\ UNCHANGED sessionVars

(* Fault: the worker overlooks the proxies of its control. *)
ReadEOFForgets(c) ==
    /\ st[c] = "running" /\ step[c] = Idle /\ ~conn[c]
    /\ st' = [st EXCEPT ![c] = "stopping"]
    /\ UNCHANGED <<runID, conn, prev, ctls, step, proxies, used, todo, pxys, listens, shut>>

(* The message loop ends once no handler runs and the read fails. *)
ReadEOF(c) ==
    /\ st[c] = "running" /\ step[c] = Idle /\ ~conn[c]
    /\ st' = [st EXCEPT ![c] = "stopping"]
    /\ todo' = [todo EXCEPT ![c] = {n \in Name : proxies[c][n] # Absent}]
    /\ UNCHANGED <<runID, conn, prev, ctls, step, proxies, used, pxys, listens, shut>>

TearClose(c, n) ==
    /\ st[c] = "stopping" /\ step[c] = Idle /\ n \in todo[c]
    /\ CloseListeners(c, proxies[c][n])
    /\ step' = [step EXCEPT ![c] = [op |-> "teardel", name |-> n, port |-> NoPort]]
    /\ UNCHANGED <<proxies, used, pxys>> /\ UNCHANGED sessionVars

TearDel(c) ==
    /\ At(c, "teardel")
    /\ Del(step[c].name)
    /\ todo' = [todo EXCEPT ![c] = @ \ {step[c].name}]
    /\ Return(c)
    /\ UNCHANGED <<st, runID, conn, prev, ctls, proxies, used, listens, shut>>

(* Nobody reads the map and the count of a control whose worker has ended: *)
(* they go with the object.                                                *)
Discard(c) ==
    /\ proxies' = [proxies EXCEPT ![c] = [n \in Name |-> Absent]]
    /\ used' = [used EXCEPT ![c] = 0]

(* Fault: doneCh is closed before the proxies are. *)
WorkerExitEarly(c) ==
    /\ st[c] = "stopping" /\ step[c] = Idle
    /\ st' = [st EXCEPT ![c] = "closed"]
    /\ Discard(c)
    /\ UNCHANGED <<runID, conn, prev, ctls, step, todo, pxys, listens, shut>>

(* Fault: a control that was replaced skips the end of its worker. *)
WorkerExitCurrent(c) ==
    /\ st[c] = "stopping" /\ step[c] = Idle /\ todo[c] = {}
    /\ ctls[runID[c]] = c
    /\ st' = [st EXCEPT ![c] = "closed"]
    /\ Discard(c)
    /\ UNCHANGED <<runID, conn, prev, ctls, step, todo, pxys, listens, shut>>

(* close(ctl.doneCh), which lets a waiting RegisterControl go on. *)
WorkerExit(c) ==
    /\ st[c] = "stopping" /\ step[c] = Idle /\ todo[c] = {}
    /\ st' = [st EXCEPT ![c] = "closed"]
    /\ Discard(c)
    /\ UNCHANGED <<runID, conn, prev, ctls, step, todo, pxys, listens, shut>>

(* Fault: Del does not ask whether the entry is still its own. *)
ReapAnyway(c) ==
    /\ st[c] = "closed"
    /\ st' = [st EXCEPT ![c] = "reaped"]
    /\ ctls' = [ctls EXCEPT ![runID[c]] = None]
    /\ UNCHANGED <<runID, conn, prev, step, proxies, used, todo, pxys, listens, shut>>

(* The goroutine RegisterControl left behind: ControlManager.Del. *)
Reap(c) ==
    /\ st[c] = "closed"
    /\ st' = [st EXCEPT ![c] = "reaped"]
    /\ ctls' = [r \in RunID |-> IF r = runID[c] /\ ctls[r] = c THEN None ELSE ctls[r]]
    /\ UNCHANGED <<runID, conn, prev, step, proxies, used, todo, pxys, listens, shut>>

-----------------------------------------------------------------------------

Environment(c) ==
    \/ \E r \in RunID : Login(c, r)
    \/ ConnLost(c)
    \/ \E n \in Name, p \in Asked : NewProxy(c, n, p)
    \/ \E n \in Name : CloseProxy(c, n)

Server(c) ==
    \/ Start(c) \/ Exist(c) \/ RunOK(c) \/ RunFails(c) \/ Add(c) \/ Put(c)
    \/ Rollback(c) \/ CloseDel(c) \/ ReadEOF(c)
    \/ \E n \in Name : TearClose(c, n)
    \/ TearDel(c) \/ WorkerExit(c) \/ Reap(c)

Next == ShutDown \/ \E c \in Control : Environment(c) \/ Server(c)

(* Goroutines are scheduled, and the plugin and API calls the handlers     *)
(* make return: whatever the server can do next for a control, it does.    *)
Fairness == \A c \in Control : WF_vars(Server(c))

Spec == Init /\ [][Next]_vars

FairSpec == Spec /\ Fairness

-----------------------------------------------------------------------------
(* Correctness                                                             *)

TypeOK ==
    /\ st \in [Control -> Status]
    /\ runID \in [Control -> RunID \cup {None}]
    /\ conn \in [Control -> BOOLEAN]
    /\ prev \in [Control -> Control \cup {None}]
    /\ ctls \in [RunID -> Control \cup {None}]
    /\ step \in [Control -> Handler]
    /\ proxies \in [Control -> [Name -> Port \cup {NoPort, Counted, Absent}]]
    /\ used \in [Control -> Int]
    /\ todo \in [Control -> SUBSET Name]
    /\ pxys \in [Name -> Control \cup {None}]
    /\ listens \in [Port -> Control \cup {None}]
    /\ shut \in BOOLEAN

(* The names control c has a right to: those in its map that teardown or   *)
(* CloseProxy has not yet deleted, and the one between Add and Put.        *)
Owns(c, n) ==
    \/ st[c] = "running" /\ proxies[c][n] # Absent
    \/ st[c] = "stopping" /\ n \in todo[c]
    \/ At(c, "put") /\ step[c].name = n

(* The registry of proxies and the controls' own maps say the same of      *)
(* every name, at every moment in which nobody is in the middle of Put:    *)
(* no name is held for a control that forgot it, none is lost to another.  *)
(* It is what a plain Del-by-name and a check before Run could break.      *)
RegistryExact == \A c \in Control, n \in Name : pxys[n] = c <=> Owns(c, n)

(* The ports control c listens on rightly: the one RegisterProxy             *)
(* has in hand, and those of the proxies it owns that are not being closed.  *)
InHand(c, p) == step[c].op \in {"add", "put", "rollback"} /\ step[c].port = p

Closing(c, n) == step[c].op \in {"del", "teardel"} /\ step[c].name = n

Holds(c, n, p) == Owns(c, n) /\ proxies[c][n] = p /\ ~Closing(c, n)

Occupies(c, p) == InHand(c, p) \/ \E n \in Name : Holds(c, n, p)

(* A port has a listener of frps if and only if a tcp proxy that is        *)
(* registered, or about to be, opened it: no failed registration, close or *)
(* teardown leaves one behind (the port would stay bound, and serve users, *)
(* with nobody to close it), and no proxy is registered whose listener a   *)
(* close under an old name has taken away.  The sockets, not the ledger:   *)
(* that one goes by number and can be wrong (PortManager).                 *)
ListenersExact == \A c \in Control, p \in Port : listens[p] = c <=> Occupies(c, p)

(* portsUsedNum of a running control is the number of port-taking proxies  *)
(* it has or is registering, and so never exceeds the limit.               *)
PortNames(c) == {n \in Name : proxies[c][n] \in Port \cup {Counted} /\ ~Closing(c, n)}

Pending(c) == IF step[c].op \in Registering THEN UsedPorts(step[c].port) ELSE 0

QuotaExact ==
    MaxPorts > 0 => \A c \in Control : st[c] = "running" =>
                        /\ used[c] = Cardinality(PortNames(c)) + Pending(c)
                        /\ used[c] <= MaxPorts

(* Until the service shuts down, one client (run ID) is served by one      *)
(* control: the replaced one is gone before its successor starts.          *)
OneServed ==
    ~shut => \A c, d \in Control :
                Active(c) /\ Active(d) /\ runID[c] = runID[d] => c = d

(* When a control starts serving a client, no name is still registered for *)
(* an earlier control of that client: a client that reconnects does not    *)
(* find its own proxies "already exists".                                  *)
NoGhostNames ==
    ~shut => \A c, d \in Control, n \in Name :
                Active(c) /\ runID[c] = runID[d] /\ c # d => pxys[n] # d

(* The control that work and visitor connections find under a run ID is    *)
(* always the latest one: nobody but the finished control itself removes   *)
(* its entry ("make sure if it's the same control to prevent delete a new  *)
(* one"), and an entry is overwritten only by a control that waits for it. *)
EntryStays ==
    [][\A r \in RunID : ctls'[r] # ctls[r] =>
          \/ shut' /\ ~shut
          \/ ctls[r] = None \/ Finished(ctls[r])
          \/ ctls'[r] # None /\ prev'[ctls'[r]] = ctls[r] /\ ~conn'[ctls[r]]]_vars

(* A control that is alive can be found under its run ID, unless a later   *)
(* login replaced it (then its connection is closed) or shutdown began.    *)
Findable ==
    ~shut => \A c \in Control : conn[c] /\ ~Finished(c) => ctls[runID[c]] = c

(* A control whose connection is gone finishes: every name it had comes    *)
(* back, and it listens nowhere. *)
ConnLossFreesAll ==
    \A c \in Control :
        (Active(c) /\ ~conn[c]) ~> /\ Finished(c)
                                   /\ \A n \in Name : pxys[n] # c
                                   /\ \A p \in Port : listens[p] # c

(* A login is answered: WaitClosed on the replaced control returns, through *)
(* any chain of controls that replaced one another before they started.     *)
LoginStarts == \A c \in Control : st[c] = "waiting" ~> st[c] # "waiting"

-----------------------------------------------------------------------------
(* The abstract specification.                                             *)

Served(r) == {c \in Control : Active(c) /\ runID[c] = r}

Over == {c \in Control : Finished(c)}

Lease == INSTANCE NameLease WITH
    Session <- Control,
    Client  <- RunID,
    lease   <- pxys,
    live    <- [r \in RunID |-> Served(r)],
    ended   <- Over,
    down    <- shut

(* Whatever the interleaving, the registry gives names out as leases. *)
ImplementsLease == Lease!Spec
=============================================================================
