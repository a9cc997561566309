------------------------------ MODULE TCPGroup ------------------------------
(***************************************************************************)
(* frps: server/group/tcp.go, the load-balancing groups of tcp proxies.    *)
(*                                                                         *)
(* The controller finds a group under its own mutex, releases it, and only *)
(* then joins the group under the mutex of the group.  In between the last *)
(* member may leave: it closes acceptCh, frees the port and removes the    *)
(* group from the map.  The late joiner then opens a group that no map     *)
(* lists and whose acceptCh is closed for good (Listen makes a channel     *)
(* only when there is none), and its own leave closes acceptCh twice.      *)
(***************************************************************************)
EXTENDS Naturals, FiniteSets

CONSTANTS Member,     \* tcp proxies with a group; each runs once
          Group,      \* TCPGroup objects
          GroupName,
          GPort,      \* allowPorts, of which each group takes one
          Asked,      \* values of remotePort in the configurations
          Zero,       \* remotePort 0
          Elsewhere,  \* a port that the manager did not choose
          Key,
          User,       \* connections of users
          NoGroup

ASSUME GroupAssumption ==
    /\ NoGroup \notin GPort \cup Group \cup GroupName
    /\ Elsewhere \notin GPort \cup {NoGroup} /\ Zero \notin GPort
    /\ Asked \subseteq GPort \cup {Zero}

VARIABLES
    groups,    \* tgc.groups: the group object of a name
    made,      \* the objects made so far, with the name each was made for
    terms,     \* group, port and groupKey of an object, set by its first listener
    realPort,  \* realPort of an object
    tcpLn,     \* where the real listener of an object listens
    acceptCh,  \* is the channel open?
    lns,       \* the listeners in an object
    worker,    \* does the worker of an object run?
    used,      \* the ports the port manager has handed out to groups
    lost,      \* those of them that Listen acquired and then dropped
    at,        \* how far a proxy has come
    in,        \* the object it holds
    loop,      \* does its accept loop run?
    user,      \* what became of the connection of a user
    panicked   \* a panic in a handler ends frps

groupVars == <<groups, made, terms, realPort, tcpLn, acceptCh, lns, worker, used,
          lost, at, in, loop, user, panicked>>

Terms == [group : GroupName, port : Asked, key : Key]
MemberStage == {"idle", "looked", "member", "leaving", "left", "refused"}

User0   == [where |-> "none", of |-> NoGroup]
Fate    == {"backlog", "held", "served", "leaked", "reset"}

GroupInit ==
    /\ groups = [n \in GroupName |-> NoGroup]
    /\ made = [g \in Group |-> NoGroup]
    /\ terms \in [Group -> {NoGroup}]
    /\ realPort = [g \in Group |-> NoGroup]
    /\ tcpLn = [g \in Group |-> NoGroup]
    /\ acceptCh = [g \in Group |-> TRUE]
    /\ lns = [g \in Group |-> {}]
    /\ worker = [g \in Group |-> FALSE]
    /\ used = {} /\ lost = {}
    /\ at = [m \in Member |-> "idle"]
    /\ in = [m \in Member |-> NoGroup]
    /\ loop = [m \in Member |-> FALSE]
    /\ user = [u \in User |-> User0]
    /\ panicked = FALSE

-----------------------------------------------------------------------------
(* Joining                                                                 *)

(* One unused object is as good as another. *)
Fresh == {g \in Group : made[g] = NoGroup}

Found(n) == IF groups[n] = NoGroup THEN CHOOSE g \in Fresh : TRUE ELSE groups[n]

(* Fault: a new group is not put into the map. *)
LookUpUnlisted(m, n) ==
    /\ at[m] = "idle" /\ ~panicked
    /\ groups[n] # NoGroup \/ Fresh # {}
    /\ made' = [made EXCEPT ![Found(n)] = n]
    /\ in' = [in EXCEPT ![m] = Found(n)]
    /\ at' = [at EXCEPT ![m] = "looked"]
    /\ UNCHANGED <<groups, terms, realPort, tcpLn, acceptCh, lns, worker, used, lost, loop, user, panicked>>

(* TCPGroupCtl.Listen, up to the release of its lock. *)
LookUp(m, n) ==
    /\ at[m] = "idle" /\ ~panicked
    /\ groups[n] # NoGroup \/ Fresh # {}
    /\ made' = [made EXCEPT ![Found(n)] = n]
    /\ groups' = [groups EXCEPT ![n] = Found(n)]
    /\ in' = [in EXCEPT ![m] = Found(n)]
    /\ at' = [at EXCEPT ![m] = "looked"]
    /\ UNCHANGED <<terms, realPort, tcpLn, acceptCh, lns, worker, used, lost, loop, user, panicked>>

(* The proxy is told realPort and starts its accept loop. *)
Joined(m, g) ==
    /\ lns' = [lns EXCEPT ![g] = @ \cup {m}]
    /\ at' = [at EXCEPT ![m] = "member"]
    /\ loop' = [loop EXCEPT ![m] = TRUE]

RefusedByGroup(m) ==
    /\ at' = [at EXCEPT ![m] = "refused"]
    /\ UNCHANGED <<groups, made, terms, realPort, tcpLn, acceptCh, lns, worker, in, loop, user, panicked>>

(* portManager.Acquire, on the ports that groups use. *)
Acquirable(p, r) == p \in GPort \ used /\ (r = Zero \/ p = r)

(* net.Listen gets the port of the configuration, not the one acquired. *)
ListenAt(r) == IF r = Zero THEN Elsewhere ELSE r

(* Fault: every listener acquires a port. *)
ListenFirstAlways(m, t) ==
    /\ at[m] = "looked" /\ made[in[m]] = t.group /\ ~panicked
    /\ \E p \in GPort :
        /\ Acquirable(p, t.port)
        /\ used' = used \cup {p}
        /\ realPort' = [realPort EXCEPT ![in[m]] = p]
    /\ terms' = [terms EXCEPT ![in[m]] = t]
    /\ tcpLn' = [tcpLn EXCEPT ![in[m]] = ListenAt(t.port)]
    /\ worker' = [worker EXCEPT ![in[m]] = TRUE]
    /\ Joined(m, in[m])
    /\ UNCHANGED <<groups, made, acceptCh, lost, in, user, panicked>>

ListenFirst(m, t) ==
    /\ at[m] = "looked" /\ made[in[m]] = t.group /\ ~panicked
    /\ lns[in[m]] = {}
    /\ \E p \in GPort :
        /\ Acquirable(p, t.port)
        /\ used' = used \cup {p}
        /\ realPort' = [realPort EXCEPT ![in[m]] = p]
    /\ terms' = [terms EXCEPT ![in[m]] = t]
    /\ tcpLn' = [tcpLn EXCEPT ![in[m]] = ListenAt(t.port)]
    /\ worker' = [worker EXCEPT ![in[m]] = TRUE]
    /\ Joined(m, in[m])
    /\ UNCHANGED <<groups, made, acceptCh, lost, in, user, panicked>>

ListenNext(m, t) ==
    /\ at[m] = "looked" /\ made[in[m]] = t.group /\ ~panicked
    /\ lns[in[m]] # {} /\ terms[in[m]] = t
    /\ Joined(m, in[m])
    /\ UNCHANGED <<groups, made, terms, realPort, tcpLn, acceptCh, worker, used, lost, in, user, panicked>>

(* Acquire fails, or the port, the key or the group differ. *)
ListenRefused(m, t) ==
    /\ at[m] = "looked" /\ made[in[m]] = t.group /\ ~panicked
    /\ IF lns[in[m]] = {} THEN ~\E p \in GPort : Acquirable(p, t.port)
                          ELSE terms[in[m]] # t
    /\ RefusedByGroup(m)
    /\ UNCHANGED <<used, lost>>

(* Another process took the port after Acquire tried it: the port that     *)
(* Acquire handed out is not released.                                     *)
ListenFails(m, t) ==
    /\ at[m] = "looked" /\ made[in[m]] = t.group /\ ~panicked
    /\ lns[in[m]] = {}
    /\ \E p \in GPort :
        /\ Acquirable(p, t.port)
        /\ used' = used \cup {p} /\ lost' = lost \cup {p}
    /\ RefusedByGroup(m)

-----------------------------------------------------------------------------
(* Leaving                                                                 *)

(* TCPGroupListener.Close: closeCh first, the group afterwards. *)
CloseListener(m) ==
    /\ at[m] = "member" /\ ~panicked
    /\ at' = [at EXCEPT ![m] = "leaving"]
    /\ UNCHANGED <<groups, made, terms, realPort, tcpLn, acceptCh, lns, worker, used, lost, in, loop, user, panicked>>

(* The sockets that wait on the real listener are reset, and the worker    *)
(* drops what it cannot send: the panic of the send is recovered, and the  *)
(* connection is never closed.                                             *)
Unserved(g) ==
    [u \in User |->
        IF user[u].of # g THEN user[u]
        ELSE CASE user[u].where = "backlog" -> [user[u] EXCEPT !.where = "reset"]
               [] user[u].where = "held"    -> [user[u] EXCEPT !.where = "leaked"]
               [] OTHER                     -> user[u]]

(* Fault: a listener is not taken out of a group that has others. *)
LeaveStays(m) ==
    /\ at[m] = "leaving" /\ lns[in[m]] # {m} /\ ~panicked
    /\ at' = [at EXCEPT ![m] = "left"]
    /\ UNCHANGED <<groups, made, terms, realPort, tcpLn, acceptCh, lns, worker, used, lost, in, loop, user, panicked>>

LeaveOthers(m) ==
    /\ at[m] = "leaving" /\ lns[in[m]] # {m} /\ ~panicked
    /\ lns' = [lns EXCEPT ![in[m]] = @ \ {m}]
    /\ at' = [at EXCEPT ![m] = "left"]
    /\ UNCHANGED <<groups, made, terms, realPort, tcpLn, acceptCh, worker, used, lost, in, loop, user, panicked>>

LeaveLast(m) ==
    LET g == in[m]
    IN  /\ at[m] = "leaving" /\ lns[g] = {m} /\ ~panicked
        /\ acceptCh[g]
        /\ acceptCh' = [acceptCh EXCEPT ![g] = FALSE]
        /\ lns' = [lns EXCEPT ![g] = {}]
        /\ tcpLn' = [tcpLn EXCEPT ![g] = NoGroup]
        /\ worker' = [worker EXCEPT ![g] = FALSE]
        /\ used' = used \ {realPort[g]}
        /\ groups' = [groups EXCEPT ![terms[g].group] = NoGroup]
        /\ user' = Unserved(g)
        /\ at' = [at EXCEPT ![m] = "left"]
        /\ UNCHANGED <<made, terms, realPort, lost, in, loop, panicked>>

(* close of a closed channel, in the handler that closes the proxy. *)
LeavePanics(m) ==
    /\ at[m] = "leaving" /\ lns[in[m]] = {m} /\ ~panicked
    /\ ~acceptCh[in[m]]
    /\ panicked' = TRUE
    /\ UNCHANGED <<groups, made, terms, realPort, tcpLn, acceptCh, lns, worker, used, lost, at, in, loop, user>>

-----------------------------------------------------------------------------
(* Connections                                                             *)

Connect(u, g) ==
    /\ user[u].where = "none" /\ tcpLn[g] # NoGroup /\ ~panicked
    /\ user' = [user EXCEPT ![u] = [where |-> "backlog", of |-> g]]
    /\ UNCHANGED <<groups, made, terms, realPort, tcpLn, acceptCh, lns, worker, used, lost, at, in, loop, panicked>>

(* TCPGroup.worker: one connection at a time. *)
WorkerAccept(g, u) ==
    /\ worker[g] /\ ~panicked
    /\ user[u] = [where |-> "backlog", of |-> g]
    /\ \A v \in User : user[v] # [where |-> "held", of |-> g]
    /\ user' = [user EXCEPT ![u].where = IF acceptCh[g] THEN "held" ELSE "leaked"]
    /\ worker' = [worker EXCEPT ![g] = acceptCh[g]]
    /\ UNCHANGED <<groups, made, terms, realPort, tcpLn, acceptCh, lns, used, lost, at, in, loop, panicked>>

(* TCPGroupListener.Accept takes a connection; with closeCh closed, too,   *)
(* the select may take either.                                             *)
Receive(m, u) ==
    /\ loop[m] /\ ~panicked
    /\ user[u] = [where |-> "held", of |-> in[m]]
    /\ user' = [user EXCEPT ![u].where = "served"]
    /\ UNCHANGED <<groups, made, terms, realPort, tcpLn, acceptCh, lns, worker, used, lost, at, in, loop, panicked>>

(* ErrListenerClosed ends the accept loop. *)
LoopEnds(m) ==
    /\ loop[m] /\ ~panicked
    /\ at[m] # "member" \/ ~acceptCh[in[m]]
    /\ loop' = [loop EXCEPT ![m] = FALSE]
    /\ UNCHANGED <<groups, made, terms, realPort, tcpLn, acceptCh, lns, worker, used, lost, at, in, user, panicked>>

-----------------------------------------------------------------------------
Listen(m, t) ==
    ListenFirst(m, t) \/ ListenNext(m, t) \/ ListenRefused(m, t) \/ ListenFails(m, t)

Leave(m) == LeaveOthers(m) \/ LeaveLast(m) \/ LeavePanics(m)

GroupNext ==
    \/ \E m \in Member :
        \/ \E n \in GroupName : LookUp(m, n)
        \/ \E t \in Terms : Listen(m, t)
        \/ CloseListener(m) \/ Leave(m) \/ LoopEnds(m)
        \/ \E u \in User : Receive(m, u)
    \/ \E u \in User, g \in Group : Connect(u, g) \/ WorkerAccept(g, u)

GroupSpec == GroupInit /\ [][GroupNext]_groupVars

(* The goroutines of frps run on; nothing makes users connect or proxies   *)
(* come and go.                                                            *)
GroupFairness ==
    /\ \A m \in Member : /\ WF_groupVars(Leave(m)) /\ WF_groupVars(LoopEnds(m))
                         /\ WF_groupVars(\E u \in User : Receive(m, u))
    /\ \A g \in Group : WF_groupVars(\E u \in User : WorkerAccept(g, u))

GroupFairSpec == GroupSpec /\ GroupFairness

-----------------------------------------------------------------------------
GroupTypeOK ==
    /\ groups \in [GroupName -> Group \cup {NoGroup}]
    /\ made \in [Group -> GroupName \cup {NoGroup}]
    /\ terms \in [Group -> Terms \cup {NoGroup}]
    /\ realPort \in [Group -> GPort \cup {NoGroup}]
    /\ tcpLn \in [Group -> GPort \cup {Elsewhere, NoGroup}]
    /\ acceptCh \in [Group -> BOOLEAN] /\ worker \in [Group -> BOOLEAN]
    /\ lns \in [Group -> SUBSET Member]
    /\ used \subseteq GPort /\ lost \subseteq GPort
    /\ at \in [Member -> MemberStage]
    /\ in \in [Member -> Group \cup {NoGroup}]
    /\ loop \in [Member -> BOOLEAN]
    /\ user \in [User -> [where : Fate \cup {"none"}, of : Group \cup {NoGroup}]]
    /\ panicked \in BOOLEAN

(* The groups hold one port each, the port manager counts exactly these as *)
(* used, and a port is gone for good only where net.Listen failed after    *)
(* Acquire: late joiners, refusals and leaves in any order lose none and   *)
(* free none that another group has.                                       *)
PortsOfGroups ==
    /\ used = lost \cup {realPort[g] : g \in {h \in Group : lns[h] # {}}}
    /\ \A g, h \in Group :
        lns[g] # {} /\ lns[h] # {} /\ realPort[g] = realPort[h] => g = h
    /\ \A g \in Group : lns[g] # {} => realPort[g] \notin lost

(* A group that serves its members is the one the map has under its name,  *)
(* so whoever comes next with that name joins it; only an object that was  *)
(* closed before can have members beside the map.                          *)
OpenIsListed ==
    \A g \in Group : lns[g] # {} /\ acceptCh[g] => groups[terms[g].group] = g

(* The proxy that Listen has accepted can be given connections: "route     *)
(* connections to different proxies" (tcp.go:67), "Connections to port 80  *)
(* will be dispatched to proxies in the same group" (README.md:966).       *)
MemberIsDispatchedTo ==
    \A m \in Member : at[m] = "member" => acceptCh[in[m]]

(* A connection the worker of a group has taken off the socket does not    *)
(* stay with it: a member gets it, or the group is closed, or frps is      *)
(* down.  A proxy that leaves while others stay does not strand it.        *)
HeldMovesOn ==
    \A u \in User : (user[u].where = "held") ~> (user[u].where # "held" \/ panicked)
=============================================================================
