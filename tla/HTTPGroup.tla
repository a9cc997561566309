----------------------------- MODULE HTTPGroup -----------------------------
(***************************************************************************)
(* frps: who owns the routes of the http vhost.  server/proxy/http.go (Run *)
(* and Close), server/group/http.go, pkg/util/vhost/router.go (Add, Del).  *)
(*                                                                         *)
(* A proxy without a group adds its routes one by one and takes back those *)
(* it has added when one of them is taken.  A group adds one route for all *)
(* its members when the first registers, and deletes it when the last      *)
(* unregisters.  A member holds a pointer to its group to register, but    *)
(* unregisters by the name of the group: when the group has been detached  *)
(* in between, that finds nothing, or another group.                       *)
(*                                                                         *)
(* A group keys its members by the name of the proxy (createFuncs), and    *)
(* here by the proxy: the names of the proxies here are all different.     *)
(* That two proxies of one name run at a time, between Exist and Add, is   *)
(* ProxyRegistry's; that the later of the two is refused by its group      *)
(* (ErrProxyRepeated), or takes the member of that name out of another     *)
(* group when it closes, is not modelled.                                  *)
(***************************************************************************)
EXTENDS FiniteSets

CONSTANTS Plain,      \* http proxies without a group
          Grouped,    \* http proxies of a group, with one route each
          HGroup,     \* HTTPGroup objects
          HName,      \* names of groups
          Route,      \* triples of domain, location and routeByHTTPUser
          NoRoute

ASSUME RouteAssumption ==
    /\ Plain \cap Grouped = {} /\ HGroup \cap (Plain \cup Grouped) = {}
    /\ NoRoute \notin Plain \cup Grouped \cup HGroup \cup Route

VARIABLES
    router,    \* vhostRouter: what a route leads to, a proxy or a group
    listed,    \* ctl.groups
    created,   \* the group objects made so far
    routeOf,   \* domain, location and routeByHTTPUser of a group
    members,   \* createFuncs of a group
    stage,     \* how far a proxy has come
    wants,     \* the routes of its configuration
    closeFuncs,\* the routes it has to delete again
    holds,     \* the group object it found under its name
    under      \* the name of its group

httpVars == <<router, listed, created, routeOf, members, stage, wants, closeFuncs, holds, under>>

HttpProxy  == Plain \cup Grouped
HttpStage == {"idle", "running", "looked", "up", "failing", "closing", "gone", "refused"}

HttpInit ==
    /\ router = [t \in Route |-> NoRoute]
    /\ listed = [n \in HName |-> NoRoute]
    /\ created = {}
    /\ routeOf = [g \in HGroup |-> NoRoute]
    /\ members = [g \in HGroup |-> {}]
    /\ stage = [p \in HttpProxy |-> "idle"]
    /\ wants = [p \in HttpProxy |-> {}]
    /\ closeFuncs = [p \in HttpProxy |-> {}]
    /\ holds = [p \in HttpProxy |-> NoRoute]
    /\ under = [p \in HttpProxy |-> NoRoute]

-----------------------------------------------------------------------------
(* Routers                                                                 *)

Add(t, payload) == router[t] = NoRoute /\ router' = [router EXCEPT ![t] = payload]

(* Whatever the route leads to; a route nobody has is no error. *)
Del(t) == router' = IF t \in Route THEN [router EXCEPT ![t] = NoRoute] ELSE router

-----------------------------------------------------------------------------
(* A proxy without a group                                                 *)

HttpRun(p) ==
    /\ stage[p] = "idle"
    /\ \E W \in SUBSET Route \ {{}} : wants' = [wants EXCEPT ![p] = W]
    /\ stage' = [stage EXCEPT ![p] = "running"]
    /\ UNCHANGED <<router, listed, created, routeOf, members, closeFuncs, holds, under>>

RunAdd(p) ==
    /\ stage[p] = "running"
    /\ \E t \in wants[p] \ closeFuncs[p] :
        /\ Add(t, p)
        /\ closeFuncs' = [closeFuncs EXCEPT ![p] = @ \cup {t}]
    /\ UNCHANGED <<listed, created, routeOf, members, stage, wants, holds, under>>

(* Fault: the route that is in conflict is undone like the others. *)
RunConflictAll(p) ==
    /\ stage[p] = "running"
    /\ \E t \in wants[p] \ closeFuncs[p] : router[t] # NoRoute
    /\ stage' = [stage EXCEPT ![p] = "failing"]
    /\ closeFuncs' = [closeFuncs EXCEPT ![p] = wants[p]]
    /\ UNCHANGED <<router, listed, created, routeOf, members, wants, holds, under>>

(* ErrRouterConfigConflict: Run undoes what it has done. *)
RunConflict(p) ==
    /\ stage[p] = "running"
    /\ \E t \in wants[p] \ closeFuncs[p] : router[t] # NoRoute
    /\ stage' = [stage EXCEPT ![p] = "failing"]
    /\ UNCHANGED <<router, listed, created, routeOf, members, wants, closeFuncs, holds, under>>

RunOK(p) ==
    /\ stage[p] = "running" /\ closeFuncs[p] = wants[p]
    /\ stage' = [stage EXCEPT ![p] = "up"]
    /\ UNCHANGED <<router, listed, created, routeOf, members, wants, closeFuncs, holds, under>>

HttpClose(p) ==
    /\ stage[p] = "up"
    /\ stage' = [stage EXCEPT ![p] = "closing"]
    /\ UNCHANGED <<router, listed, created, routeOf, members, wants, closeFuncs, holds, under>>

CloseFunc(p) ==
    /\ p \in Plain /\ stage[p] \in {"failing", "closing"}
    /\ \E t \in closeFuncs[p] :
        /\ Del(t)
        /\ closeFuncs' = [closeFuncs EXCEPT ![p] = @ \ {t}]
    /\ UNCHANGED <<listed, created, routeOf, members, stage, wants, holds, under>>

CloseOver(p) ==
    /\ p \in Plain /\ stage[p] \in {"failing", "closing"} /\ closeFuncs[p] = {}
    /\ stage' = [stage EXCEPT ![p] = IF @ = "failing" THEN "refused" ELSE "gone"]
    /\ UNCHANGED <<router, listed, created, routeOf, members, wants, closeFuncs, holds, under>>

-----------------------------------------------------------------------------
(* A proxy of a group                                                      *)

(* HTTPGroupController.Register, up to the release of the lock. *)
HttpLookUp(p, n, t) ==
    /\ stage[p] = "idle"
    /\ listed[n] = NoRoute => created # HGroup
    /\ LET g == IF listed[n] = NoRoute THEN CHOOSE h \in HGroup : h \notin created ELSE listed[n]
       IN  /\ created' = created \cup {g}
           /\ listed' = [listed EXCEPT ![n] = g]
           /\ holds' = [holds EXCEPT ![p] = g]
    /\ wants' = [wants EXCEPT ![p] = {t}]
    /\ under' = [under EXCEPT ![p] = n]
    /\ stage' = [stage EXCEPT ![p] = "looked"]
    /\ UNCHANGED <<router, routeOf, members, closeFuncs>>

HttpJoined(p) ==
    /\ members' = [members EXCEPT ![holds[p]] = @ \cup {p}]
    /\ stage' = [stage EXCEPT ![p] = "up"]

RegisterFirst(p) ==
    /\ stage[p] = "looked" /\ members[holds[p]] = {}
    /\ \E t \in wants[p] :
        /\ Add(t, holds[p])
        /\ routeOf' = [routeOf EXCEPT ![holds[p]] = t]
    /\ HttpJoined(p)
    /\ UNCHANGED <<listed, created, wants, closeFuncs, holds, under>>

(* Fault: the parameters are not compared. *)
RegisterAnyway(p) ==
    /\ stage[p] = "looked" /\ members[holds[p]] # {}
    /\ HttpJoined(p)
    /\ UNCHANGED <<router, listed, created, routeOf, wants, closeFuncs, holds, under>>

RegisterNext(p) ==
    /\ stage[p] = "looked" /\ members[holds[p]] # {}
    /\ routeOf[holds[p]] \in wants[p]
    /\ HttpJoined(p)
    /\ UNCHANGED <<router, listed, created, routeOf, wants, closeFuncs, holds, under>>

(* A conflict for the first, other parameters or another key for the next. *)
RegisterFails(p) ==
    /\ stage[p] = "looked"
    /\ IF members[holds[p]] = {} THEN \E t \in wants[p] : router[t] # NoRoute
                                 ELSE routeOf[holds[p]] \notin wants[p]
    /\ stage' = [stage EXCEPT ![p] = "refused"]
    /\ UNCHANGED <<router, listed, created, routeOf, members, wants, closeFuncs, holds, under>>

(* UnRegister of the controller and of the group it finds by the name, all *)
(* under the lock of the controller.                                       *)
UnRegister(p) ==
    LET g == listed[under[p]]
    IN  /\ p \in Grouped /\ stage[p] = "closing"
        /\ stage' = [stage EXCEPT ![p] = "gone"]
        /\ IF g = NoRoute THEN UNCHANGED <<router, listed, members>>
           ELSE /\ members' = [members EXCEPT ![g] = @ \ {p}]
                /\ IF members[g] \subseteq {p}
                   THEN Del(routeOf[g]) /\ listed' = [listed EXCEPT ![under[p]] = NoRoute]
                   ELSE UNCHANGED <<router, listed>>
        /\ UNCHANGED <<created, routeOf, wants, closeFuncs, holds, under>>

-----------------------------------------------------------------------------
HttpNext ==
    \/ \E p \in Plain : \/ HttpRun(p) \/ RunAdd(p) \/ RunConflict(p) \/ RunOK(p)
                        \/ CloseFunc(p) \/ CloseOver(p)
    \/ \E p \in Grouped : \/ \E n \in HName, t \in Route : HttpLookUp(p, n, t)
                          \/ RegisterFirst(p) \/ RegisterNext(p) \/ RegisterFails(p)
                          \/ UnRegister(p)
    \/ \E p \in HttpProxy : HttpClose(p)

HttpSpec == HttpInit /\ [][HttpNext]_httpVars

-----------------------------------------------------------------------------
HttpTypeOK ==
    /\ router \in [Route -> HttpProxy \cup HGroup \cup {NoRoute}]
    /\ listed \in [HName -> HGroup \cup {NoRoute}]
    /\ created \subseteq HGroup
    /\ routeOf \in [HGroup -> Route \cup {NoRoute}]
    /\ members \in [HGroup -> SUBSET Grouped]
    /\ stage \in [HttpProxy -> HttpStage]
    /\ wants \in [HttpProxy -> SUBSET Route]
    /\ closeFuncs \in [HttpProxy -> SUBSET Route]
    /\ holds \in [HttpProxy -> HGroup \cup {NoRoute}]
    /\ under \in [HttpProxy -> HName \cup {NoRoute}]

(* A proxy without a group owns exactly the routes it has added and not    *)
(* deleted; one that is up owns all of its configuration, one that was     *)
(* refused none.  No group and no failing Run takes a route from it,       *)
(* although Del does not look whose route it deletes.                      *)
PlainRoutesExact ==
    /\ \A p \in Plain : {t \in Route : router[t] = p} = closeFuncs[p]
    /\ \A p \in Plain : stage[p] = "up" => closeFuncs[p] = wants[p]

(* Requests for the route of a proxy that is up in a group reach its       *)
(* group, the detached one of a late joiner included: no leave and no      *)
(* failure of another proxy takes the route away.                          *)
MembersReachable ==
    \A p \in Grouped : stage[p] = "up" =>
        /\ p \in members[holds[p]]
        /\ \E t \in wants[p] : router[t] = holds[p]

(* The group the map has under a name routes to living members only, and   *)
(* to its own route only.                                                  *)
ListedIsLive ==
    \A n \in HName : LET g == listed[n] IN g # NoRoute =>
        /\ \A p \in members[g] : stage[p] \in {"up", "closing"}
        /\ \A t \in Route : router[t] = g <=> (members[g] # {} /\ routeOf[g] = t)

=============================================================================
