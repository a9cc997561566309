--------------------------- MODULE VisitorManager ---------------------------
(***************************************************************************)
(* frpc: the managers of client/visitor/visitor_manager.go, one for each   *)
(* control of the service, and the local ports their visitors listen on.   *)
(*                                                                         *)
(* A visitor keeps its port until it is closed.  A manager is closed when  *)
(* the connection of its control ends, and again when its successor is     *)
(* installed; but closing it does not make it refuse a reload, and its     *)
(* goroutine may tick once more.  The successor has started its visitors   *)
(* before that second Close.                                               *)
(***************************************************************************)
EXTENDS Naturals

CONSTANTS Manager,     \* visitor managers, in the controls of the service
          Visitor,     \* names of visitors; each has a port of its own
          Conf,        \* configurations a visitor may have
          MaxVReloads, \* bound: reloads of the configuration
          NoConf,      \* not configured, not started
          NoManager,   \* nobody
          Stranger     \* another process

ASSUME VisitorAssumption ==
    /\ NoConf \notin Conf
    /\ NoManager \notin Manager /\ Stranger \notin Manager \cup {NoManager}
    /\ MaxVReloads \in Nat

VARIABLES
    vconf,     \* svr.visitorCfgs
    current,   \* the manager in svr.ctl
    making,    \* the manager of a control that is not yet installed
    life,      \* a manager, by stopCh
    ticker,    \* its goroutine keepVisitorsRunning
    vcfgs,     \* vm.cfgs
    visitors,  \* vm.visitors: with which configuration; closed ones stay
    bindPort,  \* whose visitor listens on the port of a visitor
    reloading, \* how far UpdateAllConfigurer has come
    caller,    \* the manager it is about to update
    vreloads   \* number of reloads

vmVars == <<vconf, current, making, life, ticker, vcfgs, visitors, bindPort, reloading, caller,
            vreloads>>

Configs == [Visitor -> Conf \cup {NoConf}]

Nothing == [n \in Visitor |-> NoConf]

VmInit ==
    /\ vconf \in Configs
    /\ current = NoManager /\ making = NoManager /\ caller = NoManager
    /\ reloading = "idle"
    /\ life = [c \in Manager |-> "unmade"]
    /\ ticker = [c \in Manager |-> "off"]
    /\ vcfgs = [c \in Manager |-> Nothing]
    /\ visitors = [c \in Manager |-> Nothing]
    /\ bindPort \in [Visitor -> {NoManager, Stranger}]
    /\ vreloads = 0

-----------------------------------------------------------------------------
(* The manager                                                             *)

(* UpdateAll: what is gone or changed is closed, what is new or changed is *)
(* started, if its port is free.  The first visitor starts the ticker.     *)
UpdateVisitors(c, cfgs) ==
    LET del   == {n \in Visitor : vcfgs[c][n] # NoConf /\ vcfgs[c][n] # cfgs[n]}
        add   == {n \in Visitor : cfgs[n] # NoConf /\ cfgs[n] # vcfgs[c][n]}
        freed == [n \in Visitor |-> IF n \in del /\ bindPort[n] = c THEN NoManager ELSE bindPort[n]]
        up    == {n \in add : freed[n] = NoManager}
    IN  /\ vcfgs' = [vcfgs EXCEPT ![c] = cfgs]
        /\ visitors' = [visitors EXCEPT ![c] =
                [n \in Visitor |-> IF n \in up THEN cfgs[n] ELSE IF n \in del THEN NoConf ELSE @[n]]]
        /\ bindPort' = [n \in Visitor |-> IF n \in up THEN c ELSE freed[n]]
        /\ ticker' = [ticker EXCEPT ![c] = IF @ = "off" /\ cfgs # Nothing THEN "on" ELSE @]

(* Close: of whatever the map holds, each time it is called. *)
CloseManager(c) ==
    /\ life' = [life EXCEPT ![c] = "closed"]
    /\ bindPort' = [n \in Visitor |-> IF bindPort[n] = c THEN NoManager ELSE bindPort[n]]

Missing(c) == {n \in Visitor : vcfgs[c][n] # NoConf /\ visitors[c][n] = NoConf}

(* Fault: a visitor is noted before it has started. *)
TickNotesAll(c) ==
    /\ ticker[c] = "on" /\ Missing(c) # {}
    /\ visitors' = [visitors EXCEPT ![c] = vcfgs[c]]
    /\ bindPort' = [n \in Visitor |->
            IF n \in Missing(c) /\ bindPort[n] = NoManager THEN c ELSE bindPort[n]]
    /\ UNCHANGED <<vconf, current, making, life, ticker, vcfgs, reloading, caller, vreloads>>

(* keepVisitorsRunning: a tick may be chosen although stopCh is closed.    *)
TickVisitors(c) ==
    LET up == {n \in Missing(c) : bindPort[n] = NoManager}
    IN  /\ ticker[c] = "on" /\ up # {}
        /\ visitors' = [visitors EXCEPT ![c] = [n \in Visitor |-> IF n \in up THEN vcfgs[c][n] ELSE @[n]]]
        /\ bindPort' = [n \in Visitor |-> IF n \in up THEN c ELSE bindPort[n]]
        /\ UNCHANGED <<vconf, current, making, life, ticker, vcfgs, reloading, caller, vreloads>>

TickerStops(c) ==
    /\ ticker[c] = "on" /\ life[c] = "closed"
    /\ ticker' = [ticker EXCEPT ![c] = "gone"]
    /\ UNCHANGED <<vconf, current, making, life, vcfgs, visitors, bindPort, reloading, caller, vreloads>>

-----------------------------------------------------------------------------
(* The service and its controls                                            *)

(* A login, once the control before is done: the new control is run with   *)
(* the configuration of the moment, *)
MakeManager(c) ==
    /\ life[c] = "unmade" /\ making = NoManager
    /\ current # NoManager => life[current] = "closed"
    /\ making' = c
    /\ life' = [life EXCEPT ![c] = "open"]
    /\ UpdateVisitors(c, vconf)
    /\ UNCHANGED <<vconf, current, reloading, caller, vreloads>>

(* and then takes the place of its predecessor, which is closed again. *)
InstallManager ==
    /\ making # NoManager
    /\ current' = making /\ making' = NoManager
    /\ IF current = NoManager THEN UNCHANGED <<life, bindPort>> ELSE CloseManager(current)
    /\ UNCHANGED <<vconf, ticker, vcfgs, visitors, reloading, caller, vreloads>>

(* The connection of a control ends, and its worker with it. *)
ControlEnds(c) ==
    /\ life[c] = "open"
    /\ CloseManager(c)
    /\ UNCHANGED <<vconf, current, making, ticker, vcfgs, visitors, reloading, caller, vreloads>>

(* UpdateAllConfigurer stores the configuration, *)
StoreVisitors ==
    /\ reloading = "idle" /\ vreloads < MaxVReloads
    /\ vconf' \in Configs \ {vconf}
    /\ reloading' = "stored"
    /\ vreloads' = vreloads + 1
    /\ UNCHANGED <<current, making, life, ticker, vcfgs, visitors, bindPort, caller>>

(* looks for a control, *)
FindManager ==
    /\ reloading = "stored"
    /\ reloading' = IF current = NoManager THEN "idle" ELSE "found"
    /\ caller' = current
    /\ UNCHANGED <<vconf, current, making, life, ticker, vcfgs, visitors, bindPort, vreloads>>

(* and updates it, whatever has become of it. *)
ApplyVisitors ==
    /\ reloading = "found"
    /\ UpdateVisitors(caller, vconf)
    /\ reloading' = "idle" /\ caller' = NoManager
    /\ UNCHANGED <<vconf, current, making, life, vreloads>>

StrangerLeaves(n) ==
    /\ bindPort[n] = Stranger
    /\ bindPort' = [bindPort EXCEPT ![n] = NoManager]
    /\ UNCHANGED <<vconf, current, making, life, ticker, vcfgs, visitors, reloading, caller, vreloads>>

-----------------------------------------------------------------------------

VmNext ==
    \/ InstallManager \/ StoreVisitors \/ FindManager \/ ApplyVisitors
    \/ \E c \in Manager : MakeManager(c) \/ ControlEnds(c) \/ TickVisitors(c) \/ TickerStops(c)
    \/ \E n \in Visitor : StrangerLeaves(n)

VmSpec == VmInit /\ [][VmNext]_vmVars

(* Goroutines run on, and the other process does not keep a port for ever. *)
VmFairness ==
    /\ WF_vmVars(InstallManager) /\ WF_vmVars(FindManager \/ ApplyVisitors)
    /\ \A c \in Manager : WF_vmVars(TickVisitors(c)) /\ WF_vmVars(TickerStops(c))
    /\ \A n \in Visitor : WF_vmVars(StrangerLeaves(n))

VmFairSpec == VmSpec /\ VmFairness

-----------------------------------------------------------------------------
(* Correctness                                                             *)

VmTypeOK ==
    /\ vconf \in Configs
    /\ current \in Manager \cup {NoManager}
    /\ making \in Manager \cup {NoManager}
    /\ caller \in Manager \cup {NoManager}
    /\ reloading \in {"idle", "stored", "found"}
    /\ reloading = "found" => caller # NoManager
    /\ life \in [Manager -> {"unmade", "open", "closed"}]
    /\ ticker \in [Manager -> {"off", "on", "gone"}]
    /\ vcfgs \in [Manager -> Configs]
    /\ visitors \in [Manager -> Configs]
    /\ bindPort \in [Visitor -> Manager \cup {NoManager, Stranger}]
    /\ vreloads \in 0 .. MaxVReloads

(* A visitor that listens runs as its manager was last told, and can be    *)
(* closed by it: no reload leaves one behind with an old configuration.    *)
ListensAsTold ==
    \A c \in Manager, n \in Visitor : bindPort[n] = c =>
        vcfgs[c][n] # NoConf /\ visitors[c][n] = vcfgs[c][n]

(* The managers that were replaced, and the ports that nobody will close.  *)
Replaced == {c \in Manager : life[c] # "unmade" /\ c \notin {current, making}}

Escaped(n) == bindPort[n] \in Replaced

(* "If some visitor is not running, start it": while a control is up, its  *)
(* visitors all come to run, also those whose port was taken at first, by  *)
(* another process or by the manager before.  Only a port that a replaced  *)
(* manager took after its last Close is not to be had any more.            *)
VisitorsComeUp ==
    []<>(current # NoManager /\ life[current] = "open" =>
            \A n \in Visitor :
                vcfgs[current][n] = NoConf \/ bindPort[n] = current \/ Escaped(n))
=============================================================================
