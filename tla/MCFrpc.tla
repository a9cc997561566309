------------------------------- MODULE MCFrpc -------------------------------
(***************************************************************************)
(* Model-checking instance of four parts of the client machine that share  *)
(* no state with each other in these models: the end of one control, the   *)
(* service that makes one control after another, the visitor managers of   *)
(* the controls, and the daemon that runs frpc.  Each behaviour is one of  *)
(* one part; the others stay as they start.                                *)
(***************************************************************************)
EXTENDS ClientControl, ClientService, FrpcDaemon, VisitorManager

VARIABLE part

parts == <<vars, svcVars, daemonVars, vmVars, part>>

Part == {"control", "service", "daemon", "visitors"}

(* What has several initial states is fixed while its part is not at work. *)
PartsInit ==
    /\ part \in Part
    /\ Init /\ ServiceInit /\ DaemonInit /\ VmInit
    /\ part # "daemon" => db = {}
    /\ part # "visitors" => vconf = Nothing /\ bindPort = [n \in Visitor |-> NoManager]

PartsNext ==
    \/ part = "control" /\ Next /\ UNCHANGED <<svcVars, daemonVars, vmVars, part>>
    \/ part = "service" /\ ServiceNext /\ UNCHANGED <<vars, daemonVars, vmVars, part>>
    \/ part = "daemon" /\ DaemonNext /\ UNCHANGED <<vars, svcVars, vmVars, part>>
    \/ part = "visitors" /\ VmNext /\ UNCHANGED <<vars, svcVars, daemonVars, part>>

(* The fairness of each part, while it is the part at work. *)
PartsFairness ==
    LET c == part = "control"
        s == part = "service"
        d == part = "daemon"
        v == part = "visitors"
    IN  /\ WF_vars(c /\ (Work \/ (Write /\ ~conn)))
        /\ WF_svcVars(s /\ Keeper) /\ SF_svcVars(s /\ Login) /\ SF_svcVars(s /\ MakeControl)
        /\ WF_svcVars(s /\ (StopLock \/ StopService))
        /\ \A r \in Reload :
            WF_svcVars(s /\ (ReloadCheck(r) \/ ReloadDeref(r) \/ ReloadUpdate(r)))
        /\ \A x \in Session : WF_svcVars(s /\ WorkerEnds(x))
        /\ WF_daemonVars(d /\ (Daemon \/ BootFails)) /\ SF_daemonVars(d /\ StartFrpc)
        /\ \A f \in Frpc : WF_daemonVars(d /\ FrpcLoads(f))
        /\ WF_vmVars(v /\ InstallManager) /\ WF_vmVars(v /\ (FindManager \/ ApplyVisitors))
        /\ \A m \in Manager : WF_vmVars(v /\ TickVisitors(m)) /\ WF_vmVars(v /\ TickerStops(m))
        /\ \A n \in Visitor : WF_vmVars(v /\ StrangerLeaves(n))

PartsSpec == PartsInit /\ [][PartsNext]_parts /\ PartsFairness

-----------------------------------------------------------------------------
(* Every variable of every part has its type. *)
FrpcTypesOK == TypeOK /\ ServiceTypeOK /\ DaemonTypeOK /\ VmTypeOK

(* While the daemon is the part at work: frpc.toml catches up with the     *)
(* table of tunnels, whatever failed on the way.                           *)
DaemonFollowsTable == part = "daemon" => FollowsTable

(* While the visitors are the part at work: they all come to run.          *)
VisitorsRun == part = "visitors" => VisitorsComeUp
=============================================================================
