----------------------------- MODULE FrpcProofs -----------------------------
(***************************************************************************)
(* Proofs about what keeps frpc going: ClientService, which follows one    *)
(* control with the next, FrpcDaemon, which follows one frpc with the      *)
(* next, and the visitor managers of the controls; and about the client    *)
(* machine as MCFrpc puts it together.                                     *)
(***************************************************************************)
EXTENDS MCFrpc, ClientControlProofs, FiniteSetTheorems

-----------------------------------------------------------------------------
(* The daemon                                                              *)

(* Between the kill and the next start nothing of this daemon runs, and a  *)
(* process that does not run has loaded nothing.                           *)
NothingRuns ==
    /\ step \in {"boot", "bootStart", "replace", "start"} => running \cap own = {}
    /\ \A f \in Frpc \ running : loaded[f] = NoFrpc

DaemonInv == DaemonTypeOK /\ NothingRuns /\ OneChild /\ RunsTheFile

LEMMA DaemonInit_Inv == DaemonInit => DaemonInv
  BY DaemonAssumption DEF DaemonInit, DaemonInv, DaemonTypeOK, NothingRuns, OneChild, RunsTheFile

LEMMA DaemonNext_Inv == DaemonInv /\ [DaemonNext]_daemonVars => DaemonInv'
<1> SUFFICES ASSUME DaemonInv, [DaemonNext]_daemonVars
             PROVE  DaemonInv'
  OBVIOUS
<1> USE DaemonAssumption DEF DaemonInv, DaemonTypeOK, NothingRuns, OneChild, RunsTheFile
<1>1. CASE Boot
  BY <1>1 DEF Boot, Fetched
<1>2. CASE BootFails
  BY <1>2 DEF BootFails
<1>3. CASE StartFrpc
  BY <1>3 DEF StartFrpc
<1>4. CASE StartFrpcFails
  BY <1>4 DEF StartFrpcFails
<1>5. CASE Tick
  BY <1>5 DEF Tick, Fetched
<1>6. CASE StopFrpc
  BY <1>6 DEF StopFrpc, Ends
<1>7. CASE Replace
  BY <1>7 DEF Replace
<1>8. CASE ReplaceFails
  BY <1>8 DEF ReplaceFails
<1>9. CASE Edit
  BY <1>9 DEF Edit
<1>10. ASSUME NEW f \in Frpc, FrpcLoads(f)
       PROVE  DaemonInv'
  BY <1>10 DEF FrpcLoads
<1>11. ASSUME NEW f \in Frpc, FrpcExits(f)
       PROVE  DaemonInv'
  BY <1>11 DEF FrpcExits, Ends
<1>12. CASE Killed
  BY <1>12 DEF Killed
<1>13. CASE Restarted
  BY <1>13 DEF Restarted
<1>14. CASE UNCHANGED daemonVars
  BY <1>14 DEF daemonVars
<1>15. QED
  BY <1>1, <1>2, <1>3, <1>4, <1>5, <1>6, <1>7, <1>8, <1>9, <1>10, <1>11, <1>12,
     <1>13, <1>14 DEF DaemonNext, Daemon

LEMMA DaemonInvariant == DaemonSpec => []DaemonInv
  BY DaemonInit_Inv, DaemonNext_Inv, PTL DEF DaemonSpec

(* However often frpc exits, fails to start or is replaced, the daemon     *)
(* runs one frpc at most and knows which.                                  *)
THEOREM OneChildAtATime == DaemonSpec => []OneChild
  BY DaemonInvariant, PTL DEF DaemonInv

(* That frpc has loaded what frpc.toml says now, or nothing yet: the file  *)
(* is never replaced under it.                                             *)
THEOREM FileIsWhatRuns == DaemonSpec => []RunsTheFile
  BY DaemonInvariant, PTL DEF DaemonInv

-----------------------------------------------------------------------------
(* The service                                                             *)

(* What the proofs need of the types; cfg may be any number here. *)
ServiceTypes ==
    /\ main \in {"login", "running", "stopping", "stopped", "failed"}
    /\ keeper \in {"login", "dial", "make", "install", "closing", "check", "deref", "wait",
                   "ended"}
    /\ overlap \in BOOLEAN
    /\ ctl \in Session \cup {NoSession}
    /\ session \in [Session -> {"unmade", "up", "closed", "done"}]
    /\ cfg \in Nat
    /\ runs \in [Session -> Nat \cup {NoSession}]
    /\ reload \in [Reload -> {"idle", "stored", "checked", "update", "over"}]
    /\ carries \in [Reload -> Nat]
    /\ target \in [Reload -> Session \cup {NoSession}]

Making == keeper \in {"make", "install", "closing"}

(* A control is being made, or the keeper waits for the one installed. *)
KeeperKnows ==
    /\ IF Making THEN next \in Session ELSE next = NoSession
    /\ keeper = "wait" => waitsFor \in Session /\ ctl \in {waitsFor, NoSession}

(* The session with frps is that of the control being made, else that of   *)
(* the control installed; nobody logs in beside a session.                 *)
UpIsKnown ==
    \A c \in Session : session[c] = "up" =>
        /\ c = IF Making THEN next ELSE ctl
        /\ keeper \notin {"login", "dial"}

SessionInv == ServiceTypes /\ KeeperKnows /\ UpIsKnown

LEMMA ServiceInit_Session == ServiceInit => SessionInv
<1> SUFFICES ASSUME ServiceInit
             PROVE  SessionInv
  OBVIOUS
<1> USE DEF ServiceInit
<1>1. runs \in [Session -> Nat \cup {NoSession}]
  OBVIOUS
<1>2. carries \in [Reload -> Nat] /\ target \in [Reload -> Session \cup {NoSession}]
  OBVIOUS
<1>3. ServiceTypes
  BY <1>1, <1>2 DEF ServiceTypes
<1>4. KeeperKnows /\ UpIsKnown
  BY DEF KeeperKnows, UpIsKnown, Making
<1>5. QED
  BY <1>3, <1>4 DEF SessionInv

LEMMA ServiceNext_Session == SessionInv /\ [ServiceNext]_svcVars => SessionInv'
<1> SUFFICES ASSUME SessionInv, [ServiceNext]_svcVars
             PROVE  SessionInv'
  OBVIOUS
<1> USE ServiceAssumption DEF SessionInv, ServiceTypes, KeeperKnows, UpIsKnown, Making
<1>1. CASE LoginLoop
  BY <1>1 DEF LoginLoop
<1>2. CASE LoginCancelled
  BY <1>2 DEF LoginCancelled
<1>3. CASE Login
  <2>1. PICK c \in Session : next' = c /\ session' = [session EXCEPT ![c] = "up"]
    BY <1>3 DEF Login, Unmade
  <2>2. QED
    BY <1>3, <2>1 DEF Login
<1>4. CASE LoginFails \/ MakeFails
  BY <1>4 DEF LoginFails, MakeFails
<1>5. CASE MakeControl
  BY <1>5 DEF MakeControl, UpdateAll
<1>6. CASE InstallLock \/ Install
  BY <1>6 DEF InstallLock, Install, CloseControl
<1>7. CASE CheckControl \/ Deref \/ ControlDone
  BY <1>7 DEF CheckControl, Deref, ControlDone
<1>8. CASE CloseService
  BY <1>8 DEF CloseService
<1>9. CASE StopLock \/ StopService
  BY <1>9 DEF StopLock, StopService, CloseControl
<1>10. ASSUME NEW r \in Reload, Reloads(r)
       PROVE  SessionInv'
  <2>1. CASE ReloadStore(r)
    BY <2>1 DEF ReloadStore
  <2>2. CASE ReloadCheck(r)
    BY <2>2 DEF ReloadCheck
  <2>3. CASE ReloadDeref(r)
    BY <2>3 DEF ReloadDeref
  <2>4. CASE ReloadUpdate(r)
    BY <2>4 DEF ReloadUpdate, UpdateAll
  <2>5. QED
    BY <1>10, <2>1, <2>2, <2>3, <2>4 DEF Reloads
<1>11. ASSUME NEW c \in Session, SessionLost(c) \/ WorkerEnds(c) \/ Block(c)
       PROVE  SessionInv'
  BY <1>11 DEF SessionLost, WorkerEnds, Block
<1>12. CASE UNCHANGED svcVars
  BY <1>12 DEF svcVars
<1>13. QED
  BY <1>1, <1>2, <1>3, <1>4, <1>5, <1>6, <1>7, <1>8, <1>9, <1>10, <1>11, <1>12
  DEF ServiceNext, Keeper

LEMMA SessionInvariant == ServiceSpec => []SessionInv
  BY ServiceInit_Session, ServiceNext_Session, PTL DEF ServiceSpec

(* Reconnecting, reloading and stopping in any order leave one session at  *)
(* most, that of the control installed or about to be.                     *)
THEOREM OneSessionAtATime == ServiceSpec => []OneSession
<1>1. SessionInv => OneSession
  BY ServiceAssumption DEF SessionInv, ServiceTypes, UpIsKnown, OneSession
<1>2. QED
  BY <1>1, SessionInvariant, PTL

Underway(r) == reload[r] \in {"stored", "checked", "update"}

(* As long as nothing has overlapped: one reload is under way at a time    *)
(* and carries the configuration of the service, none while a control that *)
(* is ready waits to be installed, and that control as well as, between    *)
(* reloads, the installed one runs that configuration.                     *)
InStep ==
    overlap \/
    /\ \A r, q \in Reload : Underway(r) /\ Underway(q) => r = q
    /\ \A r \in Reload : Underway(r) => carries[r] = cfg /\ keeper \notin {"install", "closing"}
    /\ \A r \in Reload : reload[r] = "update" =>
            target[r] \in Session /\ (ctl # NoSession => target[r] = ctl)
    /\ keeper \in {"install", "closing"} => runs[next] = cfg
    /\ ctl # NoSession /\ (\A r \in Reload : ~Underway(r)) => runs[ctl] = cfg

LEMMA ReloadingIsUnderway ==
    ServiceTypes => (Reloading <=> \E r \in Reload : Underway(r))
  BY DEF ServiceTypes, Reloading, Underway

LEMMA ServiceInit_InStep == ServiceInit => InStep
  BY DEF ServiceInit, InStep, Underway

LEMMA ServiceNext_InStep == SessionInv /\ InStep /\ [ServiceNext]_svcVars => InStep'
<1> SUFFICES ASSUME SessionInv, InStep, [ServiceNext]_svcVars
             PROVE  InStep'
  OBVIOUS
<1> USE ServiceAssumption DEF SessionInv, ServiceTypes, KeeperKnows, Making, InStep, Underway
<1>1. CASE LoginLoop \/ LoginCancelled \/ LoginFails \/ MakeFails
  BY <1>1 DEF LoginLoop, LoginCancelled, LoginFails, MakeFails
<1>2. CASE Login
  BY <1>2 DEF Login
<1>3. CASE MakeControl
  BY <1>3, ReloadingIsUnderway DEF MakeControl, UpdateAll
<1>4. CASE InstallLock \/ Install
  BY <1>4 DEF InstallLock, Install, CloseControl
<1>5. CASE CheckControl \/ Deref \/ ControlDone
  BY <1>5 DEF CheckControl, Deref, ControlDone
<1>6. CASE CloseService \/ StopLock \/ StopService
  BY <1>6 DEF CloseService, StopLock, StopService, CloseControl
<1>7. ASSUME NEW r \in Reload, Reloads(r)
      PROVE  InStep'
  <2>1. CASE ReloadStore(r)
    BY <2>1, ReloadingIsUnderway DEF ReloadStore
  <2>2. CASE ReloadCheck(r)
    BY <2>2 DEF ReloadCheck
  <2>3. CASE ReloadDeref(r)
    BY <2>3 DEF ReloadDeref
  <2>4. CASE ReloadUpdate(r)
    BY <2>4 DEF ReloadUpdate, UpdateAll
  <2>5. QED
    BY <1>7, <2>1, <2>2, <2>3, <2>4 DEF Reloads
<1>8. ASSUME NEW c \in Session, SessionLost(c) \/ WorkerEnds(c) \/ Block(c)
      PROVE  InStep'
  BY <1>8 DEF SessionLost, WorkerEnds, Block
<1>9. CASE UNCHANGED svcVars
  BY <1>9 DEF svcVars
<1>10. QED
  BY <1>1, <1>2, <1>3, <1>4, <1>5, <1>6, <1>7, <1>8, <1>9 DEF ServiceNext, Keeper

LEMMA InStepInvariant == ServiceSpec => []InStep
  BY ServiceInit_InStep, ServiceNext_InStep, SessionInvariant, PTL DEF ServiceSpec

(* A reload that overlaps neither with another one nor with the making of  *)
(* a control reaches the control of today and those of later logins.       *)
THEOREM ReloadsReachControls == ServiceSpec => []ReloadsKept
<1>1. SessionInv /\ InStep => ReloadsKept
  BY ReloadingIsUnderway DEF SessionInv, InStep, ReloadsKept, Settled
<1>2. QED
  BY <1>1, SessionInvariant, InStepInvariant, PTL

(* Who is about to read svr.ctl has seen that it was set, and only the     *)
(* stop of the service takes it away again; the keeper ends with the       *)
(* service, and the service stops when it is cancelled.                    *)
SeenIsSet ==
    /\ keeper = "deref" \/ (\E r \in Reload : reload[r] = "checked")
            => ctl # NoSession \/ main = "stopped"
    /\ keeper = "ended" \/ main \in {"stopping", "stopped"} => cancelled
    /\ crash => main = "stopped"

(* A nil dereference, of the keeper or of a reload, is possible only once  *)
(* the service has been stopped: no loss of the session and no login that  *)
(* fails brings it about.                                                  *)
CrashesAtStop == crash => cancelled /\ main = "stopped"

(* Nobody but the keeper would log in again: while the service is not      *)
(* cancelled the keeper has not ended, and if it waits then for the very   *)
(* control that is installed.                                              *)
KeeperWatches ==
    ~cancelled =>
        /\ keeper # "ended" /\ ~crash
        /\ keeper = "wait" => ctl # NoSession /\ waitsFor = ctl

(* A keeper that waits has found a control, which only a stop takes away.  *)
WaitsForOne == keeper = "wait" => ctl # NoSession \/ main = "stopped"

LEMMA ServiceNext_Watch ==
    SessionInv /\ SeenIsSet /\ WaitsForOne /\ [ServiceNext]_svcVars => (SeenIsSet /\ WaitsForOne)'
<1> SUFFICES ASSUME SessionInv, SeenIsSet, WaitsForOne, [ServiceNext]_svcVars
             PROVE  (SeenIsSet /\ WaitsForOne)'
  OBVIOUS
<1> USE ServiceAssumption DEF SessionInv, ServiceTypes, KeeperKnows, Making, SeenIsSet, WaitsForOne
<1>1. CASE LoginFails
  <2>1. main \in {"stopping", "stopped"} => UNCHANGED cancelled
    BY <1>1 DEF LoginFails
  <2>2. keeper' = "login" /\ UNCHANGED <<main, ctl, reload, crash>>
    BY <1>1 DEF LoginFails
  <2>3. QED
    BY <2>1, <2>2
<1>2. CASE LoginLoop \/ LoginCancelled \/ Login \/ MakeFails
  <2>1. CASE Login \/ MakeFails
    <3>1. (keeper' = "make" \/ keeper' = "login") /\ UNCHANGED <<main, cancelled, ctl, reload, crash>>
      BY <2>1 DEF Login, MakeFails
    <3>2. QED
      BY <3>1
  <2>2. QED
    BY <1>2, <2>1 DEF LoginLoop, LoginCancelled
<1>3. CASE MakeControl
  BY <1>3 DEF MakeControl
<1>4. CASE InstallLock \/ Install
  <2>1. CASE InstallLock
    BY <2>1 DEF InstallLock
  <2>2. CASE Install
    <3>1. ctl' \in Session /\ keeper' \in {"deref", "check"} /\ UNCHANGED <<cancelled, crash>>
      BY <2>2 DEF Install
    <3>2. ctl' # NoSession /\ (\A m \in {"stopping", "stopped"} : main' = m <=> main = m)
      BY <2>2, <3>1 DEF Install
    <3>3. QED
      BY <3>1, <3>2
  <2>3. QED
    BY <1>4, <2>1, <2>2
<1>5. CASE CheckControl \/ Deref \/ ControlDone
  <2>1. CASE CheckControl
    BY <2>1 DEF CheckControl
  <2>2. CASE Deref
    BY <2>2 DEF Deref
  <2>3. CASE ControlDone
    BY <2>3 DEF ControlDone
  <2>4. QED
    BY <1>5, <2>1, <2>2, <2>3
<1>6. CASE CloseService \/ StopLock \/ StopService
  <2>1. CASE CloseService
    BY <2>1 DEF CloseService
  <2>2. CASE StopLock
    BY <2>2 DEF StopLock
  <2>3. CASE StopService
    <3>1. main' = "stopped" /\ UNCHANGED <<keeper, cancelled, reload, crash>> /\ ~crash
      BY <2>3 DEF StopService
    <3>2. cancelled
      BY <2>3 DEF StopService
    <3>3. QED
      BY <3>1, <3>2
  <2>4. QED
    BY <1>6, <2>1, <2>2, <2>3
<1>7. ASSUME NEW r \in Reload, Reloads(r)
      PROVE  (SeenIsSet /\ WaitsForOne)'
  BY <1>7 DEF Reloads, ReloadStore, ReloadCheck, ReloadDeref, ReloadUpdate
<1>8. ASSUME NEW c \in Session, SessionLost(c) \/ WorkerEnds(c) \/ Block(c)
      PROVE  (SeenIsSet /\ WaitsForOne)'
  <2>1. UNCHANGED <<main, keeper, cancelled, ctl, reload, crash>>
    BY <1>8 DEF SessionLost, WorkerEnds, Block
  <2>2. QED
    BY <2>1
<1>9. CASE UNCHANGED svcVars
  BY <1>9 DEF svcVars
<1>10. QED
  BY <1>1, <1>2, <1>3, <1>4, <1>5, <1>6, <1>7, <1>8, <1>9 DEF ServiceNext, Keeper

(* What Reconnects rests on: as long as nobody cancels the service, the    *)
(* keeper runs, and waits for the control that is installed or for none;   *)
(* and frpc does not crash on the way.                                     *)
THEOREM KeeperKeepsWatch == ServiceSpec => [](CrashesAtStop /\ KeeperWatches)
<1>1. ServiceInit => SeenIsSet /\ WaitsForOne
  BY DEF ServiceInit, SeenIsSet, WaitsForOne
<1>2. SessionInv /\ SeenIsSet /\ WaitsForOne => CrashesAtStop /\ KeeperWatches
  BY DEF SessionInv, KeeperKnows, SeenIsSet, WaitsForOne, CrashesAtStop, KeeperWatches
<1>3. QED
  BY <1>1, <1>2, ServiceNext_Watch, SessionInvariant, PTL DEF ServiceSpec

(* svr.proxyCfgs is replaced once by each reload that has begun. *)
Begun == {r \in Reload : reload[r] # "idle"}

CfgCounts == cfg = Cardinality(Begun)

ServiceInv == SessionInv /\ ServiceTypeOK /\ CfgCounts

LEMMA ServiceInit_Inv == ServiceInit => ServiceInv
<1> SUFFICES ASSUME ServiceInit
             PROVE  ServiceInv
  OBVIOUS
<1> USE DEF ServiceInit
<1>1. Cardinality(Reload) \in Nat
  BY ServiceAssumption, FS_CardinalityType
<1>2. 0 \in Version
  BY <1>1 DEF Version
<1>3. Begun = {} /\ CfgCounts
  BY FS_EmptySet DEF Begun, CfgCounts
<1>4. runs \in [Session -> Version \cup {NoSession}]
  OBVIOUS
<1>5. carries \in [Reload -> Version] /\ target \in [Reload -> Session \cup {NoSession}]
  BY <1>2
<1>6. ServiceTypeOK
  BY <1>2, <1>4, <1>5 DEF ServiceTypeOK
<1>7. QED
  BY <1>3, <1>6, ServiceInit_Session DEF ServiceInv

(* A reload that has begun never is idle again, and another one begins     *)
(* only with ReloadStore, which counts it.                                 *)
LEMMA CfgStep == ServiceInv /\ [ServiceNext]_svcVars => CfgCounts' /\ cfg' \in Version
<1> SUFFICES ASSUME ServiceInv, [ServiceNext]_svcVars
             PROVE  CfgCounts' /\ cfg' \in Version
  OBVIOUS
<1>1. /\ cfg \in Version /\ cfg = Cardinality(Begun)
      /\ reload \in [Reload -> {"idle", "stored", "checked", "update", "over"}]
  BY DEF ServiceInv, ServiceTypeOK, CfgCounts
<1>2. ASSUME cfg' = cfg, Begun' = Begun
      PROVE  CfgCounts' /\ cfg' \in Version
  BY <1>1, <1>2 DEF CfgCounts
<1>3. CASE UNCHANGED <<cfg, reload>>
  BY <1>2, <1>3 DEF Begun
<1>4. ASSUME NEW r \in Reload, Reloads(r)
      PROVE  CfgCounts' /\ cfg' \in Version
  <2>1. CASE ReloadStore(r)
    <3>1. cfg' = cfg + 1 /\ r \notin Begun /\ Begun' = Begun \cup {r}
      BY <1>1, <2>1 DEF ReloadStore, Begun
    <3>2. Begun' \subseteq Reload /\ Begun \subseteq Reload
      BY DEF Begun
    <3>3. IsFiniteSet(Begun) /\ Cardinality(Begun') <= Cardinality(Reload)
      BY <3>2, ServiceAssumption, FS_Subset
    <3>4. Cardinality(Begun') = Cardinality(Begun) + 1
      BY <3>1, <3>3, FS_AddElement
    <3>5. Cardinality(Reload) \in Nat /\ Cardinality(Begun) \in Nat
      BY <3>3, ServiceAssumption, FS_CardinalityType
    <3>6. QED
      BY <1>1, <3>1, <3>3, <3>4, <3>5 DEF CfgCounts, Version
  <2>2. CASE ReloadCheck(r) \/ ReloadDeref(r) \/ ReloadUpdate(r)
    <3>1. cfg' = cfg
      BY <2>2 DEF ReloadCheck, ReloadDeref, ReloadUpdate
    <3>2. reload[r] # "idle" /\ reload' \in {reload, [reload EXCEPT ![r] = reload'[r]]}
      BY <1>1, <2>2 DEF ReloadCheck, ReloadDeref, ReloadUpdate
    <3>3. reload'[r] # "idle"
      BY <1>1, <2>2 DEF ReloadCheck, ReloadDeref, ReloadUpdate
    <3>4. Begun' = Begun
      BY <1>1, <3>2, <3>3 DEF Begun
    <3>5. QED
      BY <1>2, <3>1, <3>4
  <2>3. QED
    BY <1>4, <2>1, <2>2 DEF Reloads
<1>5. CASE Keeper \/ LoginFails \/ MakeFails \/ CloseService \/ StopLock \/ StopService
  BY <1>3, <1>5 DEF Keeper, LoginLoop, LoginCancelled, Login, MakeControl, InstallLock, Install,
     CheckControl, Deref, ControlDone, LoginFails, MakeFails, CloseService, StopLock, StopService
<1>6. ASSUME NEW c \in Session, SessionLost(c) \/ WorkerEnds(c) \/ Block(c)
      PROVE  CfgCounts' /\ cfg' \in Version
  BY <1>3, <1>6 DEF SessionLost, WorkerEnds, Block
<1>7. CASE UNCHANGED svcVars
  BY <1>3, <1>7 DEF svcVars
<1>8. QED
  BY <1>4, <1>5, <1>6, <1>7 DEF ServiceNext

LEMMA ServiceTypeStep ==
    ServiceInv /\ [ServiceNext]_svcVars /\ SessionInv' /\ cfg' \in Version => ServiceTypeOK'
<1> SUFFICES ASSUME ServiceInv, [ServiceNext]_svcVars, ServiceTypes', cfg' \in Version
             PROVE  ServiceTypeOK'
  BY DEF SessionInv
<1> USE DEF ServiceInv, ServiceTypeOK, ServiceTypes
<1>1. CASE LoginLoop \/ LoginCancelled \/ LoginFails \/ MakeFails
  BY <1>1 DEF LoginLoop, LoginCancelled, LoginFails, MakeFails
<1>2. CASE Login
  BY <1>2 DEF Login, Unmade
<1>3. CASE MakeControl
  BY <1>3 DEF MakeControl, UpdateAll
<1>4. CASE InstallLock \/ Install
  BY <1>4 DEF InstallLock, Install, CloseControl
<1>5. CASE CheckControl \/ Deref \/ ControlDone
  BY <1>5 DEF CheckControl, Deref, ControlDone
<1>6. CASE CloseService \/ StopLock \/ StopService
  BY <1>6 DEF CloseService, StopLock, StopService, CloseControl
<1>7. ASSUME NEW r \in Reload, Reloads(r)
      PROVE  ServiceTypeOK'
  <2>1. CASE ReloadStore(r)
    BY <2>1 DEF ReloadStore
  <2>2. CASE ReloadCheck(r)
    BY <2>2 DEF ReloadCheck
  <2>3. CASE ReloadDeref(r)
    BY <2>3 DEF ReloadDeref
  <2>4. CASE ReloadUpdate(r)
    BY <2>4 DEF ReloadUpdate, UpdateAll
  <2>5. QED
    BY <1>7, <2>1, <2>2, <2>3, <2>4 DEF Reloads
<1>8. ASSUME NEW c \in Session, SessionLost(c) \/ WorkerEnds(c) \/ Block(c)
      PROVE  ServiceTypeOK'
  BY <1>8 DEF SessionLost, WorkerEnds, Block
<1>9. CASE UNCHANGED svcVars
  BY <1>9 DEF svcVars
<1>10. QED
  BY <1>1, <1>2, <1>3, <1>4, <1>5, <1>6, <1>7, <1>8, <1>9 DEF ServiceNext, Keeper

LEMMA ServiceInvariant == ServiceSpec => []ServiceInv
<1>1. ServiceInv /\ [ServiceNext]_svcVars => ServiceInv'
  BY ServiceNext_Session, CfgStep, ServiceTypeStep DEF ServiceInv
<1>2. QED
  BY <1>1, ServiceInit_Inv, PTL DEF ServiceSpec

-----------------------------------------------------------------------------
(* The visitors                                                            *)

(* Whatever a manager has noted as started has the configuration the       *)
(* manager was last told.                                                  *)
NotedAsTold ==
    \A c \in Manager, n \in Visitor :
        visitors[c][n] # NoConf => visitors[c][n] = vcfgs[c][n]

(* A visitor that listens has been noted.                                  *)
ListenersNoted ==
    \A c \in Manager, n \in Visitor : bindPort[n] = c => visitors[c][n] # NoConf

VmInv == VmTypeOK /\ NotedAsTold /\ ListenersNoted

LEMMA VmInit_Inv == VmInit => VmInv
  BY VisitorAssumption DEF VmInit, VmInv, VmTypeOK, NotedAsTold, ListenersNoted, Configs, Nothing

(* UpdateAll keeps all of it, of whichever manager it is the update.       *)
LEMMA UpdateVisitors_Inv ==
    ASSUME VmInv, NEW c \in Manager, NEW cfgs \in Configs, UpdateVisitors(c, cfgs)
    PROVE  /\ vcfgs' \in [Manager -> Configs] /\ visitors' \in [Manager -> Configs]
           /\ bindPort' \in [Visitor -> Manager \cup {NoManager, Stranger}]
           /\ ticker' \in [Manager -> {"off", "on", "gone"}]
           /\ NotedAsTold' /\ ListenersNoted'
  BY VisitorAssumption
     DEF UpdateVisitors, VmInv, VmTypeOK, NotedAsTold, ListenersNoted, Configs

LEMMA VmNext_Inv == VmInv /\ [VmNext]_vmVars => VmInv'
<1> SUFFICES ASSUME VmInv, [VmNext]_vmVars
             PROVE  VmInv'
  OBVIOUS
<1> USE VisitorAssumption DEF VmInv, VmTypeOK
<1>1. CASE InstallManager
  BY <1>1 DEF InstallManager, CloseManager, NotedAsTold, ListenersNoted
<1>2. CASE StoreVisitors \/ FindManager
  BY <1>2 DEF StoreVisitors, FindManager, NotedAsTold, ListenersNoted
<1>3. CASE ApplyVisitors
  BY <1>3, UpdateVisitors_Inv DEF ApplyVisitors
<1>4. ASSUME NEW c \in Manager, MakeManager(c)
      PROVE  VmInv'
  BY <1>4, UpdateVisitors_Inv DEF MakeManager
<1>5. ASSUME NEW c \in Manager, ControlEnds(c)
      PROVE  VmInv'
  BY <1>5 DEF ControlEnds, CloseManager, NotedAsTold, ListenersNoted
<1>6. ASSUME NEW c \in Manager, TickVisitors(c)
      PROVE  VmInv'
  BY <1>6 DEF TickVisitors, Missing, NotedAsTold, ListenersNoted, Configs
<1>7. ASSUME NEW c \in Manager, TickerStops(c)
      PROVE  VmInv'
  BY <1>7 DEF TickerStops, NotedAsTold, ListenersNoted
<1>8. ASSUME NEW n \in Visitor, StrangerLeaves(n)
      PROVE  VmInv'
  BY <1>8 DEF StrangerLeaves, NotedAsTold, ListenersNoted
<1>9. CASE UNCHANGED vmVars
  BY <1>9 DEF vmVars, NotedAsTold, ListenersNoted
<1>10. QED
  BY <1>1, <1>2, <1>3, <1>4, <1>5, <1>6, <1>7, <1>8, <1>9 DEF VmNext

(* A visitor that listens runs as its manager was last told, through late  *)
(* reloads and ticks of managers that are closed or replaced.              *)
THEOREM VisitorsListenAsTold == VmSpec => []ListensAsTold
<1>1. VmInv => ListensAsTold
  BY DEF VmInv, NotedAsTold, ListenersNoted, ListensAsTold
<1>2. QED
  BY <1>1, VmInit_Inv, VmNext_Inv, PTL DEF VmSpec

(* The managers that somebody could still call have been made.             *)
CalledAreMade ==
    \A c \in {current, making, caller} \cap Manager : life[c] # "unmade"

(* While a manager is open, what it has noted listens, and the ticker runs *)
(* if there is anything to start.                                          *)
NotedListens ==
    \A c \in Manager :
        /\ life[c] = "unmade" => visitors[c] = Nothing /\ vcfgs[c] = Nothing /\ ticker[c] = "off"
        /\ life[c] = "open" =>
            /\ \A n \in Visitor : visitors[c][n] # NoConf => bindPort[n] = c
            /\ ticker[c] # "gone" /\ (vcfgs[c] # Nothing => ticker[c] = "on")

(* A visitor of an open manager that does not listen is one the manager    *)
(* knows it has to start, and its ticker will: none is taken for started   *)
(* that is not, whoever has its port now.                                  *)
SilentAreRetried ==
    \A c \in Manager, n \in Visitor :
        life[c] = "open" /\ vcfgs[c][n] # NoConf =>
            ticker[c] = "on" /\ (bindPort[n] = c \/ n \in Missing(c))

RetryInv == VmInv /\ CalledAreMade /\ NotedListens

LEMMA UpdateVisitors_Retry ==
    ASSUME RetryInv, NEW c \in Manager, NEW cfgs \in Configs, UpdateVisitors(c, cfgs),
           life' = [life EXCEPT ![c] = life'[c]],
           IF life[c] = "unmade" THEN life'[c] = "open" ELSE life'[c] = life[c]
    PROVE  NotedListens'
<1> USE VisitorAssumption DEF RetryInv, VmInv, VmTypeOK
<1>1. life' \in [Manager -> {"unmade", "open", "closed"}] /\ life'[c] # "unmade"
  OBVIOUS
<1>2. ASSUME NEW d \in Manager \ {c}
      PROVE  /\ life'[d] = "unmade" => visitors'[d] = Nothing /\ vcfgs'[d] = Nothing /\ ticker'[d] = "off"
             /\ life'[d] = "open" =>
                /\ \A n \in Visitor : visitors'[d][n] # NoConf => bindPort'[n] = d
                /\ ticker'[d] # "gone" /\ (vcfgs'[d] # Nothing => ticker'[d] = "on")
  <2>1. life'[d] = life[d] /\ visitors'[d] = visitors[d] /\ vcfgs'[d] = vcfgs[d] /\ ticker'[d] = ticker[d]
    BY DEF UpdateVisitors
  <2>2. \A n \in Visitor : bindPort[n] = d => bindPort'[n] = d
    BY DEF UpdateVisitors
  <2>3. QED
    BY <2>1, <2>2 DEF NotedListens
<1>3. life'[c] = "open" =>
        /\ \A n \in Visitor : visitors'[c][n] # NoConf => bindPort'[n] = c
        /\ ticker'[c] # "gone" /\ (vcfgs'[c] # Nothing => ticker'[c] = "on")
  <2> SUFFICES ASSUME life'[c] = "open"
               PROVE  /\ \A n \in Visitor : visitors'[c][n] # NoConf => bindPort'[n] = c
                      /\ ticker'[c] # "gone" /\ (vcfgs'[c] # Nothing => ticker'[c] = "on")
    OBVIOUS
  <2>1. /\ \A n \in Visitor : visitors[c][n] # NoConf => bindPort[n] = c
        /\ ticker[c] # "gone" /\ (vcfgs[c] # Nothing => ticker[c] = "on")
    BY DEF NotedListens, Nothing
  <2>2. \A n \in Visitor : visitors'[c][n] # NoConf => bindPort'[n] = c
    BY <2>1 DEF UpdateVisitors, NotedAsTold, Configs
  <2>3. ticker'[c] # "gone" /\ vcfgs'[c] = cfgs /\ (cfgs # Nothing => ticker'[c] = "on")
    BY <2>1 DEF UpdateVisitors
  <2>4. QED
    BY <2>2, <2>3
<1>4. QED
  BY <1>1, <1>2, <1>3 DEF NotedListens

LEMMA VmNext_Retry == RetryInv /\ [VmNext]_vmVars => RetryInv'
<1> SUFFICES ASSUME RetryInv, [VmNext]_vmVars
             PROVE  RetryInv'
  OBVIOUS
<1>0. VmInv'
  BY VmNext_Inv DEF RetryInv
<1> USE VisitorAssumption, <1>0 DEF RetryInv, VmInv, VmTypeOK, CalledAreMade
<1>1. CASE InstallManager
  BY <1>1 DEF InstallManager, CloseManager, NotedListens
<1>2. CASE StoreVisitors \/ FindManager
  BY <1>2 DEF StoreVisitors, FindManager, NotedListens
<1>3. CASE ApplyVisitors
  <2>1. caller \in Manager /\ life[caller] # "unmade" /\ UpdateVisitors(caller, vconf) /\ life' = life
    BY <1>3 DEF ApplyVisitors
  <2>2. NotedListens'
    BY <2>1, UpdateVisitors_Retry
  <2>3. QED
    BY <1>3, <2>2 DEF ApplyVisitors
<1>4. ASSUME NEW c \in Manager, MakeManager(c)
      PROVE  RetryInv'
  <2>1. NotedListens'
    BY <1>4, UpdateVisitors_Retry DEF MakeManager
  <2>2. QED
    BY <1>4, <2>1 DEF MakeManager
<1>5. ASSUME NEW c \in Manager, ControlEnds(c)
      PROVE  RetryInv'
  BY <1>5 DEF ControlEnds, CloseManager, NotedListens
<1>6. ASSUME NEW c \in Manager, TickVisitors(c)
      PROVE  RetryInv'
  <2>1. \A d \in Manager : life[d] = "unmade" => d # c
    BY <1>6 DEF TickVisitors, NotedListens
  <2>2. QED
    BY <1>6, <2>1 DEF TickVisitors, Missing, NotedListens, Configs, Nothing
<1>7. ASSUME NEW c \in Manager, TickerStops(c)
      PROVE  RetryInv'
  BY <1>7 DEF TickerStops, NotedListens
<1>8. ASSUME NEW n \in Visitor, StrangerLeaves(n)
      PROVE  RetryInv'
  BY <1>8 DEF StrangerLeaves, NotedListens
<1>9. CASE UNCHANGED vmVars
  BY <1>9 DEF vmVars, NotedListens, Missing
<1>10. QED
  BY <1>1, <1>2, <1>3, <1>4, <1>5, <1>6, <1>7, <1>8, <1>9 DEF VmNext

(* What VisitorsRun rests on: through reloads, lost ports, and the closes  *)
(* of other managers, the ticker of an open manager will start what it is  *)
(* configured to run and does not.                                         *)
THEOREM SilentVisitorsRetried == VmSpec => []SilentAreRetried
<1>1. VmInit => RetryInv
  BY VmInit_Inv, VisitorAssumption DEF VmInit, RetryInv, CalledAreMade, NotedListens, Nothing
<1>2. RetryInv => SilentAreRetried
  BY DEF RetryInv, VmInv, VmTypeOK, NotedListens, SilentAreRetried, Missing, Nothing, Configs
<1>3. QED
  BY <1>1, <1>2, VmNext_Retry, PTL DEF VmSpec

-----------------------------------------------------------------------------
(* The client machine as a whole                                           *)

(* A step of the whole is a step of one part and leaves the others alone.  *)
LEMMA PartsStep ==
    ASSUME [PartsNext]_parts
    PROVE  /\ [Next]_vars /\ [ServiceNext]_svcVars /\ [DaemonNext]_daemonVars /\ [VmNext]_vmVars
<1>1. CASE UNCHANGED parts
  BY <1>1, Zenon DEF parts
<1>2. CASE PartsNext
  BY <1>2, Zenon DEF PartsNext
<1>3. QED
  BY <1>1, <1>2

(* The parts that MCFrpc lets run side by side are those of the modules:   *)
(* each keeps to its own specification, so that what is proved of a part   *)
(* holds of it in the whole.                                               *)
THEOREM PartsKeepTheirSpecs == PartsSpec => Spec /\ ServiceSpec /\ DaemonSpec /\ VmSpec
<1>1. PartsInit => Init /\ ServiceInit /\ DaemonInit /\ VmInit
  BY DEF PartsInit
<1>2. [PartsNext]_parts =>
        [Next]_vars /\ [ServiceNext]_svcVars /\ [DaemonNext]_daemonVars /\ [VmNext]_vmVars
  BY PartsStep
<1>3. QED
  BY <1>1, <1>2, PTL DEF PartsSpec, Spec, ServiceSpec, DaemonSpec, VmSpec

(* Every variable of every part of the client machine has its type; the    *)
(* service's configuration is the number of reloads that have begun.       *)
THEOREM FrpcTyped == PartsSpec => []FrpcTypesOK
<1>1. TypeOK /\ ServiceInv /\ DaemonInv /\ VmInv => FrpcTypesOK
  BY DEF ServiceInv, DaemonInv, VmInv, FrpcTypesOK
<1>2. VmSpec => []VmInv
  BY VmInit_Inv, VmNext_Inv, PTL DEF VmSpec
<1>3. QED
  BY <1>1, <1>2, PartsKeepTheirSpecs, ControlTyped, ServiceInvariant, DaemonInvariant, PTL
=============================================================================
