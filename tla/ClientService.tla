--------------------------- MODULE ClientService ---------------------------
(***************************************************************************)
(* frpc: client/service.go, and what the worker and GracefulClose of       *)
(* client/control.go do for it.                                            *)
(*                                                                         *)
(* Three parties share svr.ctl: the keeper logs in again whenever the      *)
(* control is done and installs the new one; a reload stores the           *)
(* configuration and hands it to the control of the moment; stop closes    *)
(* the control and forgets it.  The lock around svr.ctl covers only some   *)
(* of the reads, and a control is made, and run with the configuration of  *)
(* that moment, well before it is installed.  Who installs a control or    *)
(* stops the service holds that lock while it closes the previous one,     *)
(* and that waits for the locks of its wrappers.                           *)
(***************************************************************************)
EXTENDS Naturals, FiniteSets

CONSTANTS Session,    \* the controls: one for each login that succeeds
          Reload,     \* calls of UpdateAllConfigurer
          NoSession

ASSUME ServiceAssumption == NoSession \notin Session /\ IsFiniteSet(Reload)

VARIABLES
    main,      \* Service.Run: first login, running, stopped, or failed
    keeper,    \* keepControllerWorking and the login loop
    cancelled, \* svr.ctx
    ctl,       \* svr.ctl
    next,      \* the control that is being made
    waitsFor,  \* the control whose Done the keeper waits for
    session,   \* the life of a control
    wrappers,  \* the wrappers of its manager: stopped, at work, or blocked in a send
    cfg,       \* svr.proxyCfgs and visitorCfgs: the number of the last reload
    runs,      \* the configuration a control was last told to run
    reload,    \* progress of a reload
    carries,   \* the configuration it carries
    target,    \* the control it hands it to
    overlap,   \* has a reload overlapped with a login or with another one?
    crash      \* nil dereference

svcVars == <<main, keeper, cancelled, ctl, next, waitsFor, session, wrappers, cfg, runs,
             reload, carries, target, overlap, crash>>

Version == 0..Cardinality(Reload)

ServiceInit ==
    /\ main = "login" /\ keeper = "login" /\ cancelled = FALSE
    /\ ctl = NoSession /\ next = NoSession /\ waitsFor = NoSession
    /\ session = [c \in Session |-> "unmade"]
    /\ wrappers = [c \in Session |-> "stopped"]
    /\ cfg = 0
    /\ runs = [c \in Session |-> NoSession]
    /\ reload = [r \in Reload |-> "idle"]
    /\ carries = [r \in Reload |-> 0]
    /\ target = [r \in Reload |-> NoSession]
    /\ overlap = FALSE
    /\ crash = FALSE

-----------------------------------------------------------------------------
(* A control                                                               *)

(* pm.UpdateAll and vm.UpdateAll of a control, closed or not: they start   *)
(* wrappers either way, and wait for the locks of those that are there.    *)
UpdateAll(c, v) ==
    /\ wrappers[c] # "blocked"
    /\ runs' = [runs EXCEPT ![c] = v]
    /\ wrappers' = [wrappers EXCEPT ![c] = "at work"]

Unmade == {c \in Session : session[c] = "unmade"}

(* GracefulClose: pm.Close stops the wrappers, each under its lock, and    *)
(* then the session ends.                                                  *)
CloseControl(c) ==
    IF c = NoSession THEN UNCHANGED <<session, wrappers>>
    ELSE /\ wrappers[c] # "blocked"
         /\ wrappers' = [wrappers EXCEPT ![c] = "stopped"]
         /\ session' = [session EXCEPT ![c] = IF @ = "up" THEN "closed" ELSE @]

SessionLost(c) ==
    /\ session[c] = "up" /\ ~crash
    /\ Unmade # {}   \* bound: there is a login left
    /\ session' = [session EXCEPT ![c] = "closed"]
    /\ UNCHANGED <<main, keeper, cancelled, ctl, next, waitsFor, wrappers, cfg, runs, reload,
                   carries, target, overlap, crash>>

(* Control.worker, once the dispatcher is done: pm.Close and vm.Close. *)
WorkerEnds(c) ==
    /\ session[c] = "closed" /\ wrappers[c] # "blocked" /\ ~crash
    /\ session' = [session EXCEPT ![c] = "done"]
    /\ wrappers' = [wrappers EXCEPT ![c] = "stopped"]
    /\ UNCHANGED <<main, keeper, cancelled, ctl, next, waitsFor, cfg, runs, reload, carries, target,
                   overlap, crash>>

(* Every message a wrapper sends is put into sendCh with the lock of the   *)
(* wrapper held.  The sender loop of a session that is over empties it no  *)
(* more, and a wrapper at work sends again and again, until one waits for  *)
(* ever.                                                                   *)
Block(c) ==
    /\ session[c] \in {"closed", "done"} /\ wrappers[c] = "at work" /\ ~crash
    /\ wrappers' = [wrappers EXCEPT ![c] = "blocked"]
    /\ UNCHANGED <<main, keeper, cancelled, ctl, next, waitsFor, session, cfg, runs, reload,
                   carries, target, overlap, crash>>

-----------------------------------------------------------------------------
(* Logging in                                                              *)

Reloading == \E r \in Reload : reload[r] # "idle" /\ reload[r] # "over"

(* BackoffUntil tries no further when the service is cancelled. *)
LoginLoop ==
    /\ keeper = "login" /\ ~cancelled /\ ~crash
    /\ keeper' = "dial"
    /\ UNCHANGED <<main, cancelled, ctl, next, waitsFor, session, wrappers, cfg, runs, reload,
                   carries, target, overlap, crash>>

LoginCancelled ==
    /\ keeper = "login" /\ cancelled /\ ~crash
    /\ main' = IF main = "login" THEN "failed" ELSE main
    /\ keeper' = IF main = "login" THEN "ended" ELSE "check"
    /\ UNCHANGED <<cancelled, ctl, next, waitsFor, session, wrappers, cfg, runs, reload, carries,
                   target, overlap, crash>>

(* One unused control is as good as another. *)
Login ==
    /\ keeper = "dial" /\ ~crash
    /\ Unmade # {}
    /\ next' = CHOOSE c \in Session : c \in Unmade
    /\ session' = [session EXCEPT ![next'] = "up"]
    /\ keeper' = "make"
    /\ UNCHANGED <<main, cancelled, ctl, waitsFor, wrappers, cfg, runs, reload, carries, target,
                   overlap, crash>>

(* With loginFailExit the first failure is the last. *)
LoginFails ==
    /\ keeper = "dial" /\ ~crash
    /\ keeper' = "login"
    /\ IF main = "login" THEN cancelled' \in {cancelled, TRUE} ELSE UNCHANGED cancelled
    /\ UNCHANGED <<main, ctl, next, waitsFor, session, wrappers, cfg, runs, reload, carries, target,
                   overlap, crash>>

(* Fault: the control runs what was configured at the start. *)
MakeControlOld ==
    /\ keeper = "make" /\ ~crash
    /\ UpdateAll(next, 0)
    /\ keeper' = "install"
    /\ overlap' = (overlap \/ Reloading)
    /\ UNCHANGED <<main, cancelled, ctl, next, waitsFor, session, cfg, reload, carries, target,
                   crash>>

(* The configuration is read, and Control.Run starts all of it. *)
MakeControl ==
    /\ keeper = "make" /\ ~crash
    /\ UpdateAll(next, cfg)
    /\ keeper' = "install"
    /\ overlap' = (overlap \/ Reloading)
    /\ UNCHANGED <<main, cancelled, ctl, next, waitsFor, session, cfg, reload, carries, target,
                   crash>>

(* NewControl fails: the connection is closed, and the session with it.    *)
MakeFails ==
    /\ keeper = "make" /\ ~crash
    /\ keeper' = "login" /\ next' = NoSession
    /\ session' = [session EXCEPT ![next] = "unmade"]
    /\ UNCHANGED <<main, cancelled, ctl, waitsFor, wrappers, cfg, runs, reload, carries, target,
                   overlap, crash>>

(* Installing and stopping exclude each other with svr.ctlMu. *)
InstallLock ==
    /\ keeper = "install" /\ main # "stopping" /\ ~crash
    /\ keeper' = "closing"
    /\ UNCHANGED <<main, cancelled, ctl, next, waitsFor, session, wrappers, cfg, runs, reload,
                   carries, target, overlap, crash>>

(* The previous control is closed and replaced; the login loop ends.       *)
Install ==
    /\ keeper = "closing" /\ ~crash
    /\ CloseControl(ctl)
    /\ ctl' = next /\ next' = NoSession
    /\ main' = IF main = "login" THEN "running" ELSE main
    /\ keeper' = IF main = "login" THEN "deref" ELSE "check"
    /\ UNCHANGED <<cancelled, waitsFor, cfg, runs, reload, carries, target, overlap, crash>>

(* Fault: the loop that keeps the controller working returns. *)
CheckControlOnce ==
    /\ keeper = "check" /\ ~crash
    /\ keeper' = "ended"
    /\ UNCHANGED <<main, cancelled, ctl, next, waitsFor, session, wrappers, cfg, runs, reload,
                   carries, target, overlap, crash>>

(* if svr.ctl != nil, *)
CheckControl ==
    /\ keeper = "check" /\ ~crash
    /\ keeper' = IF ctl # NoSession THEN "deref" ELSE IF cancelled THEN "ended" ELSE "login"
    /\ UNCHANGED <<main, cancelled, ctl, next, waitsFor, session, wrappers, cfg, runs, reload,
                   carries, target, overlap, crash>>

(* then <-svr.ctl.Done(), which reads it once more, without the lock. *)
Deref ==
    /\ keeper = "deref" /\ ~crash
    /\ IF ctl = NoSession THEN crash' = TRUE /\ UNCHANGED <<keeper, waitsFor>>
       ELSE keeper' = "wait" /\ waitsFor' = ctl /\ UNCHANGED crash
    /\ UNCHANGED <<main, cancelled, ctl, next, session, wrappers, cfg, runs, reload, carries,
                   target, overlap>>

(* The control is done: log in again, unless the service is cancelled.     *)
ControlDone ==
    /\ keeper = "wait" /\ session[waitsFor] = "done" /\ ~crash
    /\ keeper' = IF cancelled THEN "ended" ELSE "login"
    /\ waitsFor' = NoSession
    /\ UNCHANGED <<main, cancelled, ctl, next, session, wrappers, cfg, runs, reload, carries,
                   target, overlap, crash>>

-----------------------------------------------------------------------------
(* Stopping                                                                *)

CloseService ==
    /\ ~cancelled /\ ~crash
    /\ cancelled' = TRUE
    /\ UNCHANGED <<main, keeper, ctl, next, waitsFor, session, wrappers, cfg, runs, reload, carries,
                   target, overlap, crash>>

StopLock ==
    /\ main = "running" /\ cancelled /\ keeper # "closing" /\ ~crash
    /\ main' = "stopping"
    /\ UNCHANGED <<keeper, cancelled, ctl, next, waitsFor, session, wrappers, cfg, runs, reload,
                   carries, target, overlap, crash>>

(* Fault: the control is forgotten, not closed. *)
StopServiceForgets ==
    /\ main = "stopping" /\ ~crash
    /\ main' = "stopped" /\ ctl' = NoSession
    /\ UNCHANGED <<keeper, cancelled, next, waitsFor, session, wrappers, cfg, runs, reload, carries,
                   target, overlap, crash>>

StopService ==
    /\ main = "stopping" /\ ~crash
    /\ CloseControl(ctl)
    /\ main' = "stopped" /\ ctl' = NoSession
    /\ UNCHANGED <<keeper, cancelled, next, waitsFor, cfg, runs, reload, carries, target, overlap,
                   crash>>

-----------------------------------------------------------------------------
(* UpdateAllConfigurer                                                     *)

ReloadStore(r) ==
    /\ reload[r] = "idle" /\ ~crash
    /\ cfg' = cfg + 1
    /\ reload' = [reload EXCEPT ![r] = "stored"]
    /\ carries' = [carries EXCEPT ![r] = cfg + 1]
    /\ overlap' = (overlap \/ Reloading \/ keeper \in {"install", "closing"})
    /\ UNCHANGED <<main, keeper, cancelled, ctl, next, waitsFor, session, wrappers, runs, target,
                   crash>>

Locked == keeper = "closing" \/ main = "stopping"

(* ctl := svr.ctl, under the lock *)
ReloadCheck(r) ==
    /\ reload[r] = "stored" /\ ~Locked /\ ~crash
    /\ reload' = [reload EXCEPT ![r] = IF ctl = NoSession THEN "over" ELSE "checked"]
    /\ UNCHANGED <<main, keeper, cancelled, ctl, next, waitsFor, session, wrappers, cfg, runs,
                   carries, target, overlap, crash>>

(* svr.ctl again, without it *)
ReloadDeref(r) ==
    /\ reload[r] = "checked" /\ ~crash
    /\ IF ctl = NoSession THEN crash' = TRUE /\ UNCHANGED <<reload, target>>
       ELSE /\ reload' = [reload EXCEPT ![r] = "update"]
            /\ target' = [target EXCEPT ![r] = ctl]
            /\ UNCHANGED crash
    /\ UNCHANGED <<main, keeper, cancelled, ctl, next, waitsFor, session, wrappers, cfg, runs,
                   carries, overlap>>

ReloadUpdate(r) ==
    /\ reload[r] = "update" /\ ~crash
    /\ UpdateAll(target[r], carries[r])
    /\ reload' = [reload EXCEPT ![r] = "over"]
    /\ UNCHANGED <<main, keeper, cancelled, ctl, next, waitsFor, session, cfg, carries, target,
                   overlap, crash>>

-----------------------------------------------------------------------------
Keeper ==
    \/ LoginLoop \/ LoginCancelled \/ Login \/ MakeControl \/ InstallLock \/ Install
    \/ CheckControl \/ Deref \/ ControlDone

Reloads(r) == ReloadStore(r) \/ ReloadCheck(r) \/ ReloadDeref(r) \/ ReloadUpdate(r)

ServiceNext ==
    \/ Keeper \/ LoginFails \/ MakeFails \/ CloseService \/ StopLock \/ StopService
    \/ \E r \in Reload : Reloads(r)
    \/ \E c \in Session : SessionLost(c) \/ WorkerEnds(c) \/ Block(c)

ServiceSpec == ServiceInit /\ [][ServiceNext]_svcVars

(* The login loop tries for ever, and neither is the server away for ever  *)
(* nor does every control fail to be made.  Who waits for the lock of a    *)
(* blocked wrapper waits on: fairness does not apply to what is disabled.  *)
ServiceFairness ==
    /\ WF_svcVars(Keeper) /\ SF_svcVars(Login) /\ SF_svcVars(MakeControl)
    /\ WF_svcVars(StopLock \/ StopService)
    /\ \A r \in Reload : WF_svcVars(ReloadCheck(r) \/ ReloadDeref(r) \/ ReloadUpdate(r))
    /\ \A c \in Session : WF_svcVars(WorkerEnds(c))

ServiceFairSpec == ServiceSpec /\ ServiceFairness

-----------------------------------------------------------------------------
ServiceTypeOK ==
    /\ main \in {"login", "running", "stopping", "stopped", "failed"}
    /\ keeper \in {"login", "dial", "make", "install", "closing", "check", "deref", "wait", "ended"}
    /\ cancelled \in BOOLEAN /\ overlap \in BOOLEAN /\ crash \in BOOLEAN
    /\ ctl \in Session \cup {NoSession} /\ next \in Session \cup {NoSession}
    /\ waitsFor \in Session \cup {NoSession}
    /\ session \in [Session -> {"unmade", "up", "closed", "done"}]
    /\ wrappers \in [Session -> {"stopped", "at work", "blocked"}]
    /\ cfg \in Version
    /\ runs \in [Session -> Version \cup {NoSession}]
    /\ reload \in [Reload -> {"idle", "stored", "checked", "update", "over"}]
    /\ carries \in [Reload -> Version]
    /\ target \in [Reload -> Session \cup {NoSession}]

(* There is never more than one session with frps, and it is that of the   *)
(* control that is installed or about to be: reconnecting, reloading and   *)
(* stopping in any order leave no second session behind that would keep    *)
(* the proxies of the first out, and the stop forgets no control before it *)
(* has closed it.  That somebody closes the session in the end is not      *)
(* said: the login that is under way when the service stops installs a     *)
(* control in the stopped service, and no stop comes after it.             *)
OneSession ==
    \A c, d \in Session :
        session[c] = "up" => c \in {ctl, next} /\ (session[d] = "up" => c = d)

(* Nothing is under way that could still change what the control runs. *)
Settled == keeper = "wait" /\ ctl # NoSession /\ ~Reloading

(* "Then run command `frpc reload -c ./frpc.toml` and wait for about 10    *)
(* seconds to let `frpc` create or update or remove proxies"               *)
(* (README.md:802): once all is quiet, the control of today runs what was  *)
(* loaded, and so do those of later logins.  What may be lost is a reload  *)
(* that overlapped with another one or with the making of a control.       *)
ReloadsKept == Settled /\ ~overlap => runs[ctl] = cfg

Followed(c) == cancelled \/ crash \/ ctl \notin {NoSession, c}

(* A control that is done is followed by one with a session, as long as    *)
(* nobody closes the service, unless a reload has started its wrappers     *)
(* again and they block.                                                   *)
Reconnects ==
    \A c \in Session :
        (ctl = c /\ session[c] = "done") ~> (Followed(c) \/ wrappers[c] = "blocked")

(* "try to reconnect to server until success" (client/service.go:370):     *)
(* with no exception, a control that is done is followed by another.       *)
KeepsReconnecting ==
    \A c \in Session : (ctl = c /\ session[c] = "done") ~> Followed(c)
=============================================================================
