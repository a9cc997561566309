-------------------------- MODULE ProxyHandshake --------------------------
(***************************************************************************)
(* frpc and frps agree on whether one proxy runs: the Wrapper and Manager  *)
(* of client/proxy on one side, the message loop of server/control.go on   *)
(* the other, and the two directions of one control connection.            *)
(*                                                                         *)
(* An answer (NewProxyResp) names the proxy and nothing else.  The client  *)
(* may by then have closed the proxy, because its health check failed or   *)
(* the configuration was reloaded, and asked for it again; or it may have  *)
(* asked twice, because the answer took longer than waitResponseTimeout.   *)
(***************************************************************************)
EXTENDS Naturals, Sequences

CONSTANTS Cap,         \* room in each direction (sendCh, socket buffers)
          MaxReloads,  \* bound: how often the configuration is changed
          None

ASSUME HandshakeAssumption ==
    Cap \in Nat \ {0} /\ MaxReloads \in Nat /\ None \notin Nat

VARIABLES
    phase,    \* Wrapper.Phase; "absent" when no wrapper has the name
    version,  \* which configuration the wrapper was made from
    healthy,  \* Wrapper.health = 0
    toServer, \* NewProxy and CloseProxy messages under way
    toClient, \* NewProxyResp messages under way
    server,   \* the configuration the server runs under this name, or None
    faults    \* history: what has gone wrong so far

vars == <<phase, version, healthy, toServer, toClient, server, faults>>

Version  == 0 .. MaxReloads
Phase    == {"absent", "new", "wait start", "start error", "running", "check failed"}
Fault    == {"refused", "resent", "local"}
NewProxy == [kind : {"new"}, version : Version]
Close    == [kind |-> "close", version |-> 0]
Reply    == {"ok", "error"}

Init ==
    /\ phase = "new" /\ version = 0
    /\ healthy \in BOOLEAN   \* without a health check it is TRUE from the start
    /\ toServer = <<>> /\ toClient = <<>>
    /\ server = None
    /\ faults = {}

(* msgTransporter.Send blocks while the channel is full. *)
Send(m) == Len(toServer) < Cap /\ toServer' = Append(toServer, m)

-----------------------------------------------------------------------------
(* The client                                                              *)

(* The Wrapper of a changed configuration starts afresh (UpdateAll: Stop   *)
(* sends CloseProxy, whatever the phase), or the proxy is dropped from it. *)
Reload ==
    /\ version < MaxReloads
    /\ version' = version + 1
    /\ \/ phase = "absent" /\ phase' = "new" /\ UNCHANGED toServer
       \/ phase # "absent" /\ phase' \in {"new", "absent"} /\ Send(Close)
    /\ UNCHANGED <<healthy, toClient, server, faults>>

(* checkWorker, health normal.  Resending means that waitResponseTimeout   *)
(* went by without an answer.                                              *)
CheckStart ==
    /\ healthy
    /\ phase \in {"new", "check failed", "wait start", "start error"}
    /\ faults' = faults \cup IF phase = "wait start" THEN {"resent"} ELSE {}
    /\ phase' = "wait start"
    /\ Send([kind |-> "new", version |-> version])
    /\ UNCHANGED <<version, healthy, toClient, server>>

(* Fault: a failed health check changes the phase and tells nobody. *)
CheckFailSilent ==
    /\ ~healthy
    /\ phase \in {"running", "wait start"}
    /\ phase' = "check failed"
    /\ UNCHANGED <<version, healthy, toServer, toClient, server, faults>>

(* checkWorker, health failed. *)
CheckFail ==
    /\ ~healthy
    /\ phase \in {"running", "wait start"}
    /\ Send(Close)
    /\ phase' = "check failed"
    /\ UNCHANGED <<version, healthy, toClient, server, faults>>

(* statusNormalCallback, statusFailedCallback *)
HealthChanges ==
    /\ healthy' = ~healthy
    /\ UNCHANGED <<phase, version, toServer, toClient, server, faults>>

(* Fault: any answer is believed while the wrapper exists. *)
IgnoredAbsent == phase = "absent"

(* SetRunningStatus takes an answer in one phase only. *)
Ignored == phase # "wait start"

(* StartProxy: the answer goes to the wrapper found by name. *)

HandleReply ==
    /\ toClient # <<>>
    /\ toClient' = Tail(toClient)
    /\ \/ Ignored /\ UNCHANGED phase
       \/ ~Ignored /\ Head(toClient) = "error" /\ phase' = "start error"
       \/ ~Ignored /\ Head(toClient) = "ok" /\ phase' = "running"
    /\ UNCHANGED <<version, healthy, toServer, server, faults>>

(* pxy.Run fails on the client: the proxy is closed on the server again. *)
RunFails ==
    /\ toClient # <<>> /\ Head(toClient) = "ok" /\ ~Ignored
    /\ toClient' = Tail(toClient)
    /\ Send(Close)
    /\ phase' = "start error"
    /\ faults' = faults \cup {"local"}
    /\ UNCHANGED <<version, healthy, server>>

-----------------------------------------------------------------------------
(* The server                                                              *)

Next1 == Head(toServer)

(* Fault: the server does not wait for room in its channel. *)
AnswerAlways(r) == toClient' = Append(toClient, r)

(* msgDispatcher.Send *)
Answer(r) == Len(toClient) < Cap /\ toClient' = Append(toClient, r)

(* handleNewProxy, RegisterProxy returns no error. *)
Register ==
    /\ toServer # <<>> /\ Next1 \in NewProxy
    /\ server = None
    /\ server' = Next1.version
    /\ toServer' = Tail(toServer)
    /\ Answer("ok")
    /\ UNCHANGED <<phase, version, healthy, faults>>

(* "proxy already exists": it is this client's own. *)
AlreadyExists ==
    /\ toServer # <<>> /\ Next1 \in NewProxy
    /\ server # None
    /\ toServer' = Tail(toServer)
    /\ Answer("error")
    /\ UNCHANGED <<phase, version, healthy, server, faults>>

(* Another client has the name or the port, a plugin refuses, a limit. *)
RefuseProxy ==
    /\ toServer # <<>> /\ Next1 \in NewProxy
    /\ server = None
    /\ toServer' = Tail(toServer)
    /\ Answer("error")
    /\ faults' = faults \cup {"refused"}
    /\ UNCHANGED <<phase, version, healthy, server>>

(* Fault: the proxy is closed, but its name stays taken. *)
CloseProxyKeeps ==
    /\ toServer # <<>> /\ Next1 = Close
    /\ toServer' = Tail(toServer)
    /\ UNCHANGED <<phase, version, healthy, toClient, server, faults>>

(* handleCloseProxy; no answer. *)
CloseProxy ==
    /\ toServer # <<>> /\ Next1 = Close
    /\ server' = None
    /\ toServer' = Tail(toServer)
    /\ UNCHANGED <<phase, version, healthy, toClient, faults>>

-----------------------------------------------------------------------------

Handle == Register \/ AlreadyExists \/ RefuseProxy \/ CloseProxy

Next == Reload \/ CheckStart \/ CheckFail \/ HealthChanges \/ HandleReply \/ RunFails \/ Handle

(* The loops of both sides run on; checkWorker looks every three seconds. *)
Fairness ==
    /\ WF_vars(CheckStart) /\ WF_vars(CheckFail)
    /\ WF_vars(HandleReply \/ RunFails) /\ WF_vars(Handle)

Spec == Init /\ [][Next]_vars

FairSpec == Spec /\ Fairness

-----------------------------------------------------------------------------
(* Correctness                                                             *)

TypeOK ==
    /\ phase \in Phase /\ version \in Version /\ healthy \in BOOLEAN
    /\ toServer \in Seq(NewProxy \cup {Close}) /\ Len(toServer) <= Cap
    /\ toClient \in Seq(Reply) /\ Len(toClient) <= Cap
    /\ server \in Version \cup {None}
    /\ faults \subseteq Fault

(* Once the server has read everything, a proxy that the client has closed *)
(* or dropped does not run there: no NewProxy overtakes or outlives the    *)
(* CloseProxy that ends it.                                                *)
ClosedIsGone ==
    toServer = <<>> /\ phase \in {"absent", "new", "check failed"} => server = None

(* When nothing is under way, a proxy the client shows as running is       *)
(* registered, with the configuration the client has.                      *)
Settled == toServer = <<>> /\ toClient = <<>>

RunningIsRegistered == Settled /\ phase = "running" => server = version

(* As long as the server refuses nothing, answers matched to the wrong     *)
(* request do no harm to that.                                             *)
RunningUnlessRefused == "refused" \notin faults => RunningIsRegistered

(* A proxy that is healthy from some time on is started again and again    *)
(* until it runs, if nothing else goes wrong: no answer was late, none     *)
(* was a refusal, no local error.                                          *)
Recovers ==
    <>[](healthy /\ phase # "absent" /\ faults = {}) => <>[](phase = "running")
=============================================================================
