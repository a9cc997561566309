------------------------------ MODULE NatHole -------------------------------
(***************************************************************************)
(* frps: the sessions of pkg/nathole/controller.go, and the goroutine of   *)
(* an xtcp proxy (server/proxy/xtcp.go) that serves them.                  *)
(*                                                                         *)
(* Every NatHoleVisitor message has a goroutine of its own.  It hands the  *)
(* id of its session to the goroutine of the proxy over a channel without  *)
(* a buffer and without a timeout, waits for the client of the proxy to    *)
(* answer, tells both ends how to punch the hole, and keeps the session    *)
(* for a while for their reports.  The proxy takes its name back by name,  *)
(* before its goroutine ends.  What is told to both ends is NatAnalyzer.   *)
(***************************************************************************)
EXTENDS Naturals

CONSTANTS Visit,      \* NatHoleVisitor messages
          Xtcp,       \* xtcp proxies; each runs once
          XName,      \* proxy names
          NoXtcp

ASSUME HoleAssumption ==
    /\ NoXtcp \notin Xtcp \cup Visit
    /\ "none" \notin Visit /\ "select" \notin Visit

VARIABLES
    clientCfgs, \* c.clientCfgs: the proxy that listens under a name
    xtcp,       \* the life of a proxy
    xname,      \* its name
    serves,     \* the visit whose sid its goroutine has taken, or its state
    visit,      \* how far HandleVisitor has come
    sidCh,      \* the proxy whose channel it has found
    sessions,   \* c.sessions
    told,       \* the visits whose sid reached the client of the proxy
    notifyCh    \* those whose notifyCh is filled

holeVars == <<clientCfgs, xtcp, xname, serves, visit, sidCh, sessions, told, notifyCh>>

HoleInit ==
    /\ clientCfgs = [n \in XName |-> NoXtcp]
    /\ xtcp = [x \in Xtcp |-> "idle"]
    /\ xname \in [Xtcp -> XName]
    /\ serves = [x \in Xtcp |-> "none"]
    /\ visit = [v \in Visit |-> "idle"]
    /\ sidCh = [v \in Visit |-> NoXtcp]
    /\ sessions = {} /\ told = {} /\ notifyCh = {}

-----------------------------------------------------------------------------
(* The proxy                                                               *)

(* ListenClient, called by Run, which starts the goroutine. *)
ListenClient(x) ==
    /\ xtcp[x] = "idle"
    /\ IF clientCfgs[xname[x]] = NoXtcp
       THEN /\ clientCfgs' = [clientCfgs EXCEPT ![xname[x]] = x]
            /\ xtcp' = [xtcp EXCEPT ![x] = "listening"]
            /\ serves' = [serves EXCEPT ![x] = "select"]
       ELSE /\ xtcp' = [xtcp EXCEPT ![x] = "refused"]
            /\ UNCHANGED <<clientCfgs, serves>>
    /\ UNCHANGED <<xname, visit, sidCh, sessions, told, notifyCh>>

(* Fault: Close may be called twice. *)
CloseClientAgain(x) ==
    /\ xtcp[x] \in {"listening", "closed"}
    /\ clientCfgs' = [clientCfgs EXCEPT ![xname[x]] = NoXtcp]
    /\ xtcp' = [xtcp EXCEPT ![x] = "closing"]
    /\ UNCHANGED <<xname, serves, visit, sidCh, sessions, told, notifyCh>>

(* Close, at most once: the entry goes by name, whoever it belongs to, *)
CloseClient(x) ==
    /\ xtcp[x] = "listening"
    /\ clientCfgs' = [clientCfgs EXCEPT ![xname[x]] = NoXtcp]
    /\ xtcp' = [xtcp EXCEPT ![x] = "closing"]
    /\ UNCHANGED <<xname, serves, visit, sidCh, sessions, told, notifyCh>>

(* then close(closeCh), which the goroutine sees in its select. *)
CloseCh(x) ==
    /\ xtcp[x] = "closing"
    /\ xtcp' = [xtcp EXCEPT ![x] = "closed"]
    /\ UNCHANGED <<clientCfgs, xname, serves, visit, sidCh, sessions, told, notifyCh>>

ServesEnd(x) ==
    /\ serves[x] = "select" /\ xtcp[x] = "closed"
    /\ serves' = [serves EXCEPT ![x] = "none"]
    /\ UNCHANGED <<clientCfgs, xtcp, xname, visit, sidCh, sessions, told, notifyCh>>

(* The one step of the sender and the receiver of a sid. *)
TakeSid(x, v) ==
    /\ serves[x] = "select"
    /\ visit[v] = "sending" /\ sidCh[v] = x
    /\ serves' = [serves EXCEPT ![x] = v]
    /\ visit' = [visit EXCEPT ![v] = "waiting"]
    /\ UNCHANGED <<clientCfgs, xtcp, xname, sidCh, sessions, told, notifyCh>>

(* Over a work connection; the client gets it, *)
PassSid(x) ==
    /\ serves[x] \in Visit
    /\ told' = told \cup {serves[x]}
    /\ serves' = [serves EXCEPT ![x] = "select"]
    /\ UNCHANGED <<clientCfgs, xtcp, xname, visit, sidCh, sessions, notifyCh>>

(* Fault: without a work connection the goroutine returns. *)
DropSidReturns(x) ==
    /\ serves[x] \in Visit
    /\ serves' = [serves EXCEPT ![x] = "none"]
    /\ UNCHANGED <<clientCfgs, xtcp, xname, visit, sidCh, sessions, told, notifyCh>>

(* or there is no work connection, or writing fails. *)
DropSid(x) ==
    /\ serves[x] \in Visit
    /\ serves' = [serves EXCEPT ![x] = "select"]
    /\ UNCHANGED <<clientCfgs, xtcp, xname, visit, sidCh, sessions, told, notifyCh>>

-----------------------------------------------------------------------------
(* The visit                                                               *)

(* A proxy that is not there, or a wrong key: an error is all there is. *)
VisitRefused(v) ==
    /\ visit[v] = "idle"
    /\ visit' = [visit EXCEPT ![v] = "over"]
    /\ UNCHANGED <<clientCfgs, xtcp, xname, serves, sidCh, sessions, told, notifyCh>>

HandleVisitor(v, n) ==
    /\ visit[v] = "idle" /\ clientCfgs[n] # NoXtcp
    /\ sidCh' = [sidCh EXCEPT ![v] = clientCfgs[n]]
    /\ sessions' = sessions \cup {v}
    /\ visit' = [visit EXCEPT ![v] = "sending"]
    /\ UNCHANGED <<clientCfgs, xtcp, xname, serves, told, notifyCh>>

(* The client answers, soon or too late, or never. *)
HandleClient(v) ==
    /\ v \in told
    /\ told' = told \ {v}
    /\ notifyCh' = IF v \in sessions THEN notifyCh \cup {v} ELSE notifyCh
    /\ UNCHANGED <<clientCfgs, xtcp, xname, serves, visit, sidCh, sessions>>

(* analysis, and what it found out, or its error, sent to both ends. *)
Decide(v) ==
    /\ visit[v] = "waiting" /\ v \in notifyCh
    /\ notifyCh' = notifyCh \ {v}
    /\ visit' = [visit EXCEPT ![v] = "answered"]
    /\ UNCHANGED <<clientCfgs, xtcp, xname, serves, sidCh, sessions, told>>

(* NatHoleTimeout: the session is removed. *)
Timeout(v) ==
    /\ visit[v] = "waiting"
    /\ sessions' = sessions \ {v}
    /\ visit' = [visit EXCEPT ![v] = "over"]
    /\ UNCHANGED <<clientCfgs, xtcp, xname, serves, sidCh, told, notifyCh>>

(* ReadTimeoutMs and half a minute later *)
Expire(v) ==
    /\ visit[v] = "answered"
    /\ sessions' = sessions \ {v}
    /\ visit' = [visit EXCEPT ![v] = "over"]
    /\ UNCHANGED <<clientCfgs, xtcp, xname, serves, sidCh, told, notifyCh>>

-----------------------------------------------------------------------------
Serve(x) == (\E v \in Visit : TakeSid(x, v)) \/ PassSid(x) \/ DropSid(x)

HoleNext ==
    \/ \E x \in Xtcp : \/ ListenClient(x) \/ CloseClient(x) \/ CloseCh(x)
                       \/ ServesEnd(x) \/ Serve(x)
    \/ \E v \in Visit : \/ VisitRefused(v) \/ \E n \in XName : HandleVisitor(v, n)
                        \/ HandleClient(v) \/ Decide(v) \/ Timeout(v) \/ Expire(v)

HoleSpec == HoleInit /\ [][HoleNext]_holeVars

(* The goroutines run on, and the timers go off.  When a select can take   *)
(* both a sid and the end, either is fair.                                 *)
HoleFairness ==
    /\ \A x \in Xtcp : WF_holeVars(ServesEnd(x) \/ Serve(x)) /\ WF_holeVars(CloseCh(x))
    /\ \A v \in Visit : WF_holeVars(Decide(v) \/ Timeout(v)) /\ WF_holeVars(Expire(v))

HoleFairSpec == HoleSpec /\ HoleFairness

-----------------------------------------------------------------------------
HoleTypeOK ==
    /\ clientCfgs \in [XName -> Xtcp \cup {NoXtcp}]
    /\ xtcp \in [Xtcp -> {"idle", "listening", "refused", "closing", "closed"}]
    /\ xname \in [Xtcp -> XName]
    /\ serves \in [Xtcp -> Visit \cup {"none", "select"}]
    /\ visit \in [Visit -> {"idle", "sending", "waiting", "answered", "over"}]
    /\ sidCh \in [Visit -> Xtcp \cup {NoXtcp}]
    /\ sessions \subseteq Visit /\ told \subseteq Visit /\ notifyCh \subseteq Visit

(* Visitors find a proxy under its name exactly while it listens: the late *)
(* second Close of a proxy does not remove the proxy that has its name     *)
(* now, and one that listens has a goroutine that serves it.               *)
ListeningIsFound ==
    \A x \in Xtcp :
        /\ xtcp[x] = "listening" <=> clientCfgs[xname[x]] = x
        /\ xtcp[x] = "listening" => serves[x] # "none"

(* Every visit ends and its session is removed, whatever the client does   *)
(* and whenever connections are missing, except when the proxy is closed   *)
(* between the lookup and the handover: then nobody takes the sid, and the *)
(* goroutine and the session are there for ever.                           *)
SessionsEnd ==
    \A v \in Visit :
        v \in sessions
            ~> \/ v \notin sessions
               \/ visit[v] = "sending" /\ xtcp[sidCh[v]] \in {"closing", "closed"}
=============================================================================
