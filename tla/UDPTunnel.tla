----------------------------- MODULE UDPTunnel -----------------------------
(***************************************************************************)
(* The tunnel of one udp proxy: UDPProxy of server/proxy/udp.go with the   *)
(* forwarder it starts (pkg/proto/udp), and UDPProxy of client/proxy/udp.go *)
(* at the other end.                                                       *)
(*                                                                         *)
(* All users share one work connection.  A goroutine of the server (here   *)
(* "the asker") gets one, starts a reader and a writer on it, and waits at *)
(* checkCloseCh until the reader reports that it broke.  Close shuts the   *)
(* connection and the socket first and the channels last, while the reader, *)
(* the writer and the forwarder go on.  The client replaces its connection *)
(* in a goroutine per StartWorkConn.  Datagrams are not told apart.        *)
(*                                                                         *)
(* A proxy with a bandwidth limit wraps its work connections once more, at *)
(* the end that limits, in a connection whose Close is a closure over a    *)
(* variable that is assigned the wrapper itself: it closes nothing.        *)
(***************************************************************************)
EXTENDS Naturals

CONSTANTS WorkConn,   \* work connections; each is got once
          LimitedAt,  \* the end that limits the bandwidth: none, client or server
          NoConn

ASSUME UdpAssumption ==
    /\ NoConn \notin WorkConn
    /\ LimitedAt \in {"none", "client", "server"}

VARIABLES
    udp,       \* the proxy of the server: isClosed, and its channels
    asker,     \* the goroutine that gets work connections
    held,      \* the last one it got
    current,   \* pxy.workConn
    reads,     \* workConnReaderFn of a connection
    srvOpen,   \* is the server's end open?
    forward,   \* ForwardUserConn: between ReadFromUDP and the send to sendCh?
    stopped,   \* has the client stopped the proxy?
    cclosed,   \* closed, of the client's proxy
    ccurrent,  \* workConn, of the client's proxy
    arrive,    \* how far the client has come with a connection
    cliOpen,   \* is the client's end open?
    strayed    \* the connections of the client that have escaped its Close

srvVars == <<udp, asker, held, current, reads, forward>>
cliVars == <<stopped, cclosed, ccurrent, arrive, strayed>>
udpVars == <<srvVars, cliVars, srvOpen, cliOpen>>

UdpInit ==
    /\ udp = "open" /\ asker = "asking" /\ forward = "reading"
    /\ held = NoConn /\ current = NoConn
    /\ reads = [w \in WorkConn |-> "none"]
    /\ srvOpen = [w \in WorkConn |-> FALSE]
    /\ stopped = FALSE /\ cclosed = FALSE /\ strayed = {}
    /\ ccurrent = NoConn
    /\ arrive = [w \in WorkConn |-> "none"]
    /\ cliOpen = [w \in WorkConn |-> FALSE]

(* conn.Close() of the connection itself; the field may still be nil. *)
Shut(open, w) == [x \in WorkConn |-> open[x] /\ x # w]

(* conn.Close() of the wrapped connection: at the server the closure calls *)
(* rwc.Close, where rwc has become the wrapper, *)
ServerShut(w) == IF LimitedAt = "server" THEN srvOpen ELSE Shut(srvOpen, w)

(* and at the client conn.Close, where conn has. *)
ClientShut(w) == IF LimitedAt = "client" THEN cliOpen ELSE Shut(cliOpen, w)

-----------------------------------------------------------------------------
(* The asker                                                               *)

(* GetWorkConnFromPool: StartWorkConn is sent, or every try has failed and *)
(* the connection is closed, which the caller is not told.                 *)
GetWork(w) ==
    /\ asker = "asking" /\ arrive[w] = "none"
    /\ asker' = "got" /\ held' = w
    /\ \/ /\ arrive' = [arrive EXCEPT ![w] = "told"]
          /\ srvOpen' = [srvOpen EXCEPT ![w] = TRUE]
          /\ cliOpen' = [cliOpen EXCEPT ![w] = TRUE]
       \/ /\ arrive' = [arrive EXCEPT ![w] = "refused"]
          /\ UNCHANGED <<srvOpen, cliOpen>>
    /\ UNCHANGED <<udp, current, reads, forward, stopped, cclosed, ccurrent, strayed>>

(* An error; after a second the asker looks whether the proxy is closed.   *)
(* While it is not, it asks again.                                         *)
GiveUp ==
    /\ asker = "asking" /\ udp = "closed"
    /\ asker' = "ended"
    /\ UNCHANGED <<udp, held, current, reads, forward, cliVars, srvOpen, cliOpen>>

(* The old connection is closed and the new one takes its place, whatever  *)
(* has become of the proxy in the meantime.                                *)
Adopt ==
    /\ asker = "got"
    /\ srvOpen' = ServerShut(current)
    /\ current' = held
    /\ reads' = [reads EXCEPT ![held] = "reading"]
    /\ asker' = "waiting"
    /\ UNCHANGED <<udp, held, forward, cliVars, cliOpen>>

(* The encryption cannot be set up. *)
AdoptFails ==
    /\ asker = "got"
    /\ srvOpen' = Shut(ServerShut(current), held)
    /\ asker' = "asking"
    /\ UNCHANGED <<udp, held, current, reads, forward, cliVars, cliOpen>>

(* checkCloseCh has no buffer: the reader's report is taken ... *)
TakeReport(w) ==
    /\ asker = "waiting" /\ reads[w] = "reporting" /\ udp # "closed"
    /\ asker' = "asking"
    /\ reads' = [reads EXCEPT ![w] = "ended"]
    /\ UNCHANGED <<udp, held, current, forward, cliVars, srvOpen, cliOpen>>

(* ... or the channel is closed. *)
SeeClosed ==
    /\ asker = "waiting" /\ udp = "closed"
    /\ asker' = "ended"
    /\ UNCHANGED <<udp, held, current, reads, forward, cliVars, srvOpen, cliOpen>>

-----------------------------------------------------------------------------
(* Reader and writer of a work connection                                  *)

(* Fault: the reader reports before it closes the connection. *)
ReadFailsOpen(w) ==
    /\ reads[w] = "reading"
    /\ reads' = [reads EXCEPT ![w] = "reporting"]
    /\ UNCHANGED <<udp, asker, held, current, forward, cliVars, srvOpen, cliOpen>>

(* One end is closed, the network is broken, or the client was silent for  *)
(* a minute. *)
ReadBreaks(w) ==
    /\ reads[w] = "reading"
    /\ srvOpen' = ServerShut(w)
    /\ reads' = [reads EXCEPT ![w] = "reporting"]
    /\ UNCHANGED <<udp, asker, held, current, forward, cliVars, cliOpen>>

(* A datagram that comes after Close: the send to readCh panics, and the   *)
(* recovered panic makes the reader close its connection. *)
ReadTooLate(w) ==
    /\ reads[w] = "reading" /\ udp = "closed" /\ srvOpen[w] /\ cliOpen[w]
    /\ srvOpen' = ServerShut(w)
    /\ reads' = [reads EXCEPT ![w] = "ended"]
    /\ UNCHANGED <<udp, asker, held, current, forward, cliVars, cliOpen>>

(* The report on the closed channel panics, and is recovered. *)
ReportLost(w) ==
    /\ reads[w] = "reporting" /\ udp = "closed"
    /\ reads' = [reads EXCEPT ![w] = "ended"]
    /\ UNCHANGED <<udp, asker, held, current, forward, cliVars, srvOpen, cliOpen>>

(* A write of workConnSenderFn fails; the reader will see that the         *)
(* connection is closed. *)
WriteBreaks(w) ==
    /\ reads[w] = "reading" /\ udp # "closed"
    /\ srvOpen' = ServerShut(w)
    /\ UNCHANGED <<srvVars, cliVars, cliOpen>>

-----------------------------------------------------------------------------
(* The forwarder, and Close                                                *)

ReadUser ==
    /\ forward = "reading" /\ udp = "open"
    /\ forward' = "holding"
    /\ UNCHANGED <<udp, asker, held, current, reads, cliVars, srvOpen, cliOpen>>

(* The select with a default: passed on, or dropped. *)
PassOn ==
    /\ forward = "holding" /\ udp # "closed"
    /\ forward' = "reading"
    /\ UNCHANGED <<udp, asker, held, current, reads, cliVars, srvOpen, cliOpen>>

(* A send on the closed sendCh, which nobody recovers: frps is gone, and   *)
(* its connections with it. *)
PassPanics ==
    /\ forward = "holding" /\ udp = "closed"
    /\ forward' = "crashed"
    /\ srvOpen' = [w \in WorkConn |-> FALSE]
    /\ UNCHANGED <<udp, asker, held, current, reads, cliVars, cliOpen>>

(* ReadFromUDP fails on the closed socket, or on its own; the goroutine    *)
(* goes on to call Close. *)
ForwardEnds ==
    /\ forward = "reading"
    /\ forward' = "ended"
    /\ UNCHANGED <<udp, asker, held, current, reads, cliVars, srvOpen, cliOpen>>

(* Close, whoever calls it, marks the proxy and shuts connection and       *)
(* socket, *)
CloseConns ==
    /\ udp = "open"
    /\ udp' = "closing"
    /\ srvOpen' = ServerShut(current)
    /\ UNCHANGED <<asker, held, current, reads, forward, cliVars, cliOpen>>

(* and then the three channels. *)
CloseChans ==
    /\ udp = "closing"
    /\ udp' = "closed"
    /\ UNCHANGED <<asker, held, current, reads, forward, cliVars, srvOpen, cliOpen>>

-----------------------------------------------------------------------------
(* The client                                                              *)

(* UDPProxy.Close *)
CloseClientConn ==
    /\ cliOpen' = IF cclosed THEN cliOpen ELSE ClientShut(ccurrent)
    /\ cclosed' = TRUE

(* Wrapper.Stop; the CloseProxy message comes after it. *)
ClientStop ==
    /\ ~stopped /\ stopped' = TRUE
    /\ CloseClientConn
    /\ UNCHANGED <<srvVars, srvOpen, ccurrent, arrive, strayed>>

(* Fault: a connection for a proxy that does not run is dropped unclosed. *)
DispatchLeaks(w) ==
    /\ arrive[w] = "told"
    /\ arrive' = [arrive EXCEPT ![w] = IF stopped THEN "refused" ELSE "called"]
    /\ UNCHANGED <<srvVars, srvOpen, stopped, cclosed, ccurrent, strayed, cliOpen>>

(* HandleWorkConn and Wrapper.InWorkConn: a goroutine, if the proxy runs. *)
Dispatch(w) ==
    /\ arrive[w] = "told"
    /\ \/ /\ ~stopped
          /\ arrive' = [arrive EXCEPT ![w] = "called"]
          /\ UNCHANGED cliOpen
       \/ /\ stopped
          /\ arrive' = [arrive EXCEPT ![w] = "refused"]
          /\ cliOpen' = Shut(cliOpen, w)
    /\ UNCHANGED <<srvVars, srvOpen, stopped, cclosed, ccurrent, strayed>>

(* UDPProxy.InWorkConn closes what it has, *)
ClearOld(w) ==
    /\ arrive[w] = "called"
    /\ CloseClientConn
    /\ arrive' = [arrive EXCEPT ![w] = "cleared"]
    /\ UNCHANGED <<srvVars, srvOpen, stopped, ccurrent, strayed>>

(* and under the lock again stores the new connection, as a proxy that is  *)
(* not closed: nobody looks whether it was stopped meanwhile, or whether   *)
(* another InWorkConn has stored one. *)
Store(w) ==
    /\ arrive[w] = "cleared"
    /\ arrive' = [arrive EXCEPT ![w] = "stored"]
    /\ ccurrent' = w /\ cclosed' = FALSE
    /\ strayed' = strayed \cup {x \in {w} : stopped}
                            \cup {x \in WorkConn : x = ccurrent /\ cliOpen[x]}
    /\ UNCHANGED <<srvVars, srvOpen, stopped, cliOpen>>

(* The encryption cannot be set up. *)
StoreFails(w) ==
    /\ arrive[w] = "cleared"
    /\ arrive' = [arrive EXCEPT ![w] = "refused"]
    /\ cliOpen' = Shut(cliOpen, w)
    /\ UNCHANGED <<srvVars, srvOpen, stopped, cclosed, ccurrent, strayed>>

-----------------------------------------------------------------------------

Asking == GiveUp \/ Adopt \/ AdoptFails \/ SeeClosed \/ \E w \in WorkConn : TakeReport(w)

Reading(w) == ReadBreaks(w) \/ ReadTooLate(w) \/ ReportLost(w)

Forwarding == ReadUser \/ PassOn \/ PassPanics \/ ForwardEnds

Server ==
    /\ forward # "crashed"
    /\ \/ Asking \/ Forwarding \/ CloseConns \/ CloseChans
       \/ \E w \in WorkConn : GetWork(w) \/ Reading(w) \/ WriteBreaks(w)

Arriving(w) == Dispatch(w) \/ ClearOld(w) \/ Store(w) \/ StoreFails(w)

UdpNext == Server \/ ClientStop \/ \E w \in WorkConn : Arriving(w)

UdpSpec == UdpInit /\ [][UdpNext]_udpVars

Up == forward # "crashed"

Broken(w) == ~srvOpen[w] \/ ~cliOpen[w]

(* Goroutines run on; a reader notices that its connection is closed; the  *)
(* end of the client's proxy reaches the server, and so does the end of    *)
(* the forwarder.  Nothing is assumed of users, of the network, or of when *)
(* a work connection can be had. *)
UdpFairness ==
    /\ WF_udpVars(Up /\ Asking) /\ WF_udpVars(Up /\ CloseChans)
    /\ WF_udpVars(Up /\ (stopped \/ forward = "ended") /\ CloseConns)
    /\ WF_udpVars(Up /\ udp # "open" /\ (PassOn \/ PassPanics \/ ForwardEnds))
    /\ \A w \in WorkConn :
        /\ WF_udpVars(Up /\ Broken(w) /\ ReadBreaks(w)) /\ WF_udpVars(Up /\ ReportLost(w))
        /\ WF_udpVars(Arriving(w))

UdpFairSpec == UdpSpec /\ UdpFairness

-----------------------------------------------------------------------------
(* Correctness                                                             *)

UdpTypeOK ==
    /\ udp \in {"open", "closing", "closed"}
    /\ asker \in {"asking", "got", "waiting", "ended"}
    /\ held \in WorkConn \cup {NoConn} /\ current \in WorkConn \cup {NoConn}
    /\ asker = "got" => held # NoConn
    /\ reads \in [WorkConn -> {"none", "reading", "reporting", "ended"}]
    /\ srvOpen \in [WorkConn -> BOOLEAN] /\ cliOpen \in [WorkConn -> BOOLEAN]
    /\ forward \in {"reading", "holding", "ended", "crashed"}
    /\ stopped \in BOOLEAN /\ cclosed \in BOOLEAN /\ strayed \subseteq WorkConn
    /\ ccurrent \in WorkConn \cup {NoConn}
    /\ arrive \in [WorkConn -> {"none", "told", "refused", "called", "cleared", "stored"}]

(* "there are always only one workConn at the same time"                   *)
(* (server/proxy/udp.go:50): when the server gets a work connection, it    *)
(* has closed the one before, whoever noticed that it broke, and also when *)
(* the proxy closes meanwhile.                                             *)
OneWorkConn == \A v, w \in WorkConn : srvOpen[v] /\ srvOpen[w] => v = w

(* When the client has stopped the proxy, the server has no work           *)
(* connection of it left in the end, not even one that it got while it     *)
(* closed the proxy: the client closes what it gets for a proxy that does  *)
(* not run.  What escapes is a connection that a goroutine of the client   *)
(* stored after the stop, or that another goroutine's store has covered.   *)
WorkConnsEnd == stopped ~> (\A w \in WorkConn : srvOpen[w] => w \in strayed)

(* "Close readCh and sendCh at the end": no datagram is passed to a closed *)
(* channel.                                                                *)
NoSendOnClosed == forward # "crashed"
=============================================================================
