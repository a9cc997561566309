------------------------------- MODULE MCFrps -------------------------------
(***************************************************************************)
(* Model-checking instance of seven parts of frps that share no state with *)
(* each other: the handshake with frpc, the groups of tcp and of http      *)
(* proxies, the router of http requests, the hole-punching sessions, the   *)
(* analysis behind them, and the tunnel of a udp proxy.                    *)
(* Each behaviour is one of one part; the others stay as they start.  So   *)
(* the state spaces add up instead of multiplying, and a run checks the    *)
(* parts side by side.                                                     *)
(***************************************************************************)
EXTENDS ProxyHandshake, TCPGroup, HTTPGroup, NatHole, NatAnalyzer, UDPTunnel, VhostRouter

(* What STUN servers see of an end behind an easy NAT, one behind a hard   *)
(* NAT with regular ports, one behind a hard NAT without.                  *)
At(i, p) == [ip |-> i, port |-> p]
Seen == { <<At("x", 1), At("x", 1)>>, <<At("x", 1), At("x", 4)>>, <<At("x", 1), At("y", 9)>> }

(* Hosts of two, three and four labels, wildcards of them, and one of two  *)
(* labels, which no host finds; paths and locations that extend each other. *)
Labels == {"www", "x", "com", "a", "*"}
Domains == {<<"www", "x", "com">>, <<"*", "x", "com">>, <<"x", "com">>, <<"*", "com">>, <<"*">>}
Hosts == {<<"www", "x", "com">>, <<"a", "www", "x", "com">>, <<"x", "com">>}
Locations == {<<>>, <<1>>, <<1, 2>>}
Paths == {<<1>>, <<1, 2, 3>>, <<2>>}

VARIABLE part

parts == <<vars, groupVars, httpVars, holeVars, natVars, udpVars, indexByDomain, part>>

Part == {"handshake", "tcp group", "http group", "hole", "analysis", "udp", "router"}

(* The initial state of the parts that have several is fixed while they    *)
(* are not the part at work.                                               *)
PartsInit ==
    /\ part \in Part
    /\ Init /\ GroupInit /\ HttpInit /\ HoleInit /\ NatInit /\ UdpInit /\ RouterInit
    /\ part # "handshake" => healthy
    /\ part # "analysis" => ends = CHOOSE e \in [client : Seen, visitor : Seen] : TRUE
    /\ part # "hole" => xname = CHOOSE f \in [Xtcp -> XName] : TRUE

PartsNext ==
    \/ /\ part = "handshake" /\ Next
       /\ UNCHANGED <<groupVars, httpVars, holeVars, natVars, udpVars, indexByDomain, part>>
    \/ /\ part = "tcp group" /\ GroupNext
       /\ UNCHANGED <<vars, httpVars, holeVars, natVars, udpVars, indexByDomain, part>>
    \/ /\ part = "http group" /\ HttpNext
       /\ UNCHANGED <<vars, groupVars, holeVars, natVars, udpVars, indexByDomain, part>>
    \/ /\ part = "hole" /\ HoleNext
       /\ UNCHANGED <<vars, groupVars, httpVars, natVars, udpVars, indexByDomain, part>>
    \/ /\ part = "analysis" /\ NatNext
       /\ UNCHANGED <<vars, groupVars, httpVars, holeVars, udpVars, indexByDomain, part>>
    \/ /\ part = "udp" /\ UdpNext
       /\ UNCHANGED <<vars, groupVars, httpVars, holeVars, natVars, indexByDomain, part>>
    \/ /\ part = "router" /\ RouterNext
       /\ UNCHANGED <<vars, groupVars, httpVars, holeVars, natVars, udpVars, part>>

(* The fairness of each part, while it is the part at work. *)
PartsFairness ==
    LET hs == part = "handshake"
        tg == part = "tcp group"
        ho == part = "hole"
        ud == part = "udp" /\ Up
    IN  /\ WF_vars(hs /\ CheckStart) /\ WF_vars(hs /\ CheckFail)
        /\ WF_vars(hs /\ (HandleReply \/ RunFails)) /\ WF_vars(hs /\ Handle)
        /\ \A m \in Member :
            /\ WF_groupVars(tg /\ Leave(m)) /\ WF_groupVars(tg /\ LoopEnds(m))
            /\ WF_groupVars(tg /\ \E u \in User : Receive(m, u))
        /\ \A g \in Group : WF_groupVars(tg /\ \E u \in User : WorkerAccept(g, u))
        /\ \A x \in Xtcp :
            WF_holeVars(ho /\ (ServesEnd(x) \/ Serve(x))) /\ WF_holeVars(ho /\ CloseCh(x))
        /\ \A v \in Visit :
            WF_holeVars(ho /\ (Decide(v) \/ Timeout(v))) /\ WF_holeVars(ho /\ Expire(v))
        /\ WF_udpVars(ud /\ Asking) /\ WF_udpVars(ud /\ CloseChans)
        /\ WF_udpVars(ud /\ (stopped \/ forward = "ended") /\ CloseConns)
        /\ WF_udpVars(ud /\ udp # "open" /\ (PassOn \/ PassPanics \/ ForwardEnds))
        /\ \A w \in WorkConn :
            /\ WF_udpVars(ud /\ Broken(w) /\ ReadBreaks(w)) /\ WF_udpVars(ud /\ ReportLost(w))
            /\ WF_udpVars(part = "udp" /\ Arriving(w))

PartsSpec == PartsInit /\ [][PartsNext]_parts /\ PartsFairness

-----------------------------------------------------------------------------
(* Every variable of every part has its type. *)
FrpsTypesOK == TypeOK /\ GroupTypeOK /\ HttpTypeOK /\ HoleTypeOK /\ NatTypeOK /\ UdpTypeOK /\ RouterTypeOK

(* While the handshake is the part at work: a healthy proxy ends up        *)
(* running, when nothing goes wrong any more.                              *)
HandshakeRecovers == part = "handshake" => Recovers
=============================================================================
