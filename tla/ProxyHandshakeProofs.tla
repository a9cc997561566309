----------------------- MODULE ProxyHandshakeProofs -----------------------
(* Theorems about ProxyHandshake, for channels of any length and any       *)
(* number of reloads. *)
EXTENDS ProxyHandshake, TLAPS, SequenceTheorems

-----------------------------------------------------------------------------
(* Channels.                                                               *)

Message == NewProxy \cup {Close}

LEMMA SendType ==
  ASSUME TypeOK, NEW m \in Message, Send(m)
  PROVE  toServer' \in Seq(Message) /\ Len(toServer') <= Cap
  BY HandshakeAssumption DEF TypeOK, Send, Message

LEMMA AnswerType ==
  ASSUME TypeOK, NEW r \in Reply, Answer(r)
  PROVE  toClient' \in Seq(Reply) /\ Len(toClient') <= Cap
  BY HandshakeAssumption DEF TypeOK, Answer

LEMMA HandledType ==
  ASSUME TypeOK, toServer # <<>>, toServer' = Tail(toServer)
  PROVE  toServer' \in Seq(Message) /\ Len(toServer') <= Cap
  BY HandshakeAssumption DEF TypeOK, Message

LEMMA ReadType ==
  ASSUME TypeOK, toClient # <<>>, toClient' = Tail(toClient)
  PROVE  toClient' \in Seq(Reply) /\ Len(toClient') <= Cap
  BY HandshakeAssumption DEF TypeOK

LEMMA MessageTypes ==
  /\ Close \in Message
  /\ \A v \in Version : [kind |-> "new", version |-> v] \in Message
  /\ \A m \in NewProxy : m # Close /\ m.version \in Version
  BY DEF Message, NewProxy, Close

LEMMA TypeStep == TypeOK /\ [Next]_vars => TypeOK'
<1> SUFFICES ASSUME TypeOK, [Next]_vars PROVE TypeOK'
  OBVIOUS
<1> USE HandshakeAssumption, MessageTypes
<1>1. CASE Reload
  <2>1. toServer' \in Seq(Message) /\ Len(toServer') <= Cap
    <3>1. CASE UNCHANGED toServer
      BY <3>1 DEF TypeOK, Message
    <3>2. CASE Send(Close)
      BY <3>2, SendType
    <3>3. QED
      BY <1>1, <3>1, <3>2 DEF Reload
  <2>2. phase' \in Phase /\ version' \in Version
    <3>1. version \in Nat /\ version < MaxReloads /\ version' = version + 1
      BY <1>1 DEF Reload, TypeOK, Version
    <3>2. version' \in Version
      BY <3>1 DEF Version
    <3>3. QED
      BY <1>1, <3>2 DEF Reload, Phase
  <2>3. QED
    BY <1>1, <2>1, <2>2 DEF Reload, TypeOK, Message
<1>2. CASE CheckStart
  <2>1. toServer' \in Seq(Message) /\ Len(toServer') <= Cap
    BY <1>2, SendType DEF CheckStart, TypeOK
  <2>2. phase' \in Phase /\ faults' \subseteq Fault
    BY <1>2 DEF CheckStart, TypeOK, Phase, Fault
  <2>3. QED
    BY <1>2, <2>1, <2>2 DEF CheckStart, TypeOK, Message
<1>3. CASE CheckFail
  BY <1>3, SendType DEF CheckFail, TypeOK, Phase, Message
<1>4. CASE HealthChanges
  BY <1>4 DEF HealthChanges, TypeOK
<1>5. CASE HandleReply
  BY <1>5, ReadType DEF HandleReply, TypeOK, Phase
<1>6. CASE RunFails
  <2>1. toServer' \in Seq(Message) /\ Len(toServer') <= Cap
    BY <1>6, SendType DEF RunFails
  <2>2. toClient' \in Seq(Reply) /\ Len(toClient') <= Cap
    BY <1>6, ReadType DEF RunFails
  <2>3. QED
    BY <1>6, <2>1, <2>2 DEF RunFails, TypeOK, Phase, Fault, Message
<1>7. CASE Handle
  <2>1. \E r \in Reply : Answer(r) \/ UNCHANGED toClient
    BY <1>7 DEF Handle, Register, AlreadyExists, RefuseProxy, CloseProxy, Reply
  <2>2. toClient' \in Seq(Reply) /\ Len(toClient') <= Cap
    BY <2>1, AnswerType DEF TypeOK
  <2>3. toServer' \in Seq(Message) /\ Len(toServer') <= Cap
    BY <1>7, HandledType DEF Handle, Register, AlreadyExists, RefuseProxy, CloseProxy
  <2>4. server' \in Version \cup {None}
    BY <1>7 DEF Handle, Register, AlreadyExists, RefuseProxy, CloseProxy, TypeOK
  <2>5. faults' \subseteq Fault /\ UNCHANGED <<phase, version, healthy>>
    BY <1>7 DEF Handle, Register, AlreadyExists, RefuseProxy, CloseProxy, TypeOK, Fault
  <2>6. QED
    BY <2>2, <2>3, <2>4, <2>5 DEF TypeOK, Message
<1>8. CASE UNCHANGED vars
  BY <1>8 DEF vars, TypeOK
<1>9. QED
  BY <1>1, <1>2, <1>3, <1>4, <1>5, <1>6, <1>7, <1>8 DEF Next

(* Every variable keeps its type, and no channel overflows. *)
THEOREM HandshakeTyped == Spec => []TypeOK
<1>1. Init => TypeOK
  BY HandshakeAssumption DEF Init, TypeOK, Phase, Version, Fault
<1>2. QED
  BY <1>1, TypeStep, PTL DEF Spec

-----------------------------------------------------------------------------
(* A closed proxy stays closed.                                            *)
(*                                                                         *)
(* In a phase in which the client has closed the proxy, the server runs    *)
(* nothing, or the last message under way is the CloseProxy: whatever is   *)
(* before it in the channel, the server will undo it.                      *)

ClosedPhase == phase \in {"absent", "new", "check failed"}

LastIsClose(s) == s # <<>> /\ s[Len(s)] = Close

CloseComes ==
    ClosedPhase => (toServer = <<>> /\ server = None) \/ LastIsClose(toServer)

LEMMA SentLast ==
  ASSUME TypeOK, Send(Close)
  PROVE  LastIsClose(toServer')
<1>1. toServer \in Seq(Message) /\ Close \in Message
  BY MessageTypes DEF TypeOK, Message
<1>2. toServer' = Append(toServer, Close)
  BY DEF Send
<1>3. QED
  BY <1>1, <1>2 DEF LastIsClose

(* The last of a longer sequence stays the last when the first is taken. *)
LEMMA LastOfTail ==
  ASSUME NEW S, NEW s \in Seq(S), Len(s) > 1
  PROVE  Tail(s) # <<>> /\ Tail(s)[Len(Tail(s))] = s[Len(s)]
<1>1. Len(s) \in Nat /\ s # <<>>
  BY EmptySeq
<1>2. /\ Len(Tail(s)) = Len(s) - 1
      /\ \A i \in 1 .. Len(Tail(s)) : Tail(s)[i] = s[i + 1]
  BY <1>1, HeadTailProperties
<1>3. Tail(s)[Len(s) - 1] = s[Len(s)]
  BY <1>1, <1>2
<1>4. Tail(s) # <<>>
  <2>1. Len(<<>>) = 0
    BY EmptySeq
  <2>2. Len(Tail(s)) # 0
    BY <1>1, <1>2
  <2>3. QED
    BY <2>1, <2>2
<1>5. QED
  BY <1>2, <1>3, <1>4

(* What the server reads is the last message, or leaves it in its place. *)
LEMMA LastRemains ==
  ASSUME TypeOK, LastIsClose(toServer), toServer' = Tail(toServer)
  PROVE  LastIsClose(toServer') \/ (toServer' = <<>> /\ Next1 = Close)
<1>1. toServer \in Seq(Message) /\ toServer # <<>>
  BY DEF TypeOK, Message, LastIsClose
<1>2. CASE Len(toServer) = 1
  <2>1. Tail(toServer) = <<>>
    BY <1>1, <1>2
  <2>2. QED
    BY <1>1, <1>2, <2>1 DEF LastIsClose, Next1
<1>3. CASE Len(toServer) > 1
  BY <1>1, <1>3, LastOfTail DEF LastIsClose
<1>4. Len(toServer) \in Nat \ {0}
  <2>1. \A seq \in Seq(Message) : seq # <<>> => Len(seq) \in Nat \ {0}
    BY EmptySeq
  <2>2. QED
    BY <1>1, <2>1
<1>5. Len(toServer) = 1 \/ Len(toServer) > 1
  <2>1. \A k \in Nat \ {0} : k = 1 \/ k > 1
    OBVIOUS
  <2>2. QED
    BY <1>4, <2>1
<1>6. QED
  BY <1>2, <1>3, <1>5

LEMMA CloseStep == TypeOK /\ CloseComes /\ [Next]_vars => CloseComes'
<1> SUFFICES ASSUME TypeOK, CloseComes, [Next]_vars PROVE CloseComes'
  OBVIOUS
<1>1. CASE Reload
  <2>1. CASE phase = "absent" /\ UNCHANGED toServer
    BY <1>1, <2>1 DEF Reload, CloseComes, ClosedPhase, LastIsClose
  <2>2. CASE Send(Close)
    BY <2>2, SentLast DEF CloseComes
  <2>3. QED
    BY <1>1, <2>1, <2>2 DEF Reload
<1>2. CASE CheckStart
  BY <1>2 DEF CheckStart, CloseComes, ClosedPhase
<1>3. CASE CheckFail
  BY <1>3, SentLast DEF CheckFail, CloseComes
<1>4. CASE HandleReply
  BY <1>4 DEF HandleReply, Ignored, CloseComes, ClosedPhase, LastIsClose
<1>5. CASE RunFails
  BY <1>5 DEF RunFails, CloseComes, ClosedPhase
<1>6. CASE Handle
  <2> SUFFICES ASSUME ClosedPhase PROVE CloseComes'
    BY <1>6 DEF Handle, Register, AlreadyExists, RefuseProxy, CloseProxy, CloseComes, ClosedPhase
  <2>1. toServer # <<>> /\ toServer' = Tail(toServer)
    BY <1>6 DEF Handle, Register, AlreadyExists, RefuseProxy, CloseProxy
  <2>2. LastIsClose(toServer') \/ (toServer' = <<>> /\ Next1 = Close)
    BY <2>1, LastRemains DEF CloseComes
  <2>3. ASSUME Next1 = Close PROVE server' = None
    BY <1>6, <2>3, MessageTypes DEF Handle, Register, AlreadyExists, RefuseProxy, CloseProxy
  <2>4. QED
    BY <2>2, <2>3 DEF CloseComes
<1>7. CASE UNCHANGED <<phase, toServer, server>>
  BY <1>7 DEF CloseComes, ClosedPhase, LastIsClose
<1>8. QED
  BY <1>1, <1>2, <1>3, <1>4, <1>5, <1>6, <1>7 DEF Next, HealthChanges, vars

(* Once frps has read everything, a proxy that frpc has stopped, dropped   *)
(* or found unhealthy does not run on frps: Wrapper.Stop and checkWorker   *)
(* always leave their CloseProxy behind the last NewProxy.                 *)
THEOREM ClosedStaysClosed == Spec => []ClosedIsGone
<1>1. Init => CloseComes
  BY DEF Init, CloseComes
<1>2. CloseComes => ClosedIsGone
  BY DEF CloseComes, ClosedIsGone, ClosedPhase, LastIsClose
<1>3. QED
  BY <1>1, <1>2, CloseStep, HandshakeTyped, PTL DEF Spec

-----------------------------------------------------------------------------
(* A running proxy is registered, unless frps refused one.                 *)
(*                                                                         *)
(* What the server reads after the last CloseProxy under way, and what it  *)
(* runs if there is none, is of the version the client has.  While the     *)
(* client waits or runs, a NewProxy comes last, or has been read.          *)

NoClose(s, i) == \A j \in i .. Len(s) : s[j] # Close

Current ==
    /\ \A i \in 1 .. Len(toServer) :
        NoClose(toServer, i) => toServer[i].version = version
    /\ NoClose(toServer, 1) => server \in {None, version}

Started == "refused" \notin faults /\ phase \in {"wait start", "running"}

StartComes ==
    Started =>
        IF toServer = <<>> THEN server # None ELSE toServer[Len(toServer)] # Close

HandshakeInv == TypeOK /\ CloseComes /\ Current /\ StartComes

LEMMA ServerSeq ==
  ASSUME TypeOK
  PROVE  toServer \in Seq(Message) /\ Len(toServer) \in Nat
BY DEF TypeOK, Message

LEMMA NewMessage ==
  ASSUME NEW v \in Version
  PROVE  /\ [kind |-> "new", version |-> v] \in Message
         /\ [kind |-> "new", version |-> v] # Close
<1>1. [kind |-> "new", version |-> v] \in NewProxy
  BY DEF NewProxy
<1>2. QED
  BY <1>1, MessageTypes DEF Message

LEMMA CloseLast ==
  ASSUME TypeOK, Send(Close)
  PROVE  Current'
<1>1. LastIsClose(toServer') /\ toServer' \in Seq(Message)
  BY SentLast, SendType, MessageTypes
<1>2. Len(toServer') \in Nat \ {0} /\ toServer'[Len(toServer')] = Close
  BY <1>1, EmptySeq DEF LastIsClose
<1>3. \A i \in 1 .. Len(toServer') : ~NoClose(toServer', i)
  BY <1>2 DEF NoClose
<1>4. ~NoClose(toServer', 1)
  BY <1>2 DEF NoClose
<1>5. QED
  BY <1>3, <1>4 DEF Current

(* A new version comes after a CloseProxy, or where nothing is left.       *)
LEMMA CurrentStep == HandshakeInv /\ [Next]_vars => Current'
<1> SUFFICES ASSUME TypeOK, CloseComes, Current, StartComes, [Next]_vars PROVE Current'
  BY DEF HandshakeInv
<1>0. toServer \in Seq(Message) /\ Len(toServer) \in Nat
  BY ServerSeq
<1>1. CASE Reload
  <2>1. CASE phase = "absent" /\ UNCHANGED toServer
    <3>1. CASE toServer = <<>> /\ server = None
      BY <1>1, <2>1, <3>1 DEF Reload, Current
    <3>2. CASE LastIsClose(toServer)
      <4>1. Len(toServer) \in Nat \ {0}
        BY <1>0, <3>2, EmptySeq DEF LastIsClose
      <4>2. \A i \in 1 .. Len(toServer) : ~NoClose(toServer, i)
        BY <3>2, <4>1 DEF LastIsClose, NoClose
      <4>3. QED
        BY <2>1, <4>1, <4>2 DEF Current
    <3>3. QED
      BY <2>1, <3>1, <3>2 DEF CloseComes, ClosedPhase
  <2>2. CASE Send(Close)
    BY <2>2, CloseLast
  <2>3. QED
    BY <1>1, <2>1, <2>2 DEF Reload
<1>2. CASE CheckStart
  <2> DEFINE m == [kind |-> "new", version |-> version]
             l == Len(toServer)
  <2>1. toServer' = Append(toServer, m) /\ version' = version /\ server' = server
    BY <1>2 DEF CheckStart, Send
  <2>2. m \in Message /\ m # Close /\ m.version = version
    BY NewMessage DEF TypeOK
  <2>3. /\ Len(toServer') = l + 1 /\ toServer'[l + 1] = m
        /\ \A i \in 1 .. l : toServer'[i] = toServer[i]
    BY <1>0, <2>1, <2>2
  <2> HIDE DEF m
  <2>4. \A i \in 1 .. l : NoClose(toServer', i) => NoClose(toServer, i)
    BY <1>0, <2>3 DEF NoClose
  <2>5. \A i \in 1 .. Len(toServer') :
          NoClose(toServer', i) => toServer'[i].version = version'
    BY <1>0, <2>1, <2>2, <2>3, <2>4 DEF Current
  <2>6. NoClose(toServer', 1) => NoClose(toServer, 1)
    BY <1>0, <2>3 DEF NoClose
  <2>7. QED
    BY <2>1, <2>5, <2>6 DEF Current
<1>3. CASE CheckFail
  BY <1>3, CloseLast DEF CheckFail
<1>4. CASE RunFails
  BY <1>4, CloseLast DEF RunFails
<1>5. CASE Handle
  <2> DEFINE l == Len(toServer)
  <2>1. toServer # <<>> /\ toServer' = Tail(toServer) /\ version' = version
    BY <1>5 DEF Handle, Register, AlreadyExists, RefuseProxy, CloseProxy
  <2>2. l \in Nat \ {0} /\ Len(toServer') = l - 1 /\ Next1 = toServer[1]
    BY <1>0, <2>1, EmptySeq DEF Next1
  <2>3. \A i \in 1 .. l - 1 : toServer'[i] = toServer[i + 1]
    BY <1>0, <2>1, <2>2
  <2>4. \A i \in 1 .. l - 1 : NoClose(toServer', i) => NoClose(toServer, i + 1)
    <3> SUFFICES ASSUME NEW i \in 1 .. l - 1, NoClose(toServer', i), NEW j \in i + 1 .. l
                 PROVE  toServer[j] # Close
      BY DEF NoClose
    <3>1. j - 1 \in i .. l - 1 /\ j - 1 \in 1 .. l - 1 /\ (j - 1) + 1 = j
      BY <2>2
    <3>2. toServer'[j - 1] # Close
      BY <2>2, <3>1 DEF NoClose
    <3>3. QED
      BY <2>3, <3>1, <3>2
  <2>5. \A i \in 1 .. Len(toServer') :
          NoClose(toServer', i) => toServer'[i].version = version'
    <3> SUFFICES ASSUME NEW i \in 1 .. l - 1, NoClose(toServer', i)
                 PROVE  toServer'[i].version = version
      BY <2>1, <2>2
    <3>1. i + 1 \in 1 .. l
      BY <2>2
    <3>2. QED
      BY <2>3, <2>4, <3>1 DEF Current
  <2>6. NoClose(toServer', 1) /\ Next1 # Close => NoClose(toServer, 1)
    <3> SUFFICES ASSUME NoClose(toServer', 1), Next1 # Close, NEW j \in 1 .. l
                 PROVE  toServer[j] # Close
      BY DEF NoClose
    <3>1. CASE j = 1
      BY <2>2, <3>1
    <3>2. CASE j # 1
      <4>1. j - 1 \in 1 .. l - 1 /\ (j - 1) + 1 = j
        BY <2>2, <3>2
      <4>2. toServer'[j - 1] # Close
        BY <2>2, <4>1 DEF NoClose
      <4>3. QED
        BY <2>3, <4>1, <4>2
    <3>3. QED
      BY <3>1, <3>2
  <2>7. NoClose(toServer', 1) => server' \in {None, version'}
    <3>1. CASE Register
      <4>1. server' = Next1.version /\ Next1 # Close
        BY <3>1, MessageTypes DEF Register, NewProxy, Close
      <4>2. QED
        BY <2>1, <2>2, <2>6, <4>1 DEF Current
    <3>2. CASE AlreadyExists \/ RefuseProxy
      <4>1. server' = server /\ Next1 # Close
        BY <3>2 DEF AlreadyExists, RefuseProxy, NewProxy, Close
      <4>2. QED
        BY <2>1, <2>6, <4>1 DEF Current
    <3>3. CASE CloseProxy
      BY <3>3 DEF CloseProxy
    <3>4. QED
      BY <1>5, <3>1, <3>2, <3>3 DEF Handle
  <2>8. QED
    BY <2>5, <2>7 DEF Current
<1>6. CASE UNCHANGED <<version, toServer, server>>
  BY <1>6 DEF Current, NoClose
<1>7. QED
  BY <1>1, <1>2, <1>3, <1>4, <1>5, <1>6 DEF Next, HealthChanges, HandleReply, vars

LEMMA StartStep == HandshakeInv /\ [Next]_vars => StartComes'
<1> SUFFICES ASSUME TypeOK, StartComes, [Next]_vars, Started'
             PROVE  IF toServer' = <<>> THEN server' # None
                                        ELSE toServer'[Len(toServer')] # Close
  BY DEF HandshakeInv, StartComes
<1>0. toServer \in Seq(Message) /\ Len(toServer) \in Nat
  BY ServerSeq
<1>1. CASE CheckStart
  <2> DEFINE m == [kind |-> "new", version |-> version]
  <2>1. m \in Message /\ m # Close
    BY NewMessage DEF TypeOK
  <2>2. toServer' = Append(toServer, m)
    BY <1>1 DEF CheckStart, Send
  <2> HIDE DEF m
  <2>3. /\ Len(toServer') = Len(toServer) + 1 /\ toServer' # <<>>
        /\ toServer'[Len(toServer) + 1] = m
    BY <1>0, <2>1, <2>2, AppendProperties
  <2>4. toServer'[Len(toServer')] = m
    BY <2>3
  <2>5. QED
    BY <2>1, <2>3, <2>4
<1>2. CASE HandleReply
  <2>1. Started
    BY <1>2 DEF HandleReply, Ignored, Started
  <2>2. QED
    BY <1>2, <2>1 DEF HandleReply, StartComes
<1>3. CASE Handle
  <2>1. toServer # <<>> /\ toServer' = Tail(toServer) /\ Started
    BY <1>3 DEF Handle, Register, AlreadyExists, RefuseProxy, CloseProxy, Started
  <2>2. toServer[Len(toServer)] # Close
    BY <2>1 DEF StartComes
  <2>3. CASE Len(toServer) > 1
    BY <1>0, <2>1, <2>2, <2>3, LastOfTail
  <2>4. CASE Len(toServer) = 1
    <3>0. Tail(toServer) = <<>>
      BY <1>0, <2>1, <2>4
    <3>1. Next1 # Close
      <4>1. toServer[Len(toServer)] = toServer[1]
        BY <2>4
      <4>2. Head(toServer) = toServer[1]
        BY <1>0, <2>1
      <4>3. QED
        BY <2>2, <4>1, <4>2 DEF Next1
    <3>2. CASE Register
      <4>1. server' \in Version
        BY <3>2, MessageTypes DEF Register
      <4>2. None \notin Version
        BY HandshakeAssumption DEF Version
      <4>3. QED
        BY <2>1, <3>0, <4>1, <4>2
    <3>3. CASE AlreadyExists
      BY <2>1, <3>0, <3>3 DEF AlreadyExists
    <3>4. ~RefuseProxy /\ ~CloseProxy
      BY <3>1 DEF RefuseProxy, CloseProxy, Started
    <3>5. QED
      BY <1>3, <3>2, <3>3, <3>4 DEF Handle
  <2>5. Len(toServer) > 1 \/ Len(toServer) = 1
    <3>1. \A seq \in Seq(Message) : seq # <<>> => Len(seq) \in Nat \ {0}
      BY EmptySeq
    <3>2. Len(toServer) \in Nat \ {0}
      BY <1>0, <2>1, <3>1
    <3>3. \A k \in Nat \ {0} : k > 1 \/ k = 1
      OBVIOUS
    <3>4. QED
      BY <3>2, <3>3
  <2>6. QED
    BY <2>3, <2>4, <2>5
<1>4. CASE Reload \/ CheckFail \/ RunFails
  BY <1>4 DEF Reload, CheckFail, RunFails, Started
<1>5. CASE UNCHANGED <<phase, toServer, server, faults>>
  BY <1>5 DEF StartComes, Started
<1>6. QED
  BY <1>1, <1>2, <1>3, <1>4, <1>5 DEF Next, HealthChanges, vars

(* As long as frps refuses nothing, a proxy that frpc shows as running is  *)
(* registered with the configuration frpc has, however the answers to      *)
(* repeated requests are matched, and however many reloads there were.     *)
THEOREM RunningRegistered == Spec => []RunningUnlessRefused
<1>1. Init => HandshakeInv
  BY HandshakeAssumption, EmptySeq
     DEF Init, HandshakeInv, TypeOK, Phase, Version, Fault, CloseComes, Current, Started, StartComes, NoClose
<1>2. HandshakeInv /\ [Next]_vars => HandshakeInv'
  BY TypeStep, CloseStep, CurrentStep, StartStep DEF HandshakeInv
<1>3. HandshakeInv => RunningUnlessRefused
  <2> SUFFICES ASSUME TypeOK, Current, StartComes, toServer = <<>>, Started
               PROVE  server = version
    BY DEF HandshakeInv, RunningUnlessRefused, RunningIsRegistered, Settled, Started
  <2>1. NoClose(toServer, 1)
    BY EmptySeq DEF NoClose
  <2>2. QED
    BY <2>1 DEF Current, StartComes
<1>4. QED
  BY <1>1, <1>2, <1>3, PTL DEF Spec

-----------------------------------------------------------------------------

(* While a wrapper waits for an answer, one is under way, or the NewProxy  *)
(* that will be answered.                                                  *)
AnswerIsUnderWay ==
    phase = "wait start" =>
        toClient # <<>> \/ \E i \in 1 .. Len(toServer) : toServer[i] \in NewProxy

(* Places of a sequence that grows or loses its first. *)
LEMMA Places ==
    ASSUME NEW n \in Nat
    PROVE  /\ n + 1 \in 1 .. (n + 1)
           /\ \A k \in 1 .. n : k # 1 => k - 1 \in 1 .. (n - 1) /\ (k - 1) + 1 = k
  OBVIOUS

LEMMA FirstIsHead ==
    ASSUME NEW S, NEW s \in Seq(S), s # <<>>
    PROVE  Head(s) = s[1]
  OBVIOUS

LEMMA AnswerStep == TypeOK /\ AnswerIsUnderWay /\ [Next]_vars => AnswerIsUnderWay'
<1> SUFFICES ASSUME TypeOK, AnswerIsUnderWay, [Next]_vars, phase' = "wait start"
             PROVE  toClient' # <<>> \/ \E i \in 1 .. Len(toServer') : toServer'[i] \in NewProxy
  BY DEF AnswerIsUnderWay
<1>0. toServer \in Seq(Message) /\ Len(toServer) \in Nat
  BY ServerSeq
<1>1. CASE CheckStart
  <2> DEFINE m == [kind |-> "new", version |-> version]
  <2>1. toServer' = Append(toServer, m)
    BY <1>1 DEF CheckStart, Send
  <2>2. m \in NewProxy /\ m \in Message
    BY NewMessage DEF TypeOK, NewProxy
  <2> HIDE DEF m
  <2>3. Len(toServer') = Len(toServer) + 1 /\ toServer'[Len(toServer) + 1] = m
    BY <1>0, <2>1, <2>2, AppendProperties
  <2>4. Len(toServer) + 1 \in 1 .. Len(toServer')
    BY <1>0, <2>3, Places
  <2>5. QED
    BY <2>2, <2>3, <2>4
<1>2. CASE CloseProxy
  <2> DEFINE l == Len(toServer)
  <2>1. toServer # <<>> /\ toServer' = Tail(toServer) /\ toClient' = toClient /\ phase' = phase
    BY <1>2 DEF CloseProxy
  <2>2. toServer[1] \notin NewProxy
    <3>1. Head(toServer) = toServer[1]
      BY <1>0, <2>1, FirstIsHead
    <3>2. Head(toServer) = Close
      BY <1>2 DEF CloseProxy, Next1
    <3>3. QED
      BY <3>1, <3>2, MessageTypes
  <2>3. CASE toClient # <<>>
    BY <2>1, <2>3
  <2>4. ASSUME NEW i \in 1 .. l, toServer[i] \in NewProxy
        PROVE  \E j \in 1 .. Len(toServer') : toServer'[j] \in NewProxy
    <3>1. i # 1
      BY <2>2, <2>4
    <3>2. /\ Len(Tail(toServer)) = l - 1
          /\ \A j \in 1 .. l - 1 : Tail(toServer)[j] = toServer[j + 1]
      BY <1>0, <2>1, HeadTailProperties
    <3>3. i - 1 \in 1 .. l - 1 /\ (i - 1) + 1 = i
      BY <1>0, <3>1, Places
    <3>4. QED
      BY <2>1, <2>4, <3>2, <3>3
  <2>5. QED
    BY <1>2, <2>1, <2>3, <2>4 DEF AnswerIsUnderWay
<1>3. CASE Register \/ AlreadyExists \/ RefuseProxy
  <2>1. \E r \in Reply : Answer(r)
    BY <1>3 DEF Register, AlreadyExists, RefuseProxy, Reply
  <2>2. toClient \in Seq(Reply)
    BY DEF TypeOK
  <2>3. PICK r \in Reply : toClient' = Append(toClient, r)
    BY <2>1 DEF Answer
  <2>4. QED
    BY <2>2, <2>3, AppendProperties
<1>4. CASE Reload \/ CheckFail \/ HandleReply \/ RunFails
  BY <1>4 DEF Reload, CheckFail, HandleReply, RunFails, Ignored
<1>5. CASE UNCHANGED <<phase, toServer, toClient>>
  BY <1>5 DEF AnswerIsUnderWay
<1>6. QED
  BY <1>1, <1>2, <1>3, <1>4, <1>5 DEF Next, Handle, HealthChanges, vars

(* No wrapper waits for nothing: in "wait start" an answer is on its way,  *)
(* however health and configuration changed and whichever answers came for *)
(* others.  What HandshakeRecovers rests on; the resend after              *)
(* waitResponseTimeout is not needed for it.                               *)
THEOREM AnswersUnderWay == Spec => []AnswerIsUnderWay
<1>1. Init => AnswerIsUnderWay
  BY DEF Init, AnswerIsUnderWay
<1>2. QED
  BY <1>1, AnswerStep, HandshakeTyped, PTL DEF Spec

=============================================================================
