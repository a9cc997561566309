----------------------------- MODULE FrpsProofs -----------------------------
(***************************************************************************)
(* Proofs about the tunnels of frps that are not tcp, and about frps as    *)
(* MCFrps puts it together.  In NatHole a visitor finds a proxy under its  *)
(* name exactly while the proxy listens; in NatAnalyzer the two ends get   *)
(* roles that fit them; in UDPTunnel the server has one work connection at *)
(* a time.                                                                 *)
(***************************************************************************)
EXTENDS MCFrps, ProxyHandshakeProofs, GroupProofs

-----------------------------------------------------------------------------
-----------------------------------------------------------------------------
(* Hole punching                                                           *)

(* An entry of clientCfgs names the proxy that listens under its key, so   *)
(* that a Close, which goes by name, can only hit its own entry.           *)
EntriesOwn ==
    \A n \in XName : clientCfgs[n] # NoXtcp =>
        xtcp[clientCfgs[n]] = "listening" /\ xname[clientCfgs[n]] = n

HoleInv == HoleTypeOK /\ EntriesOwn /\ ListeningIsFound

LEMMA HoleInit_Inv == HoleInit => HoleInv
  BY HoleAssumption DEF HoleInit, HoleInv, HoleTypeOK, EntriesOwn, ListeningIsFound

LEMMA HoleNext_Inv == HoleInv /\ [HoleNext]_holeVars => HoleInv'
<1> SUFFICES ASSUME HoleInv, [HoleNext]_holeVars
             PROVE  HoleInv'
  OBVIOUS
<1> USE HoleAssumption DEF HoleInv, HoleTypeOK, EntriesOwn, ListeningIsFound
<1>1. ASSUME NEW x \in Xtcp, ListenClient(x)
      PROVE  HoleInv'
  BY <1>1 DEF ListenClient
<1>2. ASSUME NEW x \in Xtcp, CloseClient(x)
      PROVE  HoleInv'
  BY <1>2 DEF CloseClient
<1>3. ASSUME NEW x \in Xtcp, CloseCh(x)
      PROVE  HoleInv'
  BY <1>3 DEF CloseCh
<1>4. ASSUME NEW x \in Xtcp, ServesEnd(x)
      PROVE  HoleInv'
  BY <1>4 DEF ServesEnd
<1>5. ASSUME NEW x \in Xtcp, Serve(x)
      PROVE  HoleInv'
  BY <1>5 DEF Serve, TakeSid, PassSid, DropSid
<1>6. ASSUME NEW v \in Visit,
             \/ VisitRefused(v) \/ \E n \in XName : HandleVisitor(v, n)
             \/ HandleClient(v) \/ Decide(v) \/ Timeout(v) \/ Expire(v)
      PROVE  HoleInv'
  BY <1>6 DEF VisitRefused, HandleVisitor, HandleClient, Decide, Timeout, Expire
<1>7. CASE UNCHANGED holeVars
  BY <1>7 DEF holeVars
<1>8. QED
  BY <1>1, <1>2, <1>3, <1>4, <1>5, <1>6, <1>7 DEF HoleNext

(* Every reachable state has the entries it should have. *)
LEMMA HoleInvariant == HoleSpec => []HoleInv
  BY HoleInit_Inv, HoleNext_Inv, PTL DEF HoleSpec

(* A visitor finds a proxy under its name exactly while it listens, and a  *)
(* proxy that listens has a goroutine that takes sids: neither the Close   *)
(* of another proxy of that name nor a missing work connection breaks it.  *)
THEOREM ListeningFound == HoleSpec => []ListeningIsFound
  BY HoleInvariant, PTL DEF HoleInv

(* A session belongs to a visit that is not over. *)
SessionsOfVisits ==
    \A v \in Visit : v \in sessions <=> visit[v] \in {"sending", "waiting", "answered"}

(* A visit that hands over its sid has a proxy to hand it to, whose        *)
(* goroutine takes sids unless the proxy is closed.                        *)
SidsAreTaken ==
    \A v \in Visit : visit[v] = "sending" =>
        /\ sidCh[v] \in Xtcp
        /\ xtcp[sidCh[v]] \in {"listening", "closing", "closed"}
        /\ serves[sidCh[v]] = "none" => xtcp[sidCh[v]] = "closed"

(* A sid that a proxy has taken is that of a visit that has let go of it.  *)
TakenIsSent ==
    \A x \in Xtcp : serves[x] \in Visit => visit[serves[x]] \in {"waiting", "answered", "over"}

(* The goroutine of a proxy ends when the proxy is closed, and not before. *)
GoroutineServes ==
    \A x \in Xtcp : serves[x] = "none" => xtcp[x] \in {"idle", "refused", "closed"}

VisitInv == HoleInv /\ SessionsOfVisits /\ SidsAreTaken /\ TakenIsSent /\ GoroutineServes

LEMMA VisitInit_Inv == HoleInit => VisitInv
  BY HoleInit_Inv, HoleAssumption
     DEF HoleInit, VisitInv, SessionsOfVisits, SidsAreTaken, TakenIsSent, GoroutineServes

LEMMA VisitNext_Inv == VisitInv /\ [HoleNext]_holeVars => VisitInv'
<1> SUFFICES ASSUME VisitInv, [HoleNext]_holeVars
             PROVE  VisitInv'
  OBVIOUS
<1>1. HoleInv'
  BY HoleNext_Inv DEF VisitInv
<1> USE HoleAssumption, <1>1
    DEF VisitInv, SessionsOfVisits, SidsAreTaken, TakenIsSent, GoroutineServes,
        HoleInv, HoleTypeOK
<1>2. ASSUME NEW x \in Xtcp, ListenClient(x)
      PROVE  VisitInv'
  BY <1>2 DEF ListenClient
<1>3. ASSUME NEW x \in Xtcp, CloseClient(x) \/ CloseCh(x) \/ ServesEnd(x)
      PROVE  VisitInv'
  BY <1>3 DEF CloseClient, CloseCh, ServesEnd
<1>4. ASSUME NEW x \in Xtcp, Serve(x)
      PROVE  VisitInv'
  <2>1. ASSUME NEW v \in Visit, TakeSid(x, v)
        PROVE  VisitInv'
    BY <2>1 DEF TakeSid
  <2>2. CASE PassSid(x) \/ DropSid(x)
    BY <2>2 DEF PassSid, DropSid
  <2>3. QED
    BY <1>4, <2>1, <2>2 DEF Serve
<1>5. ASSUME NEW v \in Visit, NEW n \in XName, HandleVisitor(v, n)
      PROVE  VisitInv'
  <2>1. /\ clientCfgs[n] \in Xtcp /\ xtcp[clientCfgs[n]] = "listening"
        /\ serves[clientCfgs[n]] # "none"
    BY <1>5 DEF HandleVisitor, EntriesOwn, ListeningIsFound
  <2>2. QED
    BY <1>5, <2>1 DEF HandleVisitor
<1>6. ASSUME NEW v \in Visit, VisitRefused(v) \/ HandleClient(v) \/ Decide(v) \/ Timeout(v) \/ Expire(v)
      PROVE  VisitInv'
  BY <1>6 DEF VisitRefused, HandleClient, Decide, Timeout, Expire
<1>7. CASE UNCHANGED holeVars
  BY <1>7 DEF holeVars
<1>8. QED
  BY <1>2, <1>3, <1>4, <1>5, <1>6, <1>7 DEF HoleNext

(* A session belongs to a visit whose timers will end it, or that is about *)
(* to hand over its sid: to a goroutine that takes it, now or when it is   *)
(* done with that of another visit, unless the proxy is closed.            *)
SessionsHaveAnEnd ==
    \A v \in sessions :
        \/ visit[v] = "sending" /\ serves[sidCh[v]] = "select"
        \/ visit[v] = "sending" /\ serves[sidCh[v]] \in {u \in Visit : visit[u] # "sending"}
        \/ visit[v] = "sending" /\ xtcp[sidCh[v]] = "closed"
        \/ visit[v] \in {"waiting", "answered"}

(* No session of a hole that is to be punched is kept without a visit that *)
(* removes it, and what a visit waits for does not wait for it in turn:    *)
(* the close of the proxy is all that can leave one behind.                *)
THEOREM SessionsAreNotLost == HoleSpec => []SessionsHaveAnEnd
<1>1. VisitInv => SessionsHaveAnEnd
  BY DEF VisitInv, SessionsOfVisits, SidsAreTaken, TakenIsSent, HoleInv, HoleTypeOK, SessionsHaveAnEnd
<1>2. QED
  BY <1>1, VisitInit_Inv, VisitNext_Inv, PTL DEF HoleSpec

-----------------------------------------------------------------------------
(* The udp tunnel                                                          *)

(* Without a bandwidth limit at the server: a connection that is open      *)
(* there is the last one it got, and was adopted or is about to be.        *)
OpenIsHeld == LimitedAt # "server" => \A w \in WorkConn : srvOpen[w] => w = held /\ asker # "asking"

(* While the asker waits, the last one it got is the one it uses.          *)
WaitsOnHeld == asker = "waiting" => current = held

(* A reader other than that of the current connection has ended, and one   *)
(* that reports has closed its connection before.                          *)
ReaderIsCurrent ==
    \A w \in WorkConn : reads[w] \in {"reading", "reporting"} =>
        /\ w = current /\ asker \in {"waiting", "ended"}
        /\ reads[w] = "reporting" /\ LimitedAt # "server" => ~srvOpen[w]

(* Each connection is got once.                                            *)
GotOnce ==
    /\ \A w \in WorkConn : arrive[w] = "none" => w # held /\ w # current
    /\ asker = "got" => held # current

UdpInv == UdpTypeOK /\ OpenIsHeld /\ WaitsOnHeld /\ ReaderIsCurrent /\ GotOnce

LEMMA UdpInit_Inv == UdpInit => UdpInv
  BY UdpAssumption DEF UdpInit, UdpInv, UdpTypeOK, OpenIsHeld, WaitsOnHeld, ReaderIsCurrent, GotOnce

LEMMA UdpNext_Inv == UdpInv /\ [UdpNext]_udpVars => UdpInv'
<1> SUFFICES ASSUME UdpInv, [UdpNext]_udpVars
             PROVE  UdpInv'
  OBVIOUS
<1> USE UdpAssumption DEF UdpInv, UdpTypeOK, OpenIsHeld, WaitsOnHeld, ReaderIsCurrent, GotOnce,
                          Shut, ServerShut, ClientShut, srvVars, cliVars
<1>1. ASSUME NEW w \in WorkConn, GetWork(w)
      PROVE  UdpInv'
  BY <1>1 DEF GetWork
<1>2. CASE GiveUp \/ SeeClosed
  BY <1>2 DEF GiveUp, SeeClosed
<1>3. CASE Adopt
  BY <1>3 DEF Adopt
<1>4. CASE AdoptFails
  BY <1>4 DEF AdoptFails
<1>5. ASSUME NEW w \in WorkConn, TakeReport(w)
      PROVE  UdpInv'
  BY <1>5 DEF TakeReport
<1>6. ASSUME NEW w \in WorkConn, Reading(w) \/ WriteBreaks(w)
      PROVE  UdpInv'
  <2>1. CASE ReadBreaks(w)
    <3>1. /\ reads[w] = "reading" /\ reads' = [reads EXCEPT ![w] = "reporting"]
          /\ srvOpen' = ServerShut(w)
          /\ UNCHANGED <<udp, asker, held, current, forward, cliVars, cliOpen>>
      BY <2>1 DEF ReadBreaks
    <3>2. /\ srvOpen' \in [WorkConn -> BOOLEAN]
          /\ \A x \in WorkConn : srvOpen'[x] => srvOpen[x]
          /\ LimitedAt # "server" => ~srvOpen'[w]
      BY <3>1
    <3>3. UdpTypeOK'
      BY <3>1, <3>2
    <3>4. OpenIsHeld' /\ WaitsOnHeld' /\ GotOnce'
      BY <3>1, <3>2
    <3>5. ReaderIsCurrent'
      BY <3>1, <3>2
    <3>6. QED
      BY <3>3, <3>4, <3>5
  <2>2. CASE ReadTooLate(w)
    BY <2>2 DEF ReadTooLate
  <2>3. CASE ReportLost(w)
    BY <2>3 DEF ReportLost
  <2>4. CASE WriteBreaks(w)
    BY <2>4 DEF WriteBreaks
  <2>5. QED
    BY <1>6, <2>1, <2>2, <2>3, <2>4 DEF Reading
<1>7. CASE Forwarding
  BY <1>7 DEF Forwarding, ReadUser, PassOn, PassPanics, ForwardEnds
<1>8. CASE CloseConns \/ CloseChans
  BY <1>8 DEF CloseConns, CloseChans
<1>9. CASE ClientStop
  BY <1>9 DEF ClientStop, CloseClientConn
<1>10. ASSUME NEW w \in WorkConn, Arriving(w)
       PROVE  UdpInv'
  <2>1. CASE Dispatch(w)
    <3>1. cliOpen' \in [WorkConn -> BOOLEAN]
      BY <2>1 DEF Dispatch
    <3>2. arrive'[w] # "none" /\ \A x \in WorkConn \ {w} : arrive'[x] = arrive[x]
      BY <2>1 DEF Dispatch
    <3>3. arrive' \in [WorkConn -> {"none", "told", "refused", "called", "cleared", "stored"}]
      BY <2>1 DEF Dispatch
    <3>4. QED
      BY <2>1, <3>1, <3>2, <3>3 DEF Dispatch
  <2>2. CASE ClearOld(w)
    BY <2>2 DEF ClearOld, CloseClientConn
  <2>3. CASE Store(w)
    BY <2>3 DEF Store
  <2>4. CASE StoreFails(w)
    BY <2>4 DEF StoreFails
  <2>5. QED
    BY <1>10, <2>1, <2>2, <2>3, <2>4 DEF Arriving
<1>11. CASE UNCHANGED udpVars
  BY <1>11 DEF udpVars
<1>12. QED
  BY <1>1, <1>2, <1>3, <1>4, <1>5, <1>6, <1>7, <1>8, <1>9, <1>10, <1>11
     DEF UdpNext, Server, Asking

(* Unless the server limits the bandwidth of the proxy, it has one work    *)
(* connection of it open at a time, however its end, the client's end and  *)
(* the proxy are closed.                                                   *)
THEOREM OneWorkConnOpen == UdpSpec => [](LimitedAt # "server" => OneWorkConn)
<1>1. UdpInv => (LimitedAt # "server" => OneWorkConn)
  BY DEF UdpInv, OpenIsHeld, OneWorkConn
<1>2. QED
  BY <1>1, UdpInit_Inv, UdpNext_Inv, PTL DEF UdpSpec

(* A connection that is open at the client has not been refused, and one   *)
(* that was stored is the one that Close closes, unless it has escaped.    *)
OpenIsHandled ==
    \A w \in WorkConn : cliOpen[w] => arrive[w] \in {"told", "called", "cleared", "stored"}

StoredIsCurrent ==
    LimitedAt # "client" =>
        \A w \in WorkConn \ strayed :
            cliOpen[w] /\ arrive[w] = "stored" => w = ccurrent /\ ~cclosed

StopCloses == stopped => cclosed \/ ccurrent \in strayed

EndInv == UdpTypeOK /\ OpenIsHandled /\ StoredIsCurrent /\ StopCloses

(* When the client has stopped the proxy, a connection that is still open  *)
(* and was not itself stored after the stop, or covered by another store   *)
(* while it was open, is in the hands of a goroutine that has not stored   *)
(* it: it will be refused and closed, or stored and so have strayed.       *)
StopLeavesNone ==
    stopped => \A w \in WorkConn \ strayed :
        cliOpen[w] => arrive[w] \in {"told", "called", "cleared"}

LEMMA EndInit_Inv == UdpInit => EndInv
  BY UdpInit_Inv DEF UdpInv, UdpInit, EndInv, OpenIsHandled, StoredIsCurrent, StopCloses

LEMMA EndNext_Inv == UdpInv /\ EndInv /\ [UdpNext]_udpVars => EndInv'
<1> SUFFICES ASSUME UdpInv, EndInv, [UdpNext]_udpVars
             PROVE  EndInv'
  OBVIOUS
<1>1. UdpTypeOK'
  BY UdpNext_Inv DEF UdpInv
<1> USE UdpAssumption, <1>1 DEF EndInv, OpenIsHandled, StoredIsCurrent, StopCloses, UdpTypeOK,
                                     Shut, ClientShut
<1>2. ASSUME NEW w \in WorkConn, GetWork(w)
      PROVE  EndInv'
  BY <1>2 DEF GetWork
<1>3. ASSUME UNCHANGED <<cliVars, cliOpen>>
      PROVE  EndInv'
  BY <1>3 DEF cliVars
<1>4. CASE ClientStop
  BY <1>4 DEF ClientStop, CloseClientConn
<1>5. ASSUME NEW w \in WorkConn, Dispatch(w)
      PROVE  EndInv'
  BY <1>5 DEF Dispatch
<1>6. ASSUME NEW w \in WorkConn, ClearOld(w)
      PROVE  EndInv'
  BY <1>6 DEF ClearOld, CloseClientConn
<1>7. ASSUME NEW w \in WorkConn, Store(w)
      PROVE  EndInv'
  BY <1>7 DEF Store
<1>8. ASSUME NEW w \in WorkConn, StoreFails(w)
      PROVE  EndInv'
  BY <1>8 DEF StoreFails
<1>9. \/ \E w \in WorkConn : GetWork(w) \/ Arriving(w)
      \/ ClientStop
      \/ UNCHANGED <<cliVars, cliOpen>>
  BY DEF UdpNext, Server, Asking, Forwarding, Reading, GiveUp, Adopt, AdoptFails, SeeClosed, TakeReport,
         ReadUser, PassOn, PassPanics, ForwardEnds, CloseConns, CloseChans, ReadBreaks, ReadTooLate,
         ReportLost, WriteBreaks, udpVars
<1>10. QED
  BY <1>2, <1>3, <1>4, <1>5, <1>6, <1>7, <1>8, <1>9 DEF Arriving

(* Unless the client limits the bandwidth of the proxy: Wrapper.Stop       *)
(* closes every connection that the client has stored by then and not      *)
(* covered, whichever others have escaped.                                 *)
THEOREM StopMissesOnlyStrays == UdpSpec => [](LimitedAt # "client" => StopLeavesNone)
<1>1. EndInv => (LimitedAt # "client" => StopLeavesNone)
  BY DEF EndInv, OpenIsHandled, StoredIsCurrent, StopCloses, StopLeavesNone
<1>2. QED
  BY <1>1, EndInit_Inv, EndNext_Inv, UdpInit_Inv, UdpNext_Inv, PTL DEF UdpSpec

-----------------------------------------------------------------------------
(* The analysis of the two ends                                            *)

(* An entry of a record names a behaviour of the table of its mode. *)
Entry ==
    {e \in [mode : 0..4, index : Nat, score : Int] : e.index \in 1..Behaviors[e.mode]}

(* A new record starts with scores of 0 and 1. *)
FreshEntry == {e \in Entry : e.score \in {0, 1}}

LEMMA ByModeFresh ==
    ASSUME NEW m \in 0..4, NEW a \in {0, 1}, NEW b \in {0, 1}
    PROVE  ByMode(m, a, b) \in Seq(FreshEntry)
<1>1. Behaviors[m] \in Nat
  BY DEF Behaviors
<1>2. \A i \in 1..Behaviors[m] :
         [mode |-> m, index |-> i, score |-> IF SenderFirst(m, i) THEN a ELSE b] \in FreshEntry
  BY <1>1 DEF FreshEntry, Entry
<1>3. QED
  BY <1>1, <1>2 DEF ByMode

LEMMA NewRecordsFresh ==
    ASSUME NEW c, NEW v, NEW cPublic \in BOOLEAN, NEW vPublic \in BOOLEAN
    PROVE  NewRecords(c, v, cPublic, vPublic) \in Seq(FreshEntry)
<1> DEFINE easy == Mode0(cPublic, vPublic)
<1>1. easy \in Seq(FreshEntry)
  <2>1. One(~cPublic /\ vPublic) \in {0, 1} /\ One(cPublic) \in {0, 1}
    BY DEF One
  <2>2. \A m \in 0..4 : \A a, b \in {0, 1} : ByMode(m, a, b) \in Seq(FreshEntry)
    BY ByModeFresh
  <2>3. ByMode(0, One(~cPublic /\ vPublic), One(cPublic)) \in Seq(FreshEntry)
    BY <2>1, <2>2, 0 \in 0..4, Zenon
  <2>4. QED
    BY <2>3 DEF Mode0
<1> HIDE DEF easy
<1>2. \A m \in 0..4 : ByMode(m, 0, 0) \in Seq(FreshEntry) /\ ByMode(m, 1, 1) \in Seq(FreshEntry)
  BY ByModeFresh
<1>3. /\ ByMode(1, 0, 0) \o ByMode(2, 0, 0) \o easy \in Seq(FreshEntry)
      /\ ByMode(2, 0, 0) \o ByMode(1, 0, 0) \o easy \in Seq(FreshEntry)
      /\ ByMode(3, 0, 0) \o ByMode(4, 0, 0) \in Seq(FreshEntry)
      /\ ByMode(0, 1, 1) \o ByMode(1, 1, 1) \o ByMode(3, 1, 1) \in Seq(FreshEntry)
  <2>1. \A s, t \in Seq(FreshEntry) : s \o t \in Seq(FreshEntry)
    OBVIOUS
  <2> QED
    BY <1>1, <1>2, <2>1
<1>4. \/ NewRecords(c, v, cPublic, vPublic) = easy
      \/ NewRecords(c, v, cPublic, vPublic) = ByMode(1, 0, 0) \o ByMode(2, 0, 0) \o easy
      \/ NewRecords(c, v, cPublic, vPublic) = ByMode(2, 0, 0) \o ByMode(1, 0, 0) \o easy
      \/ NewRecords(c, v, cPublic, vPublic) = ByMode(3, 0, 0) \o ByMode(4, 0, 0)
      \/ NewRecords(c, v, cPublic, vPublic) = ByMode(4, 0, 0)
      \/ NewRecords(c, v, cPublic, vPublic) = ByMode(0, 1, 1) \o ByMode(1, 1, 1) \o ByMode(3, 1, 1)
  BY DEF NewRecords, easy
<1>5. ByMode(4, 0, 0) \in Seq(FreshEntry)
  BY <1>2
<1>6. QED
  BY <1>1, <1>3, <1>4, <1>5, Zenon

(* Until a success is reported, what an entry has lost in score it was     *)
(* recommended, so that scores tell how often each was tried.              *)
ScoresCount ==
    reports = 0 => \A i \in DOMAIN tries : scores[i].score + tries[i] \in {0, 1}

(* An entry that is recommended has the best score, and so was tried at    *)
(* most once more than any other: with ScoresCount this gives TriesSpread. *)
NatInv ==
    /\ NatTypeOK
    /\ scores \in Seq(Entry) /\ tries \in [DOMAIN scores -> Nat]
    /\ RolesFit /\ ScoresCount /\ TriesSpread

LEMMA NatInit_Inv == NatInit => NatInv
  BY NatAssumption DEF NatInit, NatInv, NatTypeOK, RolesFit, ScoresCount, TriesSpread

(* Whether the client is told to send. *)
Sends(e, c) == SenderFirst(e.mode, e.index) # Turned(e.mode, c)

(* The role that is sent is the one the mode asks for. *)
LEMMA RolesSent ==
    ASSUME NEW e \in Entry, NEW c, NEW v, e.mode \in {1, 2, 4}
    PROVE  /\ e.mode = 1 /\ Hard(c) # Hard(v) => Sends(e, c) = Hard(c)
           /\ e.mode = 2 /\ Hard(c) # Hard(v) => Sends(e, c) = Hard(v)
           /\ e.mode = 4 /\ Regular(c) # Regular(v) => Sends(e, c) = Regular(c)
<1>1. SenderFirst(e.mode, e.index)
  BY DEF SenderFirst
<1>2. Hard(c) \in BOOLEAN /\ Hard(v) \in BOOLEAN /\ Regular(c) \in BOOLEAN /\ Regular(v) \in BOOLEAN
  BY DEF Hard, Regular
<1>3. Sends(e, c) = ~Turned(e.mode, c)
  BY <1>1 DEF Sends, Turned
<1>4. CASE e.mode = 1
  BY <1>2, <1>3, <1>4 DEF Turned
<1>5. CASE e.mode = 2
  BY <1>2, <1>3, <1>5 DEF Turned
<1>6. CASE e.mode = 4
  BY <1>2, <1>3, <1>6 DEF Turned
<1>7. QED
  BY <1>4, <1>5, <1>6

LEMMA Recommand_Inv ==
    ASSUME NatInv, NEW cPublic \in BOOLEAN, NEW vPublic \in BOOLEAN, Recommand(cPublic, vPublic)
    PROVE  NatInv'
<1> DEFINE s == IF scores = <<>> THEN NewRecords(ends.client, ends.visitor, cPublic, vPublic) ELSE scores
           t == IF scores = <<>> THEN [i \in DOMAIN s |-> 0] ELSE tries
<1>1. s \in Seq(Entry)
  <2>1. \A x \in Seq(FreshEntry) : x \in Seq(Entry)
    BY DEF FreshEntry
  <2>2. QED
    BY <2>1, NewRecordsFresh DEF NatInv
<1>2. t \in [DOMAIN s -> Nat]
  BY DEF NatInv
<1>3. reports = 0 => \A i \in DOMAIN s : s[i].score + t[i] \in {0, 1}
  <2>1. CASE scores = <<>>
    <3>1. s \in Seq(FreshEntry)
      BY <2>1, NewRecordsFresh
    <3>2. \A i \in DOMAIN s : t[i] = 0 /\ s[i].score \in {0, 1}
      BY <2>1, <3>1 DEF FreshEntry
    <3>3. QED
      BY <3>2
  <2>2. CASE scores # <<>>
    BY <2>2 DEF NatInv, ScoresCount, NatTypeOK
  <2>3. QED
    BY <2>1, <2>2
<1>4. reports = 0 => \A i, j \in DOMAIN s : t[i] <= t[j] + 2
  BY DEF NatInv, TriesSpread, NatTypeOK
<1> HIDE DEF s, t
<1>5. PICK b \in DOMAIN s :
        /\ IsBest(s, b)
        /\ scores' = [s EXCEPT ![b] = WithScore(@, @.score - 1)]
        /\ tries' = [t EXCEPT ![b] = @ + 1]
        /\ answer' = [mode |-> s[b].mode, sent |-> TRUE,
                      clientSends |-> SenderFirst(s[b].mode, s[b].index) # Turned(s[b].mode, ends.client)]
        /\ UNCHANGED <<ends, reports>>
  BY DEF Recommand, s, t
<1>6. s[b] \in Entry
  BY <1>1
<1>7. scores' \in Seq(Entry) /\ DOMAIN scores' = DOMAIN s
  <2>1. WithScore(s[b], s[b].score - 1) \in Entry
    BY <1>6 DEF Entry, WithScore
  <2>2. QED
    BY <1>1, <1>5, <2>1
<1>8. tries' \in [DOMAIN scores' -> Nat]
  BY <1>2, <1>5, <1>7
<1>9. NatTypeOK'
  BY <1>5, <1>7, <1>8 DEF NatTypeOK, NatInv, Entry
<1>10. RolesFit'
  <2>1. /\ answer'.mode = s[b].mode /\ answer'.clientSends = Sends(s[b], ends.client)
        /\ ends' = ends
    BY <1>5 DEF Sends
  <2>2. CASE s[b].mode \in {1, 2, 4}
    BY <1>6, <2>1, <2>2, RolesSent DEF RolesFit
  <2>3. CASE s[b].mode \notin {1, 2, 4}
    BY <2>1, <2>3 DEF RolesFit
  <2>4. QED
    BY <2>2, <2>3
<1>11. /\ scores'[b].score = s[b].score - 1 /\ tries'[b] = t[b] + 1
       /\ \A i \in DOMAIN s \ {b} : scores'[i] = s[i] /\ tries'[i] = t[i]
  BY <1>1, <1>2, <1>5, <1>6 DEF Entry, WithScore
<1>12. \A i \in DOMAIN s : s[i].score \in Int /\ t[i] \in Nat
  BY <1>1, <1>2 DEF Entry
<1>13. ScoresCount'
  BY <1>3, <1>5, <1>7, <1>8, <1>11, <1>12 DEF ScoresCount
<1>14. TriesSpread'
  <2> SUFFICES ASSUME reports = 0, NEW i \in DOMAIN s, NEW j \in DOMAIN s
               PROVE  tries'[i] <= tries'[j] + 2
    BY <1>5, <1>7, <1>8 DEF TriesSpread
  <2>1. s[j].score <= s[b].score
    BY <1>5 DEF IsBest
  <2>2. t[i] <= t[j] + 2
    BY <1>4
  <2>3. t[b] <= t[j] + 1
    BY <1>3, <1>12, <2>1
  <2>4. QED
    BY <1>11, <1>12, <2>2, <2>3
<1>15. QED
  BY <1>7, <1>8, <1>9, <1>10, <1>13, <1>14 DEF NatInv

LEMMA ReportSuccess_Inv ==
    ASSUME NatInv, NEW i \in DOMAIN tries, ReportSuccess(i)
    PROVE  NatInv'
<1> DEFINE e == WithScore(scores[i], IF scores[i].score + 2 > 10 THEN 10 ELSE scores[i].score + 2)
<1>1. scores[i] \in Entry
  BY DEF NatInv
<1>2. e \in Entry
  BY <1>1 DEF Entry, WithScore
<1>3. scores' = [scores EXCEPT ![i] = e]
  BY DEF ReportSuccess
<1> HIDE DEF e
<1>4. scores' \in Seq(Entry) /\ DOMAIN scores' = DOMAIN scores
  BY <1>2, <1>3 DEF NatInv
<1>5. reports' # 0 /\ reports' \in 0..MaxReports
  BY NatAssumption DEF ReportSuccess, NatInv, NatTypeOK
<1>6. QED
  BY <1>4, <1>5 DEF ReportSuccess, NatInv, NatTypeOK, RolesFit, ScoresCount, TriesSpread, Entry

LEMMA NatNext_Inv == NatInv /\ [NatNext]_natVars => NatInv'
<1> SUFFICES ASSUME NatInv, [NatNext]_natVars
             PROVE  NatInv'
  OBVIOUS
<1>1. ASSUME NEW cPublic \in BOOLEAN, NEW vPublic \in BOOLEAN, Recommand(cPublic, vPublic)
      PROVE  NatInv'
  BY <1>1, Recommand_Inv
<1>2. ASSUME NEW i \in DOMAIN tries, ReportSuccess(i)
      PROVE  NatInv'
  BY <1>2, ReportSuccess_Inv
<1>3. CASE Clean
  BY <1>3, NatAssumption DEF Clean, NatInv, NatTypeOK, RolesFit, ScoresCount, TriesSpread
<1>4. CASE UNCHANGED natVars
  BY <1>4 DEF natVars, NatInv, NatTypeOK, RolesFit, ScoresCount, TriesSpread
<1>5. QED
  BY <1>1, <1>2, <1>3, <1>4 DEF NatNext

LEMMA NatInvariant == NatSpec => []NatInv
  BY NatInit_Inv, NatNext_Inv, PTL DEF NatSpec

(* Whatever the two ends were found to be, and whichever of them asks, the *)
(* roles sent to them are those the mode of the behaviour asks for.        *)
THEOREM RolesAlwaysFit == NatSpec => []RolesFit
  BY NatInvariant, PTL DEF NatInv

(* A record nobody reported a success of tries every behaviour before it   *)
(* tries one a third time, however often the public network came and went. *)
THEOREM TriesAlwaysSpread == NatSpec => []TriesSpread
  BY NatInvariant, PTL DEF NatInv

-----------------------------------------------------------------------------
(* frps as a whole                                                         *)

(* A step of the whole is a step of one part and leaves the others alone.  *)
LEMMA PartsStep ==
    ASSUME [PartsNext]_parts
    PROVE  /\ [Next]_vars /\ [GroupNext]_groupVars /\ [HttpNext]_httpVars /\ [HoleNext]_holeVars
           /\ [NatNext]_natVars /\ [UdpNext]_udpVars /\ [RouterNext]_indexByDomain
<1>1. CASE UNCHANGED parts
  BY <1>1, Zenon DEF parts
<1>2. CASE PartsNext
  BY <1>2, Zenon DEF PartsNext
<1>3. QED
  BY <1>1, <1>2

(* The parts that MCFrps lets run side by side are those of the modules:   *)
(* each keeps to its own specification, so that what is proved of a part   *)
(* holds of it in the whole.                                               *)
THEOREM PartsKeepTheirSpecs ==
    PartsSpec => Spec /\ GroupSpec /\ HttpSpec /\ HoleSpec /\ NatSpec /\ UdpSpec /\ RouterSpec
<1>1. PartsInit => /\ Init /\ GroupInit /\ HttpInit /\ HoleInit
                   /\ NatInit /\ UdpInit /\ RouterInit
  BY DEF PartsInit
<1>2. [PartsNext]_parts =>
        /\ [Next]_vars /\ [GroupNext]_groupVars /\ [HttpNext]_httpVars /\ [HoleNext]_holeVars
        /\ [NatNext]_natVars /\ [UdpNext]_udpVars /\ [RouterNext]_indexByDomain
  BY PartsStep
<1>3. QED
  BY <1>1, <1>2, PTL
     DEF PartsSpec, Spec, GroupSpec, HttpSpec, HoleSpec, NatSpec, UdpSpec, RouterSpec

(* Every variable of every part has its type, in every behaviour of frps.  *)
THEOREM FrpsTyped == PartsSpec => []FrpsTypesOK
<1>1. TypeOK /\ GroupInv /\ HttpInv /\ HoleInv /\ NatInv /\ UdpInv /\ RouterInv => FrpsTypesOK
  BY DEF GroupInv, HttpInv, HoleInv, NatInv, UdpInv, RouterInv, FrpsTypesOK
<1>2. UdpSpec => []UdpInv
  BY UdpInit_Inv, UdpNext_Inv, PTL DEF UdpSpec
<1>3. QED
  BY <1>1, <1>2, PartsKeepTheirSpecs, HandshakeTyped, GroupInvariant, HttpInvariant,
     HoleInvariant, NatInvariant, RouterInvariant, PTL
=============================================================================
