------------------------- MODULE PortManagerProofs -------------------------
(* Theorems about PortManager, for any sets of proxies, names and ports. *)
EXTENDS PortManager, TLAPS

-----------------------------------------------------------------------------
(* Types.                                                                  *)
(*                                                                         *)
(* A release is by number and Acquire reuses the number in a reservation:  *)
(* both numbers are ports because whoever carries one has acquired it.     *)

Holding == {"acquired", "listening", "unbound"}

Places ==
    /\ \A x \in Proxy : pc[x] = "new" => asked[x] = Nobody
    /\ \A x \in Proxy : pc[x] \in Holding \/ again[x] => real[x] \in AllowPort
    /\ \A n \in PxyName : reserved[n] # Nobody =>
          pc[reserved[n]] # "new" /\ real[reserved[n]] \in AllowPort
    /\ netType = "tcp" => \A x \in Proxy : ~again[x]

(* The three ways to acquire a port have the same effect. *)
Acquires(x, n) == AcquireKept(x, n) \/ AcquireAny(x, n) \/ AcquireFixed(x, n)

LEMMA GrantsPort ==
  ASSUME PortTypeOK, Places, NEW x \in Proxy, NEW n \in PxyName, Acquires(x, n)
  PROVE  \E r \in RemotePorts, p \in AllowPort : Configure(x, n, r) /\ Grant(x, n, p)
<1>1. CASE AcquireKept(x, n)
  <2>1. real[reserved[n]] \in AllowPort
    BY <1>1 DEF AcquireKept, Kept, Places
  <2>2. QED
    BY <1>1, <2>1 DEF AcquireKept, Configure
<1>2. CASE AcquireAny(x, n)
  BY <1>2 DEF AcquireAny, Configure, PortTypeOK
<1>3. CASE AcquireFixed(x, n)
  BY <1>3 DEF AcquireFixed, Configure
<1>4. QED
  BY <1>1, <1>2, <1>3 DEF Acquires

LEMMA ReleaseType ==
  ASSUME PortTypeOK, NEW p \in AllowPort, ReleasePort(p)
  PROVE  /\ free' \subseteq AllowPort
         /\ usedPorts' \in [AllowPort -> Proxy \cup {Nobody}]
         /\ ctx' \in [Proxy -> CtxAge]
  BY DEF PortTypeOK, ReleasePort, CtxAge

LEMMA TypeStep == PortTypeOK /\ Places /\ [PortNext]_portVars => PortTypeOK'
<1> SUFFICES ASSUME PortTypeOK, Places, [PortNext]_portVars PROVE PortTypeOK'
  OBVIOUS
<1>1. ASSUME NEW x \in Proxy, NEW n \in PxyName, Acquires(x, n) PROVE PortTypeOK'
  <2>1. PICK r \in RemotePorts, p \in AllowPort : Configure(x, n, r) /\ Grant(x, n, p)
    BY <1>1, GrantsPort
  <2>2. QED
    BY <2>1 DEF Configure, Grant, PortTypeOK, Place
<1>2. ASSUME NEW x \in Proxy, NEW n \in PxyName, AcquireFails(x, n) PROVE PortTypeOK'
  BY <1>2 DEF AcquireFails, Configure, PortTypeOK, Place
<1>3. ASSUME NEW x \in Proxy, Listen(x) PROVE PortTypeOK'
  BY <1>3 DEF Listen, PortTypeOK, Place
<1>4. ASSUME NEW x \in Proxy, ListenFails(x) PROVE PortTypeOK'
  BY <1>4 DEF ListenFails, PortTypeOK, Place
<1>5. ASSUME NEW x \in Proxy, CloseSocket(x) PROVE PortTypeOK'
  <2>1. (netType = "udp") \in BOOLEAN
    OBVIOUS
  <2>2. again' \in [Proxy -> BOOLEAN]
    BY <1>5, <2>1 DEF CloseSocket, PortTypeOK
  <2>3. QED
    BY <1>5, <2>2 DEF CloseSocket, PortTypeOK, Place
<1>6. ASSUME NEW x \in Proxy, Release(x) PROVE PortTypeOK'
  <2>1. real[x] \in AllowPort
    BY <1>6 DEF Release, Places, Holding
  <2>2. QED
    BY <1>6, <2>1, ReleaseType DEF Release, PortTypeOK, Place
<1>7. ASSUME NEW x \in Proxy, CloseAgain(x) PROVE PortTypeOK'
  <2>1. real[x] \in AllowPort
    BY <1>7 DEF CloseAgain, Places
  <2>2. again' \in [Proxy -> BOOLEAN]
    BY <1>7 DEF CloseAgain, PortTypeOK
  <2>3. QED
    BY <1>7, <2>1, <2>2, ReleaseType DEF CloseAgain, PortTypeOK
<1>8. ASSUME NEW x \in Proxy, Expires(x) PROVE PortTypeOK'
  BY <1>8 DEF Expires, PortTypeOK, CtxAge
<1>9. CASE CleanReservedPorts
  BY <1>9 DEF CleanReservedPorts, PortTypeOK
<1>10. ASSUME NEW p \in AllowPort, OtherListens(p) \/ OtherCloses(p) PROVE PortTypeOK'
  BY <1>10 DEF OtherListens, OtherCloses, PortTypeOK
<1>11. CASE UNCHANGED portVars
  BY <1>11 DEF portVars, PortTypeOK
<1>12. QED
  BY <1>1, <1>2, <1>3, <1>4, <1>5, <1>6, <1>7, <1>8, <1>9, <1>10, <1>11
     DEF PortNext, Acquire, Acquires

LEMMA PlacesStep == PortTypeOK /\ Places /\ [PortNext]_portVars => Places'
<1> SUFFICES ASSUME PortTypeOK, Places, [PortNext]_portVars PROVE Places'
  OBVIOUS
<1> USE PortAssumption
<1>1. ASSUME NEW x \in Proxy, NEW n \in PxyName, Acquires(x, n) PROVE Places'
  <2>1. PICK r \in RemotePorts, p \in AllowPort : Configure(x, n, r) /\ Grant(x, n, p)
    BY <1>1, GrantsPort
  <2>2. \A m \in PxyName : reserved'[m] # Nobody => reserved'[m] = x \/ reserved'[m] = reserved[m]
    BY <2>1 DEF Grant, PortTypeOK
  <2>3. \A y \in Proxy : IF y = x THEN pc'[y] = "acquired" /\ real'[y] = p
                                  ELSE pc'[y] = pc[y] /\ real'[y] = real[y] /\ asked'[y] = asked[y]
    BY <2>1 DEF Configure, Grant, PortTypeOK
  <2>4. again' = again /\ netType' = netType
    BY <2>1 DEF Grant
  <2>5. \A m \in PxyName : reserved[m] # Nobody => reserved[m] \in Proxy
    BY DEF PortTypeOK
  <2>6. QED
    BY <2>2, <2>3, <2>4, <2>5 DEF Places, Holding
<1>2. ASSUME NEW x \in Proxy, NEW n \in PxyName, AcquireFails(x, n) PROVE Places'
  BY <1>2 DEF AcquireFails, Configure, PortTypeOK, Places, Holding
<1>3. ASSUME NEW x \in Proxy, Listen(x) PROVE Places'
  BY <1>3 DEF Listen, PortTypeOK, Places, Holding
<1>4. ASSUME NEW x \in Proxy, ListenFails(x) PROVE Places'
  BY <1>4 DEF ListenFails, PortTypeOK, Places, Holding
<1>5. ASSUME NEW x \in Proxy, CloseSocket(x) PROVE Places'
  <2>1. \A y \in Proxy : again'[y] => again[y] \/ (y = x /\ netType = "udp")
    BY <1>5 DEF CloseSocket, PortTypeOK
  <2>2. real[x] \in AllowPort
    BY <1>5 DEF CloseSocket, Places, Holding
  <2>3. \A y \in Proxy : pc'[y] = pc[y] \/ (y = x /\ pc'[y] = "unbound")
    BY <1>5 DEF CloseSocket, PortTypeOK
  <2>4. pc[x] = "listening" /\ UNCHANGED <<netType, asked, real, reserved>>
    BY <1>5 DEF CloseSocket
  <2>5. QED
    BY <2>1, <2>2, <2>3, <2>4 DEF PortTypeOK, Places, Holding
<1>6. ASSUME NEW x \in Proxy, Release(x) PROVE Places'
  BY <1>6 DEF Release, PortTypeOK, Places, Holding
<1>7. ASSUME NEW x \in Proxy, CloseAgain(x) PROVE Places'
  BY <1>7 DEF CloseAgain, PortTypeOK, Places, Holding
<1>8. ASSUME NEW x \in Proxy, Expires(x) PROVE Places'
  BY <1>8 DEF Expires, PortTypeOK, Places
<1>9. CASE CleanReservedPorts
  BY <1>9 DEF CleanReservedPorts, PortTypeOK, Places
<1>10. ASSUME NEW p \in AllowPort, OtherListens(p) \/ OtherCloses(p) PROVE Places'
  BY <1>10 DEF OtherListens, OtherCloses, PortTypeOK, Places
<1>11. CASE UNCHANGED portVars
  BY <1>11 DEF portVars, Places
<1>12. QED
  BY <1>1, <1>2, <1>3, <1>4, <1>5, <1>6, <1>7, <1>8, <1>9, <1>10, <1>11
     DEF PortNext, Acquire, Acquires

LEMMA PlacesInvariant == PortSpec => [](PortTypeOK /\ Places)
<1>1. PortInit => PortTypeOK /\ Places
  BY PortAssumption DEF PortInit, PortTypeOK, Places, Place, CtxAge, Holding
<1>2. PortTypeOK /\ Places /\ [PortNext]_portVars => (PortTypeOK /\ Places)'
  BY TypeStep, PlacesStep
<1>3. QED
  BY <1>1, <1>2, PTL DEF PortSpec

(* Every variable keeps its type; in particular every release is of a port. *)
THEOREM PortsTyped == PortSpec => []PortTypeOK
  BY PlacesInvariant, PTL

-----------------------------------------------------------------------------
(* The ledger.                                                             *)

(* A release empties one place of the ledger and marks its context. *)
LEMMA ReleaseLedger ==
  ASSUME PortTypeOK, LedgerPartition, NEW p \in AllowPort, ReleasePort(p)
  PROVE  /\ LedgerPartition'
         /\ usedPorts'[p] = Nobody
         /\ \A q \in AllowPort : q # p => usedPorts'[q] = usedPorts[q]
         /\ usedPorts[p] # Nobody => ctx'[usedPorts[p]] = "closed"
         /\ \A y \in Proxy : ctx'[y] = ctx[y] \/ ctx'[y] = "closed"
<1>1. CASE usedPorts[p] = Nobody
  BY <1>1 DEF ReleasePort, LedgerPartition
<1>2. CASE usedPorts[p] # Nobody
  <2>1. usedPorts[p] \in Proxy
    BY <1>2 DEF PortTypeOK
  <2>2. /\ free' = free \cup {p}
        /\ usedPorts' = [usedPorts EXCEPT ![p] = Nobody]
        /\ ctx' = [ctx EXCEPT ![usedPorts[p]] = "closed"]
    BY <1>2 DEF ReleasePort
  <2>3. QED
    BY <1>2, <2>1, <2>2 DEF PortTypeOK, LedgerPartition
<1>3. QED
  BY <1>1, <1>2

LEMMA GrantLedger ==
  ASSUME PortTypeOK, NEW x \in Proxy, NEW n \in PxyName, NEW p \in AllowPort, Grant(x, n, p)
  PROVE  /\ LedgerPartition => LedgerPartition'
         /\ usedPorts'[p] = x
         /\ \A q \in AllowPort : q # p => usedPorts'[q] = usedPorts[q]
         /\ pc'[x] = "acquired" /\ real'[x] = p
         /\ \A y \in Proxy : y # x => pc'[y] = pc[y] /\ real'[y] = real[y]
         /\ \A m \in PxyName : reserved'[m] = reserved[m] \/ reserved'[m] = x
         /\ UNCHANGED <<netType, again, ctx>>
  BY PortAssumption DEF PortTypeOK, Grant, LedgerPartition

LEMMA LedgerStep == PortTypeOK /\ Places /\ LedgerPartition /\ [PortNext]_portVars => LedgerPartition'
<1> SUFFICES ASSUME PortTypeOK, Places, LedgerPartition, [PortNext]_portVars PROVE LedgerPartition'
  OBVIOUS
<1>1. ASSUME NEW x \in Proxy, NEW n \in PxyName, Acquires(x, n) PROVE LedgerPartition'
  BY <1>1, GrantsPort, GrantLedger
<1>2. ASSUME NEW x \in Proxy, Release(x) PROVE LedgerPartition'
  <2>1. real[x] \in AllowPort
    BY <1>2 DEF Release, Places, Holding
  <2>2. QED
    BY <1>2, <2>1, ReleaseLedger DEF Release
<1>3. ASSUME NEW x \in Proxy, CloseAgain(x) PROVE LedgerPartition'
  <2>1. real[x] \in AllowPort
    BY <1>3 DEF CloseAgain, Places
  <2>2. QED
    BY <1>3, <2>1, ReleaseLedger DEF CloseAgain
<1>4. CASE UNCHANGED <<free, usedPorts>>
  BY <1>4 DEF LedgerPartition
<1>5. QED
  BY <1>1, <1>2, <1>3, <1>4
     DEF PortNext, Acquire, Acquires, AcquireFails, Listen, ListenFails, CloseSocket, Expires,
         CleanReservedPorts, OtherListens, OtherCloses, portVars

(* No port is both free and used, none is neither: Manager.Release and     *)
(* Manager.Acquire move it from one set to the other, whoever calls them.  *)
THEOREM LedgerIsAPartition == PortSpec => []LedgerPartition
<1>1. PortInit => LedgerPartition
  BY DEF PortInit, LedgerPartition
<1>2. QED
  BY <1>1, LedgerStep, PlacesInvariant, PTL DEF PortSpec

LEMMA LostStep ==
  PortTypeOK /\ Places /\ LedgerPartition /\ NoPortLost /\ [PortNext]_portVars => NoPortLost'
<1> SUFFICES ASSUME PortTypeOK, Places, LedgerPartition, NoPortLost, [PortNext]_portVars PROVE NoPortLost'
  OBVIOUS
<1> USE PortAssumption
<1>1. ASSUME NEW x \in Proxy, NEW n \in PxyName, Acquires(x, n) PROVE NoPortLost'
  <2>1. PICK r \in RemotePorts, p \in AllowPort : Configure(x, n, r) /\ Grant(x, n, p)
    BY <1>1, GrantsPort
  <2>2. \A q \in AllowPort : usedPorts[q] # x
    BY <2>1 DEF Configure, NoPortLost, HoldsPort
  <2>3. \A q \in AllowPort : usedPorts[q] # Nobody => usedPorts[q] \in Proxy
    BY DEF PortTypeOK
  <2>4. QED
    BY <2>1, <2>2, <2>3, GrantLedger DEF NoPortLost, HoldsPort
<1>2. ASSUME NEW x \in Proxy, NEW n \in PxyName, AcquireFails(x, n) PROVE NoPortLost'
  BY <1>2 DEF AcquireFails, Configure, PortTypeOK, NoPortLost, HoldsPort
<1>3. ASSUME NEW x \in Proxy, Listen(x) \/ ListenFails(x) \/ CloseSocket(x) PROVE NoPortLost'
  BY <1>3 DEF Listen, ListenFails, CloseSocket, PortTypeOK, NoPortLost, HoldsPort
<1>4. ASSUME NEW x \in Proxy, Release(x) PROVE NoPortLost'
  <2>1. real[x] \in AllowPort
    BY <1>4 DEF Release, Places, Holding
  <2>2. \A q \in AllowPort : usedPorts'[q] # Nobody => q # real[x] /\ usedPorts'[q] = usedPorts[q]
    BY <1>4, <2>1, ReleaseLedger DEF Release
  <2>3. \A q \in AllowPort : usedPorts'[q] # Nobody => usedPorts[q] # x
    BY <2>2 DEF NoPortLost, HoldsPort
  <2>4. \A y \in Proxy : y # x => pc'[y] = pc[y] /\ real'[y] = real[y]
    BY <1>4 DEF Release, PortTypeOK
  <2>5. QED
    BY <2>2, <2>3, <2>4 DEF PortTypeOK, NoPortLost, HoldsPort
<1>5. ASSUME NEW x \in Proxy, CloseAgain(x) PROVE NoPortLost'
  <2>1. real[x] \in AllowPort
    BY <1>5 DEF CloseAgain, Places
  <2>2. \A q \in AllowPort : usedPorts'[q] # Nobody => usedPorts'[q] = usedPorts[q]
    BY <1>5, <2>1, ReleaseLedger DEF CloseAgain
  <2>3. QED
    BY <1>5, <2>2 DEF CloseAgain, NoPortLost, HoldsPort
<1>6. CASE UNCHANGED <<usedPorts, pc, real>>
  BY <1>6 DEF NoPortLost, HoldsPort
<1>7. QED
  BY <1>1, <1>2, <1>3, <1>4, <1>5, <1>6
     DEF PortNext, Acquire, Acquires, Expires, CleanReservedPorts, OtherListens, OtherCloses, portVars

(* A used port is held by a proxy that has not finished: neither a failed  *)
(* TCPProxy.Run or UDPProxy.Run nor a Close leaves a port behind.          *)
THEOREM PortsAreNotLost == PortSpec => []NoPortLost
<1>1. PortInit => NoPortLost
  BY DEF PortInit, NoPortLost
<1>2. QED
  BY <1>1, LostStep, LedgerIsAPartition, PlacesInvariant, PTL DEF PortSpec

-----------------------------------------------------------------------------
(* Owners, on a tcp manager when every remote port is given.               *)

LEMMA PlainBefore == PortTypeOK /\ Places /\ [PortNext]_portVars /\ Plain' => Plain
<1> SUFFICES ASSUME PortTypeOK, Places, [PortNext]_portVars, Plain' PROVE Plain
  OBVIOUS
<1> USE PortAssumption
<1>1. ASSUME NEW x \in Proxy, NEW n \in PxyName, Acquires(x, n) PROVE Plain
  <2>1. PICK r \in RemotePorts, p \in AllowPort : Configure(x, n, r) /\ Grant(x, n, p)
    BY <1>1, GrantsPort
  <2>2. asked[x] = Nobody
    BY <2>1 DEF Configure, Places
  <2>3. \A y \in Proxy : y # x => asked'[y] = asked[y]
    BY <2>1 DEF Configure, PortTypeOK
  <2>4. netType' = netType
    BY <2>1 DEF Grant
  <2>5. QED
    BY <2>2, <2>3, <2>4 DEF Plain
<1>2. ASSUME NEW x \in Proxy, NEW n \in PxyName, AcquireFails(x, n) PROVE Plain
  BY <1>2 DEF AcquireFails, Configure, PortTypeOK, Places, Plain
<1>3. CASE UNCHANGED <<netType, asked>>
  BY <1>3 DEF Plain
<1>4. QED
  BY <1>1, <1>2, <1>3
     DEF PortNext, Acquire, Acquires, Listen, ListenFails, CloseSocket, Release, CloseAgain, Expires,
         CleanReservedPorts, OtherListens, OtherCloses, portVars

OwnersInv == OneOwner /\ ReservationsEnd

LEMMA OwnersStep ==
  PortTypeOK /\ Places /\ LedgerPartition /\ OwnersInv /\ [PortNext]_portVars => OwnersInv'
<1> SUFFICES ASSUME PortTypeOK, Places, LedgerPartition, OwnersInv, [PortNext]_portVars, Plain'
             PROVE  /\ \A y \in Proxy, q \in AllowPort : usedPorts'[q] = y <=> HoldsPort(y, q)'
                    /\ \A m \in PxyName : reserved'[m] # Nobody /\ pc'[reserved'[m]] = "closed"
                                         => ctx'[reserved'[m]] # "open"
  BY DEF OwnersInv, OneOwner, ReservationsEnd
<1> USE PortAssumption
<1>p. Plain
  BY PlainBefore
<1>o. \A y \in Proxy, q \in AllowPort : usedPorts[q] = y <=> HoldsPort(y, q)
  BY <1>p DEF OwnersInv, OneOwner
<1>r. \A m \in PxyName : reserved[m] # Nobody /\ pc[reserved[m]] = "closed" => ctx[reserved[m]] # "open"
  BY <1>p DEF OwnersInv, ReservationsEnd
<1>t. \A m \in PxyName : reserved[m] # Nobody => reserved[m] \in Proxy /\ pc[reserved[m]] # "new"
  BY DEF PortTypeOK, Places
<1> DEFINE Exact == \A y \in Proxy, q \in AllowPort : usedPorts'[q] = y <=> HoldsPort(y, q)'
           Ends  == \A m \in PxyName : reserved'[m] # Nobody /\ pc'[reserved'[m]] = "closed"
                                      => ctx'[reserved'[m]] # "open"
<1>1. ASSUME NEW x \in Proxy, NEW n \in PxyName, Acquires(x, n) PROVE Exact /\ Ends
  <2>1. AcquireFixed(x, n)
    BY <1>1 DEF Acquires, AcquireKept, AcquireAny, Configure, Plain, PortTypeOK
  <2>2. PICK p \in AllowPort : Configure(x, n, p) /\ p \in free /\ Grant(x, n, p)
    BY <2>1 DEF AcquireFixed
  <2>3. usedPorts[p] = Nobody /\ pc[x] = "new"
    BY <2>2 DEF LedgerPartition, Configure
  <2>4. Exact
    BY <1>o, <2>2, <2>3, GrantLedger DEF HoldsPort
  <2>5. Ends
    BY <1>r, <1>t, <2>2, GrantLedger
  <2>6. QED
    BY <2>4, <2>5
<1>2. ASSUME NEW x \in Proxy, NEW n \in PxyName, AcquireFails(x, n) PROVE Exact /\ Ends
  <2>1. /\ pc[x] = "new" /\ pc'[x] = "closed"
        /\ \A y \in Proxy : y # x => pc'[y] = pc[y]
        /\ UNCHANGED <<real, usedPorts, reserved, ctx>>
    BY <1>2 DEF AcquireFails, Configure, PortTypeOK
  <2>2. QED
    BY <1>o, <1>r, <1>t, <2>1 DEF HoldsPort
<1>3. ASSUME NEW x \in Proxy, Listen(x) \/ ListenFails(x) \/ CloseSocket(x) PROVE Exact /\ Ends
  <2>1. /\ pc[x] \in Holding /\ pc'[x] \in Holding
        /\ \A y \in Proxy : y # x => pc'[y] = pc[y]
        /\ UNCHANGED <<real, usedPorts, reserved, ctx>>
    BY <1>3 DEF Listen, ListenFails, CloseSocket, PortTypeOK, Holding
  <2>2. QED
    BY <1>o, <1>r, <1>t, <2>1 DEF HoldsPort, Holding
<1>4. ASSUME NEW x \in Proxy, Release(x) PROVE Exact /\ Ends
  <2>1. /\ pc[x] = "unbound" /\ pc'[x] = "closed"
        /\ \A y \in Proxy : y # x => pc'[y] = pc[y]
        /\ UNCHANGED <<real, reserved>>
    BY <1>4 DEF Release, PortTypeOK
  <2>2. real[x] \in AllowPort
    BY <2>1 DEF Places, Holding
  <2>3. usedPorts[real[x]] = x
    BY <1>o, <2>1, <2>2 DEF HoldsPort
  <2>4. /\ usedPorts'[real[x]] = Nobody
        /\ \A q \in AllowPort : q # real[x] => usedPorts'[q] = usedPorts[q]
        /\ ctx'[x] = "closed"
        /\ \A y \in Proxy : ctx'[y] = ctx[y] \/ ctx'[y] = "closed"
    BY <1>4, <2>2, <2>3, ReleaseLedger DEF Release
  <2>5. Exact
    BY <1>o, <2>1, <2>2, <2>3, <2>4 DEF HoldsPort
  <2>6. Ends
    BY <1>r, <1>t, <2>1, <2>4
  <2>7. QED
    BY <2>5, <2>6
<1>5. ASSUME NEW x \in Proxy, CloseAgain(x) PROVE FALSE
  BY <1>5, <1>p DEF CloseAgain, Plain, Places
<1>6. ASSUME NEW x \in Proxy, Expires(x) PROVE Exact /\ Ends
  <2>1. \A y \in Proxy : ctx'[y] = ctx[y] \/ ctx'[y] = "expired"
    BY <1>6 DEF Expires, PortTypeOK
  <2>2. UNCHANGED <<pc, real, usedPorts, reserved>>
    BY <1>6 DEF Expires
  <2>3. QED
    BY <1>o, <1>r, <1>t, <2>1, <2>2 DEF HoldsPort
<1>7. CASE CleanReservedPorts
  <2>1. \A m \in PxyName : reserved'[m] = Nobody \/ reserved'[m] = reserved[m]
    BY <1>7 DEF CleanReservedPorts
  <2>2. UNCHANGED <<pc, real, usedPorts, ctx>>
    BY <1>7 DEF CleanReservedPorts
  <2>3. QED
    BY <1>o, <1>r, <2>1, <2>2 DEF HoldsPort
<1>8. CASE UNCHANGED <<pc, real, usedPorts, reserved, ctx>>
  BY <1>o, <1>r, <1>8 DEF HoldsPort
<1>9. QED
  BY <1>1, <1>2, <1>3, <1>4, <1>5, <1>6, <1>7, <1>8
     DEF PortNext, Acquire, Acquires, OtherListens, OtherCloses, portVars

LEMMA OwnersInvariant == PortSpec => []OwnersInv
<1>1. PortInit => OwnersInv
  BY PortAssumption DEF PortInit, OwnersInv, OneOwner, ReservationsEnd, HoldsPort
<1>2. QED
  BY <1>1, OwnersStep, LedgerIsAPartition, PlacesInvariant, PTL DEF PortSpec

(* On a tcp manager, with every remote port given, the ledger names the    *)
(* owner of each port between Acquire and Release: a release by number     *)
(* never gives away the port of another proxy.                             *)
THEOREM OwnersExact == PortSpec => []OneOwner
  BY OwnersInvariant, PTL DEF OwnersInv

(* ... and the context in a reservation is marked closed when the proxy it *)
(* was made for has finished, so that cleanReservedPortsWorker can drop it. *)
THEOREM ReservationsExpire == PortSpec => []ReservationsEnd
  BY OwnersInvariant, PTL DEF OwnersInv
=============================================================================
