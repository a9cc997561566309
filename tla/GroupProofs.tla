---------------------------- MODULE GroupProofs ----------------------------
(***************************************************************************)
(* Proofs about TCPGroup, HTTPGroup and VhostRouter: the ports and the map *)
(* of the tcp groups, the routes of the http proxies, of plain ones and of *)
(* groups, and the route the router finds for a request.                   *)
(***************************************************************************)
EXTENDS TCPGroup, HTTPGroup, VhostRouter, WellFoundedInduction, SequenceTheorems, TLAPS

-----------------------------------------------------------------------------
(* TCPGroup                                                                *)

(* The last conjunct is what makes a leave free the right name: as long as *)
(* the channel of an object is open, the map has it under its name.        *)
MapOfGroups ==
    /\ \A g \in Group : lns[g] # {} =>
        /\ terms[g] \in Terms /\ terms[g].group = made[g]
        /\ realPort[g] \in GPort
    /\ \A n \in GroupName : groups[n] # NoGroup => made[groups[n]] = n
    /\ \A m \in Member : at[m] # "idle" => in[m] \in Group
    /\ \A g \in Group : acceptCh[g] /\ made[g] # NoGroup => groups[made[g]] = g

GroupInv == GroupTypeOK /\ MapOfGroups /\ PortsOfGroups

LEMMA GroupInit_Inv == GroupInit => GroupInv
<1> SUFFICES ASSUME GroupInit PROVE GroupInv
  OBVIOUS
<1> USE GroupAssumption
<1>1. GroupTypeOK
  BY DEF GroupInit, GroupTypeOK, MemberStage, User0, Fate
<1>2. MapOfGroups
  BY DEF GroupInit, MapOfGroups
<1>3. PortsOfGroups
  BY DEF GroupInit, PortsOfGroups
<1>4. QED
  BY <1>1, <1>2, <1>3 DEF GroupInv

(* Found yields an object: the one the map has, or one nobody has made.    *)
LEMMA FoundObject ==
    ASSUME GroupInv, NEW n \in GroupName, groups[n] # NoGroup \/ Fresh # {}
    PROVE  /\ Found(n) \in Group
           /\ groups[n] # NoGroup => Found(n) = groups[n] /\ made[Found(n)] = n
           /\ groups[n] = NoGroup => made[Found(n)] = NoGroup
<1>1. CASE groups[n] # NoGroup
  BY <1>1 DEF Found, GroupInv, GroupTypeOK, MapOfGroups
<1>2. CASE groups[n] = NoGroup
  <2>1. PICK h \in Group : h \in Fresh
    BY <1>2 DEF Fresh
  <2>2. (CHOOSE g \in Fresh : TRUE) \in Fresh
    BY <2>1
  <2>3. QED
    BY <1>2, <2>2 DEF Found, Fresh
<1>3. QED
  BY <1>1, <1>2

(* LookUp adds at most one object, to the map and to those made.           *)
LEMMA LookUp_Inv ==
    ASSUME GroupInv, NEW m \in Member, NEW n \in GroupName, LookUp(m, n)
    PROVE  GroupInv'
<1> DEFINE f == Found(n)
<1>1. /\ f \in Group
      /\ groups[n] # NoGroup => f = groups[n] /\ made[f] = n
      /\ groups[n] = NoGroup => made[f] = NoGroup
  BY FoundObject DEF LookUp
<1>2. /\ made' = [made EXCEPT ![f] = n] /\ groups' = [groups EXCEPT ![n] = f]
      /\ in' = [in EXCEPT ![m] = f] /\ at' = [at EXCEPT ![m] = "looked"]
      /\ UNCHANGED <<terms, realPort, tcpLn, acceptCh, lns, worker, used, lost, loop, user, panicked>>
  BY DEF LookUp
<1> HIDE DEF f
<1>3. GroupTypeOK'
  BY <1>1, <1>2 DEF GroupInv, GroupTypeOK, MemberStage
<1>4. MapOfGroups'
  <2> USE GroupAssumption DEF GroupInv, GroupTypeOK, MapOfGroups
  <2>1. \A g \in Group : lns'[g] # {} =>
          terms'[g] \in Terms /\ terms'[g].group = made'[g] /\ realPort'[g] \in GPort
    BY <1>1, <1>2 DEF Terms
  <2>2. \A k \in GroupName : groups'[k] # NoGroup => made'[groups'[k]] = k
    BY <1>1, <1>2
  <2>3. \A k \in Member : at'[k] # "idle" => in'[k] \in Group
    BY <1>1, <1>2
  <2>4. \A g \in Group : acceptCh'[g] /\ made'[g] # NoGroup => groups'[made'[g]] = g
    BY <1>1, <1>2
  <2>5. QED
    BY <2>1, <2>2, <2>3, <2>4
<1>5. PortsOfGroups'
  BY <1>2 DEF GroupInv, PortsOfGroups
<1>6. QED
  BY <1>3, <1>4, <1>5 DEF GroupInv

(* The first listener takes a port that is neither used nor lost.          *)
LEMMA ListenFirst_Inv ==
    ASSUME GroupInv, NEW m \in Member, NEW t \in Terms, ListenFirst(m, t)
    PROVE  GroupInv'
<1> DEFINE g == in[m]
<1>1. g \in Group /\ made[g] = t.group /\ lns[g] = {}
  BY DEF ListenFirst, GroupInv, MapOfGroups
<1>2. PICK p \in GPort \ used : used' = used \cup {p} /\ realPort' = [realPort EXCEPT ![g] = p]
  BY DEF ListenFirst, Acquirable
<1>3. /\ terms' = [terms EXCEPT ![g] = t] /\ lns' = [lns EXCEPT ![g] = @ \cup {m}]
      /\ at' = [at EXCEPT ![m] = "member"] /\ loop' = [loop EXCEPT ![m] = TRUE]
      /\ worker' = [worker EXCEPT ![g] = TRUE] /\ tcpLn' = [tcpLn EXCEPT ![g] = ListenAt(t.port)]
      /\ UNCHANGED <<groups, made, acceptCh, lost, in, user, panicked>>
  BY DEF ListenFirst, Joined
<1>4. in[m] \in Group
  BY <1>1
<1> HIDE DEF g
<1>5. ListenAt(t.port) \in GPort \cup {Elsewhere}
  BY GroupAssumption DEF ListenAt, Terms
<1>6. GroupTypeOK'
  BY <1>1, <1>2, <1>3, <1>5 DEF GroupInv, GroupTypeOK, MemberStage
<1>7. MapOfGroups'
  BY <1>1, <1>2, <1>3, <1>4 DEF GroupInv, GroupTypeOK, MapOfGroups
<1>8. PortsOfGroups'
  <2> USE DEF GroupInv, GroupTypeOK, PortsOfGroups
  <2>1. lns'[g] # {} /\ \A h \in Group \ {g} : lns'[h] = lns[h] /\ realPort'[h] = realPort[h]
    BY <1>1, <1>2, <1>3
  <2>2. realPort'[g] = p
    BY <1>1, <1>2
  <2>3. \A h \in Group : lns[h] # {} => realPort[h] # p /\ h # g
    BY <1>1, <1>2
  <2>4. used' = lost' \cup {realPort'[k] : k \in {h \in Group : lns'[h] # {}}}
    <3> DEFINE S == {h \in Group : lns[h] # {}}
               T == {h \in Group : lns'[h] # {}}
    <3>1. T = S \cup {g} /\ g \notin S
      BY <1>1, <2>1
    <3>2. \A k \in S : realPort'[k] = realPort[k]
      BY <2>1, <3>1
    <3>3. used = lost \cup {realPort[k] : k \in S}
      OBVIOUS
    <3> HIDE DEF S, T
    <3>4. {realPort'[k] : k \in T} = {realPort[k] : k \in S} \cup {p}
      BY <2>2, <3>1, <3>2
    <3>5. used' = lost' \cup {realPort'[k] : k \in T}
      BY <1>2, <1>3, <3>3, <3>4
    <3>6. QED
      BY <3>5 DEF T
  <2>5. \A k, h \in Group :
          lns'[k] # {} /\ lns'[h] # {} /\ realPort'[k] = realPort'[h] => k = h
    BY <2>1, <2>2, <2>3
  <2>6. \A k \in Group : lns'[k] # {} => realPort'[k] \notin lost'
    BY <1>2, <1>3, <2>1, <2>2
  <2>7. QED
    BY <2>4, <2>5, <2>6
<1>9. QED
  BY <1>6, <1>7, <1>8 DEF GroupInv

(* The last listener gives back the port of its object and its name: the   *)
(* open channel says that the map has this object under it.                *)
LEMMA LeaveLast_Inv ==
    ASSUME GroupInv, NEW m \in Member, LeaveLast(m)
    PROVE  GroupInv'
<1> DEFINE g == in[m]
           n == terms[g].group
<1>1. g \in Group /\ lns[g] # {} /\ acceptCh[g]
  BY DEF LeaveLast, GroupInv, MapOfGroups
<1>2. n \in GroupName /\ made[g] = n /\ groups[n] = g
  BY <1>1, GroupAssumption DEF GroupInv, MapOfGroups, Terms
<1>3. /\ acceptCh' = [acceptCh EXCEPT ![g] = FALSE] /\ lns' = [lns EXCEPT ![g] = {}]
      /\ tcpLn' = [tcpLn EXCEPT ![g] = NoGroup] /\ worker' = [worker EXCEPT ![g] = FALSE]
      /\ used' = used \ {realPort[g]} /\ groups' = [groups EXCEPT ![n] = NoGroup]
      /\ user' = Unserved(g) /\ at' = [at EXCEPT ![m] = "left"]
      /\ UNCHANGED <<made, terms, realPort, lost, in, loop, panicked>>
  BY DEF LeaveLast
<1>4. in[m] \in Group
  BY <1>1
<1> HIDE DEF g, n
<1>5. GroupTypeOK'
  <2>1. user' \in [User -> [where : Fate \cup {"none"}, of : Group \cup {NoGroup}]]
    BY <1>1, <1>3 DEF GroupInv, GroupTypeOK, Unserved, Fate
  <2>2. QED
    BY <1>1, <1>2, <1>3, <2>1 DEF GroupInv, GroupTypeOK, MemberStage
<1>6. MapOfGroups'
  <2> USE DEF GroupInv, GroupTypeOK, MapOfGroups
  <2>1. \A h \in Group : lns'[h] # {} =>
          terms'[h] \in Terms /\ terms'[h].group = made'[h] /\ realPort'[h] \in GPort
    BY <1>1, <1>3
  <2>2. \A k \in GroupName : groups'[k] # NoGroup => made'[groups'[k]] = k
    BY <1>2, <1>3
  <2>3. \A k \in Member : at'[k] # "idle" => in'[k] \in Group
    BY <1>3, <1>4
  <2>4. \A h \in Group : acceptCh'[h] /\ made'[h] # NoGroup => groups'[made'[h]] = h
    BY <1>1, <1>2, <1>3
  <2>5. QED
    BY <2>1, <2>2, <2>3, <2>4
<1>7. PortsOfGroups'
  <2> USE DEF GroupInv, GroupTypeOK, PortsOfGroups
  <2>1. lns'[g] = {} /\ \A h \in Group \ {g} : lns'[h] = lns[h] /\ realPort'[h] = realPort[h]
    BY <1>1, <1>3
  <2>2. realPort[g] \notin lost
    BY <1>1
  <2>3. \A h \in Group \ {g} : lns[h] # {} => realPort[h] # realPort[g]
    BY <1>1
  <2>4. used' = lost' \cup {realPort'[k] : k \in {h \in Group : lns'[h] # {}}}
    <3> DEFINE S == {h \in Group : lns[h] # {}}
               T == {h \in Group : lns'[h] # {}}
    <3>1. S = T \cup {g} /\ \A k \in T : realPort'[k] = realPort[k] /\ realPort[k] # realPort[g]
      BY <1>1, <2>1, <2>3
    <3>2. used = lost \cup {realPort[k] : k \in S}
      OBVIOUS
    <3> HIDE DEF S, T
    <3>3. \A q : q \in {realPort'[k] : k \in T} <=> q \in {realPort[k] : k \in S} /\ q # realPort[g]
      <4>1. \A k \in T : k \in S /\ realPort'[k] = realPort[k] /\ realPort[k] # realPort[g]
        BY <3>1
      <4>2. \A k \in S : realPort[k] # realPort[g] => k \in T
        BY <3>1
      <4>3. QED
        BY <4>1, <4>2
    <3>4. used' = lost' \cup {realPort'[k] : k \in T}
      BY <1>3, <2>2, <3>2, <3>3
    <3>5. QED
      BY <3>4 DEF T
  <2>5. QED
    BY <1>3, <2>1, <2>4
<1>8. QED
  BY <1>5, <1>6, <1>7 DEF GroupInv

(* Steps that leave the map, the ports and the listeners alone.            *)
LEMMA GroupFrame ==
    ASSUME GroupInv,
           UNCHANGED <<groups, made, terms, realPort, tcpLn, acceptCh, lns, used, lost, in>>,
           worker' \in [Group -> BOOLEAN], loop' \in [Member -> BOOLEAN], panicked' \in BOOLEAN,
           user' \in [User -> [where : Fate \cup {"none"}, of : Group \cup {NoGroup}]],
           at' \in [Member -> MemberStage],
           \A k \in Member : at'[k] # "idle" => at[k] # "idle"
    PROVE  GroupInv'
<1>1. GroupTypeOK'
  BY DEF GroupInv, GroupTypeOK
<1>2. MapOfGroups'
  BY DEF GroupInv, MapOfGroups
<1>3. PortsOfGroups'
  BY DEF GroupInv, PortsOfGroups
<1>4. QED
  BY <1>1, <1>2, <1>3 DEF GroupInv

LEMMA GroupNext_Inv == GroupInv /\ [GroupNext]_groupVars => GroupInv'
<1> SUFFICES ASSUME GroupInv, [GroupNext]_groupVars
             PROVE  GroupInv'
  OBVIOUS
<1> USE DEF MemberStage, Fate
<1>0. GroupTypeOK
  BY DEF GroupInv
<1>1. ASSUME NEW m \in Member, NEW n \in GroupName, LookUp(m, n)
      PROVE  GroupInv'
  BY <1>1, LookUp_Inv
<1>2. ASSUME NEW m \in Member, NEW t \in Terms, ListenFirst(m, t)
      PROVE  GroupInv'
  BY <1>2, ListenFirst_Inv
<1>3. ASSUME NEW m \in Member, NEW t \in Terms, ListenNext(m, t)
      PROVE  GroupInv'
  <2>1. GroupTypeOK'
    BY <1>0, <1>3 DEF GroupTypeOK, ListenNext, Joined
  <2>2. MapOfGroups'
    BY <1>0, <1>3 DEF GroupInv, GroupTypeOK, MapOfGroups, ListenNext, Joined
  <2>3. \A g \in Group : lns'[g] # {} <=> lns[g] # {}
    BY <1>0, <1>3 DEF GroupTypeOK, ListenNext, Joined
  <2>4. used' = used /\ lost' = lost /\ realPort' = realPort
    BY <1>3 DEF ListenNext
  <2>5. PortsOfGroups'
    BY <2>3, <2>4 DEF GroupInv, PortsOfGroups
  <2>6. QED
    BY <2>1, <2>2, <2>5 DEF GroupInv
<1>4. ASSUME NEW m \in Member, NEW t \in Terms, ListenRefused(m, t)
      PROVE  GroupInv'
  BY <1>0, <1>4, GroupFrame DEF ListenRefused, RefusedByGroup, GroupTypeOK
<1>5. ASSUME NEW m \in Member, NEW t \in Terms, ListenFails(m, t)
      PROVE  GroupInv'
  <2>1. PICK p \in GPort \ used : used' = used \cup {p} /\ lost' = lost \cup {p}
    BY <1>5 DEF ListenFails, Acquirable
  <2>2. GroupTypeOK'
    BY <1>0, <1>5, <2>1 DEF GroupTypeOK, ListenFails, RefusedByGroup
  <2>3. MapOfGroups'
    BY <1>0, <1>5 DEF GroupInv, GroupTypeOK, MapOfGroups, ListenFails, RefusedByGroup
  <2>4. lns' = lns /\ realPort' = realPort
    BY <1>5 DEF ListenFails, RefusedByGroup
  <2>5. PortsOfGroups'
    BY <2>1, <2>4 DEF GroupInv, PortsOfGroups
  <2>6. QED
    BY <2>2, <2>3, <2>5 DEF GroupInv
<1>6. ASSUME NEW m \in Member, CloseListener(m)
      PROVE  GroupInv'
  BY <1>0, <1>6, GroupFrame DEF CloseListener, GroupTypeOK
<1>7. ASSUME NEW m \in Member, LeaveOthers(m)
      PROVE  GroupInv'
  <2>1. GroupTypeOK'
    BY <1>0, <1>7 DEF GroupTypeOK, LeaveOthers
  <2>2. in[m] \in Group
    BY <1>7 DEF LeaveOthers, GroupInv, MapOfGroups
  <2>3. MapOfGroups'
    BY <1>0, <1>7, <2>2 DEF GroupInv, GroupTypeOK, MapOfGroups, LeaveOthers
  <2>4. PortsOfGroups'
    <3>1. \A g \in Group : lns'[g] # {} => lns[g] # {}
      BY <1>0, <1>7 DEF GroupTypeOK, LeaveOthers
    <3>2. \A g \in Group : lns[g] # {} => lns'[g] # {}
      BY <1>0, <1>7, <2>2 DEF GroupTypeOK, LeaveOthers
    <3>3. used' = used /\ lost' = lost /\ realPort' = realPort
      BY <1>7 DEF LeaveOthers
    <3>4. QED
      BY <3>1, <3>2, <3>3 DEF GroupInv, PortsOfGroups
  <2>5. QED
    BY <2>1, <2>3, <2>4 DEF GroupInv
<1>8. ASSUME NEW m \in Member, LeaveLast(m)
      PROVE  GroupInv'
  BY <1>8, LeaveLast_Inv
<1>9. ASSUME NEW m \in Member, LeavePanics(m)
      PROVE  GroupInv'
  BY <1>0, <1>9, GroupFrame DEF LeavePanics, GroupTypeOK
<1>10. ASSUME NEW m \in Member, LoopEnds(m)
       PROVE  GroupInv'
  BY <1>0, <1>10, GroupFrame DEF LoopEnds, GroupTypeOK
<1>11. ASSUME NEW u \in User, NEW g \in Group, Connect(u, g)
       PROVE  GroupInv'
  BY <1>0, <1>11, GroupFrame DEF Connect, GroupTypeOK
<1>12. ASSUME NEW u \in User, NEW g \in Group, WorkerAccept(g, u)
       PROVE  GroupInv'
  BY <1>0, <1>12, GroupFrame DEF WorkerAccept, GroupTypeOK
<1>13. ASSUME NEW u \in User, NEW m \in Member, Receive(m, u)
       PROVE  GroupInv'
  BY <1>0, <1>13, GroupFrame DEF Receive, GroupTypeOK
<1>14. CASE UNCHANGED groupVars
  BY <1>0, <1>14, GroupFrame DEF groupVars, GroupTypeOK
<1>15. QED
  BY <1>1, <1>2, <1>3, <1>4, <1>5, <1>6, <1>7, <1>8, <1>9, <1>10, <1>11, <1>12, <1>13, <1>14
     DEF GroupNext, Listen, Leave

LEMMA GroupInvariant == GroupSpec => []GroupInv
  BY GroupInit_Inv, GroupNext_Inv, PTL DEF GroupSpec

(* The ports of the groups are exactly those the port manager counts as    *)
(* used, without those it lost, and no two groups that serve share one.    *)
THEOREM GroupPorts == GroupSpec => []PortsOfGroups
  BY GroupInvariant, PTL DEF GroupInv

(* An object that serves its members is the one the map has for its name:  *)
(* no proxy can open a second group of that name beside it.                *)
THEOREM OpenGroupsListed == GroupSpec => []OpenIsListed
<1>1. GroupInv => OpenIsListed
  BY GroupAssumption DEF GroupInv, MapOfGroups, OpenIsListed, Terms
<1>2. QED
  BY <1>1, GroupInvariant, PTL

(* Who serves a group.  A listener of an object is a proxy that holds it   *)
(* and has not left; as long as its channel is open, a member accepts from *)
(* it and the worker fills it; what the worker holds it can send.          *)
ServersInv ==
    /\ \A m \in Member, g \in Group : m \in lns[g] <=> at[m] \in {"member", "leaving"} /\ in[m] = g
    /\ \A m \in Member : at[m] = "member" /\ acceptCh[in[m]] => loop[m]
    /\ \A g \in Group : lns[g] # {} => tcpLn[g] # NoGroup /\ (acceptCh[g] => worker[g])
    /\ \A g \in Group : worker[g] => lns[g] # {}
    /\ \A u \in User : user[u].where = "held" =>
          user[u].of \in Group /\ acceptCh[user[u].of] /\ worker[user[u].of]

(* A closing group keeps no connection that its worker holds. *)
LEMMA UnservedHeld ==
    ASSUME GroupTypeOK, NEW g \in Group, NEW u \in User, Unserved(g)[u].where = "held"
    PROVE  user[u].where = "held" /\ Unserved(g)[u] = user[u] /\ user[u].of # g
<1>1. CASE user[u].of # g
  BY <1>1 DEF Unserved
<1>2. CASE user[u].of = g /\ user[u].where = "backlog"
  BY <1>2 DEF Unserved, GroupTypeOK
<1>3. CASE user[u].of = g /\ user[u].where = "held"
  BY <1>3 DEF Unserved, GroupTypeOK
<1>4. CASE user[u].of = g /\ user[u].where \notin {"backlog", "held"}
  BY <1>4 DEF Unserved, GroupTypeOK
<1>5. QED
  BY <1>1, <1>2, <1>3, <1>4

LEMMA ServersInit == GroupInit => ServersInv
  BY GroupAssumption DEF GroupInit, ServersInv, User0

LEMMA ServersStep == GroupInv /\ ServersInv /\ [GroupNext]_groupVars => ServersInv'
<1> SUFFICES ASSUME GroupInv, ServersInv, [GroupNext]_groupVars PROVE ServersInv'
  OBVIOUS
<1>0. GroupTypeOK /\ \A m \in Member : at[m] # "idle" => in[m] \in Group
  BY DEF GroupInv, MapOfGroups
<1>1. ASSUME NEW m \in Member, NEW n \in GroupName, LookUp(m, n)
      PROVE  ServersInv'
  <2>1. Found(n) \in Group
    BY <1>1, FoundObject DEF LookUp
  <2>2. QED
    BY <1>0, <1>1, <2>1 DEF LookUp, ServersInv, GroupTypeOK
<1>2. ASSUME NEW m \in Member, NEW t \in Terms, ListenFirst(m, t)
      PROVE  ServersInv'
  <2>1. ListenAt(t.port) # NoGroup
    BY GroupAssumption DEF ListenAt, Terms
  <2>2. in[m] \in Group
    BY <1>0, <1>2 DEF ListenFirst
  <2>3. QED
    BY <1>0, <1>2, <2>1, <2>2 DEF ListenFirst, Joined, ServersInv, GroupTypeOK
<1>3. ASSUME NEW m \in Member, NEW t \in Terms, ListenNext(m, t)
      PROVE  ServersInv'
  BY <1>0, <1>3 DEF ListenNext, Joined, ServersInv, GroupTypeOK
<1>4. ASSUME NEW m \in Member, NEW t \in Terms, ListenRefused(m, t) \/ ListenFails(m, t)
      PROVE  ServersInv'
  BY <1>0, <1>4 DEF ListenRefused, ListenFails, RefusedByGroup, ServersInv, GroupTypeOK
<1>5. ASSUME NEW m \in Member, CloseListener(m) \/ LeaveOthers(m)
      PROVE  ServersInv'
  BY <1>0, <1>5 DEF CloseListener, LeaveOthers, ServersInv, GroupTypeOK
<1>6. ASSUME NEW m \in Member, LeaveLast(m)
      PROVE  ServersInv'
  <2> DEFINE g == in[m]
  <2>1. /\ g \in Group /\ lns[g] = {m} /\ at[m] = "leaving"
        /\ acceptCh' = [acceptCh EXCEPT ![g] = FALSE] /\ lns' = [lns EXCEPT ![g] = {}]
        /\ tcpLn' = [tcpLn EXCEPT ![g] = NoGroup] /\ worker' = [worker EXCEPT ![g] = FALSE]
        /\ user' = Unserved(g) /\ at' = [at EXCEPT ![m] = "left"]
        /\ in' = in /\ loop' = loop
    BY <1>0, <1>6 DEF LeaveLast
  <2>2. \A u \in User : user'[u].where = "held" =>
           user[u].where = "held" /\ user'[u] = user[u] /\ user[u].of # g
    BY <1>0, <2>1, UnservedHeld
  <2>3. \A k \in Member, h \in Group :
           k \in lns'[h] <=> at'[k] \in {"member", "leaving"} /\ in'[k] = h
    BY <1>0, <2>1 DEF ServersInv, GroupTypeOK
  <2>4. \A k \in Member : at'[k] = "member" /\ acceptCh'[in'[k]] => loop'[k]
    BY <1>0, <2>1 DEF ServersInv, GroupTypeOK
  <2>5. \A h \in Group : lns'[h] # {} => tcpLn'[h] # NoGroup /\ (acceptCh'[h] => worker'[h])
    BY <1>0, <2>1 DEF ServersInv, GroupTypeOK
  <2>6. \A h \in Group : worker'[h] => lns'[h] # {}
    BY <1>0, <2>1 DEF ServersInv, GroupTypeOK
  <2>7. \A u \in User : user'[u].where = "held" =>
           user'[u].of \in Group /\ acceptCh'[user'[u].of] /\ worker'[user'[u].of]
    BY <1>0, <2>1, <2>2 DEF ServersInv, GroupTypeOK
  <2>8. QED
    BY <2>3, <2>4, <2>5, <2>6, <2>7 DEF ServersInv
<1>7. ASSUME NEW m \in Member, LoopEnds(m) \/ LeavePanics(m)
      PROVE  ServersInv'
  BY <1>0, <1>7 DEF LoopEnds, LeavePanics, ServersInv, GroupTypeOK
<1>8. ASSUME NEW u \in User, NEW g \in Group, Connect(u, g)
      PROVE  ServersInv'
  BY <1>0, <1>8 DEF Connect, ServersInv, GroupTypeOK
<1>9. ASSUME NEW u \in User, NEW g \in Group, WorkerAccept(g, u)
      PROVE  ServersInv'
  <2>1. user'[u].of = g /\ user'[u].where = (IF acceptCh[g] THEN "held" ELSE "leaked")
        /\ \A v \in User : v # u => user'[v] = user[v]
    BY <1>0, <1>9 DEF WorkerAccept, GroupTypeOK
  <2>2. worker' = [worker EXCEPT ![g] = acceptCh[g]] /\ worker[g]
        /\ UNCHANGED <<acceptCh, lns, at, in, loop, tcpLn>>
    BY <1>9 DEF WorkerAccept
  <2>3. QED
    BY <1>0, <2>1, <2>2 DEF ServersInv, GroupTypeOK
<1>10. ASSUME NEW u \in User, NEW m \in Member, Receive(m, u)
       PROVE  ServersInv'
  BY <1>0, <1>10 DEF Receive, ServersInv, GroupTypeOK
<1>11. CASE UNCHANGED groupVars
  BY <1>11 DEF groupVars, ServersInv
<1>12. QED
  BY <1>1, <1>2, <1>3, <1>4, <1>5, <1>6, <1>7, <1>8, <1>9, <1>10, <1>11
     DEF GroupNext, Listen, Leave

(* A proxy that has joined a group is given connections as long as the     *)
(* channel of the group is open: its accept loop runs, the worker runs,    *)
(* and the group listens.  Only a channel that was closed before the proxy *)
(* joined keeps it from them.                                              *)
MembersAreServed ==
    \A m \in Member : at[m] = "member" /\ acceptCh[in[m]] =>
        m \in lns[in[m]] /\ loop[m] /\ worker[in[m]] /\ tcpLn[in[m]] # NoGroup

(* A connection that a worker holds has somebody who can take it, or whose *)
(* leave is under way: a listener of its group, and the group has one.     *)
HeldHasTaker ==
    \A u \in User : user[u].where = "held" =>
        /\ lns[user[u].of] # {}
        /\ \A m \in lns[user[u].of] :
              in[m] = user[u].of /\ (at[m] = "leaving" \/ (at[m] = "member" /\ loop[m]))

THEOREM GroupsServe == GroupSpec => [](MembersAreServed /\ HeldHasTaker)
<1>1. GroupInv /\ ServersInv => MembersAreServed /\ HeldHasTaker
  BY DEF GroupInv, GroupTypeOK, MapOfGroups, ServersInv, MembersAreServed, HeldHasTaker
<1>2. QED
  BY <1>1, GroupInvariant, ServersInit, ServersStep, PTL DEF GroupSpec

-----------------------------------------------------------------------------
(* HTTPGroup                                                               *)

(* A route leads to a group exactly while the group has members, and a     *)
(* member holds the object it is in.                                       *)
RoutesOfGroups ==
    /\ \A g \in HGroup, t \in Route : router[t] = g <=> members[g] # {} /\ routeOf[g] = t
    /\ \A g \in HGroup : members[g] # {} => routeOf[g] \in Route
    /\ \A p \in Grouped, g \in HGroup : p \in members[g] =>
        /\ holds[p] = g /\ routeOf[g] \in wants[p]
        /\ stage[p] \notin {"idle", "looked", "refused"}
    /\ \A p \in Grouped : stage[p] \in {"looked", "up", "closing"} =>
        holds[p] \in created /\ under[p] \in HName
    /\ \A p \in Grouped : stage[p] \in {"up", "closing"} => p \in members[holds[p]]

(* What the map of the groups has: objects made for that name, and one     *)
(* that nobody has joined yet has no route to delete.                      *)
MapOfHttpGroups ==
    /\ \A n \in HName : listed[n] # NoRoute => listed[n] \in created
    /\ \A n, k \in HName : listed[n] # NoRoute /\ listed[n] = listed[k] => n = k
    /\ \A n \in HName, p \in Grouped :
        listed[n] # NoRoute /\ holds[p] = listed[n] => under[p] = n
    /\ \A n \in HName, p \in Grouped : listed[n] # NoRoute /\ p \in members[listed[n]] =>
        stage[p] \in {"up", "closing"}
    /\ \A n \in HName : listed[n] # NoRoute /\ members[listed[n]] = {} =>
        routeOf[listed[n]] = NoRoute
    /\ \A g \in HGroup \ created : members[g] = {} /\ routeOf[g] = NoRoute
    /\ \A p \in Grouped : holds[p] # NoRoute => holds[p] \in created

HttpInv == HttpTypeOK /\ PlainRoutesExact /\ RoutesOfGroups /\ MapOfHttpGroups

LEMMA HttpInit_Inv == HttpInit => HttpInv
<1> SUFFICES ASSUME HttpInit PROVE HttpInv
  OBVIOUS
<1> USE RouteAssumption
<1>1. HttpTypeOK
  BY DEF HttpInit, HttpTypeOK, HttpStage, HttpProxy
<1>2. PlainRoutesExact
  BY DEF HttpInit, PlainRoutesExact, HttpProxy
<1>3. RoutesOfGroups
  BY DEF HttpInit, RoutesOfGroups, HttpProxy
<1>4. MapOfHttpGroups
  BY DEF HttpInit, MapOfHttpGroups, HttpProxy
<1>5. QED
  BY <1>1, <1>2, <1>3, <1>4 DEF HttpInv

(* Steps of a proxy without a group: they take free routes and give back   *)
(* their own, which no group has.                                          *)
LEMMA PlainStep_Inv ==
    ASSUME HttpInv, NEW p \in Plain,
           \/ HttpRun(p) \/ RunAdd(p) \/ RunConflict(p) \/ RunOK(p)
           \/ CloseFunc(p) \/ CloseOver(p) \/ HttpClose(p)
    PROVE  HttpInv'
<1> USE RouteAssumption DEF HttpProxy, HttpInv
<1>1. /\ p \in HttpProxy /\ p \notin Grouped /\ p \notin HGroup
      /\ \A q \in Grouped : q \in HttpProxy /\ q # p
  OBVIOUS
<1>2. /\ UNCHANGED <<listed, created, routeOf, members, holds, under>>
      /\ stage' \in [HttpProxy -> HttpStage]
      /\ \A q \in Grouped : stage'[q] = stage[q] /\ wants'[q] = wants[q]
  BY <1>1 DEF HttpTypeOK, HttpStage, HttpRun, RunAdd, RunConflict, RunOK, CloseFunc, CloseOver, HttpClose
<1>3. \/ \E t \in Route : /\ router[t] = NoRoute /\ router' = [router EXCEPT ![t] = p]
                          /\ closeFuncs' = [closeFuncs EXCEPT ![p] = @ \cup {t}]
      \/ \E t \in Route : /\ router[t] = p /\ router' = [router EXCEPT ![t] = NoRoute]
                          /\ closeFuncs' = [closeFuncs EXCEPT ![p] = @ \ {t}]
      \/ router' = router /\ closeFuncs' = closeFuncs
  <2>1. CASE RunAdd(p)
    <3>1. PICK t \in wants[p] \ closeFuncs[p] :
            Add(t, p) /\ closeFuncs' = [closeFuncs EXCEPT ![p] = @ \cup {t}]
      BY <2>1 DEF RunAdd
    <3>2. t \in Route
      BY <1>1 DEF HttpTypeOK
    <3>3. QED
      BY <3>1, <3>2 DEF Add
  <2>2. CASE CloseFunc(p)
    <3>1. PICK t \in closeFuncs[p] :
            Del(t) /\ closeFuncs' = [closeFuncs EXCEPT ![p] = @ \ {t}]
      BY <2>2 DEF CloseFunc
    <3>2. t \in Route /\ router[t] = p
      BY <1>1 DEF HttpTypeOK, PlainRoutesExact
    <3>3. QED
      BY <3>1, <3>2 DEF Del
  <2>3. CASE HttpRun(p) \/ RunConflict(p) \/ RunOK(p) \/ CloseOver(p) \/ HttpClose(p)
    BY <2>3 DEF HttpRun, RunConflict, RunOK, CloseOver, HttpClose
  <2>4. QED
    BY <2>1, <2>2, <2>3
<1>4. /\ wants' \in [HttpProxy -> SUBSET Route]
      /\ \A q \in Plain : stage'[q] = "up" => closeFuncs'[q] = wants'[q]
  BY <1>1 DEF HttpTypeOK, PlainRoutesExact, HttpRun, RunAdd, RunConflict, RunOK,
              CloseFunc, CloseOver, HttpClose
<1>5. HttpTypeOK'
  BY <1>1, <1>2, <1>3, <1>4 DEF HttpTypeOK
<1>6. PlainRoutesExact'
  <2>1. \A q \in Plain : {t \in Route : router'[t] = q} = closeFuncs'[q]
    BY <1>1, <1>3 DEF HttpTypeOK, PlainRoutesExact
  <2>2. QED
    BY <2>1, <1>4 DEF PlainRoutesExact
<1>7. RoutesOfGroups'
  <2>1. \A g \in HGroup, t \in Route : router'[t] = g <=> router[t] = g
    BY <1>1, <1>3 DEF HttpTypeOK
  <2>2. QED
    BY <1>2, <2>1 DEF RoutesOfGroups
<1>8. MapOfHttpGroups'
  BY <1>2 DEF MapOfHttpGroups
<1>9. QED
  BY <1>5, <1>6, <1>7, <1>8

(* Register finds the group of the name or makes one: no other proxy has   *)
(* or holds it then.                                                       *)
LEMMA HttpLookUp_Inv ==
    ASSUME HttpInv, NEW p \in Grouped, NEW n \in HName, NEW t \in Route, HttpLookUp(p, n, t)
    PROVE  HttpInv'
<1> USE RouteAssumption DEF HttpProxy, HttpInv
<1> DEFINE g == IF listed[n] = NoRoute THEN CHOOSE h \in HGroup : h \notin created ELSE listed[n]
<1>1. /\ g \in HGroup
      /\ listed[n] # NoRoute => g = listed[n]
      /\ listed[n] = NoRoute => g \notin created
  <2>1. CASE listed[n] = NoRoute
    <3>1. \E h \in HGroup : h \notin created
      BY <2>1 DEF HttpLookUp, HttpTypeOK
    <3>2. QED
      BY <2>1, <3>1
  <2>2. CASE listed[n] # NoRoute
    BY <2>2 DEF HttpTypeOK
  <2>3. QED
    BY <2>1, <2>2
<1>2. /\ stage[p] = "idle" /\ stage' = [stage EXCEPT ![p] = "looked"]
      /\ created' = created \cup {g} /\ listed' = [listed EXCEPT ![n] = g]
      /\ holds' = [holds EXCEPT ![p] = g] /\ under' = [under EXCEPT ![p] = n]
      /\ wants' = [wants EXCEPT ![p] = {t}]
      /\ UNCHANGED <<router, routeOf, members, closeFuncs>>
  BY DEF HttpLookUp
<1> HIDE DEF g
<1>3. p \in HttpProxy /\ p \notin Plain /\ g # NoRoute
  BY <1>1
<1>4. HttpTypeOK'
  BY <1>1, <1>2, <1>3 DEF HttpTypeOK, HttpStage
<1>5. PlainRoutesExact'
  BY <1>2, <1>3 DEF HttpTypeOK, PlainRoutesExact
<1>6. \A h \in HGroup : p \notin members[h]
  BY <1>2 DEF RoutesOfGroups
<1>7. RoutesOfGroups'
  BY <1>1, <1>2, <1>3, <1>6 DEF HttpTypeOK, RoutesOfGroups
<1>8. MapOfHttpGroups'
  <2> USE DEF HttpTypeOK, MapOfHttpGroups
  <2>1. \A k \in HName : listed'[k] # NoRoute => listed'[k] \in created'
    BY <1>1, <1>2
  <2>2. \A k, l \in HName : listed'[k] # NoRoute /\ listed'[k] = listed'[l] => k = l
    BY <1>1, <1>2
  <2>3. \A k \in HName, q \in Grouped :
          listed'[k] # NoRoute /\ holds'[q] = listed'[k] => under'[q] = k
    BY <1>1, <1>2, <1>3
  <2>4. \A k \in HName, q \in Grouped : listed'[k] # NoRoute /\ q \in members'[listed'[k]] =>
          stage'[q] \in {"up", "closing"}
    BY <1>1, <1>2, <1>3, <1>6
  <2>5. \A k \in HName : listed'[k] # NoRoute /\ members'[listed'[k]] = {} =>
          routeOf'[listed'[k]] = NoRoute
    BY <1>1, <1>2
  <2>6. \A h \in HGroup \ created' : members'[h] = {} /\ routeOf'[h] = NoRoute
    BY <1>2
  <2>7. \A q \in Grouped : holds'[q] # NoRoute => holds'[q] \in created'
    BY <1>1, <1>2, <1>3
  <2>8. QED
    BY <2>1, <2>2, <2>3, <2>4, <2>5, <2>6, <2>7
<1>9. QED
  BY <1>4, <1>5, <1>7, <1>8

(* A proxy joins the object it holds, be it in the map or not.             *)
LEMMA Register_Inv ==
    ASSUME HttpInv, NEW p \in Grouped, RegisterFirst(p) \/ RegisterNext(p)
    PROVE  HttpInv'
<1> USE RouteAssumption DEF HttpProxy, HttpInv
<1> DEFINE g == holds[p]
<1>1. /\ stage[p] = "looked" /\ g \in created /\ g \in HGroup
      /\ members' = [members EXCEPT ![g] = @ \cup {p}] /\ stage' = [stage EXCEPT ![p] = "up"]
      /\ UNCHANGED <<listed, created, wants, closeFuncs, holds, under>>
  BY DEF HttpTypeOK, RoutesOfGroups, RegisterFirst, RegisterNext, HttpJoined
<1>2. PICK t \in Route :
        /\ t \in wants[p] /\ routeOf' = [routeOf EXCEPT ![g] = t]
        /\ router' = [router EXCEPT ![t] = g]
        /\ \/ members[g] = {} /\ router[t] = NoRoute
           \/ members[g] # {} /\ router[t] = g /\ routeOf[g] = t
  <2>1. CASE RegisterFirst(p)
    BY <1>1, <2>1 DEF HttpTypeOK, RegisterFirst, Add
  <2>2. CASE RegisterNext(p)
    <3>1. members[g] # {} /\ routeOf[g] \in Route /\ routeOf[g] \in wants[p]
      BY <1>1, <2>2 DEF RoutesOfGroups, RegisterNext
    <3>2. router[routeOf[g]] = g
      BY <1>1, <3>1 DEF RoutesOfGroups
    <3>3. router' = router /\ routeOf' = routeOf
      BY <2>2 DEF RegisterNext
    <3>4. router = [router EXCEPT ![routeOf[g]] = g] /\ routeOf = [routeOf EXCEPT ![g] = routeOf[g]]
      BY <3>1, <3>2 DEF HttpTypeOK
    <3>5. QED
      BY <3>1, <3>2, <3>3, <3>4
  <2>3. QED
    BY <2>1, <2>2
<1> HIDE DEF g
<1>3. p \in HttpProxy /\ p \notin Plain /\ g \notin Plain /\ g # NoRoute /\ g = holds[p]
  BY <1>1 DEF g
<1>4. HttpTypeOK'
  BY <1>1, <1>2, <1>3 DEF HttpTypeOK, HttpStage
<1>5. PlainRoutesExact'
  BY <1>1, <1>2, <1>3 DEF HttpTypeOK, PlainRoutesExact
<1>6. RoutesOfGroups'
  <2> USE DEF HttpTypeOK, RoutesOfGroups
  <2>1. \A h \in HGroup, r \in Route : router'[r] = h <=> members'[h] # {} /\ routeOf'[h] = r
    BY <1>1, <1>2, <1>3
  <2>2. \A h \in HGroup : members'[h] # {} => routeOf'[h] \in Route
    BY <1>1, <1>2
  <2>3. \A q \in Grouped, h \in HGroup : q \in members'[h] =>
          /\ holds'[q] = h /\ routeOf'[h] \in wants'[q]
          /\ stage'[q] \notin {"idle", "looked", "refused"}
    BY <1>1, <1>2, <1>3
  <2>4. \A q \in Grouped : stage'[q] \in {"looked", "up", "closing"} =>
          holds'[q] \in created' /\ under'[q] \in HName
    BY <1>1, <1>3
  <2>5. \A q \in Grouped : stage'[q] \in {"up", "closing"} => q \in members'[holds'[q]]
    BY <1>1, <1>3
  <2>6. QED
    BY <2>1, <2>2, <2>3, <2>4, <2>5
<1>7. MapOfHttpGroups'
  <2> USE DEF HttpTypeOK, MapOfHttpGroups
  <2>1. \A n \in HName, q \in Grouped : listed'[n] # NoRoute /\ q \in members'[listed'[n]] =>
          stage'[q] \in {"up", "closing"}
    BY <1>1, <1>3
  <2>2. \A n \in HName : listed'[n] # NoRoute /\ members'[listed'[n]] = {} =>
          routeOf'[listed'[n]] = NoRoute
    BY <1>1, <1>2
  <2>3. \A h \in HGroup \ created' : members'[h] = {} /\ routeOf'[h] = NoRoute
    BY <1>1, <1>2
  <2>4. QED
    BY <1>1, <2>1, <2>2, <2>3
<1>8. QED
  BY <1>4, <1>5, <1>6, <1>7

(* UnRegister goes by the name.  The group it finds is the proxy's own, or *)
(* one it is not in: then only an empty group, without a route, is taken   *)
(* out of the map.                                                         *)
LEMMA UnRegister_Inv ==
    ASSUME HttpInv, NEW p \in Grouped, UnRegister(p)
    PROVE  HttpInv'
<1> USE RouteAssumption DEF HttpProxy, HttpInv
<1> DEFINE n == under[p]
           g == listed[n]
<1>1. /\ stage[p] = "closing" /\ n \in HName /\ stage' = [stage EXCEPT ![p] = "gone"]
      /\ p \in HttpProxy /\ p \notin Plain
      /\ UNCHANGED <<created, routeOf, wants, closeFuncs, holds, under>>
  BY DEF UnRegister, RoutesOfGroups
<1>2. CASE g = NoRoute
  <2>1. UNCHANGED <<router, listed, members>>
    BY <1>2 DEF UnRegister
  <2>2. HttpTypeOK' /\ PlainRoutesExact'
    BY <1>1, <2>1 DEF HttpTypeOK, HttpStage, PlainRoutesExact
  <2>3. RoutesOfGroups'
    BY <1>1, <2>1 DEF HttpTypeOK, RoutesOfGroups
  <2>4. \A k \in HName : listed[k] # NoRoute => p \notin members[listed[k]]
    BY <1>1, <1>2 DEF HttpTypeOK, RoutesOfGroups, MapOfHttpGroups
  <2>5. MapOfHttpGroups'
    BY <1>1, <2>1, <2>4 DEF HttpTypeOK, MapOfHttpGroups
  <2>6. QED
    BY <2>2, <2>3, <2>5
<1>3. CASE g # NoRoute
  <2>1. g \in created /\ g \in HGroup
    BY <1>1, <1>3 DEF HttpTypeOK, MapOfHttpGroups
  <2>2. members' = [members EXCEPT ![g] = @ \ {p}]
    BY <1>3 DEF UnRegister
  <2>3. \/ /\ members[g] \subseteq {p} /\ listed' = [listed EXCEPT ![n] = NoRoute]
           /\ router' = IF routeOf[g] \in Route THEN [router EXCEPT ![routeOf[g]] = NoRoute]
                                                ELSE router
        \/ ~(members[g] \subseteq {p}) /\ UNCHANGED <<router, listed>>
    BY <1>3 DEF UnRegister, Del
  <2>4. \A r \in Route, h \in HGroup \ {g} : router'[r] = h <=> router[r] = h
    BY <1>1, <1>3, <2>1, <2>3 DEF HttpTypeOK, RoutesOfGroups, MapOfHttpGroups
  <2>5. \A r \in Route, q \in Plain : router'[r] = q <=> router[r] = q
    BY <1>1, <1>3, <2>1, <2>3 DEF HttpTypeOK, RoutesOfGroups, MapOfHttpGroups
  <2>6. \A r \in Route : router'[r] = g <=> members'[g] # {} /\ routeOf[g] = r
    BY <1>1, <1>3, <2>1, <2>2, <2>3 DEF HttpTypeOK, RoutesOfGroups, MapOfHttpGroups
  <2>7. \A k \in HName, q \in Grouped :
          listed[k] # NoRoute /\ q \in members[listed[k]] => under[q] = k
    BY DEF HttpTypeOK, RoutesOfGroups, MapOfHttpGroups
  <2> HIDE DEF n, g
  <2>8. HttpTypeOK'
    BY <1>1, <2>1, <2>2, <2>3 DEF HttpTypeOK, HttpStage
  <2>9. PlainRoutesExact'
    BY <1>1, <2>5 DEF HttpTypeOK, PlainRoutesExact
  <2>10. RoutesOfGroups'
    <3> USE DEF HttpTypeOK, RoutesOfGroups
    <3>1. \A h \in HGroup, r \in Route : router'[r] = h <=> members'[h] # {} /\ routeOf'[h] = r
      BY <1>1, <2>1, <2>2, <2>4, <2>6
    <3>2. \A h \in HGroup : members'[h] # {} => routeOf'[h] \in Route
      BY <1>1, <2>1, <2>2
    <3>3. \A q \in Grouped, h \in HGroup : q \in members'[h] =>
            /\ holds'[q] = h /\ routeOf'[h] \in wants'[q]
            /\ stage'[q] \notin {"idle", "looked", "refused"}
      BY <1>1, <2>1, <2>2
    <3>4. \A q \in Grouped : stage'[q] \in {"looked", "up", "closing"} =>
            holds'[q] \in created' /\ under'[q] \in HName
      BY <1>1
    <3>5. \A q \in Grouped : stage'[q] \in {"up", "closing"} => q \in members'[holds'[q]]
      BY <1>1, <2>1, <2>2
    <3>6. QED
      BY <3>1, <3>2, <3>3, <3>4, <3>5
  <2>11. MapOfHttpGroups'
    <3> USE DEF HttpTypeOK, MapOfHttpGroups
    <3>1. \A k \in HName : listed'[k] # NoRoute => listed'[k] = listed[k]
      BY <1>1, <2>3
    <3>2. g = listed[n] /\ n = under[p]
      BY DEF g, n
    <3>3. \A k \in HName, q \in Grouped : listed'[k] # NoRoute /\ q \in members'[listed'[k]] =>
            stage'[q] \in {"up", "closing"}
      BY <1>1, <2>1, <2>2, <2>7, <3>1, <3>2
    <3>4. \A k \in HName : listed'[k] # NoRoute /\ members'[listed'[k]] = {} =>
            routeOf'[listed'[k]] = NoRoute
      BY <1>1, <2>1, <2>2, <2>3, <3>1, <3>2
    <3>5. \A h \in HGroup \ created' : members'[h] = {} /\ routeOf'[h] = NoRoute
      BY <1>1, <2>1, <2>2
    <3>6. QED
      BY <1>1, <3>1, <3>3, <3>4, <3>5
  <2>12. QED
    BY <2>8, <2>9, <2>10, <2>11
<1>4. QED
  BY <1>2, <1>3

LEMMA HttpNext_Inv == HttpInv /\ [HttpNext]_httpVars => HttpInv'
<1> SUFFICES ASSUME HttpInv, [HttpNext]_httpVars
             PROVE  HttpInv'
  OBVIOUS
<1>1. ASSUME NEW p \in Plain,
             \/ HttpRun(p) \/ RunAdd(p) \/ RunConflict(p) \/ RunOK(p)
             \/ CloseFunc(p) \/ CloseOver(p) \/ HttpClose(p)
      PROVE  HttpInv'
  BY <1>1, PlainStep_Inv
<1>2. ASSUME NEW p \in Grouped, NEW n \in HName, NEW t \in Route, HttpLookUp(p, n, t)
      PROVE  HttpInv'
  BY <1>2, HttpLookUp_Inv
<1>3. ASSUME NEW p \in Grouped, RegisterFirst(p) \/ RegisterNext(p)
      PROVE  HttpInv'
  BY <1>3, Register_Inv
<1>4. ASSUME NEW p \in Grouped, RegisterFails(p) \/ HttpClose(p)
      PROVE  HttpInv'
  <2>1. /\ UNCHANGED <<router, listed, created, routeOf, members, wants, closeFuncs, holds, under>>
        /\ \/ stage[p] = "looked" /\ stage' = [stage EXCEPT ![p] = "refused"]
           \/ stage[p] = "up" /\ stage' = [stage EXCEPT ![p] = "closing"]
    BY <1>4 DEF RegisterFails, HttpClose
  <2>2. p \in HttpProxy /\ p \notin Plain
    BY RouteAssumption DEF HttpProxy
  <2>3. HttpTypeOK' /\ PlainRoutesExact'
    BY <2>1, <2>2 DEF HttpInv, HttpTypeOK, HttpStage, PlainRoutesExact, HttpProxy
  <2>4. RoutesOfGroups'
    BY <2>1, <2>2 DEF HttpInv, HttpTypeOK, RoutesOfGroups, HttpProxy
  <2>5. MapOfHttpGroups'
    BY <2>1, <2>2 DEF HttpInv, HttpTypeOK, MapOfHttpGroups, HttpProxy
  <2>6. QED
    BY <2>3, <2>4, <2>5 DEF HttpInv
<1>5. ASSUME NEW p \in Grouped, UnRegister(p)
      PROVE  HttpInv'
  BY <1>5, UnRegister_Inv
<1>6. CASE UNCHANGED httpVars
  BY <1>6 DEF httpVars, HttpInv, HttpTypeOK, PlainRoutesExact, RoutesOfGroups, MapOfHttpGroups
<1>7. QED
  BY <1>1, <1>2, <1>3, <1>4, <1>5, <1>6 DEF HttpNext, HttpProxy

LEMMA HttpInvariant == HttpSpec => []HttpInv
  BY HttpInit_Inv, HttpNext_Inv, PTL DEF HttpSpec

(* A proxy without a group owns exactly the routes it has added, whatever  *)
(* groups and failing proxies do beside it.                                *)
THEOREM PlainRoutesKept == HttpSpec => []PlainRoutesExact
  BY HttpInvariant, PTL DEF HttpInv

(* The route of a proxy that is up in a group leads to its group.          *)
THEOREM GroupMembersReachable == HttpSpec => []MembersReachable
<1>1. HttpInv => MembersReachable
  BY DEF HttpInv, HttpTypeOK, RoutesOfGroups, MapOfHttpGroups, MembersReachable, HttpProxy
<1>2. QED
  BY <1>1, HttpInvariant, PTL

(* The group the map has under a name has living members only, and its own *)
(* route only.                                                             *)
THEOREM ListedGroupsLive == HttpSpec => []ListedIsLive
<1>1. HttpInv => ListedIsLive
  BY DEF HttpInv, HttpTypeOK, RoutesOfGroups, MapOfHttpGroups, ListedIsLive
<1>2. QED
  BY <1>1, HttpInvariant, PTL

-----------------------------------------------------------------------------
(* VhostRouter                                                             *)

(* A search that stops at the first hit: the order of the naturals is well *)
(* founded, so the set of the hits has a least element.                    *)
NatLess == {p \in Nat \X Nat : p[1] < p[2]}

LEMMA NatLessWellFounded == IsWellFoundedOn(NatLess, Nat)
<1>1. OpToRel(<, Nat) = NatLess
  BY DEF OpToRel, NatLess
<1>2. QED
  BY NatLessThanWellFounded DEF OpToRel, NatLess

(* A set of numbers that is not empty has a least element. *)
LEMMA Least ==
    ASSUME NEW S \in SUBSET Nat, S # {}
    PROVE  \E m \in S : \A n \in S : m <= n
<1>1. PICK m \in S : \A n \in S : <<n, m>> \notin NatLess
  BY WFMin, NatLessWellFounded
<1>2. \A n \in S : ~(n < m)
  BY <1>1 DEF NatLess
<1>3. QED
  BY <1>2

-----------------------------------------------------------------------------
(* A prefix agrees with the whole at each of its places. *)
LEMMA PrefixAgrees ==
    ASSUME NEW S, NEW a \in Seq(S), NEW b \in Seq(S)
    PROVE  IsPrefix(a, b) <=> Len(a) <= Len(b) /\ \A i \in 1..Len(a) : a[i] = b[i]
<1>1. ASSUME Len(a) <= Len(b)
      PROVE  /\ SubSeq(a, 1, Len(a)) = [i \in 1..Len(a) |-> a[i]]
             /\ SubSeq(b, 1, Len(a)) = [i \in 1..Len(a) |-> b[i]]
  BY <1>1
<1>2. QED
  BY <1>1 DEF IsPrefix

(* Of two locations of a path the one that comes first in descending order *)
(* is the longer one.                                                      *)
LEMMA DescendsIsLonger ==
    ASSUME NEW a \in Seq(Nat), NEW b \in Seq(Nat), NEW p \in Seq(Nat),
           Descends(a, b), IsPrefix(a, p), IsPrefix(b, p)
    PROVE  Len(b) < Len(a)
<1>1. /\ \A i \in 1..Len(a) : a[i] = p[i]
      /\ \A i \in 1..Len(b) : b[i] = p[i]
  BY PrefixAgrees
<1>2. CASE IsStrictPrefix(b, a)
  <2>1. /\ Len(b) <= Len(a) /\ b # a
        /\ \A i \in 1..Len(b) : b[i] = a[i]
    BY <1>2, PrefixAgrees DEF IsStrictPrefix
  <2>2. Len(b) # Len(a)
    <3>1. a = [i \in 1..Len(a) |-> a[i]] /\ b = [i \in 1..Len(b) |-> b[i]]
      OBVIOUS
    <3>2. QED
      BY <2>1, <3>1
  <2>3. QED
    BY <2>1, <2>2
<1>3. CASE \E i \in DOMAIN a \cap DOMAIN b : a[i] > b[i]
  <2>1. PICK i \in DOMAIN a \cap DOMAIN b : a[i] > b[i]
    BY <1>3
  <2>2. i \in 1..Len(a) /\ i \in 1..Len(b)
    OBVIOUS
  <2>3. a[i] = p[i] /\ b[i] = p[i] /\ a[i] \in Nat
    BY <1>1, <2>2
  <2>4. QED
    BY <2>1, <2>3
<1>4. QED
  BY <1>2, <1>3 DEF Descends

(* A strict suffix is what is left after some of the first elements. *)
LEMMA SuffixIsRest ==
    ASSUME NEW S, NEW a \in Seq(S), NEW b \in Seq(S)
    PROVE  IsStrictSuffix(a, b) <=> \E i \in 1..Len(b) : a = SubSeq(b, i + 1, Len(b))
<1>1. /\ Reverse(a) \in Seq(S) /\ Len(Reverse(a)) = Len(a)
      /\ \A k \in 1..Len(a) : Reverse(a)[k] = a[Len(a) - k + 1]
  BY DEF Reverse
<1>2. /\ Reverse(b) \in Seq(S) /\ Len(Reverse(b)) = Len(b)
      /\ \A k \in 1..Len(b) : Reverse(b)[k] = b[Len(b) - k + 1]
  BY DEF Reverse
<1>3. IsSuffix(a, b) <=>
        Len(a) <= Len(b) /\ \A k \in 1..Len(a) : a[Len(a) - k + 1] = b[Len(b) - k + 1]
  <2>1. IsPrefix(Reverse(a), Reverse(b)) <=>
          Len(a) <= Len(b) /\ \A k \in 1..Len(a) : Reverse(a)[k] = Reverse(b)[k]
    BY <1>1, <1>2, PrefixAgrees
  <2>2. QED
    BY <1>1, <1>2, <2>1 DEF IsSuffix
<1>4. ASSUME IsStrictSuffix(a, b)
      PROVE  \E i \in 1..Len(b) : a = SubSeq(b, i + 1, Len(b))
  <2> DEFINE i == Len(b) - Len(a)
  <2>1. Len(a) <= Len(b) /\ \A k \in 1..Len(a) : a[Len(a) - k + 1] = b[Len(b) - k + 1]
    BY <1>3, <1>4 DEF IsStrictSuffix
  <2>2. \A j \in 1..Len(a) : a[j] = b[i + j]
    <3> TAKE j \in 1..Len(a)
    <3>1. Len(a) - j + 1 \in 1..Len(a)
      OBVIOUS
    <3>2. QED
      BY <2>1, <3>1
  <2>3. i # 0
    BY <1>4, <2>1, <2>2 DEF IsStrictSuffix
  <2>4. i \in 1..Len(b)
    BY <2>1, <2>3
  <2>5. a = SubSeq(b, i + 1, Len(b))
    BY <2>1, <2>2, <2>4
  <2>6. QED
    BY <2>4, <2>5
<1>5. ASSUME NEW i \in 1..Len(b), a = SubSeq(b, i + 1, Len(b))
      PROVE  IsStrictSuffix(a, b)
  <2>1. Len(a) = Len(b) - i /\ \A j \in 1..Len(a) : a[j] = b[i + j]
    BY <1>5
  <2>2. \A k \in 1..Len(a) : a[Len(a) - k + 1] = b[Len(b) - k + 1]
    <3> TAKE k \in 1..Len(a)
    <3>1. Len(a) - k + 1 \in 1..Len(a)
      OBVIOUS
    <3>2. QED
      BY <2>1, <3>1
  <2>3. QED
    BY <1>3, <2>1, <2>2 DEF IsStrictSuffix
<1>6. QED
  BY <1>4, <1>5

-----------------------------------------------------------------------------
RouterInv ==
    /\ RouterTypeOK
    /\ \A d \in Domain, u \in HttpUser : Descending(indexByDomain[d][u])

LEMMA RouterInit_Inv == RouterInit => RouterInv
  BY DEF RouterInit, RouterInv, RouterTypeOK, Descending

LEMMA RemoveAtElements ==
    ASSUME NEW S, NEW s \in Seq(S), NEW i \in 1..Len(s)
    PROVE  /\ RemoveAt(s, i) \in Seq(S) /\ Len(RemoveAt(s, i)) = Len(s) - 1
           /\ \A j \in 1..Len(s) - 1 : RemoveAt(s, i)[j] = IF j < i THEN s[j] ELSE s[j + 1]
<1> DEFINE a == SubSeq(s, 1, i - 1)
           b == SubSeq(s, i + 1, Len(s))
<1>1. a \in Seq(S) /\ Len(a) = i - 1 /\ \A j \in 1..i - 1 : a[j] = s[j]
  OBVIOUS
<1>2. b \in Seq(S) /\ Len(b) = Len(s) - i /\ \A j \in 1..Len(s) - i : b[j] = s[i + j]
  OBVIOUS
<1> HIDE DEF a, b
<1>3. /\ a \o b \in Seq(S) /\ Len(a \o b) = Len(s) - 1
      /\ \A j \in 1..Len(s) - 1 : (a \o b)[j] = IF j < i THEN a[j] ELSE b[j - (i - 1)]
  <2>1. /\ a \o b \in Seq(S) /\ Len(a \o b) = Len(a) + Len(b)
        /\ \A j \in 1 .. Len(a) + Len(b) :
              (a \o b)[j] = IF j <= Len(a) THEN a[j] ELSE b[j - Len(a)]
    BY <1>1, <1>2, ConcatProperties, Zenon
  <2>2. Len(a) + Len(b) = Len(s) - 1 /\ Len(a) = i - 1
    BY <1>1, <1>2
  <2> DEFINE c == a \o b
  <2> HIDE DEF c
  <2>3. /\ c \in Seq(S) /\ Len(c) = Len(s) - 1
        /\ \A j \in 1..Len(s) - 1 : c[j] = IF j <= i - 1 THEN a[j] ELSE b[j - (i - 1)]
    BY <2>1, <2>2 DEF c
  <2>4. \A j \in 1..Len(s) - 1 : j <= i - 1 <=> j < i
    OBVIOUS
  <2>5. QED
    BY <2>3, <2>4 DEF c
<1>4. ASSUME NEW j \in 1..Len(s) - 1
      PROVE  (a \o b)[j] = IF j < i THEN s[j] ELSE s[j + 1]
  <2>1. CASE j < i
    BY <1>1, <1>3, <2>1
  <2>2. CASE ~(j < i)
    <3>1. j - (i - 1) \in 1..Len(s) - i
      BY <2>2
    <3>2. b[j - (i - 1)] = s[j + 1]
      BY <1>2, <3>1
    <3>3. QED
      BY <1>3, <2>2, <3>2
  <2>3. QED
    BY <2>1, <2>2
<1>5. QED
  BY <1>3, <1>4 DEF RemoveAt, a, b

LEMMA RouterNext_Inv == RouterInv /\ [RouterNext]_indexByDomain => RouterInv'
<1> SUFFICES ASSUME RouterInv, [RouterNext]_indexByDomain
             PROVE  RouterInv'
  OBVIOUS
<1>1. ASSUME NEW d \in Domain, NEW l \in Location, NEW u \in HttpUser,
             AddRoute(d, l, u)
      PROVE  RouterInv'
  <2> DEFINE locs == indexByDomain[d][u]
  <2>1. PICK s \in [1 .. Len(locs) + 1 -> ToSet(locs) \cup {l}] :
           Descending(s) /\ indexByDomain' = [indexByDomain EXCEPT ![d][u] = s]
    BY <1>1 DEF AddRoute
  <2>2. locs \in Seq(Location)
    BY DEF RouterInv, RouterTypeOK
  <2>3. s \in Seq(Location)
    BY <2>2 DEF ToSet
  <2>4. QED
    BY <2>1, <2>3 DEF RouterInv, RouterTypeOK
<1>2. ASSUME NEW d \in Domain, NEW l \in Location, NEW u \in HttpUser,
             DelRoute(d, l, u)
      PROVE  RouterInv'
  <2> DEFINE locs == indexByDomain[d][u]
  <2>1. locs \in Seq(Location) /\ Descending(locs)
    BY DEF RouterInv, RouterTypeOK
  <2>2. PICK i \in DOMAIN locs :
           indexByDomain' = [indexByDomain EXCEPT ![d][u] = RemoveAt(@, i)]
    BY <1>2 DEF DelRoute
  <2> DEFINE rest == RemoveAt(locs, i)
  <2>3. i \in 1..Len(locs)
    BY <2>1
  <2>4. /\ rest \in Seq(Location) /\ Len(rest) = Len(locs) - 1
        /\ \A j \in 1..Len(locs) - 1 : rest[j] = IF j < i THEN locs[j] ELSE locs[j + 1]
    BY <2>1, <2>3, RemoveAtElements
  <2>5. indexByDomain' = [indexByDomain EXCEPT ![d] = [indexByDomain[d] EXCEPT ![u] = rest]]
    BY <2>2
  <2> HIDE DEF rest, locs
  <2>6. Descending(rest)
    <3> SUFFICES ASSUME NEW j \in 1..Len(locs) - 1, NEW k \in 1..Len(locs) - 1, j < k
                 PROVE  Descends(rest[j], rest[k])
      BY <2>4 DEF Descending
    <3> DEFINE old(x) == IF x < i THEN x ELSE x + 1
    <3>1. /\ old(j) \in 1..Len(locs) /\ old(k) \in 1..Len(locs) /\ old(j) < old(k)
          /\ rest[j] = locs[old(j)] /\ rest[k] = locs[old(k)]
      BY <2>1, <2>3, <2>4
    <3>2. QED
      BY <2>1, <3>1 DEF Descending
  <2>7. QED
    BY <2>4, <2>5, <2>6 DEF RouterInv, RouterTypeOK
<1>3. CASE UNCHANGED indexByDomain
  BY <1>3 DEF RouterInv, RouterTypeOK, Descending
<1>4. QED
  BY <1>1, <1>2, <1>3 DEF RouterNext

LEMMA RouterInvariant == RouterSpec => []RouterInv
  BY RouterInit_Inv, RouterNext_Inv, PTL DEF RouterSpec

-----------------------------------------------------------------------------
(* What HTTPGroup takes the router for: a set of routes, to which Add adds *)
(* the one route and from which Del takes the one route, whatever sorting  *)
(* and cutting of lists that needs.                                        *)
OneRouteMoves ==
    \E d \in Domain, l \in Location, u \in HttpUser :
        LET r == [domain |-> d, user |-> u, location |-> l]
        IN  \/ AddRoute(d, l, u) /\ r \notin Routes /\ Routes' = Routes \cup {r}
            \/ DelRoute(d, l, u) /\ r \in Routes /\ Routes' = Routes \ {r}

AnyRoute == [domain : Domain, user : HttpUser, location : Location]

LEMMA RoutesByList ==
    /\ \A r : r \in Routes <=> r \in AnyRoute /\ r.location \in ToSet(indexByDomain[r.domain][r.user])
    /\ \A r : r \in Routes' <=> r \in AnyRoute /\ r.location \in ToSet(indexByDomain'[r.domain][r.user])
  BY DEF Routes, AnyRoute, ToSet

LEMMA OneListChanges ==
    ASSUME RouterInv, NEW d \in Domain, NEW u \in HttpUser, NEW s,
           indexByDomain' = [indexByDomain EXCEPT ![d][u] = s],
           NEW l \in Location, NEW L, L = ToSet(s)
    PROVE  \A r \in AnyRoute : r \in Routes' <=>
              IF r.domain = d /\ r.user = u THEN r.location \in L ELSE r \in Routes
<1> TAKE r \in AnyRoute
<1>1. r.domain \in Domain /\ r.user \in HttpUser
  BY DEF AnyRoute
<1>2. indexByDomain'[r.domain][r.user] =
          IF r.domain = d /\ r.user = u THEN s ELSE indexByDomain[r.domain][r.user]
  BY <1>1 DEF RouterInv, RouterTypeOK
<1>3. QED
  BY <1>2, RoutesByList

LEMMA AddMovesOne ==
    ASSUME RouterInv, NEW d \in Domain, NEW l \in Location, NEW u \in HttpUser, AddRoute(d, l, u)
    PROVE  LET r == [domain |-> d, user |-> u, location |-> l]
           IN  r \notin Routes /\ Routes' = Routes \cup {r}
<1> DEFINE r == [domain |-> d, user |-> u, location |-> l]
           locs == indexByDomain[d][u]
<1>1. r \in AnyRoute /\ r.domain = d /\ r.user = u /\ r.location = l
  BY DEF AnyRoute
<1>2. l \notin ToSet(locs)
  BY DEF AddRoute
<1>3. PICK s \in [1 .. Len(locs) + 1 -> ToSet(locs) \cup {l}] :
           ToSet(s) = ToSet(locs) \cup {l} /\ indexByDomain' = [indexByDomain EXCEPT ![d][u] = s]
  BY DEF AddRoute
<1>4. \A x \in AnyRoute : x \in Routes' <=>
          IF x.domain = d /\ x.user = u THEN x.location \in ToSet(locs) \cup {l} ELSE x \in Routes
  BY <1>3, OneListChanges
<1>5. \A x \in AnyRoute : x.domain = d /\ x.user = u =>
          (x \in Routes <=> x.location \in ToSet(locs)) /\ (x.location = l => x = r)
  BY RoutesByList DEF AnyRoute
<1>6. Routes \subseteq AnyRoute /\ Routes' \subseteq AnyRoute
  BY RoutesByList
<1> HIDE DEF r, locs
<1>7. r \notin Routes
  BY <1>1, <1>2, <1>5
<1>8. Routes' = Routes \cup {r}
  BY <1>1, <1>4, <1>5, <1>6
<1>9. QED
  BY <1>7, <1>8 DEF r

(* No location is in a list twice. *)
LEMMA NoneTwice ==
    ASSUME NEW s \in Seq(Location), Descending(s), NEW i \in 1 .. Len(s), NEW j \in 1 .. Len(s), i # j
    PROVE  s[i] # s[j]
<1>1. Descends(s[i], s[j]) \/ Descends(s[j], s[i])
  BY DEF Descending
<1>2. ASSUME NEW a \in Seq(Nat), Descends(a, a)
      PROVE  FALSE
  BY <1>2 DEF Descends, IsStrictPrefix
<1>3. s[i] \in Seq(Nat)
  BY RouterAssumption
<1>4. QED
  BY <1>1, <1>2, <1>3

LEMMA DelMovesOne ==
    ASSUME RouterInv, NEW d \in Domain, NEW l \in Location, NEW u \in HttpUser, DelRoute(d, l, u)
    PROVE  LET r == [domain |-> d, user |-> u, location |-> l]
           IN  r \in Routes /\ Routes' = Routes \ {r}
<1> DEFINE r == [domain |-> d, user |-> u, location |-> l]
           locs == indexByDomain[d][u]
<1>1. r \in AnyRoute /\ r.domain = d /\ r.user = u /\ r.location = l
  BY DEF AnyRoute
<1>2. locs \in Seq(Location) /\ Descending(locs)
  BY DEF RouterInv, RouterTypeOK
<1>0. DOMAIN locs = 1 .. Len(locs)
  BY <1>2
<1>3. PICK i \in 1 .. Len(locs) :
          /\ locs[i] = l
          /\ indexByDomain' = [indexByDomain EXCEPT ![d][u] = RemoveAt(@, i)]
  BY <1>0, Zenon DEF DelRoute
<1> DEFINE rest == RemoveAt(locs, i)
<1>4. ToSet(rest) = ToSet(locs) \ {l}
  <2>1. /\ rest \in Seq(Location) /\ Len(rest) = Len(locs) - 1
        /\ \A j \in 1..Len(locs) - 1 : rest[j] = IF j < i THEN locs[j] ELSE locs[j + 1]
    BY <1>2, RemoveAtElements
  <2> HIDE DEF rest, locs
  <2>2. ASSUME NEW x \in ToSet(rest)
        PROVE  x \in ToSet(locs) \ {l}
    <3>1. PICK j \in 1 .. Len(locs) - 1 : x = rest[j]
      BY <2>1 DEF ToSet
    <3>2. PICK k \in 1 .. Len(locs) : k # i /\ x = locs[k]
      BY <1>2, <2>1, <3>1
    <3>3. x # l
      BY <1>2, <1>3, <3>2, NoneTwice
    <3>4. QED
      BY <1>2, <3>2, <3>3 DEF ToSet
  <2>3. ASSUME NEW x \in ToSet(locs) \ {l}
        PROVE  x \in ToSet(rest)
    <3>1. PICK k \in 1 .. Len(locs) : k # i /\ x = locs[k]
      BY <1>2, <1>3, <2>3 DEF ToSet
    <3>2. PICK j \in 1 .. Len(locs) - 1 : x = rest[j]
      <4>1. CASE k < i
        BY <1>2, <2>1, <3>1, <4>1
      <4>2. CASE k > i
        <5>1. k - 1 \in 1 .. Len(locs) - 1 /\ ~(k - 1 < i)
          BY <1>2, <4>2
        <5>2. rest[k - 1] = locs[k]
          BY <1>2, <2>1, <5>1
        <5>3. QED
          BY <3>1, <5>1, <5>2
      <4>3. QED
        BY <1>2, <3>1, <4>1, <4>2
    <3>3. QED
      BY <2>1, <3>2 DEF ToSet
  <2>4. QED
    BY <2>2, <2>3
<1>5. \A x \in AnyRoute : x \in Routes' <=>
          IF x.domain = d /\ x.user = u THEN x.location \in ToSet(locs) \ {l} ELSE x \in Routes
  BY <1>3, <1>4, OneListChanges
<1>6. \A x \in AnyRoute : x.domain = d /\ x.user = u =>
          (x \in Routes <=> x.location \in ToSet(locs)) /\ (x.location = l => x = r)
  BY RoutesByList DEF AnyRoute
<1>7. Routes \subseteq AnyRoute /\ Routes' \subseteq AnyRoute
  BY RoutesByList
<1>8. l \in ToSet(locs)
  BY <1>2, <1>3 DEF ToSet
<1> HIDE DEF r, locs
<1>9. r \in Routes
  BY <1>1, <1>6, <1>8
<1>10. Routes' = Routes \ {r}
  BY <1>1, <1>5, <1>6, <1>7
<1>11. QED
  BY <1>9, <1>10 DEF r

THEOREM RouterIsASet == RouterSpec => [][OneRouteMoves]_indexByDomain
<1>1. ASSUME RouterInv, [RouterNext]_indexByDomain
      PROVE  [OneRouteMoves]_indexByDomain
  BY <1>1, AddMovesOne, DelMovesOne DEF RouterNext, OneRouteMoves
<1>2. QED
  BY <1>1, RouterInvariant, PTL DEF RouterSpec

-----------------------------------------------------------------------------
(* A request                                                               *)

Name == Seq(Label) \ {<<>>}

(* A route of one domain and user that a path can take. *)
Serves(r, d, path, u) == r.domain = d /\ r.user = u /\ IsPrefix(r.location, path)

(* Get finds the longest location, if there is one. *)
LEMMA GetLongest ==
    ASSUME RouterInv, NEW d \in Name, NEW path \in Path, NEW u \in HttpUser
    PROVE  LET got == Get(d, path, u)
           IN  \/ got = NoMatch /\ \A r \in Routes : ~Serves(r, d, path, u)
               \/ /\ got # NoMatch /\ got \in Routes /\ Serves(got, d, path, u)
                  /\ \A r \in Routes : Serves(r, d, path, u) /\ r # got =>
                        Len(r.location) < Len(got.location)
<1> DEFINE locs == IF d \in Domain THEN indexByDomain[d][u] ELSE <<>>
           hits == {i \in DOMAIN locs : IsPrefix(locs[i], path)}
           first == CHOOSE i \in hits : \A j \in hits : i <= j
           got == [domain |-> d, user |-> u, location |-> locs[first]]
<1>1. locs \in Seq(Location) /\ Descending(locs)
  BY DEF RouterInv, RouterTypeOK, Descending
<1>2. ASSUME NEW r \in Routes, Serves(r, d, path, u)
      PROVE  \E i \in hits : r = [domain |-> d, user |-> u, location |-> locs[i]]
  <2>1. /\ r \in [domain : Domain, user : HttpUser, location : Location]
        /\ \E i \in DOMAIN indexByDomain[r.domain][r.user] :
              indexByDomain[r.domain][r.user][i] = r.location
    BY DEF Routes
  <2>2. r.domain = d /\ r.user = u /\ d \in Domain
    BY <1>2, <2>1 DEF Serves
  <2>3. PICK i \in DOMAIN locs : locs[i] = r.location
    BY <2>1, <2>2
  <2>4. i \in hits
    BY <1>2, <2>3 DEF Serves
  <2>5. r = [domain |-> d, user |-> u, location |-> locs[i]]
    BY <2>1, <2>2, <2>3
  <2>6. QED
    BY <2>4, <2>5
<1>3. CASE hits = {}
  <2>1. Get(d, path, u) = NoMatch
    BY <1>3 DEF Get
  <2>2. QED
    BY <1>2, <1>3, <2>1
<1>4. CASE hits # {}
  <2>1. hits \in SUBSET Nat /\ hits \subseteq 1..Len(locs)
    BY <1>1
  <2>2. \E i \in hits : \A j \in hits : i <= j
    BY <1>4, <2>1, Least
  <2>3. first \in hits /\ \A j \in hits : first <= j
    BY <2>2
  <2>4. Get(d, path, u) = got
    BY <1>4 DEF Get
  <2> HIDE DEF first
  <2>5. d \in Domain
    BY <2>3
  <2>6. locs[first] \in Location /\ IsPrefix(locs[first], path)
    BY <1>1, <2>3
  <2>7. locs = indexByDomain[d][u]
    BY <2>5
  <2> HIDE DEF locs, hits
  <2>8. got \in Routes
    BY <2>1, <2>3, <2>5, <2>6, <2>7, <1>1 DEF Routes
  <2>9. got # NoMatch /\ Serves(got, d, path, u)
    BY <2>6 DEF NoMatch, Serves, Name
  <2>10. ASSUME NEW r \in Routes, Serves(r, d, path, u), r # got
         PROVE  Len(r.location) < Len(got.location)
    <3>1. PICK i \in hits : r = [domain |-> d, user |-> u, location |-> locs[i]]
      BY <1>2, <2>10
    <3>2. i # first /\ first <= i /\ r.location = locs[i] /\ got.location = locs[first]
      BY <2>3, <2>10, <3>1
    <3>3. Descends(locs[first], locs[i])
      BY <1>1, <2>1, <2>3, <3>1, <3>2 DEF Descending
    <3>4. locs[i] \in Seq(Nat) /\ locs[first] \in Seq(Nat) /\ path \in Seq(Nat)
      BY <1>1, <2>1, <2>3, RouterAssumption
    <3>5. IsPrefix(locs[i], path)
      BY <3>1 DEF hits
    <3>6. QED
      BY <2>6, <3>2, <3>3, <3>4, <3>5, DescendsIsLonger
  <2>11. QED
    BY <2>4, <2>8, <2>9, <2>10
<1>5. QED
  BY <1>3, <1>4

(* A route of one domain that a request can take. *)
Takes(r, d, path, u) == r.domain = d /\ r.user \in {u, AnyUser} /\ IsPrefix(r.location, path)

(* FindRouter finds the most specific route of a domain, if there is one. *)
LEMMA FindRouterBest ==
    ASSUME RouterInv, NEW d \in Name, NEW path \in Path, NEW u \in HttpUser
    PROVE  LET got == FindRouter(d, path, u)
           IN  \/ got = NoMatch /\ \A r \in Routes : ~Takes(r, d, path, u)
               \/ /\ got # NoMatch /\ got \in Routes /\ Takes(got, d, path, u)
                  /\ \A r \in Routes : Takes(r, d, path, u) /\ r # got => MoreSpecific(got, r)
<1> DEFINE mine == Get(d, path, u)
           anys == Get(d, path, AnyUser)
<1>1. \/ mine = NoMatch /\ \A r \in Routes : ~Serves(r, d, path, u)
      \/ /\ mine # NoMatch /\ mine \in Routes /\ Serves(mine, d, path, u)
         /\ \A r \in Routes : Serves(r, d, path, u) /\ r # mine =>
               Len(r.location) < Len(mine.location)
  BY GetLongest
<1>2. \/ anys = NoMatch /\ \A r \in Routes : ~Serves(r, d, path, AnyUser)
      \/ /\ anys # NoMatch /\ anys \in Routes /\ Serves(anys, d, path, AnyUser)
         /\ \A r \in Routes : Serves(r, d, path, AnyUser) /\ r # anys =>
               Len(r.location) < Len(anys.location)
  BY GetLongest, RouterAssumption
<1>3. FindRouter(d, path, u) = IF mine # NoMatch THEN mine ELSE anys
  BY DEF FindRouter
<1>4. \A r \in Routes : Takes(r, d, path, u) <=> Serves(r, d, path, u) \/ Serves(r, d, path, AnyUser)
  BY DEF Takes, Serves
<1>5. \A r \in Routes : r.location \in Seq(Nat)
  BY RouterAssumption DEF Routes
<1> HIDE DEF mine, anys
<1>6. CASE mine # NoMatch
  <2>1. ASSUME NEW r \in Routes, Takes(r, d, path, u), r # mine
        PROVE  MoreSpecific(mine, r)
    <3>1. CASE Serves(r, d, path, u)
      BY <1>1, <1>5, <1>6, <2>1, <3>1 DEF MoreSpecific, Serves
    <3>2. CASE ~Serves(r, d, path, u) /\ Serves(r, d, path, AnyUser)
      BY <1>1, <1>6, <3>2 DEF MoreSpecific, Serves
    <3>3. QED
      BY <1>4, <2>1, <3>1, <3>2
  <2>2. QED
    BY <1>1, <1>3, <1>4, <1>6, <2>1
<1>7. CASE mine = NoMatch
  <2>1. \A r \in Routes : Takes(r, d, path, u) <=> Serves(r, d, path, AnyUser)
    BY <1>1, <1>4, <1>7
  <2>2. ASSUME NEW r \in Routes, Takes(r, d, path, u), r # anys, anys # NoMatch
        PROVE  MoreSpecific(anys, r)
    BY <1>2, <1>5, <2>1, <2>2 DEF MoreSpecific, Serves
  <2>3. QED
    BY <1>2, <1>3, <1>7, <2>1, <2>2
<1>8. QED
  BY <1>6, <1>7

-----------------------------------------------------------------------------
(* The domains that are tried                                              *)

Wilds(host) == IF Len(host) < 3 THEN 0 ELSE Len(host) - 2

Wild(host, i) == <<"*">> \o SubSeq(host, i + 1, Len(host))

LEMMA WildElements ==
    ASSUME NEW host \in Name, NEW i \in 1..Wilds(host)
    PROVE  /\ Wild(host, i) \in Name /\ Len(Wild(host, i)) = 1 + Len(host) - i
           /\ Wild(host, i)[1] = "*"
           /\ Tail(Wild(host, i)) = SubSeq(host, i + 1, Len(host))
<1> DEFINE rest == SubSeq(host, i + 1, Len(host))
<1>1. host \in Seq(Label) /\ i \in 1..Len(host) /\ Len(host) \in Nat
  BY DEF Name, Wilds
<1>2. rest \in Seq(Label) /\ Len(rest) = Len(host) - i
  BY <1>1
<1> HIDE DEF rest
<1>3. <<"*">> \in Seq(Label) /\ Len(<<"*">>) = 1
  BY RouterAssumption
<1>4. /\ <<"*">> \o rest \in Seq(Label) /\ Len(<<"*">> \o rest) = 1 + Len(rest)
      /\ (<<"*">> \o rest)[1] = "*" /\ Tail(<<"*">> \o rest) = rest
  BY <1>2, <1>3
<1>5. QED
  BY <1>1, <1>2, <1>4 DEF Wild, rest, Name

LEMMA TriedElements ==
    ASSUME NEW host \in Name
    PROVE  LET n == Wilds(host)
           IN  /\ n \in Nat
               /\ DOMAIN Tried(host) = 1 .. n + 2
               /\ Tried(host)[1] = host
               /\ \A i \in 1..n : Tried(host)[i + 1] = Wild(host, i)
               /\ Tried(host)[n + 2] = <<"*">>
<1> DEFINE n == Wilds(host)
           wild == [i \in 1..n |-> Wild(host, i)]
<1>1. host \in Seq(Label) /\ Len(host) \in Nat /\ n \in Nat
  BY DEF Name, Wilds
<1>2. /\ wild \in Seq(Name) /\ Len(wild) = n
      /\ \A i \in 1..n : wild[i] = Wild(host, i)
  <2>1. \A i \in 1..n : Wild(host, i) \in Name
    BY WildElements
  <2>2. QED
    BY <1>1, <2>1
<1>3. Tried(host) = <<host>> \o wild \o << <<"*">> >>
  <2>1. CASE Len(host) < 3
    <3>1. wild = <<>>
      BY <1>1, <2>1 DEF Wilds
    <3>2. QED
      BY <2>1, <3>1 DEF Tried
  <2>2. CASE ~(Len(host) < 3)
    BY <1>1, <2>2 DEF Tried, Wilds, Wild
  <2>3. QED
    BY <2>1, <2>2
<1> HIDE DEF wild, n
<1>4. <<host>> \in Seq(Name) /\ << <<"*">> >> \in Seq(Name)
  <2>1. <<"*">> \in Name
    BY RouterAssumption DEF Name
  <2>2. \A x \in Name : <<x>> \in Seq(Name)
    OBVIOUS
  <2>3. QED
    BY <2>1, <2>2
<1>5. /\ <<host>> \o wild \in Seq(Name) /\ Len(<<host>> \o wild) = n + 1
      /\ (<<host>> \o wild)[1] = host
      /\ \A i \in 1..n : (<<host>> \o wild)[i + 1] = wild[i]
  BY <1>1, <1>2, <1>4
<1> DEFINE front == <<host>> \o wild
<1> HIDE DEF front
<1>6. /\ front \in Seq(Name) /\ Len(front) = n + 1 /\ front[1] = host
      /\ \A i \in 1..n : front[i + 1] = wild[i]
  BY <1>5 DEF front
<1>7. /\ front \o << <<"*">> >> \in Seq(Name) /\ Len(front \o << <<"*">> >>) = n + 2
      /\ \A j \in 1 .. n + 1 : (front \o << <<"*">> >>)[j] = front[j]
      /\ (front \o << <<"*">> >>)[n + 2] = <<"*">>
  BY <1>1, <1>4, <1>6
<1>8. Tried(host) = front \o << <<"*">> >>
  BY <1>3 DEF front
<1>9. \A i \in 1..n : i + 1 \in 1 .. n + 1
  BY <1>1
<1>10. QED
  BY <1>1, <1>2, <1>6, <1>7, <1>8, <1>9 DEF n

(* The domains of the routes that fit are those that are tried. *)
FitsDomain(d, host) ==
    \/ d = host
    \/ d = <<"*">>
    \/ d[1] = "*" /\ Len(d) >= 3 /\ IsStrictSuffix(Tail(d), host)

LEMMA TriedFits ==
    ASSUME NEW host \in Name, NEW d \in Name
    PROVE  FitsDomain(d, host) <=> \E i \in DOMAIN Tried(host) : Tried(host)[i] = d
<1> DEFINE n == Wilds(host)
<1>1. /\ n \in Nat /\ DOMAIN Tried(host) = 1 .. n + 2
      /\ Tried(host)[1] = host
      /\ \A i \in 1..n : Tried(host)[i + 1] = Wild(host, i)
      /\ Tried(host)[n + 2] = <<"*">>
  BY TriedElements
<1>2. host \in Seq(Label) /\ Len(host) \in Nat /\ d \in Seq(Label) /\ Len(d) \in Nat /\ Len(d) > 0
  BY DEF Name
<1>3. ASSUME d[1] = "*", Len(d) >= 3, IsStrictSuffix(Tail(d), host)
      PROVE  \E i \in 1..n : Wild(host, i) = d
  <2>1. Tail(d) \in Seq(Label) /\ Len(Tail(d)) = Len(d) - 1 /\ d = <<d[1]>> \o Tail(d)
    BY <1>2
  <2>2. PICK i \in 1..Len(host) : Tail(d) = SubSeq(host, i + 1, Len(host))
    BY <1>2, <1>3, <2>1, SuffixIsRest
  <2>3. Len(Tail(d)) = Len(host) - i
    BY <1>2, <2>2
  <2>4. i \in 1..n
    BY <1>2, <1>3, <2>1, <2>3 DEF Wilds
  <2>5. Wild(host, i) = d
    BY <1>3, <2>1, <2>2 DEF Wild
  <2>6. QED
    BY <2>4, <2>5
<1>4. ASSUME NEW i \in 1..n
      PROVE  FitsDomain(Wild(host, i), host)
  <2> DEFINE w == Wild(host, i)
  <2>1. /\ w \in Name /\ Len(w) = 1 + Len(host) - i /\ w[1] = "*"
        /\ Tail(w) = SubSeq(host, i + 1, Len(host))
    BY WildElements
  <2>2. Len(w) >= 3 /\ i \in 1..Len(host)
    BY <1>2, <2>1 DEF Wilds
  <2>3. Tail(w) \in Seq(Label)
    <3> HIDE DEF w
    <3>1. w \in Seq(Label) /\ w # <<>>
      BY <2>1 DEF Name
    <3>2. QED
      BY <3>1
  <2>4. IsStrictSuffix(Tail(w), host)
    BY <1>2, <2>1, <2>2, <2>3, SuffixIsRest
  <2>5. QED
    BY <2>1, <2>2, <2>4 DEF FitsDomain
<1> HIDE DEF n
<1>5. ASSUME NEW i \in 1 .. n + 2, Tried(host)[i] = d
      PROVE  FitsDomain(d, host)
  <2>1. CASE i = 1
    BY <1>1, <1>5, <2>1 DEF FitsDomain
  <2>2. CASE i = n + 2
    BY <1>1, <1>5, <2>2 DEF FitsDomain
  <2>3. CASE i \in 2 .. n + 1
    <3>1. i - 1 \in 1..n /\ (i - 1) + 1 = i
      BY <1>1, <2>3
    <3>2. Tried(host)[i] = Wild(host, i - 1)
      BY <1>1, <3>1
    <3>3. QED
      BY <1>4, <1>5, <3>1, <3>2
  <2>4. QED
    BY <1>1, <2>1, <2>2, <2>3
<1>6. ASSUME FitsDomain(d, host)
      PROVE  \E i \in 1 .. n + 2 : Tried(host)[i] = d
  <2>1. CASE d = host
    BY <1>1, <2>1
  <2>2. CASE d = <<"*">>
    BY <1>1, <2>2
  <2>3. CASE d[1] = "*" /\ Len(d) >= 3 /\ IsStrictSuffix(Tail(d), host)
    <3>1. PICK i \in 1..n : Wild(host, i) = d
      BY <1>3, <2>3
    <3>2. i + 1 \in 1 .. n + 2 /\ Tried(host)[i + 1] = d
      BY <1>1, <3>1
    <3>3. QED
      BY <3>2
  <2>4. QED
    BY <1>6, <2>1, <2>2, <2>3 DEF FitsDomain
<1>7. QED
  BY <1>1, <1>5, <1>6

(* They are tried from the most specific to the least; a host that looks   *)
(* like a wildcard may be tried twice.                                     *)
LEMMA TriedRanks ==
    ASSUME NEW host \in Name, NEW i \in DOMAIN Tried(host), NEW j \in DOMAIN Tried(host), i < j
    PROVE  \/ DomainRank(Tried(host)[i]) > DomainRank(Tried(host)[j])
           \/ Tried(host)[i] = Tried(host)[j]
<1> DEFINE n == Wilds(host)
           T == Tried(host)
<1>1. /\ n \in Nat /\ DOMAIN T = 1 .. n + 2 /\ T[1] = host
      /\ \A k \in 1..n : T[k + 1] = Wild(host, k)
      /\ T[n + 2] = <<"*">>
  BY TriedElements
<1>2. /\ host \in Seq(Label) /\ Len(host) \in Nat /\ Len(host) > 0
      /\ n > 0 => n = Len(host) - 2
  BY DEF Name, Wilds
<1>3. \A k \in 1..n : DomainRank(Wild(host, k)) = 2 * (1 + Len(host) - k)
  <2> TAKE k \in 1..n
  <2>1. Len(Wild(host, k)) = 1 + Len(host) - k /\ Wild(host, k)[1] = "*"
    BY WildElements
  <2>2. QED
    BY <2>1 DEF DomainRank
<1> HIDE DEF n, T
<1>4. \A k \in 2 .. n + 1 : T[k] = Wild(host, k - 1) /\ DomainRank(T[k]) = 2 * (2 + Len(host) - k)
  <2> TAKE k \in 2 .. n + 1
  <2>1. k - 1 \in 1..n /\ (k - 1) + 1 = k
    BY <1>1
  <2>2. T[(k - 1) + 1] = Wild(host, k - 1)
    BY <1>1, <2>1
  <2>3. DomainRank(Wild(host, k - 1)) = 2 * (1 + Len(host) - (k - 1))
    BY <1>3, <2>1
  <2>4. 1 + Len(host) - (k - 1) = 2 + Len(host) - k
    BY <1>2
  <2>5. QED
    BY <2>1, <2>2, <2>3, <2>4
<1>5. DomainRank(T[n + 2]) = 2
  BY <1>1 DEF DomainRank
<1>6. DomainRank(T[1]) = 2 * Len(host) + (IF host[1] = "*" THEN 0 ELSE 1)
  BY <1>1 DEF DomainRank
<1>7. CASE i \in 2 .. n + 1
  <2>1. CASE j \in 2 .. n + 1
    BY <1>2, <1>4, <1>7, <2>1 DEF T
  <2>2. CASE j = n + 2
    <3>1. n = Len(host) - 2 /\ i <= Len(host) - 1
      BY <1>1, <1>2, <1>7
    <3>2. DomainRank(T[i]) = 2 * (2 + Len(host) - i) /\ DomainRank(T[j]) = 2
      BY <1>4, <1>5, <1>7, <2>2
    <3>3. DomainRank(T[i]) > DomainRank(T[j])
      BY <1>2, <1>7, <3>1, <3>2
    <3>4. QED
      BY <3>3 DEF T
  <2>3. QED
    BY <1>1, <1>7, <2>1, <2>2 DEF T
<1>8. CASE i = 1 /\ host[1] # "*"
  <2>1. DomainRank(T[1]) = 2 * Len(host) + 1
    BY <1>6, <1>8
  <2>2. CASE j \in 2 .. n + 1
    BY <1>2, <1>4, <1>8, <2>1, <2>2 DEF T
  <2>3. CASE j = n + 2
    BY <1>2, <1>5, <1>8, <2>1, <2>3 DEF T
  <2>4. QED
    BY <1>1, <1>8, <2>2, <2>3 DEF T
<1>9. CASE i = 1 /\ host[1] = "*"
  <2>1. DomainRank(T[1]) = 2 * Len(host)
    BY <1>6, <1>9
  <2>2. CASE j = 2 /\ n > 0
    <3>1. 1 \in 1..n /\ T[2] = Wild(host, 1)
      BY <1>1, <2>2
    <3>2. /\ host = <<host[1]>> \o Tail(host)
          /\ Tail(host) = SubSeq(host, 2, Len(host))
      BY <1>2
    <3>3. host = Wild(host, 1)
      BY <1>9, <3>2 DEF Wild
    <3>4. QED
      BY <1>1, <1>9, <2>2, <3>1, <3>3 DEF T
  <2>3. CASE j \in 3 .. n + 1
    BY <1>1, <1>2, <1>4, <1>9, <2>1, <2>3 DEF T
  <2>4. CASE j = n + 2 /\ Len(host) > 1
    BY <1>2, <1>5, <1>9, <2>1, <2>4 DEF T
  <2>5. CASE j = n + 2 /\ Len(host) = 1
    <3>1. host = <<"*">>
      BY <1>2, <1>9, <2>5
    <3>2. QED
      BY <1>1, <1>9, <2>5, <3>1 DEF T
  <2>6. QED
    BY <1>1, <1>2, <1>9, <2>2, <2>3, <2>4, <2>5 DEF T
<1>10. QED
  BY <1>1, <1>7, <1>8, <1>9 DEF T

-----------------------------------------------------------------------------
(* The route a request finds is the most specific one that fits, in every  *)
(* state that adding and deleting routes can reach.                        *)
LEMMA GetVhostBest == RouterInv => MostSpecific
<1> SUFFICES ASSUME RouterInv, NEW host \in Host, NEW path \in Path, NEW u \in HttpUser,
                    \A r \in Routes : Fits(r, host, path, u) => ~Short(r)
             PROVE  LET fit == {r \in Routes : Fits(r, host, path, u)}
                        got == GetVhost(host, path, u)
                    IN  IF fit = {} THEN got = NoMatch
                        ELSE got \in fit /\ \A r \in fit \ {got} : MoreSpecific(got, r)
  BY DEF MostSpecific, BestFound
<1> DEFINE T == Tried(host)
           fit == {r \in Routes : Fits(r, host, path, u)}
           hits == {i \in DOMAIN T : FindRouter(T[i], path, u) # NoMatch}
           first == CHOOSE i \in hits : \A j \in hits : i <= j
           got == GetVhost(host, path, u)
<1>1. host \in Name
  BY RouterAssumption DEF Name
<1>2. \A r \in Routes : r.domain \in Name
  BY RouterAssumption DEF Routes, Name
<1>3. DOMAIN T \in SUBSET Nat
  BY <1>1, TriedElements
<1>4. \A i \in DOMAIN T : T[i] \in Name
  <2>1. <<"*">> \in Name
    BY RouterAssumption DEF Name
  <2>2. /\ Wilds(host) \in Nat /\ DOMAIN T = 1 .. Wilds(host) + 2 /\ T[1] = host
        /\ \A k \in 1..Wilds(host) : T[k + 1] = Wild(host, k) /\ Wild(host, k) \in Name
        /\ T[Wilds(host) + 2] = <<"*">>
    BY <1>1, TriedElements, WildElements
  <2> HIDE DEF T
  <2>3. ASSUME NEW i \in 2 .. Wilds(host) + 1
        PROVE  T[i] \in Name
    <3>1. i - 1 \in 1..Wilds(host) /\ (i - 1) + 1 = i
      BY <2>2
    <3>2. QED
      BY <2>2, <3>1
  <2>4. QED
    BY <1>1, <2>1, <2>2, <2>3
<1>5. \A r \in Routes : r \in fit <=> \E i \in DOMAIN T : Takes(r, T[i], path, u)
  <2> TAKE r \in Routes
  <2>0. Len(r.domain) \in Nat /\ (Fits(r, host, path, u) => ~Short(r))
    BY <1>2 DEF Name
  <2>1. Fits(r, host, path, u) <=>
          FitsDomain(r.domain, host) /\ r.user \in {u, AnyUser} /\ IsPrefix(r.location, path)
    <3>1. (r.domain[1] = "*" /\ Len(r.domain) >= 2 /\ ~Short(r)) => Len(r.domain) >= 3
      <4>1. r.domain[1] = "*" /\ ~Short(r) => Len(r.domain) # 2
        BY Zenon DEF Short
      <4>2. Len(r.domain) >= 2 /\ Len(r.domain) # 2 => Len(r.domain) >= 3
        <5>1. \A n \in Nat : n >= 2 /\ n # 2 => n >= 3
          OBVIOUS
        <5>2. QED
          BY ONLY <2>0, <5>1, Zenon
      <4>3. QED
        BY ONLY <4>1, <4>2
    <3>2. Len(r.domain) >= 3 => Len(r.domain) >= 2
      BY <2>0
    <3>3. FitsDomain(r.domain, host) <=>
            \/ r.domain = host
            \/ r.domain = <<"*">>
            \/ r.domain[1] = "*" /\ Len(r.domain) >= 3 /\ IsStrictSuffix(Tail(r.domain), host)
      BY DEF FitsDomain
    <3>4. Fits(r, host, path, u) <=>
            /\ \/ r.domain = host
               \/ r.domain = <<"*">>
               \/ r.domain[1] = "*" /\ Len(r.domain) >= 2 /\ IsStrictSuffix(Tail(r.domain), host)
            /\ r.user \in {u, AnyUser}
            /\ IsPrefix(r.location, path)
      BY DEF Fits
    <3>5. QED
      BY ONLY <2>0, <3>1, <3>2, <3>3, <3>4
  <2>2. FitsDomain(r.domain, host) <=> \E i \in DOMAIN T : T[i] = r.domain
    BY <1>1, <1>2, TriedFits
  <2>3. QED
    BY <2>1, <2>2 DEF Takes
<1>6. \A i \in DOMAIN T :
        \/ FindRouter(T[i], path, u) = NoMatch /\ \A r \in Routes : ~Takes(r, T[i], path, u)
        \/ /\ FindRouter(T[i], path, u) # NoMatch /\ FindRouter(T[i], path, u) \in Routes
           /\ Takes(FindRouter(T[i], path, u), T[i], path, u)
           /\ \A r \in Routes : Takes(r, T[i], path, u) /\ r # FindRouter(T[i], path, u) =>
                 MoreSpecific(FindRouter(T[i], path, u), r)
  BY <1>4, FindRouterBest
<1>7. \A i, j \in DOMAIN T : i < j =>
         DomainRank(T[i]) > DomainRank(T[j]) \/ T[i] = T[j]
  BY <1>1, TriedRanks
<1> HIDE DEF T
<1>8. CASE hits = {}
  <2>1. got = NoMatch
    BY <1>8 DEF GetVhost, T
  <2>2. fit = {}
    BY <1>5, <1>6, <1>8
  <2>3. QED
    BY <2>1, <2>2
<1>9. CASE hits # {}
  <2>1. \E i \in hits : \A j \in hits : i <= j
    <3>1. hits \in SUBSET Nat
      BY <1>3
    <3>2. QED
      BY <1>9, <3>1, Least
  <2>2. first \in hits /\ \A j \in hits : first <= j
    BY <2>1
  <2>3. got = FindRouter(T[first], path, u)
    BY <1>9 DEF GetVhost, T
  <2> HIDE DEF first, got, fit
  <2>4. first \in DOMAIN T /\ got # NoMatch /\ got \in Routes /\ Takes(got, T[first], path, u)
    BY <1>6, <2>2, <2>3
  <2>5. got \in fit
    BY <1>5, <2>4
  <2>6. ASSUME NEW r \in fit, r # got
        PROVE  MoreSpecific(got, r)
    <3>1. r \in Routes
      BY DEF fit
    <3>2. PICK j \in DOMAIN T : Takes(r, T[j], path, u)
      BY <1>5, <3>1
    <3>3. j \in hits
      BY <1>6, <3>1, <3>2
    <3>4. first <= j /\ first \in Nat /\ j \in Nat
      BY <1>3, <2>2, <2>4, <3>3
    <3>5. CASE T[first] = T[j]
      BY <1>6, <2>3, <2>4, <2>6, <3>1, <3>2, <3>5
    <3>6. CASE T[first] # T[j]
      <4>1. DomainRank(T[first]) > DomainRank(T[j])
        BY <1>7, <2>4, <3>4, <3>6
      <4>2. got.domain = T[first] /\ r.domain = T[j]
        BY <2>4, <3>2 DEF Takes
      <4>3. QED
        BY <4>1, <4>2 DEF MoreSpecific
    <3>7. QED
      BY <3>5, <3>6
  <2>7. QED
    BY <2>5, <2>6 DEF got, fit
<1>10. QED
  BY <1>8, <1>9

(* GetVhost leads every request that no short wildcard fits to the most    *)
(* specific of the routes it can take, or to none when it can take none,   *)
(* whatever routes were added and removed before.                          *)
THEOREM MostSpecificFound == RouterSpec => []MostSpecific
  BY RouterInvariant, GetVhostBest, PTL
=============================================================================
