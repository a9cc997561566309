------------------------ MODULE ProxyRegistryProofs ------------------------
(* Theorems about ProxyRegistry, for any sets of controls, names and ports. *)
EXTENDS ProxyRegistry, TLAPS, FiniteSetTheorems, WellFoundedInduction

-----------------------------------------------------------------------------
(* The building blocks of the handlers keep the types.                     *)

LEMMA IdleType == Idle \in Handler
  BY DEF Idle, Handler, Op

LEMMA ReturnType ==
  ASSUME TypeOK, NEW c \in Control, Return(c)
  PROVE  step' \in [Control -> Handler]
  BY IdleType DEF TypeOK, Return

LEMMA GotoType ==
  ASSUME TypeOK, NEW c \in Control, NEW o \in Op, Goto(c, o)
  PROVE  step' \in [Control -> Handler]
<1>1. step[c] \in Handler
  BY DEF TypeOK
<1>2. [step[c] EXCEPT !.op = o] \in Handler
  BY <1>1 DEF Handler
<1>3. QED
  BY <1>2 DEF TypeOK, Goto

LEMMA EnterType ==
  ASSUME TypeOK, NEW c \in Control, NEW o \in Op, NEW n \in Name, NEW p \in Port \cup {NoPort, Counted},
         step' = [step EXCEPT ![c] = [op |-> o, name |-> n, port |-> p]]
  PROVE  step' \in [Control -> Handler]
<1>1. [op |-> o, name |-> n, port |-> p] \in Handler
  BY DEF Handler
<1>2. QED
  BY <1>1 DEF TypeOK

LEMMA ChargeType ==
  ASSUME TypeOK, NEW c \in Control, NEW p,
         Charge(c, UsedPorts(p)) \/ Charge(c, -UsedPorts(p))
  PROVE  used' \in [Control -> Int]
<1>1. UsedPorts(p) \in Int
  BY DEF UsedPorts
<1>2. CASE MaxPorts > 0
  BY <1>1, <1>2 DEF TypeOK, Charge
<1>3. CASE ~(MaxPorts > 0)
  BY <1>3 DEF TypeOK, Charge
<1>4. QED
  BY <1>2, <1>3

LEMMA ReleaseType ==
  ASSUME TypeOK, NEW c, NEW p, CloseListeners(c, p)
  PROVE  listens' \in [Port -> Control \cup {None}]
  BY DEF TypeOK, CloseListeners

LEMMA DelType ==
  ASSUME TypeOK, NEW n, Del(n)
  PROVE  pxys' \in [Name -> Control \cup {None}]
  BY DEF TypeOK, Del

(* Every variable keeps its type. *)
THEOREM Typing == Spec => []TypeOK
<1>1. Init => TypeOK
  <2> SUFFICES ASSUME Init PROVE TypeOK
    OBVIOUS
  <2>1. /\ st \in [Control -> Status]
        /\ step \in [Control -> Handler]
        /\ proxies \in [Control -> [Name -> Port \cup {NoPort, Counted, Absent}]]
    BY IdleType DEF Init, Status
  <2>2. /\ runID \in [Control -> RunID \cup {None}]
        /\ conn \in [Control -> BOOLEAN] /\ prev \in [Control -> Control \cup {None}]
        /\ ctls \in [RunID -> Control \cup {None}]
    BY DEF Init
  <2>3. used \in [Control -> Int]
    BY DEF Init
  <2>4. todo \in [Control -> SUBSET Name]
    BY DEF Init
  <2>5. /\ pxys \in [Name -> Control \cup {None}]
        /\ listens \in [Port -> Control \cup {None}] /\ shut \in BOOLEAN
    BY DEF Init
  <2>6. QED
    BY <2>1, <2>2, <2>3, <2>4, <2>5 DEF TypeOK
<1>2. TypeOK /\ [Next]_vars => TypeOK'
  <2> SUFFICES ASSUME TypeOK, [Next]_vars PROVE TypeOK'
    OBVIOUS
  <2>1. CASE ShutDown
    BY <2>1 DEF ShutDown, TypeOK
  <2>2. ASSUME NEW c \in Control, NEW r \in RunID, Login(c, r) PROVE TypeOK'
    BY <2>2 DEF Login, TypeOK, Status
  <2>3. ASSUME NEW c \in Control, ConnLost(c) PROVE TypeOK'
    BY <2>3 DEF ConnLost, TypeOK
  <2>4. ASSUME NEW c \in Control, NEW n \in Name, NEW p \in Asked,
               NewProxy(c, n, p) PROVE TypeOK'
    <3>1. /\ Charge(c, UsedPorts(p))
          /\ step' = [step EXCEPT ![c] = [op |-> "exist", name |-> n, port |-> p]]
          /\ UNCHANGED <<proxies, pxys, listens, sessionVars>>
      BY <2>4 DEF NewProxy
    <3>2. QED
      BY <3>1, EnterType, ChargeType, AskedAssumption DEF TypeOK, sessionVars, Op
  <2>5. ASSUME NEW c \in Control, NEW n \in Name, CloseProxy(c, n) PROVE TypeOK'
    <3>1. /\ Charge(c, -UsedPorts(proxies[c][n]))
          /\ step' = [step EXCEPT ![c] = [op |-> "del", name |-> n, port |-> NoPort]]
          /\ CloseListeners(c, proxies[c][n])
          /\ UNCHANGED <<proxies, pxys, sessionVars>>
      BY <2>5 DEF CloseProxy
    <3>2. step' \in [Control -> Handler]
      BY <3>1, EnterType DEF Op
    <3>3. QED
      BY <3>1, <3>2, ChargeType, ReleaseType DEF TypeOK, sessionVars
  <2>6. ASSUME NEW c \in Control, Start(c) PROVE TypeOK'
    BY <2>6 DEF Start, TypeOK, Status
  <2>7. ASSUME NEW c \in Control, Exist(c) PROVE TypeOK'
    <3>1. step' \in [Control -> Handler]
      BY <2>7, ReturnType, GotoType DEF Exist, Op
    <3>2. used' \in [Control -> Int]
      BY <2>7, ChargeType DEF Exist, TypeOK
    <3>3. QED
      BY <2>7, <3>1, <3>2 DEF Exist, TypeOK, sessionVars
  <2>8. ASSUME NEW c \in Control, RunOK(c) PROVE TypeOK'
    <3>1. step' \in [Control -> Handler]
      BY <2>8, GotoType DEF RunOK, Op
    <3>2. QED
      BY <2>8, <3>1 DEF RunOK, TypeOK, sessionVars
  <2>9. ASSUME NEW c \in Control, RunFails(c) PROVE TypeOK'
    BY <2>9, ReturnType, ChargeType DEF RunFails, TypeOK, sessionVars
  <2>10. ASSUME NEW c \in Control, Add(c) PROVE TypeOK'
    <3>1. step' \in [Control -> Handler]
      BY <2>10, GotoType DEF Add, Op
    <3>2. pxys' \in [Name -> Control \cup {None}]
      BY <2>10 DEF Add, TypeOK
    <3>3. QED
      BY <2>10, <3>1, <3>2 DEF Add, TypeOK, sessionVars
  <2>11. ASSUME NEW c \in Control, Put(c) PROVE TypeOK'
    <3>1. proxies' \in [Control -> [Name -> Port \cup {NoPort, Counted, Absent}]]
      BY <2>11 DEF Put, TypeOK, Handler
    <3>2. QED
      BY <2>11, <3>1, ReturnType DEF Put, TypeOK, sessionVars
  <2>12. ASSUME NEW c \in Control, Rollback(c) PROVE TypeOK'
    BY <2>12, ReturnType, ChargeType, ReleaseType DEF Rollback, TypeOK, sessionVars
  <2>13. ASSUME NEW c \in Control, CloseDel(c) PROVE TypeOK'
    <3>1. proxies' \in [Control -> [Name -> Port \cup {NoPort, Counted, Absent}]]
      BY <2>13 DEF CloseDel, TypeOK, Handler
    <3>2. QED
      BY <2>13, <3>1, ReturnType, DelType DEF CloseDel, TypeOK, sessionVars
  <2>14. ASSUME NEW c \in Control, ReadEOF(c) PROVE TypeOK'
    BY <2>14 DEF ReadEOF, TypeOK, Status
  <2>15. ASSUME NEW c \in Control, NEW n \in Name, TearClose(c, n) PROVE TypeOK'
    <3>1. step' \in [Control -> Handler]
      BY <2>15, EnterType DEF TearClose, Op
    <3>2. QED
      BY <2>15, <3>1, ReleaseType DEF TearClose, TypeOK, sessionVars
  <2>16. ASSUME NEW c \in Control, TearDel(c) PROVE TypeOK'
    BY <2>16, ReturnType, DelType DEF TearDel, TypeOK
  <2>17. ASSUME NEW c \in Control, WorkerExit(c) PROVE TypeOK'
    <3>1. [n \in Name |-> Absent] \in [Name -> Port \cup {NoPort, Counted, Absent}]
      OBVIOUS
    <3>2. /\ proxies' \in [Control -> [Name -> Port \cup {NoPort, Counted, Absent}]]
          /\ used' \in [Control -> Int]
      BY <2>17, <3>1 DEF WorkerExit, Discard, TypeOK
    <3>3. QED
      BY <2>17, <3>2 DEF WorkerExit, TypeOK, Status
  <2>18. ASSUME NEW c \in Control, Reap(c) PROVE TypeOK'
    BY <2>18 DEF Reap, TypeOK, Status
  <2>19. CASE UNCHANGED vars
    BY <2>19 DEF vars, TypeOK
  <2>20. QED
    BY <2>1, <2>2, <2>3, <2>4, <2>5, <2>6, <2>7, <2>8, <2>9, <2>10, <2>11, <2>12,
       <2>13, <2>14, <2>15, <2>16, <2>17, <2>18, <2>19
       DEF Next, Environment, Server
<1>3. QED
  BY <1>1, <1>2, PTL DEF Spec

-----------------------------------------------------------------------------
(* Names: the registry and the controls' own maps agree.                   *)

(* What the position of a control's handler says about its state. *)
ShapeOf(c) ==
    /\ step[c].op # "idle" => step[c].name \in Name
    /\ step[c].op \in Registering \cup {"del"} => st[c] = "running"
    /\ step[c].op = "teardel" => st[c] = "stopping" /\ step[c].name \in todo[c]
    /\ step[c].op = "del" => proxies[c][step[c].name] # Absent
    /\ step[c].op = "put" => proxies[c][step[c].name] = Absent
    /\ st[c] \in {"unused", "waiting"} => \A n \in Name : proxies[c][n] = Absent

Shape == \A c \in Control : ShapeOf(c)

RegistryInv == Shape /\ RegistryExact

LEMMA RegistryStep == TypeOK /\ RegistryInv /\ [Next]_vars => RegistryInv'
<1> SUFFICES ASSUME TypeOK, RegistryInv, [Next]_vars,
                    NEW d \in Control
             PROVE  ShapeOf(d)' /\ (\A n \in Name : pxys[n] = d <=> Owns(d, n))'
  BY DEF RegistryInv, Shape, RegistryExact
<1> USE SentinelAssumption DEF TypeOK, Handler, RegistryInv, Shape, ShapeOf, RegistryExact, Owns, At, Registering
<1>1. CASE ShutDown
  BY <1>1 DEF ShutDown
<1>2. ASSUME NEW c \in Control, NEW r \in RunID,
              Login(c, r)
      PROVE  ShapeOf(d)' /\ (\A n \in Name : pxys[n] = d <=> Owns(d, n))'
  BY <1>2 DEF Login
<1>3. ASSUME NEW c \in Control, Start(c)
      PROVE  ShapeOf(d)' /\ (\A n \in Name : pxys[n] = d <=> Owns(d, n))'
  BY <1>3 DEF Start
<1>4. ASSUME NEW c \in Control, ConnLost(c)
      PROVE  ShapeOf(d)' /\ (\A n \in Name : pxys[n] = d <=> Owns(d, n))'
  BY <1>4 DEF ConnLost
<1>5. ASSUME NEW c \in Control, NEW m \in Name, NEW p \in Asked,
              NewProxy(c, m, p)
      PROVE  ShapeOf(d)' /\ (\A n \in Name : pxys[n] = d <=> Owns(d, n))'
  <2>1. CASE d = c
    BY <1>5, <2>1 DEF NewProxy, Receives, Charge, Idle, sessionVars
  <2>2. CASE d # c
    BY <1>5, <2>2 DEF NewProxy, Receives, Charge, Idle, sessionVars
  <2>3. QED
    BY <2>1, <2>2
<1>6. ASSUME NEW c \in Control, Exist(c)
      PROVE  ShapeOf(d)' /\ (\A n \in Name : pxys[n] = d <=> Owns(d, n))'
  <2>1. CASE d = c
    BY <1>6, <2>1 DEF Exist, Return, Goto, Charge, Idle, sessionVars
  <2>2. CASE d # c
    BY <1>6, <2>2 DEF Exist, Return, Goto, Charge, Idle, sessionVars
  <2>3. QED
    BY <2>1, <2>2
<1>7. ASSUME NEW c \in Control, RunOK(c)
      PROVE  ShapeOf(d)' /\ (\A n \in Name : pxys[n] = d <=> Owns(d, n))'
  BY <1>7 DEF RunOK, Goto, sessionVars
<1>8. ASSUME NEW c \in Control, RunFails(c)
      PROVE  ShapeOf(d)' /\ (\A n \in Name : pxys[n] = d <=> Owns(d, n))'
  BY <1>8 DEF RunFails, Return, Charge, Idle, sessionVars
<1>9. ASSUME NEW c \in Control, Add(c)
      PROVE  ShapeOf(d)' /\ (\A n \in Name : pxys[n] = d <=> Owns(d, n))'
  <2>1. CASE d = c
    <3>1. CASE pxys[step[c].name] # None
      <4>1. /\ step[c].op = "add" /\ step[c].name \in Name /\ st[c] = "running"
            /\ step' = [step EXCEPT ![c].op = "rollback"]
            /\ UNCHANGED <<st, todo, proxies, pxys>>
        BY <1>9, <3>1 DEF Add, Goto, sessionVars
      <4>2. step'[c].op = "rollback" /\ step'[c].name = step[c].name
        BY <4>1
      <4>3. QED
        BY <2>1, <4>1, <4>2
    <3>2. CASE pxys[step[c].name] = None
      <4>1. /\ step[c].op = "add" /\ step[c].name \in Name /\ st[c] = "running"
            /\ step' = [step EXCEPT ![c].op = "put"]
            /\ pxys' = [pxys EXCEPT ![step[c].name] = c]
            /\ UNCHANGED <<st, todo, proxies>>
        BY <1>9, <3>2 DEF Add, Goto, sessionVars
      <4>2. step'[c].op = "put" /\ step'[c].name = step[c].name
        BY <4>1
      <4>3. proxies[c][step[c].name] = Absent
        BY <3>2, <4>1
      <4>4. ShapeOf(d)'
        BY <2>1, <4>1, <4>2, <4>3
      <4>5. \A n \in Name : (pxys[n] = d <=> Owns(d, n))'
        BY <2>1, <4>1, <4>2, <4>3
      <4>6. QED
        BY <4>4, <4>5
    <3>3. QED
      BY <3>1, <3>2
  <2>2. CASE d # c
    BY <1>9, <2>2 DEF Add, Goto, sessionVars
  <2>3. QED
    BY <2>1, <2>2
<1>10. ASSUME NEW c \in Control, Rollback(c)
      PROVE  ShapeOf(d)' /\ (\A n \in Name : pxys[n] = d <=> Owns(d, n))'
  BY <1>10 DEF Rollback, CloseListeners, Return, Charge, Idle, sessionVars
<1>11. ASSUME NEW c \in Control, Put(c)
      PROVE  ShapeOf(d)' /\ (\A n \in Name : pxys[n] = d <=> Owns(d, n))'
  BY <1>11 DEF Put, Return, Idle, sessionVars
<1>12. ASSUME NEW c \in Control, NEW m \in Name,
              CloseProxy(c, m)
      PROVE  ShapeOf(d)' /\ (\A n \in Name : pxys[n] = d <=> Owns(d, n))'
  <2>1. CASE d = c
    <3>1. /\ st[c] = "running" /\ step[c] = Idle /\ proxies[c][m] # Absent
          /\ step' = [step EXCEPT ![c] = [op |-> "del", name |-> m, port |-> NoPort]]
          /\ UNCHANGED <<st, proxies, pxys, todo>>
      BY <1>12 DEF CloseProxy, Receives, sessionVars
    <3>2. /\ step[d].op = "idle" /\ step'[d].op = "del" /\ step'[d].name = m
          /\ st'[d] = "running" /\ proxies'[d] = proxies[d] /\ proxies'[d][m] # Absent
      BY <2>1, <3>1 DEF Idle
    <3>3. ShapeOf(d)'
      BY <3>2
    <3>4. \A n \in Name : Owns(d, n)' <=> Owns(d, n)
      BY <2>1, <3>1, <3>2
    <3>5. QED
      BY <3>1, <3>3, <3>4
  <2>2. CASE d # c
    BY <1>12, <2>2 DEF CloseProxy, Receives, Idle, sessionVars
  <2>3. QED
    BY <2>1, <2>2
<1>13. ASSUME NEW c \in Control, CloseDel(c)
      PROVE  ShapeOf(d)' /\ (\A n \in Name : pxys[n] = d <=> Owns(d, n))'
  BY <1>13 DEF CloseDel, Del, Return, Idle, sessionVars
<1>14. ASSUME NEW c \in Control, ReadEOF(c)
      PROVE  ShapeOf(d)' /\ (\A n \in Name : pxys[n] = d <=> Owns(d, n))'
  <2>1. CASE d = c
    <3>1. /\ st[c] = "running" /\ step[c] = Idle /\ UNCHANGED <<step, proxies, pxys>>
          /\ st'[c] = "stopping" /\ todo'[c] = {n \in Name : proxies[c][n] # Absent}
      BY <1>14 DEF ReadEOF
    <3>2. QED
      BY <2>1, <3>1 DEF Idle
  <2>2. CASE d # c
    BY <1>14, <2>2 DEF ReadEOF, Idle
  <2>3. QED
    BY <2>1, <2>2
<1>15. ASSUME NEW c \in Control, NEW m \in Name,
              TearClose(c, m)
      PROVE  ShapeOf(d)' /\ (\A n \in Name : pxys[n] = d <=> Owns(d, n))'
  BY <1>15 DEF TearClose, sessionVars
<1>16. ASSUME NEW c \in Control, TearDel(c)
      PROVE  ShapeOf(d)' /\ (\A n \in Name : pxys[n] = d <=> Owns(d, n))'
  BY <1>16 DEF TearDel, Del, Return, Idle, sessionVars
<1>17. ASSUME NEW c \in Control, WorkerExit(c)
      PROVE  ShapeOf(d)' /\ (\A n \in Name : pxys[n] = d <=> Owns(d, n))'
  <2>1. CASE d = c
    <3>1. /\ st[c] = "stopping" /\ step[c] = Idle /\ todo[c] = {}
          /\ st'[c] = "closed" /\ UNCHANGED <<step, todo, pxys>>
      BY <1>17 DEF WorkerExit
    <3>2. step[d].op = "idle" /\ step'[d].op = "idle" /\ st'[d] = "closed"
      BY <2>1, <3>1 DEF Idle
    <3>3. ShapeOf(d)'
      BY <3>2
    <3>4. \A n \in Name : ~Owns(d, n) /\ ~Owns(d, n)'
      BY <2>1, <3>1, <3>2
    <3>5. QED
      BY <3>1, <3>3, <3>4
  <2>2. CASE d # c
    <3>1. st'[d] = st[d] /\ proxies'[d] = proxies[d] /\ UNCHANGED <<step, todo, pxys>>
      BY <1>17, <2>2 DEF WorkerExit, Discard
    <3>2. QED
      BY <3>1
  <2>3. QED
    BY <2>1, <2>2
<1>18. ASSUME NEW c \in Control, Reap(c)
      PROVE  ShapeOf(d)' /\ (\A n \in Name : pxys[n] = d <=> Owns(d, n))'
  BY <1>18 DEF Reap
<1>19. CASE UNCHANGED vars
  BY <1>19 DEF vars
<1>20. QED
  BY <1>1, <1>2, <1>3, <1>4, <1>5, <1>6, <1>7, <1>8, <1>9, <1>10, <1>11, <1>12, <1>13, <1>14, <1>15, <1>16, <1>17, <1>18, <1>19 DEF Next, Environment, Server

LEMMA RegistryInit == Init => RegistryInv
<1> SUFFICES ASSUME Init PROVE RegistryInv
  OBVIOUS
<1>1. Shape
  BY SentinelAssumption DEF Init, Shape, ShapeOf, Idle, Registering
<1>2. RegistryExact
  BY SentinelAssumption DEF Init, RegistryExact, Owns, At, Idle
<1>3. QED
  BY <1>1, <1>2 DEF RegistryInv

LEMMA RegistryInvariant == Spec => []RegistryInv
  BY RegistryInit, RegistryStep, Typing, PTL DEF Spec

(* A name is registered for a control exactly as long as that control has  *)
(* it in its own map: no handler of another control, no close and no       *)
(* teardown takes a name from its owner or leaves one behind.              *)
THEOREM NamesExact == Spec => []RegistryExact
<1>1. RegistryInv => RegistryExact
  BY DEF RegistryInv
<1>2. QED
  BY <1>1, RegistryInvariant, PTL

-----------------------------------------------------------------------------
(* Sessions: one control per client is served at a time.                   *)
(*                                                                         *)
(* prev alone does not give an induction: a control replaced before it     *)
(* started must be known to come after those it is itself waiting for.     *)
(* Chain(R) says that R is the order of the logins; that every earlier     *)
(* login of the client that is not over is at or before the one a waiting  *)
(* control waits for; and that the run ID leads to the last of them.       *)

Unfinished(c) == st[c] \in {"waiting", "running", "stopping"}

Peers(c, d) == Unfinished(c) /\ Unfinished(d) /\ runID[c] = runID[d]

AtOrBefore(R, c, d) == c = d \/ <<c, d>> \in R

LoginOrder(R) ==
    /\ \A c, d \in Control : <<c, d>> \in R => st[c] # "unused" /\ st[d] # "unused"
    /\ \A c \in Control : <<c, c>> \notin R
    /\ \A c, d, e \in Control : <<c, d>> \in R /\ <<d, e>> \in R => <<c, e>> \in R
    /\ \A c, d \in Control : Peers(c, d) /\ c # d => <<c, d>> \in R \/ <<d, c>> \in R

WaitsForEarlier(R) ==
    \A c, d \in Control : Peers(c, d) /\ <<d, c>> \in R =>
        /\ st[c] = "waiting"
        /\ prev[c] \in Control /\ Peers(c, prev[c])
        /\ AtOrBefore(R, d, prev[c])

LastIsListed(R) ==
    \A d \in Control : Unfinished(d) =>
        /\ runID[d] \in RunID /\ ctls[runID[d]] \in Control
        /\ Peers(d, ctls[runID[d]])
        /\ AtOrBefore(R, d, ctls[runID[d]])

Chain(R) == LoginOrder(R) /\ WaitsForEarlier(R) /\ LastIsListed(R)

SessionInv == shut \/ \E R \in SUBSET (Control \X Control) : Chain(R)

LEMMA ChainKept ==
  ASSUME NEW R \in SUBSET (Control \X Control), Chain(R),
         UNCHANGED <<st, runID, prev, ctls>>
  PROVE  Chain(R)'
  BY DEF Chain, LoginOrder, WaitsForEarlier, LastIsListed, Peers, Unfinished, AtOrBefore

LEMMA ChainLogin ==
  ASSUME TypeOK, NEW R \in SUBSET (Control \X Control), Chain(R),
         NEW c \in Control, NEW r \in RunID, Login(c, r)
  PROVE  \E Q \in SUBSET (Control \X Control) : Chain(Q)'
<1>1. \E Q \in SUBSET (Control \X Control) : \A d, e \in Control :
          <<d, e>> \in Q <=> <<d, e>> \in R \/ (e = c /\ st[d] # "unused")
  <2> DEFINE S == R \cup {q \in Control \X Control : q[2] = c /\ st[q[1]] # "unused"}
  <2>1. S \in SUBSET (Control \X Control)
    OBVIOUS
  <2>2. \A d, e \in Control : <<d, e>> \in S <=> <<d, e>> \in R \/ (e = c /\ st[d] # "unused")
    OBVIOUS
  <2>3. QED
    BY <2>1, <2>2
<1>2. PICK Q \in SUBSET (Control \X Control) : \A d, e \in Control :
          <<d, e>> \in Q <=> <<d, e>> \in R \/ (e = c /\ st[d] # "unused")
  BY <1>1
<1>3. /\ st[c] = "unused"
      /\ st' = [st EXCEPT ![c] = "waiting"]
      /\ runID' = [runID EXCEPT ![c] = r]
      /\ prev' = [prev EXCEPT ![c] = ctls[r]]
      /\ ctls' = [ctls EXCEPT ![r] = c]
  BY DEF Login
<1>4. \A d \in Control : d # c => /\ Unfinished(d)' = Unfinished(d)
                                /\ runID'[d] = runID[d] /\ prev'[d] = prev[d]
                                /\ st'[d] = st[d]
  BY <1>3 DEF TypeOK, Unfinished
<1>5. ~Unfinished(c) /\ Unfinished(c)' /\ runID'[c] = r /\ prev'[c] = ctls[r] /\ st'[c] = "waiting"
  BY <1>3 DEF TypeOK, Unfinished
<1>6. LoginOrder(Q)'
  BY <1>2, <1>3, <1>4, <1>5 DEF Chain, LoginOrder, Peers, Unfinished
<1>7. WaitsForEarlier(Q)'
  <2> SUFFICES ASSUME NEW a \in Control, NEW b \in Control, Peers(a, b)', <<b, a>> \in Q
               PROVE  /\ st'[a] = "waiting"
                      /\ prev'[a] \in Control /\ Peers(a, prev[a])'
                      /\ AtOrBefore(Q, b, prev'[a])
    BY DEF WaitsForEarlier, AtOrBefore
  <2>1. CASE a = c
    <3>1. b # c /\ Unfinished(b) /\ runID[b] = r
      BY <2>1, <1>2, <1>3, <1>4, <1>5 DEF Peers, Chain, LoginOrder, Unfinished
    <3>2. ctls[r] \in Control /\ Peers(b, ctls[r]) /\ AtOrBefore(R, b, ctls[r])
      BY <3>1 DEF Chain, LastIsListed
    <3>3. QED
      BY <2>1, <3>1, <3>2, <1>2, <1>4, <1>5 DEF Peers, AtOrBefore
  <2>2. CASE a # c
    <3>1. <<b, a>> \in R /\ b # c
      BY <2>2, <1>2, <1>3 DEF Chain, LoginOrder
    <3>2. Peers(a, b)
      BY <2>2, <3>1, <1>4 DEF Peers
    <3>3. /\ st[a] = "waiting" /\ prev[a] \in Control /\ Peers(a, prev[a])
          /\ AtOrBefore(R, b, prev[a])
      BY <3>1, <3>2 DEF Chain, WaitsForEarlier
    <3>4. prev[a] # c
      BY <3>3, <1>5 DEF Peers
    <3>5. QED
      BY <2>2, <3>3, <3>4, <1>2, <1>4 DEF Peers, AtOrBefore
  <2>3. QED
    BY <2>1, <2>2
<1>8. LastIsListed(Q)'
  <2> SUFFICES ASSUME NEW d \in Control, Unfinished(d)'
               PROVE  /\ runID'[d] \in RunID /\ ctls'[runID'[d]] \in Control
                      /\ Peers(d, ctls[runID[d]])'
                      /\ AtOrBefore(Q, d, ctls'[runID'[d]])
    BY DEF LastIsListed, AtOrBefore
  <2>1. CASE d = c
    BY <2>1, <1>3, <1>5 DEF TypeOK, Peers, AtOrBefore
  <2>2. CASE d # c /\ runID[d] = r
    <3>1. st[d] # "unused" /\ ctls'[runID'[d]] = c /\ runID'[d] = r
      BY <2>2, <1>3, <1>4 DEF Unfinished, TypeOK
    <3>2. QED
      BY <2>2, <3>1, <1>2, <1>4, <1>5 DEF Peers, AtOrBefore
  <2>3. CASE d # c /\ runID[d] # r
    <3>1. /\ runID[d] \in RunID /\ ctls[runID[d]] \in Control
          /\ Peers(d, ctls[runID[d]]) /\ AtOrBefore(R, d, ctls[runID[d]])
      BY <2>3, <1>4 DEF Chain, LastIsListed
    <3>2. ctls'[runID'[d]] = ctls[runID[d]] /\ ctls[runID[d]] # c /\ runID'[d] = runID[d]
      BY <2>3, <3>1, <1>3, <1>4, <1>5 DEF TypeOK, Peers
    <3>3. QED
      BY <2>3, <3>1, <3>2, <1>2, <1>4 DEF Peers, AtOrBefore
  <2>4. QED
    BY <2>1, <2>2, <2>3
<1>9. QED
  BY <1>1, <1>6, <1>7, <1>8 DEF Chain

LEMMA ChainStart ==
  ASSUME TypeOK, NEW R \in SUBSET (Control \X Control), Chain(R),
         NEW c \in Control, Start(c)
  PROVE  Chain(R)'
<1> USE DEF Peers, AtOrBefore
<1>1. /\ st[c] = "waiting" /\ st' = [st EXCEPT ![c] = "running"]
      /\ UNCHANGED <<runID, prev, ctls>>
  BY DEF Start
<1>2. \A d \in Control : Unfinished(d)' = Unfinished(d) /\ (d # c => st'[d] = st[d])
  BY <1>1 DEF TypeOK, Unfinished
<1>3. \A b \in Control : ~(Peers(c, b) /\ <<b, c>> \in R)
  <2> SUFFICES ASSUME NEW b \in Control, Peers(c, b), <<b, c>> \in R PROVE FALSE
    OBVIOUS
  <2>1. prev[c] \in Control /\ Unfinished(prev[c])
    BY DEF Chain, WaitsForEarlier
  <2>2. prev[c] # None
    BY <2>1, SentinelAssumption
  <2>3. Finished(prev[c])
    BY <2>2 DEF Start
  <2>4. QED
    BY <2>1, <2>3 DEF Unfinished, Finished
<1>4. LoginOrder(R)'
  BY <1>1, <1>2 DEF Chain, LoginOrder, TypeOK
<1>5. WaitsForEarlier(R)'
  BY <1>1, <1>2, <1>3 DEF Chain, WaitsForEarlier
<1>6. LastIsListed(R)'
  BY <1>1, <1>2 DEF Chain, LastIsListed, TypeOK
<1>7. QED
  BY <1>4, <1>5, <1>6 DEF Chain

LEMMA ChainReadEOF ==
  ASSUME TypeOK, NEW R \in SUBSET (Control \X Control), Chain(R),
         NEW c \in Control, ReadEOF(c)
  PROVE  Chain(R)'
<1> USE DEF Peers, AtOrBefore
<1>1. /\ st[c] = "running" /\ st' = [st EXCEPT ![c] = "stopping"]
      /\ UNCHANGED <<runID, prev, ctls>>
  BY DEF ReadEOF
<1>2. \A d \in Control : Unfinished(d)' = Unfinished(d) /\ (d # c => st'[d] = st[d])
  BY <1>1 DEF TypeOK, Unfinished
<1>3. LoginOrder(R)'
  BY <1>1, <1>2 DEF Chain, LoginOrder, TypeOK
<1>4. WaitsForEarlier(R)'
  BY <1>1, <1>2 DEF Chain, WaitsForEarlier
<1>5. LastIsListed(R)'
  BY <1>1, <1>2 DEF Chain, LastIsListed, TypeOK
<1>6. QED
  BY <1>3, <1>4, <1>5 DEF Chain

LEMMA ChainExit ==
  ASSUME TypeOK, NEW R \in SUBSET (Control \X Control), Chain(R),
         NEW c \in Control, WorkerExit(c)
  PROVE  Chain(R)'
<1>1. /\ st[c] = "stopping" /\ st' = [st EXCEPT ![c] = "closed"]
      /\ UNCHANGED <<runID, prev, ctls>>
  BY DEF WorkerExit
<1>2. /\ Unfinished(c) /\ ~Unfinished(c)'
      /\ \A d \in Control : d # c => Unfinished(d)' = Unfinished(d) /\ st'[d] = st[d]
  BY <1>1 DEF TypeOK, Unfinished
<1>3. \A b \in Control : ~(Peers(c, b) /\ <<b, c>> \in R)
  BY <1>1 DEF Chain, WaitsForEarlier
<1>4. LoginOrder(R)'
  BY <1>1, <1>2 DEF Chain, LoginOrder, TypeOK, Peers
<1>5. WaitsForEarlier(R)'
  <2> SUFFICES ASSUME NEW a \in Control, NEW b \in Control, Peers(a, b)', <<b, a>> \in R
               PROVE  /\ st'[a] = "waiting"
                      /\ prev'[a] \in Control /\ Peers(a, prev[a])'
                      /\ AtOrBefore(R, b, prev'[a])
    BY DEF WaitsForEarlier, AtOrBefore
  <2>1. a # c /\ b # c /\ Peers(a, b)
    BY <1>1, <1>2 DEF Peers
  <2>2. /\ st[a] = "waiting" /\ prev[a] \in Control /\ Peers(a, prev[a])
        /\ AtOrBefore(R, b, prev[a])
    BY <2>1 DEF Chain, WaitsForEarlier
  <2>3. prev[a] # c
    BY <1>3, <2>1, <2>2 DEF Peers, AtOrBefore
  <2>4. QED
    BY <1>1, <1>2, <2>1, <2>2, <2>3 DEF Peers, AtOrBefore
<1>6. LastIsListed(R)'
  <2> SUFFICES ASSUME NEW d \in Control, Unfinished(d)'
               PROVE  /\ runID'[d] \in RunID /\ ctls'[runID'[d]] \in Control
                      /\ Peers(d, ctls[runID[d]])'
                      /\ AtOrBefore(R, d, ctls'[runID'[d]])
    BY DEF LastIsListed, AtOrBefore
  <2>1. d # c /\ Unfinished(d)
    BY <1>2
  <2>2. /\ runID[d] \in RunID /\ ctls[runID[d]] \in Control
        /\ Peers(d, ctls[runID[d]]) /\ AtOrBefore(R, d, ctls[runID[d]])
    BY <2>1 DEF Chain, LastIsListed
  <2>3. ctls[runID[d]] # c
    BY <1>3, <2>1, <2>2 DEF Peers, AtOrBefore
  <2>4. QED
    BY <1>1, <1>2, <2>1, <2>2, <2>3 DEF Peers, AtOrBefore
<1>7. QED
  BY <1>4, <1>5, <1>6 DEF Chain

LEMMA ChainReap ==
  ASSUME TypeOK, NEW R \in SUBSET (Control \X Control), Chain(R),
         NEW c \in Control, Reap(c)
  PROVE  Chain(R)'
<1> USE DEF Peers, AtOrBefore
<1>1. /\ st[c] = "closed" /\ st' = [st EXCEPT ![c] = "reaped"]
      /\ UNCHANGED <<runID, prev>>
  BY DEF Reap
<1>2. \A d \in Control : Unfinished(d)' = Unfinished(d) /\ (d # c => st'[d] = st[d])
  BY <1>1 DEF TypeOK, Unfinished
<1>3. \A r \in RunID : ctls[r] # c => ctls'[r] = ctls[r]
  BY DEF Reap
<1>4. ~Unfinished(c)
  BY <1>1 DEF Unfinished
<1>5. LoginOrder(R)'
  BY <1>1, <1>2 DEF Chain, LoginOrder, TypeOK
<1>6. WaitsForEarlier(R)'
  BY <1>1, <1>2 DEF Chain, WaitsForEarlier, TypeOK
<1>7. LastIsListed(R)'
  BY <1>1, <1>2, <1>3, <1>4 DEF Chain, LastIsListed
<1>8. QED
  BY <1>5, <1>6, <1>7 DEF Chain

LEMMA SessionStep == TypeOK /\ SessionInv /\ [Next]_vars => SessionInv'
<1> SUFFICES ASSUME TypeOK, SessionInv, [Next]_vars PROVE SessionInv'
  OBVIOUS
<1>1. shut => shut'
  BY DEF Next, Environment, Server, vars, sessionVars, ShutDown, Login, Start, ConnLost,
         NewProxy, Exist, RunOK, RunFails, Add, Rollback, Put, CloseProxy, CloseDel, TearClose,
         ReadEOF, TearDel, WorkerExit, Reap
<1>2. CASE shut
  BY <1>1, <1>2 DEF SessionInv
<1>3. ASSUME NEW R \in SUBSET (Control \X Control), Chain(R)
      PROVE  SessionInv'
  <2>1. CASE ShutDown
    BY <2>1 DEF ShutDown, SessionInv
  <2>2. CASE UNCHANGED <<st, runID, prev, ctls>>
    BY <1>3, <2>2, ChainKept DEF SessionInv
  <2>3. ASSUME NEW c \in Control, Environment(c) PROVE SessionInv'
    <3>1. ASSUME NEW r \in RunID, Login(c, r) PROVE SessionInv'
      BY <1>3, <3>1, ChainLogin DEF SessionInv
    <3>2. CASE ~\E r \in RunID : Login(c, r)
      BY <2>2, <2>3, <3>2 DEF Environment, ConnLost, NewProxy, CloseProxy, sessionVars
    <3>3. QED
      BY <3>1, <3>2
  <2>4. ASSUME NEW c \in Control, Server(c) PROVE SessionInv'
    <3>1. CASE Start(c) \/ ReadEOF(c) \/ WorkerExit(c) \/ Reap(c)
      BY <1>3, <3>1, ChainStart, ChainReadEOF, ChainExit, ChainReap DEF SessionInv
    <3>2. CASE ~(Start(c) \/ ReadEOF(c) \/ WorkerExit(c) \/ Reap(c))
      BY <2>2, <2>4, <3>2 DEF Server, Exist, RunOK, RunFails, Add, Put, Rollback, CloseDel,
         TearClose, TearDel, sessionVars
    <3>3. QED
      BY <3>1, <3>2
  <2>5. QED
    BY <2>1, <2>2, <2>3, <2>4 DEF Next, vars
<1>4. QED
  BY <1>2, <1>3 DEF SessionInv

LEMMA SessionInit == Init => SessionInv
<1> SUFFICES ASSUME Init PROVE Chain({})
  BY DEF SessionInv
<1>1. QED
  BY DEF Init, Chain, LoginOrder, WaitsForEarlier, LastIsListed, Peers, Unfinished

LEMMA SessionInvariant == Spec => []SessionInv
  BY SessionInit, SessionStep, Typing, PTL DEF Spec

(* Until shutdown, a client is served by one control: its successor starts *)
(* only after the whole chain of those it replaced has been torn down.     *)
THEOREM OneControlServed == Spec => []OneServed
<1>1. SessionInv => OneServed
  <2> SUFFICES ASSUME NEW R \in SUBSET (Control \X Control), Chain(R),
                      NEW c \in Control, NEW d \in Control,
                      Active(c), Active(d), runID[c] = runID[d], c # d
               PROVE  FALSE
    BY DEF SessionInv, OneServed
  <2>1. Peers(c, d) /\ Peers(d, c)
    BY DEF Active, Peers, Unfinished
  <2>2. <<c, d>> \in R \/ <<d, c>> \in R
    BY <2>1 DEF Chain, LoginOrder
  <2>3. st[c] = "waiting" \/ st[d] = "waiting"
    BY <2>1, <2>2 DEF Chain, WaitsForEarlier
  <2>4. QED
    BY <2>3 DEF Active
<1>2. QED
  BY <1>1, SessionInvariant, PTL

(* No name is still registered for an earlier control of the client being  *)
(* served: after a reconnect the client's own proxies are not in its way.  *)
THEOREM NoNameLeftBehind == Spec => []NoGhostNames
<1>1. RegistryInv /\ OneServed => NoGhostNames
  <2> SUFFICES ASSUME RegistryInv, OneServed, ~shut, NEW c \in Control, NEW d \in Control,
                      NEW n \in Name, Active(c), runID[c] = runID[d], c # d, pxys[n] = d
               PROVE  FALSE
    BY DEF NoGhostNames
  <2>1. Owns(d, n)
    BY DEF RegistryInv, RegistryExact
  <2>2. Active(d)
    BY <2>1 DEF RegistryInv, Shape, ShapeOf, Owns, At, Active, Registering
  <2>3. QED
    BY <2>2 DEF OneServed
<1>2. QED
  BY <1>1, RegistryInvariant, OneControlServed, PTL

-----------------------------------------------------------------------------
(* Refinement: the registry gives names out as leases.                     *)

KnownClient == \A c \in Control : st[c] # "unused" => runID[c] \in RunID

LEMMA KnownClientInvariant == Spec => []KnownClient
<1>1. Init => KnownClient
  BY DEF Init, KnownClient
<1>2. TypeOK /\ KnownClient /\ [Next]_vars => KnownClient'
  <2> SUFFICES ASSUME TypeOK, KnownClient, [Next]_vars PROVE KnownClient'
    OBVIOUS
  <2> USE DEF KnownClient, TypeOK
  <2>1. CASE UNCHANGED <<st, runID>>
    BY <2>1
  <2>2. ASSUME NEW c \in Control, NEW r \in RunID, Login(c, r) PROVE KnownClient'
    BY <2>2 DEF Login
  <2>3. ASSUME NEW c \in Control, Start(c) \/ ReadEOF(c) \/ WorkerExit(c) \/ Reap(c)
        PROVE  KnownClient'
    BY <2>3 DEF Start, ReadEOF, WorkerExit, Reap
  <2>4. QED
    BY <2>1, <2>2, <2>3 DEF Next, Environment, Server, vars, sessionVars, ShutDown, ConnLost,
       NewProxy, Exist, RunOK, RunFails, Add, Rollback, Put, CloseProxy, CloseDel, TearClose, TearDel
<1>3. QED
  BY <1>1, <1>2, Typing, PTL DEF Spec

LEMMA OverSame ==
  ASSUME \A d \in Control : Finished(d)' <=> Finished(d)
  PROVE  Over' = Over
  BY DEF Over, Finished

LEMMA OverGrows ==
  ASSUME NEW c \in Control, \A d \in Control : Finished(d)' <=> Finished(d) \/ d = c
  PROVE  Over' = Over \cup {c}
  BY DEF Over, Finished

LEMMA ServedSame ==
  ASSUME \A d \in Control : Active(d)' <=> Active(d),
         \A d \in Control : Active(d) => runID'[d] = runID[d]
  PROVE  [r \in RunID |-> Served(r)]' = [r \in RunID |-> Served(r)]
<1>1. \A r \in RunID : Served(r)' = Served(r)
  BY DEF Served, Active
<1>2. QED
  BY <1>1

LEMMA ServedGrows ==
  ASSUME NEW c \in Control, runID[c] \in RunID, UNCHANGED runID,
         \A d \in Control : Active(d)' <=> Active(d) \/ d = c
  PROVE  [r \in RunID |-> Served(r)]'
         = [[r \in RunID |-> Served(r)] EXCEPT ![runID[c]] = @ \cup {c}]
<1>1. \A r \in RunID : Served(r)' = IF r = runID[c] THEN Served(r) \cup {c} ELSE Served(r)
  <2> SUFFICES ASSUME NEW r \in RunID
               PROVE  Served(r)' = IF r = runID[c] THEN Served(r) \cup {c} ELSE Served(r)
    OBVIOUS
  <2>1. CASE r = runID[c]
    BY <2>1 DEF Served, Active
  <2>2. CASE r # runID[c]
    BY <2>2 DEF Served, Active
  <2>3. QED
    BY <2>1, <2>2
<1>2. QED
  BY <1>1

LEMMA ServedShrinks ==
  ASSUME NEW c \in Control, runID[c] \in RunID, UNCHANGED runID,
         \A d \in Control : Active(d)' <=> Active(d) /\ d # c
  PROVE  [r \in RunID |-> Served(r)]'
         = [[r \in RunID |-> Served(r)] EXCEPT ![runID[c]] = @ \ {c}]
<1>1. \A r \in RunID : Served(r)' = IF r = runID[c] THEN Served(r) \ {c} ELSE Served(r)
  <2> SUFFICES ASSUME NEW r \in RunID
               PROVE  Served(r)' = IF r = runID[c] THEN Served(r) \ {c} ELSE Served(r)
    OBVIOUS
  <2>1. CASE r = runID[c]
    BY <2>1 DEF Served, Active
  <2>2. CASE r # runID[c]
    BY <2>2 DEF Served, Active
  <2>3. QED
    BY <2>1, <2>2
<1>2. QED
  BY <1>1

LEMMA LeaseStutters ==
  ASSUME UNCHANGED <<pxys, shut>>,
         \A d \in Control : Active(d)' <=> Active(d),
         \A d \in Control : Finished(d)' <=> Finished(d),
         \A d \in Control : Active(d) => runID'[d] = runID[d]
  PROVE  UNCHANGED Lease!vars
  BY OverSame, ServedSame DEF Lease!vars

LEMMA LeaseStart ==
  ASSUME TypeOK, KnownClient, OneServed', NEW c \in Control, Start(c)
  PROVE  Lease!Begin(runID[c], c)
<1>1. /\ st[c] = "waiting" /\ st' = [st EXCEPT ![c] = "running"]
      /\ UNCHANGED <<runID, pxys, shut>> /\ runID[c] \in RunID
  BY DEF Start, KnownClient
<1>2. \A d \in Control : Active(d)' <=> Active(d) \/ d = c
  BY <1>1 DEF TypeOK, Active
<1>3. \A d \in Control : Finished(d)' <=> Finished(d)
  BY <1>1 DEF TypeOK, Finished
<1>4. c \notin Over /\ \A r \in RunID : c \notin Served(r)
  BY <1>1 DEF Over, Served, Active, Finished
<1>5. shut \/ Served(runID[c]) = {}
  <2> SUFFICES ASSUME ~shut, NEW d \in Control, Active(d), runID[d] = runID[c] PROVE FALSE
    BY DEF Served
  <2>1. d # c
    BY <1>1 DEF Active
  <2>2. Active(d)' /\ Active(c)' /\ ~shut' /\ runID'[d] = runID'[c]
    BY <1>1, <1>2
  <2>3. QED
    BY <2>1, <2>2 DEF OneServed
<1>6. Over' = Over
  BY <1>3, OverSame
<1>7. [r \in RunID |-> Served(r)]'
      = [[r \in RunID |-> Served(r)] EXCEPT ![runID[c]] = @ \cup {c}]
  BY <1>1, <1>2, ServedGrows
<1>8. QED
  BY <1>1, <1>4, <1>5, <1>6, <1>7 DEF Lease!Begin, Lease!Alive

LEMMA LeaseExit ==
  ASSUME TypeOK, RegistryInv, KnownClient, NEW c \in Control, WorkerExit(c)
  PROVE  Lease!End(runID[c], c)
<1>1. /\ st[c] = "stopping" /\ st' = [st EXCEPT ![c] = "closed"]
      /\ UNCHANGED <<runID, pxys, shut>> /\ runID[c] \in RunID
  BY DEF WorkerExit, KnownClient
<1>2. \A d \in Control : Active(d)' <=> Active(d) /\ d # c
  BY <1>1 DEF TypeOK, Active
<1>3. \A d \in Control : Finished(d)' <=> Finished(d) \/ d = c
  BY <1>1 DEF TypeOK, Finished
<1>4. \A n \in Name : pxys[n] # c
  BY <1>1 DEF WorkerExit, RegistryInv, RegistryExact, Owns, At, Idle
<1>5. c \in Served(runID[c])
  BY <1>1 DEF Served, Active
<1>6. Over' = Over \cup {c}
  BY <1>3, OverGrows
<1>7. [r \in RunID |-> Served(r)]'
      = [[r \in RunID |-> Served(r)] EXCEPT ![runID[c]] = @ \ {c}]
  BY <1>1, <1>2, ServedShrinks
<1>8. QED
  BY <1>1, <1>4, <1>5, <1>6, <1>7 DEF Lease!End

(* A step of a control being served that moves one name. *)
LEMMA LeaseMoves ==
  ASSUME KnownClient, NEW c \in Control, NEW n \in Name, Active(c),
         UNCHANGED <<st, runID, shut>>,
         \/ pxys[n] = None /\ pxys' = [pxys EXCEPT ![n] = c]
         \/ pxys[n] = c /\ pxys' = [pxys EXCEPT ![n] = None]
  PROVE  Lease!Grant(n, c) \/ Lease!Release(n, c)
<1>1. runID[c] \in RunID /\ c \in Served(runID[c])
  BY DEF KnownClient, Active, Served
<1>2. Lease!Alive(c)
  BY <1>1 DEF Lease!Alive
<1>3. [r \in RunID |-> Served(r)]' = [r \in RunID |-> Served(r)] /\ Over' = Over
  BY OverSame, ServedSame DEF Active, Finished
<1>4. QED
  BY <1>2, <1>3 DEF Lease!Grant, Lease!Release

LEMMA LeaseStep ==
  TypeOK /\ RegistryInv /\ KnownClient /\ OneServed' /\ [Next]_vars
    => [Lease!Next]_(Lease!vars)
<1> SUFFICES ASSUME TypeOK, RegistryInv, KnownClient, OneServed', [Next]_vars
             PROVE  Lease!Next \/ UNCHANGED Lease!vars
  OBVIOUS
<1>1. CASE UNCHANGED <<st, runID, pxys, shut>>
  <2>1. /\ \A d \in Control : Active(d)' <=> Active(d)
        /\ \A d \in Control : Finished(d)' <=> Finished(d)
    BY <1>1 DEF Active, Finished
  <2>2. QED
    BY <1>1, <2>1, LeaseStutters
<1>2. CASE ShutDown
  <2>1. [r \in RunID |-> Served(r)]' = [r \in RunID |-> Served(r)] /\ Over' = Over
    BY <1>2, OverSame, ServedSame DEF ShutDown, Active, Finished
  <2>2. Lease!ShutDown
    BY <1>2, <2>1 DEF ShutDown, Lease!ShutDown
  <2>3. QED
    BY <2>2 DEF Lease!Next
<1>3. ASSUME NEW c \in Control, NEW r \in RunID, Login(c, r)
      PROVE  UNCHANGED Lease!vars
  <2>1. /\ st[c] = "unused" /\ st' = [st EXCEPT ![c] = "waiting"]
        /\ runID' = [runID EXCEPT ![c] = r] /\ UNCHANGED <<pxys, shut>>
    BY <1>3 DEF Login
  <2>2. \A d \in Control : Active(d)' <=> Active(d)
    BY <2>1 DEF TypeOK, Active
  <2>3. \A d \in Control : Finished(d)' <=> Finished(d)
    BY <2>1 DEF TypeOK, Finished
  <2>4. \A d \in Control : Active(d) => runID'[d] = runID[d]
    BY <2>1 DEF TypeOK, Active
  <2>5. QED
    BY <2>1, <2>2, <2>3, <2>4, LeaseStutters
<1>4. ASSUME NEW c \in Control, Start(c) PROVE Lease!Next
  BY <1>4, LeaseStart DEF Lease!Next, KnownClient, Start
<1>5. ASSUME NEW c \in Control, WorkerExit(c) PROVE Lease!Next
  BY <1>5, LeaseExit DEF Lease!Next, KnownClient, WorkerExit
<1>6. ASSUME NEW c \in Control, NEW n \in Name, Lease!Grant(n, c) \/ Lease!Release(n, c)
      PROVE  Lease!Next
  BY <1>6 DEF Lease!Next
<1>7. ASSUME NEW c \in Control, Add(c) PROVE Lease!Next \/ UNCHANGED Lease!vars
  <2>1. /\ step[c].op = "add" /\ step[c].name \in Name /\ Active(c)
        /\ UNCHANGED <<st, runID, shut>>
    BY <1>7 DEF Add, At, sessionVars, RegistryInv, Shape, ShapeOf, Registering, Active
  <2>2. CASE pxys[step[c].name] = None
    BY <1>6, <1>7, <2>1, <2>2, LeaseMoves DEF Add
  <2>3. CASE pxys[step[c].name] # None
    BY <1>1, <1>7, <2>1, <2>3 DEF Add
  <2>4. QED
    BY <2>2, <2>3
<1>8. ASSUME NEW c \in Control, CloseDel(c) PROVE Lease!Next
  <2>1. /\ step[c].op = "del" /\ step[c].name \in Name /\ Active(c) /\ Owns(c, step[c].name)
        /\ UNCHANGED <<st, runID, shut>>
    BY <1>8 DEF CloseDel, At, sessionVars, RegistryInv, Shape, ShapeOf, Active, Owns
  <2>2. pxys[step[c].name] = c
    BY <2>1 DEF RegistryInv, RegistryExact
  <2>3. QED
    BY <1>6, <1>8, <2>1, <2>2, LeaseMoves DEF CloseDel, Del
<1>9. ASSUME NEW c \in Control, TearDel(c) PROVE Lease!Next
  <2>1. /\ step[c].op = "teardel" /\ step[c].name \in Name /\ Active(c) /\ Owns(c, step[c].name)
        /\ UNCHANGED <<st, runID, shut>>
    BY <1>9 DEF TearDel, At, RegistryInv, Shape, ShapeOf, Active, Owns
  <2>2. pxys[step[c].name] = c
    BY <2>1 DEF RegistryInv, RegistryExact
  <2>3. QED
    BY <1>6, <1>9, <2>1, <2>2, LeaseMoves DEF TearDel, Del
<1>10. ASSUME NEW c \in Control, ReadEOF(c) \/ Reap(c) PROVE UNCHANGED Lease!vars
  <2>1. /\ UNCHANGED <<runID, pxys, shut>>
        /\ \/ st[c] = "running" /\ st' = [st EXCEPT ![c] = "stopping"]
           \/ st[c] = "closed" /\ st' = [st EXCEPT ![c] = "reaped"]
    BY <1>10 DEF ReadEOF, Reap
  <2>2. \A d \in Control : Active(d)' <=> Active(d)
    BY <2>1 DEF TypeOK, Active
  <2>3. \A d \in Control : Finished(d)' <=> Finished(d)
    BY <2>1 DEF TypeOK, Finished
  <2>4. QED
    BY <2>1, <2>2, <2>3, LeaseStutters
<1>11. ASSUME NEW c \in Control, Environment(c) PROVE Lease!Next \/ UNCHANGED Lease!vars
  BY <1>1, <1>3, <1>11 DEF Environment, ConnLost, NewProxy, CloseProxy, sessionVars
<1>12. ASSUME NEW c \in Control, Server(c) PROVE Lease!Next \/ UNCHANGED Lease!vars
  BY <1>1, <1>4, <1>5, <1>7, <1>8, <1>9, <1>10, <1>12 DEF Server, Exist, RunOK, RunFails, Put,
     Rollback, TearClose, sessionVars
<1>13. QED
  BY <1>1, <1>2, <1>11, <1>12 DEF Next, vars

LEMMA LeaseInit == Init => Lease!Init
<1> SUFFICES ASSUME Init PROVE Lease!Init
  OBVIOUS
<1>1. \A r \in RunID : Served(r) = {}
  BY DEF Init, Served, Active
<1>2. Over = {}
  BY DEF Init, Over, Finished
<1>3. QED
  BY <1>1, <1>2 DEF Init, Lease!Init

(* frps implements the lease of names: a name has one holder, only a       *)
(* session being served gets one, and a session ends with none.            *)
THEOREM RegistryIsALease == Spec => ImplementsLease
<1>1. Spec => []OneServed
  BY OneControlServed
<1>2. QED
  BY <1>1, LeaseInit, LeaseStep, Typing, RegistryInvariant, KnownClientInvariant, PTL
     DEF Spec, ImplementsLease, Lease!Spec

-----------------------------------------------------------------------------
(* Listeners: one is open where a control uses it, and none is used twice. *)
(* A control uses a port for a proxy it holds, or (t = None) for the one   *)
(* RegisterProxy has in hand.                                              *)

Uses(c, t, p) == IF t = None THEN InHand(c, p) ELSE Holds(c, t, p)

User == Name \cup {None}

PortsInv ==
    /\ \A c \in Control, p \in Port : listens[p] = c <=> \E t \in User : Uses(c, t, p)
    /\ \A c \in Control, p \in Port, t, u \in User : Uses(c, t, p) /\ Uses(c, u, p) => t = u

LEMMA PortsKept ==
  ASSUME PortsInv, UNCHANGED listens,
         \A d \in Control, u \in User, p \in Port : Uses(d, u, p)' <=> Uses(d, u, p)
  PROVE  PortsInv'
  BY DEF PortsInv

LEMMA PortTaken ==
  ASSUME TypeOK, PortsInv, NEW c \in Control, NEW t \in User, NEW q \in Port,
         listens[q] = None, listens' = [listens EXCEPT ![q] = c], Uses(c, t, q)',
         \A d \in Control, u \in User, p \in Port :
            (d # c \/ u # t \/ p # q) => (Uses(d, u, p)' <=> Uses(d, u, p))
  PROVE  PortsInv'
<1>1. ASSUME NEW d \in Control, NEW p \in Port, p # q
      PROVE  (listens[p] = d <=> \E u \in User : Uses(d, u, p))'
  BY <1>1 DEF PortsInv, TypeOK
<1>2. ASSUME NEW d \in Control, d # c
      PROVE  (listens[q] = d <=> \E u \in User : Uses(d, u, q))'
  BY <1>2, SentinelAssumption DEF PortsInv, TypeOK
<1>3. (listens[q] = c <=> \E u \in User : Uses(c, u, q))'
  BY SentinelAssumption DEF PortsInv, TypeOK
<1>4. \A d \in Control, p \in Port, u, v \in User : (Uses(d, u, p) /\ Uses(d, v, p) => u = v)'
  BY SentinelAssumption DEF PortsInv, TypeOK
<1>5. QED
  BY <1>1, <1>2, <1>3, <1>4 DEF PortsInv

LEMMA PortFreed ==
  ASSUME TypeOK, PortsInv, NEW c \in Control, NEW t \in User, NEW q \in Port,
         listens' = [listens EXCEPT ![q] = None], Uses(c, t, q), ~Uses(c, t, q)',
         \A d \in Control, u \in User, p \in Port :
            (d # c \/ u # t \/ p # q) => (Uses(d, u, p)' <=> Uses(d, u, p))
  PROVE  PortsInv'
<1>1. ASSUME NEW d \in Control, NEW p \in Port, p # q
      PROVE  (listens[p] = d <=> \E u \in User : Uses(d, u, p))'
  BY <1>1 DEF PortsInv, TypeOK
<1>2. ASSUME NEW d \in Control, d # c
      PROVE  (listens[q] = d <=> \E u \in User : Uses(d, u, q))'
  <2>1. listens[q] = c /\ listens'[q] = None
    BY DEF PortsInv, TypeOK
  <2>2. \A u \in User : ~Uses(d, u, q)'
    BY <1>2, <2>1 DEF PortsInv
  <2>3. QED
    BY <2>1, <2>2, SentinelAssumption
<1>3. (listens[q] = c <=> \E u \in User : Uses(c, u, q))'
  <2>1. \A u \in User : ~Uses(c, u, q)'
    BY DEF PortsInv
  <2>2. listens'[q] # c
    BY SentinelAssumption DEF TypeOK
  <2>3. QED
    BY <2>1, <2>2
<1>4. \A d \in Control, p \in Port, u, v \in User : (Uses(d, u, p) /\ Uses(d, v, p) => u = v)'
  BY SentinelAssumption DEF PortsInv, TypeOK
<1>5. QED
  BY <1>1, <1>2, <1>3, <1>4 DEF PortsInv

LEMMA PortMoved ==
  ASSUME PortsInv, UNCHANGED listens, NEW c \in Control, NEW q \in Port, NEW m \in Name,
         Uses(c, None, q), ~Uses(c, None, q)', Uses(c, m, q)',
         \A d \in Control, u \in User, p \in Port :
            (d # c \/ u \notin {m, None} \/ p # q) => (Uses(d, u, p)' <=> Uses(d, u, p))
  PROVE  PortsInv'
  BY SentinelAssumption DEF PortsInv, User

(* Steps that leave every control's use of ports alone. *)
LEMMA UseSame ==
  ASSUME TypeOK, RegistryInv, NEW c \in Control,
         \/ \E r \in RunID : Login(c, r)
         \/ ConnLost(c) \/ Start(c) \/ Exist(c) \/ RunFails(c) \/ CloseDel(c)
         \/ ReadEOF(c) \/ TearDel(c) \/ WorkerExit(c) \/ Reap(c) \/ Add(c)
         \/ \E n \in Name, p \in Asked : NewProxy(c, n, p)
  PROVE  /\ UNCHANGED listens
         /\ \A d \in Control, u \in User, p \in Port : Uses(d, u, p)' <=> Uses(d, u, p)
<1>a. UNCHANGED listens
  BY DEF Login, ConnLost, Start, Exist, RunFails, CloseDel, ReadEOF, TearDel, WorkerExit, Reap,
     Add, NewProxy
<1> SUFFICES ASSUME NEW d \in Control, NEW u \in User, NEW p \in Port
             PROVE  Uses(d, u, p)' <=> Uses(d, u, p)
  BY <1>a
<1> USE SentinelAssumption DEF TypeOK, Handler, RegistryInv, Shape, ShapeOf, Registering,
        User, Uses, InHand, Holds, Owns, Closing, At
<1>1. ASSUME NEW r \in RunID, Login(c, r) PROVE Uses(d, u, p)' <=> Uses(d, u, p)
  BY <1>1 DEF Login
<1>2. CASE ConnLost(c)
  BY <1>2 DEF ConnLost
<1>3. CASE Start(c)
  BY <1>3 DEF Start
<1>4. CASE Exist(c)
  <2>1. /\ step[c].op = "exist" /\ UNCHANGED <<st, todo, proxies>>
        /\ \/ step' = [step EXCEPT ![c] = Idle]
           \/ step' = [step EXCEPT ![c].op = "run"]
    BY <1>4 DEF Exist, Return, Goto, sessionVars
  <2>2. step'[c].op \in {"idle", "run"} /\ (d # c => step'[d] = step[d])
    BY <2>1 DEF Idle
  <2>3. QED
    BY <2>1, <2>2
<1>5. CASE RunFails(c)
  BY <1>5 DEF RunFails, Return, Idle, sessionVars
<1>6. CASE CloseDel(c)
  BY <1>6 DEF CloseDel, Return, Idle, sessionVars
<1>7. CASE ReadEOF(c)
  BY <1>7 DEF ReadEOF, Idle
<1>8. CASE TearDel(c)
  BY <1>8 DEF TearDel, Return, Idle
<1>9. CASE WorkerExit(c)
  <2>1. CASE d = c
    <3>1. /\ st[c] = "stopping" /\ step[c] = Idle /\ todo[c] = {}
          /\ st'[c] = "closed" /\ UNCHANGED <<step, todo>>
      BY <1>9 DEF WorkerExit
    <3>2. QED
      BY <2>1, <3>1 DEF Idle
  <2>2. CASE d # c
    <3>1. st'[d] = st[d] /\ proxies'[d] = proxies[d] /\ UNCHANGED <<step, todo>>
      BY <1>9, <2>2 DEF WorkerExit, Discard
    <3>2. QED
      BY <3>1
  <2>3. QED
    BY <2>1, <2>2
<1>10. CASE Reap(c)
  BY <1>10 DEF Reap
<1>11. ASSUME NEW n \in Name, NEW q \in Asked, NewProxy(c, n, q)
       PROVE  Uses(d, u, p)' <=> Uses(d, u, p)
  BY <1>11 DEF NewProxy, Receives, Idle, sessionVars
<1>12. CASE Add(c)
  <2>1. /\ step[c].op = "add" /\ UNCHANGED <<st, todo, proxies>>
        /\ \/ step' = [step EXCEPT ![c].op = "rollback"]
           \/ /\ step' = [step EXCEPT ![c].op = "put"]
              /\ pxys[step[c].name] = None
    BY <1>12 DEF Add, Goto, sessionVars
  <2>2. /\ step'[c].op \in {"rollback", "put"}
        /\ step'[c].name = step[c].name /\ step'[c].port = step[c].port
        /\ d # c => step'[d] = step[d]
    BY <2>1
  <2>3. step'[c].op = "put" => proxies[c][step[c].name] = Absent
    BY <2>1, <2>2 DEF RegistryExact
  <2>4. InHand(d, p)' <=> InHand(d, p)
    BY <2>1, <2>2
  <2>5. \A n \in Name : Holds(d, n, p)' <=> Holds(d, n, p)
    BY <2>1, <2>2, <2>3
  <2>6. QED
    BY <2>4, <2>5
<1>13. QED
  BY <1>1, <1>2, <1>3, <1>4, <1>5, <1>6, <1>7, <1>8, <1>9, <1>10, <1>11, <1>12

LEMMA PortsRunOK ==
  ASSUME TypeOK, RegistryInv, PortsInv, NEW c \in Control, RunOK(c)
  PROVE  PortsInv'
<1> USE SentinelAssumption DEF User, Uses, InHand, Holds, Owns, Closing, At
<1>1. /\ step[c].op = "run" /\ UNCHANGED <<st, todo, proxies>>
      /\ step[c].port \in Port => listens[step[c].port] = None
      /\ listens' = [p \in Port |-> IF p = step[c].port THEN c ELSE listens[p]]
      /\ step' = [step EXCEPT ![c].op = "add"]
  BY DEF RunOK, Goto, sessionVars
<1>2. /\ step'[c].op = "add" /\ step'[c].port = step[c].port /\ step'[c].name = step[c].name
      /\ \A d \in Control : d # c => step'[d] = step[d]
  BY <1>1 DEF TypeOK, Handler
<1>3. \A d \in Control, u \in User, p \in Port :
         (d # c \/ u # None \/ p # step[c].port) => (Uses(d, u, p)' <=> Uses(d, u, p))
  BY <1>1, <1>2
<1>4. CASE step[c].port \in Port
  <2>1. listens' = [listens EXCEPT ![step[c].port] = c]
    BY <1>1, <1>4 DEF TypeOK
  <2>2. Uses(c, None, step[c].port)'
    BY <1>2
  <2>3. QED
    BY <1>1, <1>3, <1>4, <2>1, <2>2, PortTaken
<1>5. CASE step[c].port \notin Port
  <2>1. UNCHANGED listens
    BY <1>1, <1>5 DEF TypeOK
  <2>2. QED
    BY <1>3, <1>5, <2>1, PortsKept
<1>6. QED
  BY <1>4, <1>5

LEMMA PortsPut ==
  ASSUME TypeOK, RegistryInv, PortsInv, NEW c \in Control, Put(c)
  PROVE  PortsInv'
<1>0. PICK m, q : m = step[c].name /\ q = step[c].port
  OBVIOUS
<1>1. /\ step[c].op = "put" /\ UNCHANGED <<st, todo, listens>> /\ m \in Name
      /\ st[c] = "running" /\ proxies[c][m] = Absent /\ q \in Port \cup {NoPort, Counted}
      /\ proxies' = [proxies EXCEPT ![c][m] = q]
      /\ step' = [step EXCEPT ![c] = Idle]
  BY <1>0 DEF Put, Return, sessionVars, RegistryInv, Shape, ShapeOf, Registering, At, TypeOK, Handler
<1>2. /\ step'[c].op = "idle" /\ \A d \in Control : d # c => step'[d] = step[d]
      /\ proxies'[c][m] = q
      /\ \A d \in Control, n \in Name : d # c \/ n # m => proxies'[d][n] = proxies[d][n]
  BY <1>1 DEF TypeOK, Idle
<1>3. \A d \in Control, u \in User, p \in Port :
         (d # c \/ u \notin {m, None} \/ p # q) => (Uses(d, u, p)' <=> Uses(d, u, p))
  <2> SUFFICES ASSUME NEW d \in Control, NEW u \in User, NEW p \in Port,
                      d # c \/ u \notin {m, None} \/ p # q
               PROVE  Uses(d, u, p)' <=> Uses(d, u, p)
    OBVIOUS
  <2>1. CASE d # c
    BY <1>1, <1>2, <2>1, SentinelAssumption DEF User, Uses, InHand, Holds, Owns, Closing, At
  <2>2. CASE d = c /\ u \notin {m, None}
    BY <1>1, <1>2, <2>2, SentinelAssumption DEF User, Uses, InHand, Holds, Owns, Closing, At
  <2>3. CASE d = c /\ u \in {m, None} /\ p # q
    BY <1>0, <1>1, <1>2, <2>3, SentinelAssumption DEF User, Uses, InHand, Holds, Owns, Closing, At
  <2>4. QED
    BY <2>1, <2>2, <2>3
<1>4. CASE q \in Port
  <2>1. Uses(c, None, q) /\ ~Uses(c, None, q)' /\ Uses(c, m, q)'
    BY <1>0, <1>1, <1>2, <1>4, SentinelAssumption DEF User, Uses, InHand, Holds, Owns, Closing, At
  <2>2. QED
    BY <1>1, <1>3, <1>4, <2>1, PortMoved
<1>5. CASE q \notin Port
  BY <1>1, <1>3, <1>5, PortsKept
<1>6. QED
  BY <1>4, <1>5

LEMMA PortsRollback ==
  ASSUME TypeOK, RegistryInv, PortsInv, NEW c \in Control, Rollback(c)
  PROVE  PortsInv'
<1>0. PICK q : q = step[c].port
  OBVIOUS
<1>1. /\ step[c].op = "rollback" /\ UNCHANGED <<st, todo, proxies>>
      /\ listens' = [p \in Port |-> IF p = q /\ listens[p] = c THEN None ELSE listens[p]]
      /\ step' = [step EXCEPT ![c] = Idle]
  BY <1>0 DEF Rollback, CloseListeners, Return, sessionVars, At
<1>2. step'[c].op = "idle" /\ \A d \in Control : d # c => step'[d] = step[d]
  BY <1>1 DEF TypeOK, Idle
<1>3. \A d \in Control, u \in User, p \in Port :
         (d # c \/ u # None \/ p # q) => (Uses(d, u, p)' <=> Uses(d, u, p))
  BY <1>0, <1>1, <1>2, SentinelAssumption DEF User, Uses, InHand, Holds, Owns, Closing, At
<1>4. CASE q \in Port
  <2>2. Uses(c, None, q) /\ ~Uses(c, None, q)'
    BY <1>0, <1>1, <1>2, SentinelAssumption DEF User, Uses, InHand, Holds, Owns, Closing, At
  <2>0. listens[q] = c
    BY <1>4, <2>2 DEF PortsInv, User
  <2>1. listens' = [listens EXCEPT ![q] = None]
    BY <1>1, <1>4, <2>0 DEF TypeOK
  <2>3. QED
    BY <1>3, <1>4, <2>1, <2>2, PortFreed DEF User
<1>5. CASE q \notin Port
  <2>1. UNCHANGED listens
    BY <1>1, <1>5 DEF TypeOK
  <2>2. QED
    BY <1>3, <1>5, <2>1, PortsKept
<1>6. QED
  BY <1>4, <1>5

(* pxy.Close, in CloseProxy and in the teardown. *)
LEMMA PortsClose ==
  ASSUME TypeOK, RegistryInv, PortsInv, NEW c \in Control, NEW m \in Name,
         NEW o \in {"del", "teardel"},
         Owns(c, m), step[c] = Idle, UNCHANGED <<st, todo, proxies>>,
         CloseListeners(c, proxies[c][m]),
         step' = [step EXCEPT ![c] = [op |-> o, name |-> m, port |-> NoPort]]
  PROVE  PortsInv'
<1>0. PICK q : q = proxies[c][m]
  OBVIOUS
<1>1. /\ step'[c].op = o /\ step'[c].name = m /\ step[c].op = "idle"
      /\ \A d \in Control : d # c => step'[d] = step[d]
  BY DEF TypeOK, Idle
<1>2. \A d \in Control, u \in User, p \in Port :
         (d # c \/ u # m \/ p # q) => (Uses(d, u, p)' <=> Uses(d, u, p))
  BY <1>0, <1>1, SentinelAssumption DEF User, Uses, InHand, Holds, Owns, Closing, At
<1>3. CASE q \in Port
  <2>2. Uses(c, m, q) /\ ~Uses(c, m, q)'
    BY <1>0, <1>1, SentinelAssumption DEF User, Uses, InHand, Holds, Owns, Closing, At
  <2>0. listens[q] = c
    BY <1>3, <2>2 DEF PortsInv, User
  <2>1. listens' = [listens EXCEPT ![q] = None]
    BY <1>0, <1>3, <2>0 DEF TypeOK, CloseListeners
  <2>3. PICK t \in User : t = m
    BY DEF User
  <2>4. Uses(c, t, q) /\ ~Uses(c, t, q)'
    BY <2>2, <2>3
  <2>5. \A d \in Control, u \in User, p \in Port :
           (d # c \/ u # t \/ p # q) => (Uses(d, u, p)' <=> Uses(d, u, p))
    BY <1>2, <2>3
  <2>6. QED
    BY <1>3, <2>1, <2>4, <2>5, PortFreed DEF User
<1>4. CASE q \notin Port
  <2>1. UNCHANGED listens
    <3>1. listens' = [p \in Port |-> listens[p]]
      BY <1>0, <1>4 DEF CloseListeners
    <3>2. QED
      BY <3>1 DEF TypeOK
  <2>2. QED
    BY <1>2, <1>4, <2>1, PortsKept
<1>5. QED
  BY <1>3, <1>4

LEMMA PortsStep == TypeOK /\ RegistryInv /\ PortsInv /\ [Next]_vars => PortsInv'
<1> SUFFICES ASSUME TypeOK, RegistryInv, PortsInv, [Next]_vars PROVE PortsInv'
  OBVIOUS
<1>1. CASE ShutDown \/ UNCHANGED vars
  <2>1. UNCHANGED <<st, step, todo, proxies, listens>>
    BY <1>1 DEF ShutDown, vars
  <2>2. QED
    BY <2>1, PortsKept DEF User, Uses, InHand, Holds, Owns, Closing, At
<1>2. ASSUME NEW c \in Control, NEW m \in Name, CloseProxy(c, m) PROVE PortsInv'
  BY <1>2, PortsClose DEF CloseProxy, Receives, Owns, sessionVars
<1>3. ASSUME NEW c \in Control, NEW m \in Name, TearClose(c, m) PROVE PortsInv'
  BY <1>3, PortsClose DEF TearClose, Owns, sessionVars
<1>4. ASSUME NEW c \in Control, RunOK(c) \/ Put(c) \/ Rollback(c) PROVE PortsInv'
  BY <1>4, PortsRunOK, PortsPut, PortsRollback
<1>5. ASSUME NEW c \in Control, Environment(c) PROVE PortsInv'
  <2>1. CASE \E m \in Name : CloseProxy(c, m)
    BY <1>2, <2>1
  <2>2. CASE ~\E m \in Name : CloseProxy(c, m)
    BY <1>5, <2>2, UseSame, PortsKept DEF Environment
  <2>3. QED
    BY <2>1, <2>2
<1>6. ASSUME NEW c \in Control, Server(c) PROVE PortsInv'
  <2>1. CASE (\E m \in Name : TearClose(c, m)) \/ RunOK(c) \/ Put(c) \/ Rollback(c)
    BY <1>3, <1>4, <2>1
  <2>2. CASE ~((\E m \in Name : TearClose(c, m)) \/ RunOK(c) \/ Put(c) \/ Rollback(c))
    BY <1>6, <2>2, UseSame, PortsKept DEF Server
  <2>3. QED
    BY <2>1, <2>2
<1>7. QED
  BY <1>1, <1>5, <1>6 DEF Next

LEMMA PortsInit == Init => PortsInv
<1> SUFFICES ASSUME Init PROVE PortsInv
  OBVIOUS
<1>1. \A c \in Control, u \in User, p \in Port : ~Uses(c, u, p)
  BY SentinelAssumption DEF Init, Idle, User, Uses, InHand, Holds, Owns, At
<1>2. QED
  BY <1>1, SentinelAssumption DEF Init, PortsInv

(* A tcp port has a listener exactly while a proxy that is registered, or  *)
(* about to be, holds it: failed registrations, closes and teardowns leave *)
(* none open and close none that another proxy opened.                     *)
THEOREM ListenersAreExact == Spec => []ListenersExact
<1>1. PortsInv => ListenersExact
  BY SentinelAssumption DEF PortsInv, ListenersExact, Occupies, Uses, User
<1>2. QED
  BY <1>1, PortsInit, PortsStep, Typing, RegistryInvariant, PTL DEF Spec

-----------------------------------------------------------------------------
(* Quota: portsUsedNum counts the ports of the control's proxies.          *)

QuotaOf(c) ==
    st[c] \in {"unused", "waiting", "running"} =>
        /\ used[c] = Cardinality(PortNames(c)) + Pending(c)
        /\ used[c] <= MaxPorts

QuotaInv == MaxPorts > 0 => \A c \in Control : QuotaOf(c)

LEMMA CountType == ASSUME NEW c \in Control
                   PROVE  IsFiniteSet(PortNames(c)) /\ Cardinality(PortNames(c)) \in Nat
<1>1. PortNames(c) \subseteq Name
  BY DEF PortNames
<1>2. QED
  BY <1>1, LimitAssumption, FS_Subset, FS_CardinalityType

LEMMA PendingType == ASSUME NEW c \in Control PROVE Pending(c) \in 0..1
  BY DEF Pending, UsedPorts

(* A control whose handler, proxies and count stay as they are. *)
LEMMA QuotaSame ==
  ASSUME TypeOK, NEW c \in Control, QuotaOf(c),
         step'[c] = step[c], proxies'[c] = proxies[c], used'[c] = used[c],
         st'[c] \in {"unused", "waiting", "running"} => st[c] \in {"unused", "waiting", "running"}
  PROVE  QuotaOf(c)'
<1>1. PortNames(c)' = PortNames(c) /\ Pending(c)' = Pending(c)
  BY DEF PortNames, Pending, Closing
<1>2. QED
  BY <1>1 DEF QuotaOf

(* A step of the handler that moves nothing in the map of proxies. *)
LEMMA QuotaPending ==
  ASSUME TypeOK, MaxPorts > 0, NEW c \in Control, QuotaOf(c), st[c] = "running",
         UNCHANGED <<st, proxies>>, PortNames(c)' = PortNames(c),
         used'[c] = used[c] + Pending(c)' - Pending(c),
         used'[c] <= used[c] \/ used'[c] <= MaxPorts
  PROVE  QuotaOf(c)'
<1>1. used[c] \in Int /\ Pending(c) \in Int /\ Cardinality(PortNames(c)) \in Int
  BY CountType, PendingType DEF TypeOK
<1>2. Pending(c)' \in Int
  BY DEF Pending, UsedPorts
<1>3. QED
  BY <1>1, <1>2, LimitAssumption DEF QuotaOf

LEMMA QuotaNewProxy ==
  ASSUME TypeOK, MaxPorts > 0, NEW c \in Control, QuotaOf(c),
         NEW m \in Name, NEW p \in Asked, NewProxy(c, m, p)
  PROVE  QuotaOf(c)'
<1>1. /\ st[c] = "running" /\ step[c] = Idle /\ UNCHANGED <<st, proxies>>
      /\ used[c] + UsedPorts(p) <= MaxPorts
      /\ used' = [used EXCEPT ![c] = @ + UsedPorts(p)]
      /\ step' = [step EXCEPT ![c] = [op |-> "exist", name |-> m, port |-> p]]
  BY DEF NewProxy, Receives, Charge, sessionVars
<1>2. Pending(c) = 0 /\ Pending(c)' = UsedPorts(p) /\ UsedPorts(p) \in 0..1
  BY <1>1 DEF TypeOK, Pending, Idle, Registering, UsedPorts
<1>3. PortNames(c)' = PortNames(c)
  BY <1>1 DEF TypeOK, PortNames, Closing, Idle
<1>4. used'[c] = used[c] + UsedPorts(p) /\ used[c] \in Int
  BY <1>1 DEF TypeOK
<1>5. QED
  BY <1>1, <1>2, <1>3, <1>4, QuotaPending

(* RegisterProxy returns an error and gives back what it charged. *)
LEMMA QuotaReturned ==
  ASSUME TypeOK, MaxPorts > 0, NEW c \in Control, QuotaOf(c), st[c] = "running",
         step[c].op \in Registering, UNCHANGED <<st, proxies>>,
         Return(c), Charge(c, -UsedPorts(step[c].port))
  PROVE  QuotaOf(c)'
<1>1. /\ step' = [step EXCEPT ![c] = Idle]
      /\ used' = [used EXCEPT ![c] = @ + (-UsedPorts(step[c].port))]
  BY DEF Return, Charge
<1>2. Pending(c) = UsedPorts(step[c].port) /\ Pending(c)' = 0 /\ UsedPorts(step[c].port) \in 0..1
  BY <1>1 DEF TypeOK, Pending, Idle, Registering, UsedPorts
<1>3. PortNames(c)' = PortNames(c)
  BY <1>1 DEF TypeOK, PortNames, Closing, Idle, Registering
<1>4. used'[c] = used[c] - UsedPorts(step[c].port) /\ used[c] \in Int
  <2>1. UsedPorts(step[c].port) \in Int
    BY <1>2
  <2>2. QED
    BY <1>1, <2>1 DEF TypeOK
<1>5. QED
  BY <1>2, <1>3, <1>4, QuotaPending

(* RegisterProxy goes on to its next step. *)
LEMMA QuotaGoto ==
  ASSUME TypeOK, MaxPorts > 0, NEW c \in Control, QuotaOf(c), NEW o \in Registering,
         step[c].op \in Registering, UNCHANGED <<st, proxies, used>>, Goto(c, o)
  PROVE  QuotaOf(c)'
<1>1. step'[c].op = o /\ step'[c].port = step[c].port /\ step'[c].name = step[c].name
  BY DEF Goto, TypeOK, Handler
<1>2. Pending(c)' = Pending(c)
  BY <1>1 DEF Pending, UsedPorts
<1>3. PortNames(c)' = PortNames(c)
  BY <1>1 DEF PortNames, Closing, Registering
<1>4. QED
  BY <1>2, <1>3 DEF QuotaOf

LEMMA QuotaPut ==
  ASSUME TypeOK, RegistryInv, MaxPorts > 0, NEW c \in Control, QuotaOf(c), Put(c)
  PROVE  QuotaOf(c)'
<1>0. PICK m, q : m = step[c].name /\ q = step[c].port
  OBVIOUS
<1>1. /\ step[c].op = "put" /\ UNCHANGED <<st, used>> /\ m \in Name
      /\ proxies[c][m] = Absent /\ q \in Port \cup {NoPort, Counted}
      /\ proxies' = [proxies EXCEPT ![c][m] = q]
      /\ step' = [step EXCEPT ![c] = Idle]
  BY <1>0 DEF Put, Return, sessionVars, RegistryInv, Shape, ShapeOf, Registering, At, TypeOK, Handler
<1>2. step'[c].op = "idle" /\ Pending(c)' = 0 /\ Pending(c) = UsedPorts(q)
  BY <1>0, <1>1 DEF TypeOK, Idle, Pending, Registering
<1>3. m \notin PortNames(c)
  BY <1>1, SentinelAssumption DEF PortNames
<1>4. /\ proxies'[c][m] = q
      /\ \A n \in Name : n # m => proxies'[c][n] = proxies[c][n]
  BY <1>1 DEF TypeOK
<1>5. PortNames(c)' = IF q = NoPort THEN PortNames(c) ELSE PortNames(c) \cup {m}
  BY <1>1, <1>2, <1>4, SentinelAssumption DEF PortNames, Closing
<1>6. Cardinality(PortNames(c) \cup {m}) = Cardinality(PortNames(c)) + 1
  BY <1>3, CountType, FS_AddElement
<1>7. UsedPorts(q) = IF q = NoPort THEN 0 ELSE 1
  BY DEF UsedPorts
<1>8. QED
  BY <1>1, <1>2, <1>5, <1>6, <1>7, CountType DEF QuotaOf

LEMMA QuotaCloseProxy ==
  ASSUME TypeOK, MaxPorts > 0, NEW c \in Control, NEW m \in Name, QuotaOf(c), CloseProxy(c, m)
  PROVE  QuotaOf(c)'
<1>0. PICK q : q = proxies[c][m]
  OBVIOUS
<1>a. q \in Port \cup {NoPort, Counted}
  BY <1>0 DEF TypeOK, CloseProxy
<1>1. /\ st[c] = "running" /\ step[c] = Idle /\ UNCHANGED <<st, proxies>>
      /\ used' = [used EXCEPT ![c] = @ + (-UsedPorts(q))]
      /\ step' = [step EXCEPT ![c] = [op |-> "del", name |-> m, port |-> NoPort]]
  BY <1>0 DEF CloseProxy, Receives, Charge, sessionVars
<1>2. /\ step'[c].op = "del" /\ step'[c].name = m /\ step[c].op = "idle"
      /\ Pending(c)' = 0 /\ Pending(c) = 0
  BY <1>1 DEF TypeOK, Idle, Pending, Registering
<1>3. PortNames(c)' = PortNames(c) \ {m}
  BY <1>1, <1>2 DEF PortNames, Closing
<1>4. m \in PortNames(c) <=> q # NoPort
  BY <1>0, <1>a, <1>2, SentinelAssumption DEF PortNames, Closing
<1>5. /\ q # NoPort => Cardinality(PortNames(c) \ {m}) = Cardinality(PortNames(c)) - 1
      /\ q = NoPort => PortNames(c) \ {m} = PortNames(c)
  <2>1. IsFiniteSet(PortNames(c)) /\ Cardinality(PortNames(c)) \in Nat
    BY CountType
  <2>2. Cardinality(PortNames(c) \ {m}) = IF m \in PortNames(c) THEN Cardinality(PortNames(c)) - 1
                                          ELSE Cardinality(PortNames(c))
    BY <2>1, FS_RemoveElement
  <2>3. QED
    BY <1>4, <2>2
<1>6. UsedPorts(q) = (IF q = NoPort THEN 0 ELSE 1) /\ UsedPorts(q) \in Int
  BY DEF UsedPorts
<1>7. used'[c] = used[c] - UsedPorts(q) /\ used[c] \in Int
  BY <1>1, <1>6 DEF TypeOK
<1>8. /\ used[c] = Cardinality(PortNames(c)) /\ used[c] <= MaxPorts
      /\ Cardinality(PortNames(c)) \in Nat
  BY <1>1, <1>2, CountType DEF QuotaOf
<1>9. /\ used'[c] = Cardinality(PortNames(c)') + Pending(c)'
      /\ used'[c] <= MaxPorts
  <2>1. CASE q # NoPort
    BY <2>1, <1>2, <1>3, <1>5, <1>6, <1>7, <1>8, LimitAssumption
  <2>2. CASE q = NoPort
    <3>1. PortNames(c)' = PortNames(c)
      BY <2>2, <1>3, <1>5
    <3>2. used'[c] = used[c]
      BY <2>2, <1>6, <1>7
    <3>3. QED
      BY <3>1, <3>2, <1>2, <1>8
  <2>3. QED
    BY <2>1, <2>2
<1>10. QED
  BY <1>9 DEF QuotaOf

LEMMA QuotaCloseDel ==
  ASSUME TypeOK, MaxPorts > 0, NEW c \in Control, QuotaOf(c), CloseDel(c)
  PROVE  QuotaOf(c)'
<1>0. PICK m : m = step[c].name
  OBVIOUS
<1>1. /\ step[c].op = "del" /\ UNCHANGED <<st, used>>
      /\ proxies' = [proxies EXCEPT ![c][m] = Absent]
      /\ step' = [step EXCEPT ![c] = Idle]
  BY <1>0 DEF CloseDel, At, Return, sessionVars
<1>2. step'[c].op = "idle" /\ Pending(c)' = 0 /\ Pending(c) = 0
  BY <1>1 DEF TypeOK, Idle, Pending, Registering
<1>3. \A n \in Name : proxies'[c][n] = IF n = m THEN Absent ELSE proxies[c][n]
  BY <1>1 DEF TypeOK
<1>4. PortNames(c)' = PortNames(c)
  BY <1>0, <1>1, <1>2, <1>3, SentinelAssumption DEF PortNames, Closing
<1>5. QED
  BY <1>1, <1>2, <1>4 DEF QuotaOf

LEMMA QuotaStep == TypeOK /\ RegistryInv /\ QuotaInv /\ [Next]_vars => QuotaInv'
<1> SUFFICES ASSUME TypeOK, RegistryInv, QuotaInv, [Next]_vars, MaxPorts > 0,
                    NEW d \in Control
             PROVE  QuotaOf(d)'
  BY DEF QuotaInv
<1>0. QuotaOf(d)
  BY DEF QuotaInv
<1>1. CASE ShutDown \/ UNCHANGED vars
  BY <1>0, <1>1, QuotaSame DEF ShutDown, vars
<1>2. ASSUME NEW c \in Control, Environment(c) \/ Server(c), d # c
      PROVE  QuotaOf(d)'
  <2>1. step'[d] = step[d]
    BY <1>2 DEF TypeOK, Environment, Server, Login, ConnLost, Start, ReadEOF, WorkerExit, Reap,
       NewProxy, CloseProxy, Exist, RunOK, RunFails, Add, Put, Rollback, CloseDel, TearClose,
       TearDel, Goto, Return
  <2>2. proxies'[d] = proxies[d]
    BY <1>2 DEF TypeOK, Environment, Server, Login, ConnLost, Start, ReadEOF, WorkerExit, Discard, Reap,
       NewProxy, CloseProxy, Exist, RunOK, RunFails, Add, Put, Rollback, CloseDel, TearClose,
       TearDel, sessionVars
  <2>3. used'[d] = used[d]
    BY <1>2 DEF TypeOK, Environment, Server, Login, ConnLost, Start, ReadEOF, WorkerExit, Discard, Reap,
       NewProxy, CloseProxy, Exist, RunOK, RunFails, Add, Put, Rollback, CloseDel, TearClose,
       TearDel, Charge, sessionVars
  <2>4. st'[d] = st[d]
    BY <1>2 DEF TypeOK, Environment, Server, Login, ConnLost, Start, ReadEOF, WorkerExit, Reap,
       NewProxy, CloseProxy, Exist, RunOK, RunFails, Add, Put, Rollback, CloseDel, TearClose,
       TearDel, sessionVars
  <2>5. QED
    BY <1>0, <2>1, <2>2, <2>3, <2>4, QuotaSame
<1>3. ASSUME Environment(d)
      PROVE  QuotaOf(d)'
  <2>1. ASSUME NEW r \in RunID, Login(d, r) PROVE QuotaOf(d)'
    BY <1>0, <2>1, QuotaSame DEF Login
  <2>2. CASE ConnLost(d)
    BY <1>0, <2>2, QuotaSame DEF ConnLost
  <2>3. ASSUME NEW n \in Name, NEW p \in Asked, NewProxy(d, n, p) PROVE QuotaOf(d)'
    BY <1>0, <2>3, QuotaNewProxy
  <2>4. ASSUME NEW n \in Name, CloseProxy(d, n) PROVE QuotaOf(d)'
    BY <1>0, <2>4, QuotaCloseProxy
  <2>5. QED
    BY <1>3, <2>1, <2>2, <2>3, <2>4 DEF Environment
<1>4. step[d].op \in Registering => st[d] = "running"
  BY DEF RegistryInv, Shape, ShapeOf
<1>5. ASSUME Server(d)
      PROVE  QuotaOf(d)'
  <2>1. CASE Start(d)
    BY <1>0, <2>1, QuotaSame DEF Start
  <2>2. CASE ReadEOF(d)
    BY <2>2 DEF ReadEOF, QuotaOf, TypeOK
  <2>3. CASE WorkerExit(d) \/ Reap(d)
    BY <2>3 DEF WorkerExit, Reap, QuotaOf, TypeOK
  <2>4. CASE (\E n \in Name : TearClose(d, n)) \/ TearDel(d)
    <3>1. st[d] = "stopping" /\ st' = st
      BY <2>4 DEF TearClose, TearDel, At, sessionVars, RegistryInv, Shape, ShapeOf
    <3>2. QED
      BY <3>1 DEF QuotaOf
  <2>5. CASE Exist(d)
    <3>1. step[d].op \in Registering /\ UNCHANGED <<st, proxies>>
      BY <2>5 DEF Exist, At, Registering, sessionVars
    <3>2. CASE Return(d) /\ Charge(d, -UsedPorts(step[d].port))
      BY <1>0, <1>4, <3>1, <3>2, QuotaReturned
    <3>3. CASE Goto(d, "run") /\ UNCHANGED used
      BY <1>0, <3>1, <3>3, QuotaGoto DEF Registering
    <3>4. QED
      BY <2>5, <3>2, <3>3 DEF Exist
  <2>6. CASE RunFails(d) \/ Rollback(d)
    BY <1>0, <1>4, <2>6, QuotaReturned DEF RunFails, Rollback, At, Registering, sessionVars
  <2>7. CASE RunOK(d) \/ Add(d)
    BY <1>0, <2>7, QuotaGoto DEF RunOK, Add, At, Registering, sessionVars
  <2>8. CASE Put(d)
    BY <1>0, <2>8, QuotaPut
  <2>9. CASE CloseDel(d)
    BY <1>0, <2>9, QuotaCloseDel
  <2>10. QED
    BY <1>5, <2>1, <2>2, <2>3, <2>4, <2>5, <2>6, <2>7, <2>8, <2>9 DEF Server
<1>6. QED
  BY <1>1, <1>2, <1>3, <1>5 DEF Next

LEMMA QuotaInit == Init => QuotaInv
<1> SUFFICES ASSUME Init, NEW c \in Control PROVE QuotaOf(c)
  BY DEF QuotaInv
<1>1. PortNames(c) = {}
  BY SentinelAssumption DEF Init, PortNames
<1>2. Pending(c) = 0 /\ used[c] = 0
  BY DEF Init, Idle, Pending, Registering
<1>3. QED
  BY <1>1, <1>2, LimitAssumption, FS_EmptySet DEF QuotaOf

(* portsUsedNum is exact, so max_ports_per_client is neither exceeded nor  *)
(* used up by registrations that failed or proxies that were closed.       *)
THEOREM QuotaCountsPorts == Spec => []QuotaExact
<1>1. QuotaInv => QuotaExact
  BY DEF QuotaInv, QuotaOf, QuotaExact
<1>2. QED
  BY <1>1, QuotaInit, QuotaStep, Typing, RegistryInvariant, PTL DEF Spec

-----------------------------------------------------------------------------
(* Lookup: work and visitor connections reach the control that is alive.   *)

FindInv == ~shut => \A c \in Control : conn[c] =>
              st[c] # "unused" /\ (Finished(c) \/ ctls[runID[c]] = c)

LEMMA FindStep == TypeOK /\ KnownClient /\ FindInv /\ [Next]_vars => FindInv'
<1> SUFFICES ASSUME TypeOK, KnownClient, FindInv, [Next]_vars, ~shut', NEW d \in Control, conn'[d]
             PROVE  (st[d] # "unused" /\ (Finished(d) \/ ctls[runID[d]] = d))'
  BY DEF FindInv
<1> USE DEF TypeOK, KnownClient, FindInv, Finished
<1>1. CASE UNCHANGED <<st, runID, ctls, conn, shut>>
  BY <1>1
<1>2. CASE ShutDown
  BY <1>2 DEF ShutDown
<1>3. ASSUME NEW c \in Control, NEW r \in RunID, Login(c, r)
      PROVE  (st[d] # "unused" /\ (Finished(d) \/ ctls[runID[d]] = d))'
  <2>1. CASE d = c
    BY <1>3, <2>1 DEF Login
  <2>2. CASE d # c
    BY <1>3, <2>2 DEF Login
  <2>3. QED
    BY <2>1, <2>2
<1>4. ASSUME NEW c \in Control, ConnLost(c) \/ Start(c) \/ ReadEOF(c) \/ WorkerExit(c)
      PROVE  (st[d] # "unused" /\ (Finished(d) \/ ctls[runID[d]] = d))'
  BY <1>4 DEF ConnLost, Start, ReadEOF, WorkerExit
<1>5. ASSUME NEW c \in Control, Reap(c)
      PROVE  (st[d] # "unused" /\ (Finished(d) \/ ctls[runID[d]] = d))'
  BY <1>5 DEF Reap
<1>6. QED
  BY <1>1, <1>2, <1>3, <1>4, <1>5 DEF Next, Environment, Server, vars, sessionVars, NewProxy,
     CloseProxy, Exist, RunOK, RunFails, Add, Put, Rollback, CloseDel, TearClose, TearDel

(* Until shutdown, a control whose connection is open is the one its run   *)
(* ID leads to: Del of a finished control never removes a newer one.       *)
THEOREM AliveIsFound == Spec => []Findable
<1>1. Init => FindInv
  BY DEF Init, FindInv
<1>2. FindInv => Findable
  BY DEF FindInv, Findable
<1>3. QED
  BY <1>1, <1>2, FindStep, Typing, KnownClientInvariant, PTL DEF Spec

-----------------------------------------------------------------------------
(* Entries of the controls by run ID.                                      *)

Listed == \A r \in RunID : ctls[r] # None => st[ctls[r]] # "unused"

LEMMA ListedStep == TypeOK /\ Listed /\ [Next]_vars => Listed'
<1> SUFFICES ASSUME TypeOK, Listed, [Next]_vars PROVE Listed'
  OBVIOUS
<1>1. \A c \in Control : st[c] # "unused" => st'[c] # "unused"
  BY DEF Next, Environment, Server, vars, sessionVars, TypeOK, Login, ConnLost, NewProxy,
         CloseProxy, Start, Exist, RunOK, RunFails, Add, Put, Rollback, CloseDel, ReadEOF,
         TearClose, TearDel, WorkerExit, Reap, ShutDown
<1>2. \A r \in RunID : \/ ctls'[r] = ctls[r]
                       \/ ctls'[r] = None
                       \/ ctls'[r] \in Control /\ st'[ctls'[r]] # "unused"
  BY DEF Next, Environment, Server, vars, sessionVars, TypeOK, Login, ConnLost, NewProxy,
         CloseProxy, Start, Exist, RunOK, RunFails, Add, Put, Rollback, CloseDel, ReadEOF,
         TearClose, TearDel, WorkerExit, Reap, ShutDown
<1>3. QED
  BY <1>1, <1>2 DEF Listed, TypeOK

EntryStep ==
    \A r \in RunID : ctls'[r] # ctls[r] =>
          \/ shut' /\ ~shut
          \/ ctls[r] = None \/ Finished(ctls[r])
          \/ ctls'[r] # None /\ prev'[ctls'[r]] = ctls[r] /\ ~conn'[ctls[r]]

LEMMA EntryKept == TypeOK /\ Listed /\ [Next]_vars => [EntryStep]_vars
<1> SUFFICES ASSUME TypeOK, Listed, Next PROVE EntryStep
  OBVIOUS
<1>1. CASE ShutDown
  BY <1>1 DEF ShutDown, EntryStep
<1>2. ASSUME NEW c \in Control, NEW r \in RunID, Login(c, r) PROVE EntryStep
  <2>1. st[c] = "unused" /\ ctls' = [ctls EXCEPT ![r] = c]
        /\ prev' = [prev EXCEPT ![c] = ctls[r]]
        /\ conn' = [d \in Control |-> d = c \/ (conn[d] /\ d # ctls[r])]
    BY <1>2 DEF Login
  <2>2. ctls'[r] = c /\ prev'[c] = ctls[r] /\ \A q \in RunID : q # r => ctls'[q] = ctls[q]
    BY <2>1 DEF TypeOK
  <2>3. c # None
    BY SentinelAssumption
  <2>4. ASSUME ctls[r] # None PROVE ~conn'[ctls[r]]
    <3>1. ctls[r] \in Control /\ ctls[r] # c
      BY <2>1, <2>4 DEF TypeOK, Listed
    <3>2. QED
      BY <2>1, <3>1
  <2>5. QED
    BY <2>2, <2>3, <2>4 DEF EntryStep
<1>3. ASSUME NEW c \in Control, Reap(c) PROVE EntryStep
  BY <1>3 DEF Reap, EntryStep, Finished
<1>4. CASE UNCHANGED ctls
  BY <1>4 DEF EntryStep
<1>5. QED
  BY <1>1, <1>2, <1>3, <1>4
     DEF Next, Environment, Server, sessionVars, ConnLost, NewProxy,
         CloseProxy, Start, Exist, RunOK, RunFails, Add, Put, Rollback, CloseDel, ReadEOF,
         TearClose, TearDel, WorkerExit

(* A run ID leads to a control until that control has finished, a login    *)
(* that waits for it takes its place, or the service shuts down:           *)
(* ControlManager.Del never removes the entry of a newer control.          *)
THEOREM EntriesStay == Spec => EntryStays
<1>1. Init => Listed
  BY DEF Init, Listed
<1>2. QED
  BY <1>1, ListedStep, EntryKept, Typing, PTL DEF Spec, EntryStays, EntryStep

-----------------------------------------------------------------------------
(* Nothing that has to end waits for ever, as far as safety can say it.    *)

(* The order of the naturals is well founded. *)
NatLess == {p \in Nat \X Nat : p[1] < p[2]}

LEMMA NatLessWellFounded == IsWellFoundedOn(NatLess, Nat)
<1>1. OpToRel(<, Nat) = NatLess
  BY DEF OpToRel, NatLess
<1>2. QED
  BY NatLessThanWellFounded DEF OpToRel, NatLess

(* A control waits for one that logged in before it and has lost its       *)
(* connection.                                                             *)
EarlierAndClosed(rank) ==
    \A c \in Control : st[c] = "waiting" /\ prev[c] # None =>
        /\ prev[c] \in Control /\ st[prev[c]] # "unused" /\ ~conn[prev[c]]
        /\ rank[prev[c]] < rank[c]

WaitInv == \E rank \in [Control -> Nat] : EarlierAndClosed(rank)

IdleInv == \A c \in Control : step[c].op = "idle" => step[c] = Idle

(* What a control never does again: lose its login, or have a connection   *)
(* that was closed.                                                        *)
LEMMA OnceClosed ==
    ASSUME TypeOK, Next, NEW c \in Control, st[c] # "unused"
    PROVE  st'[c] # "unused" /\ (~conn[c] => ~conn'[c]) /\ prev'[c] = prev[c]
  BY DEF Next, Environment, Server, sessionVars, TypeOK, Login, ConnLost, NewProxy,
         CloseProxy, Start, Exist, RunOK, RunFails, Add, Put, Rollback, CloseDel, ReadEOF,
         TearClose, TearDel, WorkerExit, Reap, ShutDown

LEMMA WaitStep == TypeOK /\ Listed /\ WaitInv /\ [Next]_vars => WaitInv'
<1> SUFFICES ASSUME TypeOK, Listed, WaitInv, Next PROVE WaitInv'
  BY DEF vars, WaitInv, EarlierAndClosed
<1>1. PICK rank \in [Control -> Nat] : EarlierAndClosed(rank)
  BY DEF WaitInv
<1>2. ASSUME NEW c \in Control, NEW r \in RunID, Login(c, r)
      PROVE  WaitInv'
  <2> DEFINE after == [rank EXCEPT ![c] = IF ctls[r] = None THEN 0 ELSE rank[ctls[r]] + 1]
  <2>1. /\ st[c] = "unused" /\ st' = [st EXCEPT ![c] = "waiting"]
        /\ prev' = [prev EXCEPT ![c] = ctls[r]]
        /\ conn' = [d \in Control |-> d = c \/ (conn[d] /\ d # ctls[r])]
    BY <1>2 DEF Login
  <2>2. ctls[r] # None => ctls[r] \in Control /\ ctls[r] # c /\ st[ctls[r]] # "unused"
    BY <2>1 DEF TypeOK, Listed
  <2>3. after \in [Control -> Nat]
    BY <2>2
  <2>4. ASSUME NEW d \in Control, st'[d] = "waiting", prev'[d] # None
        PROVE  /\ prev'[d] \in Control /\ st'[prev'[d]] # "unused" /\ ~conn'[prev'[d]]
               /\ after[prev'[d]] < after[d]
    <3>1. CASE d = c
      <4>1. prev'[c] = ctls[r] /\ ctls[r] # None
        BY <2>1, <2>4, <3>1 DEF TypeOK
      <4>2. st'[ctls[r]] # "unused" /\ ~conn'[ctls[r]]
        BY <2>1, <2>2, <4>1 DEF TypeOK
      <4>3. after[c] = rank[ctls[r]] + 1 /\ after[ctls[r]] = rank[ctls[r]]
        BY <2>2, <4>1
      <4>4. rank[ctls[r]] \in Nat
        BY <2>2, <4>1
      <4>5. QED
        BY <2>2, <3>1, <4>1, <4>2, <4>3, <4>4
    <3>2. CASE d # c
      <4>1. st[d] = "waiting" /\ prev'[d] = prev[d]
        BY <2>1, <2>4, <3>2 DEF TypeOK
      <4>2. /\ prev[d] \in Control /\ st[prev[d]] # "unused" /\ ~conn[prev[d]]
            /\ rank[prev[d]] < rank[d]
        BY <1>1, <2>4, <4>1 DEF EarlierAndClosed
      <4>3. prev[d] # c
        BY <2>1, <4>2
      <4>4. QED
        BY <2>1, <3>2, <4>1, <4>2, <4>3 DEF TypeOK
    <3>3. QED
      BY <3>1, <3>2
  <2> HIDE DEF after
  <2>5. QED
    BY <2>3, <2>4 DEF WaitInv, EarlierAndClosed
<1>3. ASSUME \A c \in Control, r \in RunID : ~Login(c, r)
      PROVE  WaitInv'
  <2>1. ASSUME NEW c \in Control, st'[c] = "waiting"
        PROVE  st[c] = "waiting"
    BY <1>3, <2>1 DEF Next, Environment, Server, sessionVars, TypeOK, ConnLost, NewProxy,
       CloseProxy, Start, Exist, RunOK, RunFails, Add, Put, Rollback, CloseDel, ReadEOF,
       TearClose, TearDel, WorkerExit, Reap, ShutDown
  <2>2. QED
    BY <1>1, <2>1, OnceClosed DEF WaitInv, EarlierAndClosed
<1>4. QED
  BY <1>2, <1>3

LEMMA WaitInit == Init => WaitInv
<1> SUFFICES ASSUME Init PROVE EarlierAndClosed([c \in Control |-> 0])
  BY DEF WaitInv
<1>1. QED
  BY DEF Init, EarlierAndClosed

LEMMA IdleStep == TypeOK /\ IdleInv /\ [Next]_vars => IdleInv'
<1> SUFFICES ASSUME TypeOK, IdleInv, [Next]_vars, NEW d \in Control
             PROVE  (step[d].op = "idle" => step[d] = Idle)'
  BY DEF IdleInv
<1> USE DEF TypeOK, Handler, IdleInv
<1>1. CASE UNCHANGED step
  BY <1>1
<1>2. ASSUME NEW c \in Control, Return(c)
      PROVE  (step[d].op = "idle" => step[d] = Idle)'
  BY <1>2 DEF Return, Idle
<1>3. ASSUME NEW c \in Control, NEW o \in Op \ {"idle"}, Goto(c, o)
      PROVE  (step[d].op = "idle" => step[d] = Idle)'
  BY <1>3 DEF Goto
<1>4. ASSUME NEW c \in Control, NEW o \in Op \ {"idle"}, NEW n, NEW p,
             step' = [step EXCEPT ![c] = [op |-> o, name |-> n, port |-> p]]
      PROVE  (step[d].op = "idle" => step[d] = Idle)'
  BY <1>4
<1> HIDE DEF TypeOK, Handler, IdleInv
<1>5. ASSUME NEW c \in Control, Environment(c)
      PROVE  (step[d].op = "idle" => step[d] = Idle)'
  <2>1. ASSUME NEW n \in Name, NEW p \in Asked, NewProxy(c, n, p)
        PROVE  (step[d].op = "idle" => step[d] = Idle)'
    BY <1>4, <2>1, AskedAssumption DEF NewProxy, Op
  <2>2. ASSUME NEW n \in Name, CloseProxy(c, n)
        PROVE  (step[d].op = "idle" => step[d] = Idle)'
    BY <1>4, <2>2 DEF CloseProxy, Op
  <2>3. QED
    BY <1>1, <1>5, <2>1, <2>2 DEF Environment, Login, ConnLost
<1>6. ASSUME NEW c \in Control, Server(c)
      PROVE  (step[d].op = "idle" => step[d] = Idle)'
  <2>1. CASE Exist(c) \/ RunOK(c) \/ RunFails(c) \/ Add(c) \/ Put(c) \/ Rollback(c)
    BY <1>2, <1>3, <2>1 DEF Exist, RunOK, RunFails, Add, Put, Rollback, Op
  <2>2. CASE CloseDel(c) \/ TearDel(c)
    BY <1>2, <2>2 DEF CloseDel, TearDel
  <2>3. ASSUME NEW n \in Name, TearClose(c, n)
        PROVE  (step[d].op = "idle" => step[d] = Idle)'
    BY <1>4, <2>3 DEF TearClose, Op
  <2>4. CASE Start(c) \/ ReadEOF(c) \/ WorkerExit(c) \/ Reap(c)
    BY <1>1, <2>4 DEF Start, ReadEOF, WorkerExit, Reap
  <2>5. QED
    BY <1>6, <2>1, <2>2, <2>3, <2>4 DEF Server
<1>7. QED
  BY <1>1, <1>5, <1>6 DEF Next, ShutDown, vars

(* The guards of Server(c). *)
CanGoOn(c) ==
    \/ st[c] = "waiting" /\ (prev[c] # None => Finished(prev[c]))
    \/ step[c].op # "idle"
    \/ st[c] = "running" /\ step[c] = Idle /\ ~conn[c]
    \/ st[c] = "stopping" /\ step[c] = Idle
    \/ st[c] = "closed"

(* What a waiting control waits for, directly or not. *)
Ahead(S) == \A d \in S : st[d] = "waiting" /\ prev[d] # None => prev[d] \in S

(* Among the controls a login waits for, and itself, one can always go on: *)
(* the logins of a client never wait for each other in a circle, nor for   *)
(* one whose client is still connected.                                    *)
LoginsMove ==
    \A S \in SUBSET Control :
        Ahead(S) /\ (\E c \in S : st[c] = "waiting") => \E d \in S : CanGoOn(d)

THEOREM LoginsAreNotStuck == Spec => []LoginsMove
<1>1. ASSUME TypeOK, WaitInv, IdleInv
      PROVE  LoginsMove
  <2> SUFFICES ASSUME NEW S \in SUBSET Control, Ahead(S),
                      NEW c \in S, st[c] = "waiting",
                      \A d \in S : ~CanGoOn(d)
               PROVE  FALSE
    BY DEF LoginsMove
  <2>1. PICK rank \in [Control -> Nat] : EarlierAndClosed(rank)
    BY <1>1 DEF WaitInv
  <2> DEFINE Ranks == {rank[d] : d \in {x \in S : st[x] = "waiting"}}
  <2>2. Ranks \subseteq Nat /\ Ranks # {}
    OBVIOUS
  <2>3. PICK k \in Ranks : \A n \in Ranks : <<n, k>> \notin NatLess
    BY <2>2, WFMin, NatLessWellFounded
  <2>4. PICK d \in S : st[d] = "waiting" /\ k = rank[d]
    BY <2>3
  <2>5. prev[d] \in S /\ ~Finished(prev[d])
    BY <2>4 DEF Ahead, CanGoOn
  <2>6. /\ prev[d] \in Control /\ st[prev[d]] # "unused" /\ ~conn[prev[d]]
        /\ rank[prev[d]] < rank[d]
    BY <2>1, <2>4, <2>5, SentinelAssumption DEF EarlierAndClosed
  <2>7. <<rank[prev[d]], k>> \in NatLess
    BY <2>4, <2>6 DEF NatLess
  <2>8. st[prev[d]] # "waiting"
    BY <2>3, <2>5, <2>7
  <2>9. st[prev[d]] \in {"running", "stopping"}
    BY <1>1, <2>5, <2>6, <2>8 DEF TypeOK, Status, Finished
  <2>10. step[prev[d]].op = "idle"
    BY <2>5 DEF CanGoOn
  <2>11. QED
    BY <1>1, <2>5, <2>6, <2>9, <2>10 DEF CanGoOn, IdleInv
<1>2. Init => Listed /\ IdleInv
  BY DEF Init, Listed, IdleInv, Idle
<1>3. QED
  BY <1>1, <1>2, WaitInit, WaitStep, IdleStep, ListedStep, Typing, PTL DEF Spec

(* The steps that the server has still to take for a control whose         *)
(* connection is closed: those of the handler it is in, two for every      *)
(* proxy it may have to close, and those of RegisterControl and worker.    *)
HandlerLeft(c) ==
    LET o == step[c].op
    IN  IF o = "idle" THEN 0
        ELSE IF o = "exist" THEN 4
        ELSE IF o = "run" THEN 3
        ELSE IF o = "add" THEN 2 ELSE 1

Left(c) ==
    IF st[c] = "waiting" THEN 2 * Cardinality(Name) + 8
    ELSE IF st[c] = "running" THEN 2 * Cardinality(Name) + 3 + HandlerLeft(c)
    ELSE IF st[c] = "stopping" /\ step[c].op = "teardel" THEN 2 * Cardinality(todo[c]) + 1
    ELSE IF st[c] = "stopping" THEN 2 * Cardinality(todo[c]) + 2
    ELSE IF st[c] = "closed" THEN 1 ELSE 0

LEMMA LeftType ==
    ASSUME TypeOK, NEW c \in Control
    PROVE  /\ Cardinality(Name) \in Nat
           /\ IsFiniteSet(todo[c]) /\ Cardinality(todo[c]) \in Nat
           /\ Cardinality(todo[c]) <= Cardinality(Name)
           /\ HandlerLeft(c) \in 0 .. 4 /\ Left(c) \in Nat
<1>1. todo[c] \subseteq Name
  BY DEF TypeOK
<1>2. /\ IsFiniteSet(todo[c]) /\ Cardinality(todo[c]) <= Cardinality(Name)
      /\ Cardinality(todo[c]) \in Nat /\ Cardinality(Name) \in Nat
  BY <1>1, LimitAssumption, FS_Subset, FS_CardinalityType
<1>3. HandlerLeft(c) \in 0 .. 4
  BY DEF HandlerLeft
<1>4. QED
  BY <1>2, <1>3 DEF Left

(* A step within a handler. *)
LEMMA HandlerMoves ==
    ASSUME TypeOK, NEW c \in Control, st[c] = "running", st'[c] = "running",
           HandlerLeft(c)' < HandlerLeft(c), HandlerLeft(c)' \in Int
    PROVE  Left(c)' < Left(c)
  BY LeftType DEF Left

LEMMA ServerMoves ==
    ASSUME TypeOK, RegistryInv, IdleInv, NEW c \in Control, Server(c)
    PROVE  Left(c)' < Left(c)
<1> USE LeftType DEF TypeOK
<1>1. CASE Start(c)
  BY <1>1 DEF Start, Left, HandlerLeft
<1>2. CASE Exist(c) \/ RunOK(c) \/ RunFails(c) \/ Add(c) \/ Put(c) \/ Rollback(c) \/ CloseDel(c)
  <2>1. st[c] = "running" /\ st' = st
    BY <1>2 DEF Exist, RunOK, RunFails, Add, Put, Rollback, CloseDel, sessionVars,
                RegistryInv, Shape, ShapeOf, At, Registering
  <2>2. \/ step[c].op = "exist" /\ step'[c].op \in {"run", "idle"}
        \/ step[c].op = "run" /\ step'[c].op \in {"add", "idle"}
        \/ step[c].op = "add" /\ step'[c].op \in {"put", "rollback"}
        \/ step[c].op \in {"put", "rollback", "del"} /\ step'[c].op = "idle"
    BY <1>2 DEF Exist, RunOK, RunFails, Add, Put, Rollback, CloseDel, At, Goto, Return, Idle, Handler
  <2>3. HandlerLeft(c)' < HandlerLeft(c) /\ HandlerLeft(c)' \in Int
    BY <2>2 DEF HandlerLeft
  <2>4. QED
    BY <2>1, <2>3, HandlerMoves
<1>3. CASE ReadEOF(c)
  <2>1. /\ st[c] = "running" /\ step[c].op = "idle" /\ st'[c] = "stopping" /\ step'[c].op = "idle"
        /\ todo'[c] \subseteq Name
    BY <1>3 DEF ReadEOF, Idle
  <2>2. Cardinality(todo'[c]) <= Cardinality(Name) /\ Cardinality(todo'[c]) \in Nat
    BY <2>1, LimitAssumption, FS_Subset, FS_CardinalityType
  <2>3. QED
    BY <2>1, <2>2 DEF Left, HandlerLeft
<1>4. ASSUME NEW n \in Name, TearClose(c, n)
      PROVE  Left(c)' < Left(c)
  BY <1>4 DEF TearClose, Left, Idle, sessionVars
<1>5. CASE TearDel(c)
  <2>1. /\ step[c].op = "teardel" /\ step'[c].op = "idle" /\ st[c] = "stopping" /\ st'[c] = "stopping"
        /\ step[c].name \in todo[c] /\ todo'[c] = todo[c] \ {step[c].name}
    BY <1>5 DEF TearDel, At, Return, Idle, RegistryInv, Shape, ShapeOf
  <2>2. IsFiniteSet(todo[c])
    OBVIOUS
  <2>3. \A S, x : IsFiniteSet(S) /\ x \in S => Cardinality(S \ {x}) = Cardinality(S) - 1
    BY FS_RemoveElement
  <2>4. Cardinality(todo'[c]) = Cardinality(todo[c]) - 1
    BY <2>1, <2>2, <2>3
  <2>5. QED
    BY <2>1, <2>4 DEF Left
<1>6. CASE WorkerExit(c) \/ Reap(c)
  BY <1>6 DEF WorkerExit, Reap, Left, Idle
<1>7. QED
  BY <1>1, <1>2, <1>3, <1>4, <1>5, <1>6 DEF Server

(* The steps of the others leave a control without connection as it is. *)
LEMMA OthersLeave ==
    ASSUME TypeOK, Next, NEW c \in Control, st[c] # "unused", ~conn[c], ~Server(c)
    PROVE  Left(c)' = Left(c)
<1>1. st'[c] = st[c] /\ step'[c] = step[c] /\ todo'[c] = todo[c]
  <2> USE DEF TypeOK
  <2>1. CASE ShutDown
    BY <2>1 DEF ShutDown
  <2>2. ASSUME NEW d \in Control, Environment(d)
        PROVE  st'[c] = st[c] /\ step'[c] = step[c] /\ todo'[c] = todo[c]
    BY <2>2 DEF Environment, Login, ConnLost, NewProxy, CloseProxy, Receives, sessionVars
  <2>3. ASSUME NEW d \in Control, d # c, Server(d)
        PROVE  st'[c] = st[c] /\ step'[c] = step[c] /\ todo'[c] = todo[c]
    BY <2>3 DEF Server, Start, Exist, RunOK, RunFails, Add, Put, Rollback, CloseDel, ReadEOF,
       TearClose, TearDel, WorkerExit, Reap, Return, Goto, sessionVars
  <2>4. QED
    BY <2>1, <2>2, <2>3 DEF Next
<1>2. QED
  BY <1>1 DEF Left, HandlerLeft

(* A control whose connection is closed comes nearer to its end with every *)
(* step the server takes for it, and nobody else can set it back.          *)
EndNears ==
    \A c \in Control : st[c] # "unused" /\ ~conn[c] =>
        /\ Left(c) \in Nat
        /\ IF Server(c) THEN Left(c)' < Left(c) ELSE Left(c)' = Left(c)

THEOREM ClosedControlsEnd == Spec => [][EndNears]_vars
<1>1. ASSUME TypeOK, RegistryInv, IdleInv, [Next]_vars
      PROVE  [EndNears]_vars
  BY <1>1, LeftType, ServerMoves, OthersLeave DEF EndNears
<1>2. Init => IdleInv
  BY DEF Init, IdleInv, Idle
<1>3. QED
  BY <1>1, <1>2, IdleStep, Typing, RegistryInvariant, PTL DEF Spec

(* A control that has finished has given everything back. *)
NothingKept ==
    \A c \in Control : Finished(c) => /\ \A n \in Name : pxys[n] # c
                                      /\ \A p \in Port : listens[p] # c

THEOREM FinishedKeepsNothing == Spec => []NothingKept
<1>1. RegistryInv /\ ListenersExact => NothingKept
  BY DEF RegistryInv, Shape, ShapeOf, RegistryExact, ListenersExact, NothingKept, Finished, Owns, At,
         Occupies, InHand, Holds, Registering
<1>2. QED
  BY <1>1, RegistryInvariant, ListenersAreExact, PTL
=============================================================================
