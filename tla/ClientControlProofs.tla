------------------------ MODULE ClientControlProofs ------------------------
(* Theorems about ClientControl, for any set of wrappers and any channel. *)
EXTENDS ClientControl, TLAPS, FiniteSetTheorems

-----------------------------------------------------------------------------
(* Types                                                                   *)

LEMMA QueueType ==
  ASSUME TypeOK, Queue
  PROVE  queue' \in 0 .. Cap
  BY ControlAssumption DEF TypeOK, Queue

LEMMA TypeStep == TypeOK /\ [Next]_vars => TypeOK'
<1> SUFFICES ASSUME TypeOK, [Next]_vars PROVE TypeOK'
  OBVIOUS
<1> USE ControlAssumption
<1>1. CASE ConnLost \/ ReadReply \/ SenderExits \/ ReadFails
  BY <1>1 DEF ConnLost, ReadReply, SenderExits, ReadFails, TypeOK
<1>2. CASE Write
  <2>1. queue' \in 0 .. Cap
    BY <1>2 DEF Write, TypeOK
  <2>2. QED
    BY <1>2, <2>1 DEF Write, TypeOK
<1>3. CASE Lookup
  BY <1>3 DEF Lookup, TypeOK
<1>4. ASSUME NEW x \in Wrapper, Check(x) PROVE TypeOK'
  <2>1. checks' \in 0 .. MaxChecks
    BY <1>4 DEF Check, TypeOK
  <2>2. QED
    BY <1>4, <2>1 DEF Check, TypeOK
<1>5. ASSUME NEW x \in Wrapper, SetRunningStatus(x) PROVE TypeOK'
  BY <1>5 DEF SetRunningStatus, TypeOK
<1>6. ASSUME NEW x \in Wrapper, SendReply(x) PROVE TypeOK'
  BY <1>6, QueueType DEF SendReply, TypeOK
<1>7. ASSUME NEW x \in Wrapper, SendCheck(x) PROVE TypeOK'
  BY <1>7, QueueType DEF SendCheck, TypeOK
<1>8. CASE WorkerBegins
  BY <1>8 DEF WorkerBegins, TypeOK, Stage
<1>9. ASSUME NEW h \in Closer, OtherBegins(h) PROVE TypeOK'
  BY <1>9 DEF OtherBegins, TypeOK, Stage
<1>10. ASSUME NEW h \in Closer, LockManager(h) PROVE TypeOK'
  BY <1>10 DEF LockManager, TypeOK, Stage
<1>11. ASSUME NEW x \in Wrapper, Stop(x) PROVE TypeOK'
  <2>1. wrapper' \in [Wrapper -> {"unmade", "live", "stopped", "panic"}]
    BY <1>11 DEF Stop, TypeOK
  <2>2. lock' \in [Wrapper -> {"check", "reader", "stop", None}]
    BY <1>11 DEF Stop, TypeOK
  <2>3. QED
    BY <1>11, <2>1, <2>2 DEF Stop, TypeOK
<1>12. ASSUME NEW x \in Wrapper, SendStop(x) PROVE TypeOK'
  BY <1>12, QueueType DEF SendStop, TypeOK
<1>13. ASSUME NEW h \in Closer, Finish(h) PROVE TypeOK'
  <2>1. at' \in [Closer -> Stage] /\ holder' \in Closer \cup {None}
    BY <1>13 DEF Finish, TypeOK, Stage
  <2>2. conn' \in BOOLEAN /\ managed' \subseteq Wrapper
    BY <1>13 DEF Finish, TypeOK
  <2>3. wrapper' \in [Wrapper -> {"unmade", "live", "stopped", "panic"}]
    BY <1>13 DEF Finish, TypeOK
  <2>4. QED
    BY <1>13, <2>1, <2>2, <2>3 DEF Finish, TypeOK
<1>14. CASE UNCHANGED vars
  BY <1>14 DEF vars, TypeOK
<1>15. QED
  BY <1>1, <1>2, <1>3, <1>4, <1>5, <1>6, <1>7, <1>8, <1>9, <1>10, <1>11, <1>12, <1>13, <1>14
     DEF Next, Work

(* Every variable keeps its type; the channel never holds more than it can. *)
THEOREM ControlTyped == Spec => []TypeOK
<1>1. Init => TypeOK
  <2> SUFFICES ASSUME Init PROVE TypeOK
    OBVIOUS
  <2>1. queue \in 0 .. Cap /\ checks \in 0 .. MaxChecks
    BY ControlAssumption DEF Init
  <2>2. wrapper \in [Wrapper -> {"unmade", "live", "stopped", "panic"}]
    BY DEF Init
  <2>3. managed \subseteq Wrapper /\ at \in [Closer -> Stage]
    BY ControlAssumption DEF Init, Stage
  <2>4. QED
    BY <2>1, <2>2, <2>3 DEF Init, TypeOK
<1>2. QED
  BY <1>1, TypeStep, PTL DEF Spec

-----------------------------------------------------------------------------
(* Stopping the wrappers.                                                  *)
(*                                                                         *)
(* Several callers stop wrappers, but one at a time holds the manager, and *)
(* a wrapper that is in the map either is live or is being stopped by the  *)
(* holder at this moment. *)

Custody ==
    /\ \A x \in todo : x \in managed
    /\ \A x \in Wrapper : lock[x] = "stop" =>
          holder # None /\ x \in todo /\ wrapper[x] = "stopped"
    /\ \A x \in managed : wrapper[x] = "live" \/ (wrapper[x] = "stopped" /\ lock[x] = "stop")

StopInv == Custody /\ StoppedOnce /\ LiveIsManaged

(* A step that leaves the wrappers and the manager alone, and does not     *)
(* touch the lock of a wrapper that is being stopped. *)
LEMMA StopKept ==
  ASSUME TypeOK, StopInv, UNCHANGED <<wrapper, managed, holder, todo>>,
         \A x \in Wrapper : lock'[x] = "stop" <=> lock[x] = "stop"
  PROVE  StopInv'
  BY DEF TypeOK, StopInv, Custody, StoppedOnce, LiveIsManaged

LEMMA StopStep == TypeOK /\ StopInv /\ [Next]_vars => StopInv'
<1> SUFFICES ASSUME TypeOK, StopInv, [Next]_vars PROVE StopInv'
  OBVIOUS
<1> USE ControlAssumption
<1>1. CASE UNCHANGED <<wrapper, managed, holder, todo, lock>>
  BY <1>1, StopKept
<1>2. ASSUME NEW x \in Wrapper, SetRunningStatus(x) PROVE StopInv'
  <2>1. \A y \in Wrapper : lock'[y] = "stop" <=> lock[y] = "stop"
    BY <1>2 DEF SetRunningStatus, TypeOK
  <2>2. QED
    BY <1>2, <2>1, StopKept DEF SetRunningStatus
<1>3. ASSUME NEW x \in Wrapper, SendReply(x) \/ Check(x) \/ SendCheck(x) PROVE StopInv'
  <2>1. \A y \in Wrapper : lock'[y] = "stop" <=> lock[y] = "stop"
    BY <1>3 DEF SendReply, Check, SendCheck, TypeOK
  <2>2. QED
    BY <1>3, <2>1, StopKept DEF SendReply, Check, SendCheck
<1>4. ASSUME NEW h \in Closer, LockManager(h) PROVE StopInv'
  <2>1. todo' \subseteq managed /\ holder = None
    BY <1>4 DEF LockManager
  <2>2. \A x \in Wrapper : lock[x] # "stop"
    BY <2>1 DEF StopInv, Custody
  <2>3. UNCHANGED <<wrapper, managed, lock>>
    BY <1>4 DEF LockManager
  <2>4. QED
    BY <2>1, <2>2, <2>3 DEF StopInv, Custody, StoppedOnce, LiveIsManaged
<1>5. ASSUME NEW x \in Wrapper, Stop(x) PROVE StopInv'
  <2>1. x \in managed /\ wrapper[x] = "live"
    BY <1>5 DEF Stop, StopInv, Custody
  <2>2. /\ wrapper'[x] = "stopped" /\ lock'[x] = "stop"
        /\ \A y \in Wrapper : y # x => wrapper'[y] = wrapper[y] /\ lock'[y] = lock[y]
        /\ holder # None /\ x \in todo
        /\ UNCHANGED <<managed, holder, todo>>
    BY <1>5, <2>1 DEF Stop, TypeOK
  <2>3. QED
    BY <2>2 DEF TypeOK, StopInv, Custody, StoppedOnce, LiveIsManaged
<1>6. ASSUME NEW x \in Wrapper, SendStop(x) PROVE StopInv'
  <2>1. x \in managed /\ wrapper[x] # "live"
    BY <1>6 DEF SendStop, StopInv, Custody
  <2>2. /\ lock'[x] = None
        /\ \A y \in Wrapper : y # x => lock'[y] = lock[y]
        /\ managed' = managed \ {x} /\ todo' = todo \ {x}
        /\ UNCHANGED <<wrapper, holder>>
    BY <1>6 DEF SendStop, TypeOK
  <2>3. QED
    BY <2>1, <2>2 DEF TypeOK, StopInv, Custody, StoppedOnce, LiveIsManaged
<1>7. ASSUME NEW h \in Closer, Finish(h) PROVE StopInv'
  <2>1. todo = {} /\ UNCHANGED <<todo, lock>>
    BY <1>7 DEF Finish
  <2>2. \A x \in Wrapper : lock[x] # "stop"
    BY <2>1 DEF StopInv, Custody
  <2>3. /\ \A x \in managed' : x \in Wrapper /\ wrapper'[x] = "live"
        /\ \A x \in Wrapper : wrapper'[x] = wrapper[x] \/ (wrapper'[x] = "live" /\ x \in managed')
        /\ managed \subseteq managed'
    BY <1>7, <2>2 DEF Finish, TypeOK, StopInv, Custody
  <2>4. QED
    BY <2>1, <2>2, <2>3 DEF StopInv, Custody, StoppedOnce, LiveIsManaged
<1>8. QED
  BY <1>1, <1>2, <1>3, <1>4, <1>5, <1>6, <1>7
     DEF Next, Work, vars, ConnLost, Write, ReadReply, SenderExits, ReadFails, Lookup,
         WorkerBegins, OtherBegins

LEMMA StopInvariant == Spec => []StopInv
<1>1. Init => StopInv
  BY ControlAssumption DEF Init, StopInv, Custody, StoppedOnce, LiveIsManaged
<1>2. QED
  BY <1>1, StopStep, ControlTyped, PTL DEF Spec

(* Wrapper.Stop runs once for each wrapper, although worker, GracefulClose *)
(* and UpdateAll may all be stopping wrappers: closeCh is closed once.     *)
THEOREM NoDoubleStop == Spec => []StoppedOnce
  BY StopInvariant, PTL DEF StopInv

(* A wrapper that is live is in Manager.proxies, where Close finds it. *)
THEOREM NoneUnmanaged == Spec => []LiveIsManaged
  BY StopInvariant, PTL DEF StopInv
-----------------------------------------------------------------------------
(* The end of a control.                                                   *)
(*                                                                         *)
(* That the control winds up, once the connection is gone, takes two       *)
(* facts: somebody can always go on, and nobody goes on for ever.  Both    *)
(* hold for any number of wrappers and any capacity of the channel.        *)

(* Who runs what, and what has been told to whom. *)
Order ==
    /\ reader = "exited" <=> done
    /\ sender \/ done
    /\ \A h \in Closer : at[h] = "looping" <=> holder = h
    /\ \A x \in Wrapper : lock[x] = "reader" => reader = x

LEMMA OrderStep == TypeOK /\ Order /\ [Next]_vars => Order'
<1> SUFFICES ASSUME TypeOK, Order, [Next]_vars
             PROVE  Order'
  OBVIOUS
<1> USE ControlAssumption DEF TypeOK, Order
<1>1. CASE ConnLost \/ Write
  BY <1>1 DEF ConnLost, Write
<1>2. CASE SenderExits \/ ReadFails
  BY <1>2 DEF SenderExits, ReadFails
<1>3. CASE ReadReply \/ Lookup
  BY <1>3 DEF ReadReply, Lookup
<1>4. CASE WorkerBegins
  BY <1>4 DEF WorkerBegins, Closer
<1>5. ASSUME NEW h \in Closer, OtherBegins(h)
      PROVE  Order'
  BY <1>5 DEF OtherBegins, Closer
<1>6. ASSUME NEW h \in Closer, LockManager(h)
      PROVE  Order'
  BY <1>6 DEF LockManager, Closer
<1>7. ASSUME NEW h \in Closer, Finish(h)
      PROVE  Order'
  BY <1>7 DEF Finish, Closer
<1>8. ASSUME NEW x \in Wrapper, SetRunningStatus(x)
      PROVE  Order'
  BY <1>8 DEF SetRunningStatus
<1>9. ASSUME NEW x \in Wrapper, SendReply(x)
      PROVE  Order'
  BY <1>9 DEF SendReply
<1>10. ASSUME NEW x \in Wrapper, Check(x) \/ SendCheck(x) \/ Stop(x) \/ SendStop(x)
       PROVE  Order'
  BY <1>10 DEF Check, SendCheck, Stop, SendStop
<1>11. CASE UNCHANGED vars
  BY <1>11 DEF vars
<1>12. QED
  BY <1>1, <1>2, <1>3, <1>4, <1>5, <1>6, <1>7, <1>8, <1>9, <1>10, <1>11 DEF Next, Work

LEMMA OrderInvariant == Spec => []Order
<1>1. Init => Order
  BY ControlAssumption DEF Init, Order, Closer
<1>2. QED
  BY <1>1, OrderStep, ControlTyped, PTL DEF Spec

(* The guards of the steps of Work and Write, without the connection. *)
CanGoOn ==
    \/ sender /\ (done \/ queue > 0)
    \/ reader = "reading"
    \/ reader = "lookup" /\ holder = None
    \/ \E x \in Wrapper : lock[x] = None /\ reader = x
    \/ \E x \in Wrapper : lock[x] # None /\ queue < Cap
    \/ \E x \in todo : holder # None /\ lock[x] = None /\ \A y \in Wrapper : lock[y] # "stop"
    \/ at["worker"] = "idle" /\ done
    \/ \E h \in Closer : at[h] = "waiting" /\ holder = None
    \/ holder # None /\ todo = {}

(* No circle of waiting: readLoop waits for the holder of a lock, the      *)
(* holder of the manager for that of a wrapper, that one for room in the   *)
(* channel, and sendLoop, which makes room, for nobody.  It only is gone   *)
(* when the dispatcher is done.                                            *)
NoDeadlock ==
    ~conn /\ at["worker"] # "finished" => CanGoOn \/ (done /\ Stuck)

(* Once the connection is closed, the control is over, or somebody can go  *)
(* on, or the channel is full and sendLoop is gone; the last only happens  *)
(* when the dispatcher is done.                                            *)
THEOREM SomebodyGoesOn == Spec => []NoDeadlock
<1>1. TypeOK /\ StopInv /\ Order => NoDeadlock
  <2> SUFFICES ASSUME TypeOK, StopInv, Order, ~conn, at["worker"] # "finished", ~CanGoOn
               PROVE  done /\ Stuck
    BY DEF NoDeadlock
  <2>1. ASSUME NEW x \in Wrapper, lock[x] # None
        PROVE  done /\ Stuck
    <3>1. queue = Cap
      BY <2>1, ControlAssumption DEF CanGoOn, TypeOK
    <3>2. ~sender
      BY <3>1, ControlAssumption DEF CanGoOn
    <3>3. QED
      BY <3>1, <3>2 DEF Order, Stuck
  <2>2. ASSUME holder # None
        PROVE  done /\ Stuck
    <3>1. PICK x \in todo : x \in Wrapper
      BY <2>2 DEF CanGoOn, TypeOK
    <3>2. PICK y \in Wrapper : lock[y] # None
      BY <2>2, <3>1, ControlAssumption DEF CanGoOn
    <3>3. QED
      BY <2>1, <3>2
  <2>3. CASE reader = "lookup"
    BY <2>2, <2>3 DEF CanGoOn
  <2>4. CASE reader \in Wrapper
    BY <2>1, <2>4 DEF CanGoOn
  <2>5. CASE reader = "exited"
    <3>1. at["worker"] \in {"waiting", "looping"}
      BY <2>5 DEF CanGoOn, Order, TypeOK, Stage, Closer
    <3>2. holder # None
      BY <3>1, ControlAssumption DEF CanGoOn, Order, Closer
    <3>3. QED
      BY <2>2, <3>2
  <2>6. QED
    BY <2>3, <2>4, <2>5 DEF CanGoOn, TypeOK
<1>2. QED
  BY <1>1, ControlTyped, StopInvariant, OrderInvariant, PTL

(* What is left to do once the connection is closed, in steps: messages to *)
(* write, messages somebody has a lock to send, wrappers to stop, and what *)
(* readLoop, the three closers and sendLoop have before them.              *)
Held   == {x \in Wrapper : lock[x] # None}
ToStop == {x \in todo : lock[x] # "stop"}

ReaderLeft ==
    IF reader = "exited" THEN 0
    ELSE IF reader = "reading" THEN 1
    ELSE IF reader = "lookup" THEN 6
    ELSE IF lock[reader] = "reader" THEN 2 ELSE 5

StageLeft(s) ==
    IF s = "idle" THEN 3 * Cardinality(Wrapper) + 3
    ELSE IF s = "waiting" THEN 3 * Cardinality(Wrapper) + 2
    ELSE IF s = "looping" THEN 1 ELSE 0

ClosersLeft == StageLeft(at["worker"]) + StageLeft(at["close"]) + StageLeft(at["reload"])

SenderLeft == IF sender THEN 1 ELSE 0

Effort ==
    queue + 2 * Cardinality(Held) + 3 * Cardinality(ToStop) + ReaderLeft + ClosersLeft + SenderLeft

Bounded == Effort \in Nat

LEMMA EffortTypes ==
    ASSUME TypeOK
    PROVE  /\ IsFiniteSet(Held) /\ Cardinality(Held) \in Nat
           /\ IsFiniteSet(ToStop) /\ Cardinality(ToStop) \in Nat
           /\ Cardinality(ToStop) <= Cardinality(Wrapper) /\ Cardinality(Wrapper) \in Nat
           /\ ReaderLeft \in Nat /\ ClosersLeft \in Nat /\ SenderLeft \in Nat /\ queue \in Nat
           /\ \A s : StageLeft(s) \in Nat
           /\ Effort \in Nat
<1>1. Held \subseteq Wrapper /\ ToStop \subseteq Wrapper
  BY DEF Held, ToStop, TypeOK
<1>2. /\ IsFiniteSet(Held) /\ IsFiniteSet(ToStop)
      /\ Cardinality(ToStop) <= Cardinality(Wrapper)
  BY <1>1, ControlAssumption, FS_Subset
<1>3. Cardinality(Held) \in Nat /\ Cardinality(ToStop) \in Nat /\ Cardinality(Wrapper) \in Nat
  BY <1>2, ControlAssumption, FS_CardinalityType
<1>4. ReaderLeft \in Nat /\ SenderLeft \in Nat /\ queue \in Nat
  BY ControlAssumption DEF ReaderLeft, SenderLeft, TypeOK
<1>5. \A s : StageLeft(s) \in Nat
  BY <1>3 DEF StageLeft
<1>6. ClosersLeft \in Nat
  BY <1>5 DEF ClosersLeft
<1>7. QED
  BY <1>2, <1>3, <1>4, <1>5, <1>6 DEF Effort

LEMMA HeldTaken ==
    ASSUME TypeOK, NEW x \in Wrapper, NEW h, h # None, lock[x] = None, lock' = [lock EXCEPT ![x] = h]
    PROVE  Cardinality(Held') = Cardinality(Held) + 1
<1>1. x \notin Held /\ Held' = Held \cup {x}
  BY DEF Held, TypeOK
<1>2. QED
  BY <1>1, EffortTypes, FS_AddElement

LEMMA HeldGiven ==
    ASSUME TypeOK, NEW x \in Wrapper, lock[x] # None, lock' = [lock EXCEPT ![x] = None]
    PROVE  Cardinality(Held') = Cardinality(Held) - 1
<1>1. x \in Held /\ Held' = Held \ {x}
  BY DEF Held, TypeOK
<1>2. QED
  BY <1>1, EffortTypes, FS_RemoveElement

LEMMA CloserMoves ==
    ASSUME TypeOK, NEW h \in Closer, NEW s, at' = [at EXCEPT ![h] = s]
    PROVE  ClosersLeft' = ClosersLeft - StageLeft(at[h]) + StageLeft(s)
<1>1. \A z : StageLeft(z)' = StageLeft(z) /\ StageLeft(z) \in Nat
  BY EffortTypes DEF StageLeft
<1>2. at \in [Closer -> Stage]
  BY DEF TypeOK
<1>3. h = "worker" \/ h = "close" \/ h = "reload"
  BY DEF Closer
<1>4. /\ at'[h] = s
      /\ \A c \in Closer : c # h => at'[c] = at[c]
  BY <1>2
<1>5. /\ StageLeft(at["worker"]) \in Nat /\ StageLeft(at["close"]) \in Nat
      /\ StageLeft(at["reload"]) \in Nat /\ StageLeft(s) \in Nat
  BY <1>1
<1>6. ClosersLeft' = StageLeft(at'["worker"]) + StageLeft(at'["close"]) + StageLeft(at'["reload"])
  BY <1>1 DEF ClosersLeft
<1>7. QED
  BY <1>3, <1>4, <1>5, <1>6 DEF ClosersLeft, Closer

(* A step that leaves the locks, readLoop, the closers, ... alone. *)
LEMMA EffortKept ==
    /\ UNCHANGED lock => Held' = Held
    /\ UNCHANGED <<lock, todo>> => ToStop' = ToStop
    /\ UNCHANGED <<lock, reader>> => ReaderLeft' = ReaderLeft
    /\ UNCHANGED at => ClosersLeft' = ClosersLeft
    /\ UNCHANGED sender => SenderLeft' = SenderLeft
  BY DEF Held, ToStop, ReaderLeft, ClosersLeft, StageLeft, SenderLeft

(* The steps that take or give the lock of a wrapper. *)
LEMMA LockSteps ==
    ASSUME TypeOK, Custody, Order, NEW x \in Wrapper,
           SetRunningStatus(x) \/ SendReply(x) \/ SendCheck(x) \/ Stop(x) \/ SendStop(x)
    PROVE  Effort' < Effort
<1> USE EffortTypes, EffortKept
<1>0. ClosersLeft' = ClosersLeft /\ SenderLeft' = SenderLeft
  BY DEF SetRunningStatus, SendReply, SendCheck, Stop, SendStop
<1>1. CASE SetRunningStatus(x) /\ reader' = "reading"
  <2>1. Held' = Held /\ ToStop' = ToStop /\ queue' = queue
    BY <1>1, ControlAssumption DEF SetRunningStatus
  <2>2. ReaderLeft = 5 /\ ReaderLeft' = 1
    BY <1>1, ControlAssumption DEF SetRunningStatus, ReaderLeft
  <2>3. QED
    BY <1>0, <2>1, <2>2 DEF Effort
<1>2. CASE SetRunningStatus(x) /\ reader' # "reading"
  <2>1. lock[x] = None /\ lock' = [lock EXCEPT ![x] = "reader"] /\ reader = x /\ reader' = x
    BY <1>2 DEF SetRunningStatus
  <2>2. Cardinality(Held') = Cardinality(Held) + 1
    BY <2>1, HeldTaken, ControlAssumption
  <2>3. ToStop' = ToStop /\ queue' = queue
    BY <1>2, <2>1, ControlAssumption DEF SetRunningStatus, ToStop, TypeOK
  <2>4. ReaderLeft = 5 /\ ReaderLeft' = 2
    BY <2>1, ControlAssumption DEF ReaderLeft, TypeOK
  <2>5. QED
    BY <1>0, <2>2, <2>3, <2>4 DEF Effort
<1>3. CASE SendReply(x)
  <2>1. lock[x] = "reader" /\ lock' = [lock EXCEPT ![x] = None] /\ reader = x /\ reader' = "reading"
    BY <1>3 DEF SendReply, Order
  <2>2. Cardinality(Held') = Cardinality(Held) - 1
    BY <2>1, HeldGiven, ControlAssumption
  <2>3. ToStop' = ToStop /\ queue' = queue + 1
    BY <1>3, <2>1, ControlAssumption DEF SendReply, Queue, ToStop, TypeOK
  <2>4. ReaderLeft = 2 /\ ReaderLeft' = 1
    BY <2>1, ControlAssumption DEF ReaderLeft
  <2>5. QED
    BY <1>0, <2>2, <2>3, <2>4 DEF Effort
<1>4. CASE SendCheck(x)
  <2>1. lock[x] = "check" /\ lock' = [lock EXCEPT ![x] = None] /\ reader' = reader
    BY <1>4 DEF SendCheck
  <2>2. Cardinality(Held') = Cardinality(Held) - 1
    BY <2>1, HeldGiven, ControlAssumption
  <2>3. ToStop' = ToStop /\ queue' = queue + 1
    BY <1>4, <2>1, ControlAssumption DEF SendCheck, Queue, ToStop, TypeOK
  <2>4. ReaderLeft' = ReaderLeft
    BY <2>1, ControlAssumption DEF ReaderLeft, TypeOK
  <2>5. QED
    BY <1>0, <2>2, <2>3, <2>4 DEF Effort
<1>5. CASE Stop(x)
  <2>1. /\ lock[x] = None /\ lock' = [lock EXCEPT ![x] = "stop"] /\ reader' = reader
        /\ x \in todo /\ todo' = todo /\ queue' = queue
    BY <1>5 DEF Stop
  <2>2. Cardinality(Held') = Cardinality(Held) + 1
    BY <2>1, HeldTaken, ControlAssumption
  <2>3. x \in ToStop /\ ToStop' = ToStop \ {x}
    BY <2>1, ControlAssumption DEF ToStop, TypeOK
  <2>4. Cardinality(ToStop') = Cardinality(ToStop) - 1
    BY <2>3, FS_RemoveElement
  <2>5. ReaderLeft' = ReaderLeft
    BY <2>1, ControlAssumption DEF ReaderLeft, TypeOK
  <2>6. QED
    BY <1>0, <2>1, <2>2, <2>4, <2>5 DEF Effort
<1>6. CASE SendStop(x)
  <2>1. /\ lock[x] = "stop" /\ lock' = [lock EXCEPT ![x] = None] /\ reader' = reader
        /\ todo' = todo \ {x}
    BY <1>6 DEF SendStop
  <2>2. Cardinality(Held') = Cardinality(Held) - 1
    BY <2>1, HeldGiven, ControlAssumption
  <2>3. ToStop' = ToStop /\ queue' = queue + 1
    BY <1>6, <2>1, ControlAssumption DEF SendStop, Queue, ToStop, TypeOK
  <2>4. ReaderLeft' = ReaderLeft
    BY <2>1, ControlAssumption DEF ReaderLeft, TypeOK
  <2>5. QED
    BY <1>0, <2>2, <2>3, <2>4 DEF Effort
<1>7. QED
  BY <1>1, <1>2, <1>3, <1>4, <1>5, <1>6

(* The other steps that wind the control up. *)
LEMMA OtherSteps ==
    ASSUME TypeOK, Order, ~conn,
           \/ Write \/ SenderExits \/ ReadFails \/ Lookup \/ WorkerBegins
           \/ \E h \in Closer : OtherBegins(h) \/ LockManager(h) \/ Finish(h)
    PROVE  Effort' < Effort
<1> USE EffortTypes, EffortKept
<1>1. CASE Write
  BY <1>1 DEF Write, Effort
<1>2. CASE SenderExits
  BY <1>2 DEF SenderExits, SenderLeft, Effort
<1>3. CASE ReadFails
  <2>1. ReaderLeft = 1 /\ ReaderLeft' = 0
    BY <1>3 DEF ReadFails, ReaderLeft
  <2>2. QED
    BY <1>3, <2>1 DEF ReadFails, Effort
<1>4. CASE Lookup
  <2>1. ReaderLeft = 6 /\ ReaderLeft' \in {1, 2, 5}
    BY <1>4, ControlAssumption DEF Lookup, ReaderLeft, TypeOK
  <2>2. QED
    BY <1>4, <2>1 DEF Lookup, Effort
<1>5. CASE WorkerBegins
  <2>1. ClosersLeft' = ClosersLeft - StageLeft("idle") + StageLeft("waiting")
    BY <1>5, CloserMoves DEF WorkerBegins, Closer
  <2>2. StageLeft("idle") = StageLeft("waiting") + 1
    BY DEF StageLeft
  <2>3. QED
    BY <1>5, <2>1, <2>2 DEF WorkerBegins, Effort
<1>6. ASSUME NEW h \in Closer, OtherBegins(h)
      PROVE  Effort' < Effort
  <2>1. ClosersLeft' = ClosersLeft - StageLeft("idle") + StageLeft("waiting")
    BY <1>6, CloserMoves DEF OtherBegins
  <2>2. StageLeft("idle") = StageLeft("waiting") + 1
    BY DEF StageLeft
  <2>3. QED
    BY <1>6, <2>1, <2>2 DEF OtherBegins, Effort
<1>7. ASSUME NEW h \in Closer, LockManager(h)
      PROVE  Effort' < Effort
  <2>1. ClosersLeft' = ClosersLeft - StageLeft("waiting") + StageLeft("looping")
    BY <1>7, CloserMoves DEF LockManager
  <2>2. StageLeft("waiting") = 3 * Cardinality(Wrapper) + 2 /\ StageLeft("looping") = 1
    BY DEF StageLeft
  <2>3. ToStop' \subseteq Wrapper
    BY <1>7 DEF LockManager, ToStop, TypeOK
  <2>4. Cardinality(ToStop') <= Cardinality(Wrapper) /\ Cardinality(ToStop') \in Nat
    BY <2>3, ControlAssumption, FS_Subset, FS_CardinalityType
  <2>5. QED
    BY <1>7, <2>1, <2>2, <2>4 DEF LockManager, Effort
<1>8. ASSUME NEW h \in Closer, Finish(h)
      PROVE  Effort' < Effort
  <2>1. ClosersLeft' = ClosersLeft - StageLeft(at[h]) + StageLeft("finished")
    BY <1>8, CloserMoves DEF Finish
  <2>2. at[h] = "looping"
    BY <1>8 DEF Finish, Order
  <2>3. StageLeft("looping") = 1 /\ StageLeft("finished") = 0
    BY DEF StageLeft
  <2>4. QED
    BY <1>8, <2>1, <2>2, <2>3 DEF Finish, Effort
<1>9. QED
  BY <1>1, <1>2, <1>3, <1>4, <1>5, <1>6, <1>7, <1>8

(* Once the connection is closed every step brings the end of the control  *)
(* nearer, whoever takes it; only a checkWorker that begins one more check *)
(* adds to what is left, and that no more than its one message.            *)
WindsUp ==
    ~conn => /\ Effort' <= Effort + 2
             /\ (\A x \in Wrapper : ~Check(x)) => Effort' < Effort

THEOREM ControlWindsUp == Spec => [][WindsUp]_vars
<1>1. TypeOK => Bounded
  BY EffortTypes DEF Bounded
<1>2. ASSUME TypeOK, Custody, Order, Bounded, Bounded', [Next]_vars
      PROVE  [WindsUp]_vars
  <2> SUFFICES ASSUME TypeOK, Custody, Order, Bounded, Bounded', Next, ~conn
               PROVE  /\ Effort' <= Effort + 2
                      /\ (\A x \in Wrapper : ~Check(x)) => Effort' < Effort
    BY <1>2 DEF WindsUp
  <2> USE DEF Bounded
  <2>1. ASSUME NEW x \in Wrapper, Check(x)
        PROVE  Effort' = Effort + 2
    <3>1. /\ lock[x] = None /\ lock' = [lock EXCEPT ![x] = "check"] /\ reader' = reader
          /\ todo' = todo /\ queue' = queue
      BY <2>1 DEF Check
    <3>2. Cardinality(Held') = Cardinality(Held) + 1
      BY <3>1, HeldTaken, ControlAssumption
    <3>3. ToStop' = ToStop /\ ReaderLeft' = ReaderLeft
      BY <3>1, ControlAssumption DEF ToStop, ReaderLeft, TypeOK
    <3>4. ClosersLeft' = ClosersLeft /\ SenderLeft' = SenderLeft
      BY <2>1, EffortKept DEF Check
    <3>5. QED
      BY <3>1, <3>2, <3>3, <3>4, EffortTypes DEF Effort
  <2>2. ~ConnLost /\ ~ReadReply
    BY DEF ConnLost, ReadReply
  <2>3. CASE \E x \in Wrapper : Check(x)
    BY <2>1, <2>3
  <2>4. CASE \A x \in Wrapper : ~Check(x)
    BY <2>2, <2>4, LockSteps, OtherSteps DEF Next, Work
  <2>5. QED
    BY <2>3, <2>4
<1>3. QED
  BY <1>1, <1>2, ControlTyped, StopInvariant, OrderInvariant, PTL DEF Spec, StopInv
=============================================================================
