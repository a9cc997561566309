--------------------------- MODULE ClientControl ---------------------------
(***************************************************************************)
(* frpc: the end of a control.  client/control.go (worker, GracefulClose), *)
(* pkg/msg/handler.go (Dispatcher), pkg/transport/message.go (Send),       *)
(* client/proxy (Manager, Wrapper).                                        *)
(*                                                                         *)
(* A control is several goroutines over one buffered channel and two kinds *)
(* of locks.  Whoever starts or stops a proxy sends a message to the       *)
(* server, and holds the lock of the wrapper (and, when it stops it, the   *)
(* lock of the manager) until the channel has taken the message.  The      *)
(* channel is emptied by sendLoop, which lives no longer than readLoop.    *)
(***************************************************************************)
EXTENDS Naturals, FiniteSets

CONSTANTS Wrapper,    \* wrappers of proxies, each of them made once
          Initial,    \* those made by Control.Run
          Cap,        \* capacity of sendCh (100)
          MaxChecks,  \* bound: messages the checkWorkers send altogether
          None

ASSUME ControlAssumption ==
    /\ Initial \subseteq Wrapper /\ IsFiniteSet(Wrapper)
    /\ Wrapper \cap {"reading", "lookup", "exited"} = {}
    /\ None \notin {"worker", "close", "reload", "check", "reader", "stop"}
    /\ Cap \in Nat \ {0} /\ MaxChecks \in Nat

VARIABLES
    conn,     \* is the control connection open?
    done,     \* Dispatcher.doneCh is closed
    queue,    \* number of messages in sendCh
    sender,   \* is sendLoop alive?
    reader,   \* readLoop: reading, looking a wrapper up, at a wrapper, exited
    wrapper,  \* the life of a wrapper
    lock,     \* who holds Wrapper.mu
    managed,  \* Manager.proxies
    holder,   \* who holds Manager.mu
    todo,     \* what its holder has still to stop
    at,       \* progress of those who stop proxies
    checks    \* messages sent by checkWorkers so far

vars == <<conn, done, queue, sender, reader, wrapper, lock, managed, holder, todo, at, checks>>

(* worker; GracefulClose, called by the service; UpdateAll, on a reload *)
Closer  == {"worker", "close", "reload"}
Stage   == {"idle", "waiting", "looping", "finished"}

Init ==
    /\ conn = TRUE /\ done = FALSE
    /\ queue = 0 /\ sender = TRUE
    /\ reader = "reading"
    /\ wrapper = [x \in Wrapper |-> IF x \in Initial THEN "live" ELSE "unmade"]
    /\ lock = [x \in Wrapper |-> None]
    /\ managed = Initial
    /\ holder = None /\ todo = {}
    /\ at = [h \in Closer |-> "idle"]
    /\ checks = 0

(* Fault: the channel has no bound. *)
QueueAlways == queue' = queue + 1

Queue == queue < Cap /\ queue' = queue + 1

-----------------------------------------------------------------------------
(* The connection and the two loops of the dispatcher                      *)

(* The server goes away, or the heartbeat times out: closeSession. *)
ConnLost ==
    /\ conn /\ conn' = FALSE
    /\ UNCHANGED <<done, queue, sender, reader, wrapper, lock, managed, holder, todo, at, checks>>

(* WriteMsg; on an open connection it may block, on a closed one it fails. *)
Write ==
    /\ sender /\ queue > 0
    /\ queue' = queue - 1
    /\ UNCHANGED <<conn, done, sender, reader, wrapper, lock, managed, holder, todo, at, checks>>

(* Fault: sendLoop stops at the first connection error. *)
SenderExitsFirst ==
    /\ sender /\ ~conn
    /\ sender' = FALSE
    /\ UNCHANGED <<conn, done, queue, reader, wrapper, lock, managed, holder, todo, at, checks>>

SenderExits ==
    /\ sender /\ done
    /\ sender' = FALSE
    /\ UNCHANGED <<conn, done, queue, reader, wrapper, lock, managed, holder, todo, at, checks>>

ReadFails ==
    /\ reader = "reading" /\ ~conn
    /\ reader' = "exited" /\ done' = TRUE
    /\ UNCHANGED <<conn, queue, sender, wrapper, lock, managed, holder, todo, at, checks>>

(* handleNewProxyResp, in readLoop *)
ReadReply ==
    /\ reader = "reading" /\ conn
    /\ reader' = "lookup"
    /\ UNCHANGED <<conn, done, queue, sender, wrapper, lock, managed, holder, todo, at, checks>>

(* StartProxy: the wrapper, under the lock of the manager ... *)
Lookup ==
    /\ reader = "lookup" /\ holder = None
    /\ reader' \in managed \cup {"reading"}
    /\ UNCHANGED <<conn, done, queue, sender, wrapper, lock, managed, holder, todo, at, checks>>

(* ... SetRunningStatus, under its own lock; it sends CloseProxy when the  *)
(* proxy cannot run. *)
SetRunningStatus(x) ==
    /\ reader = x /\ lock[x] = None
    /\ \/ reader' = "reading" /\ UNCHANGED lock
       \/ wrapper[x] = "live" /\ lock' = [lock EXCEPT ![x] = "reader"] /\ UNCHANGED reader
    /\ UNCHANGED <<conn, done, queue, sender, wrapper, managed, holder, todo, at, checks>>

SendReply(x) ==
    /\ lock[x] = "reader"
    /\ Queue
    /\ lock' = [lock EXCEPT ![x] = None] /\ reader' = "reading"
    /\ UNCHANGED <<conn, done, sender, wrapper, managed, holder, todo, at, checks>>

-----------------------------------------------------------------------------
(* checkWorker of a wrapper: NewProxy, or CloseProxy on a failed health    *)
(* check, sent while it holds Wrapper.mu                                   *)

Check(x) ==
    /\ wrapper[x] = "live" /\ lock[x] = None /\ checks < MaxChecks
    /\ checks' = checks + 1
    /\ lock' = [lock EXCEPT ![x] = "check"]
    /\ UNCHANGED <<conn, done, queue, sender, reader, wrapper, managed, holder, todo, at>>

SendCheck(x) ==
    /\ lock[x] = "check"
    /\ Queue
    /\ lock' = [lock EXCEPT ![x] = None]
    /\ UNCHANGED <<conn, done, sender, reader, wrapper, managed, holder, todo, at, checks>>

-----------------------------------------------------------------------------
(* Manager.Close and Manager.UpdateAll                                     *)

(* The worker begins when the dispatcher is done, and closes the session.  *)
WorkerBegins ==
    /\ at["worker"] = "idle" /\ done
    /\ conn' = FALSE
    /\ at' = [at EXCEPT !["worker"] = "waiting"]
    /\ UNCHANGED <<done, queue, sender, reader, wrapper, lock, managed, holder, todo, checks>>

(* Service.stop, or the login that replaces this control; a reload. *)
OtherBegins(h) ==
    /\ h # "worker" /\ at[h] = "idle"
    /\ at' = [at EXCEPT ![h] = "waiting"]
    /\ UNCHANGED <<conn, done, queue, sender, reader, wrapper, lock, managed, holder, todo, checks>>

(* A reload stops the wrappers whose configuration changed, Close all. *)
LockManager(h) ==
    /\ at[h] = "waiting" /\ holder = None
    /\ holder' = h
    /\ \/ h = "reload" /\ todo' \in SUBSET managed
       \/ h # "reload" /\ todo' = managed
    /\ at' = [at EXCEPT ![h] = "looping"]
    /\ UNCHANGED <<conn, done, queue, sender, reader, wrapper, lock, managed, checks>>

(* Wrapper.Stop: close(closeCh) panics if it is done twice. *)
Stop(x) ==
    /\ holder # None /\ x \in todo /\ lock[x] = None
    /\ \A y \in Wrapper : lock[y] # "stop"
    /\ lock' = [lock EXCEPT ![x] = "stop"]
    /\ wrapper' = [wrapper EXCEPT ![x] = IF @ = "live" THEN "stopped" ELSE "panic"]
    /\ UNCHANGED <<conn, done, queue, sender, reader, managed, holder, todo, at, checks>>

(* Fault: the wrapper stays in the map of the manager. *)
SendStopKeeps(x) ==
    /\ lock[x] = "stop"
    /\ Queue
    /\ lock' = [lock EXCEPT ![x] = None]
    /\ todo' = todo \ {x}
    /\ UNCHANGED <<conn, done, sender, reader, wrapper, managed, holder, at, checks>>

(* Fault: the lock of the wrapper is not given back. *)
SendStopLocked(x) ==
    /\ lock[x] = "stop"
    /\ Queue
    /\ todo' = todo \ {x} /\ managed' = managed \ {x}
    /\ UNCHANGED <<conn, done, sender, reader, wrapper, lock, holder, at, checks>>

SendStop(x) ==
    /\ lock[x] = "stop"
    /\ Queue
    /\ lock' = [lock EXCEPT ![x] = None]
    /\ todo' = todo \ {x} /\ managed' = managed \ {x}
    /\ UNCHANGED <<conn, done, sender, reader, wrapper, holder, at, checks>>

(* Close empties the map; a reload makes and starts new wrappers. *)
Finish(h) ==
    /\ holder = h /\ todo = {}
    /\ holder' = None
    /\ at' = [at EXCEPT ![h] = "finished"]
    /\ \/ /\ h = "reload"
          /\ \E new \in SUBSET {x \in Wrapper : wrapper[x] = "unmade"} :
                /\ managed' = managed \cup new
                /\ wrapper' = [x \in Wrapper |-> IF x \in new THEN "live" ELSE wrapper[x]]
          /\ UNCHANGED conn
       \/ h # "reload" /\ conn' = FALSE /\ UNCHANGED <<managed, wrapper>>
    /\ UNCHANGED <<done, queue, sender, reader, lock, todo, checks>>

-----------------------------------------------------------------------------

Work ==
    \/ SenderExits \/ ReadFails \/ Lookup \/ WorkerBegins
    \/ \E x \in Wrapper : \/ SetRunningStatus(x) \/ SendReply(x)
                          \/ SendCheck(x) \/ Stop(x) \/ SendStop(x)
    \/ \E h \in Closer : LockManager(h) \/ Finish(h)

Next ==
    \/ ConnLost \/ Write \/ ReadReply
    \/ \E x \in Wrapper : Check(x)
    \/ \E h \in Closer : OtherBegins(h)
    \/ Work

(* Some goroutine that can go on does, and a write to a closed connection  *)
(* does not block.  As nothing here repeats for ever once the connection   *)
(* is closed, no fairness between goroutines is needed.                    *)
Fairness == WF_vars(Work \/ (Write /\ ~conn))

Spec == Init /\ [][Next]_vars

FairSpec == Spec /\ Fairness

-----------------------------------------------------------------------------
(* Correctness                                                             *)

TypeOK ==
    /\ conn \in BOOLEAN /\ done \in BOOLEAN /\ sender \in BOOLEAN
    /\ queue \in 0 .. Cap
    /\ reader \in Wrapper \cup {"reading", "lookup", "exited"}
    /\ wrapper \in [Wrapper -> {"unmade", "live", "stopped", "panic"}]
    /\ lock \in [Wrapper -> {"check", "reader", "stop", None}]
    /\ managed \subseteq Wrapper
    /\ holder \in Closer \cup {None}
    /\ todo \subseteq Wrapper
    /\ at \in [Closer -> Stage]
    /\ checks \in 0 .. MaxChecks

(* No wrapper is stopped twice, although the worker, the service and a     *)
(* reload may all stop the same proxies at the same time: the second close *)
(* of its channel would bring the whole client down.                       *)
StoppedOnce == \A x \in Wrapper : wrapper[x] # "panic"

(* The manager forgets a wrapper only when it is stopped; none is left     *)
(* running that nobody can stop any more.                                  *)
LiveIsManaged == \A x \in Wrapper : wrapper[x] = "live" => x \in managed

(* Once the connection is closed the dispatcher exits: readLoop is never   *)
(* stuck behind a lock whose holder waits for the channel, because         *)
(* sendLoop outlives it.                                                   *)
DispatcherExits == ~conn ~> done

Stuck == ~sender /\ queue = Cap

(* ... and so does the control, except in one case: the channel is full    *)
(* and sendLoop, which would empty it, is gone.                            *)
ExitsUnlessStuck == ~conn ~> (at["worker"] = "finished" \/ Stuck)

(* "Once conn is closed, the msgDispatcher and the entire Control will exit." *)
ControlExits == ~conn ~> at["worker"] = "finished"
=============================================================================
