--------------------------- MODULE WorkConnPool ---------------------------
(***************************************************************************)
(* frps: the pool of work connections of one control, from the request to  *)
(* the client (ReqWorkConn) over the connection it dials back              *)
(* (Service.RegisterWorkConn) to the user connection it carries            *)
(* (BaseProxy.handleUserTCPConnection).  server/control.go,                *)
(* server/service.go, server/proxy/proxy.go.                               *)
(*                                                                         *)
(* User connections and incoming work connections are goroutines of their  *)
(* own; they meet at the channel workConnCh, which the worker of the       *)
(* control closes and drains when the control connection is gone.          *)
(***************************************************************************)
EXTENDS Integers, FiniteSets

CONSTANTS User,       \* user connections
          Work,       \* work connections
          PoolCount,  \* ctl.poolCount: connections requested in advance
          Spare,      \* room in workConnCh beyond poolCount (10)
          SendCap,    \* room in the dispatcher's sendCh (100)
          NoWork

ASSUME PoolAssumption ==
    /\ PoolCount \in Nat /\ Spare \in Nat \ {0} /\ SendCap \in Nat \ {0}
    /\ NoWork \notin Work
    /\ IsFiniteSet(Work) /\ IsFiniteSet(User)

VARIABLES
    ctl,      \* the control: its dispatcher, its channel, its entry in the map
    workConn, \* where each work connection is
    alive,    \* has the client not yet closed its end?
    user,     \* where each user connection is
    due,      \* ReqWorkConn messages that Start has still to send
    outbox,   \* those in sendCh
    req,      \* those the client has got and not answered
    lost      \* how many of these brought none to the pool, while the control runs

sendVars == <<due, outbox>>

poolVars == <<ctl, workConn, alive, user, due, outbox, req, lost>>

Phase == {"running", "stopped", "draining", "done", "reaped"}
ConnPlace == {"none", "arrived", "found", "pooled", "lent", "started", "closed", "orphan"}
Stage == {"idle", "taking", "asking", "waiting", "got", "writing", "joined", "failed", "over"}
UserConn == [at : Stage, with : Work \cup {NoWork}, tries : 0 .. PoolCount + 1]

pool   == {k \in Work : workConn[k] = "pooled"}
ServedConn == {"arrived", "found", "pooled", "lent", "started"}
ChanOpen == ctl \in {"running", "stopped"}

PoolInit ==
    /\ ctl = "running"
    /\ workConn = [k \in Work |-> "none"]
    /\ alive = [k \in Work |-> TRUE]
    /\ user = [u \in User |-> [at |-> "idle", with |-> NoWork, tries |-> 0]]
    /\ due = PoolCount      \* the goroutine of Start
    /\ outbox = 0 /\ req = 0 /\ lost = 0

Move(k, place) == workConn' = [workConn EXCEPT ![k] = place]
Go(u, stage)   == user' = [user EXCEPT ![u].at = stage]
Lose           == lost' = IF ctl = "running" THEN lost + 1 ELSE lost

-----------------------------------------------------------------------------
(* The client                                                              *)

(* handleReqWorkConn: dial, send NewWorkConn ... *)
Dial(k) ==
    /\ req > 0 /\ workConn[k] = "none"
    /\ req' = req - 1
    /\ Move(k, "arrived")
    /\ UNCHANGED <<ctl, alive, user, lost, sendVars>>

(* ... unless it cannot. *)
DialFails ==
    /\ req > 0
    /\ req' = req - 1 /\ Lose
    /\ UNCHANGED <<ctl, workConn, alive, user, sendVars>>

PeerCloses(k) ==
    /\ workConn[k] \in ServedConn /\ alive[k]
    /\ alive' = [alive EXCEPT ![k] = FALSE]
    /\ UNCHANGED <<ctl, workConn, user, sendVars, req, lost>>

-----------------------------------------------------------------------------
(* The pool                                                                *)

(* Service.RegisterWorkConn finds the control under its run ID, and asks   *)
(* the plugins and the verifier.                                           *)
FindControl(k) ==
    /\ workConn[k] = "arrived" /\ ctl # "reaped"
    /\ Move(k, "found")
    /\ UNCHANGED <<ctl, alive, user, sendVars, req, lost>>

(* Not found, or refused. *)
Refuse(k) ==
    /\ workConn[k] = "arrived"
    /\ Move(k, "closed") /\ Lose
    /\ UNCHANGED <<ctl, alive, user, sendVars, req>>

(* Control.RegisterWorkConn: a select with a default. *)
Pool(k) ==
    /\ workConn[k] = "found" /\ ChanOpen
    /\ \/ Cardinality(pool) < PoolCount + Spare /\ Move(k, "pooled") /\ UNCHANGED lost
       \/ Cardinality(pool) = PoolCount + Spare /\ Move(k, "closed") /\ Lose
    /\ UNCHANGED <<ctl, alive, user, sendVars, req>>

(* Fault: a control that is over puts the connection in its pool. *)
PoolAfterEnd(k) ==
    /\ workConn[k] = "found" /\ ~ChanOpen
    /\ Move(k, "pooled")
    /\ UNCHANGED <<ctl, alive, user, sendVars, req, lost>>

(* The send on the closed channel panics; the panic is recovered, and the  *)
(* result is a nil error, so that handleConnection leaves the connection.  *)
PoolTooLate(k) ==
    /\ workConn[k] = "found" /\ ~ChanOpen
    /\ Move(k, "orphan")
    /\ UNCHANGED <<ctl, alive, user, sendVars, req, lost>>

(* msgDispatcher.Send of a ReqWorkConn: it waits while sendCh is full, and *)
(* may fail once the dispatcher is done.  Other messages share the         *)
(* channel; they only make Send wait sooner.                               *)
Queued   == outbox < SendCap /\ outbox' = outbox + 1
Rejected == ctl # "running" /\ UNCHANGED outbox

(* sendLoop writes the next one.  The write waits for a client that does   *)
(* not read, and goes nowhere once the connection is lost.                 *)
Transmit ==
    /\ outbox > 0 /\ outbox' = outbox - 1
    /\ req' = IF ctl = "running" THEN req + 1 ELSE req
    /\ UNCHANGED <<ctl, workConn, alive, user, due, lost>>

(* The goroutine of Start asks for the connections of the pool. *)
Advance ==
    /\ due > 0 /\ due' = due - 1
    /\ Queued \/ Rejected
    /\ UNCHANGED <<ctl, workConn, alive, user, req, lost>>

-----------------------------------------------------------------------------
(* User connections                                                        *)

Accept(u) ==
    /\ user[u].at = "idle" /\ ctl # "reaped"
    /\ Go(u, "taking")
    /\ UNCHANGED <<ctl, workConn, alive, sendVars, req, lost>>

(* Fault: the connection is looked at, but not taken out. *)
ReceivePeek(u, k) ==
    /\ UNCHANGED workConn
    /\ user' = [user EXCEPT ![u].at = "got", ![u].with = k]

Receive(u, k) ==
    /\ Move(k, "lent")
    /\ user' = [user EXCEPT ![u].at = "got", ![u].with = k]

(* GetWorkConn: one from the pool, if there is one ... *)
TakeNow(u) ==
    /\ user[u].at = "taking"
    /\ \E k \in pool : Receive(u, k)
    /\ UNCHANGED <<ctl, alive, sendVars, req, lost>>

(* ... or none: ErrCtlClosed, or a request is to be sent.  Until Send      *)
(* returns, the user sees nothing of the pool, and no timer runs.          *)
FindNone(u) ==
    /\ user[u].at = "taking" /\ pool = {}
    /\ Go(u, IF ChanOpen THEN "asking" ELSE "failed")
    /\ UNCHANGED <<ctl, workConn, alive, sendVars, req, lost>>

Ask(u) ==
    /\ user[u].at = "asking"
    /\ \/ Queued /\ Go(u, "waiting")
       \/ Rejected /\ Go(u, "failed")
    /\ UNCHANGED <<ctl, workConn, alive, due, req, lost>>

TakeLater(u) ==
    /\ user[u].at = "waiting"
    /\ \E k \in pool : Receive(u, k)
    /\ UNCHANGED <<ctl, alive, sendVars, req, lost>>

(* The channel is closed and empty. *)
WaitEnds(u) ==
    /\ user[u].at = "waiting" /\ pool = {} /\ ~ChanOpen
    /\ Go(u, "failed")
    /\ UNCHANGED <<ctl, workConn, alive, sendVars, req, lost>>

(* Fault: no timeout while the control runs. *)
TimeoutNever(u) ==
    /\ user[u].at = "waiting" /\ ctl # "running"
    /\ Go(u, "failed")
    /\ UNCHANGED <<ctl, workConn, alive, sendVars, req, lost>>

(* UserConnTimeout *)
Timeout(u) ==
    /\ user[u].at = "waiting"
    /\ Go(u, "failed")
    /\ UNCHANGED <<ctl, workConn, alive, sendVars, req, lost>>

(* Fault: nothing is requested for a connection taken from the pool. *)
ReplaceNone(u) ==
    /\ user[u].at = "got"
    /\ Go(u, "writing")
    /\ UNCHANGED <<ctl, workConn, alive, sendVars, req, lost>>

(* "When we get a work connection from pool, replace it with a new one." *)
Replace(u) ==
    /\ user[u].at = "got"
    /\ Queued \/ Rejected
    /\ Go(u, "writing")
    /\ UNCHANGED <<ctl, workConn, alive, due, req, lost>>

(* GetWorkConnFromPool writes StartWorkConn; to a connection the client    *)
(* has closed the write may still succeed.                                 *)
StartWork(u) ==
    /\ user[u].at = "writing"
    /\ Move(user[u].with, "started")
    /\ Go(u, "joined")
    /\ UNCHANGED <<ctl, alive, sendVars, req, lost>>

(* The error of the write shadows the one the loop is followed by: after   *)
(* the last try the caller gets the connection just closed, and no error.  *)
StartFails(u) ==
    LET tries == user[u].tries + 1
    IN  /\ user[u].at = "writing" /\ ~alive[user[u].with]
        /\ Move(user[u].with, "closed")
        /\ \/ /\ tries <= PoolCount
              /\ user' = [user EXCEPT ![u] = [at |-> "taking", with |-> NoWork, tries |-> tries]]
           \/ /\ tries > PoolCount
              /\ user' = [user EXCEPT ![u].at = "joined", ![u].tries = tries]
        /\ UNCHANGED <<ctl, alive, sendVars, req, lost>>

(* Join returns; both connections are closed. *)
Leave(u) ==
    /\ user[u].at = "joined"
    /\ Move(user[u].with, "closed")
    /\ Go(u, "over")
    /\ UNCHANGED <<ctl, alive, sendVars, req, lost>>

-----------------------------------------------------------------------------
(* The end of the control                                                  *)

Disconnect ==
    /\ ctl = "running"
    /\ ctl' = "stopped" /\ req' = 0 /\ lost' = 0
    /\ UNCHANGED <<workConn, alive, user, sendVars>>

CloseChan ==
    /\ ctl = "stopped" /\ ctl' = "draining"
    /\ UNCHANGED <<workConn, alive, user, sendVars, req, lost>>

Drain(k) ==
    /\ ctl = "draining" /\ workConn[k] = "pooled"
    /\ Move(k, "closed")
    /\ UNCHANGED <<ctl, alive, user, sendVars, req, lost>>

WorkerDone ==
    /\ ctl = "draining" /\ pool = {}
    /\ ctl' = "done"
    /\ UNCHANGED <<workConn, alive, user, sendVars, req, lost>>

(* ControlManager.Del, some time after. *)
ForgetControl ==
    /\ ctl = "done" /\ ctl' = "reaped"
    /\ UNCHANGED <<workConn, alive, user, sendVars, req, lost>>

-----------------------------------------------------------------------------

Handle(k) == FindControl(k) \/ Refuse(k) \/ Pool(k) \/ PoolTooLate(k)

Serve(u) ==
    \/ TakeNow(u) \/ FindNone(u) \/ Ask(u) \/ TakeLater(u) \/ WaitEnds(u) \/ Timeout(u)
    \/ Replace(u) \/ StartWork(u) \/ StartFails(u)

PoolNext ==
    \/ DialFails \/ Transmit \/ Advance
    \/ \E k \in Work : Dial(k) \/ PeerCloses(k) \/ Handle(k) \/ Drain(k)
    \/ \E u \in User : Accept(u) \/ Serve(u) \/ Leave(u)
    \/ Disconnect \/ CloseChan \/ WorkerDone \/ ForgetControl

PoolSpec == PoolInit /\ [][PoolNext]_poolVars

(* The goroutine of a user connection runs on when it can; UserConnTimeout *)
(* is a timer.                                                             *)
PoolFairness == \A u \in User : WF_poolVars(Serve(u))

PoolFairSpec == PoolSpec /\ PoolFairness

(* The client reads what it is sent, so that sendLoop gets on.  Nothing in *)
(* the server makes it: with tcpMux no heartbeat ends a control whose      *)
(* client does not read.                                                   *)
ReadingSpec == PoolFairSpec /\ WF_poolVars(Transmit)

-----------------------------------------------------------------------------
(* Correctness                                                             *)

PoolTypeOK ==
    /\ ctl \in Phase
    /\ workConn \in [Work -> ConnPlace]
    /\ alive \in [Work -> BOOLEAN]
    /\ user \in [User -> UserConn]
    /\ due \in Nat /\ outbox \in 0 .. SendCap /\ req \in Nat /\ lost \in Nat

Carries(u, k) == user[u].at \in {"got", "writing", "joined"} /\ user[u].with = k

(* A work connection carries at most one user connection, and while it is  *)
(* lent to a user no one else can take it from the pool or drain it.       *)
OneUser ==
    \A k \in Work :
        /\ \A u, v \in User : Carries(u, k) /\ Carries(v, k) => u = v
        /\ workConn[k] = "lent" <=> \E u \in User : user[u].at \in {"got", "writing"} /\ Carries(u, k)

Waiting  == {u \in User : user[u].at = "waiting"}
Arriving == {k \in Work : workConn[k] \in {"arrived", "found"}}
Unpaid   == {u \in User : user[u].at = "got"}
Requests == due + outbox + req

(* While the control runs, the requests and the connections on their way,  *)
(* counting those that were lost, suffice for all the waiting users and    *)
(* the pool: taking another's connection from the pool always asks for one *)
(* in return.                                                              *)
SupplyMeetsDemand ==
    ctl = "running" =>
        Requests + Cardinality(Arriving) + Cardinality(pool) + lost + Cardinality(Unpaid)
            >= PoolCount + Cardinality(Waiting)

(* An open connection always has somebody who will close it: its handler,  *)
(* the pool, or its user.  Only the connections whose handler found the    *)
(* control before, and the channel closed after, escape.                   *)
NoneForgotten ==
    \A k \in Work :
        /\ workConn[k] = "pooled" => ctl \notin {"done", "reaped"}
        /\ workConn[k] = "orphan" => ~ChanOpen
        /\ workConn[k] \in {"lent", "started"} => \E u \in User : Carries(u, k)

(* Every user connection gets a work connection or is given up, whatever   *)
(* becomes of the connections the client opens and whenever the control    *)
(* ends, for a client that reads its control connection.                   *)
UsersAnswered ==
    \A u \in User : user[u].at = "taking" ~> user[u].at \in {"joined", "failed"}

(* "we immediately send the StartWorkConn message to frpc after take out   *)
(* one from pool": a user is joined to a connection that got it.           *)
JoinedToStarted ==
    \A u \in User : user[u].at = "joined" => workConn[user[u].with] = "started"

-----------------------------------------------------------------------------
(* The abstract specification.                                             *)

(* What a user has been handed: nothing yet, nothing any more, or the      *)
(* connection that it carries.                                             *)
Handed == [u \in User |-> IF user[u].at \in {"got", "writing", "joined"} THEN user[u].with ELSE NoWork]

Handout == INSTANCE ConnHandout WITH
    Room  <- PoolCount + Spare,
    stock <- pool,
    has   <- Handed,
    gone  <- {u \in User : user[u].at \in {"failed", "over"}},
    spent <- {k \in Work : workConn[k] \in {"closed", "orphan"} /\ \A u \in User : Handed[u] # k},
    open  <- ChanOpen

(* Whatever the interleaving of users, arrivals and the end of the         *)
(* control, a work connection is handed out once, to one user.             *)
ImplementsHandout == Handout!Spec
=============================================================================
