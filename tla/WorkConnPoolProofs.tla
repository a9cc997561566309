------------------------ MODULE WorkConnPoolProofs ------------------------
(* Theorems about WorkConnPool, for any users, connections and pool sizes. *)
EXTENDS WorkConnPool, TLAPS, FiniteSetTheorems

-----------------------------------------------------------------------------
(* Types.                                                                  *)

Lent == {"got", "writing", "joined"}

(* A user in a stage that has a connection has one, and the retries of     *)
(* GetWorkConnFromPool end.                                                *)
Stages ==
    \A u \in User :
        /\ user[u].at \in Lent => user[u].with \in Work
        /\ user[u].at \notin {"joined", "over"} => user[u].tries <= PoolCount

(* The conversation of one user changes at most that user's record. *)
LEMMA UserType ==
  ASSUME PoolTypeOK, NEW u \in User, NEW r \in UserConn, user' = [user EXCEPT ![u] = r]
  PROVE  /\ user' \in [User -> UserConn]
         /\ user'[u] = r
         /\ \A v \in User : v # u => user'[v] = user[v]
  BY DEF PoolTypeOK

LEMMA GoType ==
  ASSUME PoolTypeOK, NEW u \in User, NEW s \in Stage, Go(u, s)
  PROVE  /\ user' \in [User -> UserConn]
         /\ user'[u].at = s /\ user'[u].with = user[u].with /\ user'[u].tries = user[u].tries
         /\ \A v \in User : v # u => user'[v] = user[v]
<1>1. user[u] \in UserConn
  BY DEF PoolTypeOK
<1>2. [user[u] EXCEPT !.at = s] \in UserConn
  BY <1>1 DEF UserConn
<1>3. QED
  BY <1>1, <1>2 DEF PoolTypeOK, Go, UserConn

LEMMA MoveType ==
  ASSUME PoolTypeOK, NEW k \in Work, NEW p \in ConnPlace, Move(k, p)
  PROVE  /\ workConn' \in [Work -> ConnPlace]
         /\ workConn'[k] = p
         /\ \A j \in Work : j # k => workConn'[j] = workConn[j]
  BY DEF PoolTypeOK, Move

LEMMA ReceiveType ==
  ASSUME PoolTypeOK, NEW u \in User, NEW k \in Work, Receive(u, k)
  PROVE  /\ user' \in [User -> UserConn] /\ workConn' \in [Work -> ConnPlace]
         /\ user'[u].at = "got" /\ user'[u].with = k /\ user'[u].tries = user[u].tries
         /\ \A v \in User : v # u => user'[v] = user[v]
         /\ workConn'[k] = "lent"
         /\ \A j \in Work : j # k => workConn'[j] = workConn[j]
<1>1. user[u] \in UserConn
  BY DEF PoolTypeOK
<1>2. [user[u] EXCEPT !.at = "got", !.with = k] \in UserConn
  BY <1>1 DEF UserConn, Stage
<1>3. Move(k, "lent") /\ "lent" \in ConnPlace
  BY DEF Receive, ConnPlace
<1>4. workConn' \in [Work -> ConnPlace] /\ workConn'[k] = "lent" /\ \A j \in Work : j # k => workConn'[j] = workConn[j]
  BY <1>3, MoveType
<1>5. user' = [user EXCEPT ![u] = [user[u] EXCEPT !.at = "got", !.with = k]]
  BY DEF Receive, PoolTypeOK
<1>6. QED
  BY <1>1, <1>2, <1>4, <1>5 DEF PoolTypeOK, UserConn

LEMMA SendType ==
  ASSUME PoolTypeOK, Queued \/ Rejected
  PROVE  outbox' \in 0 .. SendCap /\ (ctl = "running" => outbox' = outbox + 1)
  BY PoolAssumption DEF PoolTypeOK, Queued, Rejected

(* StartFails in its two forms. *)
LEMMA StartFailsType ==
  ASSUME PoolTypeOK, Stages, NEW u \in User, StartFails(u)
  PROVE  /\ user' \in [User -> UserConn] /\ workConn' \in [Work -> ConnPlace]
         /\ \A v \in User : v # u => user'[v] = user[v]
         /\ user[u].at = "writing" /\ user[u].with \in Work
         /\ workConn'[user[u].with] = "closed"
         /\ \A j \in Work : j # user[u].with => workConn'[j] = workConn[j]
         /\ \/ user'[u].at = "taking" /\ user'[u].tries <= PoolCount
            \/ user'[u].at = "joined" /\ user'[u].with = user[u].with
<1> DEFINE t == user[u].tries + 1
<1>1. /\ user[u] \in UserConn /\ user[u].at = "writing" /\ user[u].with \in Work
      /\ t \in 0 .. PoolCount + 1
  BY PoolAssumption DEF PoolTypeOK, Stages, StartFails, UserConn, Lent
<1>2. Move(user[u].with, "closed") /\ "closed" \in ConnPlace
  BY DEF StartFails, ConnPlace
<1>3. /\ workConn' \in [Work -> ConnPlace] /\ workConn'[user[u].with] = "closed"
      /\ \A j \in Work : j # user[u].with => workConn'[j] = workConn[j]
  BY <1>1, <1>2, MoveType
<1>4. CASE t <= PoolCount /\ user' = [user EXCEPT ![u] = [at |-> "taking", with |-> NoWork, tries |-> t]]
  <2>1. [at |-> "taking", with |-> NoWork, tries |-> t] \in UserConn
    BY <1>1 DEF UserConn, Stage
  <2>2. QED
    BY <1>1, <1>3, <1>4, <2>1, UserType
<1>5. CASE user' = [user EXCEPT ![u].at = "joined", ![u].tries = t]
  <2>1. [user[u] EXCEPT !.at = "joined", !.tries = t] \in UserConn
    BY <1>1 DEF UserConn, Stage
  <2>2. user' = [user EXCEPT ![u] = [user[u] EXCEPT !.at = "joined", !.tries = t]]
    BY <1>5 DEF PoolTypeOK
  <2>3. user'[u] = [user[u] EXCEPT !.at = "joined", !.tries = t] /\ user' \in [User -> UserConn]
        /\ \A v \in User : v # u => user'[v] = user[v]
    BY <2>1, <2>2, UserType
  <2>4. user'[u].at = "joined" /\ user'[u].with = user[u].with
    BY <1>1, <2>3 DEF UserConn
  <2>5. QED
    BY <1>1, <1>3, <2>3, <2>4
<1>6. QED
  BY <1>4, <1>5 DEF StartFails

(* What the steps of a user do to that user: the stages from which and to  *)
(* which they lead. *)
Steps(u) ==
    /\ user' \in [User -> UserConn]
    /\ \A v \in User : v # u => user'[v] = user[v]
    /\ user'[u].at \in Lent => user'[u].with \in Work
    /\ user'[u].at \notin {"joined", "over"} => user'[u].tries <= PoolCount

LEMMA ServeSteps ==
  ASSUME PoolTypeOK, Stages, NEW u \in User, Serve(u) \/ Accept(u) \/ Leave(u)
  PROVE  Steps(u)
<1>1. \A s \in Stage : Go(u, s) /\ user[u].at \notin {"joined", "over"}
                          /\ (s \in Lent => user[u].at \in Lent) => Steps(u)
  BY GoType DEF Steps, Stages
<1>2. CASE TakeNow(u) \/ TakeLater(u)
  <2>1. PICK k \in pool : Receive(u, k)
    BY <1>2 DEF TakeNow, TakeLater
  <2>2. k \in Work
    BY DEF pool
  <2>3. user[u].tries <= PoolCount
    BY <1>2 DEF TakeNow, TakeLater, Stages
  <2>4. QED
    BY <2>1, <2>2, <2>3, ReceiveType DEF Steps
<1>3. CASE FindNone(u) \/ Ask(u) \/ WaitEnds(u) \/ Timeout(u) \/ Accept(u) \/ Replace(u) \/ StartWork(u)
  <2>1. PICK s \in Stage : /\ Go(u, s) /\ user[u].at \notin {"joined", "over"}
                           /\ s \in Lent => user[u].at \in Lent
    BY <1>3 DEF FindNone, Ask, WaitEnds, Timeout, Accept, Replace, StartWork, Stage, Lent
  <2>2. QED
    BY <1>1, <2>1
<1>4. CASE StartFails(u)
  BY <1>4, StartFailsType DEF Steps, Lent
<1>5. CASE Leave(u)
  <2>1. Go(u, "over") /\ "over" \in Stage /\ "over" \notin Lent
    BY <1>5 DEF Leave, Stage, Lent
  <2>2. QED
    BY <2>1, GoType DEF Steps
<1>6. QED
  BY <1>2, <1>3, <1>4, <1>5 DEF Serve

LEMMA ServeType ==
  ASSUME PoolTypeOK, Stages, NEW u \in User, Serve(u) \/ Accept(u) \/ Leave(u)
  PROVE  PoolTypeOK'
<1>1. user' \in [User -> UserConn]
  BY ServeSteps DEF Steps
<1>2. UNCHANGED <<ctl, alive, due, req, lost>>
  BY DEF sendVars, Serve, TakeNow, TakeLater, FindNone, Ask, WaitEnds, Timeout, Accept, Replace, StartWork,
         StartFails, Leave
<1>3. outbox' \in 0 .. SendCap
  <2>1. CASE Queued \/ Rejected
    BY <2>1, SendType
  <2>2. CASE UNCHANGED outbox
    BY <2>2 DEF PoolTypeOK
  <2>3. QED
    BY <2>1, <2>2 DEF sendVars, Serve, TakeNow, TakeLater, FindNone, Ask, WaitEnds, Timeout, Accept, Replace,
                      StartWork, StartFails, Leave
<1>4. workConn' \in [Work -> ConnPlace]
  <2>1. CASE TakeNow(u) \/ TakeLater(u)
    <3>1. PICK k \in pool : Receive(u, k)
      BY <2>1 DEF TakeNow, TakeLater
    <3>2. k \in Work
      BY DEF pool
    <3>3. QED
      BY <3>1, <3>2, ReceiveType
  <2>2. CASE StartFails(u)
    BY <2>2, StartFailsType
  <2>3. CASE StartWork(u) \/ Leave(u)
    BY <2>3 DEF StartWork, Leave, Move, PoolTypeOK, ConnPlace
  <2>4. CASE UNCHANGED workConn
    BY <2>4 DEF PoolTypeOK
  <2>5. QED
    BY <2>1, <2>2, <2>3, <2>4 DEF Serve, FindNone, Ask, WaitEnds, Timeout, Accept, Replace
<1>5. QED
  BY <1>1, <1>2, <1>3, <1>4 DEF PoolTypeOK

LEMMA HandleType ==
  ASSUME PoolTypeOK, NEW k \in Work, Handle(k) \/ Dial(k) \/ Drain(k) \/ PeerCloses(k)
  PROVE  PoolTypeOK' /\ UNCHANGED user
<1>1. workConn' \in [Work -> ConnPlace]
  BY DEF Handle, FindControl, Refuse, Pool, PoolTooLate, Dial, Drain, PeerCloses, Move,
         PoolTypeOK, ConnPlace
<1>2. req' \in Nat /\ lost' \in Nat
  BY DEF Handle, FindControl, Refuse, Pool, PoolTooLate, Dial, Drain, PeerCloses, PoolTypeOK, Lose
<1>3. alive' \in [Work -> BOOLEAN]
  BY DEF Handle, FindControl, Refuse, Pool, PoolTooLate, Dial, Drain, PeerCloses, PoolTypeOK
<1>4. UNCHANGED <<ctl, user, due, outbox>>
  BY DEF sendVars, Handle, FindControl, Refuse, Pool, PoolTooLate, Dial, Drain, PeerCloses
<1>5. QED
  BY <1>1, <1>2, <1>3, <1>4 DEF PoolTypeOK

(* What happens to no user and no connection: the requests on their way,   *)
(* and the end of the control.                                             *)
Sending == DialFails \/ Transmit \/ Advance

Ending == Sending \/ Disconnect \/ CloseChan \/ WorkerDone \/ ForgetControl

LEMMA EndingType ==
  ASSUME PoolTypeOK, Ending
  PROVE  PoolTypeOK' /\ UNCHANGED <<workConn, user>>
<1>1. CASE DialFails \/ Transmit
  BY <1>1, PoolAssumption DEF PoolTypeOK, DialFails, Transmit, Lose, sendVars
<1>2. CASE Advance
  BY <1>2, SendType DEF PoolTypeOK, Advance
<1>3. CASE Disconnect \/ CloseChan \/ WorkerDone \/ ForgetControl
  BY <1>3 DEF PoolTypeOK, Disconnect, CloseChan, WorkerDone, ForgetControl, Phase, sendVars
<1>4. QED
  BY <1>1, <1>2, <1>3 DEF Ending, Sending

(* Next, by who takes the step. *)
LEMMA NextCases ==
  ASSUME [PoolNext]_poolVars
  PROVE  \/ \E u \in User : Serve(u) \/ Accept(u) \/ Leave(u)
         \/ \E k \in Work : Handle(k) \/ Dial(k) \/ Drain(k) \/ PeerCloses(k)
         \/ Ending
         \/ UNCHANGED poolVars
  BY DEF PoolNext, Ending, Sending

LEMMA TypeStep == PoolTypeOK /\ Stages /\ [PoolNext]_poolVars => PoolTypeOK' /\ Stages'
<1> SUFFICES ASSUME PoolTypeOK, Stages, [PoolNext]_poolVars PROVE PoolTypeOK' /\ Stages'
  OBVIOUS
<1>1. ASSUME NEW u \in User, Serve(u) \/ Accept(u) \/ Leave(u) PROVE PoolTypeOK' /\ Stages'
  BY <1>1, ServeType, ServeSteps DEF Steps, Stages
<1>2. ASSUME NEW k \in Work, Handle(k) \/ Dial(k) \/ Drain(k) \/ PeerCloses(k)
      PROVE  PoolTypeOK' /\ Stages'
  BY <1>2, HandleType DEF Stages
<1>3. CASE Ending
  BY <1>3, EndingType DEF Stages
<1>4. CASE UNCHANGED poolVars
  BY <1>4 DEF poolVars, PoolTypeOK, Stages
<1>5. QED
  BY <1>1, <1>2, <1>3, <1>4, NextCases

LEMMA PoolTypes == PoolSpec => [](PoolTypeOK /\ Stages)
<1>1. PoolInit => PoolTypeOK /\ Stages
  BY PoolAssumption DEF PoolInit, PoolTypeOK, Stages, Phase, ConnPlace, UserConn, Stage, Lent
<1>2. QED
  BY <1>1, TypeStep, PTL DEF PoolSpec

(* Every variable keeps its type: no request is answered twice, and a user *)
(* never tries more often than GetWorkConnFromPool allows.                 *)
THEOREM PoolTyped == PoolSpec => []PoolTypeOK
  BY PoolTypes, PTL

-----------------------------------------------------------------------------
(* Who has a connection.                                                   *)
(*                                                                         *)
(* Beyond OneUser and NoneForgotten: a connection that was started belongs *)
(* to the user it was started for, and a user that joined one keeps one    *)
(* that is started or, after the last failed try, closed.                  *)

JoinedTo(u, k) == user[u].at = "joined" /\ user[u].with = k

Lending ==
    /\ \A u \in User, k \in Work : JoinedTo(u, k) => workConn[k] \in {"started", "closed"}
    /\ \A k \in Work : workConn[k] = "started" => \E u \in User : JoinedTo(u, k)
    /\ OneUser

(* A connection in the pool is nobody's, and one that a user carries is in *)
(* no other place than the user's. *)
LEMMA NobodysOrOnes ==
  ASSUME Lending
  PROVE  /\ \A u \in User, k \in Work : Carries(u, k) => workConn[k] \in {"lent", "started", "closed"}
         /\ \A u, v \in User, k \in Work : Carries(u, k) /\ Carries(v, k) => u = v
  BY DEF Lending, OneUser, JoinedTo, Carries

(* Steps at connections that no user carries, to places in which no user   *)
(* carries one. *)
LEMMA LendingKept ==
  ASSUME PoolTypeOK, Lending, UNCHANGED user,
         \A k \in Work : \/ workConn'[k] = workConn[k]
                         \/ /\ workConn[k] \notin {"lent", "started", "closed"}
                            /\ workConn'[k] \notin {"lent", "started"}
  PROVE  Lending'
<1>1. \A u \in User, k \in Work : Carries(u, k)' <=> Carries(u, k)
  BY DEF Carries
<1>2. \A k \in Work : workConn'[k] \in {"lent", "started"} => workConn'[k] = workConn[k]
  OBVIOUS
<1>3. \A k \in Work : workConn[k] \in {"lent", "started", "closed"} => workConn'[k] = workConn[k]
  OBVIOUS
<1>4. QED
  BY <1>1, <1>2, <1>3 DEF Lending, OneUser, JoinedTo, Carries

LEMMA LendingReceive ==
  ASSUME PoolTypeOK, Lending, NEW u \in User, NEW k \in pool, Receive(u, k),
         user[u].at \in {"taking", "waiting"}
  PROVE  Lending'
<1>1. k \in Work /\ workConn[k] = "pooled"
  BY DEF pool
<1>2. /\ user'[u].at = "got" /\ user'[u].with = k
      /\ \A v \in User : v # u => user'[v] = user[v]
      /\ workConn'[k] = "lent"
      /\ \A j \in Work : j # k => workConn'[j] = workConn[j]
  BY <1>1, ReceiveType
<1>3. \A v \in User : ~Carries(v, k)
  BY <1>1, NobodysOrOnes
<1>4. \A j \in Work : ~Carries(u, j)
  BY DEF Carries
<1>5. \A v \in User, j \in Work : Carries(v, j)' <=> (v = u /\ j = k) \/ Carries(v, j)
  BY <1>2, <1>4 DEF Carries
<1>6. OneUser'
  BY <1>1, <1>2, <1>3, <1>4, <1>5 DEF Lending, OneUser, Carries
<1>7. \A v \in User, j \in Work : JoinedTo(v, j)' <=> JoinedTo(v, j)
  BY <1>2 DEF JoinedTo
<1>8. \A v \in User : ~JoinedTo(v, k)
  BY <1>3 DEF JoinedTo, Carries
<1>9. QED
  BY <1>1, <1>2, <1>6, <1>7, <1>8 DEF Lending

(* A user that carries nothing goes to a stage in which it carries nothing. *)
LEMMA LendingIdle ==
  ASSUME PoolTypeOK, Lending, NEW u \in User, Steps(u), UNCHANGED workConn,
         user[u].at \notin Lent, user'[u].at \notin Lent
  PROVE  Lending'
<1>1. \A v \in User : v # u => user'[v] = user[v]
  BY DEF Steps
<1>2. \A v \in User, j \in Work : /\ Carries(v, j)' <=> Carries(v, j)
                                  /\ JoinedTo(v, j)' <=> JoinedTo(v, j)
  BY <1>1 DEF Carries, JoinedTo, Lent
<1>3. \A v \in User : user'[v].at \in {"got", "writing"} <=> user[v].at \in {"got", "writing"}
  BY <1>1 DEF Lent
<1>4. QED
  BY <1>2, <1>3 DEF Lending, OneUser

LEMMA LendingServe ==
  ASSUME PoolTypeOK, Stages, Lending, NEW u \in User, Serve(u) \/ Accept(u) \/ Leave(u)
  PROVE  Lending'
<1> DEFINE k == user[u].with
<1>0. \A v \in User : v # u => user'[v] = user[v]
  BY ServeSteps DEF Steps
<1>1. CASE TakeNow(u) \/ TakeLater(u)
  BY <1>1, LendingReceive DEF TakeNow, TakeLater
<1>2. CASE FindNone(u) \/ Ask(u) \/ WaitEnds(u) \/ Timeout(u) \/ Accept(u)
  <2>1. PICK s \in Stage \ Lent : Go(u, s) /\ user[u].at \notin Lent /\ UNCHANGED workConn
    BY <1>2 DEF FindNone, Ask, WaitEnds, Timeout, Accept, Stage, Lent
  <2>2. user'[u].at \notin Lent
    BY <2>1, GoType
  <2>3. QED
    BY <2>1, <2>2, ServeSteps, LendingIdle
<1>3. CASE Replace(u)
  <2>1. /\ user[u].at = "got" /\ user'[u].at = "writing" /\ user'[u].with = k
        /\ UNCHANGED workConn
    BY <1>3, GoType DEF Replace, Stage
  <2>2. \A v \in User, j \in Work : /\ Carries(v, j)' <=> Carries(v, j)
                                    /\ JoinedTo(v, j)' <=> JoinedTo(v, j)
    BY <1>0, <2>1 DEF Carries, JoinedTo
  <2>3. \A v \in User : user'[v].at \in {"got", "writing"} <=> user[v].at \in {"got", "writing"}
    BY <1>0, <2>1
  <2>4. QED
    BY <2>1, <2>2, <2>3 DEF Lending, OneUser
<1>4. CASE StartWork(u)
  <2>1. /\ user[u].at = "writing" /\ k \in Work
        /\ Go(u, "joined") /\ "joined" \in Stage /\ Move(k, "started") /\ "started" \in ConnPlace
    BY <1>4 DEF StartWork, Stages, Lent, Stage, ConnPlace
  <2>2. /\ user'[u].at = "joined" /\ user'[u].with = k
        /\ workConn'[k] = "started" /\ \A j \in Work : j # k => workConn'[j] = workConn[j]
    BY <2>1, GoType, MoveType
  <2>3. Carries(u, k) /\ \A v \in User : Carries(v, k) => v = u
    BY <2>1, NobodysOrOnes DEF Carries
  <2>4. \A v \in User, j \in Work : /\ Carries(v, j)' <=> Carries(v, j)
                                    /\ JoinedTo(v, j)' <=> JoinedTo(v, j) \/ (v = u /\ j = k)
    BY <1>0, <2>1, <2>2 DEF Carries, JoinedTo
  <2>5. OneUser'
    BY <1>0, <2>1, <2>2, <2>3, <2>4 DEF Lending, OneUser, Carries
  <2>6. QED
    BY <2>1, <2>2, <2>4, <2>5 DEF Lending
<1>5. CASE StartFails(u)
  <2>1. /\ user[u].at = "writing" /\ k \in Work
        /\ workConn'[k] = "closed" /\ \A j \in Work : j # k => workConn'[j] = workConn[j]
        /\ \/ user'[u].at = "taking"
           \/ user'[u].at = "joined" /\ user'[u].with = k
    BY <1>5, StartFailsType
  <2>2. Carries(u, k) /\ \A v \in User : Carries(v, k) => v = u
    BY <2>1, NobodysOrOnes DEF Carries
  <2>3. \A v \in User, j \in Work : j # k => /\ Carries(v, j)' <=> Carries(v, j)
                                             /\ JoinedTo(v, j)' <=> JoinedTo(v, j)
    BY <1>0, <2>1 DEF Carries, JoinedTo
  <2>4. \A v \in User, j \in Work : j = k /\ Carries(v, j)' => v = u
    BY <1>0, <2>2 DEF Carries
  <2>5. OneUser'
    BY <1>0, <2>1, <2>2, <2>3, <2>4 DEF Lending, OneUser, Carries
  <2>6. QED
    BY <2>1, <2>3, <2>5 DEF Lending
<1>6. CASE Leave(u)
  <2>1. /\ user[u].at = "joined" /\ k \in Work
        /\ Go(u, "over") /\ "over" \in Stage /\ Move(k, "closed") /\ "closed" \in ConnPlace
    BY <1>6 DEF Leave, Stages, Lent, Stage, ConnPlace
  <2>2. /\ user'[u].at = "over" /\ user'[u].with = k
        /\ workConn'[k] = "closed" /\ \A j \in Work : j # k => workConn'[j] = workConn[j]
    BY <2>1, GoType, MoveType
  <2>3. \A v \in User : Carries(v, k) => v = u
    BY <2>1, NobodysOrOnes DEF Carries
  <2>4. \A v \in User, j \in Work : j # k => /\ Carries(v, j)' <=> Carries(v, j)
                                             /\ JoinedTo(v, j)' <=> JoinedTo(v, j)
    BY <1>0, <2>1, <2>2 DEF Carries, JoinedTo
  <2>5. \A v \in User : ~Carries(v, k)'
    BY <1>0, <2>2, <2>3 DEF Carries
  <2>6. OneUser'
    BY <1>0, <2>1, <2>2, <2>4, <2>5 DEF Lending, OneUser, Carries
  <2>7. QED
    BY <2>1, <2>2, <2>4, <2>5, <2>6 DEF Lending, JoinedTo, Carries
<1>7. QED
  BY <1>1, <1>2, <1>3, <1>4, <1>5, <1>6 DEF Serve

LEMMA LendingStep == PoolTypeOK /\ Stages /\ Lending /\ [PoolNext]_poolVars => Lending'
<1> SUFFICES ASSUME PoolTypeOK, Stages, Lending, [PoolNext]_poolVars PROVE Lending'
  OBVIOUS
<1>1. ASSUME NEW k \in Work, Handle(k) \/ Dial(k) \/ Drain(k) \/ PeerCloses(k) PROVE Lending'
  <2>1. \A j \in Work : \/ workConn'[j] = workConn[j]
                        \/ /\ workConn[j] \notin {"lent", "started", "closed"}
                           /\ workConn'[j] \notin {"lent", "started"}
    BY <1>1 DEF Handle, FindControl, Refuse, Pool, PoolTooLate, Dial, Drain, PeerCloses, Move, PoolTypeOK
  <2>2. QED
    BY <1>1, <2>1, HandleType, LendingKept
<1>2. CASE Ending
  BY <1>2, EndingType, LendingKept
<1>3. CASE UNCHANGED poolVars
  BY <1>3, LendingKept DEF poolVars
<1>4. QED
  BY <1>1, <1>2, <1>3, LendingServe, NextCases

LEMMA LendingInvariant == PoolSpec => []Lending
<1>1. PoolInit => Lending
  BY DEF PoolInit, Lending, OneUser, Carries, JoinedTo
<1>2. QED
  BY <1>1, LendingStep, PoolTypes, PTL DEF PoolSpec

(* A work connection is joined to at most one user connection, and while   *)
(* GetWorkConnFromPool has it nobody else can take it.                     *)
THEOREM OneUserEach == PoolSpec => []OneUser
  BY LendingInvariant, PTL DEF Lending

-----------------------------------------------------------------------------
(* The end of the control.                                                 *)

ChannelInv ==
    \A k \in Work : /\ workConn[k] = "pooled" => ctl \notin {"done", "reaped"}
                    /\ workConn[k] = "orphan" => ~ChanOpen

LEMMA ChannelStep == PoolTypeOK /\ Stages /\ ChannelInv /\ [PoolNext]_poolVars => ChannelInv'
<1> SUFFICES ASSUME PoolTypeOK, Stages, ChannelInv, [PoolNext]_poolVars PROVE ChannelInv'
  OBVIOUS
<1>1. ASSUME NEW u \in User, Serve(u) \/ Accept(u) \/ Leave(u) PROVE ChannelInv'
  <2>1. ctl' = ctl
    BY <1>1 DEF Serve, TakeNow, TakeLater, FindNone, Ask, WaitEnds, Timeout, Accept, Replace, StartWork,
                StartFails, Leave
  <2>2. \A k \in Work : workConn'[k] \in {"pooled", "orphan"} => workConn'[k] = workConn[k]
    BY <1>1 DEF Serve, TakeNow, TakeLater, FindNone, Ask, WaitEnds, Timeout, Accept, Replace, StartWork,
                StartFails, Leave, Receive, Move, PoolTypeOK
  <2>3. QED
    BY <2>1, <2>2 DEF ChannelInv, ChanOpen
<1>2. ASSUME NEW k \in Work, Handle(k) \/ Dial(k) \/ Drain(k) \/ PeerCloses(k) PROVE ChannelInv'
  <2>1. ctl' = ctl
    BY <1>2 DEF Handle, FindControl, Refuse, Pool, PoolTooLate, Dial, Drain, PeerCloses
  <2>2. \A j \in Work : \/ workConn'[j] = workConn[j]
                        \/ workConn'[j] \notin {"pooled", "orphan"}
                        \/ workConn'[j] = "pooled" /\ ChanOpen
                        \/ workConn'[j] = "orphan" /\ ~ChanOpen
    BY <1>2 DEF Handle, FindControl, Refuse, Pool, PoolTooLate, Dial, Drain, PeerCloses,
                Move, PoolTypeOK
  <2>3. QED
    BY <2>1, <2>2 DEF ChannelInv, ChanOpen
<1>3. CASE Ending
  <2>1. workConn' = workConn
    BY <1>3, EndingType
  <2>2. \/ ctl' = ctl
        \/ ctl = "running" /\ ctl' = "stopped"
        \/ ctl = "stopped" /\ ctl' = "draining"
        \/ ctl = "draining" /\ ctl' = "done" /\ pool = {}
        \/ ctl = "done" /\ ctl' = "reaped"
    BY <1>3 DEF Ending, Sending, DialFails, Transmit, Advance, Disconnect, CloseChan, WorkerDone, ForgetControl
  <2>3. QED
    BY <2>1, <2>2 DEF ChannelInv, ChanOpen, pool
<1>4. CASE UNCHANGED poolVars
  BY <1>4 DEF poolVars, ChannelInv, ChanOpen
<1>5. QED
  BY <1>1, <1>2, <1>3, <1>4, NextCases

(* Every connection that is open has somebody to close it: nothing is left *)
(* in workConnCh when worker has drained it, and what a user has taken out *)
(* is closed by that user. *)
THEOREM NoneIsForgotten == PoolSpec => []NoneForgotten
<1>1. PoolInit => ChannelInv
  BY DEF PoolInit, ChannelInv
<1>2. ChannelInv /\ Lending => NoneForgotten
  BY DEF ChannelInv, Lending, OneUser, JoinedTo, Carries, NoneForgotten
<1>3. QED
  BY <1>1, <1>2, ChannelStep, LendingInvariant, PoolTypes, PTL DEF PoolSpec

-----------------------------------------------------------------------------
(* The abstract pool.                                                      *)
(*                                                                         *)
(* Each step maps to a step of ConnHandout or to a stutter, because a user *)
(* that carries a connection is the only one who does.                     *)

Spent == {k \in Work : workConn[k] \in {"closed", "orphan"} /\ \A u \in User : Handed[u] # k}
Gone  == {u \in User : user[u].at \in {"failed", "over"}}

LEMMA HandedCarries ==
  ASSUME PoolTypeOK, Stages
  PROVE  /\ \A u \in User, k \in Work : Handed[u] = k <=> Carries(u, k)
         /\ \A u \in User : Handed[u] = IF user[u].at \in Lent THEN user[u].with ELSE NoWork
         /\ \A u \in User : user[u].at \notin Lent <=> Handed[u] = NoWork
  BY PoolAssumption DEF Handed, Carries, Stages, Lent

(* The instance has its own name for the number of elements of a set. *)
LEMMA SameCount == \A S : Handout!Cardinality(S) = Cardinality(S)
  BY DEF Handout!Cardinality, Cardinality

LEMMA HandoutInit == PoolInit => Handout!Init
<1> SUFFICES ASSUME PoolInit
             PROVE  Handout!Init
  OBVIOUS
<1>1. Handed = [u \in User |-> NoWork]
  BY DEF PoolInit, Handed
<1>2. QED
  BY <1>1 DEF PoolInit, Handout!Init, pool, ChanOpen

(* Steps at connections that no user carries. *)
LEMMA HandoutHandle ==
  ASSUME PoolTypeOK, Stages, Lending, NEW k \in Work, Handle(k) \/ Dial(k) \/ Drain(k) \/ PeerCloses(k)
  PROVE  [Handout!Next]_Handout!vars
<1>1. UNCHANGED user /\ UNCHANGED Handed /\ UNCHANGED Gone
  BY HandleType DEF Handed, Gone
<1>2. UNCHANGED ctl /\ UNCHANGED ChanOpen
  BY DEF Handle, FindControl, Refuse, Pool, PoolTooLate, Dial, Drain, PeerCloses, ChanOpen
<1>3. \A j \in Work : workConn[j] \notin {"lent", "started", "closed"} => \A u \in User : Handed[u] # j
  BY HandedCarries, NobodysOrOnes
<1>4. ASSUME workConn'[k] \in ConnPlace, \A j \in Work : j # k => workConn'[j] = workConn[j],
             workConn[k] \notin {"lent", "started", "closed", "orphan"}
      PROVE  /\ pool' = IF workConn'[k] = "pooled" THEN pool \cup {k} ELSE pool \ {k}
             /\ Spent' = IF workConn'[k] \in {"closed", "orphan"} THEN Spent \cup {k} ELSE Spent
             /\ k \notin Spent /\ \A u \in User : Handed[u] # k
  BY <1>1, <1>3, <1>4 DEF pool, Spent
<1>5. CASE Dial(k) \/ FindControl(k)
  <2>1. /\ workConn[k] \in {"none", "arrived"} /\ workConn'[k] \in {"arrived", "found"}
        /\ \A j \in Work : j # k => workConn'[j] = workConn[j]
    BY <1>5, MoveType DEF Dial, FindControl, ConnPlace
  <2>2. pool' = pool /\ Spent' = Spent
    BY <1>4, <2>1 DEF ConnPlace, pool
  <2>3. QED
    BY <1>1, <1>2, <2>2 DEF Handout!vars, Spent, Gone
<1>6. CASE PeerCloses(k)
  <2>1. pool' = pool /\ Spent' = Spent
    BY <1>1, <1>6 DEF PeerCloses, pool, Spent
  <2>2. QED
    BY <1>1, <1>2, <2>1 DEF Handout!vars, Spent, Gone
<1>7. CASE Refuse(k) \/ PoolTooLate(k) \/ (Pool(k) /\ workConn'[k] = "closed")
  <2>1. /\ workConn[k] \in {"arrived", "found"} /\ workConn'[k] \in {"closed", "orphan"}
        /\ \A j \in Work : j # k => workConn'[j] = workConn[j]
    BY <1>7, MoveType DEF Refuse, PoolTooLate, Pool, ConnPlace
  <2>2. /\ pool' = pool /\ Spent' = Spent \cup {k} /\ k \notin pool
        /\ k \notin Spent /\ \A u \in User : Handed[u] # k
    BY <1>4, <2>1 DEF ConnPlace, pool
  <2>3. Handout!TurnAway(k)
    BY <1>1, <1>2, <2>2 DEF Handout!TurnAway, Handout!New, Spent, Gone
  <2>4. QED
    BY <2>3 DEF Handout!Next
<1>8. CASE Pool(k) /\ workConn'[k] # "closed"
  <2>1. /\ workConn[k] = "found" /\ workConn'[k] = "pooled" /\ ChanOpen
        /\ Cardinality(pool) < PoolCount + Spare
        /\ \A j \in Work : j # k => workConn'[j] = workConn[j]
    BY <1>8, MoveType DEF Pool, ConnPlace
  <2>2. /\ pool' = pool \cup {k} /\ Spent' = Spent /\ k \notin pool
        /\ k \notin Spent /\ \A u \in User : Handed[u] # k
    BY <1>4, <2>1 DEF ConnPlace, pool
  <2>3. Handout!Offer(k)
    BY <1>1, <1>2, <2>1, <2>2, SameCount DEF Handout!Offer, Handout!New, Spent, Gone
  <2>4. QED
    BY <2>3 DEF Handout!Next
<1>9. CASE Drain(k)
  <2>1. /\ workConn[k] = "pooled" /\ workConn'[k] = "closed" /\ ~ChanOpen
        /\ \A j \in Work : j # k => workConn'[j] = workConn[j]
    BY <1>9, MoveType DEF Drain, ChanOpen, ConnPlace
  <2>2. pool' = pool \ {k} /\ Spent' = Spent \cup {k} /\ k \in pool
    BY <1>4, <2>1 DEF ConnPlace, pool
  <2>3. Handout!Throw(k)
    BY <1>1, <1>2, <2>1, <2>2 DEF Handout!Throw, Spent, Gone
  <2>4. QED
    BY <2>3 DEF Handout!Next
<1>10. QED
  BY <1>5, <1>6, <1>7, <1>8, <1>9 DEF Handle

(* Steps of a user that carries no connection, neither before nor after.   *)
LEMMA HandoutIdle ==
  ASSUME PoolTypeOK, Stages, NEW u \in User, Steps(u), UNCHANGED <<workConn, ctl>>,
         user[u].at \notin Lent \cup {"failed", "over"}, user'[u].at \notin Lent
  PROVE  [Handout!Next]_Handout!vars
<1>1. Handed' = Handed
  BY DEF Handed, Steps, Lent
<1>2. pool' = pool /\ ChanOpen' = ChanOpen /\ Spent' = Spent
  BY <1>1 DEF pool, ChanOpen, Spent
<1>3. Handed[u] = NoWork /\ u \notin Gone
  BY HandedCarries DEF Gone
<1>4. CASE user'[u].at \in {"failed", "over"}
  <2>1. Gone' = Gone \cup {u}
    BY <1>4 DEF Gone, Steps
  <2>2. Handout!GiveUp(u)
    BY <1>1, <1>2, <1>3, <2>1 DEF Handout!GiveUp, Spent, Gone
  <2>3. QED
    BY <2>2 DEF Handout!Next
<1>5. CASE user'[u].at \notin {"failed", "over"}
  <2>1. Gone' = Gone
    BY <1>5 DEF Gone, Steps
  <2>2. QED
    BY <1>1, <1>2, <2>1 DEF Handout!vars, Spent, Gone
<1>6. QED
  BY <1>4, <1>5

(* Steps of a user that keeps the connection it carries, which stays out   *)
(* of the pool. *)
LEMMA HandoutKeeps ==
  ASSUME PoolTypeOK, Stages, Lending, NEW u \in User, Steps(u), UNCHANGED ctl,
         user[u].at \in Lent, user'[u].at \in Lent, user'[u].with = user[u].with,
         workConn' \in [Work -> ConnPlace],
         \A j \in Work : j # user[u].with => workConn'[j] = workConn[j],
         workConn'[user[u].with] \in {"lent", "started", "closed"}
  PROVE  [Handout!Next]_Handout!vars
<1> DEFINE k == user[u].with
<1>1. k \in Work /\ Carries(u, k) /\ Handed[u] = k
  BY HandedCarries DEF Stages, Carries, Lent
<1>2. Handed' = Handed /\ Gone' = Gone
  BY DEF Handed, Gone, Steps, Lent
<1>3. workConn[k] \in {"lent", "started", "closed"}
  BY <1>1, NobodysOrOnes
<1>4. pool' = pool /\ ChanOpen' = ChanOpen
  BY <1>3 DEF pool, ChanOpen
<1>5. Spent' = Spent
  BY <1>1, <1>2 DEF Spent
<1>6. QED
  BY <1>2, <1>4, <1>5 DEF Handout!vars, Spent, Gone

(* Steps of a user that closes the connection it carries. *)
LEMMA HandoutReturn ==
  ASSUME PoolTypeOK, Stages, Lending, NEW u \in User, Steps(u), UNCHANGED ctl,
         user[u].at \in Lent, user'[u].at \notin Lent, workConn' \in [Work -> ConnPlace],
         \A j \in Work : j # user[u].with => workConn'[j] = workConn[j],
         workConn'[user[u].with] = "closed"
  PROVE  [Handout!Next]_Handout!vars
<1> DEFINE k == user[u].with
<1>1. k \in Work /\ Carries(u, k) /\ Handed[u] = k /\ Handed[u] # NoWork
  BY HandedCarries, PoolAssumption DEF Stages, Carries, Lent
<1>2. /\ Handed' = [Handed EXCEPT ![u] = NoWork]
      /\ \A v \in User : v # u => Handed'[v] = Handed[v]
      /\ Handed'[u] = NoWork
  BY DEF Handed, Steps, Lent
<1>3. workConn[k] \in {"lent", "started", "closed"}
  BY <1>1, NobodysOrOnes
<1>4. pool' = pool /\ ChanOpen' = ChanOpen
  BY <1>3 DEF pool, ChanOpen
<1>5. \A v \in User : Handed[v] = k => v = u
  BY <1>1, HandedCarries, NobodysOrOnes
<1>6. k # NoWork
  BY <1>1
<1>7. Spent' = Spent \cup {k}
  <2>1. k \in Spent'
    BY <1>1, <1>2, <1>5, <1>6 DEF Spent
  <2>2. \A j \in Work : j # k => (j \in Spent' <=> j \in Spent)
    BY <1>1, <1>2, PoolAssumption DEF Spent
  <2>3. QED
    BY <1>1, <2>1, <2>2 DEF Spent
<1>8. Gone' \in {Gone, Gone \cup {u}}
  BY DEF Gone, Steps, Lent
<1>9. Handout!Return(u)
  BY <1>1, <1>2, <1>4, <1>7, <1>8 DEF Handout!Return, Spent, Gone
<1>10. QED
  BY <1>9 DEF Handout!Next

LEMMA HandoutReceive ==
  ASSUME PoolTypeOK, Stages, Lending, NEW u \in User, NEW k \in pool, Receive(u, k), UNCHANGED ctl,
         user[u].at \in {"taking", "waiting"}
  PROVE  [Handout!Next]_Handout!vars
<1>1. k \in Work /\ workConn[k] = "pooled"
  BY DEF pool
<1>2. /\ user' \in [User -> UserConn] /\ workConn' \in [Work -> ConnPlace]
      /\ user'[u].at = "got" /\ user'[u].with = k
      /\ \A v \in User : v # u => user'[v] = user[v]
      /\ workConn'[k] = "lent"
      /\ \A j \in Work : j # k => workConn'[j] = workConn[j]
  BY <1>1, ReceiveType
<1>3. Handed[u] = NoWork /\ u \notin Gone
  BY HandedCarries DEF Gone, Lent
<1>4. /\ Handed' = [Handed EXCEPT ![u] = k]
      /\ \A v \in User : v # u => Handed'[v] = Handed[v]
      /\ Handed'[u] = k
  BY <1>2 DEF Handed
<1>5. Gone' = Gone
  BY <1>2 DEF Gone
<1>6. pool' = pool \ {k} /\ ChanOpen' = ChanOpen
  BY <1>1, <1>2 DEF pool, ChanOpen
<1>7. Spent' = Spent
  <2>1. k \notin Spent /\ k \notin Spent'
    BY <1>1, <1>2 DEF Spent
  <2>2. \A j \in Work : j # k => (j \in Spent' <=> j \in Spent)
    BY <1>1, <1>2, <1>3, <1>4, PoolAssumption DEF Spent
  <2>3. QED
    BY <2>1, <2>2 DEF Spent
<1>8. Handout!Hand(k, u)
  BY <1>3, <1>4, <1>5, <1>6, <1>7 DEF Handout!Hand, Spent, Gone
<1>9. QED
  BY <1>1, <1>8 DEF Handout!Next

LEMMA HandoutServe ==
  ASSUME PoolTypeOK, Stages, Lending, NEW u \in User, Serve(u) \/ Accept(u) \/ Leave(u)
  PROVE  [Handout!Next]_Handout!vars
<1>1. Steps(u) /\ UNCHANGED ctl
  BY ServeSteps DEF Serve, TakeNow, TakeLater, FindNone, Ask, WaitEnds, Timeout, Accept, Replace, StartWork,
     StartFails, Leave
<1>2. CASE TakeNow(u) \/ TakeLater(u)
  BY <1>1, <1>2, HandoutReceive DEF TakeNow, TakeLater
<1>3. CASE FindNone(u) \/ Ask(u) \/ WaitEnds(u) \/ Timeout(u) \/ Accept(u)
  <2>1. /\ user[u].at \in {"idle", "taking", "asking", "waiting"} /\ workConn' = workConn
        /\ \E s \in {"taking", "asking", "waiting", "failed"} : Go(u, s)
    BY <1>3 DEF FindNone, Ask, WaitEnds, Timeout, Accept
  <2>2. user'[u].at \in {"taking", "asking", "waiting", "failed"}
    BY <2>1, GoType DEF Stage
  <2>3. QED
    BY <1>1, <2>1, <2>2, HandoutIdle DEF Lent
<1>4. CASE Replace(u)
  <2>1. /\ user[u].at = "got" /\ workConn' = workConn
        /\ user'[u].at = "writing" /\ user'[u].with = user[u].with
    BY <1>4, GoType DEF Replace, Stage
  <2>2. user[u].with \in Work /\ workConn[user[u].with] \in {"lent", "started", "closed"}
    BY <2>1, NobodysOrOnes DEF Stages, Carries, Lent
  <2>3. workConn' \in [Work -> ConnPlace]
    BY <2>1 DEF PoolTypeOK
  <2>4. QED
    BY <1>1, <2>1, <2>2, <2>3, HandoutKeeps DEF Lent
<1>5. CASE StartWork(u)
  <2>1. user[u].at = "writing" /\ user[u].with \in Work
    BY <1>5 DEF StartWork, Stages, Lent
  <2>2. user'[u].at = "joined" /\ user'[u].with = user[u].with
    BY <1>5, GoType DEF StartWork, Stage
  <2>3. /\ workConn' \in [Work -> ConnPlace] /\ workConn'[user[u].with] = "started"
        /\ \A j \in Work : j # user[u].with => workConn'[j] = workConn[j]
    BY <1>5, <2>1, MoveType DEF StartWork, ConnPlace
  <2>4. QED
    BY <1>1, <2>1, <2>2, <2>3, HandoutKeeps DEF Lent
<1>6. CASE StartFails(u)
  <2>1. /\ workConn' \in [Work -> ConnPlace]
        /\ user[u].at = "writing" /\ user[u].with \in Work
        /\ workConn'[user[u].with] = "closed"
        /\ \A j \in Work : j # user[u].with => workConn'[j] = workConn[j]
        /\ \/ user'[u].at = "taking"
           \/ user'[u].at = "joined" /\ user'[u].with = user[u].with
    BY <1>6, StartFailsType
  <2>2. QED
    BY <1>1, <2>1, HandoutKeeps, HandoutReturn DEF Lent
<1>7. CASE Leave(u)
  <2>1. user[u].at = "joined" /\ user[u].with \in Work
    BY <1>7 DEF Leave, Stages, Lent
  <2>2. user'[u].at = "over"
    BY <1>7, GoType DEF Leave, Stage
  <2>3. /\ workConn' \in [Work -> ConnPlace] /\ workConn'[user[u].with] = "closed"
        /\ \A j \in Work : j # user[u].with => workConn'[j] = workConn[j]
    BY <1>7, <2>1, MoveType DEF Leave, ConnPlace
  <2>4. QED
    BY <1>1, <2>1, <2>2, <2>3, HandoutReturn DEF Lent
<1>8. QED
  BY <1>2, <1>3, <1>4, <1>5, <1>6, <1>7 DEF Serve

LEMMA HandoutEnding ==
  ASSUME PoolTypeOK, Ending
  PROVE  [Handout!Next]_Handout!vars
<1>1. pool' = pool /\ Spent' = Spent /\ Handed' = Handed /\ Gone' = Gone
  BY EndingType DEF pool, Spent, Handed, Gone
<1>2. CASE CloseChan
  <2>1. ChanOpen /\ ~ChanOpen'
    BY <1>2 DEF CloseChan, ChanOpen
  <2>2. ChanOpen' = FALSE
    BY <2>1 DEF ChanOpen
  <2>3. Handout!Shut
    BY <1>1, <2>1, <2>2 DEF Handout!Shut, Spent, Gone
  <2>4. QED
    BY <2>3 DEF Handout!Next
<1>3. CASE ~CloseChan
  <2>1. ChanOpen' = ChanOpen
    BY <1>3 DEF Ending, Sending, DialFails, Transmit, Advance, Disconnect, CloseChan, WorkerDone, ForgetControl, ChanOpen
  <2>2. QED
    BY <1>1, <2>1 DEF Handout!vars, Spent, Gone
<1>4. QED
  BY <1>2, <1>3

(* The pool implements ConnHandout: whatever the order of arrivals, users, *)
(* failed starts, timeouts and the end of the control, a work connection   *)
(* is handed to one user and spent after it, and none is handed to a user  *)
(* who has gone.                                                           *)
THEOREM PoolHandsOut == PoolSpec => ImplementsHandout
<1>1. PoolTypeOK /\ Stages /\ Lending /\ [PoolNext]_poolVars => [Handout!Next]_Handout!vars
  <2> SUFFICES ASSUME PoolTypeOK, Stages, Lending, [PoolNext]_poolVars
               PROVE  [Handout!Next]_Handout!vars
    OBVIOUS
  <2>1. CASE UNCHANGED poolVars
    BY <2>1 DEF poolVars, Handout!vars, pool, Handed, ChanOpen
  <2>2. QED
    BY <2>1, HandoutHandle, HandoutServe, HandoutEnding, NextCases
<1>2. QED
  BY <1>1, HandoutInit, PoolTypes, LendingInvariant, PTL DEF PoolSpec, ImplementsHandout, Handout!Spec

-----------------------------------------------------------------------------
(* Supply and demand.                                                      *)
(*                                                                         *)
(* Each step moves at most one connection, one user or one request from    *)
(* one of the counted sets to another.                                     *)

LEMMA FiniteSupply ==
  /\ IsFiniteSet(Arriving) /\ IsFiniteSet(pool) /\ IsFiniteSet(Unpaid) /\ IsFiniteSet(Waiting)
  /\ Cardinality(Arriving) \in Nat /\ Cardinality(pool) \in Nat
  /\ Cardinality(Unpaid) \in Nat /\ Cardinality(Waiting) \in Nat
<1>1. /\ Arriving \subseteq Work /\ pool \subseteq Work
      /\ Unpaid \subseteq User /\ Waiting \subseteq User
  BY DEF Arriving, pool, Unpaid, Waiting
<1>2. IsFiniteSet(Arriving) /\ IsFiniteSet(pool) /\ IsFiniteSet(Unpaid) /\ IsFiniteSet(Waiting)
  BY <1>1, PoolAssumption, FS_Subset
<1>3. QED
  BY <1>2, FS_CardinalityType

LEMMA OneMore ==
  ASSUME NEW S, NEW x, IsFiniteSet(S), x \notin S
  PROVE  Cardinality(S \cup {x}) = Cardinality(S) + 1
  BY FS_AddElement

LEMMA OneLess ==
  ASSUME NEW S, NEW x, IsFiniteSet(S), x \in S
  PROVE  Cardinality(S \ {x}) = Cardinality(S) - 1
  BY FS_RemoveElement

LEMMA SumType ==
  ASSUME NEW x \in Nat, NEW y \in Nat, NEW z \in Nat
  PROVE  x + y + z \in Nat
  OBVIOUS

LEMMA RequestsType ==
  ASSUME due' \in Nat, outbox' \in Nat, req' \in Nat
  PROVE  Requests' \in Nat
<1>1. Requests' = due' + outbox' + req'
  BY DEF Requests
<1>2. due' + outbox' + req' \in Nat
  BY SumType
<1>3. QED
  BY <1>1, <1>2

LEMMA SumKept ==
  ASSUME NEW x \in Nat, NEW y \in Nat, NEW z \in Nat, NEW t \in Nat, x + y = z + t,
         NEW a \in Nat, NEW p \in Nat, NEW g \in Nat
  PROVE  x + a + p + y + g = z + a + p + t + g
  OBVIOUS

(* The sets of connections after one connection has moved. *)
LEMMA ConnMoved ==
  ASSUME PoolTypeOK, NEW k \in Work, workConn' \in [Work -> ConnPlace],
         \A j \in Work : j # k => workConn'[j] = workConn[j]
  PROVE  /\ Arriving' = IF workConn'[k] \in {"arrived", "found"} THEN Arriving \cup {k}
                                                             ELSE Arriving \ {k}
         /\ pool' = IF workConn'[k] = "pooled" THEN pool \cup {k} ELSE pool \ {k}
  BY DEF Arriving, pool

(* The sets of users after one user has gone on. *)
LEMMA UserMoved ==
  ASSUME PoolTypeOK, NEW u \in User, \A v \in User : v # u => user'[v] = user[v]
  PROVE  /\ Waiting' = IF user'[u].at = "waiting" THEN Waiting \cup {u} ELSE Waiting \ {u}
         /\ Unpaid' = IF user'[u].at = "got" THEN Unpaid \cup {u} ELSE Unpaid \ {u}
  BY DEF Waiting, Unpaid

Supply == Requests + Cardinality(Arriving) + Cardinality(pool) + lost + Cardinality(Unpaid)

LEMMA SupplyHandle ==
  ASSUME PoolTypeOK, SupplyMeetsDemand, ctl = "running", NEW k \in Work,
         Handle(k) \/ Dial(k) \/ Drain(k) \/ PeerCloses(k)
  PROVE  SupplyMeetsDemand'
<1>1. PoolTypeOK' /\ UNCHANGED <<ctl, user>>
  BY HandleType DEF Handle, FindControl, Refuse, Pool, PoolTooLate, Dial, Drain, PeerCloses
<1>2. Waiting' = Waiting /\ Unpaid' = Unpaid
  BY <1>1 DEF Waiting, Unpaid
<1>3. workConn' \in [Work -> ConnPlace] /\ \A j \in Work : j # k => workConn'[j] = workConn[j]
  BY <1>1 DEF Handle, FindControl, Refuse, Pool, PoolTooLate, Dial, Drain, PeerCloses, Move, PoolTypeOK
<1>4. /\ Arriving' = IF workConn'[k] \in {"arrived", "found"} THEN Arriving \cup {k} ELSE Arriving \ {k}
      /\ pool' = IF workConn'[k] = "pooled" THEN pool \cup {k} ELSE pool \ {k}
  BY <1>3, ConnMoved
<1>5. /\ k \in Arriving <=> workConn[k] \in {"arrived", "found"}
      /\ k \in pool <=> workConn[k] = "pooled"
  BY DEF Arriving, pool
<1>6. Requests \in Nat /\ lost \in Nat /\ PoolCount \in Nat
  BY PoolAssumption DEF PoolTypeOK, Requests
<1> DEFINE a == Cardinality(Arriving)
           p == Cardinality(pool)
           w == Cardinality(Waiting)
           g == Cardinality(Unpaid)
<1>7. Requests + a + p + lost + g >= PoolCount + w
  BY DEF SupplyMeetsDemand
<1>8. Requests' + Cardinality(Arriving') + Cardinality(pool') + lost' >= Requests + a + p + lost
  <2>1. CASE Dial(k)
    <3>1. Arriving' = Arriving \cup {k} /\ k \notin Arriving /\ pool' = pool
      BY <2>1, <1>4, <1>5 DEF Dial, Move, PoolTypeOK
    <3>2. Requests' = Requests - 1 /\ lost' = lost
      BY <2>1 DEF Dial, Requests, sendVars, PoolTypeOK
    <3>3. QED
      BY <1>6, <3>1, <3>2, OneMore, FiniteSupply
  <2>2. CASE FindControl(k)
    <3>1. Arriving' = Arriving /\ pool' = pool
      BY <2>2, <1>4, <1>5 DEF FindControl, Move, PoolTypeOK
    <3>2. QED
      BY <2>2, <1>6, <3>1, FiniteSupply DEF FindControl, Requests, sendVars
  <2>3. CASE Refuse(k) \/ (Pool(k) /\ Move(k, "closed") /\ Lose)
    <3>1. Arriving' = Arriving \ {k} /\ k \in Arriving /\ pool' = pool
      BY <2>3, <1>4, <1>5 DEF Refuse, Pool, Move, PoolTypeOK
    <3>2. lost' = lost + 1 /\ Requests' = Requests
      BY <2>3 DEF Refuse, Pool, Lose, Requests, sendVars
    <3>3. QED
      BY <1>6, <3>1, <3>2, OneLess, FiniteSupply
  <2>4. CASE Pool(k) /\ Move(k, "pooled") /\ UNCHANGED lost
    <3>1. Arriving' = Arriving \ {k} /\ k \in Arriving /\ pool' = pool \cup {k} /\ k \notin pool
      BY <2>4, <1>4, <1>5 DEF Pool, Move, PoolTypeOK
    <3>2. lost' = lost /\ Requests' = Requests
      BY <2>4 DEF Pool, Requests, sendVars
    <3>3. QED
      BY <1>6, <3>1, <3>2, OneLess, OneMore, FiniteSupply
  <2>5. CASE PeerCloses(k)
    <3>1. Arriving' = Arriving /\ pool' = pool /\ Requests' = Requests /\ lost' = lost
      BY <2>5 DEF PeerCloses, Arriving, pool, Requests, sendVars
    <3>2. QED
      BY <1>6, <3>1, FiniteSupply
  <2>6. CASE PoolTooLate(k) \/ Drain(k)
    BY <2>6 DEF PoolTooLate, Drain, ChanOpen
  <2>7. QED
    BY <2>1, <2>2, <2>3, <2>4, <2>5, <2>6 DEF Handle, Pool
<1>9. Cardinality(Arriving') \in Nat /\ Cardinality(pool') \in Nat /\ Requests' \in Nat /\ lost' \in Nat
  <2>1. Arriving' \subseteq Work /\ pool' \subseteq Work
    BY DEF Arriving, pool
  <2>2. IsFiniteSet(Arriving') /\ IsFiniteSet(pool')
    BY <2>1, PoolAssumption, FS_Subset
  <2>3. QED
    <3>1. Requests' \in Nat /\ lost' \in Nat
      <4>1. due' \in Nat /\ outbox' \in Nat /\ req' \in Nat /\ lost' \in Nat
        BY <1>1, PoolAssumption DEF PoolTypeOK
      <4>2. QED
        BY <4>1, RequestsType
    <3>2. QED
      BY <2>2, <3>1, FS_CardinalityType
<1>10. Requests' + Cardinality(Arriving') + Cardinality(pool') + lost' + g >= PoolCount + w
  BY <1>6, <1>7, <1>8, <1>9, FiniteSupply
<1>11. QED
  BY <1>2, <1>10 DEF SupplyMeetsDemand

(* A step of a user that touches no connection on its way or in the pool. *)
LEMMA SupplyApart ==
  ASSUME PoolTypeOK, Lending, NEW u \in User, NEW k \in Work, Carries(u, k), NEW p \in ConnPlace,
         Move(k, p), p \notin {"arrived", "found", "pooled"}
  PROVE  Arriving' = Arriving /\ pool' = pool
<1>1. workConn[k] \notin {"arrived", "found", "pooled"}
  BY NobodysOrOnes
<1>2. workConn'[k] = p /\ \A j \in Work : j # k => workConn'[j] = workConn[j]
  BY MoveType
<1>3. QED
  BY <1>1, <1>2 DEF Arriving, pool

LEMMA SupplyServe ==
  ASSUME PoolTypeOK, Stages, Lending, SupplyMeetsDemand, ctl = "running",
         NEW u \in User, Serve(u) \/ Accept(u) \/ Leave(u)
  PROVE  SupplyMeetsDemand'
<1>1. \A v \in User : v # u => user'[v] = user[v]
  BY ServeSteps DEF Steps
<1>2. /\ Waiting' = IF user'[u].at = "waiting" THEN Waiting \cup {u} ELSE Waiting \ {u}
      /\ Unpaid' = IF user'[u].at = "got" THEN Unpaid \cup {u} ELSE Unpaid \ {u}
  BY <1>1, UserMoved
<1>3. (u \in Waiting <=> user[u].at = "waiting") /\ (u \in Unpaid <=> user[u].at = "got")
  BY DEF Waiting, Unpaid
<1>4. Requests \in Nat /\ lost \in Nat /\ PoolCount \in Nat
  BY PoolAssumption DEF PoolTypeOK, Requests
<1>5. Supply >= PoolCount + Cardinality(Waiting)
  BY DEF SupplyMeetsDemand, Supply
<1>6. lost' = lost
  BY DEF Serve, TakeNow, TakeLater, FindNone, Ask, WaitEnds, Timeout, Accept, Replace, StartWork,
         StartFails, Leave
<1>7. Supply' >= PoolCount + Cardinality(Waiting')
  <2>1. CASE TakeNow(u) \/ TakeLater(u)
    <3>1. PICK k \in pool : Receive(u, k)
      BY <2>1 DEF TakeNow, TakeLater
    <3>2. k \in Work /\ workConn[k] = "pooled"
      BY DEF pool
    <3>3. /\ user'[u].at = "got" /\ workConn'[k] = "lent"
          /\ \A j \in Work : j # k => workConn'[j] = workConn[j]
      BY <3>1, <3>2, ReceiveType
    <3>4. Arriving' = Arriving /\ pool' = pool \ {k}
      BY <3>2, <3>3 DEF Arriving, pool
    <3>5. user[u].at \in {"taking", "waiting"} /\ Requests' = Requests
      BY <2>1 DEF TakeNow, TakeLater, Requests, sendVars
    <3>6. Unpaid' = Unpaid \cup {u} /\ u \notin Unpaid
      BY <1>2, <1>3, <3>3, <3>5
    <3>7. Waiting' = Waiting \/ (Waiting' = Waiting \ {u} /\ u \in Waiting)
      BY <1>2, <1>3, <3>3, <3>5
    <3>8. Cardinality(Waiting') <= Cardinality(Waiting) /\ Cardinality(Waiting') \in Int
      BY <3>7, OneLess, FiniteSupply
    <3>9. /\ Cardinality(pool') = Cardinality(pool) - 1
          /\ Cardinality(Unpaid') = Cardinality(Unpaid) + 1
      BY <3>4, <3>6, OneLess, OneMore, FiniteSupply
    <3>10. QED
      BY <1>4, <1>5, <1>6, <3>4, <3>5, <3>8, <3>9, FiniteSupply DEF Supply
  <2>2. CASE Ask(u)
    <3>1. /\ Go(u, "waiting") /\ "waiting" \in Stage /\ UNCHANGED <<due, req, workConn>>
          /\ user[u].at = "asking" /\ Queued
      BY <2>2 DEF Ask, Stage, Rejected
    <3>0. Requests' = Requests + 1
      BY <3>1, SendType DEF Requests, PoolTypeOK
    <3>2. user'[u].at = "waiting"
      BY <3>1, GoType
    <3>3. Waiting' = Waiting \cup {u} /\ u \notin Waiting /\ Unpaid' = Unpaid
      BY <1>2, <1>3, <3>1, <3>2
    <3>4. Arriving' = Arriving /\ pool' = pool
      BY <3>1 DEF Arriving, pool
    <3>5. Cardinality(Waiting') = Cardinality(Waiting) + 1
      BY <3>3, OneMore, FiniteSupply
    <3>6. QED
      BY <1>4, <1>5, <1>6, <3>0, <3>3, <3>4, <3>5, FiniteSupply DEF Supply
  <2>3. CASE Timeout(u)
    <3>1. /\ Go(u, "failed") /\ "failed" \in Stage /\ UNCHANGED <<due, outbox, req, workConn>>
          /\ user[u].at = "waiting"
      BY <2>3 DEF Timeout, Stage, sendVars
    <3>0. Requests' = Requests
      BY <3>1 DEF Requests
    <3>2. user'[u].at = "failed"
      BY <3>1, GoType
    <3>3. Waiting' = Waiting \ {u} /\ u \in Waiting /\ Unpaid' = Unpaid
      BY <1>2, <1>3, <3>1, <3>2
    <3>4. Arriving' = Arriving /\ pool' = pool
      BY <3>1 DEF Arriving, pool
    <3>5. Cardinality(Waiting') = Cardinality(Waiting) - 1
      BY <3>3, OneLess, FiniteSupply
    <3>6. QED
      BY <1>4, <1>5, <1>6, <3>0, <3>3, <3>4, <3>5, FiniteSupply DEF Supply
  <2>4. CASE Replace(u)
    <3>1. /\ Go(u, "writing") /\ "writing" \in Stage /\ UNCHANGED <<due, req, workConn>>
          /\ user[u].at = "got" /\ (Queued \/ Rejected)
      BY <2>4 DEF Replace, Stage
    <3>0. Requests' = Requests + 1
      BY <3>1, SendType DEF Requests, PoolTypeOK
    <3>2. user'[u].at = "writing"
      BY <3>1, GoType
    <3>3. Unpaid' = Unpaid \ {u} /\ u \in Unpaid /\ Waiting' = Waiting
      BY <1>2, <1>3, <3>1, <3>2
    <3>4. Arriving' = Arriving /\ pool' = pool
      BY <3>1 DEF Arriving, pool
    <3>5. Cardinality(Unpaid') = Cardinality(Unpaid) - 1
      BY <3>3, OneLess, FiniteSupply
    <3>6. QED
      BY <1>4, <1>5, <1>6, <3>0, <3>3, <3>4, <3>5, FiniteSupply DEF Supply
  <2>5. CASE Accept(u) \/ FindNone(u) \/ StartWork(u) \/ StartFails(u) \/ Leave(u)
    <3>1. Arriving' = Arriving /\ pool' = pool
      <4>1. CASE Accept(u) \/ FindNone(u)
        BY <4>1 DEF Accept, FindNone, Arriving, pool
      <4>2. CASE StartWork(u) \/ StartFails(u) \/ Leave(u)
        <5>1. PICK k \in Work, p \in {"started", "closed"} : Carries(u, k) /\ Move(k, p)
          BY <4>2 DEF StartWork, StartFails, Leave, Stages, Lent, Carries
        <5>2. p \in ConnPlace
          BY DEF ConnPlace
        <5>3. QED
          BY <5>1, <5>2, SupplyApart
      <4>3. QED
        BY <2>5, <4>1, <4>2
    <3>2. /\ user[u].at \notin {"waiting", "got"} /\ user'[u].at \notin {"waiting", "got"}
          /\ Requests' = Requests
      <4>1. CASE StartFails(u)
        BY <4>1, StartFailsType DEF StartFails, Requests, sendVars
      <4>2. CASE Accept(u) \/ FindNone(u) \/ StartWork(u) \/ Leave(u)
        <5>1. PICK s \in {"taking", "asking", "failed", "joined", "over"} : Go(u, s) /\ s \in Stage
          BY <4>2 DEF Accept, FindNone, StartWork, Leave, Stage
        <5>2. user'[u].at = s
          BY <5>1, GoType
        <5>3. QED
          BY <4>2, <5>2 DEF Accept, FindNone, StartWork, Leave, Requests, sendVars
      <4>3. QED
        BY <2>5, <4>1, <4>2
    <3>3. Waiting' = Waiting /\ Unpaid' = Unpaid
      BY <1>2, <1>3, <3>2
    <3>4. QED
      BY <1>5, <1>6, <3>1, <3>2, <3>3 DEF Supply
  <2>6. CASE WaitEnds(u)
    BY <2>6 DEF WaitEnds, ChanOpen
  <2>7. QED
    BY <2>1, <2>2, <2>3, <2>4, <2>5, <2>6 DEF Serve
<1>8. QED
  BY <1>7 DEF SupplyMeetsDemand, Supply

LEMMA SupplyStep ==
  PoolTypeOK /\ Stages /\ Lending /\ SupplyMeetsDemand /\ [PoolNext]_poolVars => SupplyMeetsDemand'
<1> SUFFICES ASSUME PoolTypeOK, Stages, Lending, SupplyMeetsDemand, [PoolNext]_poolVars, ctl' = "running"
             PROVE  SupplyMeetsDemand'
  BY DEF SupplyMeetsDemand
<1>1. ctl = "running"
  BY DEF PoolNext, poolVars, DialFails, Transmit, Advance, Dial, PeerCloses, Handle, FindControl, Refuse, Pool, PoolTooLate,
         Drain, Accept, Serve, TakeNow, TakeLater, FindNone, Ask, WaitEnds, Timeout, Replace, StartWork,
         StartFails, Leave, Disconnect, CloseChan, WorkerDone, ForgetControl
<1>2. CASE Ending
  <2>1. Sending
    BY <1>1, <1>2 DEF Ending, Disconnect, CloseChan, WorkerDone, ForgetControl
  <2>2. /\ Arriving' = Arriving /\ pool' = pool /\ Waiting' = Waiting /\ Unpaid' = Unpaid
    BY <2>1 DEF Sending, DialFails, Transmit, Advance, Arriving, pool, Waiting, Unpaid
  <2>3. Requests' + lost' = Requests + lost /\ Requests \in Nat /\ lost \in Nat
        /\ Requests' \in Nat /\ lost' \in Nat
    <3>1. /\ due \in Nat /\ outbox \in Nat /\ req \in Nat /\ lost \in Nat
          /\ due' \in Nat /\ outbox' \in Nat /\ req' \in Nat /\ lost' \in Nat
      BY <1>2, EndingType, PoolAssumption DEF PoolTypeOK
    <3>2. CASE DialFails
      BY <1>1, <3>1, <3>2 DEF DialFails, Lose, sendVars, Requests
    <3>3. CASE Transmit
      BY <1>1, <3>1, <3>3 DEF Transmit, Requests
    <3>4. CASE Advance
      BY <1>1, <3>1, <3>4 DEF Advance, Queued, Rejected, Requests
    <3>5. QED
      BY <2>1, <3>2, <3>3, <3>4 DEF Sending
  <2>4. Supply >= PoolCount + Cardinality(Waiting)
    BY <1>1 DEF SupplyMeetsDemand, Supply
  <2>5. Supply' = Supply
    <3>1. PICK x \in Nat, y \in Nat, z \in Nat, t \in Nat :
             x = Requests' /\ y = lost' /\ z = Requests /\ t = lost
      BY <2>3
    <3>2. PICK a \in Nat, p \in Nat, g \in Nat :
             a = Cardinality(Arriving) /\ p = Cardinality(pool) /\ g = Cardinality(Unpaid)
      BY FiniteSupply
    <3>3. x + y = z + t
      BY <2>3, <3>1
    <3>4. x + a + p + y + g = z + a + p + t + g
      BY <3>3, SumKept
    <3>5. Supply' = x + a + p + y + g
      BY <2>2, <3>1, <3>2 DEF Supply
    <3>6. Supply = z + a + p + t + g
      BY <3>1, <3>2 DEF Supply
    <3>7. QED
      BY <3>4, <3>5, <3>6
  <2>6. QED
    BY <2>2, <2>4, <2>5 DEF SupplyMeetsDemand, Supply
<1>3. CASE UNCHANGED poolVars
  BY <1>3 DEF poolVars, SupplyMeetsDemand, Requests, Arriving, pool, Waiting, Unpaid
<1>4. QED
  BY <1>1, <1>2, <1>3, SupplyHandle, SupplyServe, NextCases

(* As long as the control runs, enough connections have been asked for to  *)
(* serve every user that waits and to fill the pool: each one GetWorkConn  *)
(* takes from the pool is asked for again. *)
THEOREM SupplySuffices == PoolSpec => []SupplyMeetsDemand
<1>1. PoolInit => SupplyMeetsDemand
  <2> SUFFICES ASSUME PoolInit PROVE SupplyMeetsDemand
    OBVIOUS
  <2>1. Arriving = {} /\ pool = {} /\ Waiting = {} /\ Unpaid = {}
    BY DEF PoolInit, Arriving, pool, Waiting, Unpaid
  <2>2. Cardinality({}) = 0
    BY FS_EmptySet
  <2>3. QED
    BY <2>1, <2>2, PoolAssumption DEF PoolInit, SupplyMeetsDemand, Requests
<1>2. QED
  BY <1>1, SupplyStep, LendingInvariant, PoolTypes, PTL DEF PoolSpec

-----------------------------------------------------------------------------
(* Answers.                                                                *)

(* The steps a user connection has still to take in GetWorkConnFromPool.   *)
UserLeft(u) ==
    LET rounds == 5 * (PoolCount - user[u].tries)
    IN  IF user[u].at = "taking" THEN rounds + 5
        ELSE IF user[u].at = "asking" THEN rounds + 4
        ELSE IF user[u].at = "waiting" THEN rounds + 3
        ELSE IF user[u].at = "got" THEN rounds + 2
        ELSE IF user[u].at = "writing" THEN rounds + 1 ELSE 0

Asking == {"taking", "asking", "waiting", "got", "writing"}

LEMMA UserLeftType ==
    ASSUME PoolTypeOK, Stages, NEW u \in User
    PROVE  user[u].tries \in Nat /\ UserLeft(u) \in 0 .. 5 * PoolCount + 5
<1>1. user[u].tries \in Nat
  BY PoolAssumption DEF PoolTypeOK, UserConn
<1>2. user[u].at \in Asking => user[u].tries <= PoolCount
  BY DEF Stages, Asking
<1>3. QED
  BY <1>1, <1>2, PoolAssumption DEF UserLeft, Asking

LEMMA ServeAdvances ==
    ASSUME PoolTypeOK, Stages, NEW u \in User, user[u].at \in Asking, Serve(u)
    PROVE  UserLeft(u)' < UserLeft(u)
<1> DEFINE t == user[u].tries
<1>1. t \in Nat /\ t <= PoolCount /\ PoolCount \in Nat
  BY UserLeftType, PoolAssumption DEF Stages, Asking
<1> HIDE DEF t
<1>2. CASE TakeNow(u) \/ TakeLater(u)
  <2>1. PICK k \in Work : Receive(u, k)
    BY <1>2 DEF TakeNow, TakeLater, pool
  <2>2. user'[u].at = "got" /\ user'[u].tries = t /\ user[u].at \in {"taking", "waiting"}
    BY <1>2, <2>1, ReceiveType DEF TakeNow, TakeLater, t
  <2>3. QED
    BY <1>1, <2>2 DEF UserLeft, t
<1>3. CASE FindNone(u) \/ Ask(u) \/ WaitEnds(u) \/ Timeout(u) \/ Replace(u) \/ StartWork(u)
  <2>1. PICK s \in Stage : /\ Go(u, s)
                           /\ \/ user[u].at = "taking" /\ s \in {"asking", "failed"}
                              \/ user[u].at = "asking" /\ s \in {"waiting", "failed"}
                              \/ user[u].at = "waiting" /\ s = "failed"
                              \/ user[u].at = "got" /\ s = "writing"
                              \/ user[u].at = "writing" /\ s = "joined"
    BY <1>3 DEF FindNone, Ask, WaitEnds, Timeout, Replace, StartWork, Stage
  <2>2. user'[u].at = s /\ user'[u].tries = t
    BY <2>1, GoType DEF t
  <2>3. QED
    BY <1>1, <2>1, <2>2 DEF UserLeft, t
<1>4. CASE StartFails(u)
  <2>1. user[u].at = "writing" /\ user'[u].at \in {"taking", "joined"}
    BY <1>4, StartFailsType
  <2>2. CASE user' = [user EXCEPT ![u] = [at |-> "taking", with |-> NoWork, tries |-> t + 1]]
    <3>1. user'[u].tries = t + 1
      BY <2>2 DEF PoolTypeOK
    <3>2. t + 1 <= PoolCount
      BY <1>1, <2>1, <3>1, <2>2, StartFailsType, <1>4 DEF PoolTypeOK
    <3>3. QED
      BY <1>1, <2>1, <3>1, <3>2 DEF UserLeft, t
  <2>3. CASE user' = [user EXCEPT ![u].at = "joined", ![u].tries = t + 1]
    <3>1. user'[u].at = "joined"
      BY <2>3 DEF PoolTypeOK, UserConn
    <3>2. QED
      BY <1>1, <2>1, <3>1 DEF UserLeft, t
  <2>4. QED
    BY <1>4, <2>2, <2>3 DEF StartFails, t
<1>5. QED
  BY <1>2, <1>3, <1>4 DEF Serve

(* Every user connection is answered after at most 5 * (PoolCount + 1)     *)
(* steps of its own goroutine, and nobody else can add to them: neither    *)
(* dead connections nor users that take what it has asked for.             *)
AnswerNears ==
    \A u \in User : user[u].at \in Asking =>
        /\ UserLeft(u) \in 0 .. 5 * (PoolCount + 1)
        /\ IF Serve(u) THEN UserLeft(u)' < UserLeft(u) ELSE UserLeft(u)' = UserLeft(u)

THEOREM AnswersCome == PoolSpec => [][AnswerNears]_poolVars
<1>1. ASSUME PoolTypeOK, Stages, PoolNext, NEW u \in User, user[u].at \in Asking
      PROVE  /\ UserLeft(u) \in 0 .. 5 * (PoolCount + 1)
             /\ IF Serve(u) THEN UserLeft(u)' < UserLeft(u) ELSE UserLeft(u)' = UserLeft(u)
  <2>1. UserLeft(u) \in 0 .. 5 * (PoolCount + 1)
    BY <1>1, UserLeftType, PoolAssumption
  <2>2. ASSUME ~Serve(u)
        PROVE  user'[u] = user[u]
    <3>1. ASSUME NEW v \in User, Serve(v) \/ Accept(v) \/ Leave(v)
          PROVE  user'[u] = user[u]
      <4>1. v # u
        BY <1>1, <2>2, <3>1 DEF Accept, Leave, Asking
      <4>2. QED
        BY <1>1, <3>1, <4>1, ServeSteps DEF Steps
    <3>2. QED
      BY <1>1, <3>1, HandleType, EndingType, NextCases DEF poolVars
  <2>3. QED
    BY <1>1, <2>1, <2>2, ServeAdvances DEF UserLeft
<1>2. PoolTypeOK /\ Stages /\ [PoolNext]_poolVars => [AnswerNears]_poolVars
  BY <1>1 DEF AnswerNears
<1>3. QED
  BY <1>2, PoolTypes, PTL DEF PoolSpec
=============================================================================
