---------------------------- MODULE ConnHandout ----------------------------
(***************************************************************************)
(* What the pool of a control promises about work connections, whatever    *)
(* its goroutines do: a connection is offered once, handed to one user,    *)
(* and never comes back; a user who has gone gets none; nothing is offered *)
(* any more once the pool is shut, and only then does the pool itself      *)
(* throw away what it has.  WorkConnPool implements this specification.    *)
(***************************************************************************)
EXTENDS Naturals, FiniteSets

CONSTANTS User,   \* user connections
          Work,   \* work connections
          Room,   \* how many connections the pool holds
          NoWork    \* no work connection

VARIABLES stock,  \* the connections on offer
          has,    \* [User -> Work \cup {None}]: the connection a user was handed
          gone,   \* users that were served or given up
          spent,  \* connections that will not be offered
          open    \* does the pool take connections?

vars == <<stock, has, gone, spent, open>>

Init ==
    /\ stock = {} /\ gone = {} /\ spent = {}
    /\ has = [u \in User |-> NoWork]
    /\ open = TRUE

New(k) == k \notin stock \cup spent /\ \A u \in User : has[u] # k

Offer(k) ==
    /\ open /\ New(k) /\ Cardinality(stock) < Room
    /\ stock' = stock \cup {k}
    /\ UNCHANGED <<has, gone, spent, open>>

TurnAway(k) ==
    /\ New(k)
    /\ spent' = spent \cup {k}
    /\ UNCHANGED <<stock, has, gone, open>>

Hand(k, u) ==
    /\ k \in stock /\ has[u] = NoWork /\ u \notin gone
    /\ stock' = stock \ {k}
    /\ has' = [has EXCEPT ![u] = k]
    /\ UNCHANGED <<gone, spent, open>>

(* The user is done with the connection: it tries another one, or leaves. *)
Return(u) ==
    /\ has[u] # NoWork
    /\ spent' = spent \cup {has[u]}
    /\ has' = [has EXCEPT ![u] = NoWork]
    /\ gone' \in {gone, gone \cup {u}}
    /\ UNCHANGED <<stock, open>>

GiveUp(u) ==
    /\ has[u] = NoWork /\ u \notin gone
    /\ gone' = gone \cup {u}
    /\ UNCHANGED <<stock, has, spent, open>>

Shut ==
    /\ open /\ open' = FALSE
    /\ UNCHANGED <<stock, has, gone, spent>>

Throw(k) ==
    /\ ~open /\ k \in stock
    /\ stock' = stock \ {k} /\ spent' = spent \cup {k}
    /\ UNCHANGED <<has, gone, open>>

Next ==
    \/ \E k \in Work : Offer(k) \/ TurnAway(k) \/ Throw(k) \/ \E u \in User : Hand(k, u)
    \/ \E u \in User : Return(u) \/ GiveUp(u)
    \/ Shut

Spec == Init /\ [][Next]_vars
=============================================================================
