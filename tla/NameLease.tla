----------------------------- MODULE NameLease -----------------------------
(***************************************************************************)
(* What frps promises about proxy names, whatever its goroutines do: a     *)
(* name belongs to at most one session, only a live session is given one,  *)
(* a session does not end while it still holds one, and a client (a run    *)
(* ID) has one live session at a time, until the service is shut down.     *)
(* ProxyRegistry implements this specification.                            *)
(***************************************************************************)
CONSTANTS Session,  \* one login of a client
          Client,   \* client identities (run IDs)
          Name,     \* proxy names
          None      \* no session

VARIABLES lease,    \* [Name -> Session \cup {None}]: who holds the name
          live,     \* [Client -> SUBSET Session]: the sessions being served
          ended,    \* sessions that are over
          down      \* the service has been told to shut down

vars == <<lease, live, ended, down>>

Init == /\ lease = [n \in Name |-> None]
        /\ live = [r \in Client |-> {}]
        /\ ended = {}
        /\ down = FALSE

Alive(s) == \E r \in Client : s \in live[r]

(* A session starts once no other session of its client is being served. *)
Begin(r, s) == /\ ~Alive(s) /\ s \notin ended
               /\ down \/ live[r] = {}
               /\ live' = [live EXCEPT ![r] = @ \cup {s}]
               /\ UNCHANGED <<lease, ended, down>>

Grant(n, s) == /\ lease[n] = None /\ Alive(s)
               /\ lease' = [lease EXCEPT ![n] = s]
               /\ UNCHANGED <<live, ended, down>>

Release(n, s) == /\ lease[n] = s /\ Alive(s)
                 /\ lease' = [lease EXCEPT ![n] = None]
                 /\ UNCHANGED <<live, ended, down>>

(* A session ends with nothing left in its hands. *)
End(r, s) == /\ s \in live[r]
             /\ \A n \in Name : lease[n] # s
             /\ live' = [live EXCEPT ![r] = @ \ {s}]
             /\ ended' = ended \cup {s}
             /\ UNCHANGED <<lease, down>>

ShutDown == /\ ~down /\ down' = TRUE
            /\ UNCHANGED <<lease, live, ended>>

Next == \/ \E r \in Client, s \in Session : Begin(r, s) \/ End(r, s)
        \/ \E n \in Name, s \in Session : Grant(n, s) \/ Release(n, s)
        \/ ShutDown

Spec == Init /\ [][Next]_vars
=============================================================================
