----------------------------- MODULE FrpcDaemon -----------------------------
(***************************************************************************)
(* The YouFrp client daemon (client 0.60.0): it runs frpc on the tunnels   *)
(* that a database lists for the user and the node, looks again on every   *)
(* tick, and when the file it would write differs from frpc.toml it kills  *)
(* frpc, replaces the file and starts frpc on it.  The comparison is with  *)
(* the file, never with what runs: a frpc that has exited, or failed to    *)
(* start, is not missed.  The file and the frpc processes outlive a kill   *)
(* of the daemon.                                                          *)
(***************************************************************************)
EXTENDS Naturals

CONSTANTS Tunnel,    \* rows of the table of tunnels, for this user and node
          Frpc,      \* frpc processes; an identity is used again after an exit
          MaxEdits,  \* bound: changes of the table
          MaxKills,  \* bound: how often the daemon is killed
          NoFrpc

ASSUME DaemonAssumption ==
    /\ NoFrpc \notin Frpc /\ \A S \in SUBSET Tunnel : S # NoFrpc
    /\ MaxEdits \in Nat /\ MaxKills \in Nat

VARIABLES
    db,        \* the tunnels in the table
    step,      \* where the daemon is in main or checkAndReloadConfig
    fetched,   \* what the temporary file is made of
    toml,      \* the tunnels in frpc.toml; NoFrpc if it is missing or torn
    running,   \* the frpc processes that run
    loaded,    \* the tunnels each has read from frpc.toml
    child,     \* frpcProcess
    own,       \* the processes this daemon has started, not an earlier one
    edits, kills

daemonVars == <<db, step, fetched, toml, running, loaded, child, own, edits, kills>>

DaemonInit ==
    /\ db \in SUBSET Tunnel
    /\ step = "boot"
    /\ fetched = {} /\ toml = NoFrpc
    /\ running = {} /\ own = {}
    /\ loaded = [f \in Frpc |-> NoFrpc]
    /\ child = NoFrpc
    /\ edits = 0 /\ kills = 0

-----------------------------------------------------------------------------
(* getProxiesByUsername: a row that cannot be scanned is skipped, and the  *)
(* loop over the rows takes the end of a broken connection for their end.  *)
Fetched(S) == S \subseteq db

(* generateAndStartFrpc: no tunnel, or no answer, ends the daemon. *)
Boot ==
    /\ step = "boot"
    /\ \E S \in SUBSET Tunnel :
        /\ Fetched(S) /\ S # {}
        /\ toml' = S
    /\ step' = "bootStart"
    /\ UNCHANGED <<db, fetched, running, loaded, child, own, edits, kills>>

(* The query fails, or the write of frpc.toml does on its way. *)
BootFails ==
    /\ step = "boot"
    /\ step' = "ended"
    /\ toml' \in {toml, NoFrpc}
    /\ UNCHANGED <<db, fetched, running, loaded, child, own, edits, kills>>

StartFrpc ==
    /\ step \in {"bootStart", "start"}
    /\ \E f \in Frpc \ running :
        /\ running' = running \cup {f}
        /\ own' = own \cup {f}
        /\ child' = f
    /\ step' = "idle"
    /\ UNCHANGED <<db, fetched, toml, loaded, edits, kills>>

(* exec fails: frpcProcess is a command without a process. *)
StartFrpcFails ==
    /\ step \in {"bootStart", "start"}
    /\ child' = NoFrpc
    /\ step' = IF step = "bootStart" THEN "ended" ELSE "idle"
    /\ UNCHANGED <<db, fetched, toml, running, loaded, own, edits, kills>>

-----------------------------------------------------------------------------
(* checkAndReloadConfig                                                    *)

(* Fault: the file is replaced before frpc is stopped. *)
TickReplaces ==
    /\ step = "idle"
    /\ \E S \in SUBSET Tunnel :
        /\ Fetched(S)
        /\ fetched' = S /\ toml' = S
        /\ step' = IF S = toml THEN "idle" ELSE "stop"
    /\ UNCHANGED <<db, running, loaded, child, own, edits, kills>>

(* Fault: the new file is compared with itself. *)
TickBlind ==
    /\ step = "idle"
    /\ \E S \in SUBSET Tunnel : Fetched(S) /\ fetched' = S
    /\ UNCHANGED <<db, step, toml, running, loaded, child, own, edits, kills>>

(* isConfigChanged decides; a query that fails is like no change. *)
Tick ==
    /\ step = "idle"
    /\ \E S \in SUBSET Tunnel :
        /\ Fetched(S)
        /\ fetched' = S
        /\ step' = IF S = toml THEN "idle" ELSE "stop"
    /\ UNCHANGED <<db, toml, running, loaded, child, own, edits, kills>>

(* A process that runs no more; NoFrpc does not run. *)
Ends(f) ==
    /\ running' = running \ {f}
    /\ loaded' = [g \in Frpc |-> IF g = f THEN NoFrpc ELSE loaded[g]]

(* Fault: frpc is not killed. *)
StopNothing ==
    /\ step = "stop"
    /\ step' = "replace" /\ child' = NoFrpc
    /\ UNCHANGED <<db, fetched, toml, running, loaded, own, edits, kills>>

(* stopFrpc kills its child and waits for it; the error for a child that   *)
(* has exited already is only logged.  (A kill of a child that runs is     *)
(* never refused here.)                                                    *)
StopFrpc ==
    /\ step = "stop"
    /\ Ends(child)
    /\ child' \in {NoFrpc} \cup ({child} \ running)
    /\ step' = "replace"
    /\ UNCHANGED <<db, fetched, toml, own, edits, kills>>

Replace ==
    /\ step = "replace"
    /\ toml' = fetched
    /\ step' = "start"
    /\ UNCHANGED <<db, fetched, running, loaded, child, own, edits, kills>>

(* Neither the rename nor the copy succeeds, and the copy may have emptied *)
(* frpc.toml first: frpc stays down until a tick finds the files different *)
(* again.                                                                  *)
ReplaceFails ==
    /\ step = "replace"
    /\ step' = "idle"
    /\ toml' \in {toml, NoFrpc}
    /\ UNCHANGED <<db, fetched, running, loaded, child, own, edits, kills>>

-----------------------------------------------------------------------------
(* The rest of the world                                                   *)

Edit ==
    /\ edits < MaxEdits
    /\ edits' = edits + 1
    /\ \E S \in SUBSET Tunnel : S # db /\ db' = S
    /\ UNCHANGED <<step, fetched, toml, running, loaded, child, own, kills>>

FrpcLoads(f) ==
    /\ f \in running /\ loaded[f] = NoFrpc
    /\ loaded' = [loaded EXCEPT ![f] = toml]
    /\ UNCHANGED <<db, step, fetched, toml, running, child, own, edits, kills>>

(* frpc exits: the server refuses the first login, or it crashes. *)
FrpcExits(f) ==
    /\ f \in running
    /\ Ends(f)
    /\ UNCHANGED <<db, step, fetched, toml, child, own, edits, kills>>

(* The daemon is killed, at any line; its frpc runs on. *)
Killed ==
    /\ step # "ended" /\ kills < MaxKills
    /\ kills' = kills + 1
    /\ step' = "ended"
    /\ UNCHANGED <<db, fetched, toml, running, loaded, child, own, edits>>

(* It is started anew. *)
Restarted ==
    /\ step = "ended" /\ kills > 0
    /\ step' = "boot" /\ child' = NoFrpc /\ own' = {}
    /\ UNCHANGED <<db, fetched, toml, running, loaded, edits, kills>>

-----------------------------------------------------------------------------
Daemon == Boot \/ StartFrpc \/ Tick \/ StopFrpc \/ Replace

DaemonNext ==
    \/ Daemon \/ BootFails \/ StartFrpcFails \/ ReplaceFails
    \/ Edit \/ Killed \/ Restarted
    \/ \E f \in Frpc : FrpcLoads(f) \/ FrpcExits(f)

DaemonSpec == DaemonInit /\ [][DaemonNext]_daemonVars

(* The ticker ticks, and a start that is tried again and again succeeds.   *)
DaemonFairness ==
    /\ WF_daemonVars(Daemon \/ BootFails) /\ SF_daemonVars(StartFrpc)
    /\ \A f \in Frpc : WF_daemonVars(FrpcLoads(f))

DaemonFairSpec == DaemonSpec /\ DaemonFairness

-----------------------------------------------------------------------------
DaemonTypeOK ==
    /\ db \subseteq Tunnel /\ fetched \subseteq Tunnel
    /\ step \in {"boot", "bootStart", "idle", "stop", "replace", "start", "ended"}
    /\ toml \in {NoFrpc} \cup SUBSET Tunnel
    /\ running \subseteq Frpc /\ own \subseteq Frpc
    /\ loaded \in [Frpc -> {NoFrpc} \cup SUBSET Tunnel]
    /\ child \in Frpc \cup {NoFrpc}
    /\ edits \in 0..MaxEdits /\ kills \in 0..MaxKills

(* The daemon never runs two frpc at a time, and can always kill the one   *)
(* that runs: two would fight for the same proxy names.  What a daemon     *)
(* that was killed has left behind is not meant: that it does not know.    *)
OneChild == \A f \in running \cap own : f = child

(* What frpc runs is what frpc.toml says, at every step of a reload: so    *)
(* the comparison with the file is as good as one with what runs.          *)
RunsTheFile ==
    \A f \in running \cap own : loaded[f] \in {NoFrpc, toml}

(* In the end every query returns all rows and every rename succeeds. *)
FaultsEnd ==
    /\ <>[][Tick => fetched' = db]_daemonVars
    /\ <>[][~ReplaceFails]_daemonVars

(* Whatever failed on the way, and however often the table was changed or  *)
(* the daemon was killed, the file catches up with the table.              *)
FollowsTable == FaultsEnd => []<>(toml = db \/ step = "ended")

=============================================================================
