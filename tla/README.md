# Verification of frp as YouFrp ships it

This directory holds TLA+ models of the reverse proxy in `src/frp-0.65.0`
(frp 0.65.0 with the YouFrp token and proxy checks added to `pkg/api`) and of
the YouFrp daemon that keeps the client running, the TLC runs that check them
on small instances, and the theorems about them that TLAPS checks for every
instance. `PROJECT.json` lists the components, the runs, the source lines of
every definition, the hazards and the theorems.

The rest of the repository is an older release of the same server
(`src/frps/SakuraFrp-0.28.2`), earlier and simpler clients beside the daemon, a
Windows form that starts the client (`src/YouFrpClient`), and small scripts.
None of that is modelled.

## 1. Inventory

The client (frpc) opens one control connection to the server (frps). The server
keeps a *control* per logged-in client; the client asks it to register proxies.
When a user connects to a proxy, the server asks the client over the control
connection for a *work connection*; the client dials one back, and the two are
joined.

| part | state | operations | talks to | hard because | what makes it correct |
|---|---|---|---|---|---|
| controls, `server/control.go`, `server/service.go` | controls by run ID, per control its proxies, quota, `doneCh` | login (replace), start, register and close a proxy, heartbeat, teardown, delete | proxy manager, port manager, client | a login waits for the control it replaces; handlers of several controls interleave; errors undo half of a registration | one served control per client; names, listeners and quota exact; every login answered |
| proxy manager, `server/proxy/proxy.go` | proxies by name | exist, add, delete by name | controls | check first, add later; delete does not say whose | a name belongs to one control, which knows it |
| port manager, `server/ports/ports.go` | free, used and reserved ports | acquire, release by number, daily cleaning | tcp and udp proxies, the OS | the ledger and the sockets change at different moments; a udp proxy closes twice | no port lost, none owned twice |
| work connections, `server/control.go`, `server/proxy/proxy.go` | `workConnCh`, requests under way | request, pool, take, replace, time out, drain | client, user connections | dead pooled connections, timeouts against late arrivals, the channel closed under its senders, requests that wait for a client that does not read | each connection carries one user; every user answered; enough requested |
| proxy wrappers, `client/proxy` | phase, health, local proxy | start, resend, answer, stop, reload | server | answers carry a name only; resends and reloads overlap | client and server agree on what runs |
| client control, `client/control.go`, `pkg/msg/handler.go`, `pkg/transport/message.go` | connection, send channel, locks | send and read loops, stop of all proxies, reload | wrappers, service | locks held while a bounded channel is full | the control ends, and stops each proxy once |
| client service, `client/service.go` | `svr.ctl`, configuration | login loop, reload, stop | client control, visitors | login against stop, reload against login; the lock covers only some reads of `svr.ctl`, and is held while a control is closed | one session; the client reconnects; the control of today runs the latest configuration |
| YouFrp client daemon, `yougo_toml_daemon.go` | `frpc.toml`, the process it has started | boot, tick, stop, replace, start | database, frpc, file system | queries, renames and starts that fail; kill and restart of the daemon | one frpc, which runs what the file says; the file follows the table |
| health monitor, `client/health` | failures in a row | check, callbacks | wrappers | flapping | callback exactly at changes |
| visitors, `client/visitor`, `server/visitor` | visitors by name, local ports | start, tick, close, reload | client service, other processes | a successor starts before its predecessor is closed for good; late ticks and reloads | configured visitors run, as last configured |
| groups, `server/group` | members, shared listener or route | join, leave, dispatch | port manager, router, users | lookup and join under different locks | members get connections; ports and routes go with the last member |
| routing, `pkg/util/vhost` | routes by domain, user and location | add, delete, get | http, https, tcpmux proxies | wildcards, users, longest prefix; deletion does not say whose | the most specific route; a route belongs to who added it |
| NAT holes, `pkg/nathole`, `server/proxy/xtcp.go` | sessions, listening proxies, scores | visitor, client, report, close | xtcp proxies, visitors | a channel without buffer or timeout; names deleted by name | a visit ends; roles fit the NATs; no behaviour is starved |
| backoff, `pkg/util/wait` | delay | next delay | service, visitors | boundaries of the delay | bounded, growing delay |
| udp and sudp, `server/proxy/udp.go`, `client/proxy/udp.go`, `pkg/proto/udp` | one work connection at both ends, three channels | get, replace, read, forward, close | work connections, users | the channels are closed under their senders; work connections arrive late; with a bandwidth limit `Close` closes nothing | one connection at a time; none left behind; no send on a closed channel |
| auth and API, plugins | none of their own | accept or refuse | controls | remote calls | a refusal changes nothing |
| ssh gateway, vnet, metrics, dashboards, configuration, transport helpers | counters, parsed values, buffers | I/O | all | none that these models reach | |

## 2. Modules

| module | models | builds on |
|---|---|---|
| `NameLease` | what the server promises about names and sessions (abstract) | |
| `ProxyRegistry` | controls, proxy manager, and the tcp listeners of proxies | implements `NameLease` |
| `PortManager` | port ledger, reservations and the sockets of tcp and udp proxies | |
| `ConnHandout` | what the pool promises about work connections (abstract) | |
| `WorkConnPool` | requests, pool and users of work connections | implements `ConnHandout` |
| `ProxyHandshake` | one wrapper and its counterpart on the server | |
| `ClientControl` | how a client control ends | |
| `ClientService` | one control after another; reload and stop | |
| `VisitorManager` | the visitors of those controls and their local ports | |
| `FrpcDaemon` | the daemon, its file, its table and frpc processes | |
| `TCPGroup` | groups of tcp proxies: ports, members, dispatch | |
| `HTTPGroup` | who owns an http route: proxies and groups of them | |
| `VhostRouter` | which route a request finds | |
| `NatHole` | sessions between visitors and xtcp proxies | |
| `NatAnalyzer` | classification of NATs, scores, roles | |
| `UDPTunnel` | the work connections of a udp proxy at both ends | |
| `MCPortManager`, `MCWorkConnPool` | symmetry sets for TLC | the module named |
| `MCControls` | controls, ports and pool of the server side by side | `ProxyRegistry`, `PortManager`, `WorkConnPool` |
| `MCFrps` | seven more parts of the server side by side | `ProxyHandshake`, `TCPGroup`, `HTTPGroup`, `VhostRouter`, `NatHole`, `NatAnalyzer`, `UDPTunnel` |
| `MCFrpc` | four parts of the client side by side | `ClientControl`, `ClientService`, `VisitorManager`, `FrpcDaemon` |
| `ProxyRegistryProofs`, `PortManagerProofs`, `WorkConnPoolProofs`, `ProxyHandshakeProofs`, `ClientControlProofs` | theorems | the module named, TLAPS |
| `GroupProofs` | theorems about groups, routes and the router | `TCPGroup`, `HTTPGroup`, `VhostRouter`, TLAPS |
| `FrpcProofs` | theorems about service, daemon and visitors, and about the client machine as a whole | `MCFrpc`, `ClientControlProofs` |
| `FrpsProofs` | theorems about hole punching, the analyzer and the udp tunnel, and about the server's parts as a whole | `MCFrps`, `ProxyHandshakeProofs`, `GroupProofs` |

A comment that starts with "Fault:" marks a definition that no specification
uses: it is the neighbouring definition with a plausible bug. Put in its place,
it makes one of the properties fail, which shows that the property depends on
that code.

`MCControls`, `MCFrps` and `MCFrpc` put modules that share no state side by
side. A variable `part` says which one works in a behaviour; the others stay as
they start, so that the state spaces add up instead of multiplying. Each part
keeps the fairness of its own specification. A liveness property that begins with the
work of its part has a premise on `part`.

### ProxyRegistry

The actions are the steps of goroutines between two points where another
goroutine may run. `Login` is `ControlManager.Add` under its mutex, `Start` is
the return of `WaitClosed` followed by `Control.Start`. A registration is
`NewProxy` (quota under `ctl.mu`), `Exist`, `RunOK` or `RunFails`, `Add`, then
`Put` or `Rollback`; the error returns include the deferred functions of
`RegisterProxy`. `CloseProxy` and `CloseDel`, `TearClose` and `TearDel` are the
two halves of a close, by message and in `worker`. A control runs one handler
at a time (`step`), because `Dispatcher.readLoop` calls handlers itself; the
teardown begins only when that loop has returned.

A port here is a tcp port as the operating system sees it: `Run` of a tcp proxy
ends with a listener on it (`RunOK`), and `Close` closes the listener the proxy
has (`CloseListeners`). What the ledger of `ports.Manager` says is not part of
this module: it can only make `Run` fail, which `RunFails` may do at any time,
and it may be wrong (finding 1, and the reserved path of `Acquire`), which is
why `PortManager` models it against the sockets. `ListenersExact` holds whatever
the ledger says, because `net.Listen` has to agree. Proxies that count a port in
the quota and have no tcp listener of their own (udp, members of a tcp group)
ask for `Counted`, all others for `NoPort`; `Asked` says which of these a run
uses. Data that only passes through (config fields, metrics, plugin contents) is
left out; a plugin, the validator or the YouFrp API check that refuses a message
changes nothing, and is the absence of a step. The heartbeat timeout is
`ConnLost` at any time.

What a control still has in its map and its count when its worker ends is read
by nobody; `WorkerExit` discards it, so that finished controls are alike
(`Discard`).

`Del` works by name and ignores the owner, as in the code. That the owner is
always right is what `RegistryExact` shows.

### PortManager

`bound` is the operating system's view. `Acquire` looks at it for an instant
(`IsPortAvailable`), `Listen` and `CloseSocket` change it, and other processes
may take and give ports at any time. A `PortCtx` is identified with the proxy
it was created for; its two fields are `open`, `closed` and `expired`, the last
after a day. `CloseAgain` is the second call of `UDPProxy.Close`. `MaxTry` is
the 5 of the code.

### WorkConnPool

`ctl` follows the control from `running` over `stopped` (dispatcher done, the
channel still open), `draining` and `done` to `reaped` (no longer found by run
ID). `workConn` says where each work connection is, `user` where each user
connection is in `GetWorkConnFromPool`. `lost` counts the requests that brought
no connection to the pool, for `SupplyMeetsDemand` only. A request goes through
the send channel of the dispatcher: `due` are those `Start` has still to put
there, `outbox` those in the channel, which has room for `SendCap`; a user
whose request does not fit stands at `asking`, before its timer is started,
until `sendLoop` gets on (`Transmit`) or the dispatcher is done. A connection
that is pooled after the channel was closed becomes an `orphan`: the panic is
recovered and the caller sees no error, so that nobody closes it.

`ConnHandout` is the same without goroutines: a stock of connections, who was
handed which, and whether the stock still takes any. The stock is what lies in
the channel, a user has the connection from the moment it has received it, and
the end of the channel is the close in `Control.worker`. In it a connection is
offered once and handed over once by the form of its actions, so that
`ImplementsHandout` says it of the code.

### ProxyHandshake

Two FIFO channels, the phase of a wrapper, and what the server runs under the
name. `version` tells the configurations apart. `faults` is a history variable:
that the server refused, that a request was sent again, that the local proxy
failed.

### ClientControl

The locks `Wrapper.mu` and `Manager.mu`, the bounded send channel as a count,
and the three callers that stop proxies. A goroutine that holds a lock and
waits for the channel is a state in which its action is disabled.

### ClientService

The keeper (`keepControllerWorking` with the login loop), reloads and stop
share `svr.ctl`. The actions stand between the places where the code takes or
releases `svr.ctlMu`: a login succeeds, reads the configuration and runs the
control (`MakeControl`, or `MakeFails` when `NewControl` does not make one),
takes the lock (`InstallLock`), closes the previous control under it, and
installs the new one (`Install`); `StopLock` and `StopService` are the same for
the stop. A reload stores the configuration, tests `svr.ctl` for nil, and uses
it.

`wrappers` says whether those of a control are stopped, at work, or blocked.
`Manager.UpdateAll` does not look at `pm.closed`, so that a reload starts the
wrappers of a control that is done; a wrapper at work on a session that is over
may block in a send with its lock held (`Block`), and then neither `UpdateAll`
nor `Close` of that control goes on. How a channel fills up is `ClientControl`'s
subject; here it may happen at any time after the session is lost. `overlap` is
a history variable: a reload overlapped with the making of a control or with
another reload. `crash` is the nil dereference that a stop between a test and a
use of `svr.ctl` leads to.

### VisitorManager

One manager per control, one local port per visitor. `UpdateAll`, `Close` and a
tick hold the mutex of the manager and are one action each. A manager may be
told to update, and may tick once more, after it was closed: `Close` does not
mark it, and Go may choose the tick although `stopCh` is closed. The successor
starts its visitors before it is installed, and only the installation closes
the predecessor a second time; a port that a late tick of the predecessor took
is free again then. A port taken even later stays taken (`Escaped`). Another
process may hold a port at first.

### FrpcDaemon

The rows of the table, the temporary file, `frpc.toml`, and the processes with
what each has read from the file. `own` are those this daemon has started: a
daemon that is killed leaves its frpc behind, and the next one does not know
it. The comparison of a tick is with the file and not with what runs. A frpc
may exit at any time, a query may lose rows, a rename or a start may fail.
`os.Rename` fails across file systems and the copy that replaces it truncates
`frpc.toml` before it may fail, so that a failed replacement leaves the old file
or a torn one. Killing a child that runs is taken to succeed: `stopFrpc` logs an
error and goes on, and a kill that is refused while the process runs is left out.

### TCPGroup, HTTPGroup and VhostRouter

`TCPGroupCtl.Listen` is two actions, `LookUp` and the join: the mutex of the
controller is released in between. `lost` are ports that `Listen` acquired and
dropped when `net.Listen` failed. `acceptCh` is made only when it is nil, so a
group that was closed and joined again has a closed channel; leaving it closes
the channel twice (`panicked`). The worker of a group holds one connection of a
user at a time.

In `HTTPGroup` the router maps a route to its owner, a proxy or a group, and
`Del` does not look at the owner, as in the code. A plain proxy adds its routes
one by one. A member finds its group under one lock, registers under another,
and unregisters by the name of the group, so that it may find nothing, or a
group that was made since. A group of the code keys its members by the name of
the proxy; the proxies here have different names, and what two proxies of one
name do to a group between `Exist` and `Add` is not modelled.

`VhostRouter` is the search: for each domain and user the locations in the
order in which `Add` sorts them, and `GetVhost` as `getVhost` and `getListener`
do it. `MostSpecific` compares with a definition that has no order: the routes
that fit a request, and which of two is the more specific. Requests that a
wildcard over a top-level domain (`Short`) fits are left out of it: the loop
ends before it would try one, although the comment above it
(`pkg/util/vhost/http.go:224-226`) lists `*.com` for `test.example.com`.

### NatHole and NatAnalyzer

A visit is the goroutine of one NatHoleVisitor message, from the lookup of the
proxy over the handover of the sid to the analysis and the end of the session.
The goroutine of the proxy takes a sid, gets a work connection for it, or
fails to (`DropSid`). `CloseClient` deletes by name. `NatAnalyzer` is the
arithmetic: what two STUN servers saw of each end, the tables of behaviours,
the record of scores of a pair, and which end is told which half. `tries` and
`reports` count for the bounds and for `TriesSpread`.

### UDPTunnel

On the server: the goroutine that gets work connections (`asker`), a reader and
a writer for each, the forwarder of users' datagrams, and `Close`, in two steps
because the others run between the closing of the socket and that of the
channels. A panic that `PanicToError` recovers ends its goroutine; the one that
nobody recovers ends frps. On the client: a goroutine per StartWorkConn that
clears the old connection and stores the new one under two separate locks.
`strayed` are the connections that the client cannot find any more: stored
after the stop, or covered by the store of another goroutine while they were
open.

A proxy with a bandwidth limit wraps its work connections in a connection whose
close function is a closure over the variable that the wrapper itself is
assigned to (`server/proxy/udp.go:219-223`, `client/proxy/udp.go:99-115`), so
that `Close` closes nothing. `LimitedAt` says which end limits, and `ServerShut`
and `ClientShut` are what `Close` does there. `OneWorkConn` and `WorkConnsEnd`
are checked for a proxy without a limit; finding 8 is what becomes of the first
with a limit at the server. Datagrams are not told apart.

## 3. Runs

| run | shows | bounds |
|---|---|---|
| `controls_safety` | controls: names, listeners and quota exact in all interleavings; ports: none lost, owners exact on a plain manager; pool: every step is a step of `ConnHandout` (connections are handed over once, to one user), supply sufficient, none forgotten | 3 controls, 2 run IDs, 2 names, 1 port, quota 1; 3 proxies, 2 names, 2 ports, 1 try, tcp or udp; 2 users, 3 connections, pool of 1, room for 2, send channel of 1 |
| `controls_liveness` | controls: every step is a step of `NameLease`; entries by run ID go only by themselves or by a successor; resources come back, logins are answered; pool: users of a client that reads answered | 3 controls of one client, 1 name, 1 port, and proxies counted without a listener; 2 users, 2 connections, pool of 1, send channel of 1 |
| `frpc_parts` | control: wrappers stopped once, dispatcher exits, and the control unless stuck; service: one session, reloads kept, reconnection unless wrappers block; daemon: one child, which runs the file, and the file follows the table; visitors: all come up | 3 wrappers, channel of 2, 2 checks; 3 logins, 2 reloads; 2 tunnels, 2 frpc, 1 edit, 1 kill; 2 managers, 1 visitor, 2 configurations, 2 reloads |
| `frps_parts` | handshake: closed is gone, running unless refused, recovery; groups: ports, listing, routes, reachability, no stranded connection; router: most specific route; holes: who listens is found, sessions end; analyzer: roles fit, tries spread; udp without a bandwidth limit: one work connection, none left in the end | channels of 3, 2 reloads; 3 members, 2 group objects of 1 name, 2 ports, 1 user; 1 plain and 3 grouped http proxies, 3 group objects, 2 routes; 5 domains, 3 locations, 2 users, 3 routes at a time, 18 requests; 2 visits, 2 xtcp proxies of one name; 9 pairs of NATs, 3 tries, 1 report; 2 work connections |
| `ports_reserved` | *violated*, finding 1 | ports as in `controls_safety`, udp |
| `pool_started` | *violated*, finding 2 | pool as in `controls_safety` |
| `handshake_stale` | *violated*, finding 3 | channels of 3, 1 reload |
| `control_hang` | *violated*, finding 4 | 2 wrappers, channel of 1, 2 checks |
| `group_dispatch` | *violated*, finding 5 | 2 group objects |
| `udp_channels` | *violated*, finding 6 | 2 work connections |
| `service_outage` | *violated*, finding 7 | 2 logins, 1 reload |
| `udp_limited` | *violated*, finding 8 | 2 work connections, limit at the server |

Why these bounds reach the interesting cases. Three controls are needed for a
chain of replacements in which the middle one has not started, and for two
clients of which one reconnects. One port and a quota of one make every
registration compete; two names let one control hold two proxies. Three proxies
over two ports let a released port find a second owner while the first still
has to release again. Three work connections over a pool with room for two
fill it, and a pool count of one leaves two tries before the last failure; the
second request that waits fills a send channel of one, as 100 fill that of the
code. For `UsersAnswered` two connections are enough: they are the two tries of
one user, or one for each of two. In `ProxyHandshake` a channel of three holds Close, NewProxy and a resend
together; two reloads let an answer outlive two configurations. In
`ClientControl` a channel smaller than the number of wrappers is what a channel
of 100 is to more than 100 proxies. In `ClientService` three logins let a
reload aim at a control that was replaced twice; two reloads cross each other.
Three members let one join while another leaves and a third stays; two objects
of one name are a closed group and its successor. Two managers are a control
and its successor, between which all races of the visitors lie. Two tunnels let
a query lose one; with two frpc one may be left behind by a killed daemon. Two
visits compete for one proxy, and two proxies of one name for it. The nine
pairs of NATs are all pairs of the three classes that the analyzer tells apart.
The domains of the router are exact hosts, wildcards of different length and
`*`; three routes at a time are enough for two that fit and one in the way. Two
work connections are an old and a new one; the same part was also run with
three (772,000 states, nothing new).

Counters are bounded by the constants whose names begin with `Max`, in guards;
the other sets are finite because each control, proxy, member, visit or
connection object is used once, as in the code. All runs switch the deadlock
check off: each model comes to rest when every object is used up.

Symmetry is used only in runs without liveness properties. `controls_safety`
gives its three parts the same model values (three controls, three proxies and
three work connections are `x1` to `x3`), so that one group of permutations
serves all three; only one part works in a behaviour, so that the values never
meet.

### Fairness

- `ProxyRegistry`: weak fairness of the server's steps for each control.
  Goroutines are scheduled, and the plugin and API calls in handlers return.
  Nothing is assumed of clients: neither that they send, nor that they leave.
- `WorkConnPool`: weak fairness of each user's goroutine; `UserConnTimeout` is
  a timer. `UsersAnswered` assumes in addition that the client reads its
  control connection (`ReadingSpec`): `Send` waits for room in the channel
  before the timer is started, and nothing in the server makes a client read.
  Without that assumption the property fails (end of section 5).
- `ProxyHandshake`: weak fairness of the periodic `checkWorker` and of the two
  message loops. Health may flap for ever; `Recovers` speaks of runs in which
  it stays good in the end and no fault was recorded.
- `ClientControl`: one weak fairness condition for all goroutines together,
  with writes only after the connection is closed, when they cannot block.
- `ClientService`: weak fairness of the goroutines, strong fairness of a login
  that succeeds and of the making of its control: the loop tries for ever, frps
  is not away for ever, and `NewControl` does not fail for ever. Closing a
  control whose wrappers are blocked is not enabled, so that nothing is assumed
  of it; `Reconnects` names that exception, and finding 7 shows it is needed.
- `FrpcDaemon`: weak fairness of the daemon's loop and of a frpc that has
  started, strong fairness of a start that succeeds. That faults of queries and
  renames end is a premise of `FollowsTable`, not an assumption.
- `VisitorManager`: weak fairness of the goroutines and the ticker, and the
  other process gives a port up at some time.
- `TCPGroup`: weak fairness of the worker, of accept loops, and of a leave that
  has begun. Nothing is assumed of users.
- `NatHole`: weak fairness of both goroutines and their timers. Nothing is
  assumed of visitors, or of the client of the proxy.
- `UDPTunnel`: weak fairness of the goroutines; a reader notices that its
  connection is closed; the stop of the client reaches the server. Nothing is
  assumed of users, or of when a work connection can be had.

## 4. Theorems

All are for arbitrary sets of controls, clients, names, ports, proxies, users
and connections, and for arbitrary limits and capacities. The assumptions are
named in the module that declares the constants, and TLC evaluates them in every
run that extends it. Most say that nil values ("no port", "no entry", "nobody")
are not among the values they are mixed with: `SentinelAssumption`,
`HandshakeAssumption`, `DaemonAssumption`, `VisitorAssumption`,
`GroupAssumption`, `RouteAssumption`, `HoleAssumption`, `UdpAssumption`.
`AskedAssumption` says that the ports asked for are among those there are. Four
ask for finite sets where a proof counts: names in `LimitAssumption`, users and
connections in `PoolAssumption`, wrappers in `ControlAssumption`, reloads in
`ServiceAssumption`. `NatAssumption` and `RouterAssumption` give the form of
addresses, domains and locations; a domain has at least one label, which
splitting a string guarantees.

A liveness property cannot be proved here. What can be is why it holds: that a
goroutine which must go on is never blocked by one that waits for it (an
invariant), and that each of its steps brings the end nearer while no other
goroutine sets it back (an action property about a number that falls). The
theorems of this kind are marked (*). ENABLED is out of reach as well, so that
"can go on" is written as the disjunction of the guards.

`ProxyRegistryProofs`:

- `Typing`: type correctness, action by action.
- `NamesExact`: `RegistryExact` is inductive together with `Shape`, which says
  where a control can be in a handler: a control in the middle of a handler is
  running or stopping, what it closes is in its map, what it is about to put is
  not.
- `OneControlServed` and `NoNameLeftBehind`: neither is inductive, since `prev`
  alone does not say that a control that was replaced before it started comes
  after those it is itself waiting for. The strengthening `SessionInv` asserts
  that there is a relation `R`, the order of the logins: transitive and
  irreflexive; total on the unfinished controls of a client; every unfinished
  login of the client before a given one is at or before the control that one
  waits for; and the run ID leads to the last. Each login extends `R`.
- `RegistryIsALease`: `Spec => Lease!Spec`, from the invariants above; the
  mapping takes `pxys` for the leases and the active controls of a run ID for
  its live sessions.
- `ListenersAreExact`: `ListenersExact` from `RegistryInv` and a lemma per action
  that moves a port between "in hand" and "held". The ledger does not enter.
- `QuotaCountsPorts`: `portsUsedNum` is a cardinality, which needs finitely many
  names.
- `AliveIsFound`: a control with an open connection is the entry of its run ID.
- `EntriesStay`: the action property `EntryStays`, from the fact that what a run
  ID leads to has logged in.
- `LoginsAreNotStuck` (*): in every set of controls that contains what its
  waiting members wait for, one can go on. `WaitInv` gives each control a rank
  below that of its successors; the waiting control of least rank, which exists
  because the natural numbers are well founded, waits for one that does not
  wait and has no connection.
- `ClosedControlsEnd` (*): `Left`, the steps a control without connection still
  has, falls with each of its steps and with none of another.
- `FinishedKeepsNothing`: so at the end nothing is left with it.

`PortManagerProofs`:

- `PortsTyped`, with `Places`: whoever releases a port, and whatever a
  reservation leads to, has acquired one. Without it a release by number could
  be a release of nothing.
- `LedgerIsAPartition` and `PortsAreNotLost`: each inductive on top of that.
- `OwnersExact` and `ReservationsExpire`, together, under `Plain` (a tcp
  manager, every remote port given). `PlainBefore` shows that a plain state has
  only plain predecessors, so that the induction can stay inside.

`WorkConnPoolProofs`:

- `PoolTyped`, with `Stages` (a user in a stage with a connection has one; the
  retries are bounded).
- `OneUserEach`: `Lending` adds where a joined user's connection may be, so
  that a pooled connection is known to be nobody's.
- `PoolHandsOut`: `Spec => ImplementsHandout`, from `Lending`: a step of the
  handlers of connections, of a user, and of the end of the control each map to
  a step of `ConnHandout` or to none.
- `NoneIsForgotten`: from `Lending` and the life of the channel.
- `SupplySuffices`: an inequality of cardinalities; a step moves one
  connection, one user or one request from one term to another.
- `AnswersCome` (*): a user has at most five steps per try and `PoolCount + 1`
  tries before it is answered, and no other step adds to them. That each of
  these steps can be taken is not said: one of them waits for the send channel.

`ProxyHandshakeProofs`:

- `HandshakeTyped`; `ClosedStaysClosed`: `ClosedIsGone` says nothing while
  messages are under way, so the invariant `CloseComes` says that in a phase in
  which the client has closed the proxy the last message under way is a
  CloseProxy, or none is and the server runs nothing.
- `RunningRegistered`: an invariant over the contents of the channel to the
  server. `Current` says that what comes after the last CloseProxy, or is
  registered when there is none, is of today's configuration, and `StartComes`
  that while the client waits or runs unrefused a NewProxy comes last or has
  been read.
- `AnswersUnderWay` (*): a wrapper that waits has an answer under way, or the
  NewProxy that will be answered, whatever health and configuration did; the
  resend after `waitResponseTimeout` is not needed for that.

`ClientControlProofs`:

- `ControlTyped`; `NoDoubleStop` and `NoneUnmanaged`, with `Custody`: a wrapper
  in the map is live, or is being stopped at this moment by the one caller that
  holds the manager.
- `SomebodyGoesOn` (*): with `Order` (who runs which loop, who holds which
  lock), once the connection is closed some goroutine can go on until the
  control is over. The exception is the one of finding 4: the channel is full
  and `sendLoop` is gone.
- `ControlWindsUp` (*): `Effort` counts what is left: messages to write and to
  send, wrappers to stop, stages of `readLoop` and of the three callers. Every
  step lowers it; only the next check of a `checkWorker`, of which there are
  boundedly many in the model and one per `statusCheckInterval` in the code, adds its
  message.

`GroupProofs`:

- `GroupPorts` and `OpenGroupsListed`, from `GroupInv`: types, `MapOfGroups` and
  `PortsOfGroups`. The map lists every object whose channel is open under the
  name it was made for, which is what makes a leave free the right name.
- `GroupsServe` (*): a member of a group whose channel is open is listed and has
  a worker and a listener, and a connection the worker holds has an accept loop
  that takes it or a leave that lets go of it: what `HeldMovesOn` rests on.
- `PlainRoutesKept`, `GroupMembersReachable` and `ListedGroupsLive`, from
  `HttpInv`: types, `PlainRoutesExact`, `RoutesOfGroups` (a route
  leads to a group exactly while it has members, each of which holds that
  object) and `MapOfHttpGroups` (a listed object was made for that name).
- `RouterIsASet`: the lists of `VhostRouter` hold no location twice, so that an
  addition adds one route and a deletion takes the one named. `HTTPGroup` takes
  the router for such a map; this is why it may.
- `MostSpecificFound`: the lists are sorted by falling length (`RouterInv`).
  `GetLongest`: the first prefix in such a list is the longest. `FindRouterBest`:
  with the user first, the best route of a domain. `TriedFits` and `TriedRanks`:
  the domains tried are those of the routes that fit, from the most specific to
  the least, unless a short wildcard fits. First elements exist by `Least`, the
  well-founded order of the natural numbers. No induction over the lists is
  needed, because the sorted list is described by what it holds and not by how
  it is computed.

`FrpcProofs`:

- `OneChildAtATime` and `FileIsWhatRuns`: inductive with `NothingRuns`, that
  between the kill and the start nothing of this daemon runs.
- `OneSessionAtATime`: with `KeeperKnows` and `UpIsKnown`: the session is that
  of the control being made, else of the one installed, and nobody logs in
  beside it. That the session of a stopped service ends is not said, and not so:
  see below the findings.
- `ReloadsReachControls`: with `InStep`, that as long as nothing overlapped a
  pending reload aims at the control of today.
- `KeeperKeepsWatch` (*): with `SeenIsSet`, who is about to read `svr.ctl` has
  seen it set, and only the stop takes it away. So the nil dereference needs a
  stop, and until the service is cancelled the keeper has not ended and waits,
  if it waits, for the installed control.
- `VisitorsListenAsTold`: from what a manager has noted, and that listeners are
  noted; a lemma about `UpdateVisitors` serves the login and the reload.
- `SilentVisitorsRetried` (*): the converse for a manager that is open
  (`NotedListens`): what it has noted does listen, so that a visitor that does
  not is missing, and its ticker is on.
- `PartsKeepTheirSpecs` and `FrpcTyped`: each part of `MCFrpc` keeps to its own
  specification; all types hold, where `CfgCounts` bounds the number of the
  configuration by the reloads that have begun.

`FrpsProofs`:

- `ListeningFound`: with `EntriesOwn`, an entry names the proxy that listens
  under its key.
- `SessionsAreNotLost` (*): a session belongs to a visit; one that has handed
  over its sid is ended by its timers, one that has not has a goroutine that
  will take the sid, unless the proxy is closed. This is the exception of
  `SessionsEnd`, and there is no other.
- `OneWorkConnOpen`, unless the server limits the bandwidth (finding 8): an open
  connection is the last one the server got and a reader that has not ended is that of the current connection, which it has
  closed before it reports; so there is nothing open when the asker asks.
- `StopMissesOnlyStrays` (*), unless the client limits the bandwidth: with
  `StoredIsCurrent`, a connection that the client has stored and not closed is
  the one `Close` closes, or one of those that strayed, which are named one by
  one. The half of `WorkConnsEnd` that lies at the client.
- `RolesAlwaysFit`: a case per mode over the table of behaviours (`RolesSent`).
- `TriesAlwaysSpread`: `ScoresCount` says that until a success a score and its
  tries add up to the first score, 0 or 1, so that the best score was tried at
  most once more than any other.
- `PartsKeepTheirSpecs` and `FrpsTyped`, as for the client.

Proved, and no longer among the properties of a run: `OneUser` (the runs check
`ImplementsHandout`, which is more), `OneServed`, `NoGhostNames`, `Findable`,
`ReservationsEnd`, `LedgerPartition`, `LiveIsManaged`, `ListedIsLive`,
`ListensAsTold`, the properties of the theorems marked (*) and of
`FinishedKeepsNothing` and `RouterIsASet`, and the types of the registry, the
port manager and the pool.

Only model-checked: the liveness properties, `ConnLossFreesAll`, `LoginStarts`,
`UsersAnswered`, `DispatcherExits`, `ExitsUnlessStuck`, `Reconnects`,
`DaemonFollowsTable`, `VisitorsRun`, `HandshakeRecovers`, `HeldMovesOn`,
`SessionsEnd` and `WorkConnsEnd`. Every invariant, action property and
refinement that a passing run checks is also proved.

## 5. Findings

1. `UDPProxy.Close` releases its port on each of its two calls, although the
   port may have a new owner by then. The reservation of a port in use can
   expire (`ports_reserved`).
2. `GetWorkConnFromPool` shadows its error: after the last failed write it
   returns a connection it has just closed, and nil (`pool_started`).
3. `NewProxyResp` is matched by name and phase. A late answer makes a proxy
   run on the client that the server refused (`handshake_stale`).
4. `Send` on a full channel whose `sendLoop` is gone blocks for ever, with the
   locks of the manager held; the client control never exits and the client
   does not log in again (`control_hang`).
5. A proxy that joins a tcp group whose last member has just left is told that
   it runs, but the channel it accepts from is closed for good
   (`group_dispatch`). Its leave closes the channel again and panics.
6. `UDPProxy.Close` closes `sendCh` while the forwarder may hold a datagram. The
   send on the closed channel panics in a goroutine that does not recover, and
   ends frps (`udp_channels`).
7. A reload during an outage restarts the wrappers of the control that is done.
   When they have filled its channel, the next login waits for their locks with
   `svr.ctlMu` held, and the client never reconnects (`service_outage`).
8. With a bandwidth limit in mode `server`, closing a work connection of a udp
   proxy closes nothing: connections are left open and the next is got beside
   them (`udp_limited`).

What the models contain as the code has it, with an exception in a property
instead of a run of its own:

- `GetWorkConn` sends its request before it starts `UserConnTimeout`
  (`server/control.go:276`). With a client that does not read, and no heartbeat
  timeout (the default with tcpMux), users wait without a limit once the send
  channel is full. `UsersAnswered` speaks of a client that reads.
- `Reconnects` excludes blocked wrappers (finding 7), `OneWorkConn` and
  `WorkConnsEnd` are checked without a limit (finding 8). With a limit in mode
  `client` it is the client whose `Close` closes nothing
  (`client/proxy/udp.go:99-115`), and its connections stay (`ClientShut`).
- A reload between the moment a login reads the configuration and the moment its
  control is installed does not reach that control (`client/service.go:335`).
  `ReloadsKept` excludes an `overlap`.
- A wildcard over a top-level domain is never tried
  (`pkg/util/vhost/http.go:228`). `MostSpecific` leaves out the requests it fits.
- The login under way when the service stops installs its control afterwards
  (`client/service.go:324-367` against `405-411`). `stop` has run and is not
  called again, so that nobody closes this control. `OneSession` counts
  sessions; it does not say that they end.
- A session whose xtcp proxy closes between lookup and handover is never
  deleted, and its goroutine waits for ever (`SessionsEnd`).
- A failed `net.Listen` of a group's first member loses the acquired port;
  `remotePort = 0` in a group listens at another port than the one acquired
  (`server/group/tcp.go:103`; `lost`, `Elsewhere`).
- A visitor port that a replaced manager takes after its second `Close`, through
  a late tick or reload, stays taken (`Escaped` in `VisitorsComeUp`).
- The client of a udp proxy may store a work connection after it was stopped, or
  over one that another goroutine has stored while it was open
  (`client/proxy/udp.go:92-117`; `strayed` in `WorkConnsEnd`).
- The daemon does not restart a frpc that exits by itself: `FollowsTable` speaks
  of the file.
- An end on the public network is the receiver in mode 0 only as long as the
  behaviours in which it is have the better score. The comment at
  `pkg/nathole/analysis.go:27` says it always is; after each of them has been
  recommended once, all have the score 0, and the others follow. `RolesFit`
  speaks of the modes 1, 2 and 4.
- `PreCheck` of the hole-punching controller reads its map without the mutex
  (`pkg/nathole/controller.go:155`); the models take each access as one step.

## 6. Not modelled

- Times: heartbeats, login delays and backoff, the intervals of health checks
  and cleaners. A timeout may come at any moment instead, which includes every
  real one. The health monitor is a health that changes at any time.
- The bytes of tunnels: joined tcp connections, datagrams and their local
  forwarder, sudp visitors, the sessions of xtcp visitors, and the detection
  packets of hole punching.
- Groups of tcpmux proxies, http groups with several routes per member, and
  which member a request goes to; the handover of a connection in the https and
  tcpmux muxers.
- Authentication, the YouFrp API and server plugins: calls that accept or
  refuse; a refusal is the absence of a step.
- Configuration, dashboards, metrics, transport wrappers, the ssh gateway and
  the virtual network: I/O, parsing or presentation, with no state that another
  component decides upon.
- The server of SakuraFrp 0.28.2, an older release of the same control and proxy
  code; the simpler YouFrp clients, whose loop is a part of the daemon's; the
  desktop client and the scripts.

What a next step would be: a composition of `PortManager` with
`ProxyRegistry`, in which the ledger decides which registrations fail
(the product of the two is too large for liveness at the present bounds), a
composition of `WorkConnPool` with the life of controls, and heartbeats with a
clock.
