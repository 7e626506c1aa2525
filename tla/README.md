# A TLA+ model of vpn-from-scratch

This directory holds TLA+ specifications of the VPN in this repository: a
client with a Tk user interface, a server process, a TCP handshake that derives
session keys, a UDP tunnel, the files that keep the server's keys and the
client's list of servers, and the host's firewall. TLC checks the specifications
on small instances; TLAPS proves every safety property that the passing runs
check, of every component, for every instance. `PROJECT.json` lists the runs, the
source lines behind every definition, the findings, the hazards and the
theorems.

## The system

| Part | Code | State | Operations | Talks to |
|---|---|---|---|---|
| Key exchange, cipher | `client/crypto.py` | key pairs | `derive_session_keys`, `encrypt`, `decrypt` | called by handshake and tunnel |
| Handshake client | `client/handshake.py:100-246` | ephemeral key pair, pinned key, session keys | `perform_handshake` | TCP, one connection per call |
| Handshake server | `client/handshake.py:249-381` | static key pair | `handle_handshake` | TCP, in a handler thread |
| Server process | `server/main.py:100-268` | `running`, `clients`, the tunnel | `start`, accept loop, `_handle_client`, `stop` | handshake server, tunnel server |
| Server configuration | `server/main.py:31-97` | two files, a key pair | `load`, `save`, the server's constructor | file system |
| Tunnel server | `client/tunnel.py:317-479` | keys, `_client_addr`, TUN, socket | `start`, `stop`, `set_session_keys`, two loops | UDP, TUN; keys from handler threads |
| Tunnel client | `client/tunnel.py:66-314` | state, keys, lock, TUN, socket, threads | `connect`, `disconnect`, three loops | UDP, TUN; callbacks to the UI |
| TUN interface | `client/wintun.py` | descriptor or adapter and session | `create`, `start`, `configure`, `read`, `write`, `close` | operating system |
| Application | `ui/main.py:549-1057` | selected server, tunnel, flags | connect, disconnect, close; connecting, statistics and ping threads | everything on the client |
| Route manager | `ui/main.py:144-225` | installed routes | `enable_full_vpn`, `disable_full_vpn` | `route` command |
| Server list, settings | `ui/main.py:260-390`, `866-1053` | list of servers, selection | select, add, delete, refresh; ping thread, `update_latencies` | `servers.json`, Tk's queue |
| NAT, kill switch | `server/nat.py` | firewall rules, `_enabled` | `setup`, `teardown`, `enable`, `disable` | operating system |

What is hard about it: handler threads share one tunnel and one registry on the
server; the client tells nobody that it gave up a handshake; the two sides
finish at different times; UDP loses, duplicates and reorders; the server learns
the client's address from datagrams; the client's workers outlive a bounded
join; the Tk thread and the connecting thread wait for each other through the
tunnel's lock and through `root.after`; routes, tunnel and display are updated
by different threads; a list is edited while another thread walks it; files are
written in steps, by processes that may end at each; firewall commands fail one
by one.

What makes each part correct:

* **Handshake**: both sides end with opposite keys, keys are never shared
  between sessions or directions, a client only ever gets into a session with a
  server it trusts, and a handler thread returns.
* **Server**: the tunnel's keys belong to one authenticated client, the registry
  shows exactly the clients being held, confirmed clients get served.
* **Data plane**: each end writes what the other one read, in the same session;
  the client's present address is learned; genuine packets are accepted.
* **Tunnel client**: interface and socket exist exactly while connected and are
  not closed under a worker that can be waited for; workers end; `disconnect()`
  returns if the state callbacks do.
* **Application**: attempts end, the display settles on the truth, routes never
  outlive the tunnel, nothing is forgotten, no thread waits for good.
* **Server configuration**: the server shows the public key of the private key it
  uses, and has the same pair at every start; `server.json` has no private key.
* **Server list**: selection, entries, rows and file stand for the same servers;
  each latency belongs to its entry; every server is measured in the end.
* **NAT**: what `setup()` reports is in place, what it adds is removed.
* **Kill switch**: when enabled, nothing but the encapsulated datagrams and what is
  exempted gets out; when disabled, everything does.

## The modules

```
Crypto ─┬─ Handshake ──┬── VPNServer ── MCVPNServer      KeyAgreement (abstract)
        │   │          │      │                             ^
        │   │          │   VPNServerProofs                  │ refined by Handshake
        │   └── HandshakeProofs ────────────────────────────┘
        └─ Tunnel ── TunnelProofs

TUNInterface ── TunnelClient ── TunnelClientProofs      VPNApp ── VPNAppProofs

ServerList ─┬─ MCServerList                             ServerConfig ── ServerConfigProofs
            └─ ServerListProofs

HostPlatform ─┬─ KillSwitch ─┬─ Firewall ── FirewallProofs
              └─ NATManager ─┘
```

`MCVPNServer` and `MCServerList` define functions for TLC (who has which address
or host); the other modules are checked as they are.
Definitions named `X_Something` that stand before a definition `X` are mutated
forms of it, each a plausible bug that the properties are known to catch; no
specification uses them.

### Crypto

Ideal cryptography. A derived key is the tuple of everything HKDF is fed, so
keys are equal exactly when secret, salt and label are. A packet opens only
under the key that sealed it. Public keys are integers because the code compares
them bytewise to choose the roles.

### Handshake and KeyAgreement

One handshake per TCP connection. `cpc[c]` and `spc[c]` say between which
messages the two sides of connection `c` are; `c2s[c]` and `s2c[c]` hold the
one message that can be in flight in each direction (the protocol is a strict
alternation). `ClientConnect` joins the constructor, `connect()` and the first
send, as nothing else can see what lies between. A timeout, a reset or an end of
stream on the client is `ClientFail`; `ClientVanish` is a machine that stops
without closing. On the server, whose socket has no timeout, `ServerEndOfStream`
is the empty `recv` and `ServerFail` any other exception. Framing is abstracted:
the two sides are this program's own, so messages are well formed.

`KeyAgreement` is what a handshake promises regardless of its messages: keys are
offered, accepted in their opposite form, established, returned, never twice
and never in another order. `Handshake` refines it: the abstract phase is
computed from `cpc`, `spc` and the keys (`Phase`).

### VPNServer

Extends `Handshake`, with the main thread (`main`), a handler thread for each
connection (`hpc`), the registry (`clients`, keyed by IP address) and the
tunnel's two keys. The registry is updated under a lock, in one step.
`set_session_keys` is not under a lock and is two steps. `Handler` threads run
while the process does; they are daemons and end with it. A client's steps do
not depend on the server process being alive: after its end, they can only
fail.

### Tunnel

The five packet loops over a network that is a set of datagrams: `Take` may leave
the datagram in place, which is a duplicate, `Lose` removes one, and any order
is possible. `Establish` abstracts a handshake: the server has keys to install,
the client either connects its tunnel or has given up. Installation is two steps
and concurrent with traffic. The server learns the address before it opens the
packet, as the code does. `cread`, `sread`, `ctun` and `stun` record what was
read from and written to the two TUN interfaces, in which session.

### TunnelClient and TUNInterface

`TUNInterface` has what an interface holds on each platform (a descriptor; an
adapter and a session of the driver) and what its methods do to that, or leave
behind when they raise. `TunnelClient` opens, uses and closes numbered
interfaces: `connect()` and `disconnect()` by any callers under the lock, the workers of
each connection (`<<kind, generation>>`), and the interface or socket that a
worker took hold of (`using`). A worker takes hold of one thing to wait on and of
the other to pass a packet on; it finds each attribute anew, and raises when it is
`None`. `SetState` sets a state and enters the state callback, with the lock held;
`Notified` is its return, which nothing forces.

`Joined` says when `join(timeout=2.0)` comes back: when the worker has ended, or
when it may be held up for longer than the timeout. That is the case in the
statistics callback and in the sleep of the keepalive thread ("between"), in the
lookup of a hostname, which `sendto` does for each datagram ("lookup"; `Hostnames`
says which connections use one), and in `recvfrom` when another worker of the same
socket has taken the datagram that `select` reported ("recv"; TUN descriptors do not
block, so that their readers have no such case). In the last two the socket is closed
under the worker. Two things are assumed: the wait for a packet, 1 s at most, ends
within the 2 s of a join; and passing a packet on, to the interface or to a
numeric address, takes no time to speak of, also after a lookup or such a
`recvfrom`, where it is one step with the end of the wait. Without them no closing
would be safe. State callbacks do not raise.

Every step of `connect()` may fail, down to the second or
third thread that cannot be started; `halfway` marks the time after such a
failure, when `_running` is still set. Calls of `connect()` after the bound are not made,
and one of a connected tunnel, which returns at once, is left out.

### VPNApp

The Tk thread, its queue of callbacks, one connecting thread, the tunnel's lock
and the routes. `Post` is `root.after` from another thread, which waits until
the Tk thread is in its event loop; from the Tk thread itself it only queues.
`system` tells Windows from other systems, where the full VPN mode raises, and
among those the ones without the command `route`, where deleting routes does.
`Begin` and `Teardown` are the two halves (routes, tunnel) of the three
callbacks that clean up; between them the Tk thread waits for the lock. The
tunnels are numbered by attempt. `HandshakeReturns` includes the attempt that finds
no server selected any more. Three simplifications: deleting routes
succeeds where it can be tried; one server host is used;
state-change callbacks do not raise.

### ServerConfig

The main thread of the server over several runs of its process, as far as its
keys are concerned. The files are what they contain at each moment: opening one
for writing empties it, which leaves an unreadable `server.json` or a
`server.key` that counts as absent. `Die` may come between any two steps; so may
`Interrupt`, which sends the thread to `stop()`, from the `finally` clause of
`start()` or from `main()`, the second time from wherever the first one was. A
pair of keys has one name, so that `private = public` says that they belong
together. `saved` and `torn` are history: the pair that should be kept, and
whether a `stop()` has begun to write and `server.key` lacks the pair.

### ServerList

The list that the Tk thread edits and the ping thread walks, and everything that
stands for it: the entries and labels of the main window, the rows of the
settings dialog, the selection, the file. Entries and rows are numbers at the
time of a click, as in the code, so that a click after a failed save may mean
another server or raise. A callback of the Tk thread is one step; it is cut in two
where an exception skips the rest (`SaveAndRefresh`). The ping thread takes one
server at a time. The lambda that it posts refers to its variable `latencies`,
and so to whatever that is when it runs; a posted update runs within the 30 s
that the thread sleeps, which `PingRound` assumes.

### NATManager, HostPlatform and Firewall

`setup()` and `teardown()` are one step each, with a set of commands that fail;
`nat` counts how often each rule is there, since `iptables -A` adds one every
time and `-D` deletes one. `_get_main_interface()` is asked at each call, and
`InterfaceChanges` lets the answer change in between. On Windows `setup()` switches
no forwarding on, and adds an interface besides the TUN interface only if it finds
one, so that its success says little there (`NATInPlace`). `Firewall` puts
`NATManager` and `KillSwitch` on one host for TLC: they use different tables, so a
behaviour has calls of one of them.

### KillSwitch

`enable()` and `disable()` as the list of commands they run, one step for each,
each of which may fail. The rules in force are a sequence on Linux, where the
first that matches decides and `-D` deletes one of them, and a set on Windows,
where block rules win and a deletion takes all rules of a name. They survive a
restart of the process, `_enabled` does not. `Traffic` tells what the client sends to
the VPN server's port (`"vpn"`, the encapsulated datagrams) from what applications
send into the TUN interface (`"tun"`): the code marks the former only. `Blocked`
says what the firewall does to a kind of traffic; it and the commands' effects are the operating
system's and are modelled as documented there. The application never calls
the kill switch; the module lets a caller call it in any order.

## The runs

| Run | Shows | Bounds | Distinct states |
|---|---|---|---|
| `handshake` | types, matching keys, trust, unique keys, handlers return, refinement of `KeyAgreement` | 2 connections of a client key between 2 server keys, 2 salts, 2 versions, 2 clock readings | 349,153 |
| `server` | types, authentic keys, no stale entries, registration, installation follows confirmation | 2 connections from 1 address | 548,932 |
| `tunnel` | types, delivery, genuine packets accepted, the present address learned | 2 sessions, 2 addresses, 1 packet, 2 datagrams in flight | 176,459 |
| `client` | types, resources match the state, no use after close, workers end, `disconnect()` returns if state callbacks do | 2 callers, 2 connections, the first to a hostname, 2 platforms | 240,240 |
| `app` | types, display, no orphan, routes, no blocked teardown | 3 attempts, 3 systems | 3,266 |
| `server_config` | types, matching pair, identity kept, shareable file | 4 starts, 5 pairs | 4,532 |
| `server_list` | types, selection, views agree, latencies of the right host, latencies arrive | 3 servers on 2 hosts, 2 edits in each run of the application | 434,937 |
| `firewall` | types; an enabled switch blocks, only exempted traffic passes it, a disabled switch lets through; NAT in place, NAT removed | 3 calls and 2 hosts, 4 calls and 2 interfaces | 1,730,284 |

Two connections are what the properties of the handshake and of the server
compare; every one of them relates at most two. The client key lies
between the server keys, so that each side is the initiator of some session;
that two sessions share it is the hard case for the uniqueness of their keys.
Two salts are as many as there can be handshakes. Two clock readings lie outside
the allowed skew of each other. Two sessions and two addresses give a late datagram an
old session and an old address to come from. Three attempts of the application
let what one attempt leaves be met by the next and by the one after. Two datagrams
in flight are what it takes to overtake, to be late and to be duplicated.

Three calls are what `enable`, `enable` and `disable` take, and two hosts let an
exemption outlive its session. Four calls of the NAT manager are two of each, with
the two interfaces a route can move between. Two connections from one address share
the entry of the registry, which two from different addresses do not; those
behave as one connection does. Two connections of a tunnel let the workers of the
first meet the resources of the second, and both the numeric address and the
hostname are met while the other connection's workers go on. Four starts of the server are one that
saves, one that is cut off, one after that and one more. Three servers let one be
deleted before, at and behind the place where the ping thread is; two edits are
a deletion and an addition, or one that fails and one that follows it, and each
start of the application has two more.

Deadlock is checked except in the runs of `TunnelClient`, `Tunnel` and
`ServerConfig`, where a bounded number of calls, sessions or starts is used up and
nobody has to make another.
The other modules say explicitly when they may rest (`Terminated`,
`SystemTerminated`, `Rest`).

The runs that are expected to find a violation each confront a statement of the
repository with what the code does:

| Run | Statement | What the code does |
|---|---|---|
| `server_retry` | "Both sides use derived session keys for UDP packet transport." (`docs/ARCHITECTURE.md:89`) | the handler of an abandoned attempt installs its keys last |
| `tunnel_hostname` | "Server hostname or IP" (`client/tunnel.py:109`) | with a hostname, the client refuses every datagram |
| `app_attempt` | "Called when connection fails." (`ui/main.py:795`) | the callback raises `NameError`; the application connects for good |
| `app_close` | "Clean up routes and tunnel before closing the UI." (`ui/main.py:820`) | the two threads deadlock |

The models also show other things. Some are against what the repository says, and
are stated as the code has them by properties that hold:

* An enabled kill switch on Linux stops what applications send into the tunnel: it
  is not marked and leaves by the TUN interface, which the rule of
  `server/nat.py:349` drops. The docstring says "Blocks all traffic except VPN and
  essential services" (227), and the demonstration exempts `tun0` (426). It also stops
  DNS, whose rules, under "Allow DNS" (351), follow the one that drops.
  `OnlyExemptPass` says both.
* `setup()` on Windows returns `True`, "if successful" (36), without having switched
  forwarding on, which is a comment only (64-65), and without any interface besides
  the TUN interface when it finds none (71-92). `NATInPlace` claims no more there.
* `disconnect()` closes the socket under a worker that is looking up the server's
  hostname ("Wait for threads to stop", `client/tunnel.py:167`). `NoUseAfterClose`
  and `WorkersEnd` name this wait and the one in `recvfrom` as their exceptions.

Others no run denies, because nothing in the repository speaks against them clearly
enough. With two connections from one
address, the handler that ends first deletes the registry entry of the other:
`RegisteredWhileHeld` says that, besides a later connection from the address that
takes it over, this is the only way for a held client to lose its entry. A handler stays until the server
stops, whatever its client does. Two handlers that interleave in
`set_session_keys` leave the encryptor of one session and the decryptor of the
other. After a quick reconnect, workers of the earlier connection run beside the
new ones; on one socket, one of two receivers may wait in `recvfrom` for good. A TUN constructor that fails late leaves its descriptor open. After a
thread that could not be started, those that were go on until `disconnect()`.
Routes that the connecting thread adds after the cleanup of `_on_close` stay. Without
the command `route`, nothing is disconnected and the window does not close. The
kill switch on Linux never deletes the rule for the server, and after an `enable()` that failed half-way
`disable()` returns `True` and leaves the traffic blocked (`server/nat.py:259`).
The rules of an interface that has lost the default route stay when NAT is torn
down, and `FORWARD` rules add up with each `setup()`. A generated key pair is
lost unless the server is stopped, and so is one whose `stop()` is cut off
after `server.key` was emptied. `config/server.example.json` and
`config/servers.example.json`, copied as the README says, keep the server and the
application from starting until the placeholder in them is replaced. After the
last entry of the list, clicked before, was deleted, every click raises
`IndexError` until a server is added. The hazards in `PROJECT.json` name the lines.

### Fairness

* Handshake: a waiting client has a socket timeout, so `ClientFail` is weakly
  fair; handler threads are scheduled, so the server's receive actions are.
  No reset, vanishing client or new connection is forced.
* Server: handler threads are scheduled, and `stop()` joins with a timeout. That
  a client's steps run with the threads unchanged is how the composition embeds
  them.
* Tunnel: the keepalive thread goes on sending (weak), and a keepalive that is
  sent again and again gets through (strong on the server's reception of
  keepalives). No other traffic, no connection and no loss is forced.
* TunnelClient: as long as some worker can go on, one of them does, and likewise for
  the callers (weak). A caller that waits for a lock that is free again and again has
  it in the end (strong): calls are short and few, so no caller is starved by the
  others. No state callback has to return, for the application's waits for the Tk
  thread, and no `recvfrom` either. `DisconnectReturns` therefore has
  `CallbacksReturn` as its premise; what becomes of `disconnect()` when the callback
  of `connect()` waits for the very thread that calls it is the subject of
  `CloseReturns` and `TeardownReturns` in `VPNApp`.
* Server list: the ping thread and Tk's queue are scheduled (weak); a ping has a
  timeout. The user need not do anything.
* Application: both threads are scheduled; the handshake and the commands it
  runs return. The user does nothing that is not chosen freely.

## What is proved

All proofs are in the eight modules named `…Proofs`, one for each group of
components; none of them has a step that is taken on trust. The bounds on numbers of
calls, sessions, attempts and edits are constants of any value there.

**Handshake**, for any sets of connections, keys, salts, versions and clock
readings, from `KeysAssumption` (client and server key pairs are different
integers), `NoneAssumption`, `ClockAssumption` and `NoKeysAssumption` (`None` is
not a pair of keys). The inductive invariant is `TypeOK /\ HandshakeInv`. `HandshakeInv` says,
for each connection, which keys exist at which step, that both sides' keys are
derived from the same two public keys and salt, that messages in flight carry
the values of the side that sent them, and that the client's keys come with
trust in the server; and that no two connections have the same salt. None of the
safety properties is inductive alone: that a `CLIENT_ACK` in flight to the
client implies an established server is needed for `MatchingKeys`, and the
derivation of every key from its own salt for `SessionKeysUnique`. Proved:
`TypeCorrect`, `KeysMatch`, `TrustIsMutual`, `KeysUnique`, and `Refinement`, that
every behaviour is one of `KeyAgreement`.

**Server**, for any number of connections from any addresses, with
`NoConnAssumption` in addition. Every step of the process is a handshake step or
leaves the handshakes alone (`SystemRunsHandshake`), so the handshake's
invariant is inherited. `SystemInv` adds that handlers install keys only for
established handshakes and that each installed key is one of such a handshake.
Proved: `SystemAgreesOnKeys`, that the process has the handshake's properties and
implements `KeyAgreement` as well, `SystemTypeCorrect`, `RegistryNotStale`, `KeysAuthentic`, and
`StaysRegistered`, which is inductive once the types and `SystemInv` are known.

**Data plane**, for any sessions, addresses and packets and any capacity of the
network, from `PairsAssumption`, `SessionsAssumption`, `PacketsAssumption` (an
application sends no empty packet) and `AddrsAssumption`. The invariant `Inv` adds to the
types that every packet in flight was read by the end that sealed it
(`InFlightAsSent`) and that a connected client has an address. Proved:
`TunnelTypeCorrect`, `Delivery` and, when the server is named by its address,
the action property `ClientAcceptsServer`.

**Tunnel client**, for any callers and any number of connections, from
`CallersAssumption` and `ConnectsAssumption`: `ClientTypeCorrect`,
`ResourcesFollowState`, `NothingClosedInUse`. What holds when no call is in progress
is not inductive, since calls are what changes it. `ClientInv` says which caller
holds the lock, what the interface, the socket and `running` are at each point
of `connect()` and `disconnect()` (`Point`, `Points`), and that no interface but the
current one is held (`OnlyCurrent`). The state callback is one point for five states,
so `Point` goes by `state` there, and `InConnect` says which callers are building
something. `WorkersHold` is what `NoUseAfterClose` rests on: a worker that waits
in `select`, writes, or sends to a numeric address holds the interface or the socket
that is the current one, and nobody is connecting then. It says nothing of a worker in
a lookup or in `recvfrom`, of which it does not hold. It has to be stated by kind of
worker, as the keepalive thread holds nothing while it sleeps.

**Application**, for any number of attempts and a queue of any length, from
`AttemptsAssumption`: `AppTypeCorrect`, `StatusAgrees`, `TunnelsAreTracked`,
`RoutesLeadSomewhere`. The status line lags behind the tunnel by the updates that are
queued, so `AppInv` speaks of what it will say once these are run (`Settling`), and
of the outcome of the attempt behind them (`Pending`): for each point of the
connecting thread (`AtPoint`), each outcome in the queue (`AtOutcome`), and when
neither is left (`AtRest`). `OneAttempt` says that thread and queue never both
have the attempt, which is why their updates cannot get out of order.

**Server list**, for any finite number of servers and any hosts, from
`ServersAssumption` (the user enters finitely many) and
`EditsAssumption`: `ListTypeCorrect`, `NoDeletedServerSelected`,
`ViewsShowTheList`, `LatenciesBelong`. `ListInv` joins the three properties, of
which `LatencyOfHost` is the one that is not inductive: `PingInv` adds that the
latency kept with a server, and the one in the dictionary of the ping thread, were
measured at their host. That a list is no longer than there are servers follows
from its having no server twice (`IsList`), and is kept by `AppendedList` and
`ShortenedList`.

**Kill switch**, for any hosts and any number of calls, from `HostsAssumption`
and `CallsAssumption`: `SwitchBlocks`, `OnlyExemptTrafficPasses`,
`DisabledSwitchPasses`, `SwitchTypeCorrect`. `EnabledBlocks` alone is not inductive:
`SwitchInv` adds that an `enable()` without a failure so far has the rule that
blocks in force or still to be added, and deletes nothing. What lets traffic
through needs more, as long as no command has failed. `PassInv` says that a
`disable()` finds the rule that blocks in force or has yet to delete it, and, on
Linux, where `-D` deletes one rule only, that this rule and the two for DNS are in the
chain once at most (`Single`). `ExemptInv` says that the rule that blocks comes behind
the ones that exempt and before those for DNS, in the chain and in the commands that
are left (`Precedes`). The order of those is a lemma about the list of commands
(`EnableLinuxOrder`). From this follow both halves of `OnlyExemptPass`: what gets out,
and that what applications send into the tunnel does not.

**NAT**, for any interfaces and any number of calls, from `IfacesAssumption` and
`SetupsAssumption`: `SetupWorks`, `TeardownRemoves`, `NATTypeCorrect`. The invariant
`NATInv` adds to the types that no rule is there more often than `setup()` was
called, that, while nothing has failed, each interface has one rule that translates
at most, and that while the route has not moved only the main interface has one.
On Windows `SetupWorks` says that the TUN interface has its entry, and no more.

**Firewall**: `HostImplementsBoth`, that a host with both classes implements the
specification of each, its steps being stuttering steps of the other. So
`FirewallTypeCorrect` and `FirewallSafe` carry the results over to the
specification that the run checks.

**Server configuration**, for any keys and any number of starts, from
`OldKeyAssumption`, `NoneAssumption` and `UnreadableAssumption`: `ConfigTypeCorrect`,
`PairMatches`, `IdentityStays`, `JsonIsShareable`. None is inductive alone:
`ConfigInv` adds that the key file holds the pair of the latest stop or nothing, the
latter only if a stop was cut off or the files are still those of the earlier version
(`KeyFileInv`), and that a readable `server.json` never names another pair than
the key file beside it (`JsonInv`).

Only model-checked are the liveness properties, which are out of the prover's reach
because they need `ENABLED`: `HandlerReturns`, `InstallFollowsConfirmation`,
`AddressLearned`, `WorkersEnd`, `DisconnectReturns`, `LatencyArrives` and
`TeardownReturns`. What the four runs show that expect a violation are
counterexamples and need no proof.

## Not modelled

* `stop()` of `TUNInterface` and its `with` statement, which the program does not
  use; the bytes of packets in the Windows driver's ring.
* Entry points and test scripts: no state of their own. `setup_nat()` of
  `server/main.py`: its only call is commented out.
* What a server's entry contains besides its host, and pings that fail.
* The choice of another server between the click and the connecting thread
  (`ui/main.py:741`): `VPNApp` has one server, or none when the thread gets to it,
  and `ServerList` no connection.
* Widgets and formatting: no behaviour.
* Statistics counters and the statistics thread: display only.
* Malformed messages: every message comes from this program.

## Plan

1. *(done)* `Crypto`, `KeyAgreement`, `Handshake`; refinement and proofs.
2. *(done)* `VPNServer`, composed with `Handshake`; proofs.
3. *(done)* `Tunnel`, the data plane; proofs.
4. *(done)* `TunnelClient` and `VPNApp`; proofs.
5. *(done)* `KillSwitch`; proofs.
6. *(done)* `ServerConfig`, with crashes between the writes, and `NATManager`;
   proofs.
7. *(done)* `ServerList` against the ping thread; proofs.
8. *(done)* `TUNInterface`, opened and closed by `TunnelClient` step by step, with
   failing threads; `VPNApp` on systems without the command `route`;
   `RegisteredWhileHeld` restated for shared addresses and proved.
9. *(done)* `KillSwitch` and `NATManager` on one host: what is proved of each holds
   of `Firewall`.
10. Proofs: action properties of single components that their invariants give, such
    as what no step of a worker or of the ping thread may change.
