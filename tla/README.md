# TLA+ verification of gogame

`gogame` is the skeleton of a game back end: clients connect to a **gate** (portal), gates and
game/team servers connect to a **router**, the router tells every gate which servers exist and
forwards messages between them. This directory holds TLA+ models of that system, the TLC
configurations that check them and TLAPS proofs about them.

Line references are `path:line` in the repository.

## 1. Inventory

### 1.1 Components, state, operations

| component | state it keeps | operations | talks to |
|---|---|---|---|
| event loop `base/eventloop/eventloop.go` | `functors` queue, `closed`, mutex + condition variable | `RunInLoop`, `Loop` (swap and drain), `Close` | everything that must run on one goroutine posts closures here |
| timers `timer.go`, `ticker.go` | runtime timer/ticker, context, one goroutine each | `RunAfter`, `RunEvery`, `Stop` | post their closure with `RunInLoop` |
| TCP connection `base/network/tcpconnection.go` | `bufs` write queue, `closed`, mutex + cond, the socket | `serve` (reader goroutine), `backgroundWrite` (writer goroutine), `Send`, `Shutdown`, `close` | handler callbacks `Connect`, `Receive`, `Disconnect` |
| TCP server `tcpserver.go` | listener, set of connections, `closed` | `ListenAndServe`, `newConnection`, `serveConnection`, `Close` | one goroutine per connection |
| TCP client `tcpclient.go` | current connection, `closed`, `retry`, unbuffered `ConnectChan` | `DialAndServe` loop, `GetConnection`, `Close`, `notifyConnectState` | owner reads `ConnectChan` |
| session `base/network/session` | `verified`, verify timer (30 s), receive rate counter, `Userdata` | `Verify`, `Shutdown`, `verifyTimeout`, `receiveLimit`; codec = 4-byte length frame, 1 MB limit | wraps a TCP connection for the router |
| router `router/*.go` | `portalClients`, `gameClients`, `teamClients` (id -> client), counters | portal/internal `handleReady`, `handleClosed`, `handleHeartBeat`, `handleDisconnect`, `handleMsg`; `Pack*Message`, `Broadcast*` | sessions call `Receive`/`Disconnect` on reader goroutines, which post to the event loop |
| gate: routers `gamegate/router.go` | `routerMgr`, `crossRouterMgr` (server id -> router link), `routerMap` (addresses), `svrList`, `teamIds` | `Start`, `register`, `Receive` (dispatch, sync), `AddRouterServer`, `AddCrossRouterServer`, `RemoveSvrs`, `refresh*` | redis, TCP client, client manager |
| gate: clients `gamegate/client.go` | `clients` (account -> session), per client `AccountID`, `GSID`, `Flag` | `Connect`, `Receive`, login, `Add`, `Remove`, `timeAction`, `ServerClose`, `TerminateClient` | redis, router manager, IM manager |
| gate: IM servers `gamegate/imclient.go` | `ims`, `imMap`, `hashRing`, per server `status` | `refreshIMSvrList`, `run`, `register`, `Receive`, `dispatch` | redis, hash ring, client manager |
| gate server `gamegate/server.go`, service `base/service/service.go` | service list, signal channel, wait group | `Init`, `MainLoop`, `Terminate`; reload/report/stop signals | process signals |
| redis lock `base/dao/redis/redismutex.go` | one counter key per lock, TTL | `Lock` (INCR, back off with DECR, 150 tries, DEL on timeout), `UnLock`, `Validate`; `removeUserLoc` | redis |
| hash ring `base/util/hashring.go` | `ring`, `sortedKeys`, `nodes`, `weights` | `GetNode(s)`, `AddNode`, `RemoveNode`, `UpdateWeightedNode` | used by the IM manager |
| packets `protocol/packet.go`, registry `protobuf.go` | read cursor over a byte slice; id <-> type maps | `Read*`, `Write*`, `Marshal`, `UnMarshal`, `Pack/UnpackSSMessage`, `Register` | all messages |
| csv loaders, config, logger, proto generator, `gamesvr` | - | reflection over csv files, file I/O, flags, code generation, an empty service | - |

### 1.2 How they interact

Every accepted TCP connection has two goroutines. The *reader* (`serve`) calls the handler; for
the router the handler only unpacks the message and posts a closure with `RunInLoop`, so the
registry, `Userdata` and `verified` are touched by the event-loop goroutine alone, except that the
30-second verify timer fires on a goroutine of the runtime. The *writer* drains `bufs`; `Shutdown`
is graceful (the writer drains and then closes the socket), a read error closes the socket under
the writer. The gate has no event loop: its maps are guarded by `RWMutex`es and its handlers run
on many reader goroutines at once.

### 1.3 What is hard here

* **Posting versus closing.** A functor posted after the loop's last swap (`eventloop.go:30`) is
  never run; `Signal` is called after the mutex is released (`:48`, `:68`).
* **Timer stop races.** `Timer.Stop` (`timer.go:35`) can race a closure that is already in the
  queue (`:30`); a stopped `Ticker` (`ticker.go:38`) may still find one tick in its channel.
* **Two closers of one socket.** The writer must flush everything accepted by `Send` before a
  graceful shutdown closes the socket (`tcpconnection.go:110`), while the reader's exit closes it
  under the writer (`:63`).
* **Replacement in the router.** The registry is keyed by server id; `Remove*Client` deletes by id
  without comparing the client (`server.go:115`, `:139`, `:163`), and a connection that was
  replaced is removed *after* its replacement was added.
* **Repeated READY.** The gate sends READY every second while its connection works
  (`gamegate/router.go:177`); the router treats the second one as a second portal of the same id
  and shuts down the "existing" one, which is the same session (`router/server.go:101-103`).
* **Verify timer.** A READY handled after the 30 s timer fired registers the client but does not
  verify the session (`session.go:51-58`), so its disconnection is ignored (`portal.go:70`).
* **Lost notifications.** `notifyConnectState` drops the value if nobody is receiving
  (`tcpclient.go:50-54`), while the receiver (`gamegate/router.go:192`) is inside `register` (`:197`).
* **Check-then-act in login.** `GetByID`, kick, `Add` are separate critical sections
  (`gamegate/client.go:310`, `:339`), and `timeAction` collects, sleeps and removes (`:139-154`).
* **Who a message is for.** `AccountID` is written before the token is checked (`gamegate/client.go:294`).
* **Accepting and closing.** A connection is accepted while `Close` takes the listener and the map
  (`tcpserver.go:89`).
* **A stop nobody receives.** `sig` is unbuffered (`service.go:59`); who receives depends on the program.
* **Rounded shares.** The number of keys of a node is a rounded share of the total weight, which
  changes with every node (`hashring.go:94`).
* **Two routers, one server.** The gate's directory finds the entries of a link by comparing owners
  (`gamegate/router.go:232`); the later list of a server takes it over, and if that router drops
  it, `ServerClose` ends its clients although the first router still lists the server.
* **Links claimed in two steps.** An address is entered in `routerMap` under the lock and its link
  started after it (`gamegate/router.go:340`); two redis lists may name one router; `RouterInit`
  starts a link for every entry of its two lists without looking whether there is one (`:68-83`), and
  writes the map without the lock (`:70`).
* **A status that outlives its connection.** The `status` of an IM server stays 1 when the
  connection is lost; forwarding then calls `Send` on nil in another server's reader
  (`imclient.go:255`).
* **The redis lock.** A waiter that times out deletes the key of a live holder
  (`redismutex.go:115`); increments that are never undone survive until the TTL; the only caller
  ignores that it did not get the lock (`redis.go:105`).

### 1.4 What makes each component correct

* event loop: every functor runs at most once and in posting order; a functor posted before the
  close is observed runs; `Loop` returns after `Close`; no wake-up is lost.
* TCP connection: what reaches the socket is a prefix of what `Send` accepted, in order; a graceful
  shutdown loses nothing; after either goroutine stops the other stops too.
* session and router: a portal that is registered knows exactly the game and team servers that are
  registered; a server's registry entry lives exactly as long as its connection; messages
  are forwarded only for verified sessions.
* gate: a message for an account reaches one connection at most, which presented the account's token; a
  client that is thrown out leaves, and nobody else; a router link that is up is eventually registered.
* redis lock: mutual exclusion between holders that do not time out.
* hash ring: different nodes in the order of the circle; among equal weights a
  change of one node moves no key but its own.
* programs: a stop signal ends the process with its server and all its connections.
* messages: every program reads what the first one sent.

## 2. How the project is built

The modules in the order in which they were written; each row can be read on its own.

| modules | what they model | composes |
|---|---|---|
| `FunctorQueue` | abstract: functors run in posting order, and all that were posted before the close run before the loop returns | - |
| `EventLoop`, `EventLoopProofs` | the event loop | implements `FunctorQueue` |
| `LoopTimers`, `MCLoopTimers` | timers and tickers over the loop that they post to | extends `EventLoop`; proved to be a refinement of it |
| `SendPipe` | abstract: a pipe that delivers what it accepted, in order, and all of it short of a fault | - |
| `TCPConnection`, `MCTCPConnection`, `TCPConnectionProofs` | one connection: reader, writer, senders | implements `SendPipe` |
| `Router`, `MCRouter`, `RouterProofs` | router and sessions, over the promises of the two above | uses the queue of `FunctorQueue` and the `Send` of `SendPipe` as given |
| `GateLink`, `MCGateLink`, `GateLinkProofs` | TCP client and the goroutine that registers the gate with a router | uses the end of a connection as `TCPConnection` proves it |
| `GateServers`, `MCGateServers`, `GateServersProofs` | the gate's server directory and the refreshing of its links | takes the end of a link (`RemoveSvrs` once, no list after it) from `GateLink` |
| `GateClients`, `MCGateClients`, `GateClientsProofs` | the gate's clients: login, replacement, timeout, termination, dispatch | takes `ServerClose` at any moment, which covers those of `GateServers` |
| `IMServers`, `MCIMServers` | the gate's clients of the IM servers | takes the dial loop from `GateLink`, as one goroutine of each server |
| `RedisMutex`, `MCRedisMutex`, `RedisMutexProofs` | the lock in redis | - |
| `TCPServer` | accepting, serving and closing | takes the end of a connection from `TCPConnection` |
| `Service` | signals, the three main loops and the end of the process | extends `TCPServer`, which the gate and the router run |
| `HashRing` | the ring with weights, and its lookups | - |
| `Packet`, proofs in `GateLinkProofs` | the layouts, and one message through the programs that repack it | the order of `GateClients`, `Router`, `IMServers` |
| `MCSmallParts` | an instance of the last three, one per behaviour | `Service`, `HashRing`, `Packet` |
| `PartsProofs` | proofs about `IMServers`, `HashRing`, `TCPServer` and `Service` | - |

What could follow: a composition of `GateLink` with `Router`, so that the end of a link after the second READY is the
router's own doing and not one of any.

## 3. The modules

### 3.1 `EventLoop`

| variable | code |
|---|---|
| `functors`, `closed` | the fields of `EventLoop` |
| `pc`, `batch`, `seenClosed` | the program counter and locals of `Loop` |
| `owes[t]` | `t` has unlocked and not yet called `Signal` |
| `posted`, `ran`, `mark` | history: what was posted, what was run, how much had been posted at `Close` |

A critical section of the mutex is one action (`RunInLoop`, `Close`, `Swap`); `Signal` is one of its
own, because it is called after the unlock. `Wait` gives up the mutex while waiting, so any number of
posts may come before the loop wakes. A functor body may itself post and close (`CanCall`), which
it does between `BeginFunctor` and `EndFunctor`.

`FunctorQueue` is what a user of the loop may rely on. `EventLoop` implements it with
`returned <- (pc = "done")`.

**`LoopTimers`** adds `timer.go` and `ticker.go`. Each timer and ticker is a goroutine that calls the
loop. `clock[s]` is the runtime's timer, `tick[s]` the one tick that fits into its channel, `cancelled[s]`
the context, `recv[s]` where `receiveTime` is: in its select, holding a tick and about to post, or
over. The select takes any of its ready cases. `StopTimer` and `StopTicker` run in a goroutine or in a
functor of the loop. A closure that a ticker posts n times is n functors. `answer`, `stoppedAt` are
history: what `Stop` returned, and how much had been posted when it did; `PostedAfter` is what a
ticker posted since.

### 3.2 `TCPConnection`

| variable | code |
|---|---|
| `bufs`, `closed` | the fields of `TCPConnection` |
| `rpc`, `reads` | the goroutine of `serve` |
| `wpc`, `out`, `lastRound`, `wbuf` | the goroutine of `backgroundWrite`: the swapped slice, the flag read with it, the `bufio.Writer` |
| `sock` | open, broken by the network, closed by one of the two goroutines |
| `owes` | as above |
| `accepted`, `wire` | history: what `Send` accepted, what reached the socket |

A write may hand over part of the buffer by itself (`Write`, the buffer fills up), a codec error and a
socket error leave the loop by the same path (`WriteFails`, `FlushFails`), and a handler may
panic, which `serve` recovers. `SendPipe` is the promise: order, no duplicates, nothing after
`Shutdown`, and everything at the end short of a fault.

### 3.3 `Router`

Reader goroutines and the timer goroutine of the runtime interleave with the loop goroutine, which
runs one posted functor per step.

| variable | code |
|---|---|
| `link[c]`, `shut[c]` | the reader of connection `c`; `TCPConnection.closed` |
| `timer[c]`, `verified[c]`, `user[c]` | `Session.verifyTimer`, `verified`, `Userdata` |
| `reg` | `portalClients`, `gameClients`, `teamClients` |
| `queue` | the functors of the event loop |
| `view[c]`, `inbox[c]` | what was sent to `c`: the last lists of servers, the forwarded messages |

`PortalReady`, `InternalReady`, `PortalClosed`, `InternalClosed`, `PortalMsg` and so on are the handlers, each with
everything it does: replacing and shutting the existing client, verifying, broadcasting. A
connection stands for its `routeClient`, since a client is made from its session. `Overlap` says
whether a peer may reconnect before the end of its previous connection was read. Both happen; the
code is right only without it (section 5).

### 3.4 `GateLink`

Two goroutines and an unbuffered channel. `dpc` is where `DialAndServe` is, `rpc` where the
goroutine of `Router.Start` is. `Notify` delivers only if the registrar is in its receive
(`Listening`); otherwise the value is dropped, which `missed` remembers if the registrar had not
looked at the new connection yet. A connection is seen through `TCPConnection`: *up*; *broken*, when `Send`
still accepts; *refusing*, when `Send` returns false and `serve` is about to return; *over*. `crashed`
records a panic outside any `recover`, which ends the process. `EnableRetry` has no caller in the
repository; both values of `retry` are explored.

### 3.5 `RedisMutex`

Each redis command is one atomic step: `LockIncr` (INCR), `Wait` or `Acquire` (EXPIRE and the test),
`LockDecr` (DECR), `TimeOut` (DEL), `UnLock` (DECR), `Reset` (DEL). A command is answered
(`Answer`), or (`NoAnswer`) has no effect, or has its effect and the answer is lost with the
connection; the five attempts of a wrapper are one step, since a refused attempt changes nothing.
`removeUserLoc` is the caller: it ignores the error of `Lock` and calls `UnLock` in any case
(`Checked = FALSE`). A crash is a caller that takes no more steps. `disturbed` records that an
increment was taken away from under a caller: by the DEL of a timeout or a reset, by expiry, or by
an `UnLock` without the lock. `Validate` only reads.

### 3.6 `GateServers`

| variable | code |
|---|---|
| `routerMgr`, `crossRouterMgr`, `teamIds`, `routerMap` | the fields of `RouterMgr` |
| `live`, `addr[l]` | the `Router` objects that were started and not yet removed; their address |
| `pc`, `inited`, `todo`, `starting` | the refresher: `RouterInit`, how many entries of its lists it has visited; then one redis list after the other, what it still has to visit; the address it has claimed and not yet started |
| `closing` | the goroutines of `ServerClose` that still run |
| `listed` | the redis lists |
| `games`, `teams`, `shared`, `sharedTeams` | history: what each router listed last; the servers that two links listed at a time |

`Sync` applies a complete list (`AddRouterServer`, `AddCrossRouterServer`): what the link had is
deleted, the list entered, and `ServerClose` started for what vanished. `RemoveSvrs` may come at
any moment for a live link, which covers every end that `GateLink` allows. `ClaimLink` and
`StartLink` are two steps, as in the code. `InitLink` is `RouterInit`'s: `Config` is `RouterAddrs` followed by
`CrossRouterAddrs`, and every entry gets a link, whether its address has one or not. Two links of one address
share its entry of `routerMap`; the end of the first takes it away, and the next refresh can start
another. A link that was removed may stand for a new `Router` object.

### 3.7 `IMServers`

Per IM server a dialer (`dialer[i]`: dial, notify, serve, drop) and the goroutine `run`
(`runner[i]`: before its receive, in it, about to register, in its select, over). `phase`,
`newNodes`, `addNodes` are where `refreshIMSvrList` is and its locals. `Notify` reaches `run` only in its
receive. `id[i]` is the field that a READY of the server rewrites and that the broadcast compares
with the source that the message names; `Announced[i]` are the ids that the server at `i` may give, its own
or not. `visits[i]` is what a broadcast in the reader of `i` has still to visit, `source[i]` the source that it names, if it is
an IM server; it ranges over the whole map and leaves out whoever has that id (`Skip`); `StartIM` writes `imMap`
under a lock that the broadcast does not take, so it may stop the process (`crashed`), and a running
broadcast may or may not meet the new server. `SendMsg` to a server whose status is set and whose connection is
nil panics; `serve` recovers and the connection of the *forwarding* server ends. The hash ring is the
set of its nodes: with equal weights each node has keys on it, and a lookup yields one of them.

### 3.8 `GateClients`

| variable | code |
|---|---|
| `clients`, `svrList` | `ClientMgr.clients` (an account's client is a set of at most one); the game servers of the last refresh |
| `conn`, `shut`, `stale` | the connection and its reader; whether `Shutdown` was called; whether it was made longer ago than `TCP_PING_TIMEOUT` |
| `account[c]`, `gsid[c]` | `ClientTask.AccountID`, `GSID` |
| `pc[c]`, `old[c]` | where the reader is in the login, and its `oldClient` |
| `timed`, `cur` | `timeAction`: the clients it collected, the one it will remove next |
| `victims` | the clients that a `ServerClose` or `Close` is about to shut |
| `ownerOK` | whether the type assertion of `client.go:75` succeeds |
| `accepted[c]` | history: the accounts whose token the connection presented |

The lock of `ClientMgr` covers one access at a time, so a login is `Login` (decode, set the account, check the
token), `Lookup`, `Evict`, `Locate` (the game server in redis), `Dispatch` (`DispatchGameSvr`), `Add`
and, if something fails, `Refuse` or `Kick`. `TerminateClient` sleeps and then shuts the connection down, so its
effect is a step of its own; `timeAction` is `timeAction`, `TimedShut`, `TimedRemove`. A connection may log in
again, for another account.

`con.Owner` holds a `*ClientTask` and `Receive` asserts a `ClientTask`: the assertion panics for every message,
`serve` recovers, and the connection ends. `ownerOK` is chosen at the start: `FALSE` is the code as it stands, in
which nobody ever logs in; `TRUE` is what the rest of the file is written for. Without the second case
the login would be out of reach.

### 3.9 `TCPServer` and `Service`

`lpc`, `cur` are where `ListenAndServe` is and the connection that it has accepted and not yet
admitted; `spc[c]` is the goroutine of `serveConnection`. `Close` takes the listener and the connections that
are in the map, in one critical section; `newConnection` looks at `closed` in another. `Service` wraps it in a program:
`kind` is the gate, the router or the game server. `Deliver` is the rendezvous on `sig`. The gate's receiver runs
`Terminate`, which closes the server that its main loop waits for; the router's closes the event
loop and not its servers; the game server's main loop is itself the receiver and returns at any byte. The
specification of the whole is `ServiceSpec`, over `processVars`.

### 3.10 `HashRing`

A ring is its list of nodes and its weights. `KeysOf`, `sortedKeys`, `Owner` are what
`generateCircle` builds, `Factor` its rounding. `Digest` is any function of node, virtual node and word, so that
nodes may share keys, where the last node of the list wins. `GetNodes` is the walk, a `Round` per key, its comparison behind the
step as in the code. `NewHashring` takes any list, so a node may be listed twice and counts twice in the total;
`RemoveNode` takes out every place of a node (`Kept`). Nothing in the repository calls `NewHashring`; the IM manager uses
`NewHashringWithWeights` and `AddNode` (`imclient.go:128`, `:133`). Lists that the code takes from a map come in any order (`Listings`). A weight
below one and more replicas than `Replicas` are not tried.

### 3.11 `Packet`

A layout is a sequence of fields with width and sign; `WriteField` and `ReadField` are big endian with the
conversions of the code, for a byte of `Base` values. `Marshal`, `UnMarshal` are the functions that the code writes
out once per layout: the error of the first field that does not fit is that the data is shorter than the
head. A message starts at a client, or at a server, possibly cut short, and goes through the
programs that take it apart and pack it again: `ClientReceive`, `IMReceive`, `RouterReceive`, `GateReceive`.
`CSMarshal` is empty: `CSMessage.Marshal` writes into one buffer and returns another (`packet.go:307-315`).
`Messages` are all messages whose numbers their fields hold (`Numbers`), the `PacketSpec` of the theorem;
the run tries those of them that have one field at an end of its range (`Tried`, see `TriedAreMessages`).
`SendMessageToRouter` marshals and does not send (`client.go:421-460`).

### 3.12 Faulty variants

Next to several definitions stands another with the same parameters, commented "Faulty variant":
the definition with a mistake that the code could have had (a signal left out, a flag read at another
moment, an entry not removed). No specification uses them. They show that the properties can
fail: with the variant in place of the definition, the property it was written for is violated.

## 4. What is checked

All runs are exhaustive for their bounds. `tlc -config X.cfg M` repeats one.

| run | module, configuration | bounds | states | properties |
|---|---|---|---|---|
| eventloop | `MCLoopTimers` | a timer, a ticker of 3 ticks, a goroutine, a plain functor | 391,784 | `NoLostWakeup`, `PromiseSpec`, `StopVerdict`, `StoppedTickerEnds` |
| tcpconnection | `MCTCPConnection` | 2 senders and a handler, 3 messages, one of them oversize, 1 read | 74,307 | `InTransit`, `PipeSpec`, `BothEnd` |
| router_registry | `MCRouter`, `MCRouterRegistry.cfg` | a portal with two connections, a game server; 2 READYs each | 441,157 | `SyncedPortals`, `VerifiedIsRemoved`, `ReadyIsRegistered`, `PortalsInformed` |
| router_forward | `MCRouterForward.cfg` | a portal and a game server, 2 messages each | 1,713,365 | `InOrder`, `OnlyVerifiedForwarded`, `SenderIsKnown` |
| router_live | `MCRouterLive.cfg` | a portal and a peer of unknown kind, 1 message each | 180,987 | `VerifiedOrEnded`, `EndedIsForgotten` |
| gatelink | `MCGateLink` | 4 connections, with and without `retry` and dial timeout, `Close` at any moment | 103,396 | `PanicNeedsLoss`, `ReadyToNewest`, `Registered`, `CloseEnds` |
| gate_servers | `MCGateServers` | 3 links, 2 addresses, one of them in both lists of the configuration and in both redis lists; 1 game server, 1 team server | 345,608 | `DirectoryExact`, `LinksAsNamed`, `ClosedIsDropped`, `ListedIsLinked` |
| gate_clients | `MCGateClients` | 2 connections, 2 accounts, 1 game server; both settings of `ownerOK` | 381,441 | `DeliveredToAccepted`, `OnlyTimedOutRemoved`, `OverwrittenWasEvicted`, `TimedOutLeaves` |
| im_servers | `MCIMServers` | 2 IM servers, both announcing the id of the second; a connection lost | 639,008 | `RingIsServed`, `PanicNeedsLoss`, `FoundIsRegistered` |
| redismutex | `MCRedisMutex` | 2 callers, 2 calls, 2 tries, every failure | 330,980 | `CounterIsExact`, `CounterExpires`, `MutualExclusion`, `LockReturns` |
| small_parts | `MCSmallParts` | 2 connections; lists of up to 4 of 3 nodes, weights 0 to 2, a circle of 24; a byte of 4 values, bodies of 0 and 2 bytes | 7,445 | `ClosedServerEnds`, `StopReturns`, `GetNodesExact`, `OnlyItsKeysMove`, `ReadAsSent` |
| router_replaced | `MCRouterReplaced.cfg` | as router_registry, with `Overlap` | until the counterexample | the violation of section 5 |

The type invariants (`TypeOK`) are proved (section 6) where a module has one, and not in the runs.
`MCSmallParts` puts three parts side by side that have few states each: a behaviour is of one of
them, chosen at the start.

**What the properties say.**

* *Event loop.* `NoLostWakeup`: the loop sleeps on work only if a poster still has its signal
  ahead. `PromiseSpec`: the loop is a `FunctorQueue`, with its fairness,
  so that everything posted before the close is run and `Loop` returns. `StopVerdict`: a timer whose `Stop` returned
  true never posts; one whose `Stop` returned false has run or will run, unless the loop is closed.
  `StoppedTickerEnds`: after its `Stop` a ticker posts two ticks at most, the one in the goroutine's hand
  and the one in the channel, and its goroutine ends.
* *Connection.* `InTransit`: what `Send` accepted is what is on the wire, in the writer's
  buffers and in `bufs`, in order. `PipeSpec`: a connection is a `SendPipe`. `BothEnd`: neither
  goroutine outlives the other.
* *Router.* `SyncedPortals`: a registered portal was sent exactly the registry.
  `ReadyIsRegistered`, `PortalsInformed`: without `Overlap`, who is ready is registered, and every ready
  portal knows it. `VerifiedIsRemoved`: an entry does not outlive its verified connection.
  `InOrder`, `OnlyVerifiedForwarded`, `SenderIsKnown`: forwarding. `VerifiedOrEnded`: the verify timer
  gets rid of silent peers; `EndedIsForgotten`: entries of verified connections go.
* *Link.* `ReadyToNewest`: although `GetConnection` and `Send` are two steps, no READY is accepted for a
  replaced connection. `PanicNeedsLoss`: the registrar panics only after a loss or a `Close`. `Registered`: a lasting
  connection is registered, unless its notification was dropped. `CloseEnds`: `DialAndServe`
  returns after `Close`.
* *Directory.* `DirectoryExact`: a server is found only through a live link whose router listed it
  last; what a router listed last is found through its link, unless two links once listed the same
  server; `teamIds` agrees with the map. `ClosedIsDropped`: `ServerClose` is started exactly for what the
  list of the owning link dropped, never because a link ended. `LinksAsNamed`: a router has at most as many
  links as the configuration names it, or one; one less while its address is free, since then the next refresh
  may start another; and an address that is marked has a link. So a router that the configuration
  names once at most never has two. `ListedIsLinked`: a router
  that stays in a redis list has a link again and again.
* *Clients.* `DeliveredToAccepted`: a message for an account is written to one connection at most, one that presented
  the account's token, although the account is written before the check and a connection may log in again.
  `OnlyTimedOutRemoved`: what the timeout removes is the client that timed out, not the one that logged in
  while it slept. `OverwrittenWasEvicted`: a login replaces another client only after it threw it out, or
  if that one was added after the lookup. `TimedOutLeaves`: a client that is too old leaves the map, unless it names
  another account first, when `Remove` looks in the wrong place.
* *IM servers.* `RingIsServed`: an account is never mapped to a server that is not in `imMap`, in the
  middle of a refresh either. `PanicNeedsLoss`: no `Send` on nil before a connection was lost, because the status is 0
  until the server has said READY. `FoundIsRegistered`: a server that a refresh finds gets on the ring and is
  registered with, unless `run` was late for the notification or something was lost.
* *Lock.* `CounterIsExact`: the counter is at least the number of callers that are counted in it, and equal
  to it while no command failed. `MutualExclusion`: while nobody's increment was taken away, two
  callers never both have the lock. `CounterExpires`: a counter that stays behind has a time to
  live, except between INCR and EXPIRE. `LockReturns`: `Lock` ends.
* *Small parts.* `ClosedServerEnds`: after `Close` the accepting goroutine returns, and every connection accepted
  before, during or after it is closed. `StopReturns`: a stop that was taken up ends the process, except in the
  game server after a reload. `GetNodesExact`: different nodes in the order of the circle, or an error exactly if
  too few have a key. `OnlyItsKeysMove`: as long as all nodes weigh the same, adding a node moves keys to it only and
  removing one moves its keys only. `ReadAsSent`: every field is read as it was sent at every receiver, only the end of a body may
  be missing, and what is refused was too short.

**Why the bounds are enough.** *Event loop:* a ticker of three ticks has one posted, one in the hand and one in the
channel, and one more would show a third after `Stop`; with the timer's and a plain functor there can be one in the body,
some in the batch and some in the queue, while three goroutines post and signal around each
step of the loop. Timers are started and stopped in functors, as in `eventloop_test.go`. *Connection:* three messages fill `bufs`, the swapped slice and the `bufio.Writer` at once, and one
of them may be the one that the codec refuses; a handler that is running can send, shut down and panic.
*Router:* a reconnection is two connections of one peer; the hazards need one peer that reconnects
and one that watches, and a second READY. Messages need a sender, a receiver and two messages for
order. Connections of one peer are interchangeable, hence the symmetry sets (`PortalTwins`, `GameTwins`), used in runs
without liveness only. *Link:* four connections give a first one, one that replaces it, one
that is dialled when the registrar is late and one after that. *Directory:* two links are the ones that share a server, or that the configuration starts to one
router; the third is the other router's, or the one that a refresh starts after the end of one of the two. Whether a server is
found depends on the lists that name that server only, so one of each kind is enough. *IM servers:* one that forwards and one that is forwarded to; the first is on the first ring, the
second may join later; that both announce one id lets a broadcast go back to its sender and leave out another;
`MaxLost` lets one connection be lost, and panics end connections beyond that.
*Clients:* two connections that both want one account replace each other at every point of the login and
of `timeAction`; one of them has a second account, to change to while it is in the map. *Lock:* two callers and two tries give competition, the last
try, the deletion and a caller that goes on without the lock; two calls let a caller meet the counter
that an earlier one left. *Small parts:* one connection is served while the other is accepted; three nodes are
the one that changes and two between which nothing may move, with keys in common; a list of four has one of them twice; four values of a byte give a sign bit
and a carry. The proofs of section 6 have no such bounds.

**Deadlock** is checked in `gate_servers` and `gate_clients`, where the refresher and the timeout go on
for ever. It is not checked in the others: these systems really stop, when all connections are over,
when the loop has returned or waits for a post, when the callers have made their calls, or when the process has ended.

**Fairness.**

* `EventLoop`: `LoopStep` and each `Signal`. The scheduler runs runnable goroutines, functor bodies return, and
  a goroutine that unlocked goes on to signal. Nobody has to post or close.
* `LoopTimers`: besides, the goroutine of each timer and ticker (`Receive`). The runtime need not let
  anything expire.
* `TCPConnection`: `ReaderStep`, `WriterStep`, each `Signal`. A read on a dead socket returns; a write does
  not block for ever, because the peer reads or the connection breaks: the code sets no write
  deadline, so this is an assumption about peers and TCP. No message has to arrive.
* `Router`: the loop, the timers, the writer's exit, and `ReadEnd` of a connection that was shut,
  which is `BothEnd` of `TCPConnection`. Peers owe nothing.
* `GateLink`: dialer, registrar, and `Refuse`: a connection whose socket is gone ends (`BothEnd`).
  Connections need not break and nobody has to call `Close`.
* `GateServers`: the refresher. `RefreshServerList` is started every 30 seconds, and dials and redis
  return. No router has to send anything and no link has to end.
* `GateClients`: the steps of `timeAction`, which a ticker starts every ten seconds, and a reader inside a login,
  which redis answers or refuses. Clients owe nothing.
* `Service`, `TCPServer`: every goroutine that can go on does, and a closed socket makes the blocked
  accept or read return. Signals and connections need not come.
* `IMServers`: the refresher, each dialer and `run`, and a broadcast that was begun. Nothing has to be
  received and no connection has to be lost.
* `RedisMutex`: a caller inside `Lock` or `UnLock` goes on; commands are answered or fail.

## 5. Where code and intention part

One run ends in a counterexample that the code allows.

* **router_replaced** (`PortalsInformed` with `Overlap`). A game server reconnects before the end of its
  old connection is handled: `AddGameClient` shuts the old session and stores the new client;
  then `handleClosed` of the old session deletes by id, removes the *new* client and tells every portal
  that the server is gone. It stays unreachable until it sends READY again.

More is visible in the models without a run of its own.

* `PanicNeedsLoss` of `GateLink` says when `register` panics: after a connection was lost. `register` is meant to stop when `Send`
  refuses, but between two rounds the connection usually ends altogether; `GetConnection` returns nil, and
  `Send` locks the mutex of a nil connection (`gamegate/router.go:177`). The router provokes this: it
  shuts a portal's session at the second READY, one second after the first.
* `TimeOut` of `RedisMutex`: a waiter counts its own tries; when the lock changes hands while it
  waits it deletes, in the end, a lock that was taken a moment ago (`redismutex.go:115`); `MutualExclusion` excepts it.
* `ownerOK = FALSE` of `GateClients`: the type assertion of `client.go:75` names the wrong type, so every
  message of a client panics and ends its connection.
* `CSMarshal` of `Packet`: `CSMessage.Marshal` returns a buffer that nothing was written to
  (`packet.go:307-315`), so clients are sent empty messages; `ReadAsSent` ends at the gate. `SendMessageToRouter`
  sends nothing; the code that would is commented out (`client.go:438-458`).
* `StopReturns` excepts the game server: a reload ends its main loop and with it the only receiver of `sig`,
  so that the next stop blocks for ever (`service.go:59`).
* `account` of `GateClients`: `AccountID` is kept when the token is refused; a client that then times out is not found
  under its old account (`TimedOutLeaves`).
* `shared` in `GateServers`: when two
routers list one server and the later of them drops it, the gate calls `ServerClose` for a server that
the first still lists, and loses it until the next list.
* `InitLink` in `GateServers`: an address that is in both lists of the configuration, or twice in one, gets two links
  (`gamegate/router.go:68-83`), each of which registers with the router; it shuts the session of the one when the
  other says READY. `LinksAsNamed` says how far this goes.
* `ReceiveReady` in `IMServers` takes over any id (`imclient.go:198`): if a server announces another's, a broadcast is sent
  back to the server that it came from and kept from the other (`:347-350`), which `BroadcastCorrect` excludes by `OwnNames`.
* `run` in `IMServers` registers the first connection only: after a
reconnection the IM server is not told READY again, and a notification that came too early is never made good
(`runner[i] = "receive"` in `FoundIsRegistered`).
* With a positive timeout a failed
dial panics (`DialPanics`, `tcpclient.go:46`): `DialTimeout` returns a nil interface and the type
assertion comes before the look at the error; the gate always passes 2 s.
* `AdoptRefused`
(`tcpclient.go:96`) leaves the socket just dialled open.

## 6. What is proved

The proofs hold for every value of the constants that satisfies the named assumptions:
`LoopIsNoCaller`, `ConnectionAssumption`, `RouterAssumption`, `LinkAssumption`, `DirectoryAssumption`,
`MutexAssumption`, `TimersAssumption`, `ClientsAssumption`, `RingAssumption`, `IMAssumption`, `PacketAssumption`
(disjoint goroutines, typed parameters, a finite set of callers, at least one try; addresses in the lists of the configuration, ids of
IM servers in what they announce, finitely many nodes, no more than the longest list has places, a digest that has keys for every virtual node that can be asked for; that a bound is a number; an even
base above two, bodies of bytes, an account of eight bytes).
`TCPServer` and `Service` assume nothing.

* **`EventLoopProofs`.** `TypeCorrect`. `WakeupsAreKept` (`NoLostWakeup`): inductive as it stands, with the
  types. `PipelineCorrect`: `Pipeline /\ ClosingBatchIsFull`; the second is the strengthening: a batch
  taken with the flag set holds everything posted before the flag was set, because swap and test are one
  critical section. `DrainedCorrect` follows. `PromiseKept`: `Spec => Promise!SafeSpec`, every step
  maps to a step of `FunctorQueue` or a stutter. `TimersRefine`: `TimersSpec => Spec`, so that
  all of this holds beside any timers and tickers (`TimersWake` is an instance). `StoppedTimers`: a tick
  comes from an expired timer only (`TimerExpired`), and a timer that `Stop` caught is not one.
  `StoppedTickers`, the safe half of `StoppedTickerEnds`: the number of functors posted since `Stop` plus
  the ticks not yet posted (`Held`: in the channel, in the goroutine's hand) is 2 at most, because
  the runtime adds none to a stopped ticker and a post takes one away (`StoppedRunsDry`).
* **`TCPConnectionProofs`.** `TypeCorrect`, `WakeupsAreKept`, `TransitCorrect` (`InTransit /\ LastRoundIsLast`,
  where the second is what makes the last flush complete), and `PipeKept`: `Spec => Pipe!SafeSpec`.
* **`RouterProofs`.** `TypeCorrect`; `SyncedCorrect`: every handler that changes an entry of a registry
  broadcasts in the same functor, so `SyncedPortals` is inductive with the types, for any connections,
  overlapping or not. `LifecycleCorrect` is the base: what the queue says of a connection.
  `RemovedCorrect` follows from it. `InTurnCorrect` (`PeersInTurn`) shows that without `Overlap` the functors of the
  connections of one peer do not mix; `ReadyCorrect` (`ReadyIsRegistered`) needs it, because a deletion by id is
  harmless exactly if the entry belongs to the connection that ends. `InformedCorrect`
  combines it with `SyncedCorrect`, under the assumption `~Overlap`. `InOrderCorrect` (`InOrder`) numbers the messages of a
  connection: what is queued is behind what was handled and in reading order, and forwarding appends.
  `ForwardedCorrect` (`OnlyVerifiedForwarded`) follows, since a session once verified stays so (`VerifiedStays`). `SenderCorrect`
  (`SenderIsKnown`) is an action property from `InformedCorrect`, under `~Overlap`.
* **`GateLinkProofs`.** `TypeCorrect` (with `Dialled`: what is adopted was dialled). `DialInv` says that the
  connection before is over when the next one is dialled (`IdleIsOver`), so the live one is the newest:
  `ServedCorrect` and the action property `NewestCorrect`. `RemovedCorrect` is inductive alone.
  `PanicCorrect` rests on `Sure`: until a connection is lost the registrar that was notified finds the connection that
  is being served.
* **`GateLinkProofs`, messages.** `PacketsCorrect` (`ReadAsSent`), for any numbers in the fields, any bodies and
  any place where a sender stops. After i bytes the reader has `v div P[w-i] - (v div P[w]) * P[i]`, where
  `P` are the powers of the base (`ValueOfWritten`); so a number that a field holds is read as it was
  written and any other wraps (`ReadWritten`). Each field is found where the layout says (`Offsets`,
  `Flattened`, `Marshalled`), so reading the first n bytes gives nothing or the fields and a
  beginning of the body (`UnMarshalled`). `WayInv` says for each place what is there: behind the
  router the bytes are no longer a beginning of what the server packed, but still a head that can be read
  and the first n bytes of the message (`Carries`), which packing them again keeps (`PackedCarries`).
* **`GateServersProofs`.** `TypeCorrect`. `DirInv` adds `Forgotten` to `DirectoryExact`: a link that is not alive
  lists nothing, without which a link that is started again would owe servers. `SyncedIs`,
  `WithoutIs` say what the two updates do to a map; `GamesStep`, `TeamsStep`, `RemoveStep` what the
  actions do to the directory. `DirectoryCorrect` follows, and `DroppedCorrect`, the action property, from the same
  invariant. `LinksCorrect` (`LinksAsNamed`) from `LinkInv`: the links of an address and the entries of the
  configuration that `RouterInit` has still to visit for it (`Left`) are together at most what is `Allowed`, and one less once
  all are visited and the address is free. Without `Left` nothing would bound what `RouterInit` starts, since it does not look.
* **`GateClientsProofs`.** `IInv` is `TypeOK` with four parts that say what each goroutine has established before it
  goes on: `LoginAccepted` (behind the check of the token), `EntryAccepted` (in the map), `TimedOut` (in
  the hands of `timeAction`), `OldIsOut` (behind `Evict`). No property is inductive without them, because the
  goroutines act on what they read in an earlier critical section. `DeliveredCorrect`, `RemovedCorrect` and `EvictedCorrect` follow.
* **`RedisMutexProofs`.** `Inv` is `CounterIsExact` together with `OneWinner` (at most one caller in the
  counter had a result below 2), `HeldByWinner` and `Unlocked`. `Accounted` lists what a step may do to
  the counter and to the set of callers counted in it; `Exact` turns it into arithmetic on the
  cardinality. From `Inv`: `CounterCorrect`, `ExclusionCorrect`, and with `NoKeyNoCount`
  `ExpiresCorrect`, for any number of callers and tries and whatever commands fail.

* **`PartsProofs`, IM servers.** `IMTypeCorrect`. `RingCorrect` (`RingIsServed`) from `RingIsKnown`: at every moment of a
  refresh the map is what is on the ring and what is still in `addNodes`, and the servers that a
  refresh is about to start are in neither. `NotStarted` adds that what is not in the map has no goroutine, so
  that no server ever gets a second dialer or a second `run` (`StartedOnce`), although the refresh compares
  with the ring and enters the map before it. `BroadcastCorrect`: what a broadcast has still to
  visit is in the map (`BroadcastIsKnown`), and if every server announces its own id (`OwnNames`), exactly the sender is
  left out (`SkipsItsSource`). That is an assumption about the IM servers: `ReceiveReady` takes over any id. `PanicCorrect` (`PanicNeedsLoss`) from `ConnectedBefore`: until some connection is
  lost, whoever has status 1 or is registered with is connected.
* **`PartsProofs`, hash ring.** `RingTypeCorrect`: no weight is of a node that is not listed. `ListedOnce`, an action property:
  no operation lists a node twice on a ring that has none twice; `NewHashring` may begin with one that has, and the
  other theorems hold for that too. `KeptIs` says what `RemoveNode`'s loop leaves: the other elements in their order. `KeysStay`
  (`OnlyItsKeysMove`), for any digest, however keys coincide: with even weights every factor is `Replicas`
  (`TotalOfEven`, `EvenFactor`), so the keys of a node do not depend on the others, a new node is last and
  takes over only what it owns itself, and removing one leaves the order of the rest, wherever they are listed. `LookupsCorrect`
  (`GetNodesExact`), for any weights: a weight is at most the total, so no node asks for more
  virtual nodes than there are (`WeightInTotal`, `KeysOnCircle`); each round of the walk goes on to the
  nearest key clockwise that it has not met, also past the end of the circle (`NextIsNearest`), so that after
  round i it has met the owners of the i nearest keys, in the order of their distances (`AfterRound`), and
  after the last one all nodes that have a key, unless it had enough before (`WalkMeets`).
* **`PartsProofs`, server and signals.** `ServiceTypeCorrect`; `MapCorrect` and `ClosedCorrect` from `ServerInv`: the map is
  exactly the connections whose goroutine runs (`MapIsExact`), an open socket has a goroutine or was
  just accepted (`OpenIsServed`), and where the accepting goroutine is tells whether it listens
  (`ListensInTime`). `ClosedCorrect` is the safe half of `ClosedServerEnds`. `ReceiverCorrect`
  (the safe half of `StopReturns`: a signal that was taken up finds its receiver alive, except in a game server after a
  reload) and `OrderCorrect` (nobody ends the process before its main loop) from `StopInv`.

**Induction over data.** The total weight and the walk are recursive. Their lemmas do not use an induction
theorem but a smallest counterexample: a set of numbers has a least element (`MinOfNaturals`), and a
nonempty set of subsets of a finite set has a minimal one, both from `WFMin` and the well-foundedness of
strict inclusion between finite sets. Numbers and layouts are recursive functions over a range, which
`Recursion` shows to exist and `UpTo` inducts over, in the same way. `TotalIsSum`: two functions that add up the weights agree, for on a minimal set
on which they did not, they would differ without one of its elements too. `WalkExists` and
`LastRound` take the first round that goes wrong.

**Only model-checked.** Liveness and everything under fairness (`BothEnd`,
`VerifiedOrEnded`, `EndedIsForgotten`, `Registered`, `CloseEnds`, `ListedIsLinked`, `TimedOutLeaves`,
`FoundIsRegistered`, `LockReturns`, the liveness of `ClosedServerEnds`, `StopReturns`, `StopVerdict` and
`StoppedTickerEnds`, and the fairness part of
`PromiseSpec` and `PipeSpec`), which needs `ENABLED`, out of the prover's reach. Every invariant that a run checks
is also proved.
`Pipeline`, `DrainedAtReturn`, `ClosingBatchIsFull`, `LastRoundIsLast`, `Lifecycle`, `PeersInTurn`,
`ServedIsCurrent`, `RemovedAtTheEnd`, `StoppedNeverPosts`, `NoLostWakeup` of the connection, `MapIsExact`,
`ListedOnce`, `BroadcastIsKnown`, `SkipsItsSource` and the type invariants are proved and not in a run of their own: the runs check what they
serve for.

## 7. What is not modelled

* The receive rate limit of a session: `SetReceiveLimitPerSecond` is never called.
* `TransType_Group` in `imclient.go`, which sends to a list of accounts in the body; it looks each of
  them up as `TransType_ByKey` does.
* The router's message counters and their printing (`Statistics`).
* In `protocol`: the registry of message types (`protobuf.go`, `protoFactory.go`: maps filled at start-up, and
  reflection), strings, floats and 24-bit
  fields, which no message layout uses.
* The other accessors of `base/dao/redis`: single commands on an external server.
* csv tables, configuration, logging, the code generator, the utilities: file
  I/O, reflection and formatting without state of their own. The main loop of `gamesvr` is in `Service`; its
  service is empty.
* Data races that the runtime may detect on maps: `RouterInit` writes `routerMap` without the lock
  (`gamegate/router.go:70`), which needs a link that ends while the gate starts. `IMServers` has the one that running gates meet.
