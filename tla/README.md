# Verification of zshell-gateway

The Gateway accepts MCP tool calls over HTTP, authorises them with its own small OAuth
server, and forwards them to *devices*: ShellCore processes that keep a session open to
the Gateway, over a WebSocket or by HTTP polling. It also relays file transfers between
two devices. This directory holds TLA+ models of its concurrent and failure-prone parts,
TLC configurations that check them on small instances, and proofs, checked by TLAPS, of
what holds for every instance. Paths below are relative to the repository; `manager.go`,
`transfer.go`, `http.go` are in `internal/device/`, `oauth.go`, `oauth_clients.go` in
`internal/gateway/`.

1. [Inventory](#1-inventory)
2. [Modules and how they correspond to the code](#2-modules-and-the-code)
3. [Runs](#3-runs)
4. [Fairness](#4-fairness)
5. [Proofs](#5-proofs)
6. [Disagreements between code and documents](#6-disagreements-between-code-and-documents)
7. [What the models leave out](#7-what-the-models-leave-out)
8. [Plan](#8-plan)

## 1. Inventory

### Components, their state and their operations

| Component | Source | State | Operations | Model |
|---|---|---|---|---|
| Transfer relay | `transfer.go` | `transfers`, `activeTransfer` (device → transfer), per transfer its state, progress, timer and `relayMu` | StartTransfer, CancelTransfer, handlers of `transfer_*` messages and chunks, expiry, pruning | `DeviceTransfers` |
| Device registry | `manager.go` | device name → current session | Attach, Detach, Close, resolve, how Call maps errors | `DeviceRegistry`, also in `DeviceTransfers` and `DeviceSession` |
| Session: calls and heartbeats | `manager.go` | `pending` slots, `activeCalls`, `sendMu`, `done` | call, ping, readLoop, close, Monitor | `DeviceSession`, its clocks in `RelayTiming` |
| HTTP transport | `http.go` | `outbound` queue, the chunk slot with its `ack` channel, `done`, the table of polling sessions | hello, poll, message, chunk GET/POST, acknowledgement, Close | `HTTPTransport` |
| WebSocket transport | `websocket.go` | one connection | Send, SendTransferChunk, ReceiveFrame, handshake | handshake in `DeviceRegistry`, sends and reader as others use them |
| OAuth client registry | `oauth.go`, `oauth_clients.go` | `clients` in memory, the state file, its backup and temporary file | register, save, load | `OAuthClients`, on a disk that loses power `OAuthStorage` |
| OAuth codes and tokens | `oauth.go`, `jwt.go` | `codes` | authorize, approve, exchange | `OAuthProvider` |
| MCP tools | `tools.go` | none of their own | routing a call to a device and reporting why it could not be | the routing, in `DeviceRegistry` |
| Server, configuration, message types | `server.go`, `config.go`, `protocol.go` | none of their own | wiring | not modelled |
| ShellCore | another repository | – | – | environment of the models |

### How they interact

* An MCP tool call runs on a goroutine of its own and calls `Manager.Call` or
  `StartTransfer`. Each session has a reader goroutine (`Serve`) and a monitor goroutine
  (`Monitor`). Each transfer has a timer goroutine. Over HTTP, each request of a Core is
  one more goroutine, and chunks it uploads enter the relay from there.
* They share the registry (`Manager.mu`), the transfer table (`transferMu`), the relay
  lock of each transfer, the slots (`pendingMu`), the order of sends (`sendMu`) and the
  chunk slot (`chunkMu`). `relayMu` and `sendMu` are held while a message is being sent,
  and sending may block.
* A lost session reaches the relay through `Detach`, which looks for transfers *by device
  name*; a blocked transport reaches everybody through `sendMu`.

### What is hard here

| Behaviour | Where it bites | Checked by |
|---|---|---|
| a transfer ends (cancel, expiry, disconnect, failure, completion) while a send for it is under way | `transfer.go:408`, `:467` | NoNewDataAfterCancel, FinalIsForever |
| a session is detached between resolving it and reserving it | `manager.go:302`, `:308` | NoOrphanReservation, ClosedSessionEndsTransfer |
| reservations against their releases from five directions | `transfer.go:157` | ReservationsMatch |
| concurrent and repeated chunk uploads | `transfer.go:391`, `http.go:306` | RelayedInOrder, DeliveredAsDeclared |
| a source whose reader is busy with chunks, a call that overtakes a ping, a lock held in a send that waits | `manager.go:262`, `:361`, `:408` | KeptWhileAnswering, DeadCoreRemovedInTime, IdleTransfersEnd |
| handshakes cut short, duplicates, late detaches of a session whose name is bound again | `http.go:241`, `websocket.go:110`, `manager.go:298` | NoForgottenSession, GhostsGo |
| a call that meets the end of its session after the registry has changed | `manager.go:212` | RoutingErrorsWereTrue |
| close resets the slots under calls that are registering | `manager.go:347` | CountMatches |
| late answers to abandoned requests on a shared stream | `manager.go:374` | WaitersAreAnswerable |
| a full polling queue blocks the sender with `sendMu` held | `http.go:53` | CallersReturn, ClosedFreesAll |
| broken polls, late and repeated acknowledgements | `http.go:253`, `:313`, `:354` | ImplementsLink, SlotOfTheSender |
| a sender gives up while its announcement, downloads and verdicts are still under way | `http.go:93`, `:313` | ImplementsLink, NoNewDataAfterCancel |
| moves of files that a power failure takes back | `oauth_clients.go:158` | ImplementsStore, EveryStartSucceeds |
| the process dies inside a save, or a rename fails | `oauth_clients.go:151`, `:158` | AcknowledgedSurvive, RefusedStayOut, MemoryMatchesFile |
| codes repeated, or expired at the boundary | `oauth.go:360`–`:394` | SpentOnce, TokensAreGranted, FreshCodesStand |

`PROJECT.json` lists every hazard at its line, also those that no property covers yet and
why.

### What makes each component correct

* Relay: a device takes part in one transfer at a time; data arrives gaplessly and within
  the declared size; "completed" means delivered; an end is final, is announced, and
  always comes.
* Session: a caller that waits can still be answered; the counter that switches heartbeats off is
  exact; nobody waits on a closed session.
* HTTP transport: what the Gateway believes delivered was delivered, messages arrive in
  order and at most once, close frees all who wait.
* Registry: a session is bound to its name until it is detached, and then gone; a routing
  error was true; a Core that is lost frees its name; one that answers keeps it.
* OAuth: memory, disk and what clients were told agree at every point where the process
  may die; a power failure takes back recent registrations only; a code is worth one
  token, for whom and as long as it was issued.

## 2. Modules and the code

| Module | Contents |
|---|---|
| `FileTransfer` | abstract contract: what a client of StartTransfer, TransferStatus and CancelTransfer can rely on |
| `DeviceTransfers` | the relay with registry, Detach and Close; refines `FileTransfer` (`ImplementsContract`) |
| `DeviceRegistry` | handshakes, registry, detaching, shutdown, routing of tool calls |
| `DeviceSession` | one session with its calls, heartbeats and close |
| `RelayTiming` | the clocks of a session under a transfer: heartbeats, chunks, acknowledgement, idle expiry |
| `OrderedLink` | abstract link: what a transport promises to the senders of a session |
| `HTTPTransport` | the Gateway's end of a polling session; refines `OrderedLink` (`ImplementsLink`) |
| `ClientStore` | abstract store: what the clients file promises to those who register |
| `OAuthClients` | client registry and its file; its own specification is `ClientsSpec` |
| `OAuthStorage` | the same file on a disk that loses power (EXTENDS `OAuthClients`); refines `ClientStore` (`ImplementsStore`) |
| `OAuthProvider` | codes and tokens on top of it (EXTENDS `OAuthClients`) |
| `MC…` | values of the constants for TLC |
| `DeviceTransfersProofs`; on top of it `ContractProofs` and `RelayProofs` | theorems about the relay |
| `RelayTimingProofs` | theorems about the clocks |
| `DeviceRegistryProofs`, `DeviceSessionProofs`, `HTTPTransportProofs`, `OAuthProofs` | theorems about the others |

Every module has one action per section of code between two points where another
goroutine can come in: a critical section is one step, a send under a lock is a step of
its own. Definitions called "Variant of …" in their comment are deliberately wrong forms
of a definition. No specification uses them; they show that a property notices the
mistake.

### DeviceTransfers

* *Registry.* `session[d]` is the session `Manager.devices` has for a name; `life[s]`
  adds whether the network is still there (`lost` is invisible to the Gateway). `Detach`
  is `DetachUnbind`, `DetachClose`, `DetachScan`, `DetachFail`: unbind under `mu`, close
  the session, collect the transfers of the device *name*, fail them one at a time. Two
  goroutines may detach a session: its reader, and (for sessions in `Monitored`) its
  monitor or a failing call. `CloseScan` … `CloseSession` are `Manager.Close`.
* *StartTransfer* of `t` is at `starter[t]`: `ResolveSource`, `ResolveTarget`, `Reserve`
  or `Refuse` (one section under `transferMu`, pruning included), `StartRelay` (takes
  `relayMu`), two sends, `Return`.
* *Relay.* `relay[t]` is `relayMu` together with the send made under it. `SendThen`
  describes all sends: the message goes out and the holder continues, or it fails and
  `FailRelayLocked` makes the transfer final and tells both peers. `SourceReady`,
  `TargetReady`, `SourceChunk`, `SourceFinish`, `TargetFinish` and `PeerFailed` are the
  handlers, with the checks that fail a transfer for breaking the protocol.
  `handleTransferTargetFinish` completes a transfer *without* `relayMu`, and so does
  `TargetFinish`.
* *Late bytes.* `LateChunk` is the write of a GET that looked a chunk up before its sender
  gave up (`late[t]`, set by `ChunkSendFails`): it may come after everything else.
* *Timer.* `Expire` is `expireTransfer` when it has `relayMu`; `fresh[t]` abbreviates the
  comparison of `updatedAt` with the two minutes.
* *`wire[s]`* records what each session was sent: the properties about order read it.

### DeviceSession

`caller[c]` is where the `Session.call` of `c` is: `Resolve`, `Register` (slot),
`Count` (`activeCalls`, a separate step in the code), `LockCall`, `SendCall`, `Finish` or
`CancelCall`. The monitor has `Tick`, `RegisterPing`, `LockPing`, `SendPing`,
`PongArrives`, `PingTimesOut`, `PingCutOff`. `closing` is the progress of Detach: unbound,
`done` closed, slots dropped. Session ids and request ids are fresh in the code, so a call
stands for its own id, and a ping that was given up turns into `"stale"` wherever it
still is. The transport is part of the initial state: a WebSocket reader sees a dead
peer, an HTTP reader does not.

### RelayTiming

One session of a device that is the source or the target of a running transfer, and time
in units. `Load`, `PutPing` and `Miss` are Monitor: the tick, at which it reads
`activeCalls`; the ping, whose own timer starts when it has been sent; the missed pong. A
call may come between the first two. `ReadChunk` is the reader of a source, which is away
(`ReaderFree`) while it relays the chunk to a target that takes its time. `PutChunk`
announces a chunk to an HTTP target and waits (`relay.pc = "ack"`) with `sendMu` held until
`Store` acknowledges it or `AckTimesOut`. `Expire` is the idle timer, which looks at
`updatedAt` and arms itself for the rest. `to` and `from` are what a connection or a
queue holds; a Core that has stopped (`up`) neither reads nor answers. `Pass` lets time go
on only when nothing is `Due`, so the goroutines of the Gateway take no time and a running
Core at most `Delay` or `Command`. Two variables only measure what the properties exempt:
`excuse` what may delay the ping that is out, `stuck` how long a send waited for the connection
alone.

### DeviceRegistry

A session is one hello. `gate[s]` is how far the handler of `handleHello` or
`webSocketHandler.handle` is, `stage[s]` how far its Detach, and `peer[s]` what the Core
makes of it: the reply may be lost (`Quit` before `Accepted`), over HTTP without anybody
noticing. `Attach` refuses a name with a live session. `Detach` may be run by the monitor,
the reader, the failing handler and failing calls (`ByMonitor`, `ByServe`, `ByHandler`,
`ByCaller`), each as late as it likes, `Close` follows. A call is at `at[c]`: `Route` is
`resolve` with and without a name, `Post` and `Break` are `Session.call`, `Report` is how
`Manager.Call` maps the error after its own Detach. `truths` records which routing errors
were true at some moment of the call.

### HTTPTransport

`outbound`, `slot` and `ack[n]` are the channel, `httpTransport.chunk` and its `ack`.
Each request of the Core is a goroutine: `polling` and `stray` are the current poll and
one whose connection broke, `gets` the chunk downloads in flight, `ackers` the
acknowledgements that found their chunk. The cases of each select are actions of their own:
`CutOff`, `PollClosed`, `StrayClosed` and `AckCutOff` are the ones of `done`, `GiveUp`,
`PollTimesOut` and `StrayLeaves` those of timers and contexts. `Close` may come at any moment of
the hello; its second half, `Unlist`, is `onClose`. The Core may repeat a GET or an acknowledgement,
and late ones stay around. `received` and `held` are what the Core really got.

`OrderedLink` knows the message under way (`current`), what each sender was told
(`result`), `received` and `held`. `Offer` begins a message, `PollTakes` makes it arrive,
`Written` fetches a chunk; `TakeAck`, `GiveUp`, `CutOff` and a `Put` that ends the send tell the
sender. All other steps are invisible.

### OAuthClients, OAuthStorage and OAuthProvider

A registration holds `OAuthProvider.mu` while `WriteTemp`, `StatPrimary`, `MoveToBackup`,
`Install` and `RemoveBackup` follow each other; each may fail as in `Errors` (`StatFails`
for the look at the old file), and `TakeBack` removes the client from memory again. `Crash` may come between any two steps;
`Restart` loads the file, or the backup if there is none. A file is a set of clients.
In `OAuthStorage` the content of a file is on the disk before it is moved (`OnDisk`: the
code syncs the temporary file), but moves and removals become durable later, because the
directory is never synced. `journal` holds the directories a power failure may bring back:
one for each operation since the system last wrote the directory back (`WriteBack`).
`PowerFailure` chooses one of them, and the Gateway starts from it. In terms of
`ClientStore`, `Install` admits a client, `Reply` confirms it, `TakeBack` and `RegistryFull`
deny it, `WriteBack` settles what is known, and `PowerFailure` loses some of the rest.
`Validate` and `Issue` are the two locked sections of `HandleAuthorize`. `Exchange` is
`HandleToken` with `exchangeAuthorizationCode` under it: expired entries are pruned, the
entry is compared (`Matching`), and it is deleted with the token (`Granted`, `Token`) or
left (`NotGranted`). `CrashAll` forgets the codes. `issued`, `voided`, `uses`, `acked` and `refused` are
history: what was told to whom.

## 3. Runs

| Run | Instance | Distinct states | Shows |
|---|---|---|---|
| `transfers_stream` | one transfer of ≤ 2 bytes, WebSocket source, HTTP target; loss, detach, expiry, Manager.Close, protocol errors and failing peers | 2 499 311 | TypeOK, RelayedInOrder, DeliveredAsDeclared, NoNewDataAfterCancel, NoOrphanReservation, ImplementsContract |
| `transfers_reconnect` | one transfer; device a connects a second time, over HTTP, and its first session may be detached by two goroutines; under fairness | 684 840 | NoOrphanReservation, FinalIsForever, StaleTransfersEnd, ClosedSessionEndsTransfer |
| `transfers_pair` | two transfers, three devices, history of one | 660 542 | ReservationsMatch, TableBounded |
| `session_calls` | two calls, both transports, queue of one, two missed heartbeats; under fairness | 202 290 | TypeOK, CountMatches, WaitersAreAnswerable, CallersReturn, StoppedWebSocketIsRemoved, AbandonedSlotsAreFreed |
| `relay_timing` | one session in either role and on either transport, two calls; see below | 12 396 482 | KeptWhileAnswering, DeadCoreRemovedInTime, IdleTransfersEnd |
| `registry` | device a says hello over HTTP and over WebSocket, device b over WebSocket; one client calling again and again; under fairness | 547 328 | TypeOK, NoForgottenSession, RoutingErrorsWereTrue, GhostsGo |
| `http_transport` | chunk, control message, chunk; queue of two, two requests about chunks at a time; under fairness | 260 176 | TypeOK, SlotOfTheSender, ClosedFreesAll, ImplementsLink |
| `oauth_storage` | four clients of which two fit, all operations may fail | 2 901 | EveryStartSucceeds, ImplementsStore |
| `oauth` | three clients of which two fit, two codes of which one fits, clock 0..2 and TTL 1 | 1 543 218 | TypeOK and the eight properties of `OAuthClients` and `OAuthProvider` |
| `stale_detach`, `orphaned_preparation`, `stopped_core` | smallest instance that shows it | – | a documented property the code does not have, see section 6 |

### Bounds, and why they are enough

* *Transfers.* Two bytes allow zero, one and two chunks, chunks of both lengths, wrong
  sequence numbers and overruns: a chunk is checked against `nextSeq` and the size only,
  so longer streams repeat the situation after the first chunk. Two transfers over three
  devices share one or both devices, which is all a reservation can meet; `MaxHistory = 1`
  makes pruning happen. One reconnection is enough for a name to outlive a session. The
  data path, the races of reconnection and those of reservation have separate runs:
  together they exceed what TLC finishes in minutes. What they have in common, the type
  and the reservations, is proved for all sizes at once.
* *Calls.* Two calls are the fewest that compete for `sendMu` and that may take each
  other's answer, and a queue of one is full at once. Two missed heartbeats (the code:
  three) keep "missed once" apart from "give up". Liveness runs without symmetry.
* *Timing.* A heartbeat's timeout is at most its interval, an acknowledgement (30 s in the
  code) may take longer than a heartbeat, the idle timeout longer than that; a call (4) and a
  chunk (4) may outlast a heartbeat (3), so the cases where nothing but the named exceptions
  of the properties keeps them true are all reached. Two missed heartbeats, and two calls, so
  that calls alone may use them up. Three messages towards the Core are the fewest for a
  chunk, a cancel and a ping; one from it makes its answers wait. The thresholds in the
  properties are tight: with `RemovalLimit` or `IdleLimit` one lower TLC finds a
  counterexample.
* *Registry.* Two hellos of a name are what a late Detach can confuse; a second name is
  what makes a call without a name ambiguous. The client calls without end, so its calls
  meet every order of hellos, losses and the shutdown.
* *HTTP.* A second chunk is what a late acknowledgement of the first could hit; the
  control message between them goes through the same queue; the queue of two is full with
  a message and an announcement. `MaxRequests = 2` lets a repeated download or acknowledgement
  meet its original; the proofs have no such bound.
* *OAuth.* A third client meets the limit of two; three different clients are needed for
  memory, file and backup to differ pairwise. One code of two fits, so pruning decides. The
  clock reaches `TTL` and the first moment after it. For the disk four clients are needed: two
  fill the registry, a power failure takes them, and two more register.
* `CHECK_DEADLOCK FALSE` everywhere: transfers and calls are finite in number, and all of
  these systems come to rest when they are over or closed.

## 4. Fairness

* *Transfers (`LiveSpec`).* Weak fairness for a StartTransfer that can go on, for the
  relay holding `relayMu`, for the timer, for each goroutine inside Detach and for
  Manager.Close. The reader of a *closed* session gets its error, so its Detach begins.
  Nothing is assumed of Cores and tools: no message need ever come, no caller need
  cancel. Attach and a loss are never forced. Fairness of the relay includes that a send
  returns, taken or failed. The code ensures that for a closed session, for a chunk over
  HTTP (30 seconds) and while the Core keeps reading; what happens with a Core that stops
  reading is the subject of `RelayTiming`, which assumes nothing of the kind.
* *Calls (`LiveSpec`).* Weak fairness for every goroutine that can go on and for a Core
  that runs. Taking `sendMu` is strongly fair: Go's mutex hands itself over to a waiter
  that starves. A caller need not cancel and a Core need not stop.
* *Registry (`LiveSpec`).* Weak fairness for handlers, for `Close` and for calls under way,
  and for Detach by a thread that is bound to run it (`Due`): the reader of a closed session
  or lost WebSocket, the handler or call that failed, and the monitor of a Core that is gone,
  unless a call holds its heartbeat off. Cores and clients need do nothing.
* `RelayTiming` has time instead of fairness: its properties are invariants about ages.
* *HTTP polling (`LiveSpec`).* Weak fairness for each goroutine in the transport whose select
  has a case that is ready. Timers are not fair and the Core need do nothing, so
  `ClosedFreesAll` holds by the `done` cases alone: without the one of a poll, of a sender or
  of an acknowledgement it would fail.

## 5. Proofs

All obligations are checked by TLAPS from the modules' named assumptions on the constants
(`ConstantsAssumption`, `DevicesAssumption`, `SessionAssumption`, `RegistryAssumption`,
`TransportAssumption`, `ClientsAssumption`, `ProviderAssumption`, `TimingAssumption`): sets
of identifiers are finite where they are counted, limits are naturals, sentinels are no
members, a heartbeat's timeout is at most its interval. There are no bounds, and no theorem
has another condition.

| Theorem | States | Argument |
|---|---|---|
| `TypeCorrect` in each of six modules | `Spec => []TypeOK` | action by action; in `OAuthProofs` with the bound on the table of codes, in `DeviceSessionProofs` with the failure count, in `RelayTimingProofs` with the count of what is under way |
| `ReservationsCorrect` | `Spec => []ReservationsMatch` | `Inductive`, below |
| `FinalityCorrect` | `Spec => FinalIsForever` | the only sections that write a state are guarded by it being active |
| `ContractHolds` | `Spec => ImplementsContract` | `Inductive` and `ProgressInv`: states, readiness and byte counts agree |
| `NoDataFollows` | `Spec => []NoNewDataAfterCancel` | `DataInv`, below |
| `NoOrphans` | `Spec => []NoOrphanReservation` | `OrphanInv`, below |
| `RelayIsInOrder` | `Spec => []RelayedInOrder` | `ChunksInv`, below |
| `CompletedIsDelivered` | `Spec => []DeliveredAsDeclared` | `DeliveryInv`, below |
| `TableStaysBounded` | `Spec => []TableBounded` | `HistoryExact`, below |
| `SilentCoresGo` | `Spec => []DeadCoreRemovedInTime` | `DeadInv`, below |
| `RunningCoresStay` | `Spec => KeptWhileAnswering` | `KeptInv`, below |
| `IdleTransfersAreHeld` | `Spec => []HeldWhenIdle` | `HeldInv`, below |
| `IdleTransfersStop` | `Spec => []IdleTransfersEnd` | `IdleInv`, below |
| `NothingForgotten` | `Spec => []NoForgottenSession` | `SessionsInv`, below |
| `ErrorsWereTrue` | `Spec => []RoutingErrorsWereTrue` | `CallsInv`, below |
| `DeliveryCorrect` | `Spec => [](AckedMeansHeld /\ SlotOfTheSender)` | `IInv`, below |
| `OrderCorrect` | `Spec => []ReceivedInOrder` | the same invariant |
| `TransportImplementsLink` | `Spec => ImplementsLink` | the same invariant with `LinkInv` |
| `CallsCounted` | `Spec => [](CountMatches /\ CountNeverNegative)` | `Accounting`, below |
| `WaitersAnswerable` | `Spec => []WaitersAreAnswerable` | the same invariant |
| `RegistryCorrect` | `ClientsSpec => [](AcknowledgedSurvive /\ RefusedStayOut /\ MemoryMatchesFile)` | `Registry`, below |
| `Layered` | `Spec => ClientsSpec` | every step of the provider is one of the registry or leaves it alone |
| `RegistrationsSurvive` | `Spec => []AcknowledgedSurvive` | the two before it |
| `StorageTypeCorrect`, `RecentLossOnly`, `StartsSucceed` | `StorageSpec => []StorageTypeOK`, `[]OnlyRecentLost`, `[]EveryStartSucceeds` | `Stored`, below |
| `StorageImplementsStore` | `StorageSpec => ImplementsStore` | the same invariant |
| `GrantsCorrect` | `Spec => [](SpentOnce /\ TokensAreGranted /\ TokensOfDurableClients /\ FreshCodesStand)` | `Grants`, below |
| `TurnedAwayCorrect` | `Spec => TurnedAwayOnlyWhenFull` | with `Grants`, the pruned table is exactly the set of codes still good |

* *Reservations.* `ReservationsMatch` is not inductive. A StartTransfer reserves two names,
  so they must differ (`StartOrder`, which rests on `RegisteredByName`); a section under
  `relayMu` must not belong to a transfer that has no entry yet (`StartOrder`); pruning must
  take final entries only (`HistoryFinal`). With these, each step either adds a transfer
  with its two reservations, removes both, or touches neither.
* *Data and cancels.* A cancel is sent while `relayMu` is held for a transfer that is final
  (`CancelsFinal`), and a transfer never leaves a final state; so whoever takes `relayMu`
  for data afterwards would need a live transfer and finds none, and the one who held it
  before has let it go (`DataStops`). What a GET may still write is the chunk of the send
  that failed, so the transfer ended by it and every other chunk came before.
* *Orphans.* `Kept` says for each live transfer of a closed session why it will end: the
  StartTransfer has sends to make that will fail, or a Detach of the session has not
  scanned yet, or it has and holds the transfer in its list. It needs that Detach closes
  before it scans (`ClosedFirst`).
* *Order of chunks.* `nextSeq` is one above the last chunk on the target's wire as long as
  the transfer lives and its session is open (`LastAt`); a transfer whose send failed is
  final at once, so that no later chunk can follow the gap. That all chunks of a
  transfer are on the session of its target (`ToTarget`), behind its start (`Invited`), needs
  that nothing is sent for a transfer before its StartTransfer has resolved both ends
  (`Untouched`), and that no session is closed before it attached (`Attached`).
* *Delivery.* `DeliveredAsDeclared` places each chunk at an offset and asks that they cover
  the file. The offsets are carried along (`Placed`): while the transfer lives they cover
  exactly what `Transferred` counts, and the last one ends there (`Frontier`). The commit is
  sent in state "verifying" only, which is entered at the declared size (`Turned`), and
  nothing but a cancel of an aborted transfer can follow it (`Sealed`, `CommitLast`,
  `NoCancelYet`). No sum over the chunks is needed, hence no induction over them.
* *The table.* The history names every final transfer of the table exactly once
  (`HistoryExact`). So pruning can only stop short when nothing but live transfers is left,
  and each of those holds two devices of its own (`ReservationsMatch`), which bounds them.
* *Clocks.* Time passes in one action and only while nothing is due, so a deadline is a sum
  of time passed and time to go that all other steps leave alone or lower.
  - `SilentInv`, for a silent Core: what is left is the rounds still allowed, the wait for the
    next tick or for the ping that is out, and an HTTP target's acknowledgement while it
    holds `sendMu`. Pongs that were on their way when the Core stopped set the count back,
    but come at a time at which all rounds still fit.
  - `KeptInv`, for running Cores: a ping is sent while no call is out, unless one overtook it,
    so no call stands before it (`NoCallAhead`); and then time passes only while the Core works
    on a chunk, or the reader of a source is away in a send (`HeldByTransfer`): everything else
    that could be before the ping or its pong is due at once. So the ping is never older than
    the time the transfer held it up.
  - `HeldInv`: the timer runs out when the idle time does, at the latest.
  - `IdleInv`: a send begins with an idle time within the timeout, and while it goes on, the
    idle time grows with the wait for the connection (`stuck`) or with the age of the wait for
    the acknowledgement, which has a limit.
* *The registry.* Detach compares before it unbinds, so it can only unbind its own session:
  `BoundByName`, `HelloFirst`, `EarlyIsOpen` and `UnlistedIsOpen` place handler and Detach of
  a session relative to each other, and an open session is bound exactly when it is
  attached. For the errors, `RouteStands`: as long as a call is under way, its name is still
  bound to its session, or "not found" has been true meanwhile; the call's own Detach makes
  it so at the latest.
* *HTTP polling.* `SenderInv` and `SlotOfTheSender` leave the slot to the sender that waits,
  `VerdictsInv` says that an "ok" under way is for a chunk the Core holds, and `OrderInv`
  puts what was received, what is queued and what waits for the queue in ascending order,
  which a broken poll can only thin out. For the link, `LinkInv` adds that the message under
  way has no verdict until its sender stops waiting, and every earlier one has: so a sender
  is told once, and the next one begins after that.
* *The count.* The slot and the counter change in two steps, and close drops both under
  the feet of calls between them. `Accounted` compares `activeCalls` with the slots
  *already counted*: equal until the slots are dropped, never below afterwards. That an
  answer finds a counted slot needs `OnlySentAnswered`: what is queued, being worked on or
  arriving was sent by its call. `SlotOrder` connects slots and callers.
* *The file.* `SaveProgress` says, for every point of a save, what a restart would load:
  the registry without the new client until the new file is in its place, with it from
  then on. Crashes and failures at that point follow at once.
* *The disk.* A power failure breaks the promise to clients that were told 201, and with it
  `Registry`; `RegistryCore` is what is left. `Grows`: what a start would load changes in one
  of the moves only, the installation, and there only by the new client. So each directory in
  the journal loads something between `settled` and the current file (`Stored`), and as memory
  and file agree when a client is registered, the limit on one bounds the other (`Fits`).
* *The codes.* `CodeBook`: a code has one entry, one that is in the table is unspent, one
  that was spent or lost is not. `DurableGrants`: approvals and codes are for clients that
  every restart loads; it holds because `Validate` takes the lock, so it never sees a
  client whose save is under way, and because no step takes a client from the disk.

`CallsCounted` proves besides CountMatches that the counter is never negative, which no run
repeats. Model-checked only: liveness (fairness and ENABLED are outside the prover's reach),
so also ClosedFreesAll. All other properties that a run checks are
stated by a theorem. Types of the clocks and of the storage, `OnlyRecentLost`, `AckedMeansHeld` and
`ReceivedInOrder` are proved and not checked again: they are lemmas of properties that are.

## 6. Disagreements between code and documents

Each has a run that TLC ends with a counterexample; `PROJECT.json` quotes the lines.

1. *`stale_detach`, `manager.go:304`.* Detach of a session that was replaced still fails
   the transfers of that device *name*, also a healthy one on the new session, although
   the comment at `manager.go:52` keeps device and socket apart.
2. *`orphaned_preparation`, `transfer.go:175`.* Between reserving and taking `relayMu`,
   StartTransfer may be overtaken by a failure of the transfer. It then sends its start
   messages after the cancel, and a peer keeps a prepared file nobody removes
   (`README.md:107`).
3. *`stopped_core`, `manager.go:262`.* A Core on HTTP that stops during a call whose caller
   gave up stays registered for ever: the slot keeps `activeCalls` above zero, which keeps
   the heartbeat off (`README.md:137`). `AbandonedSlotsAreFreed` and
   `StoppedWebSocketIsRemoved` show that slots of a Core that answers, and a WebSocket that is
   lost, are not affected. A ping that finds no place keeps a stopped Core as well, see below.

Other behaviour of the code that a reader of the properties should know is named in them as
the exception under which they hold:

* A call that arrives between the look at `activeCalls` and the ping (`manager.go:262`) is
  executed first, and the late pong counts as missed, which the comment there means to rule
  out (`overtaken` in `KeptWhileAnswering`). It takes `heartbeatFailLimit` misses in a row to
  lose a session.
* A transfer may hold up a ping or its pong for longer than `heartbeatTimeout`, and so have a
  running Core detached (`held` in `KeptWhileAnswering`). The Core works on a chunk in front of
  the ping; or the reader of a WebSocket source, which relays each chunk itself, waits for a
  target that stores the chunks ahead of the pong slowly; or `transfer_cancel` is sent to
  the source under `relayMu` and waits for room on a full connection, the Core for room for its
  answer, and the reader for `relayMu`.
* A send to a stopped WebSocket Core whose connection is full has no deadline and keeps
  `relayMu` and `sendMu`: neither the two minutes of `ARCHITECTURE.md:60` nor the heartbeat,
  whose ping waits as well, ends it (`stuck` in `IdleTransfersEnd`; `DeadCoreRemovedInTime`). The
  same holds for a full polling queue (`http.go:53`), without any call: `GhostsGo`, in a model
  without queues, assumes that the ping finds room. A target that is busy with calls, but runs,
  may also make a chunk wait for its place longer than the two minutes.
* A call that names no device, and loses the only one on the way, reports that none is
  connected even if another one is by then (`RoutingErrorsWereTrue`). The list of devices in
  a routing error is a second read of the registry and may contradict the error.
* Reservations are freed before `transfer_cancel` is sent (`transfer.go:546`), so a device may be
  told to start its next transfer before it hears of the end of the last one; in the Gateway
  it takes part in one at a time (`ReservationsMatch`).
* A registration is answered with 201 once the new file is installed, but the directory is not
  synced (`oauth_clients.go:158`): a power failure may take recent clients back, never older
  ones (`OnlyRecentLost`).
* `ARCHITECTURE.md:60` says that a cancellation cannot be followed by a late chunk at the
  target, and so do the comments at `transfer.go:225` and `:535`. For an HTTP target the code
  has one exception: a GET that looked the chunk up (`http.go:313`) is not cut off when its
  sender gives up after 30 seconds (`http.go:96`) and may write the bytes (`http.go:328`) when the
  transfer has failed and its `transfer_cancel` was polled. `LateChunk` is that write, and
  `NoNewDataAfterCancel` names it: only that chunk, only of a transfer that ended by its
  failed send, and nothing after it.
* `transferTargetFinish` (`transfer.go:471`) looks at the state "verifying", which is set before
  `transfer_commit` is sent, so a Core that finishes without being told could complete a transfer
  before its commit. The models let a Core finish when told only; that half of
  `DeliveredAsDeclared` is an assumption on it. That all bytes were relayed is not.
* A device can be called from Attach on, over WebSocket before its `hello_ack` is sent
  (`websocket.go:105`).

## 7. What the models leave out

* *Data.* Paths, hashes, file contents, formatting of results and errors, transfer rates,
  chunks without bytes. Sizes are naturals: the declared sizes are within `int64`, and the
  sums are checked against them before they are stored, so the width never shows.
* *In `DeviceTransfers`:* a session is detached by its reader and at most one other
  goroutine; a check and the failure that follows it without a send in between are one
  step; waiting for `relayMu` is not a state of the timer. A send takes any time but
  returns: one that does not is in `RelayTiming`.
* *In `DeviceSession`:* transfer messages on the same session; a device name bound to a
  second session (that is in `DeviceRegistry` and `DeviceTransfers`); requests with unknown
  ids; Detach by two goroutines at once, of which the second finds everything done.
* *In `RelayTiming`:* the other end of the transfer is reduced to whether it runs and how long
  it takes with a chunk, and takes a cancel at once; seen from a source, an HTTP target's queue
  has room for the announcement (the view of the target has the full queue). Uploads of an HTTP source are relayed by
  the goroutine of their request, which holds up no reader, so the observed source is on
  WebSocket.
* *In `DeviceRegistry`:* which field of a hello was malformed, timeouts of the handshake (a
  Core that says nothing is one that never said hello), `lastSeen` and the description of a
  device.
* *In `HTTPTransport`:* posted messages, which are the `inbound` queue of `DeviceSession`,
  and uploads, which are `SourceChunk`. (A Manager.Close between Attach and the listing,
  `http.go:212`–`:221`, is modelled: the entry is then listed with a closed session and
  stays, in a process that is ending.)
* *In `OAuthClients` and `OAuthStorage`:* files changed by others, unreadable files. The
  disk makes the operations on one directory durable in the order they were made, as
  journaling file systems do; otherwise an undone installation could meet a removed backup. `OAuthProvider` is checked
  without power failures: clients lost in one leave no codes (those are in memory), and
  a token of theirs stays good until it expires.
* *Not modelled:* schemas and result texts of the MCP tools, server, configuration, message
  types (no state), verification of a token (sequential comparison of strings), rendering of
  pages, the list of devices.

## 8. Plan

Done, in this order: the relay with registry and Detach; its contract; calls and
heartbeats; the HTTP transport; the OAuth registry and codes; the clocks of heartbeats and
relay; the registry with handshakes, routing and shutdown; the theorems of section 5, those about
delivery and the clocks last.

The abstract link and the store with its power failures came last.

Not planned: verification of a token as a function (it compares strings one after the
other), and what a Core does with a message before its `hello_ack`, which only its own
repository can tell.
