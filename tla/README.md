# CDUS in TLA+

CDUS keeps the clipboard, settings and notes of a user's devices the same and
sends files between them. Each device runs an agent (`crates/cdus-agent`, also
embedded in the Android app through `crates/cdus-ffi`); agents talk over
libp2p, over a Noise session on TCP or, when they cannot reach each other,
through a relay (`relay/`, in Go). The user interfaces (Tauri, Android) drive the
agent over IPC. The specifications here model the agent's protocols and the
state they share; paths below are relative to `crates/cdus-agent/src` unless
they start with another directory.

## 1. The system

| Part | State | Operations | Talks to |
| --- | --- | --- | --- |
| File transfer (`file_transfer.rs`) | rows of `file_transfers` and `file_chunks`, the `.cdus.part` file, the delivered file, `pending_acks` | SendFile, ResumeFileTransfer, accept, decline, cancel; one handler thread at each end of a stream | store, transfer manager, libp2p streams |
| Transfer manager (`file_transfer.rs` 84-262) | `pending_decisions`, `cancel_tokens`, `crash_tokens`, `active_transfers`, the power lock | register, unregister, cancel, decide | handler threads, IPC, disconnection events |
| Daemon (`lib.rs`) | `last_processed_timestamp`, the peers it knows, the store | one loop over `IpcMessage`s from every other part | everything |
| Clipboard (`lib.rs` 121-294, `main.rs` 1610-1738) | current content, its timestamp, the watcher's last content | local copy, remote update, local-only marks | system clipboard, sync sessions, libp2p |
| Settings (`store/mod.rs` 1285, `lib.rs` 794-895) | key, value, timestamp | last write wins | peers |
| Notes (`notes.rs`) | an automerge document per note, its row | save, delete, sync messages | peers |
| Store (`store/mod.rs`) | SQLite: events (hash chain), transfers, settings, paired and revoked devices, search index | one method per operation, one lock per database | everything |
| Pairing (`pairing.rs`) | the one `active_pairing` slot, sessions | initiate, respond, confirm on both sides | mDNS, relay, user |
| Relay client (`relay.rs`) | a queue of outgoing signals, the socket | connect again, send, hand over | relay, pairing, daemon |
| Relay server (`relay/internal`, Go) | the hub's map of connections and its queues, a channel per connection, the revocations in its database | pumps, register, unregister, route, revoke | relay clients |
| Sync sessions (`pairing.rs` 2400-2797) | the map of live sessions | connect, replace, read, write, detect stale | clipboard, settings, notes |
| Revocation (`lib.rs` 1032-1111) | revoked devices | revoke, rebroadcast, lock out | peers |
| Mobile core (`crates/cdus-ffi`) | statics behind one lock each | calls of the application from any thread, a thread for the agent's messages | the same agent parts |
| libp2p manager, mDNS, TURN | connections, the scanning thread | dial, accept, publish, start and stop | external libraries |

What is hard: handler threads, the daemon loop, the IPC threads and tokio tasks
share rows, files and maps; streams break between any two messages; processes die
between a file write and a row update; users cancel, retry and decide at any
time; peers apply updates in different orders; every message of the relay has a
thread of its own, and several of them take the same lock twice; a server goroutine
that uses a closed channel ends the server; and some errors leave a function
through `?` past the code that would have cleaned up. `PROJECT.json` lists these
hazards at their lines, with the properties that cover them.

What makes each part correct: a delivered file is the announced file and
"complete" is never claimed before it is delivered (file transfer); tokens and
counts match the handlers that run (transfer manager); devices that have seen the
same updates hold the same value, and a later value is never replaced by an
earlier one (clipboard, settings, notes); no save of a note is lost; a device is paired
only after both ends confirmed, and two users who do not change their answers get
the same outcome (pairing); a signal reaches the device it is for, and once at most
(relay); a revoked device is in nobody's map of peers (revocation); no threads wait for
each other in a circle (mobile core).

## 2. Modules

`FileTransfer` models one transfer id over any number of attempts. An attempt
is a stream with a handler at each end: `spc[a]` and `rpc[a]` say where
`handle_outgoing_transfer_inner` and `handle_incoming_transfer_inner` are,
`s2r[a]` and `r2s[a]` are the messages under way. The rows (`sStatus`, `sBytes`,
`rStatus`, `rBytes`, `verified`), the part file (`part`, `partFile`) and the
delivered file (`dest`, `delivered`) are shared by all attempts, as they are in
the code. `inode[a]` says what the file that attempt `a` holds open has become:
the part file, the delivered file after a rename, or a file without a name.
A chunk's content is the edition of the source file it was read from, so the
whole-file hash matches exactly when every chunk is of edition 0; offsets are
counted in chunks. There is one action per message handled, error path and
return of the two functions, and one per thing the environment does to them:
cancellations, edits of the source, dropped streams that lose the messages under
way, crashes of either agent (also between the file write and the row updates of
a chunk, and between the rename and the row that says complete), and the
rewriting of old rows by `get_transfer_history`. `Faults` names those an instance
allows. A handler that is over reads its row and settles it under two
acquisitions of the store's lock, so that it ends in three steps: `SenderEnds`,
`SenderLooks`, `SenderSettles`, and likewise at the receiver. An update of a row
that was cleared changes nothing (`Update`).

`FileDelivery` is the abstract specification: the file appears at the receiver
whole and unaltered, stays so, and the sender's record says complete only after
that. `FileTransfer` implements it (`ImplementsDelivery`, a refinement mapping
that reads `stored` off the delivered file and `known` off the sender's row).

`TransferManager` models `FileTransferManager` and the pool of worker threads
under the handlers. A handler is a thread with a place in `pc`: an incoming one
waits for a worker, reads the request, registers, waits for its user and
receives; an outgoing one registers and sends. Two handlers may have the same id,
as after a resumption. Each critical section is an action: the token is put into
the map (`InsertToken`) before the count goes up (`CountIn`), and
removed (`RemoveToken`) before it goes down (`CountOut`); a cancellation takes the
token (`CancelToken`) before it looks for a decision (`CancelDecision`).
`answer[h]` and `signalled` are the channels of one message that the maps hold
the senders of. What the handlers write to rows and streams is `FileTransfer`'s part.

`ClipboardSync` models the clipboard of several devices: the daemon's
`ClipboardChanged` and `SetClipboard` (`Take`, `StoreContent`, `Announce`), the IPC
thread's `ToggleLocalOnly` (`Mark`, `Unmark`, `ToggleStamp`, `ToggleContent`,
`ToggleAnnounce`), and the ends of sync sessions (`Connect`, `add_peer`,
`SendInitial`, `Receive`, `remove_peer`, `LeaveInMap`, `JoinFails`), which share
`stamp` and `latest` (two rows of the state table), the history of events and the
map of peers. The code does not look at the result of the first write of a session: a
content in `Large`, too long for one message of the Noise protocol, is not sent there
(`SendInitial`), and a write that fails with the connection leaves a session that does not
know yet that it is broken (`SendInitialFails`). Any later write that fails ends the session, the
updates before it sent or not (`Written`). A device that is told of its own revocation
drops what it is asked to announce or to take (`LockOut`). `claim_newer_timestamp` and the timestamp's row are written in one
action: only the daemon uses the claimed one, so that nothing can tell them
apart. A session is used once; that it closes, crosses with
another one to the same peer or is left in the map by an error are actions. What the user copies
comes from the environment (`Report`): the watcher and the system clipboard would
multiply the states without a property of the daemon depending on them. The
gossip of libp2p carries the same updates as the sessions; a copy that arrives
twice has a timestamp that was claimed, and is dropped.

`Pairing` models the pairing of devices over the local network. `at[c][d]` is where
the handler of device `d` on connection `c` is, in
`handle_outgoing_connection_inner` if `d` dialled and in
`handle_incoming_connection_inner` if not. After the handshake the handler looks
the other device up (`Recognise`, `Doubt`, `RejectStale`); one that finds it
writes its row again and exchanges a byte (`Greet`, `Greeted`, `NotGreeted`), any
other puts its pairing in the slot (`Ask`) and runs the loop of confirmations:
`Say`, `SayFails` and `Refuse` are what it does about its user's answer, `Hear`
and `HangUp` what it does about the other end, `Finish` is the test at the end of
a turn, and `Settle` what follows the loop. `said` and `heard` are the locals
`local_confirmed` and `remote_confirmed`. The handlers of a device share its table
(`paired`) and its slot (`active_pairing`), which `LeaveLoop` empties whoever is in
it. Users answer the pairing in the slot (`ConfirmPairing`), more than once if they
like, and remove pairings; connections break, which loses what is under way; agents
stop and keep only the table. The dialler's loop reads before it looks at the
answer and the responder's reads after: hence the conditions on `link[c].from` and
`link[c].to`. A message is the first byte of a frame. Revoked devices are left to `PeerSync`.

`RelayHub` models the way of a signal from one agent to another. An agent puts it into
the queue of its relay client (`send_signal`) and the client's loop writes it to the socket
(`SendSignal`); `Connect` is a connection the client makes when it has none, which the server
refuses to a revoked device, and `LoseConnection` the client's side of a broken one, or of an agent that is stopped:
the queue waits for the next connection in the first case. `up[c]` holds what is on the way to the
server, `send[c]` is the channel of the connection, and `ended[c]` says that it is closed.
The goroutines of a connection are `readPump` (with `ReadFails` and what it does when it
leaves) and `writePump`. The hub is one goroutine over four channels: `Register`,
`Unregister`, `Route` and `RouteRevocation`. The handler of `POST /v1/revoke` writes its row,
queues the revocation and looks at the map (`handleRevoke`, `BroadcastRevocation`,
`DisconnectClient`), and hands over what it found (`Kick`), between any steps of the others.
`panicked` becomes true where the hub would close a closed channel or send to one, and where it
cuts a name of fewer than 8 bytes (`short`) for its activity log (`hub.go` 144; 154 cuts the name of a device
that is in the map, and so was cut before);
`overlapped` is a history of the devices that had two connections at the server at a time.
`RelayNetwork` is the abstract specification: signals are sent and delivered, once at most and
in any order; `RelayHub` implements it with `got` and `sent` as they are.

`RelayPairing` models pairing and reconnection over such a network (a set of signals, taken in
any order; a signal that is never taken is lost). `initiate_remote_pairing`,
`reconnect_known_device` and `pair_with_qr` send the first message before the pairing is in the slot
(`TakeSlot`); a paired device is greeted by IK, or by XX when its row is of the time before keys were
kept. The handlers of the three messages, of candidates and of the report of a stale pairing
are `FirstMessage` to `handle_turn_candidate`, each with its early returns, and the disjuncts of
`Next` that have "Stale", "Unexpected" or "Unreadable" in their names are the error branches.
`monitors[d]` are the threads that poll the slot for the user's answer. A handler
that takes the lock of the slot again makes its device `stuck`, and a stuck device does
nothing that needs the slot until it restarts. A handshake has a number (`hs`): keys
are equal when the numbers are, and a message that belongs to another handshake cannot be
read. `said` is the history of acceptances: a PIN confirmed, a code shown or scanned, an
earlier pairing.

`PeerSync` models what paired devices keep in common besides the clipboard. A setting is the
time of its last write; a note is the set of changes that its automerge document
holds, each with the changes it was made on (a change is visible when these are there too:
`Applied`), an actor and a counter, from which `order` and so the winner of concurrent changes
follow (`Shown`). Computers run the daemon, devices in `mobile` the mobile core,
which does less: it does not take settings or greet with them, nor record a revocation it is told of. A
session is opened in steps (`Handshake`, `Join`, `Greet`) and broken by either end
(`Break`), which loses what its ends had not read; over the LAN an end whose write failed leaves
its sender in the map, where it takes nothing (`Hears`) until a new session replaces it. Over TURN
nobody is told `PeerConnected`, so nobody is greeted. `RevokeDevice` records the revoked device, ends its pairing, tells all peers,
the revoked one among them, and takes it out of the map; `DeviceRevocation` is what those who are told do:
another device passes it on, the revoked one locks itself out (`LockOut`) and says `Disconnect`.
Who records a revocation also posts it to the relay, which hands it to every connected device, the
revoked one too: `RelayedRevocation` is the same handler without a message of a peer, at any time, also
while a session is being opened.

`MobileCore` models the locks of the mobile core: every call of the application and every
message of the agent is a set of ways through the locks, one for each course its
conditions may take; a way says which locks are used, and which are kept while
others are taken. The mDNS manager it starts and stops has a thread that scans, which `halt` asks to
end and `join` waits for.

`MCFileTransfer`, `MCTransferManager`, `MCClipboardSync`, `MCPairing`, `MCRelayHub`,
`MCRelayPairing`, `MCPeerSync` and `MCMobileCore` define the values of the constants; the modules
whose names end in `Proofs` hold the theorems.

How they compose: `FileTransfer`'s handlers are the threads whose tokens and count `TransferManager`
keeps; `RelayPairing` stands on the network that `RelayHub` is shown to implement (any
order, once at most, loss); `Pairing`, `RelayPairing` and `PeerSync` share the table of
paired devices, of which each models what it writes; `ClipboardSync` and `PeerSync` are
two uses of the same sync sessions; `MobileCore` is the locks under the calls whose effects are
in the others.

## 3. Runs

| Run | Question | Bounds |
| --- | --- | --- |
| `ft_faults` | safety, refinement of `FileDelivery` and the end of every handler under every fault, attempts one after the other | 2 chunks, window 1, 2 attempts, 1 edit |
| `ft_overlap` | the same rows and part file used by overlapping attempts: "complete", the rows in the end, flow control | 2 chunks, window 1, 2 attempts; time-outs, cancellations and old rows rewritten |
| `tm_shared` | the count, the power lock, decisions and cancellations of handlers of one id; every stream is served although one worker is held by a silent peer | 3 incoming and 1 outgoing handler, 2 workers |
| `cb_sync` | connected devices agree, and none goes back | 2 devices, 2 sessions, a text and an image, 2 announcements, 1 restart, broken session, mark or lock-out |
| `pr_pairing` | both users get the same outcome, none is paired alone, each can answer | 3 devices, 2 connections (crossing, or meeting at one device), 1 break, restart, removal or change of mind |
| `rl_hub` | a signal arrives once at most and where it should; what the hub's map and channels promise, and when they do not | 2 devices, 3 connections, channels and queues of 1, 2 signals one way, names long or short, one device that is revoked |
| `rp_relay` | none is paired alone over the relay, an answer is heard, sessions have the same keys | 2 devices, 2 handshakes, 1 code, restart, removal or change of mind |
| `ps_sync` | settings agree, no save is lost, revoked devices leave the map | 2 devices of either kind, 3 writes, revocations, their arrivals from the relay, or breaks, 2 times, 5 changes |
| `mc_locks` | no two threads wait for each other, and in which circles more do | 2 threads of the application, the one in the background, 4 scanning threads |
| `rp_slot` | violation: a handler waits for a lock that it holds | 2 devices, 1 handshake |
| `ps_note` | violation: devices show different texts of a note | 3 devices, 1 save |
| `mc_deadlock` | violation: three threads wait for each other | as `mc_locks` |

Why these are enough. Two chunks are the least with which a prefix can be on disk, a hole
can be left and a chunk can be skipped; two attempts are the least with which a resume
can go wrong or handlers overlap; a window of one is full at every chunk. Three handlers of
one id are the least with which one replaces the token of another while a third is
counted, and with two workers one can be silent. Two announcements are the least that
can be taken in the wrong order, a text and an image the least contents of which one can be sent and the
other not (that equal times mean equal contents is proved for any number of them), and two sessions the least of
which one replaces the other. The faults that `ft_overlap` leaves out are in `ft_faults`, where attempts do not
overlap; the proofs of its properties allow all of them together.
Two connections are the least with which pairings share a slot; at first any linked
devices may be in each other's table, and a removal makes it one-sided. With
three connections one device connects a second time while the server still has its first and
the other device is there to signal to; rooms of one are full at every second message.
Two handshakes are the least that can cross or be taken for each other. Three devices are
the least with which a blank note is made on two of them. Three threads and one that scans
are the least circle of `MobileCore`; a discovery is started only while two of the four
scanning threads are spare. `cb_sync`, `rp_relay`, `ps_sync`, `ps_note` and the runs of
`MobileCore` use the symmetry of their devices or threads; none of them has a liveness property.
Deadlock is not checked, because all of these systems may really stop: attempts are
used up, handlers end, devices agree, two users both wait. (Circular waits are an invariant of their own in
`mc_locks`.)

Fairness: only `ft_faults` and `tm_shared` assume any, and none of users, faults or the network.
In `ft_faults` each handler thread keeps running as long as it can take a step other
than a time-out for a message that may still come (`SenderWaits`, `ReceiverWaits`), which is
what the operating system gives a thread. No handler thus counts on a time-out to end a wait: `HandlersEnd`
shows that the messages alone, with the end of a stream noticed when the peer's handler is
gone, let each handler end. `tm_shared` assumes that a worker takes a stream
that waits, that a handler thread runs on, that a peer that is not silent sends its
request, that a wait for the user ends after its 120 seconds, and that a
transfer ends, which is what `ft_faults` shows.

`Agreement` is about devices that have each other in their maps with nothing under
way, and leaves out what the code does not promise: what local-only items
keep apart, devices that are locked out, contents that are too long to be sent, and times that
were announced with two contents. The last are the same
millisecond on two devices, and the first update of a session, or a crash, between
the writes of the timestamp and of the content, which pairs the new time with the
old content. First updates that fail with their connection are not left out: the session
then ends.

`SameOutcome` is about connections that did not break, between agents that were not
stopped, and users who answered once. What it leaves out, the code does let happen:
when a connection breaks between the two confirmations, one side may pair and the
other not; and a user who has confirmed can still cancel, as the dialog allows
(`src/main.ts` 1748), and be paired nevertheless when the other's confirmation is read
first. `CanBeAnswered` says that only another pairing of the same device can
take the slot from one that waits; once that happens, nothing ends the wait but the
other end, because the loop has no time-out.

`RowsAreSettled` and `CompleteMeansDelivered` are what is left of the delivery when attempts
overlap; `ImplementsDelivery` and `DeliveredIntact` are about attempts one after the
other (section 4).

`Routed` names the one condition under which the hub's map is
wrong: that a device connects while the server has not noticed the end of its older connection.
The older one's `Unregister` then takes the newer out of the map, and the hub can close
or use a closed channel, which ends the process. The client reconnects after a failure by itself, so
that this needs no more than a connection that breaks on one side. `PanicHasCause` says that there is one
other way to end it, the registration of a device whose name has fewer than 8 bytes; an agent's name is a UUID, but
the endpoint takes any that is not empty (`server.go` 233). Revoked devices are refused with
401, while the client looks for 403 (`relay.rs` 89, 140, 331) and keeps trying.

`SettingsAgree` and `WritesReachAll` ask that all devices are connected over the LAN and have
nothing under way: over TURN nobody is greeted. `SettingsAgree` is also about computers only, since
the mobile core takes no settings and does not greet with them. A device that is locked out
ignores settings and notes (`lib.rs` 837, 978). Who told it has taken it out of its map; but when it is the relay
that told it, a session that was being opened at the time still begins, and the device is then connected,
quiet and deaf: `SettingsAgree` is about the others, and `WritesReachAll` asks that there is no such device.
One that was revoked and not told is heard until
its session breaks. A note that was deleted may come back blank, with the next message about it, so that
`WritesReachAll` asks that none was.

## 4. What the code does that a reader may not expect

Three runs end in a violation. `PROJECT.json` quotes what the repository says and what the
run shows:

* `rp_slot`: the error branches of `handle_noise_signal` and `handle_turn_candidate` lock
  `active_pairing` while they hold it (`pairing.rs` 656, 753), and wait for ever.
* `ps_note`: a device that is told of a note it does not have makes a blank one and merges
  (`lib.rs` 990). The blank text may hide the saved one, on some devices or on all. That no
  save is lost from the documents themselves is `WritesReachAll`, which holds.
* `mc_deadlock`: `initiate_pairing`, the handler of `DeviceDiscovered` and a call that holds
  `STORE` wait for each other (`crates/cdus-ffi/src/lib.rs` 1226, 519). `KnownCircularWaits` says
  that there is one other circle only, a discovery that starts while it is being stopped.

Others were found on the way and are left outside the properties, each by a condition
that is named there:

* When the source file is rewritten and two handlers of one transfer overlap, the older may
  write into the file that the newer has delivered (`file_transfer.rs` 779; "verified integrity",
  `web/content/docs/getting-started.md` 51). `ft_overlap` therefore has no edits, and
  `ft_faults`, which has them, no overlap.
* A stream that drops makes the row "failed", and a retry of a failed row begins at 0: verified
  chunks are sent again (`file_transfer.rs` 670; "without re-transmitting the entire file",
  `web/content/docs/pairing-and-security.md` 40). `ResumeSkipsOnlyWritten` says what a resume may
  skip, not what it must.
* A local-only item is still the `last_clipboard_content`, and goes to the next peer that connects
  (`pairing.rs` 2559; "Keep on this device only", `src/main.ts` 629). `Agreement` and
  `LastWriterWins` set marks aside, the latter only those of the device it speaks of.
* The first update of a session that is longer than one Noise message is not written, and the error is dropped
  (`pairing.rs` 2573). An image is copied as a data URL of any length, so that two devices stay connected, one without the
  image ("Copy text or an image on your laptop. The content appears immediately", `web/content/docs/getting-started.md` 50).
  Over a session that is open already the write ends the session instead, and the next one begins without the
  image. `Agreement` is about devices that hold contents which can be sent.
* A device that was told by the relay of its own revocation while a session was being opened stays connected and takes
  nothing (`lib.rs` 1045-1072, `relay.rs` 261).
* Looking at the list of transfers fails rows that are paused for two minutes, which could have been resumed
  (`store/mod.rs` 908); a request that is superseded fails the row that a newer attempt may be using
  (`file_transfer.rs` 651). `RowsAreSettled` counts "failed" as settled.
* Two handlers of one id share one token: when the first ends, the other cannot be cancelled
  (`file_transfer.rs` 150). `CanBeCancelled` is about handlers that have their transfer for themselves.
* A handler that leaves through `?` stays counted and keeps the power lock (`file_transfer.rs` 689): `CountIsExact`
  counts those that did not unregister.
* A revocation is sent again by whoever receives it, without end (`lib.rs` 1075); and a device that is locked out empties
  its table before it looks there for the sessions to end (`lib.rs` 1048, 1057), so that they stay.

## 5. Proofs

`FileTransferProofs` proves, for every number of chunks, window, number of
attempts, number of edits and set of faults:

* `TypeCorrect`: `Spec => []TypeOK`;
* `StreamsAgree`: `Spec => []StreamsInStep`, how many messages can be under way
  on a stream in each phase of its sender;
* `CompleteIsDelivered`: `Spec => []CompleteMeansDelivered`;
* `FlowIsControlled`: `Spec => []FlowControl`;
* `RowsSettle`: `Spec => []RowsAreSettled`, from the invariant that an open row has a handler that
  still runs, died or left through `?`;
* the four about the delivery below.

The inductive invariant is `IInv == TypeOK /\ StreamsInStep /\
CompleteMeansDelivered`. `CompleteMeansDelivered` is not inductive alone: the
sender takes any Ack for the final one, so one must know that none of a chunk is
still under way. `StreamsInStep` says so by counting: while the sender streams,
chunks to the receiver and messages back are together at most `pending_acks` as
long as the receiver runs, and after its end at most one more, which is not an
Ack. The proof has a lemma per action that changes an attempt's queues, a
lemma that no other attempt is touched, and the queue lemmas on `Append`, `Tail` and
`SubSeq` they rest on. The only assumption is `ConstantsAssumption`.

Its second part proves what holds when attempts do not overlap (`"overlap" \notin Faults`), with
every other fault: `DeliveryIsIntact`, `WhatIsVerifiedIsWritten`, `WhatIsSkippedIsWritten` and
`TransferImplementsDelivery`, the refinement of `FileDelivery`. The invariant adds to the one above that
attempts take turns (`InTurn`), so that one handler at most is at the part file; that this handler has
the file open that is at the path (`OpenIsPart`); that nothing is written between the comparison
of the hash and the rename (`SealIsChecked`); and that Acks under way speak for chunks that are
written, unless the part file is gone (`Written`). A step of the transfer is then a `Store`, a `Confirm`, a
`SendAgain` or none of them, because no step changes both the delivered file and the sender's record.

`TransferManagerProofs` proves, for any handlers, ids, number of workers, and
whether or not the platform grants the power lock: `TypeCorrect`,
`CountingIsExact`, `StaysAwake`, `NoBlockedSend`, `CancelledAreAnswered` and
`AlwaysCancellable`, each `Spec => []` of the invariant that `tm_shared` checks. The
inductive invariant adds to these that a handler's decision is in the map
under its own id only, that an answer waits only with a handler that is not in the
map any more (so that no send finds the channel full), and that a handler which
has its transfer for itself finds its own token where it put it.

`ClipboardSyncProofs` proves, for any devices, contents, sessions and bounds,
`TypeCorrect` and `NeverGoesBack` (`Spec => LastWriterWins`), whatever first updates fail and whoever is locked out. The invariant they rest
on says that a session only greets with a time (`GreetsWithTime`) and that, where no item was ever
marked, the stored timestamp is the one that the daemon claimed
(`StampIsClaimed`): a restart, which reads the stored one, then changes nothing, and
the only other write is a claim. What a device is sent does not matter to this, so that
`LastWriterWins` holds of each device whose own user marks nothing, whatever the others mark and share
again under a time of theirs.

`DevicesAgree` is `Spec => []Agreement`. What two devices hold when nothing is under way depends on
everything that was sent, over sessions that have ended since; the invariant says instead where each update
still is. For every time that is under way, or that a device holds, there is a device which has an update of that
time or a later one, and from which it gets to every device linked with that one: the other has it, or it is in
the session, in the other's inbox, in the first update that the session is about to send, or with the daemon that
has not announced it (`Spreads`, `Gets`, `UnderWaySpread`). A device that holds a content too long to be sent
owes nothing until it replaces it (`Keeps`), which it does with an update that is elsewhere as well (`Replaces`). A device that died between the claim of its
first timestamp and the content has a time and nothing to send, and is set apart (`Blank`, `HeldSpread`). That equal times
mean equal contents, unless a time was announced with two, needs that no content is under way with a time
that it was not announced with (`ContentsSent`), and that a device which paired its new time with its
old content announces the two before it is in a session again (`ContentsHeld`). `NextSpreads` says of
every step that what spreads goes on spreading; the lemmas under `Goes` say where whatever a step adds comes from.

`PairingProofs` proves, for any devices, connections, topologies and number of
changes, `TypeCorrect`, `SameForBoth`, `NoneIsPairedAlone`, `ConfirmationsAreReal` and
`AlwaysAnswerable`: every property that `pr_pairing` checks. `SameOutcome` compares the
two ends of a connection, so the inductive invariant says what each knows of
the other: every message under way is true of the end that wrote it
(`MessagesAreTrue`), a `heard` is a `said` of the other (`ConfirmationsAreTrue`), and an
end that confirmed and gave up relied on a refusal, or on an end that was over
(`EndsAreFaithful`). That these remain true rests on what no step takes back
(`Lasts`). `CanBeAnswered` is inductive with `TypeOK`.

`RelayPairingProofs` proves, for any devices and numbers of handshakes and changes, `TypeCorrect`,
`NoneIsPairedAlone` (`Spec => []PairedByBoth`), `AnswersAreHeard` and `KeysMatch` (`Spec => []SessionsMatch`):
all that `rp_relay` checks. Who is put into the table is decided by a message, so the invariant
`AcceptancesAreTrue` says that everything which leads to one stands for an acceptance that was given: a
candidate under way, a pairing in the slot that is confirmed or reconnects, one that is about
to be put there, and a scanned code.

`KeysMatch` needs to know of each handshake who takes part in it, as long as no trouble has occurred
(`Calm`): a signal, a pairing in the slot and one about to be put there belong to a handshake that was begun
by the device they say (`SignalsAreTrue`, `SlotsAreTrue`, `StartsAreTrue`), a device whose answer is
under way or was taken has that handshake in its slot still (`AnswersOnce`), who is in the table of a device that
can act has that device in its own (`TablesMatch`), and a device that has its session is stuck in the handler that made it, with the
pairing of that handshake finished in its slot (`SessionsAreLast`).

`RelayHubProofs` proves, for any devices, connections, rooms, pairings and numbers of signals,
`TypeCorrect`, `OpenIsRouted`, `ServerStopsWithCause` and `HubImplementsNetwork`: every property of `rl_hub`,
the refinement included. The first three rest on an invariant about the hub: what its map
holds is served and open (`MapServes`), a device with two served connections is in `overlapped`
(`OneServes`), a connection whose channel is closed has begun (`FreshOpen`), and what a revocation is about
to hand over is still what the map has (`KickKnows`). A short name stays in the map because the server that has taken
it in does nothing more. The refinement adds where signals are: all
queues, channels and wires together are a function from places to sequences (`At`), every
signal in a place belongs there (`Belongs`), and it is in one place of it at most
(`Once`). Lemmas about such functions say that taking from a place, moving from one
to another and adding a signal that is nowhere keep `Once`; each action is then shown to be
one of these. A delivery is the move to `got`, and `Once` gives that the signal was not there.

`PeerSyncProofs` proves, for any devices and bounds, all that `ps_sync` checks.
`RevokedLeaveTheMap` (`Spec => []NothingForRevoked`) is inductive together with the types of the map and of
the tables (`MapsInStep`): whatever records a revocation takes the device out of the map in the same handler,
and only a session that was being opened puts it back, which `late` remembers; this holds whether a peer or the relay tells
of the revocation. `TypeCorrect` rests on the
order of changes: a new one has a place in `order` because its counter is no greater than its number
(`CountersFit`) and messages speak of changes that were made (`MessagesKnown`); that a finite set of numbers has a
greatest one comes from well-founded induction.

`SettingsConverge` and `SavesAreKept` (`Spec => []SettingsAgree`, `Spec => []WritesReachAll`) have
invariants of one form. Each value of a setting that a device has, or that is under way, has a device from which it
gets to whatever is linked with that one (`Spreads`): the other has it or a later one, or is locked out, it is
under way, or the greeting which will send it is. The same for each text that was saved (`Keeps`), where it is
also enough that a message of the other is under way, because it is answered with what it lacks. The first may be lost with a session,
and is then no longer owed; the next session begins with a greeting. That a message stays under
way until it is handled (`GoesOn`), and what each handler then sends, are lemmas for all actions at
once (`LinksGoOn`). A text is visible only with the changes it was made on, so that what a device or a
message has must be closed under them (`DepsClosed`, `DocsAreHad`).

`MobileCoreProofs` proves, for any finite sets of callers and of scanning threads, `TypeCorrect`, `TwoNeverWait`
and `CirclesAreKnown`: the invariants of `mc_locks`, for circular waits of any length. What a thread still
has to do is a sequence of steps, and the proof is about such sequences: `InOrder` is the largest set of pairs of
a sequence and the locks held before it in which every lock is taken in one order (`Under`), but for the two places that
`KnownCircularWaits` names, and all are given back at the end. `Through` composes: each call of the core
is shown to be in order from the pieces that it is written from. A thread's way then stays in order step by
step, each thread of a circle holds a lock that is under the next one's, and none is under itself. `TypeCorrect` also
counts: the calls that may yet start a scan are fewer than the scanning threads that do not run, so that one is
spare when `Scan` takes it. That threads are finitely many and no scan is a caller are
assumptions on the constants, true of any process.

The assumptions are the `ConstantsAssumption` of each module, about the
constants only, and TLC evaluates them.

## 6. Model-checked only

Every invariant and action property that a passing run checks is a theorem, and so are the two
refinements. Liveness (`HandlersEnd`, `EveryStreamServed`) is left to TLC: fairness and `ENABLED` are out of
the prover's reach. The three properties that are violated (section 4) are false.

## 7. What could come next

1. The watcher and the system clipboard (`main.rs` 1610-1738) composed with one daemon.
2. The transfers of a peer that disconnects, and the rows that
   `get_active_transfers_for_peer` leaves out (`store/mod.rs` 791).
3. The store's chain of events, and marks that outlive an event which is copied again.

## 8. Not modelled

The user interfaces, mDNS, TURN and libp2p themselves, the Android services, and automerge but for what
a document's changes are; cryptography (a chunk that cannot be decrypted, or a handshake message of another
handshake, is a fault). In file transfer: the benchmark, which writes no file; the deletion
of a row by its user while a handler runs; a source file that is gone when an attempt
starts (the attempt fails before it sends anything). The test hooks of the transfer manager
(crash tokens and triggers). The watcher and the system clipboard, and the gossip of
clipboard updates (section 2). The PIN, which the users compare. The chain of hashes over the events,
pruning, the search index and the migrations of the store: they are sequential code in one
lock. Registration, telemetry and feedback over HTTP, and the relay's endpoints that read or
write one row. Heartbeats: an end may notice a dead peer at any time. The scanning thread's own failures,
and a receiver of its finds that is gone.
