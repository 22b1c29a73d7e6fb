# Greenlight: verification of the signing path and its neighbours

Greenlight runs a user's Core Lightning node in the cloud while the keys stay
on the user's devices. Every operation of `lightningd` that needs a key is an
*hsmd request* that leaves the node, is signed by a remote *signer*, and comes
back. The specifications here follow that request through the code: the stage
that turns push into pull, the streams to the signers, the state a stateless
signer takes from the node and returns to it, the store behind it, and the
gRPC calls a signer is shown to justify what it signs. Around it they cover how
a device gets its node, its credentials and its rune, how signers and peers
find back to a node, and what the plugin does when the node pays or is paid.

TLC checks small instances; TLAPS proves the main safety results for every
value of the constants. All paths below are under `src/libs/`.

## 1. The system

| Part | Source | State | Operations |
|---|---|---|---|
| hsmproxy | `gl-signerproxy/src/hsmproxy.rs` | one fd and context per daemon, a request counter | forward a request, answer `check_pubkey` itself |
| Hsm service | `gl-plugin/src/hsm.rs` | none | `request` (canned answer, or stage and wait) |
| stage | `gl-plugin/src/stager.rs` | staged requests, a broadcast channel | `send`, `mystream`, `next`, `respond`, drop |
| node server, streams | `gl-plugin/src/node/mod.rs` | signer state, its store, one task per stream, `SIGNER_COUNT` | `stream_hsm_requests`, `respond_hsm_request` |
| state store | `gl-plugin/src/storage.rs` | one sled entry | `read`, `write` |
| signer state | `gl-client/src/persist.rs` | key -> (version, document) | `merge`, `diff`, inserts and updates |
| signer | `gl-client/src/signer/mod.rs` | its copy of the signer state | `run_forever`, `run_once`, `process_request` |
| resolver, authorizer | `gl-client/src/signer/{resolve,auth}.rs` | none | match a request with pending calls |
| request context | `gl-plugin/src/context.rs`, `node/mod.rs` | pending gRPC calls | add, remove, snapshot |
| configuration | `gl-plugin/src/node/mod.rs` | datastore entry, cache | `configure`, the loader at startup |
| trampoline | `gl-plugin/src/tramp.rs` | none of its own (lightningd's list of parts) | look for earlier attempts, allocate, send parts, await them |
| awaitables | `gl-plugin/src/awaitables.rs` | none | connect to a peer (the wait for a channel is never polled) |
| reconnect, rpcwait, wrapper | `gl-plugin/src/node/`, `lib.rs` | `SIGNER_COUNT`, the shared client, `greenlight/peerlist` in the datastore | `reconnect_peers`, hold calls back, `connect_peer`, `disconnect`, the peer hooks |
| signer's loop | `gl-client/src/signer/mod.rs`, `gl-cli/src/signer.rs` | where the node runs, a shutdown channel | `run_forever`, `init_scheduler`, stop |
| events | `gl-plugin/src/lib.rs`, `node/mod.rs` | two broadcast channels, one task per subscriber | publish, bridge, subscribe, lag |
| LSP and invoices | `gl-plugin/src/lsp.rs`, `tlv.rs`, `node/` | none | `htlc_accepted` hook, `invoice`, `lsp_invoice`, TLV records |
| data directory | `gl-cli/src/{scheduler,node,util}.rs` | `hsm_secret`, `credentials.gfs`, and `device.crt` of old releases | register, recover, init, upgrade, pair, approve |
| scheduler client | `gl-client/src/scheduler.rs` | none | register, recover, schedule |
| pairing | `gl-client/src/pairing/`, the signer's approval | sessions (kept by the scheduler) | new device, attestation, approval |
| runes, credentials | `gl-client/src/{runes,credentials}.rs`, the signer | none | create, derive, carve, verify |
| lnurl | `gl-client/src/lnurl/` | none | pay, withdraw, and the single requests of a payment |
| scheduler mock, tooling | `gl-testing`, `cln-version-manager`, ... | test state | stands in for the scheduler |
| export, gl-util, gl-sdk, bindings | `gl-client/src/`, `gl-sdk*`, ... | none | conversions, HTTP exchanges, one call each |

### How they interact

A daemon of lightningd writes to its hsmd socket; the hsmproxy forwards the
message by gRPC to the plugin's Hsm service, which puts it on the stage and
waits for the answer (`stager.rs` 39-62). Every attached signer has a stream
(`stream_hsm_requests`): a spawned task takes each staged request, adds a
snapshot of the signer state, the pending gRPC calls and the node's
configuration, and sends it through a bounded channel. The signer merges the
snapshot, checks that the pending calls justify the request, signs, and
returns the signature with its whole state (`process_request`). The plugin
merges that state, stores it, and only then lets the answer through to the
waiting daemon (`respond_hsm_request`).

A signer finds its node by asking the scheduler and starts over whenever its
stream ends. Each attachment spawns a task that connects the node to its peers,
with the one JSON-RPC client that `configure` and `lsp_invoice` use as well.
What attaches or calls holds credentials: a certificate for a key, and a rune
that the node's signer made and that every signer checks before it signs.
lightningd calls the plugin's hooks when a peer connects, when an HTLC arrives
and when an invoice is paid; the last is published to the clients that stream
payments.

In parallel gRPC calls of clients run through `SignatureContextService`, which
lists them in the context while they are pending. Handlers talk to lightningd
with clients of their own or through one shared JSON-RPC client under a lock.

### What is hard here, and what correctness means

* **Stage**: a request is sent while a stream attaches; a slow stream is
  overtaken by the broadcast channel; every stream gets every request. Correct
  means no stream misses or repeats a request and no waiter is forgotten.
* **Signer state**: it has three kinds of copies (memory, store, signers), is
  merged per key by version, and signers restart with nothing. Correct means:
  what lightningd was answered is stored; a version names one document; the
  store never goes back; a signer signs on the effects of all that was
  answered before.
* **Streams**: snapshots are taken before a send that may block; the task of
  one stream must not stop the others.
* **Context**: calls overlap, end in any order and are cancelled at an await.
  A pending call has to be shown, a finished one must not be.
* **Configuration**: two writers and a reader with separate steps between
  datastore and cache.
* **Trampoline**: an amount is split over channels with minimal amounts by a
  backtracking search. Its parts are sent by tasks that outlive their call;
  calls for one invoice race between the look at earlier attempts and the first
  part. Correct means: a reported preimage is one, an answered call leaves
  nothing in flight, an invoice is paid once.

* **Reconnecting**: the count of signers goes down late; reconnecting tasks and
  calls share a client; the list of peers is written by a hook, by users and by
  no transaction. Correct means: a signer that is there is never overlooked,
  a listed peer is tried after each restart, no call waits for ever.
* **Seeds and credentials**: files are truncated and then filled, a command
  dies in between, and the scheduler registers a node once. Correct means: the
  seed of a registered node is on a disk, and credentials are of the seed
  beside them.
* **Runes**: they pass through an approver, the scheduler and a signer. Correct
  means: a device may do what was approved for it, by somebody who may approve,
  and deriving a rune never widens it.
* **Being paid**: an LSP passes on less than the onion says, in several parts;
  hooks fail; subscribers lag. Correct means: what the hook makes of a part
  counts for its HTLC towards the invoice, a payment is published at most once,
  and a stream of payments has no gap.
* **Paying by LNURL**: a service answers two requests as it likes. Correct means:
  what is paid is what was asked for, to who was meant.

`PROJECT.json` lists each hazard at its line with the properties that cover it.

## 2. The modules

| Module | Models | Used by |
|---|---|---|
| `Stage` | `stager.rs` whole | `SigningPath` |
| `SignerState` | the versioned state of `persist.rs`, `merge`, `diff` | `SigningPath` |
| `SigningPath` | hsm.rs, stream and respond handlers, storage, signer | `MCSigningPath` |
| `DurableSigning` | the promise of the path, abstractly | refined by `SigningPath` |
| `RequestContext` | context, configure, loader, resolution | `MCRequestContext` |
| `Allocation` | `find_allocation` and its two orders | TLC directly |
| `Trampoline` | `trampolinepay`, `do_pay`, `ensure_peer_connection` | `MCTrampoline` |
| `Payment` | the promise of trampoline calls, abstractly | refined by `Trampoline` |
| `Runes` | creation, derivation, carving and verification of runes | `Access` |
| `Access` | the data directory's commands and the scheduler client under them | `Pairing` |
| `Pairing` | new device, attesting device, the signer's approval | `MCPairing` |
| `Peers` | the signer's loop, `SIGNER_COUNT`, reconnecting, rpcwait, the wrapper's calls | `MCPeers` |
| `Events` | the broadcast channels and the streams of events | `Receiving` |
| `Tlv` | `tlv.rs`, on bytes | `Receiving` |
| `Receiving` | invoices, the `htlc_accepted` and `invoice_payment` hooks | `MCReceiving` |
| `Lnurl` | `gl-client/src/lnurl`: pay, withdraw, the single requests | `MCLnurl` |
| `PathProofs` (the stage, the signer state and the path), `DurabilityProofs`, `ContextProofs`, `AllocationProofs`, `TrampolineProofs`, `PairingProofs`, `PeersProofs`, `ReceivingProofs` (with `Events` and `Tlv`) | theorems | - |

### Stage

`requests` is the map of `Stage`, in `given` the model remembers what each
stream handed out. `reply` is the state of each caller: idle, waiting,
answered or gone (its gRPC call was dropped). A stream is `live` with its
`backlog`, the copy of the staged requests made when it attached, and its
`queue`, the part of the broadcast channel it has not read. `Send` inserts and
broadcasts under the lock, `MyStream` copies and subscribes under the same
lock, `StreamNext` takes from the backlog first, and hands out also what was
answered meanwhile, `StreamLagged` is the receiver that fell behind `BcastCap`
messages, `Respond` answers the first response and ignores later ones,
`Cancel` is a caller that goes away. `StageSpec` is the stage by itself, with callers
and streams free to act in any order; the runs check it as part of `SigningPath`,
where callers go away only with the node, so that `Cancel` is in the theorems and
in no run.

### SignerState

A `State` maps each key to a version and the set of requests whose effects its
document contains. That is the one thing the properties ask of a document:
which answers it reflects. `Merge` takes the entry with the greater version and
keeps its own on equal versions, without looking at the documents, as the code
does. `Touch` is what an insert or update of the persister does: bump the
version, add the effect. A fresh signer holds its node entries at version 0.

### SigningPath

Extends `Stage` and `SignerState`. One action per step between two points at
which the code can be interrupted:

| Action | Code |
|---|---|
| `HsmRequest`, `HsmRequestCanned` | `StagingHsmServer::request` |
| `Attach`, `TaskHeartbeat`, `TaskNext`, `TaskSnapshot`, `TaskLocksConfig`, `TaskSend`, `TaskSendFails`, `TaskLagged` | `stream_hsm_requests` and the task it spawns |
| `SignerAccepts`, `SignerRejects`, `SignerStreamEnds`, `SignerDisconnects`, `SignerRestarts` | `run_once`, `process_request`, `run_forever_inner`, `Signer::new` |
| `RespondMerge`, `RespondWrite`, `RespondWriteFails`, `RespondReply`, `RespondError`, `RespondDropped` | `respond_hsm_request` |
| `NodeRestarts` | plugin, proxy and lightningd die together and come back |

`Persisted` is what a handler leaves in the signer's state, whose documents it
updates as it goes: all of a request's effects when it succeeds, any part of
them when the request is rejected. A handler of `respond_hsm_request`
that is cut off by a disconnect is dropped at its next await. The store is
what `StateStore::read` returns after a crash; with `WriteIsDurable = FALSE` a
write may be lost.

`DurableSigning` knows only which calls were asked, which are recorded for
good and which are answered: an answer presupposes a record, a record is never
lost, a crash may lose calls but no record. `SigningPath` implements it with
`recorded` mapped to the calls whose effects the store holds (`KeepsPromise`).

### RequestContext

Each call is idle, running, locked (it holds the shared client), stored (a
configure between datastore and cache), done, gone (cancelled) or torn (a
configure cancelled after the datastore was written). `context` is the
sequence of pending calls, `cleanup` the spawned removals, `holder` the owner
of the shared client, `loader` the startup task. An hsmd request carries what
`Shown` returns at the moment it is sent; the signer refuses it if no call
justifies it (`Resolves`) or if the authorizer fails (`Authorizes`). The
datastore takes a value only if there is none (`DatastoreAccepts`): configure
passes no mode, for which lightningd's default is to create. A call
without the authentication headers never enters the context and is left out;
a `configure` without them would index an empty list and panic.

### Allocation

The channels, in the order they are tried, are records of what they can spend
and their minimum. `TryAllocate` is the recursive search, a function of how many
channels are left, of the target and of the vector of contributions, which holds
what abandoned attempts leave behind; `UseOrSkip` is its body. `Sorted` puts each
channel where the number of those up to it says. `TryAscending` and `TryDescending` are the two
strategies in turn.

### Trampoline

Concurrent calls for one invoice. `pc` says which RPC to lightningd a call is
at: every one is a point where another call can run. `sendpays` is lightningd's
list of parts, each with group, id, amount and status; the field `by`, the call
that sent it, serves the properties only. `Allocation`'s result appears as a
member of `Splits`, a sequence of amounts.

| Action | Code |
|---|---|
| `List`, `WaitEarlier` | `listsendpays`; if something has not failed, `waitsendpay` and its result is the answer |
| `AwaitPeer` | `AwaitablePeer::wait` |
| `ListChannels`, `AwaitChannels`, `Allocate` | features and amounts, `listpeerchannels`, `reestablished_channels`, `find_allocation` and the approval |
| `SpawnPart`, `SendPart`, `WaitPart`, `Join` | the loop that connects and spawns, `do_pay`, `join_all` and the fold |
| `Refuse`, `Cancel` | an error before anything is looked at; a client that leaves |

The rest of errors are alternatives of the actions. `Cancel` and a connection
that fails in `SpawnPart` leave the tasks running. External, modelled by what
the code needs of it: lightningd's `sendpay` (`Joins`, `Refuses`: one group in
flight, no part twice, no more than the total, nothing for an invoice that is
paid), the settling of parts (a trampoline node fulfils a group once it covers
the amount), and the peer and its channels. Which part `waitsendpay` takes when
it is given none is left open.

`Payment` knows no peers, channels, groups, parts or tasks, only where each call
stands, which calls have money in flight and whether some of the invoice is
paid. A call that finds nothing paid or under way begins (`Begin`), one that
finds something asks (`Ask`) and never sends; nothing is sent for a paid
invoice; an answer about the payment comes once, when nothing of the call is in
flight, and a preimage only if there is one. What a call that left has begun can
go on (`gone`). Two calls that both find nothing may both begin, as in the code.
`Trampoline` implements it (`KeepsPromise`) with `StageOf`, `Flying` and whether
a part is complete; the RPCs before the parts, and what a task does behind
another call's part, do not show.

### Runes, Access, Pairing

A rune is the node whose seed made it (`issuer`) and a set of restrictions, each
the set of its alternatives. `Verified` is `verify_rune`, `AddRestrictions` and
`Carve` the two ways to derive a rune, `Grants` the calls a rune lets through.
Method names are sequences of words, lower-cased word by word, so that a prefix
of a name is a prefix of a sequence.

`Access` has per directory its two files, each absent, `Torn` (created and not
filled) or whole, and the one command that runs there with the point it has
reached.

| Action | Code |
|---|---|
| `Register`, `InitNode`, `Recover`, `Upgrade` | `register_handler`, `init_handler`, `recover_handler`, `upgrade_credentials_handler` up to the first file or call |
| `WriteSeed`, `CreateCreds`, `WriteCreds` | `write_seed`, `write_credentials` |
| `RegisterCall`, `RecoverCall` | `inner_register`, `recover`, and what they make of the answer (`Answers`) |
| `Dies` | an error or a crash, at any of these points |

`Pairing` adds the sessions the scheduler keeps and the approvals and answers
that pass through it: `PairDevice` and `PairRequest` are the new device,
`Approve` the attesting one with its checks of the session,
`SignerApproves` the signer that answers or drops an approval (`Accepts`), and
`PairReply` the answer's arrival. `approved` is a history of what was approved.
The scheduler is external. Signatures are taken as sound: an approval names the
key it was signed with.

### Peers

`loop` is where a signer is, `uri` the incarnation of the node it was told of,
`stream` the stream it reads; `task` is the node's side of a stream, which is
"left" from the moment its signer is gone until the task notices. `rec` is the
task that reconnects peers, `rpc` the holder of the shared client. `call` is a
user's call: held back (`Await`), inside the wrapper (`Forget`), on its way
through lightningd, or waiting for or holding the shared client.

| Action | Code |
|---|---|
| `UpgradeDone`, `UpgradeRefused`, `InfoAnswered`, `ConnectFails`, `Attach`, `Noticed`, `Stops` | `init_scheduler`, `run_forever_inner`, `run_once`, `run_forever_with_uri` |
| `TaskEnds` | the end of `stream_hsm_requests`' task, which lowers the count |
| `RecCheck`, `RecPeers`, `RecDatastore`, `RecLock`, `RecConnect`, `RecEnds` | `reconnect_peers`, `get_reconnect_peers` |
| `RecFails` | a round that ends early: `listpeers` or `listdatastore` fails, or an entry there cannot be read |
| `Await` | `RpcWaitService` |
| `Forget`, the `Answer` actions, `Enter`, `Leave` | the wrapper's methods, `configure`, `lsp_invoice` |
| `PeerConnects`, `OpenChannel` | `on_peer_connected`, `on_openchannel` |
| `Listen`, `Restart`, `Lose`, `StopAsked`, `PeerDrops` | the surroundings |

Each connection runs `on_peer_connected` (`Hook`), which may leave the peer
unlisted: lightningd does not store the entry, and the hook goes on, or the hook
cannot connect, and ends with an error. Two histories keep apart what the
properties have to: `missed`, peers that connected without being entered, and
`cutShort`, that a round of reconnects ended early since the last attachment.

The 130-odd methods of the wrapper that pass a call on are one of four kinds
(`Forwarded`): those lightningd answers by itself, those that need a signer,
`connect_peer` and `disconnect`.

### Events, Tlv, Receiving

`events` is everything published, so that a receiver is a position in it and is
`Behind` when more than the channel's capacity lies before it. A `listener` is a
client's stream: the task that receives and sends, its one slot, and what the
client has read. `Tlv` works on bytes: `ToBytes`, `FromBytes`, `SetTu64` and the
compact sizes of one, three, five and nine bytes; a number is one of 64 bits if
eight shifts by a byte leave nothing (`U64`). `FromBytes` goes in rounds
(`ReadEntry`) while two bytes are left, a bounded number of them since each
takes two. `Deserialize` is what the hook does with lightningd's length-prefixed
payload. 
`Receiving` relates a request for an invoice, the invoice, and the HTLCs that pay
it.

| Action | Code |
|---|---|
| `LspInvoice`, `CheckCapacity`, `RegularInvoice`, `GatherOffers`, `Negotiate`, `Fails` | `lsp_invoice`, `get_receivable_capacity`, `get_lsps_offers` |
| `Invoice` | the wrapper's `invoice`, with `get_routehints` |
| `HtlcAccepted`, `HookFails` | `on_htlc_accepted`, with the bytes of an onion and of its answer; the hook cannot connect or list invoices |
| `InvoicePayment` | `on_invoice_payment`, which publishes the payment or ends before that: a call it cannot decode, no invoice, an error, a panic |
| `Keep`, `Reject`, `Refuse`, `Expire`, `Abandon` | lightningd |

lightningd reads the hook's bytes with `FromBytes`. What it asks of parts is
taken from `docs/src/reference/lsp.md` 26-33: an HTLC covers what its onion forwards
(`Refuse` otherwise), and the parts add up to the total, no more: a set that
becomes too much is rejected as a whole (`Reject`). The hook knows one total, that
of the invoice, so that parts of one invoice that it amends agree with each
other; parts it leaves alone may not. A complete set goes to the
`invoice_payment` hook once. Whether lightningd then settles is not modelled, and
neither are parts that come after that call.

### Lnurl

A call is `pay`, the two requests of a payment made one at a time (`Look`, `Ask`), or
`withdraw`; a second call to the same services or the same node runs beside it.

| Action | Code |
|---|---|
| `Pay` | `resolve_lnurl_to_invoice`, up to its first request (`Resolved`: an identifier that begins with "lnurl" is an LNURL, any other an address) |
| `Answered` | `validate_pay_request_response` (`Valid`: tag, range, metadata, the address named in them) |
| `Given` | `validate_invoice_from_callback_response` (`Fits`: the amount, and the description or its hash) |
| `Look`, `Ask` | `get_pay_request_response`, `get_pay_request_callback_response` |
| `Withdraw`, `Described`, `Made` | `withdraw`: the parameters from the URL or from the service, the node's invoice, and a callback that is built and not sent |
| `Fails`, `Paid` | a request in vain; the node has paid |

The services are external and may answer anything; so is the node, of which the
module keeps that it makes no two invoices of one label. A panic on an answer
that cannot be read ends a call as an error does. SHA-256 is taken to tell any
two texts apart.

## 3. The runs

| Run | Expect | What it asks |
|---|---|---|
| `SigningPath` | pass | One signer, crashes, disconnects, restarts, refusals, failing writes; streams that attach, lag, end and attach again |
| `SigningPathLiveness` | pass | Every call returns although one fault interrupts it |
| `RequestContext` | pass | An invoice, a configure, an unparsable payment and the loader, with cancellations and restarts |
| `Allocation` | pass | Every choice of up to four channels and an amount |
| `Trampoline` | pass | Two overlapping calls for one invoice, parts that fail, a client that leaves |
| `Pairing` | pass | Two data directories, one of an old release, commands that die anywhere, a pairing between them |
| `Peers` | pass | A signer that attaches, is cut off or stops; a node that restarts; a peer; a user's calls |
| `Receiving` | pass | One invoice made in every way and paid in parts that are reduced or not, by hooks that may fail; one listener |
| `Lnurl` | pass | Two calls to two services that answer in every way |
| `TwoSigners` | violation | Two signers at work at once: one loses its changes |
| `StalledSigner` | violation | A signer that stops reading stops the others |
| `AllocationSum` | violation | In descending order the parts may exceed the amount |

### Properties

* `StreamsCoverStage`, `NeverTwicePerStream` (Stage): what is staged is on its
  way to every live stream that did not lag; no stream hands a request out
  twice. That who waits is staged (`WaitersAreStaged`), so that the next stream to
  attach will bring the request to a signer, is only proved: no operation but
  `respond` takes a request from the stage.
* `AnsweredIsStored`: an answered call's effects are in the store, whatever
  crashed, failed or was repeated. `CopiesAgree`: equal versions are equal
  documents in memory, store and signers, which is what allows `merge` to skip
  equal versions. `SignsOnLatestState`: a response reflects all calls answered
  before. `StoreNeverRegresses`: no step lowers a stored version or replaces a
  document without raising it. `KeepsPromise`: the refinement above.
  A signer that leaves takes its unsent response along (`Detach` clears
  `outbox`), so that a response that reaches the plugin over the old connection
  of a signer that has restarted is in none of them; it would be a second signer.
* `EveryCallReturns`: an asked call is answered.
* `PendingIsShown`: a request is sent with the call that raised it while that
  call is pending. `CacheFollowsDatastore`: the configuration shown to signers
  is the one a restart would read, but for a configure between its two writes
  or cancelled there since the last start. `EveryCallEnds`: no lock is lost to a
  cancelled call; only a refused hsmd request keeps a call waiting, its own or
  that of the call that holds the shared client.
* `AscendingIsExact`, `PartsFitChannels`, `EasyAmountsAreFound`: the ascending
  order splits the amount exactly with one part per channel; a part fits its
  channel; no amount is refused that one channel could carry, that all
  channels together hold exactly, or that no minimum stands in the way of.
  The search is not complete beyond that: with four channels it refuses
  amounts that could be split, and a channel without a minimum can be given a
  part of 0 msat.
* `KeepsPromise` (Trampoline): the refinement of `Payment`, and with it that a
  preimage is reported only when a part is paid, and that a call that answers
  with the outcome of its parts has none in flight. `PaidIsNotSentAgain`: a call
  that starts after the invoice is paid spawns nothing. `PaidOnce`: what is paid is at most the amount, whatever
  fails and overlaps, if the calls of one group split it alike; with different
  splits, as when a first part has changed what the channels can spend,
  lightningd accepts parts of both until the total is covered, and more is paid.
  `PaidInFull`, under the same condition: a preimage for parts of its own is
  reported when all of the amount is paid, whichever call has sent each part.
  `EveryCallAnswers`: no call waits for ever. It says nothing of the wait for a
  channel having taken place, which it does not (section 5).
* `SeedKept`: a registered node can be restored from a disk.
  `CredsMatchSeed`: a directory's credentials are those of its seed, pairing
  excepted (a paired device has no seed of that node). An unreadable seed is no
  seed to the commands, whatever the reason (`read_seed` drops the error). `RuneFitsDevice`: a rune
  grants its device exactly what was asked and approved, and nobody else
  anything. It leaves out the credentials whose rune is not bound to the key
  that signs (section 5). `PairedAsApproved`: behind every paired device is an
  approval by a device whose rune the signer verified. `DerivedGrantsLess`: no
  way to derive a rune widens it, whatever fails to parse.
* `CountCoversAttached`: `SIGNER_COUNT` errs only upwards. `PeersAreListed`: a peer
  that is connected or has a channel is on the list for reconnection, unless a
  user disconnected it (also when lightningd then refused) or the hook failed to
  enter it when it connected. `ListedAreTried`: after a restart each listed peer
  is tried, though tasks and calls contend for the client and streams are lost;
  not if the round of the last attachment was cut short by a call that failed,
  since nothing repeats it until a signer attaches anew. `CallsEnd`,
  `StopsWhenAsked`: no call and no stop is left waiting.
* `GapFree`: a client has every event of its kind from its subscription to some
  point, in order and once, and a stream ends only when it was overtaken.
  `ReceivingTypeOK`: besides the types, a request has an invoice exactly if it was
  answered with one, no invoice is for more than was asked, parts are for
  invoices that are there, and a payment is published once at most, and only if
  lightningd called the hook for it. That a payment *is* published cannot be
  said: the hook may end before that. `ReducedIsTaken`: a part that was reduced,
  has a secret, is for an open invoice with an amount, and which the hook got to
  answer, is never failed for what it says; it counts for its HTLC towards
  the invoice's amount, so that a set of such parts is complete, or rejected as
  too much, when its HTLCs are; and the hook changes no other byte.
* `PaysAsAsked`: whatever the services answer, to this call and to others, what
  the node pays is for the amount asked for, within what the identifier's service
  offered, and commits to the metadata of that offer, which name the address if
  one was given. An invoice that the single requests give to the client is for
  the amount and commits to what the service said; the range and the address
  are not looked at there.

### Bounds, and why they are enough

* `SigningPath`: two staged calls touching one key each and one common key, a
  canned call, two streams so that an old stream's task lives beside the new
  one's, channel capacity 1 so that snapshots grow stale, `BcastCap` 1 so that two
  requests overtake a stream (the code's capacity is 1000) while one of them can
  be in the backlog of the other stream, two faults of any
  kind in any combination. A request handled twice, an answer cut off between
  write and reply, a failed write followed by a crash, a restarted signer
  before a restarted node all occur.
* `SigningPathLiveness`: one fault, since the liveness check is over the
  whole graph; every fault is followed by all orders of reconnection.
* `RequestContext`: a call that holds the shared client while it needs the
  signer, a configure, the loader, a payment whose invoice does not parse, and
  two cancellations or restarts: every pair of contenders, each in the presence
  of a third.
* `Allocation`: all choices of up to four channels with amounts up to 5 and
  every total. A cascade over three channels needs amounts of 4 and 5.
* `Trampoline`: two calls, so that one can overlap, follow or repeat the other;
  an amount sent whole or in two unequal parts, the least in which parts of one
  call can fail apart and parts of two calls add up to too much.

* `Pairing`: two directories, since a pairing needs two devices, and two nodes,
  so that a rune can meet the wrong one; three keys let a certificate's key, a
  key the scheduler sends and the new device's key differ. Requests ask for
  nothing, for reading only, and with a typo.
* `Peers`: one fault, a restart or a lost stream, and as many streams as can be
  made then; a task of the old stream lives beside that of the new one. One
  user's calls follow one another in any order, beside reconnecting tasks; one
  poll is enough for the deadline to pass before or after the socket is there.
* `Receiving`: channels of capacity 1 with two events, so that a stream can be
  overtaken; two parts, each reduced or not, so that totals can disagree and a
  set can fall short, fit or be too much; 260
  msat takes two bytes and 130 one, so that an amended amount changes its
  length; `MaxMsat` is small enough that the 105 % saturate.
* `Lnurl`: two calls, so that one service's answers to them can differ and two
  withdrawals meet at the node; an LNURL of each kind, an address, and an address
  that looks like an LNURL; amounts 1 and 2, with offers of 1 or of both, invoices
  of 0, 1 or 2, and metadata that name the address, name another or cannot be read.

### Fairness, and why the code justifies it

* Tasks and handlers that can run do: tokio schedules runnable tasks. Weak
  fairness on the steps of a stream task, on the phases of
  `respond_hsm_request`, and on the signer's loop, for signers in `Attentive`;
  `run_forever_inner` reconnects in an endless loop, hence fairness of
  `Attach`.
* Strong fairness where a lock is contended: tokio's mutex queues its waiters
  in order, and two handlers that alternate may disable each other's step
  infinitely often.
* The parts of a trampoline payment are settled in the end, with success or
  not: their HTLCs have a timeout on the chain.
* In `Peers`, the scheduler answers, lightningd starts and answers what needs no
  signer, a signer signs while its stream runs. A task that noticed nothing may
  stay: `TaskEnds` has no fairness, since it waits for a next request. Who waits
  for the shared client gets it (strong fairness): tokio's mutex is a queue.
* Faults, refusals and cancellations have no fairness. The signer of
  `SigningPathLiveness` refuses nothing: a refused request is not repeated to
  a stream that stays attached (`respond_hsm_request` only logs the error), so
  its daemon waits until a signer attaches anew.

## 4. The proofs

| Module | Theorems |
|---|---|
| `PathProofs`, the stage | `StageTypeCorrect`, `NoStreamMissesARequest`, `NoStreamRepeatsARequest`, `NoWaiterIsForgotten` |
| `PathProofs`, the signer state | `MergeIdempotent`, `MergeAssociative`, `MergeNeverLowers`, `DiffIsWhatMergeTakes`, `MergeOfComparable` |
| `PathProofs`, the path | `PathTypeCorrect`, `StreamsServeThePath` |
| `DurabilityProofs` | `AnswersAreDurable`, `OneHistory`, `StoreOnlyAdvances`, `SignsOnTheLatest`, `PathKeepsPromise` |
| `ContextProofs` | `ContextTypeCorrect`, `CacheKeepsUp`, `SignersSeeWhatIsPending` |
| `AllocationProofs` | `AllocationTypeCorrect`, `PartsFit`, `AscendingAllocationIsExact`, `EasyIsFound` |
| `TrampolineProofs` | `TrampolineTypeCorrect`, `ReportedPreimageIsPaid`, `NothingLeftInFlight`, `PaidIsNeverSentAgain`, `PaidAtMostOnce`, `ReportedPreimageIsInFull`, `CallsKeepPromise` |
| `PairingProofs` | `PairingTypeCorrect`, `SeedsAreKept`, `CredentialsMatch`, `PairedWereApproved`, `RunesFitDevices`, `DerivedNeverWider` |
| `PeersProofs` | `PeersTypeCorrect`, `AttachedAreCounted`, `UnlistedPeersHaveCause` |
| `ReceivingProofs` | `ReceivingTypeCorrect`, `StreamsHaveNoGap`, `ReadsWhatWasWritten`, `ReducedPartsAreTaken` |

*Stage.* `StreamsCoverStage` and `NeverTwicePerStream` are not inductive alone:
the first needs that a stream's queue holds what was sent since it attached,
the second that nothing is at once in backlog, queue and `given`. The
invariant, `StageInv`, is their conjunction with the types. `StreamsServeThePath`
is the same for `SigningPath`, whose steps on the stage are those of `StageNext` but
for three: canned calls, responses to the heartbeat, and restarts of the node
(`StageInvKept`).

*State.* The lemmas on `Merge` are for any states. Merging is idempotent and
associative and lowers no version, but it is commutative only on states of one
history (`MergeOfComparable`), which is why the path needs `CopiesAgree`.

*Durability.* For any number of calls, keys and streams, and any behaviour of
crashes and failing writes, under two assumptions that are part of the
statements: `OneSigner` (no two signer processes) and `WriteIsDurable`. The
first is needed, as run `TwoSigners` shows; without the second an answered call
is lost by the next crash (sled's insert is not flushed by `StateStore::write`).
With `Below` for "older or equal in every key, and equal where the versions
are", the inductive invariant `DurabilityInv` adds to the types:

1. `History`: all copies are points of one line. The store is below the
   node's memory, every snapshot in a task or a channel is below memory, and
   memory is below the signer's copy, unless the signer is `Behind`: it has
   just restarted, knows nothing but fresh entries, has no response under way,
   and all that is on its way to it is exactly the node's memory;
2. `Responses`: a response carries the signer's copy and reflects its request;
3. `Committing`: a commit past its merge is reflected in memory, and in phase
   "reply" the store equals memory;
4. `ClosedAreEmpty`, `AttachedAreOpen`: a closed stream holds no message, so
   that a signer that attaches anew starts with the heartbeat.

`CopiesAgree` is not inductive alone: a stale snapshot in a channel may be
merged later, so every copy in flight has to be in the invariant. One lemma
per group of actions (`MergeKeeps`, `WriteKeeps`, `SignerRestartKeeps`,
`NodeRestartKeeps`, ...) shows that it is kept.

*Refinement.* `PathKeepsPromise` shows, under the same two assumptions, that
`SigningPath` implements `DurableSigning`. `HsmRequest` is `Ask`, the write of
`respond_hsm_request` is `Record` (all at once, the effects of refused and
unanswered requests included), its end is `Answer`, or nothing if the answer
comes a second time, a node restart is `Crash`, and the rest is invisible.
`DurabilityInv` alone does not give it: `Ask` may add nothing to the record, so
no copy may reflect a call before it is asked, whatever is merged into
whatever. `OnlyAsked` (`PathProofs`) says that for the stage, the channels, the
tasks and every copy of the state, as "nothing but the requests `A` occurs" for
a set `A` that only grows; and that calls with a canned answer never wait.

*Context.* `ContextInv` says that a call that has not ended is in the context
(and that what is about to be removed has ended), that holding the shared
client is exclusive, and that what the loader has read is still in the
datastore and the cache is not ahead of it. The lock makes the last inductive:
no configure can write between the loader's read and its write. `PendingIsShown`
follows from the first, `CacheFollowsDatastore` from the last.

*Trampoline.* For any number of calls and channels and any set of allocations.
What the refinement needs comes first: an answer about the parts finds none in
flight (`AnswersWhenSettled`), and a preimage is one (`PreimageIsPaid`).
`AnswersWhenSettled` is not inductive: it needs that every part in flight has a
task of its call in state "sent" with that group and id (`InFlightIsAwaited`),
that after an answer all tasks have ended (`AnsweredHasEnded`), and that tasks
exist only for an allocation that is made (`SpawnedAsAllocated`, so that a call
neither changes group nor allocation under a running task). `PreimageIsPaid`
needs `TaskPaidIsPaid`; the type of `group` needs that lightningd's groups have
a greatest (`HasLastGroup`).

`PaidIsNotSentAgain` says something of a call for all the time after it has
started: the step that matters is `List`, where a call that finds a complete
part goes to `WaitEarlier` and never gets an allocation, and a complete part
stays one. `PaidOnce` is about sums, so it needs `PartsInv`: `sendpays` is finite,
every part is one of its call's allocation (`PartOfItsSplit`), no id occurs
twice in a group (`SentOnce`), and what is in flight or paid is of one group
(`OneGroup`). Where the calls of the group split alike, the completed parts have
different places in one allocation, so that they come to no more than it does.
`PaidAtMostOnce` assumes that all allocations in `Splits` are of one amount; one
that comes to more, as `AllocationSum` finds, would be paid as it is.

`PaidInFull` is the other direction, and needs no such assumption. `InFullInv`
says that a task in state "paid" has a complete part at its own place of the
call's group (`TaskPaidIsItsPart`), that after a preimage every place of the
allocation has such a task (`PreimageIsOfAll`), and that a call has no
allocation before it spawns (`AllocatedLast`), so that the answer of an earlier
attempt says nothing of it. Every place of the allocation then has a completed
part of its own with the amount of that place, and the sums compare the other
way (`PartsCoverTheirSplit`; both ways rest on `MatchedSum`, an injection between
the summands).

*Refinement of Payment.* `List` is `Begin` or `Ask`, depending on what it finds;
`WaitEarlier` and `Join` are `Answer`; a refusal or a client that leaves is
`Leave`; a `SendPart` that puts a part in flight is `Send`; `Fulfil` is `Settle`
and `Fail` is `Return`, or nothing if another part of the call is in flight. All
else is invisible. That an answer finds nothing of the call in flight is
`AnswersWhenSettled`; that `Send` comes only from a call that
pays or is gone needs that a call with tasks has taken a group and has not
answered (`TakesGroup`, `RunningIsUnanswered`).

*Allocation.* For any number of channels and any amounts. `Level(chs, n, rest)` is
`try_allocate` on the last n channels, given `rest` on those behind the first of
them; `LevelByLevel` carries a property from no channels to all of them.
`SearchCases` lists how one level goes on: it skips the channel, or takes what
it can and returns what comes of it, asks for more, or gives back and tries
again. Three properties are carried:

1. `KeepsFitting`: if the vector holds parts that fit their channels, so it does
   after any attempt, whatever has been left in it. It gives the types and
   `PartsFitChannels`, in either order;
2. `FindsEasy`: amounts in `Easy`, a set that is closed under what the first
   channel takes (`EasyBehind`), are found. The payment is given up in
   descending order, and only for want of an allocation (`AllocationInv`);
3. in ascending order, `Clean`: the result does not depend on the vector, a
   search that asks for more leaves nothing in it (`LeavesNothing`) and finds
   what it was asked for when it gets that (`Converges`). Then an adjustment
   pops the part it means to pop, and succeeds at once (`AdjustingFinds`: the
   last fallback, `tramp.rs` 876-881, is never reached), and `AddsUp` follows.
   What makes `Clean` inductive is `LeavesSmall`: an amount below what every
   channel behind can spend is found there, or leaves nothing. It needs
   the ascending order (`Rising`, from `SortedOrders`): a channel is skipped for
   an amount below its minimum, hence below what any later one can spend. In
   descending order the later channels are the smaller ones, an attempt that ends
   in `Impossible` leaves parts behind, and the sum is wrong (`AllocationSum`).

That the sort has a channel for every place is a counting argument
(`SortedIs`): the numbers of channels up to each are all different, so each of
1..n occurs.

*Pairing.* For any directories, nodes, keys, methods and requests. `PairingInv`
says of every place where credentials can be, a file or a command about to write
one, that they are good (`DeviceFits`: a certificate's rune is bound to its key,
a paired one is backed by an approval the signer verified) and go with the seed
beside them (`OfSeed`). That makes `CredsMatchSeed` inductive: a command's device
fits the seed of its directory, and a seed is written only over no file
(`SeedsFit`, `JobFits`). `RuneFitsDevice` needs besides that a session is made
once, by the one device that drew its key (`SessionsFit`), and that an approval
names the session's texts (`ApprovalFits`). The lemmas `BoundRuneGrants` and
`AddingNarrows` are about runes alone.

*Peers.* `CountCoversAttached` is not inductive: a count that is only large
enough could be lowered by a task twice. `Counted` says that `SIGNER_COUNT` is
the number of stream tasks, running or left, and that every signer that reads
has a running task of its own. `PeersAreListed` is inductive with the types: the step
that matters is `Hook`, which enters the peer in the list or in `missed`
(`HookKeeps`). A disconnect takes a peer from the list and puts it in `forgotten`.

*Receiving.* For any labels, parts, listings and offers, and for any clients,
events and capacities. `GapFree` compares what a listener was handed with a
selection from the log, `Passed`, which is a recursion over the log: the lemmas
say that it grows by the event just passed, if that is of the listener's kind,
and that later events leave it as it is. With that `EventsInv` is inductive:
places in the log are in order, and a stream is sending exactly if it holds an
event. `ReceivingTypeOK` relates the invoice to its request, its parts and its
publication, and `PaymentsInv` is its inductive form: what a request and its
invoice say of each other (`Agree`), that a part for an invoice has one
(`PartHasInvoice`), that a published payment has come to the hook
(`PublishedIsCalled`, whence a second one is never published, `PublishedOnce`).
The part of the events that is a payment is changed by `InvoicePayment` only
(`EventsPublishNoPayment`).

*The codec.* `ReadsWhatWasWritten`: a stream of entries with types and lengths of
64 bits, written by `ToBytes` behind any other bytes, is what `FromBytes` reads
from there. The number of bytes in front is arbitrary, so every step is about
where a piece lies in a longer sequence (`Holds`): digits read back one by one
(`BigEndianReads`, `PutTu64Reads`), then a compact size in each of its four forms
(`CompactSizeReads`), an entry (`EntryReads`), and by induction on the entries the
state after each round (`RoundReads`). There are enough rounds, since entry by
entry the bytes are at least twice as many (`EntriesTakeBytes`), and one round
too many changes nothing.

`ReducedIsTaken` rests on it, and on `ReducedInv`: of every part that has arrived,
some onion the payer could make is what was sent, and the payload is that onion
rewritten if the hook has something to amend, and unchanged if not (`SentAs`);
what lightningd keeps or rejects as too much counts for its HTLC towards the
invoice (`Counts`, `TakenRightly`), whence parts of an invoice with an amount never
disagree; what it fails by itself it may (`FailedRightly`); and an invoice that is
made stays as it is but for its payment coming to the hook (`Stays`). A part whose
hook failed is none until it is offered anew. The codec gives that the hook
reads the payer's entries (`DeserializeReads`), that setting two of them gives
the onion for the HTLC's amount and the invoice's total (`AmendedIs`), and that
lightningd reads those from the hook's bytes (`AmountsRead`). The constants are
assumed to be what the code's types hold: amounts of 64 bits, secrets of one
length in bytes.

*Induction.* The library's induction theorems take an operator, which the
provers cannot instantiate. Where a proof needs one (sums, the log of events,
the levels of the search) it is on a set instead: a set of numbers that holds 0
and with n also n + 1 is `Nat` (`NatSetInduction`, from `WFMin`: else there is a
least number outside it); likewise for finite sets. That a recursive function
is what its equation says needs a function that satisfies it
(`RecursionExists`). All recursion in the modules that are proved about is
therefore written as functions.

*Only model-checked*: liveness (`EveryCallReturns`, `EveryCallEnds`,
`EveryCallAnswers`, `ListedAreTried`, `CallsEnd`, `StopsWhenAsked`), which is
out of the prover's reach, and `PaysAsAsked`. Every other property of a passing
run is a theorem.

## 5. Where the code and its words part

Three runs end in a violation; `PROJECT.json` quotes both sides. `merge` drops one
of two equal versions that two signers made from one snapshot (`TwoSigners`); a
guard of the cached configuration is held across a blocking send
(`StalledSigner`); `find_allocation` pops the wrong contribution after an
abandoned attempt (`AllocationSum`).

Other divergences came up while modelling. The models do what the code does.

In the models:

* `configure` stores `requests[0]`, the oldest pending call, for its own
  (`node/mod.rs` 640; `Configure` in `RequestContext`).
* A cancelled call stays in the context: its removal comes after the await
  (`node/mod.rs` 1061; `Cancel`).
* The future that waits for a channel is made and never polled (`tramp.rs` 685,
  `awaitables.rs` 235; `AwaitChannels`).
* `Device::upgrade` binds the rune to the node id in the certificate, and a
  device key sent by the scheduler comes with a rune bound to the key of the
  request, while calls are signed with another key. The signer only checks that
  some public key is named (`signer/mod.rs` 1106-1110, 1169).
* `create_rune` drops a restriction that does not parse (`signer/mod.rs` 1153), so
  that the derived rune is wider than was asked for, though never wider than
  its origin.
* `DefRules::ReadOnly` generates the prefixes `Get` and `List` (`runes.rs` 82-83),
  which are compared with the lower-cased method (`signer/mod.rs` 365): a rune
  carved read-only lets nothing through.
* `reconnect_peers` is to restore the peers a user did not disconnect
  (`node/mod.rs` 730), but a disconnect that lightningd refuses has deleted the
  entry already (`wrapper.rs` 433; `Forget`, history `forgotten`), and a peer
  connects without being entered when the hook fails (`lib.rs` 139, 152-155; `Hook`,
  history `missed`).
* A signer asked to stop while `init_scheduler` retries the upgrade goes on until
  the upgrade is answered.
* `lsp_invoice` takes the first LSP that answers, also when the client named one
  (`node/mod.rs` 268, `greenlight.proto` 231; `GatherOffers`).
* A paid invoice is not published when `on_invoice_payment` cannot decode the call,
  finds no invoice or ends with an error or a panic (`lib.rs` 229-275;
  `InvoicePayment`).
* A withdrawal ends well without the service having got the invoice: the callback
  is a future nobody awaits (`lnurl/mod.rs` 125). Its invoices have the empty
  label, which a node gives out once, so that a second withdrawal fails (`Made`).
* A lightning address whose name begins with "lnurl" is taken for an LNURL, and
  fails to decode (`lnurl/pay/mod.rs` 46-52; `Resolved`).
* The hook amends any HTLC below what its onion forwards; the opt-in of
  `docs/src/reference/lsp.md` 17-20 is not looked at.
* The first bytes of a payload are read as its length and `take` is undone by
  `into_inner` (`tlv.rs`; `Deserialize`).
* `stream_custommsg`'s task panics where `stream_incoming`'s ends.

Outside the models:

* The wrapper's comment announces a guard against calls that need a signature
  while no signer is attached, which is not there, and route hints for
  disconnected channels, where only connected ones are used (`wrapper.rs` 16-19).
* `get_tu64` panics on values of three bytes, which `put_tu64` writes, and
  `from_bytes` on entries that are cut short (`tlv.rs` 79-82). lightningd has read
  an onion before it calls the hook, so that no malformed one gets there.
* Versions are compared as strings in `lsp_invoice` (`node/mod.rs` 284).
* `stream_log` gives the backlog from `../log` and what follows from `/tmp/log`
  (`node/mod.rs` 333, 341): nothing makes them one file.
* `run_once` connects lazily: a signer whose node has moved notices at the first
  call only.

## 6. Not modelled, and the plan

Not modelled: VLS and its policies (a handler is "which keys it updates"),
cryptography, the content of documents and messages, wire formats and fd
passing, the encoding of certificates and credentials, command lines. A document
is never deleted from the state, as in the code (`delete_channel` looks for a
key without its prefix). The runes of `Access` come from signing requests and
from pairing; other ways to get one are not there. Payments are not settled in
`Receiving`.

Whole components that are left out, and why: `export` is a conversion that keeps
no state; gl-sdk, its bindings, the
rest of gl-cli and gl-util translate arguments and errors; the plugin's entry
reads its configuration once; the scheduler mock and the version manager are
test tooling. `schedule`, invite codes and webhooks of the scheduler client are
single calls that keep nothing on the client's side.

What could come next: `SigningPath` with two signers that take turns, between
`TwoSigners` and the one signer of the theorems.
