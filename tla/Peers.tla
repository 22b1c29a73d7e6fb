------------------------------- MODULE Peers -------------------------------
(***************************************************************************)
(* How a node stays in touch with its signers and its peers.               *)
(*                                                                         *)
(* A signer (gl-client/src/signer/mod.rs) asks the scheduler where its     *)
(* node runs, attaches, serves what the node streams to it and starts over *)
(* when the stream ends.  The node (gl-plugin/src/node, lib.rs) counts the *)
(* streams, reconnects its peers after every attachment, keeps the list of *)
(* them in the datastore, and shares one JSON-RPC client, behind a lock,   *)
(* between the reconnecting tasks and the calls of its own service.  The   *)
(* calls of the cln.Node service wait for lightningd's socket first        *)
(* (rpcwait.rs), and have a connection each.                               *)
(*                                                                         *)
(* lightningd and the scheduler are outside the repository: lightningd     *)
(* cannot complete a handshake or sign without a signer, and calls the     *)
(* plugin's hooks; the scheduler tells where the node runs.                *)
(***************************************************************************)
EXTENDS Integers, FiniteSets

CONSTANTS
    Signers,    \* devices that run the signer's loop
    Streams,    \* attachments, each with its task and its reconnecting task
    Peers,
    Users,      \* callers, each with one call at a time
    Polls,      \* how often a call looks for lightningd's socket
    MaxFaults,  \* bound on lost streams and restarts together
    None

ASSUME PeersConstants ==
    /\ IsFiniteSet(Streams) /\ IsFiniteSet(Signers)
    /\ Polls \in Nat /\ MaxFaults \in Nat
    /\ None \notin Streams \cup Users \cup Peers

VARIABLES
    loop,       \* where each signer is in its loop
    uri,        \* the incarnation of the node that the scheduler told it of
    asked,      \* the signers that were asked to stop
    stream,     \* the stream each signer reads
    task,       \* the node's stream tasks: none, running, or left by the signer
    count,      \* SIGNER_COUNT
    rec,        \* the reconnecting tasks: where they are, peers still to connect
    rpc,        \* who holds the shared client
    call,       \* the call of each user
    socket,     \* lightning-rpc: not there, left by the last run, or live
    epoch,      \* which incarnation of the node runs
    connected,  \* what listpeers says
    peerlist,   \* greenlight/peerlist in the datastore
    channels,   \* peers with a channel
    forgotten,  \* history: peers a user disconnected since they last were entered
    missed,     \* history: peers that connected without being entered
    due,        \* history: peers listed at the last restart and not tried since
    cutShort,   \* history: a round of reconnects ended early since a signer
                \* last attached
    faults

nodeVars == <<task, count, rec, rpc, socket, epoch>>
peerVars == <<connected, peerlist, channels, forgotten, missed, due, cutShort>>
signerVars == <<loop, uri, asked, stream>>
vars == <<signerVars, nodeVars, peerVars, call, faults>>

Idle == [op |-> "none", pc |-> "idle", peer |-> None, polls |-> 0]
Resting == [pc |-> "idle", todo |-> {}]

\* `read' and `sign' stand for the calls the wrapper passes on: those that
\* lightningd answers by itself and those that it needs a signature for.
Forwarded == {"read", "sign", "connect", "disconnect"}

\* configure and lsp_invoice, by what they keep the shared client for.
Sharing == {"configure", "lsp_invoice"}

PeersTypeOK ==
    /\ loop \in [Signers -> {"upgrade", "info", "connect", "attached", "off"}]
    /\ uri \in [Signers -> 0..MaxFaults]
    /\ asked \subseteq Signers
    /\ stream \in [Signers -> Streams \cup {None}]
    /\ task \in [Streams -> {"none", "running", "left"}]
    /\ count \in Nat
    /\ rec \in [Streams -> [pc : {"idle", "check", "peers", "datastore", "lock", "connect"},
                            todo : SUBSET Peers]]
    /\ rpc \in Streams \cup Users \cup {None}
    /\ call \in [Users -> [op : {"none"} \cup Forwarded \cup Sharing,
                           pc : {"idle", "await", "forget", "sent", "lock", "held"},
                           peer : Peers \cup {None}, polls : 0..Polls]]
    /\ socket \in {"none", "stale", "live"}
    /\ epoch \in 0..MaxFaults /\ faults \in 0..MaxFaults
    /\ connected \subseteq Peers /\ peerlist \subseteq Peers /\ channels \subseteq Peers
    /\ forgotten \subseteq Peers /\ missed \subseteq Peers
    /\ due \subseteq Peers /\ cutShort \in BOOLEAN

\* A node that was set up before: some peers are listed and have channels.
Init ==
    /\ loop = [s \in Signers |-> "upgrade"] /\ uri = [s \in Signers |-> 0]
    /\ asked = {} /\ stream = [s \in Signers |-> None]
    /\ task = [t \in Streams |-> "none"] /\ count = 0
    /\ rec = [t \in Streams |-> Resting] /\ rpc = None
    /\ call = [u \in Users |-> Idle]
    /\ socket \in {"none", "stale"} /\ epoch = 0 /\ faults = 0
    /\ peerlist \in SUBSET Peers /\ channels \in SUBSET peerlist
    /\ connected = {} /\ forgotten = {} /\ missed = {} /\ due = peerlist /\ cutShort = FALSE

-----------------------------------------------------------------------------

(***************************************************************************)
(* The signer's loop.  Sleeping and trying again is no step of the model:  *)
(* init_scheduler while the scheduler is unavailable, run_forever_inner on *)
(* an error or an empty uri.                                               *)
(***************************************************************************)

\* A step of signer s from one place of its loop to another.
Moves(s, from, to) == loop[s] = from /\ loop' = [loop EXCEPT ![s] = to]

\* init_scheduler: the upgrade is done, or the scheduler refuses it.
UpgradeDone(s) ==
    /\ Moves(s, "upgrade", "info")
    /\ UNCHANGED <<uri, asked, stream, nodeVars, peerVars, call, faults>>

UpgradeRefused(s) ==
    /\ Moves(s, "upgrade", "off")
    /\ UNCHANGED <<uri, asked, stream, nodeVars, peerVars, call, faults>>

\* get_node_info answers with where the node runs now.
InfoAnswered(s) ==
    /\ Moves(s, "info", "connect")
    /\ uri' = [uri EXCEPT ![s] = epoch]
    /\ UNCHANGED <<asked, stream, nodeVars, peerVars, call, faults>>

\* run_once against a node that has gone since: logged, and from the start.
ConnectFails(s) ==
    /\ uri[s] # epoch
    /\ Moves(s, "connect", "info")
    /\ UNCHANGED <<uri, asked, stream, nodeVars, peerVars, call, faults>>

Free == {t \in Streams : task[t] = "none" /\ rec[t] = Resting}

(***************************************************************************)
(* run_once calls stream_hsm_requests.  The wrapper has the node count the *)
(* signer and start its task, and then spawns reconnect_peers.             *)
(***************************************************************************)
Attach(s) ==
    /\ uri[s] = epoch
    /\ Free # {}
    /\ Moves(s, "connect", "attached")
    /\ LET t == CHOOSE t \in Free : TRUE IN
       /\ stream' = [stream EXCEPT ![s] = t]
       /\ task' = [task EXCEPT ![t] = "running"]
       /\ rec' = [rec EXCEPT ![t] = [pc |-> "check", todo |-> {}]]
    /\ count' = count + 1 /\ cutShort' = FALSE
    /\ UNCHANGED <<uri, asked, rpc, socket, epoch, call, faults>>
    /\ UNCHANGED <<connected, peerlist, channels, forgotten, missed, due>>

\* The stream between s and the node breaks; neither side knows yet.
Lose(s) ==
    /\ stream[s] # None /\ faults < MaxFaults
    /\ task' = [task EXCEPT ![stream[s]] = "left"]
    /\ stream' = [stream EXCEPT ![s] = None]
    /\ faults' = faults + 1
    /\ UNCHANGED <<loop, uri, asked, count, rec, rpc, socket, epoch, peerVars, call>>

\* Keepalive tells the signer; run_once returns, and the loop starts over.
Noticed(s) ==
    /\ stream[s] = None
    /\ Moves(s, "attached", "info")
    /\ UNCHANGED <<uri, asked, stream, nodeVars, peerVars, call, faults>>

\* run_handler, at Ctrl-C: the message waits in the shutdown channel.
StopAsked(s) ==
    /\ s \notin asked /\ loop[s] # "off"
    /\ asked' = asked \cup {s}
    /\ UNCHANGED <<loop, uri, stream, nodeVars, peerVars, call, faults>>

\* Mutant of Stops: the shutdown channel is read between two streams only.
StopsUnattached(s) ==
    /\ s \in asked
    /\ loop[s] \in {"info", "connect"}
    /\ loop' = [loop EXCEPT ![s] = "off"]
    /\ UNCHANGED <<uri, asked, stream, nodeVars, peerVars, call, faults>>

\* Mutant of Stops: the node lowers the count as soon as the client is gone.
StopsCounting(s) ==
    /\ s \in asked
    /\ loop[s] \in {"info", "connect", "attached"}
    /\ loop' = [loop EXCEPT ![s] = "off"]
    /\ stream' = [stream EXCEPT ![s] = None]
    /\ task' = IF stream[s] = None THEN task ELSE [task EXCEPT ![stream[s]] = "left"]
    /\ count' = IF stream[s] = None THEN count ELSE count - 1
    /\ UNCHANGED <<uri, asked, rec, rpc, socket, epoch, peerVars, call, faults>>

(***************************************************************************)
(* run_forever_with_uri selects between the loops and the shutdown channel *)
(* once the upgrade is done; dropping the loop drops its stream.           *)
(***************************************************************************)
Stops(s) ==
    /\ s \in asked
    /\ loop[s] \in {"info", "connect", "attached"}
    /\ loop' = [loop EXCEPT ![s] = "off"]
    /\ stream' = [stream EXCEPT ![s] = None]
    /\ task' = IF stream[s] = None THEN task ELSE [task EXCEPT ![stream[s]] = "left"]
    /\ UNCHANGED <<uri, asked, count, rec, rpc, socket, epoch, peerVars, call, faults>>

-----------------------------------------------------------------------------

(***************************************************************************)
(* What waits for a signer stages a request, and a task whose signer left  *)
(* sees that when it sends the next one.  A signer can answer when it      *)
(* reads a running task's stream.                                          *)
(***************************************************************************)
SignerThere == \E t \in Streams : task[t] = "running"

\* Mutant of TaskEnds: the count is cleared instead of lowered.
TaskEndsClearing(t) ==
    /\ task[t] = "left"
    /\ task' = [task EXCEPT ![t] = "none"]
    /\ count' = 0
    /\ UNCHANGED <<signerVars, rec, rpc, socket, epoch, peerVars, call, faults>>

\* stream_hsm_requests: the loop breaks, and the count goes down.
TaskEnds(t) ==
    /\ task[t] = "left"
    /\ task' = [task EXCEPT ![t] = "none"]
    /\ count' = count - 1
    /\ UNCHANGED <<signerVars, rec, rpc, socket, epoch, peerVars, call, faults>>

\* A step of reconnecting task t.
Reconnects(t, from, to, todo) ==
    /\ rec[t].pc = from
    /\ rec' = [rec EXCEPT ![t] = [pc |-> to, todo |-> todo]]

\* reconnect_peers: without a signer nothing is done.
RecCheck(t) ==
    /\ IF count < 1 THEN Reconnects(t, "check", "idle", {})
                    ELSE Reconnects(t, "check", "peers", {})
    /\ UNCHANGED <<signerVars, task, count, rpc, socket, epoch, peerVars, call, faults>>

\* get_rpc returns once lightningd is up; then the lock is taken.
Acquire(h) == socket = "live" /\ rpc = None /\ rpc' = h

(***************************************************************************)
(* get_reconnect_peers fails, and the round is over: listpeers does, or    *)
(* listdatastore, or an entry there cannot be read, which is a panic of    *)
(* the task.  In either case the guard is dropped.                         *)
(***************************************************************************)
RecFails(t) ==
    /\ \/ Reconnects(t, "peers", "idle", {}) /\ socket = "live" /\ rpc = None
       \/ Reconnects(t, "datastore", "idle", {})
    /\ rpc' = None /\ cutShort' = TRUE
    /\ UNCHANGED <<signerVars, task, count, socket, epoch, call, faults>>
    /\ UNCHANGED <<connected, peerlist, channels, forgotten, missed, due>>

\* get_reconnect_peers: the peers that are connected,
RecPeers(t) ==
    /\ Acquire(t)
    /\ Reconnects(t, "peers", "datastore", connected)
    /\ UNCHANGED <<signerVars, task, count, socket, epoch, peerVars, call, faults>>

\* Mutant of RecDatastore: the guard lives on into reconnect_peers.
RecDatastoreHolding(t) ==
    /\ Reconnects(t, "datastore", "lock", rec[t].todo \cup peerlist)
    /\ UNCHANGED <<signerVars, task, count, rpc, socket, epoch, peerVars, call, faults>>

\* and those in the datastore; the guard is dropped.
RecDatastore(t) ==
    /\ Reconnects(t, "datastore", "lock", rec[t].todo \cup peerlist)
    /\ rpc' = None
    /\ UNCHANGED <<signerVars, task, count, socket, epoch, peerVars, call, faults>>

\* reconnect_peers takes the lock again, for all the connecting.
RecLock(t) ==
    /\ Acquire(t)
    /\ Reconnects(t, "lock", "connect", rec[t].todo)
    /\ UNCHANGED <<signerVars, task, count, socket, epoch, peerVars, call, faults>>

\* Mutant of Hook: an entry that is there already is left out.
HookUnlessKnown(p) ==
    /\ connected' = connected \cup {p}
    /\ peerlist' = IF p \in channels THEN peerlist ELSE peerlist \cup {p}
    /\ forgotten' = forgotten \ {p}
    /\ missed' = missed \ {p}

(***************************************************************************)
(* on_peer_connected, for every connection made by either side: the peer   *)
(* is entered in the datastore, by a connection of the hook's own.  The    *)
(* hook goes on when lightningd does not store the entry, and ends with an *)
(* error when it cannot connect.                                           *)
(***************************************************************************)
Hook(p) ==
    /\ connected' = connected \cup {p}
    /\ \/ /\ peerlist' = peerlist \cup {p}
          /\ forgotten' = forgotten \ {p}
          /\ missed' = missed \ {p}
       \/ missed' = missed \cup {p} /\ UNCHANGED <<peerlist, forgotten>>

\* Connecting: done before, made with a signer's help, or without success.
Connects(p) ==
    \/ p \in connected /\ UNCHANGED <<connected, peerlist, forgotten, missed>>
    \/ p \notin connected /\ SignerThere /\ Hook(p)
    \/ p \notin connected /\ SignerThere /\ UNCHANGED <<connected, peerlist, forgotten, missed>>

\* One after the other; a failure is logged.
RecConnect(t) ==
    /\ \E p \in rec[t].todo :
          /\ Reconnects(t, "connect", "connect", rec[t].todo \ {p})
          /\ Connects(p)
          /\ due' = due \ {p}
    /\ UNCHANGED <<signerVars, task, count, rpc, socket, epoch, channels, cutShort, call, faults>>

RecEnds(t) ==
    /\ rec[t].todo = {}
    /\ Reconnects(t, "connect", "idle", {})
    /\ rpc' = None
    /\ UNCHANGED <<signerVars, task, count, socket, epoch, peerVars, call, faults>>

-----------------------------------------------------------------------------

\* A user's next call; the peer is there for connect and disconnect.
Calls(u, op, p) ==
    /\ call[u].pc = "idle"
    /\ (op \in {"connect", "disconnect"}) = (p # None)
    /\ call' = [call EXCEPT ![u] = [op |-> op, peer |-> p, polls |-> 0,
                   pc |-> IF op \in Sharing THEN "lock" ELSE "await"]]
    /\ UNCHANGED <<signerVars, nodeVars, peerVars, faults>>

\* Where a call goes from the service that waits.
Passed(op) == IF op = "disconnect" THEN "forget" ELSE "sent"

(***************************************************************************)
(* RpcWaitService: look for the file, sleep and look again until the       *)
(* deadline, then let the call go on regardless.  A file left by the last  *)
(* run looks the same.                                                     *)
(***************************************************************************)
Await(u) ==
    /\ call[u].pc = "await"
    /\ call' = IF socket # "none" \/ call[u].polls = Polls
               THEN [call EXCEPT ![u].pc = Passed(call[u].op)]
               ELSE [call EXCEPT ![u].polls = @ + 1]
    /\ UNCHANGED <<signerVars, nodeVars, peerVars, faults>>

\* The wrapper's disconnect: delete the entry, whatever comes of it.
Forget(u) ==
    /\ call[u].pc = "forget"
    /\ call' = [call EXCEPT ![u].pc = "sent"]
    /\ IF socket = "live"
       THEN /\ peerlist' = peerlist \ {call[u].peer}
            /\ forgotten' = forgotten \cup {call[u].peer}
            /\ due' = due \ {call[u].peer}
       ELSE UNCHANGED <<peerlist, forgotten, due>>
    /\ UNCHANGED <<signerVars, nodeVars, connected, channels, missed, cutShort, faults>>

(***************************************************************************)
(* What the wrapper's call to lightningd comes back with, as every one of  *)
(* its methods does: an error when lightningd is not there,                *)
(***************************************************************************)
Returns(u, op) ==
    /\ call[u].pc = "sent" /\ call[u].op = op
    /\ call' = [call EXCEPT ![u] = Idle]
    /\ UNCHANGED <<signerVars, nodeVars, faults>>

AnswerFails(u) ==
    /\ socket # "live"
    /\ \E op \in Forwarded : Returns(u, op)
    /\ UNCHANGED peerVars

\* else the answer, at once
AnswerRead(u) ==
    /\ socket = "live"
    /\ Returns(u, "read")
    /\ UNCHANGED peerVars

\* or when a signer has signed.
AnswerSign(u) ==
    /\ socket = "live" /\ SignerThere
    /\ Returns(u, "sign")
    /\ UNCHANGED peerVars

AnswerConnect(u) ==
    /\ socket = "live"
    /\ Returns(u, "connect")
    /\ Connects(call[u].peer)
    /\ UNCHANGED <<channels, due, cutShort>>

\* A disconnect that is not forced, of a peer with a channel, may be refused.
AnswerDisconnect(u) ==
    /\ socket = "live"
    /\ Returns(u, "disconnect")
    /\ LET p == call[u].peer IN
       connected' \in {connected \ {p}} \cup (IF p \in channels THEN {connected} ELSE {})
    /\ UNCHANGED <<peerlist, channels, forgotten, missed, due, cutShort>>

\* configure and lsp_invoice wait for the shared client,
Enter(u) ==
    /\ call[u].pc = "lock"
    /\ Acquire(u)
    /\ call' = [call EXCEPT ![u].pc = "held"]
    /\ UNCHANGED <<signerVars, task, count, rec, socket, epoch, peerVars, faults>>

\* and keep it until lightningd has stored the request, or has signed the invoice.
Leave(u) ==
    /\ call[u].pc = "held"
    /\ call[u].op = "lsp_invoice" => SignerThere
    /\ rpc' = None
    /\ call' = [call EXCEPT ![u] = Idle]
    /\ UNCHANGED <<signerVars, task, count, rec, socket, epoch, peerVars, faults>>

-----------------------------------------------------------------------------

\* lightningd has started its plugins and listens.
Listen ==
    /\ socket # "live"
    /\ socket' = "live"
    /\ UNCHANGED <<signerVars, task, count, rec, rpc, epoch, peerVars, call, faults>>

\* Peers connect on their own, drop off, and open channels (on_openchannel
\* answers `continue' in every case).
PeerConnects(p) ==
    /\ socket = "live" /\ p \notin connected /\ SignerThere
    /\ Hook(p)
    /\ UNCHANGED <<signerVars, nodeVars, channels, due, cutShort, call, faults>>

PeerDrops(p) ==
    /\ p \in connected
    /\ connected' = connected \ {p}
    /\ UNCHANGED <<signerVars, nodeVars, call, faults>>
    /\ UNCHANGED <<peerlist, channels, forgotten, missed, due, cutShort>>

OpenChannel(p) ==
    /\ p \in connected \ channels /\ SignerThere
    /\ channels' = channels \cup {p}
    /\ UNCHANGED <<signerVars, nodeVars, call, faults>>
    /\ UNCHANGED <<connected, peerlist, forgotten, missed, due, cutShort>>

\* The node stops and is scheduled again: its memory is gone, the datastore
\* and the channels stay, and so may the file of the socket.
Restart ==
    /\ faults < MaxFaults /\ faults' = faults + 1
    /\ epoch' = epoch + 1
    /\ socket' \in {"none", "stale"}
    /\ task' = [t \in Streams |-> "none"] /\ count' = 0
    /\ rec' = [t \in Streams |-> Resting] /\ rpc' = None
    /\ stream' = [s \in Signers |-> None]
    /\ call' = [u \in Users |-> Idle]
    /\ connected' = {} /\ due' = peerlist
    /\ UNCHANGED <<loop, uri, asked, peerlist, channels, forgotten, missed, cutShort>>

SignerStep(s) ==
    \/ UpgradeDone(s) \/ InfoAnswered(s) \/ ConnectFails(s) \/ Attach(s)
    \/ Noticed(s) \/ Stops(s)

RecStep(t) == RecCheck(t) \/ RecDatastore(t) \/ RecConnect(t) \/ RecEnds(t)

RecWaits(t) == RecPeers(t) \/ RecLock(t)

Answer(u) == \/ AnswerFails(u) \/ AnswerRead(u) \/ AnswerSign(u)
             \/ AnswerConnect(u) \/ AnswerDisconnect(u)

CallStep(u) == Await(u) \/ Forget(u) \/ Answer(u) \/ Leave(u)

Next ==
    \/ \E s \in Signers : SignerStep(s) \/ UpgradeRefused(s) \/ Lose(s) \/ StopAsked(s)
    \/ \E t \in Streams : TaskEnds(t) \/ RecStep(t) \/ RecWaits(t) \/ RecFails(t)
    \/ \E u \in Users : CallStep(u) \/ Enter(u)
    \/ \E u \in Users, op \in Forwarded \cup Sharing, p \in Peers \cup {None} : Calls(u, op, p)
    \/ \E p \in Peers : PeerConnects(p) \/ PeerDrops(p) \/ OpenChannel(p)
    \/ Listen \/ Restart

Spec == Init /\ [][Next]_vars

(***************************************************************************)
(* The loops retry until the scheduler answers; tokio runs the tasks and   *)
(* its mutex is fair, so who waits for the client gets it; lightningd      *)
(* starts.  Nothing is assumed of users, peers and the network.            *)
(***************************************************************************)
Fairness ==
    /\ \A s \in Signers : WF_vars(SignerStep(s))
    /\ \A t \in Streams : WF_vars(RecStep(t)) /\ SF_vars(RecWaits(t))
    /\ \A u \in Users : WF_vars(CallStep(u)) /\ SF_vars(Enter(u))
    /\ WF_vars(Listen)

FairSpec == Spec /\ Fairness

-----------------------------------------------------------------------------

(***************************************************************************)
(* SIGNER_COUNT, the best guess of node/mod.rs, errs on one side only: it  *)
(* counts every signer that is attached, though it may count others too.   *)
(***************************************************************************)
CountCoversAttached ==
    Cardinality({s \in Signers : stream[s] # None}) <= count

(***************************************************************************)
(* A peer that is connected or has a channel is listed for reconnection    *)
(* unless a user disconnected it, also when lightningd refused to, or the  *)
(* hook could not enter it when it connected: on_peer_connected and the    *)
(* wrapper's disconnect, in any order with lost connections, rounds of     *)
(* reconnects and restarts.                                                *)
(***************************************************************************)
PeersAreListed == connected \cup channels \subseteq peerlist \cup forgotten \cup missed

\* Nobody is left to sign.
NoSigner == \A s \in Signers : loop[s] = "off"

(***************************************************************************)
(* After a restart every listed peer is tried or forgotten, whatever       *)
(* happens to streams in between, as long as a signer runs and the round   *)
(* of reconnects of its last attachment is not cut short: a reconnecting   *)
(* task of stream_hsm_requests must see the signer it was spawned for, get *)
(* the client twice and outlast the peers that cannot be reached.          *)
(***************************************************************************)
ListedAreTried == \A p \in Peers : (p \in due) ~> (p \notin due \/ NoSigner \/ cutShort)

(***************************************************************************)
(* Every call ends, that of a user who needs the shared client while peers *)
(* are reconnected under it (reconnect_peers), that of one who comes while *)
(* lightningd starts (RpcWaitService) and that of one who needs a signer.  *)
(***************************************************************************)
CallsEnd == \A u \in Users : (call[u].pc # "idle") ~> (call[u].pc = "idle" \/ NoSigner)

(***************************************************************************)
(* A signer that is asked to stop does (run_forever_with_uri), also in the *)
(* middle of a stream.                                                     *)
(***************************************************************************)
StopsWhenAsked == \A s \in Signers : (s \in asked) ~> (loop[s] = "off")

=============================================================================
