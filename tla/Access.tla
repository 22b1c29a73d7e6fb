------------------------------- MODULE Access -------------------------------
(***************************************************************************)
(* How a data directory gets its node and its credentials: the commands of *)
(* gl-cli (src/scheduler.rs, src/node.rs, src/util.rs) over the scheduler  *)
(* client of gl-client (src/scheduler.rs, src/credentials.rs).             *)
(*                                                                         *)
(* A directory holds a seed and a credentials file.  Either is written by  *)
(* truncating it and then filling it, so that a crash between the two      *)
(* leaves it Torn.  A seed stands for the node it gives; a TLS key is drawn *)
(* fresh by each command that makes one.  Asking for a challenge and       *)
(* answering it is one step with the call that uses the answer: nothing is *)
(* kept between the two.  One command runs in a directory at a time.       *)
(***************************************************************************)
EXTENDS Runes

CONSTANTS
    Dirs,       \* data directories, each on a disk of its own
    OldDirs,    \* those set up by a release that kept device.crt instead
    Nodes,      \* nodes, each with its seed
    Keys,       \* TLS key pairs
    Methods,    \* the methods of the node's service
    None, Torn  \* no file; a file that was created and not filled

ASSUME OldDirsAssumption == OldDirs \subseteq Dirs
ASSUME FilesAssumption == None \notin Nodes \cup Keys /\ Torn \notin Nodes /\ Torn # None

VARIABLES
    seed,        \* hsm_secret in each directory
    creds,       \* credentials.gfs in each directory
    old,         \* device.crt and device-key.pem in the old directories
    job,         \* the command that runs in each directory
    drawn,       \* nodes whose seed somebody has drawn
    used,        \* keys somebody has drawn
    registered   \* the scheduler's nodes

accessVars == <<seed, creds, old, job, drawn, used, registered>>

\* Device: the certificate's node, the key, the rune; how they came about.
Device(n, k, r, o) == [node |-> n, key |-> k, rune |-> r, origin |-> o]
Idle == [cmd |-> "none", pc |-> "idle", node |-> None, key |-> None, device |-> None]

IsDevice(c) ==
    /\ c.node \in Nodes
    /\ c.key \in Keys
    /\ c.rune.issuer \in Nodes
    /\ c.origin \in {"csr", "serverkey", "upgraded", "paired"}

IsJob(j) ==
    /\ j.cmd \in {"none", "register", "recover", "init", "upgrade", "pair"}
    /\ j.pc \in {"idle", "seed", "call", "save", "write", "qr", "wait"}
    /\ j.pc = "idle" <=> j = Idle
    /\ j.pc \in {"seed", "call"} => j.node \in Nodes
    /\ j.pc \in {"qr", "wait"} => j.key \in Keys
    /\ j.pc \in {"save", "write"} => IsDevice(j.device)

AccessTypeOK ==
    /\ seed \in [Dirs -> Nodes \cup {None, Torn}]
    /\ \A d \in Dirs : creds[d] \in {None, Torn} \/ IsDevice(creds[d])
    /\ old \in [OldDirs -> [node : Nodes, key : Keys]]
    /\ \A d \in Dirs : IsJob(job[d])
    /\ drawn \in SUBSET Nodes /\ used \in SUBSET Keys /\ registered \in SUBSET Nodes

AccessInit ==
    /\ old \in [OldDirs -> [node : Nodes, key : Keys]]
    /\ \A d, e \in OldDirs : d # e => old[d].node # old[e].node /\ old[d].key # old[e].key
    /\ seed = [d \in Dirs |-> IF d \in OldDirs THEN old[d].node ELSE None]
    /\ creds = [d \in Dirs |-> None]
    /\ job = [d \in Dirs |-> Idle]
    /\ drawn = {old[d].node : d \in OldDirs}
    /\ used = {old[d].key : d \in OldDirs}
    /\ registered = {old[d].node : d \in OldDirs}

-----------------------------------------------------------------------------

Fresh == Keys \ used

\* A command starts in an idle directory.
Starts(d, j) == job[d].pc = "idle" /\ job' = [job EXCEPT ![d] = j]

Job(cmd, pc, n) == [Idle EXCEPT !.cmd = cmd, !.pc = pc, !.node = n]

\* write_seed creates the file, so that it is empty until it is filled.
CreateSeed(d, n) == seed' = [seed EXCEPT ![d] = Torn] /\ drawn' = drawn \cup {n}

\* Mutant of Register: draws a new seed although there is one.
RegisterAnew(d) ==
    /\ \E n \in Nodes \ drawn : CreateSeed(d, n) /\ Starts(d, Job("register", "seed", n))
    /\ UNCHANGED <<creds, old, used, registered>>

\* Mutant of Register: registers first and writes the seed with the credentials.
RegisterBeforeSaving(d) ==
    /\ seed[d] = None
    /\ \E n \in Nodes \ drawn :
          Starts(d, Job("register", "call", n)) /\ drawn' = drawn \cup {n}
    /\ UNCHANGED <<seed, creds, old, used, registered>>

(***************************************************************************)
(* register_handler: takes the seed of the directory, or draws one and     *)
(* writes it before anybody hears of it.  A torn seed is shorter than the  *)
(* 32 bytes Signer::new copies, which panics: the command ends there.      *)
(***************************************************************************)
Register(d) ==
    /\ \/ /\ seed[d] \in Nodes
          /\ Starts(d, Job("register", "call", seed[d]))
          /\ UNCHANGED <<seed, drawn>>
       \/ /\ seed[d] = None
          /\ \E n \in Nodes \ drawn :
                CreateSeed(d, n) /\ Starts(d, Job("register", "seed", n))
    /\ UNCHANGED <<creds, old, used, registered>>

(***************************************************************************)
(* init_handler: a new seed, or the one of the words its owner kept, and   *)
(* never over a seed file.                                                 *)
(***************************************************************************)
InitNode(d, n) ==
    /\ seed[d] = None
    /\ CreateSeed(d, n)
    /\ Starts(d, Job("init", "seed", n))
    /\ UNCHANGED <<creds, old, used, registered>>

\* write_seed fills the file and syncs it.
WriteSeed(d) ==
    /\ job[d].pc = "seed"
    /\ seed' = [seed EXCEPT ![d] = job[d].node]
    /\ job' = [job EXCEPT ![d] = IF @.cmd = "init" THEN Idle ELSE [@ EXCEPT !.pc = "call"]]
    /\ UNCHANGED <<creds, old, drawn, used, registered>>

\* Mutant of Recover: does not look whether there is a seed to recover.
RecoverAnyhow(d) ==
    /\ Starts(d, Job("recover", "call", seed[d]))
    /\ UNCHANGED <<seed, creds, old, drawn, used, registered>>

\* recover_handler
Recover(d) ==
    /\ seed[d] \in Nodes
    /\ Starts(d, Job("recover", "call", seed[d]))
    /\ UNCHANGED <<seed, creds, old, drawn, used, registered>>

-----------------------------------------------------------------------------

\* Mutant of Answers: the rune is bound to the node id, as upgrade does it.
AnswersBoundToNode(n, k) == {Device(n, k, NewRune(n, {BoundTo(n)}), "csr")}

(***************************************************************************)
(* What inner_register and recover can make of the scheduler's answer, k   *)
(* being the key of the request: the signed certificate goes with that     *)
(* key; a scheduler that sends a device key has its key used instead.  The *)
(* rune is bound to k either way.                                          *)
(***************************************************************************)
Answers(n, k) ==
    LET rune == NewRune(n, {BoundTo(k)})
    IN  {Device(n, k, rune, "csr")} \cup
        {Device(n, s, rune, "serverkey") : s \in Fresh \ {k}}

\* The command has its answer.
Answered(d) ==
    \E k \in Fresh : \E device \in Answers(job[d].node, k) :
        /\ job' = [job EXCEPT ![d].pc = "save", ![d].device = device]
        /\ used' = used \cup {k, device.key}

\* inner_register up to the answer: the scheduler registers a node once.
RegisterCall(d) ==
    /\ job[d].pc = "call" /\ job[d].cmd = "register"
    /\ job[d].node \notin registered
    /\ Answered(d)
    /\ registered' = registered \cup {job[d].node}
    /\ UNCHANGED <<seed, creds, old, drawn>>

\* recover up to the answer: the scheduler answers for any node.
RecoverCall(d) ==
    /\ job[d].pc = "call" /\ job[d].cmd = "recover"
    /\ Answered(d)
    /\ UNCHANGED <<seed, creds, old, drawn, registered>>

\* Device::upgrade: the missing rune is bound to the certificate's node id.
Upgraded(n, o) == Device(o.node, o.key, NewRune(n, {BoundTo(o.node)}), "upgraded")

\* upgrade_credentials_handler
Upgrade(d) ==
    /\ d \in OldDirs /\ seed[d] \in Nodes
    /\ Starts(d, [Job("upgrade", "save", seed[d]) EXCEPT !.device = Upgraded(seed[d], old[d])])
    /\ UNCHANGED <<seed, creds, old, drawn, used, registered>>

\* write_credentials truncates the file ...
CreateCreds(d) ==
    /\ job[d].pc = "save"
    /\ creds' = [creds EXCEPT ![d] = Torn]
    /\ job' = [job EXCEPT ![d].pc = "write"]
    /\ UNCHANGED <<seed, old, drawn, used, registered>>

\* ... and fills it.
WriteCreds(d) ==
    /\ job[d].pc = "write"
    /\ creds' = [creds EXCEPT ![d] = job[d].device]
    /\ job' = [job EXCEPT ![d] = Idle]
    /\ UNCHANGED <<seed, old, drawn, used, registered>>

\* The command fails or its process dies: an answer it waits for, or has, is lost.
Dies(d) ==
    /\ job[d].pc # "idle"
    /\ job' = [job EXCEPT ![d] = Idle]
    /\ UNCHANGED <<seed, creds, old, drawn, used, registered>>

AccessStep(d) ==
    \/ Register(d) \/ WriteSeed(d) \/ Recover(d) \/ Upgrade(d)
    \/ \E n \in Nodes : InitNode(d, n)
    \/ RegisterCall(d) \/ RecoverCall(d) \/ CreateCreds(d) \/ WriteCreds(d) \/ Dies(d)

=============================================================================
