--------------------------- MODULE PairingProofs ---------------------------
(***************************************************************************)
(* Proofs about seeds, credentials and runes, for any number of data       *)
(* directories, nodes, keys and methods and any restrictions asked for:    *)
(* crashes lose no seed and mix up no credentials, a paired device was     *)
(* approved for what its rune says, and runes grant what they should.      *)
(***************************************************************************)
EXTENDS Pairing, TLAPS

Fields == {"cmd", "pc", "node", "key", "device"}

(***************************************************************************)
(* What makes a device's credentials good, A being the approvals sent: the *)
(* rune names a key; that of a certificate request is bound to the         *)
(* device's own key, and that of a pairing is what was approved for it.    *)
(***************************************************************************)
Vouched(a) == Verified(a.node, ApproveCall(a)) /\ NamesPubkey(a.restrs)

ApprovedFor(c, A) ==
    \E a \in A : /\ a.device = c.key /\ a.node = c.node
                 /\ c.rune = NewRune(a.node, a.restrs) /\ Vouched(a)

DeviceFits(c, A) ==
    /\ IsDevice(c)
    /\ c.rune = NewRune(c.rune.issuer, c.rune.restrs) /\ NamesPubkey(c.rune.restrs)
    /\ c.origin = "csr" => c.rune = NewRune(c.node, {BoundTo(c.key)})
    /\ c.origin = "paired" => ApprovedFor(c, A)

\* Credentials go with the seed s beside them, but for those of a pairing.
OfSeed(c, s) == c.origin # "paired" => c.node = s

\* Seeds are written once, before the scheduler hears of their node.
SeedsFit ==
    /\ seed \in [Dirs -> Nodes \cup {None, Torn}]
    /\ old \in [OldDirs -> [node : Nodes, key : Keys]]
    /\ drawn \in SUBSET Nodes /\ used \in SUBSET Keys /\ registered \in SUBSET Nodes
    /\ \A d \in OldDirs : seed[d] = old[d].node
    /\ SeedKept

\* A command works for the seed s of its directory, or is about to write it.
JobFits(j, s, U, A) ==
    /\ IsJob(j) /\ j = [f \in Fields |-> j[f]]
    /\ j.pc = "seed" => s = Torn
    /\ j.pc = "call" => s = j.node
    /\ j.pc \in {"qr", "wait"} => j.key \in U
    /\ j.pc \in {"save", "write"} => DeviceFits(j.device, A) /\ OfSeed(j.device, s)

JobsFit ==
    /\ job = [d \in Dirs |-> job[d]]
    /\ \A d \in Dirs : JobFits(job[d], seed[d], used, approved)

\* A credentials file c beside the seed s.
FileFits(c, s, A) == c \in {None, Torn} \/ (DeviceFits(c, A) /\ OfSeed(c, s))

CredsFit ==
    /\ creds = [d \in Dirs |-> creds[d]]
    /\ \A d \in Dirs : FileFits(creds[d], seed[d], approved)

\* A session is of one key, and is made once.
SessionsFit ==
    /\ sessions = [k \in Keys |-> sessions[k]]
    /\ \A k \in Keys : sessions[k] # None => k \in used
    /\ \A d \in Dirs : job[d].pc = "qr" => sessions[job[d].key] = None
    /\ \A d, e \in Dirs :
          job[d].pc = "qr" /\ job[e].pc = "qr" /\ job[d].key = job[e].key => d = e

\* An approval for the session texts of its device.
ApprovalFits(a, texts) ==
    /\ IsApproval(a)
    /\ texts # None /\ a.restrs = texts
    /\ BoundTo(a.device) \in a.restrs

ApprovalsFit ==
    /\ approvals \subseteq approved
    /\ \A a \in approved : ApprovalFits(a, sessions[a.device])
    /\ \A b \in answers : \E a \in approved :
          b.device = a.device /\ b.rune = NewRune(a.node, a.restrs) /\ Vouched(a)

PairingInv == SeedsFit /\ JobsFit /\ CredsFit /\ SessionsFit /\ ApprovalsFit

-----------------------------------------------------------------------------
(* What is left alone                                                      *)

LEMMA ApprovedStays ==
    ASSUME NEW A, NEW B, A \subseteq B, NEW c, DeviceFits(c, A)
    PROVE  DeviceFits(c, B)
  BY DEF DeviceFits, ApprovedFor

LEMMA JobStays ==
    ASSUME NEW A, NEW B, A \subseteq B, NEW U, NEW V, U \subseteq V,
           NEW j, NEW s, JobFits(j, s, U, A)
    PROVE  JobFits(j, s, V, B)
  BY ApprovedStays DEF JobFits

LEMMA FileStays ==
    ASSUME NEW A, NEW B, A \subseteq B, NEW c, NEW s, NEW t, FileFits(c, s, A),
           s \in Nodes => t = s
    PROVE  FileFits(c, t, B)
<1> QED
  BY ApprovedStays DEF FileFits, OfSeed, DeviceFits, IsDevice

LEMMA ApprovalsUntouched ==
    ASSUME ApprovalsFit, UNCHANGED pairingVars
    PROVE  ApprovalsFit'
  BY DEF ApprovalsFit, pairingVars

\* One command goes on; the others and the files are as they were.
LEMMA JobChanges ==
    ASSUME JobsFit, NEW d \in Dirs, NEW j, job' = [job EXCEPT ![d] = j],
           approved \subseteq approved', used \subseteq used',
           \A e \in Dirs \ {d} : seed'[e] = seed[e],
           JobFits(j, seed'[d], used', approved')
    PROVE  JobsFit'
<1>1. job' = [e \in Dirs |-> job'[e]] /\ \A e \in Dirs : job'[e] = IF e = d THEN j ELSE job[e]
  BY DEF JobsFit
<1>2. ASSUME NEW e \in Dirs
      PROVE  JobFits(job'[e], seed'[e], used', approved')
  <2>1. CASE e = d
    BY <1>1, <2>1
  <2>2. CASE e # d
    <3>1. job'[e] = job[e] /\ seed'[e] = seed[e] /\ JobFits(job[e], seed[e], used, approved)
      BY <1>1, <2>2 DEF JobsFit
    <3> QED
      BY <3>1, JobStays
  <2> QED
    BY <2>1, <2>2
<1> QED
  BY <1>1, <1>2 DEF JobsFit

LEMMA CredsUntouched ==
    ASSUME CredsFit, UNCHANGED creds, approved \subseteq approved',
           \A d \in Dirs : seed[d] \in Nodes => seed'[d] = seed[d]
    PROVE  CredsFit'
<1>1. ASSUME NEW d \in Dirs
      PROVE  FileFits(creds[d], seed'[d], approved')
  <2>1. FileFits(creds[d], seed[d], approved)
    BY DEF CredsFit
  <2> QED
    BY <2>1, FileStays
<1> QED
  BY <1>1 DEF CredsFit

\* A command that is at no QR code leaves the sessions alone.
LEMMA SessionsUntouched ==
    ASSUME SessionsFit, JobsFit, UNCHANGED sessions, used \subseteq used',
           NEW d \in Dirs, NEW j, job' = [job EXCEPT ![d] = j], j.pc # "qr"
    PROVE  SessionsFit'
<1>1. \A e \in Dirs : job'[e] = IF e = d THEN j ELSE job[e]
  BY DEF JobsFit
<1> QED
  BY <1>1 DEF SessionsFit

-----------------------------------------------------------------------------
(* The beginning                                                           *)

LEMMA PairingInvInit == Init => PairingInv
<1> SUFFICES ASSUME Init PROVE PairingInv
  OBVIOUS
<1> USE DEF Init, AccessInit
<1>1. SeedsFit
  BY FilesAssumption, OldDirsAssumption DEF SeedsFit, SeedKept
<1>2. JobsFit
  BY DEF JobsFit, JobFits, IsJob, Idle, Fields
<1>3. CredsFit
  BY DEF CredsFit, FileFits
<1>4. SessionsFit
  BY DEF SessionsFit, Idle
<1>5. ApprovalsFit
  BY DEF ApprovalsFit
<1> QED
  BY <1>1, <1>2, <1>3, <1>4, <1>5 DEF PairingInv

-----------------------------------------------------------------------------
(* Commands                                                                *)

\* The device a command makes does not matter to what makes a job.
LEMMA JobParts ==
    ASSUME NEW cmd, NEW pc, NEW n
    PROVE  /\ Job(cmd, pc, n) = [Job(cmd, pc, n) EXCEPT !.cmd = cmd]
           /\ Job(cmd, pc, n).cmd = cmd /\ Job(cmd, pc, n).pc = pc
           /\ Job(cmd, pc, n).node = n
           /\ Job(cmd, pc, n) = [f \in Fields |-> Job(cmd, pc, n)[f]]
  BY DEF Job, Idle, Fields

LEMMA SeedJobFits ==
    ASSUME NEW cmd \in {"register", "init"}, NEW n \in Nodes, NEW U, NEW A
    PROVE  JobFits(Job(cmd, "seed", n), Torn, U, A)
<1> DEFINE j == Job(cmd, "seed", n)
<1>1. /\ j.cmd = cmd /\ j.pc = "seed" /\ j.node = n /\ j = [f \in Fields |-> j[f]]
      /\ Idle.pc = "idle"
  BY JobParts DEF Idle
<1> HIDE DEF j
<1>2. IsJob(j)
  BY <1>1 DEF IsJob
<1>3. JobFits(j, Torn, U, A)
  BY <1>1, <1>2 DEF JobFits
<1> QED
  BY <1>3 DEF j

LEMMA IdleFits ==
    ASSUME NEW s, NEW U, NEW A
    PROVE  JobFits(Idle, s, U, A)
  BY DEF JobFits, IsJob, Idle, Fields

\* A command's step that touches nothing but the command.
LEMMA JobOnly ==
    ASSUME PairingInv, NEW d \in Dirs, NEW j, job' = [job EXCEPT ![d] = j],
           UNCHANGED <<seed, creds, old, drawn, used, registered, pairingVars>>,
           JobFits(j, seed[d], used, approved), j.pc # "qr"
    PROVE  PairingInv'
<1> USE DEF PairingInv, pairingVars
<1>1. SeedsFit'
  BY DEF SeedsFit, SeedKept
<1>2. JobsFit'
  BY JobChanges
<1>3. CredsFit'
  BY CredsUntouched
<1>4. SessionsFit'
  BY SessionsUntouched
<1>5. ApprovalsFit'
  BY ApprovalsUntouched
<1> QED
  BY <1>1, <1>2, <1>3, <1>4, <1>5

\* A command's first step: the seed file is there, and empty.
LEMMA SeedCreated ==
    ASSUME PairingInv, NEW d \in Dirs, seed[d] = None, NEW n \in Nodes, CreateSeed(d, n),
           NEW cmd \in {"register", "init"}, Starts(d, Job(cmd, "seed", n)),
           UNCHANGED <<creds, old, used, registered, pairingVars>>
    PROVE  PairingInv'
<1> USE DEF PairingInv, pairingVars, CreateSeed, Starts
<1>1. SeedsFit'
  BY FilesAssumption, OldDirsAssumption DEF SeedsFit, SeedKept
<1>2. /\ \A e \in Dirs \ {d} : seed'[e] = seed[e]
      /\ seed'[d] = Torn
      /\ \A e \in Dirs : seed[e] \in Nodes => seed'[e] = seed[e]
  BY FilesAssumption DEF SeedsFit
<1>3. JobFits(Job(cmd, "seed", n), Torn, used', approved')
  BY SeedJobFits
<1>4. JobsFit'
  BY <1>2, <1>3, JobChanges
<1>5. CredsFit'
  BY <1>2, CredsUntouched
<1>6. SessionsFit'
  <2>1. Job(cmd, "seed", n).pc # "qr"
    BY JobParts
  <2> QED
    BY <2>1, SessionsUntouched
<1>7. ApprovalsFit'
  BY ApprovalsUntouched
<1> QED
  BY <1>1, <1>4, <1>5, <1>6, <1>7

LEMMA RegisterKeeps ==
    ASSUME PairingInv, NEW d \in Dirs, Register(d), UNCHANGED pairingVars
    PROVE  PairingInv'
<1>1. CASE seed[d] \in Nodes /\ Starts(d, Job("register", "call", seed[d])) /\ UNCHANGED <<seed, drawn>>
  <2>1. JobFits(Job("register", "call", seed[d]), seed[d], used, approved)
    BY <1>1, JobParts DEF JobFits, IsJob, Idle
  <2>2. Job("register", "call", seed[d]).pc # "qr"
    BY JobParts
  <2>3. /\ job' = [job EXCEPT ![d] = Job("register", "call", seed[d])]
        /\ UNCHANGED <<seed, creds, old, drawn, used, registered, pairingVars>>
    BY <1>1 DEF Register, Starts
  <2> QED
    BY <2>1, <2>2, <2>3, JobOnly
<1>2. CASE /\ seed[d] = None
           /\ \E n \in Nodes \ drawn :
                 CreateSeed(d, n) /\ Starts(d, Job("register", "seed", n))
  BY <1>2, SeedCreated DEF Register
<1> QED
  BY <1>1, <1>2 DEF Register

LEMMA InitNodeKeeps ==
    ASSUME PairingInv, NEW d \in Dirs, NEW n \in Nodes, InitNode(d, n), UNCHANGED pairingVars
    PROVE  PairingInv'
  BY SeedCreated DEF InitNode

LEMMA RecoverKeeps ==
    ASSUME PairingInv, NEW d \in Dirs, Recover(d), UNCHANGED pairingVars
    PROVE  PairingInv'
<1>1. JobFits(Job("recover", "call", seed[d]), seed[d], used, approved)
  BY JobParts DEF Recover, JobFits, IsJob, Idle
<1>2. Job("recover", "call", seed[d]).pc # "qr"
  BY JobParts
<1>3. /\ job' = [job EXCEPT ![d] = Job("recover", "call", seed[d])]
      /\ UNCHANGED <<seed, creds, old, drawn, used, registered, pairingVars>>
  BY DEF Recover, Starts
<1> QED
  BY <1>1, <1>2, <1>3, JobOnly

LEMMA DiesKeeps ==
    ASSUME PairingInv, NEW d \in Dirs, Dies(d), UNCHANGED pairingVars
    PROVE  PairingInv'
<1>1. Idle.pc # "qr" /\ JobFits(Idle, seed[d], used, approved)
  BY IdleFits DEF Idle
<1>2. /\ job' = [job EXCEPT ![d] = Idle]
      /\ UNCHANGED <<seed, creds, old, drawn, used, registered, pairingVars>>
  BY DEF Dies
<1> QED
  BY <1>1, <1>2, JobOnly

LEMMA WriteSeedKeeps ==
    ASSUME PairingInv, NEW d \in Dirs, WriteSeed(d), UNCHANGED pairingVars
    PROVE  PairingInv'
<1> DEFINE j == IF job[d].cmd = "init" THEN Idle ELSE [job[d] EXCEPT !.pc = "call"]
<1> USE DEF PairingInv, pairingVars
<1>1. JobFits(job[d], seed[d], used, approved) /\ job[d].pc = "seed" /\ seed[d] = Torn
      /\ job[d].node \in Nodes
  BY DEF WriteSeed, JobsFit, JobFits, IsJob
<1>2. /\ \A e \in Dirs \ {d} : seed'[e] = seed[e]
      /\ seed'[d] = job[d].node
      /\ \A e \in Dirs : seed[e] \in Nodes => seed'[e] = seed[e]
  BY <1>1, FilesAssumption DEF SeedsFit, WriteSeed
<1>3. SeedsFit'
  BY <1>1, <1>2, FilesAssumption, OldDirsAssumption DEF SeedsFit, SeedKept, WriteSeed
<1>4. JobFits(j, job[d].node, used, approved)
  <2>1. CASE job[d].cmd = "init"
    BY <2>1, IdleFits
  <2>2. CASE job[d].cmd # "init"
    BY <1>1, <2>2 DEF JobFits, IsJob, Idle, Fields
  <2> QED
    BY <2>1, <2>2
<1>5. job' = [job EXCEPT ![d] = j] /\ UNCHANGED <<creds, old, drawn, used, registered>>
  BY DEF WriteSeed
<1>6. JobsFit'
  BY <1>2, <1>4, <1>5, JobChanges
<1>7. CredsFit'
  BY <1>2, <1>5, CredsUntouched
<1>8. j.pc # "qr"
  BY <1>1 DEF Idle, JobFits, Fields
<1>9. SessionsFit'
  BY <1>5, <1>8, SessionsUntouched
<1>10. ApprovalsFit'
  BY ApprovalsUntouched
<1> QED
  BY <1>3, <1>6, <1>7, <1>9, <1>10

\* What the scheduler's answer gives is good for the seed that asked.
LEMMA AnswersFit ==
    ASSUME NEW n \in Nodes, NEW k \in Keys, NEW c \in Answers(n, k), NEW A
    PROVE  DeviceFits(c, A) /\ c.node = n /\ c.origin # "paired" /\ c.key \in Keys
<1>1. NamesPubkey({BoundTo(k)})
  BY DEF NamesPubkey, BoundTo, Alternative
<1>2. CASE c = Device(n, k, NewRune(n, {BoundTo(k)}), "csr")
  BY <1>1, <1>2 DEF DeviceFits, Device, NewRune, IsDevice
<1>3. CASE \E s \in Keys : c = Device(n, s, NewRune(n, {BoundTo(k)}), "serverkey")
  BY <1>1, <1>3 DEF DeviceFits, Device, NewRune, IsDevice
<1> QED
  BY <1>2, <1>3 DEF Answers, Fresh

\* The calls of register and recover: the answer arrives, the seed is there.
LEMMA AnsweredKeeps ==
    ASSUME PairingInv, NEW d \in Dirs, job[d].pc = "call", Answered(d),
           registered' \in {registered, registered \cup {job[d].node}},
           UNCHANGED <<seed, creds, old, drawn, pairingVars>>
    PROVE  PairingInv'
<1> USE DEF PairingInv, pairingVars
<1>1. JobFits(job[d], seed[d], used, approved) /\ seed[d] = job[d].node /\ job[d].node \in Nodes
  BY DEF JobsFit, JobFits, IsJob
<1>0. PICK k \in Keys : \E device \in Answers(job[d].node, k) :
         /\ job' = [job EXCEPT ![d].pc = "save", ![d].device = device]
         /\ used' = used \cup {k, device.key}
  BY DEF Answered, Fresh
<1>2. PICK device \in Answers(job[d].node, k) :
         /\ job' = [job EXCEPT ![d].pc = "save", ![d].device = device]
         /\ used' = used \cup {k, device.key}
  BY <1>0
<1>3. /\ DeviceFits(device, approved) /\ device.node = seed[d]
      /\ device.origin # "paired" /\ device.key \in Keys
  BY <1>1, AnswersFit
<1> DEFINE j == [job[d] EXCEPT !.pc = "save", !.device = device]
<1>4. SeedsFit'
  BY <1>1, <1>2, <1>3 DEF SeedsFit, SeedKept
<1>5. job' = [job EXCEPT ![d] = j]
  BY <1>2 DEF JobsFit
<1>6. JobFits(j, seed[d], used', approved) /\ j.pc # "qr"
  BY <1>1, <1>3 DEF JobFits, IsJob, Idle, Fields, DeviceFits, OfSeed
<1> HIDE DEF j
<1>7. JobsFit'
  BY <1>2, <1>5, <1>6, JobChanges
<1>8. CredsFit'
  BY CredsUntouched
<1>9. SessionsFit'
  BY <1>2, <1>5, <1>6, SessionsUntouched
<1>10. ApprovalsFit'
  BY ApprovalsUntouched
<1> QED
  BY <1>4, <1>7, <1>8, <1>9, <1>10

LEMMA UpgradeKeeps ==
    ASSUME PairingInv, NEW d \in Dirs, Upgrade(d), UNCHANGED pairingVars
    PROVE  PairingInv'
<1> DEFINE c == Upgraded(seed[d], old[d])
           j == [Job("upgrade", "save", seed[d]) EXCEPT !.device = c]
<1>1. /\ old[d].node = seed[d] /\ old[d].node \in Nodes /\ old[d].key \in Keys
  BY DEF Upgrade, PairingInv, SeedsFit
<1>2. NamesPubkey({BoundTo(old[d].node)})
  BY DEF NamesPubkey, BoundTo, Alternative
<1>3. DeviceFits(c, approved) /\ OfSeed(c, seed[d])
  BY <1>1, <1>2 DEF DeviceFits, OfSeed, Upgraded, Device, NewRune, IsDevice
<1> HIDE DEF c
<1>4. JobFits(j, seed[d], used, approved) /\ j.pc # "qr"
  BY <1>3 DEF JobFits, IsJob, Job, Idle, Fields, DeviceFits
<1>5. /\ job' = [job EXCEPT ![d] = j]
      /\ UNCHANGED <<seed, creds, old, drawn, used, registered, pairingVars>>
  BY DEF Upgrade, Starts, c
<1> HIDE DEF j
<1> QED
  BY <1>4, <1>5, JobOnly

\* A step that writes the credentials file of one directory.
LEMMA FileWritten ==
    ASSUME PairingInv, NEW d \in Dirs, NEW j, job' = [job EXCEPT ![d] = j],
           NEW c, creds' = [creds EXCEPT ![d] = c], FileFits(c, seed[d], approved),
           UNCHANGED <<seed, old, drawn, used, registered, pairingVars>>,
           JobFits(j, seed[d], used, approved), j.pc # "qr"
    PROVE  PairingInv'
<1> USE DEF PairingInv, pairingVars
<1>1. SeedsFit'
  BY DEF SeedsFit, SeedKept
<1>2. JobsFit'
  BY JobChanges
<1>3. CredsFit'
  BY DEF CredsFit
<1>4. SessionsFit'
  BY SessionsUntouched
<1>5. ApprovalsFit'
  BY ApprovalsUntouched
<1> QED
  BY <1>1, <1>2, <1>3, <1>4, <1>5

LEMMA CreateCredsKeeps ==
    ASSUME PairingInv, NEW d \in Dirs, CreateCreds(d), UNCHANGED pairingVars
    PROVE  PairingInv'
<1> DEFINE j == [job[d] EXCEPT !.pc = "write"]
<1>1. JobFits(job[d], seed[d], used, approved) /\ job[d].pc = "save"
  BY DEF PairingInv, JobsFit, CreateCreds
<1>2. JobFits(j, seed[d], used, approved) /\ j.pc # "qr"
  BY <1>1 DEF JobFits, IsJob, Idle, Fields
<1>3. /\ job' = [job EXCEPT ![d] = j] /\ creds' = [creds EXCEPT ![d] = Torn]
      /\ UNCHANGED <<seed, old, drawn, used, registered, pairingVars>>
  BY DEF CreateCreds
<1>4. FileFits(Torn, seed[d], approved)
  BY DEF FileFits
<1> HIDE DEF j
<1> QED
  BY <1>2, <1>3, <1>4, FileWritten

LEMMA WriteCredsKeeps ==
    ASSUME PairingInv, NEW d \in Dirs, WriteCreds(d), UNCHANGED pairingVars
    PROVE  PairingInv'
<1>1. FileFits(job[d].device, seed[d], approved)
  BY DEF PairingInv, JobsFit, WriteCreds, JobFits, FileFits
<1>2. JobFits(Idle, seed[d], used, approved) /\ Idle.pc # "qr"
  BY IdleFits DEF Idle
<1>3. /\ job' = [job EXCEPT ![d] = Idle] /\ creds' = [creds EXCEPT ![d] = job[d].device]
      /\ UNCHANGED <<seed, old, drawn, used, registered, pairingVars>>
  BY DEF WriteCreds
<1> QED
  BY <1>1, <1>2, <1>3, FileWritten

LEMMA AccessStepKeeps ==
    ASSUME PairingInv, NEW d \in Dirs, AccessStep(d), UNCHANGED pairingVars
    PROVE  PairingInv'
<1>1. CASE RegisterCall(d)
  BY <1>1, AnsweredKeeps DEF RegisterCall
<1>2. CASE RecoverCall(d)
  BY <1>2, AnsweredKeeps DEF RecoverCall
<1> QED
  BY <1>1, <1>2, RegisterKeeps, WriteSeedKeeps, RecoverKeeps, UpgradeKeeps, InitNodeKeeps,
     CreateCredsKeeps, WriteCredsKeeps, DiesKeeps DEF AccessStep

-----------------------------------------------------------------------------
(* Pairing                                                                 *)

LEMMA PairDeviceKeeps ==
    ASSUME PairingInv, NEW d \in Dirs, PairDevice(d)
    PROVE  PairingInv'
<1> USE DEF PairingInv, pairingVars
<1>1. PICK k \in Fresh :
         /\ Starts(d, [Job("pair", "qr", None) EXCEPT !.key = k])
         /\ used' = used \cup {k}
  BY DEF PairDevice
<1> DEFINE j == [Job("pair", "qr", None) EXCEPT !.key = k]
<1>2. /\ k \in Keys /\ k \notin used
      /\ job' = [job EXCEPT ![d] = j]
      /\ UNCHANGED <<seed, creds, old, drawn, registered, pairingVars>>
  BY <1>1 DEF Fresh, Starts, PairDevice
<1>3. /\ JobFits(j, seed[d], used', approved)
      /\ j.pc = "qr" /\ j.key = k
  BY <1>1, <1>2 DEF JobFits, IsJob, Job, Idle, Fields
<1> HIDE DEF j
<1>4. SeedsFit'
  BY <1>1, <1>2 DEF SeedsFit, SeedKept
<1>5. JobsFit'
  BY <1>1, <1>2, <1>3, JobChanges
<1>6. CredsFit'
  BY <1>2, CredsUntouched
<1>7. \A e \in Dirs : /\ job'[e] = IF e = d THEN j ELSE job[e]
                      /\ job[e].pc = "qr" => job[e].key \in used
  BY <1>2 DEF JobsFit, JobFits
<1>8. SessionsFit'
  BY <1>1, <1>2, <1>3, <1>7 DEF SessionsFit
<1>9. ApprovalsFit'
  BY <1>2, ApprovalsUntouched
<1> QED
  BY <1>4, <1>5, <1>6, <1>8, <1>9

LEMMA PairRequestKeeps ==
    ASSUME PairingInv, NEW d \in Dirs, NEW texts, PairRequest(d, texts)
    PROVE  PairingInv'
<1> USE DEF PairingInv, pairingVars
<1> DEFINE j == [job[d] EXCEPT !.pc = "wait"]
           k == job[d].key
<1>1. /\ job[d].pc = "qr" /\ JobFits(job[d], seed[d], used, approved)
      /\ k \in Keys /\ k \in used /\ sessions[k] = None
  BY DEF PairRequest, JobsFit, JobFits, IsJob, SessionsFit
<1>2. /\ job' = [job EXCEPT ![d] = j]
      /\ sessions' = [sessions EXCEPT ![k] = SessionTexts(k, texts)]
      /\ UNCHANGED <<seed, creds, old, drawn, used, registered, approvals, approved, answers>>
  BY DEF PairRequest
<1>3. JobFits(j, seed[d], used, approved) /\ j.pc = "wait"
  BY <1>1 DEF JobFits, IsJob, Idle, Fields
<1>4. \A e \in Dirs : job[e].pc = "qr" /\ job[e].key = k => e = d
  BY <1>1 DEF SessionsFit
<1>5. \A e \in Keys : sessions'[e] = IF e = k THEN SessionTexts(k, texts) ELSE sessions[e]
  BY <1>2 DEF SessionsFit
<1>6. \A e \in Dirs : job[e].pc = "qr" => job[e].key \in Keys
  BY DEF JobsFit, JobFits, IsJob
<1> HIDE DEF j, k
<1>7. SeedsFit'
  BY <1>2 DEF SeedsFit, SeedKept
<1>8. JobsFit'
  BY <1>2, <1>3, JobChanges
<1>9. CredsFit'
  BY <1>2, CredsUntouched
<1>10. \A e \in Dirs : job'[e] = IF e = d THEN j ELSE job[e]
  BY <1>2 DEF JobsFit
<1>11. SessionsFit'
  <2>1. sessions' = [e \in Keys |-> sessions'[e]]
    BY <1>2 DEF SessionsFit
  <2>2. \A e \in Keys : sessions'[e] # None => e \in used'
    BY <1>1, <1>2, <1>5 DEF SessionsFit, k
  <2>3. \A e \in Dirs : job'[e].pc = "qr" => job[e].pc = "qr" /\ job'[e] = job[e] /\ e # d
    BY <1>3, <1>10
  <2>4. \A e \in Dirs : job'[e].pc = "qr" => sessions'[job'[e].key] = None
    BY <2>3, <1>4, <1>5, <1>6 DEF SessionsFit
  <2> QED
    BY <2>1, <2>2, <2>3, <2>4 DEF SessionsFit
<1>12. ApprovalsFit'
  <2>1. ASSUME NEW a \in approved
        PROVE  ApprovalFits(a, sessions'[a.device])
    <3>1. ApprovalFits(a, sessions[a.device])
      BY DEF ApprovalsFit
    <3>2. a.device \in Keys /\ a.device # k
      BY <3>1, <1>1 DEF ApprovalFits, IsApproval, k
    <3> QED
      BY <3>1, <3>2, <1>5
  <2> QED
    BY <1>2, <2>1 DEF ApprovalsFit
<1> QED
  BY <1>7, <1>8, <1>9, <1>11, <1>12

LEMMA ApproveKeeps ==
    ASSUME PairingInv, NEW d \in Dirs, NEW k \in Keys, Approve(d, k)
    PROVE  PairingInv'
<1> USE DEF PairingInv, accessVars
<1>1. PICK texts \in SessionOf(k) :
         /\ NamesPubkeyOnce(texts, k)
         /\ approvals' = approvals \cup {Approval(creds[d], k, texts)}
         /\ approved' = approved \cup {Approval(creds[d], k, texts)}
  BY DEF Approve
<1>2. IsDevice(creds[d]) /\ UNCHANGED <<accessVars, sessions, answers>>
  BY DEF Approve, IsSaved, CredsFit, FileFits, DeviceFits
<1>3. SeedsFit'
  BY <1>2 DEF SeedsFit, SeedKept
<1>4. JobsFit'
  <2>1. ASSUME NEW e \in Dirs
        PROVE  JobFits(job[e], seed[e], used, approved')
    BY <1>1, JobStays DEF JobsFit
  <2> QED
    BY <1>2, <2>1 DEF JobsFit
<1>5. CredsFit'
  BY <1>1, <1>2, CredsUntouched
<1>6. SessionsFit'
  BY <1>2 DEF SessionsFit
<1>7. ApprovalFits(Approval(creds[d], k, texts), sessions[k])
      /\ Approval(creds[d], k, texts).device = k
  BY <1>1, <1>2 DEF ApprovalFits, Approval, IsApproval, IsDevice, SessionOf, NamesPubkeyOnce
<1>8. ApprovalsFit'
  BY <1>1, <1>2, <1>7 DEF ApprovalsFit
<1> QED
  BY <1>3, <1>4, <1>5, <1>6, <1>8

LEMMA SignerApprovesKeeps ==
    ASSUME PairingInv, NEW a \in approvals, SignerApproves(a)
    PROVE  PairingInv'
<1> USE DEF PairingInv, accessVars
<1>1. UNCHANGED <<accessVars, sessions, approved>>
  BY DEF SignerApproves
<1>2. SeedsFit'
  BY <1>1 DEF SeedsFit, SeedKept
<1>3. JobsFit'
  BY <1>1 DEF JobsFit
<1>4. CredsFit'
  BY <1>1, CredsUntouched
<1>5. SessionsFit'
  BY <1>1 DEF SessionsFit
<1>6. ApprovalsFit'
  <2> DEFINE b == [device |-> a.device, rune |-> NewRune(a.node, a.restrs)]
  <2>1. a \in approved /\ approvals' \subseteq approved
    BY DEF SignerApproves, ApprovalsFit
  <2>2. Accepts(a) => Vouched(a)
    BY DEF Accepts, Creates, Vouched
  <2>3. b.device = a.device /\ b.rune = NewRune(a.node, a.restrs)
    OBVIOUS
  <2>4. answers' = IF Accepts(a) THEN answers \cup {b} ELSE answers
    BY DEF SignerApproves
  <2> HIDE DEF b
  <2> QED
    BY <1>1, <2>1, <2>2, <2>3, <2>4 DEF ApprovalsFit
<1> QED
  BY <1>2, <1>3, <1>4, <1>5, <1>6

LEMMA PairReplyKeeps ==
    ASSUME PairingInv, NEW d \in Dirs, PairReply(d)
    PROVE  PairingInv'
<1> USE DEF PairingInv
<1>1. PICK b \in answers :
         /\ b.device = job[d].key
         /\ job' = [job EXCEPT ![d].pc = "save",
                       ![d].device = Device(b.rune.issuer, b.device, b.rune, "paired")]
  BY DEF PairReply
<1>2. PICK a \in approved :
         b.device = a.device /\ b.rune = NewRune(a.node, a.restrs) /\ Vouched(a)
  BY DEF ApprovalsFit
<1>3. IsApproval(a)
  BY DEF ApprovalsFit, ApprovalFits
<1> DEFINE c == Device(b.rune.issuer, b.device, b.rune, "paired")
           j == [job[d] EXCEPT !.pc = "save", !.device = c]
<1>4. /\ c.node = a.node /\ c.key = a.device /\ c.rune = NewRune(a.node, a.restrs)
      /\ c.rune.restrs = a.restrs /\ c.rune.issuer = a.node /\ c.origin = "paired"
  BY <1>2 DEF Device, NewRune
<1>5. IsDevice(c)
  BY <1>3, <1>4 DEF IsApproval, IsDevice
<1>6. DeviceFits(c, approved) /\ OfSeed(c, seed[d])
  BY <1>2, <1>4, <1>5 DEF DeviceFits, ApprovedFor, OfSeed, Vouched
<1>7. JobFits(job[d], seed[d], used, approved)
  BY DEF JobsFit
<1> HIDE DEF c
<1>8. JobFits(j, seed[d], used, approved) /\ j.pc # "qr"
  BY <1>5, <1>6, <1>7 DEF JobFits, IsJob, Idle, Fields
<1>9. /\ job' = [job EXCEPT ![d] = j]
      /\ UNCHANGED <<seed, creds, old, drawn, used, registered, pairingVars>>
  BY <1>1 DEF PairReply, JobsFit, c
<1> HIDE DEF j
<1> QED
  BY <1>8, <1>9, JobOnly

LEMMA PairingInvNext ==
    ASSUME PairingInv, [Next]_<<accessVars, pairingVars>>
    PROVE  PairingInv'
<1>1. CASE UNCHANGED <<accessVars, pairingVars>>
  BY <1>1 DEF accessVars, pairingVars, PairingInv, SeedsFit, SeedKept, JobsFit, CredsFit,
              SessionsFit, ApprovalsFit
<1>2. CASE Next
  BY <1>2, AccessStepKeeps, PairDeviceKeeps, PairRequestKeeps, ApproveKeeps, PairReplyKeeps,
     SignerApprovesKeeps DEF Next
<1> QED
  BY <1>1, <1>2

LEMMA PairingInvHolds == Spec => []PairingInv
<1>1. PairingInv /\ [Next]_<<accessVars, pairingVars>> => PairingInv'
  BY PairingInvNext
<1> QED
  BY PairingInvInit, <1>1, PTL DEF Spec

-----------------------------------------------------------------------------
(* What follows                                                            *)

(***************************************************************************)
(* Commands, files, sessions and approvals are what their handlers make.   *)
(***************************************************************************)
THEOREM PairingTypeCorrect == Spec => []PairingTypeOK
<1>1. PairingInv => PairingTypeOK
  <2> SUFFICES ASSUME PairingInv PROVE PairingTypeOK
    OBVIOUS
  <2> USE DEF PairingInv
  <2>1. AccessTypeOK
    BY DEF SeedsFit, JobsFit, JobFits, CredsFit, FileFits, DeviceFits, AccessTypeOK
  <2>2. DOMAIN sessions = Keys /\ \A k \in Keys : sessions[k] # None => k \in used
    BY DEF SessionsFit
  <2>3. approvals \subseteq approved /\ \A a \in approved : IsApproval(a)
    BY DEF ApprovalsFit, ApprovalFits
  <2>4. \A b \in answers : b.device \in Keys /\ b.rune.issuer \in Nodes
    <3>1. ASSUME NEW b \in answers, NEW a \in approved,
                 b.device = a.device, b.rune = NewRune(a.node, a.restrs)
          PROVE  b.device \in Keys /\ b.rune.issuer \in Nodes
      BY <2>3, <3>1 DEF IsApproval, NewRune
    <3> QED
      BY <3>1 DEF ApprovalsFit
  <2> QED
    BY <2>1, <2>2, <2>3, <2>4 DEF PairingTypeOK
<1> QED
  BY <1>1, PairingInvHolds, PTL

(***************************************************************************)
(* register_handler: the seed of every registered node is on a disk,       *)
(* wherever a command was interrupted.                                     *)
(***************************************************************************)
THEOREM SeedsAreKept == Spec => []SeedKept
<1>1. PairingInv => SeedKept
  BY DEF PairingInv, SeedsFit
<1> QED
  BY <1>1, PairingInvHolds, PTL

(***************************************************************************)
(* write_credentials: no command leaves the credentials of another seed    *)
(* beside a seed, pair-device excepted.                                    *)
(***************************************************************************)
THEOREM CredentialsMatch == Spec => []CredsMatchSeed
<1>1. PairingInv => CredsMatchSeed
  BY DEF PairingInv, CredsFit, FileFits, OfSeed, CredsMatchSeed, IsSaved
<1> QED
  BY <1>1, PairingInvHolds, PTL

(***************************************************************************)
(* process_pairing_approval: a paired device was approved, by a device     *)
(* that may, for what its rune says.                                       *)
(***************************************************************************)
THEOREM PairedWereApproved == Spec => []PairedAsApproved
<1>1. PairingInv => PairedAsApproved
  <2> SUFFICES ASSUME PairingInv, NEW d \in Dirs, IsSaved(d), creds[d].origin = "paired"
               PROVE  \E a \in approved :
                         /\ a.device = creds[d].key /\ a.node = creds[d].node
                         /\ a.restrs = creds[d].rune.restrs
                         /\ Verified(a.node, ApproveCall(a))
    BY DEF PairedAsApproved
  <2>1. ApprovedFor(creds[d], approved)
    BY DEF PairingInv, CredsFit, FileFits, IsSaved, DeviceFits
  <2>2. \A a : NewRune(a.node, a.restrs).restrs = a.restrs
    BY DEF NewRune
  <2> QED
    BY <2>1, <2>2 DEF ApprovedFor, Vouched
<1> QED
  BY <1>1, PairingInvHolds, PTL

LEMMA OwnKeyPasses ==
    ASSUME NEW k, NEW m
    PROVE  Satisfies([pubkey |-> k, method |-> m], {BoundTo(k)})
<1>1. Passes([pubkey |-> k, method |-> m], Alternative("pubkey", "=", k))
  BY DEF Passes, Alternative
<1> QED
  BY <1>1 DEF Satisfies, BoundTo

\* What a rune bound to the key k lets through: k's calls, as far as its texts go.
LEMMA BoundRuneGrants ==
    ASSUME NEW n, NEW k \in Keys, NEW texts, NamesPubkey(texts), BoundTo(k) \in texts
    PROVE  Grants(n, NewRune(n, texts), Keys, Methods) =
              {g \in {k} \X Methods :
                  Satisfies([pubkey |-> g[1], method |-> Lower(g[2])], texts)}
<1> DEFINE ctx(g) == [pubkey |-> g[1], method |-> Lower(g[2])]
<1>1. ASSUME NEW g \in Keys \X Methods
      PROVE  /\ Verified(n, CallOf(g[1], NewRune(n, texts), g[2])) <=> Satisfies(ctx(g), texts)
             /\ Satisfies(ctx(g), texts) => g[1] = k
  <2>1. Verified(n, CallOf(g[1], NewRune(n, texts), g[2])) <=> Satisfies(ctx(g), texts)
    BY DEF Verified, CallOf, NewRune, Services
  <2>2. ASSUME Satisfies(ctx(g), texts) PROVE g[1] = k
    <3>1. \E alt \in BoundTo(k) : Passes(ctx(g), alt)
      BY <2>2 DEF Satisfies
    <3>2. Passes(ctx(g), Alternative("pubkey", "=", k))
      BY <3>1 DEF BoundTo
    <3> QED
      BY <3>2 DEF Passes, Alternative
  <2> QED
    BY <2>1, <2>2
<1> HIDE DEF ctx
<1>2. \A g \in Keys \X Methods : g[1] = k => g \in {k} \X Methods
  OBVIOUS
<1>3. \A g \in {k} \X Methods : g \in Keys \X Methods
  OBVIOUS
<1> QED
  BY <1>1, <1>2, <1>3 DEF Grants, ctx

(***************************************************************************)
(* create_rune, verify_rune: with its rune a registered device may call    *)
(* everything and a paired one what its approver was shown, and no other   *)
(* device anything.                                                        *)
(***************************************************************************)
THEOREM RunesFitDevices == Spec => []RuneFitsDevice
<1>1. ASSUME PairingInv, NEW d \in Dirs, IsSaved(d), creds[d].origin \in {"csr", "paired"}
      PROVE  Grants(creds[d].node, creds[d].rune, Keys, Methods) =
               {g \in {creds[d].key} \X Methods :
                   creds[d].origin = "paired" =>
                      Satisfies([pubkey |-> g[1], method |-> Lower(g[2])], sessions[creds[d].key])}
  <2> DEFINE c == creds[d]
  <2>1. DeviceFits(c, approved) /\ c.key \in Keys
    BY <1>1 DEF PairingInv, CredsFit, FileFits, IsSaved, DeviceFits, IsDevice
  <2>2. CASE c.origin = "csr"
    <3>1. c.rune = NewRune(c.node, {BoundTo(c.key)})
      BY <2>1, <2>2 DEF DeviceFits
    <3>2. NamesPubkey({BoundTo(c.key)})
      BY DEF NamesPubkey, BoundTo, Alternative
    <3>3. \A g \in {c.key} \X Methods :
             Satisfies([pubkey |-> g[1], method |-> Lower(g[2])], {BoundTo(c.key)})
      BY OwnKeyPasses
    <3> HIDE DEF c
    <3>4. Grants(c.node, c.rune, Keys, Methods) =
            {g \in {c.key} \X Methods :
               Satisfies([pubkey |-> g[1], method |-> Lower(g[2])], {BoundTo(c.key)})}
      BY <3>1, <3>2, <2>1, BoundRuneGrants
    <3>5. Grants(c.node, c.rune, Keys, Methods) = {c.key} \X Methods
      BY <3>3, <3>4
    <3> QED
      BY <3>5, <2>2 DEF c
  <2>3. CASE c.origin = "paired"
    <3>1. PICK a \in approved : /\ a.device = c.key /\ a.node = c.node
                                /\ c.rune = NewRune(a.node, a.restrs) /\ Vouched(a)
      BY <2>1, <2>3 DEF DeviceFits, ApprovedFor
    <3>2. ApprovalFits(a, sessions[c.key])
      BY <1>1, <3>1 DEF PairingInv, ApprovalsFit
    <3>3. /\ c.rune = NewRune(c.node, sessions[c.key])
          /\ NamesPubkey(sessions[c.key]) /\ BoundTo(c.key) \in sessions[c.key]
      BY <3>1, <3>2 DEF ApprovalFits, Vouched
    <3> HIDE DEF c
    <3>4. Grants(c.node, c.rune, Keys, Methods) =
            {g \in {c.key} \X Methods :
               Satisfies([pubkey |-> g[1], method |-> Lower(g[2])], sessions[c.key])}
      BY <3>3, <2>1, BoundRuneGrants
    <3> QED
      BY <3>4, <2>3 DEF c
  <2> QED
    BY <1>1, <2>2, <2>3
<1>2. PairingInv => RuneFitsDevice
  BY <1>1 DEF RuneFitsDevice
<1> QED
  BY <1>2, PairingInvHolds, PTL

\* More restrictions let less through, when the pubkey is named anyway.
LEMMA AddingNarrows ==
    ASSUME NEW n, NEW r, r = NewRune(r.issuer, r.restrs), NamesPubkey(r.restrs), NEW texts
    PROVE  Grants(n, [r EXCEPT !.restrs = @ \cup texts], Keys, Methods)
              \subseteq Grants(n, r, Keys, Methods)
<1> DEFINE q == [r EXCEPT !.restrs = @ \cup texts]
<1>0. q.issuer = r.issuer /\ r.restrs \subseteq q.restrs
  BY DEF NewRune
<1>1. ASSUME NEW key, NEW m, Verified(n, CallOf(key, q, m))
      PROVE  Verified(n, CallOf(key, r, m))
  BY <1>0, <1>1 DEF Verified, CallOf, Satisfies
<1> HIDE DEF q
<1> QED
  BY <1>1 DEF Grants, q

(***************************************************************************)
(* create_rune, carve: a rune made from the rune of a device never lets    *)
(* anything through that the device's own does not.                        *)
(***************************************************************************)
THEOREM DerivedNeverWider == Spec => []DerivedGrantsLess
<1>1. ASSUME PairingInv, NEW d \in Dirs, IsSaved(d), NEW n, NEW texts
      PROVE  Grants(n, AddRestrictions(creds[d].rune, texts), Keys, Methods)
                \subseteq Grants(n, creds[d].rune, Keys, Methods)
  <2>1. /\ creds[d].rune = NewRune(creds[d].rune.issuer, creds[d].rune.restrs)
        /\ NamesPubkey(creds[d].rune.restrs)
    BY <1>1 DEF PairingInv, CredsFit, FileFits, IsSaved, DeviceFits
  <2> QED
    BY <2>1, AddingNarrows DEF AddRestrictions
<1>2. PairingInv => DerivedGrantsLess
  BY <1>1 DEF DerivedGrantsLess, Carve
<1> QED
  BY <1>2, PairingInvHolds, PTL

=============================================================================
