------------------------------ MODULE Pairing ------------------------------
(***************************************************************************)
(* Pairing: a new device asks for credentials, a device that has some      *)
(* attests it, and the node's signer makes the rune.  new_device.rs and    *)
(* attestation_device.rs of gl-client/src/pairing, process_pairing_approval *)
(* of its signer, the pair-device and approve-pairing commands of gl-cli.  *)
(*                                                                         *)
(* The scheduler in the middle is a service outside the repository: it     *)
(* keeps the sessions by device id, which is the device's key, hands an    *)
(* approval to the signer of the attesting device's node and the signer's  *)
(* answer to the waiting device.  A signature stands for the key it was    *)
(* made with and the fields it covers.                                     *)
(***************************************************************************)
EXTENDS Access

CONSTANT
    Requested   \* the restrictions a user may ask for, each a set of texts

VARIABLES
    sessions,   \* per device id, the restrictions of its pairing session
    approvals,  \* approvals on their way to a signer
    approved,   \* history: the approvals devices have sent
    answers     \* what signers have answered

pairingVars == <<sessions, approvals, approved, answers>>

IsApproval(a) == a.device \in Keys /\ a.node \in Nodes /\ a.pubkey \in Keys

PairingTypeOK ==
    /\ AccessTypeOK
    /\ DOMAIN sessions = Keys
    /\ \A k \in Keys : sessions[k] # None => k \in used
    /\ approvals \subseteq approved
    /\ \A a \in approved : IsApproval(a)
    /\ \A a \in answers : a.device \in Keys /\ a.rune.issuer \in Nodes

Init ==
    /\ AccessInit
    /\ sessions = [k \in Keys |-> None]
    /\ approvals = {} /\ approved = {} /\ answers = {}

-----------------------------------------------------------------------------

(***************************************************************************)
(* pair_device_handler, pair_device: draw a key, show the QR code.         *)
(***************************************************************************)
PairDevice(d) ==
    /\ \E k \in Fresh :
          /\ Starts(d, [Job("pair", "qr", None) EXCEPT !.key = k])
          /\ used' = used \cup {k}
    /\ UNCHANGED <<seed, creds, old, drawn, registered, pairingVars>>

\* pair_device: `pubkey=<device id>', and the restrictions asked for.
SessionTexts(k, texts) == {BoundTo(k)} \cup texts

\* The request is sent only when the QR code has been passed on.
PairRequest(d, texts) ==
    /\ job[d].pc = "qr"
    /\ sessions' = [sessions EXCEPT ![job[d].key] = SessionTexts(job[d].key, texts)]
    /\ job' = [job EXCEPT ![d].pc = "wait"]
    /\ UNCHANGED <<seed, creds, old, drawn, used, registered,
                   approvals, approved, answers>>

\* A credentials file that is whole.
IsSaved(d) == creds[d] \notin {None, Torn}

\* get_pairing_data tries until the session is there, or ten seconds pass.
SessionOf(k) == {texts \in {sessions[k]} : texts # None}

\* restriction_contains_pubkey_exactly_once: on its own, and nowhere else.
NamesPubkeyOnce(texts, k) ==
    /\ BoundTo(k) \in texts
    /\ \A t \in texts \ {BoundTo(k)} : Alternative("pubkey", "=", k) \notin t

\* approve_pairing: what a device that holds the credentials c signs and sends.
Approval(c, k, texts) ==
    [device |-> k, restrs |-> texts, node |-> c.node, pubkey |-> c.key, rune |-> c.rune]

(***************************************************************************)
(* approve_pairing_handler: read the session, verify it, show it, sign it. *)
(* Torn credentials name no node, and the handler fails.                   *)
(***************************************************************************)
Approve(d, k) ==
    /\ job[d].pc = "idle"
    /\ IsSaved(d)
    /\ \E texts \in SessionOf(k) :
          /\ NamesPubkeyOnce(texts, k)
          /\ approvals' = approvals \cup {Approval(creds[d], k, texts)}
          /\ approved' = approved \cup {Approval(creds[d], k, texts)}
    /\ UNCHANGED <<accessVars, sessions, answers>>

ApproveCall(a) == CallOf(a.pubkey, a.rune, <<"Approve", "Pairing">>)

\* Mutant of Accepts: the rune is not verified.
AcceptsAnyRune(a) == Creates(a.restrs)

\* What process_pairing_approval asks of an approval with a valid signature.
Accepts(a) == Verified(a.node, ApproveCall(a)) /\ Creates(a.restrs)

(***************************************************************************)
(* run_once_scheduler, process_pairing_approval: the signer of the node    *)
(* answers an approval, or logs why not and drops it.  A signer needs the  *)
(* seed and a credentials file to run.                                     *)
(***************************************************************************)
SignerApproves(a) ==
    /\ a \in approvals
    /\ \E d \in Dirs : seed[d] = a.node /\ creds[d] # None
    /\ approvals' = approvals \ {a}
    /\ answers' = IF Accepts(a)
                  THEN answers \cup {[device |-> a.device, rune |-> NewRune(a.node, a.restrs)]}
                  ELSE answers
    /\ UNCHANGED <<accessVars, sessions, approved>>

\* The answer reaches the device that waits: a certificate, and the rune.
PairReply(d) ==
    /\ job[d].pc = "wait"
    /\ \E a \in answers :
          /\ a.device = job[d].key
          /\ job' = [job EXCEPT ![d].pc = "save",
                        ![d].device = Device(a.rune.issuer, a.device, a.rune, "paired")]
    /\ UNCHANGED <<seed, creds, old, drawn, used, registered, pairingVars>>

Next ==
    \/ \E d \in Dirs :
          \/ AccessStep(d) /\ UNCHANGED pairingVars
          \/ PairDevice(d)
          \/ \E texts \in Requested : PairRequest(d, texts)
          \/ \E k \in Keys : Approve(d, k)
          \/ PairReply(d)
    \/ \E a \in approvals : SignerApproves(a)

Spec == Init /\ [][Next]_<<accessVars, pairingVars>>

-----------------------------------------------------------------------------

(***************************************************************************)
(* The node of every registration can be restored: whatever dies when, a   *)
(* directory holds its seed.  register writes and syncs the seed before    *)
(* the scheduler hears of the node, and nobody writes over one.            *)
(***************************************************************************)
SeedKept == \A n \in registered : \E d \in Dirs : seed[d] = n

(***************************************************************************)
(* The credentials in a directory are those of the seed in it, through     *)
(* every crash, unless pair-device put them there.                         *)
(***************************************************************************)
CredsMatchSeed ==
    \A d \in Dirs : IsSaved(d) /\ creds[d].origin # "paired" => creds[d].node = seed[d]

(***************************************************************************)
(* A device can do with its credentials what it was given, and nobody else *)
(* can do anything with its rune: registered and recovered devices may     *)
(* call everything, a paired one what its approver was shown.              *)
(***************************************************************************)
RuneFitsDevice ==
    \A d \in Dirs : IsSaved(d) /\ creds[d].origin \in {"csr", "paired"} =>
        LET c == creds[d]
        IN  Grants(c.node, c.rune, Keys, Methods) =
               {g \in {c.key} \X Methods :
                   c.origin = "paired" =>
                       Satisfies([pubkey |-> g[1], method |-> Lower(g[2])], sessions[c.key])}

(***************************************************************************)
(* Every paired device was approved, with the restrictions in its rune, by *)
(* a device whose own rune lets it approve: the signer checks the rune of  *)
(* the approver and signs for its own node only.                           *)
(***************************************************************************)
PairedAsApproved ==
    \A d \in Dirs : IsSaved(d) /\ creds[d].origin = "paired" =>
        \E a \in approved :
            /\ a.device = creds[d].key /\ a.node = creds[d].node
            /\ a.restrs = creds[d].rune.restrs
            /\ Verified(a.node, ApproveCall(a))

(***************************************************************************)
(* Whoever derives a rune from one in use, by create_rune or by carving,   *)
(* cannot widen it: not with any texts, those that do not parse included,  *)
(* nor with any of the predefined rules.                                   *)
(***************************************************************************)
DerivedGrantsLess ==
    \A d \in Dirs, n \in Nodes : IsSaved(d) =>
        \A r \in {AddRestrictions(creds[d].rune, texts) : texts \in Requested}
                  \cup {Carve(creds[d].rune, {rules}) : rules \in SUBSET {"ReadOnly", "Pay"}} :
            Grants(n, r, Keys, Methods) \subseteq Grants(n, creds[d].rune, Keys, Methods)

=============================================================================
