----------------------------- MODULE Receiving -----------------------------
(***************************************************************************)
(* Being paid: invoices by the wrapper's invoice and by lsp_invoice        *)
(* (gl-plugin/src/node), the htlc_accepted hook that makes the onion of a  *)
(* payment reduced by an LSP's fee fit its HTLC and its invoice (lsp.rs,   *)
(* tlv.rs), and the invoice_payment hook that publishes the payment        *)
(* (lib.rs).                                                               *)
(*                                                                         *)
(* lightningd, its LSP plugin, the payers and the LSPs are outside the     *)
(* repository.  What lightningd asks of the parts of a payment is what     *)
(* docs/src/reference/lsp.md says it does: an HTLC covers what its onion   *)
(* forwards, and the parts add up to the total, no more.                   *)
(***************************************************************************)
EXTENDS Events, Tlv, FiniteSetsExt

CONSTANTS
    Labels,      \* of invoices; a payment hash and a secret come with each
    Secret,      \* those secrets, as bytes; of None, that of an unknown invoice
    PeerOrder,   \* the peers as listpeers gives them
    Listings,    \* what listpeerchannels may answer: channels with their state,
                 \* whether the peer is connected, the receivable amount, and
                 \* whether listincoming has them
    Parts,       \* HTLCs that reach the node
    Amounts,     \* amounts a user asks an invoice for, 0 for any
    Forwards,    \* what a payer forwards in one part
    MaxMsat,     \* the largest amount, u64::MAX in the code
    Fees         \* what an LSP deducts from a part

ASSUME ReceivingConstants ==
    /\ MaxMsat \in U64 \ {0} /\ Amounts \subseteq 0..MaxMsat /\ Fees \subseteq 0..MaxMsat
    /\ Forwards \subseteq 1..MaxMsat
    /\ None \notin Labels \cup ToSet(PeerOrder) /\ PeerOrder \in Seq(ToSet(PeerOrder))
    /\ Secret \in [Labels \cup {None} -> Seq(0..255)]
    /\ \E n \in 1..32 : \A l \in Labels \cup {None} : Len(Secret[l]) = n

VARIABLES
    request,  \* per label, a call of invoice or lsp_invoice
    invoice,  \* the invoices in lightningd's database, and whether their payment
              \* has come to the invoice_payment hook
    part      \* the HTLCs

receivingVars == <<request, invoice, part>>
vars == <<receivingVars, eventVars>>

Peers == ToSet(PeerOrder)

NoRequest == [pc |-> "none", amount |-> 0, lsp |-> None]
NoPart == [pc |-> "none", label |-> None, htlc |-> 0, fwd |-> 0, sent |-> <<>>, payload |-> <<>>]
Failed == [NoRequest EXCEPT !.pc = "failed"]
NoInvoice == [made |-> "none", amount |-> 0, hints |-> {}, called |-> FALSE]

-----------------------------------------------------------------------------

ForwardAmt == 2
PaymentSecret == 8   \* its value is the secret (32 bytes) and the sender's total

-----------------------------------------------------------------------------

\* The channels in state CHANNELD_NORMAL whose peer is connected.
Usable(listing) == {c \in listing : c.up /\ c.normal}

\* get_receivable_capacity
Receivable(listing) == MapThenSumSet(LAMBDA c : c.receivable, Usable(listing))

\* 105 % of the amount, the product saturating.
Required(amount) == Min({amount * 105, MaxMsat}) \div 100

\* lsp_invoice is called.  The LSP that the client may name is overwritten
\* before anything reads it.
LspInvoice(l, amount) ==
    /\ request[l].pc = "none"
    /\ request' = [request EXCEPT ![l] = [NoRequest EXCEPT !.pc = "capacity", !.amount = amount]]
    /\ UNCHANGED <<invoice, part, eventVars>>

(***************************************************************************)
(* A regular invoice is enough for an amount that fits the channels; if    *)
(* they cannot be listed, nothing fits.                                    *)
(***************************************************************************)
CheckCapacity(l) ==
    /\ request[l].pc = "capacity"
    /\ \E receivable \in {Receivable(listing) : listing \in Listings} \cup {0} :
          request' = [request EXCEPT ![l].pc =
              IF request[l].amount > 0 /\ receivable >= Required(request[l].amount)
              THEN "regular" ELSE "offers"]
    /\ UNCHANGED <<invoice, part, eventVars>>

\* Calls fail with what lightningd answers, and the request with them.
Fails(l) ==
    /\ request[l].pc \in {"regular", "offers", "negotiate"}
    /\ request' = [request EXCEPT ![l] = Failed]
    /\ UNCHANGED <<invoice, part, eventVars>>

RegularInvoice(l) ==
    /\ request[l].pc = "regular"
    /\ request' = [request EXCEPT ![l].pc = "made"]
    /\ invoice' = [invoice EXCEPT ![l] = [NoInvoice EXCEPT !.made = "regular",
                                              !.amount = request[l].amount]]
    /\ UNCHANGED <<part, eventVars>>

(***************************************************************************)
(* get_lsps_offers asks all peers at once, each for two seconds, and joins *)
(* the answers in their order: those that have offers in time.  The first  *)
(* one is taken.                                                           *)
(***************************************************************************)
GatherOffers(l) ==
    /\ request[l].pc = "offers"
    /\ \E answering \in SUBSET Peers :
          LET lsps == {n \in DOMAIN PeerOrder : PeerOrder[n] \in answering}
          IN request' = IF lsps = {}
                        THEN [request EXCEPT ![l] = Failed]
                        ELSE [request EXCEPT ![l].pc = "negotiate", ![l].lsp = PeerOrder[Min(lsps)]]
    /\ UNCHANGED <<invoice, part, eventVars>>

\* The LSP plugin gives the invoice out, and stores one reduced by the fees.
Negotiate(l) ==
    /\ request[l].pc = "negotiate"
    /\ request' = [request EXCEPT ![l].pc = "made", ![l].lsp = None]
    /\ \E fee \in Fees, parts \in 1..Cardinality(Parts) :
          /\ request[l].amount > 0 => fee * parts < request[l].amount
          /\ invoice' = [invoice EXCEPT ![l] = [NoInvoice EXCEPT !.made = "jit",
                             !.amount = IF request[l].amount = 0 THEN 0
                                        ELSE request[l].amount - fee * parts]]
    /\ UNCHANGED <<part, eventVars>>

\* get_routehints: what listincoming has of the usable channels, by the peer's
\* alias if it has one.
RouteHints(listing) == {c.alias : c \in {d \in Usable(listing) : d.incoming}}

\* The wrapper's invoice; when the channels cannot be listed it has no hints.
Invoice(l, amount) ==
    /\ request[l].pc = "none"
    /\ request' = [request EXCEPT ![l] = [pc |-> "made", amount |-> amount, lsp |-> None]]
    /\ \E hints \in {RouteHints(listing) : listing \in Listings} \cup {{}} :
          invoice' = [invoice EXCEPT ![l] = [NoInvoice EXCEPT !.made = "regular",
                                                 !.amount = amount, !.hints = hints]]
    /\ UNCHANGED <<part, eventVars>>

-----------------------------------------------------------------------------

(***************************************************************************)
(* A part arrives, for an invoice or (None) for a hash nobody knows.  The  *)
(* payer meant to forward fwd of a total; a peer that deducts a fee passes *)
(* on less, which is the HTLC.  A spontaneous payment has no secret in its *)
(* onion.                                                                  *)
(***************************************************************************)
Onion(l, fwd, total) ==
    <<Entry(ForwardAmt, PutTu64(fwd)), Entry(4, <<40>>),
      Entry(PaymentSecret, Secret[l] \o PutTu64(total)), Entry(33001, <<1, 2>>)>>

\* The sender's total is what the invoice it was given is for.
Total(l, fwd) == IF l = None \/ request[l].amount = 0 THEN fwd ELSE request[l].amount

Spontaneous(fwd) == <<Entry(ForwardAmt, PutTu64(fwd)), Entry(4, <<40>>)>>

\* The secret in a payload, whose length it is cut to.
SecretIn(value) == SubSeq(value, 1, Len(Secret[None]))

\* Mutant of Amended: the total is what this part brings.
AmendedByPart(tlvs, secret, htlc, amount) ==
    SetBytes(SetTu64(tlvs, ForwardAmt, htlc), PaymentSecret, secret \o PutTu64(htlc))

\* The payload with the amount of the HTLC and the total of the invoice.
Amended(tlvs, secret, htlc, amount) ==
    SetBytes(SetTu64(tlvs, ForwardAmt, htlc), PaymentSecret, secret \o PutTu64(amount))

\* listinvoices by the payment hash.
InvoiceFor(l) == IF l = None THEN NoInvoice ELSE invoice[l]

\* Whether the hook looks for the invoice of a part: one that is less than its
\* onion says and has a secret.
LooksUp(tlvs, fwd, htlc) == htlc < fwd /\ Get(tlvs, PaymentSecret) # {}

(***************************************************************************)
(* on_htlc_accepted, for a part that arrives: one whose invoice is found   *)
(* and has an amount is amended; else lightningd goes on with the payload  *)
(* as it is.                                                               *)
(***************************************************************************)
HtlcAccepted(i, l, onion, fwd, htlc) ==
    /\ part[i].pc = "none"
    /\ l # None => invoice[l].made # "none"
    /\ LET tlvs == Deserialize(Prefixed(ToBytes(onion)))
           inv == InvoiceFor(l)
           reduced == LooksUp(tlvs, fwd, htlc) /\ inv.made # "none" /\ inv.amount > 0
           payloads == IF reduced
                       THEN {ToBytes(Amended(tlvs, SecretIn(value), htlc, inv.amount)) :
                                value \in Get(tlvs, PaymentSecret)}
                       ELSE {ToBytes(onion)}
       IN \E payload \in payloads :
             part' = [part EXCEPT ![i] = [pc |-> "decide", label |-> l, htlc |-> htlc,
                          fwd |-> fwd, sent |-> ToBytes(onion), payload |-> payload]]
    /\ UNCHANGED <<request, invoice, eventVars>>

\* It connects to lightningd or lists the invoices in vain, and ends with an
\* error; a secret that is cut short would end it in a panic, to the same effect.
HookFails(i, onion, fwd, htlc) ==
    /\ part[i].pc = "none"
    /\ LooksUp(Deserialize(Prefixed(ToBytes(onion))), fwd, htlc)
    /\ part' = [part EXCEPT ![i] = [NoPart EXCEPT !.pc = "unanswered"]]
    /\ UNCHANGED <<request, invoice, eventVars>>

Arrives(i, l, onion, fwd, htlc) ==
    HtlcAccepted(i, l, onion, fwd, htlc) \/ HookFails(i, onion, fwd, htlc)

\* lightningd gives up a part without an answer, or starts over and offers it anew.
Abandon(i) ==
    /\ part[i].pc = "unanswered"
    /\ part' = [part EXCEPT ![i] = NoPart]
    /\ UNCHANGED <<request, invoice, eventVars>>

-----------------------------------------------------------------------------

\* lightningd's own reading of a payload.
Reads(b, typ) == Get(FromBytes(b, 1), typ)

TotalOf(h) ==
    LET value == CHOOSE v \in Reads(h.payload, PaymentSecret) : TRUE
    IN FromBigEndian(SubSeq(value, Len(Secret[None]) + 1, Len(value)))

ForwardOf(h) == FromBigEndian(CHOOSE v \in Reads(h.payload, ForwardAmt) : TRUE)

Kept(l) == {i \in Parts : part[i].label = l /\ part[i].pc = "kept"}

(***************************************************************************)
(* lightningd takes a part whose HTLC covers what its onion forwards, with *)
(* the total of its invoice, or of the other parts where that is for any   *)
(* amount.  The parts of an invoice go to the invoice_payment hook once.   *)
(***************************************************************************)
Takes(h) ==
    LET inv == InvoiceFor(h.label) IN
    /\ inv.made # "none" /\ ~inv.called
    /\ h.htlc >= ForwardOf(h)
    /\ Reads(h.payload, PaymentSecret) # {}
    /\ inv.amount > 0 => TotalOf(h) = inv.amount
    /\ \A j \in Kept(h.label) : TotalOf(part[j]) = TotalOf(h)

SumOfParts(S) == FoldSet(LAMBDA i, sum : ForwardOf(part[i]) + sum, 0, S)

\* The parts that are kept, with this one.
SetWith(i) == Kept(part[i].label) \cup {i}

Overpays(i) == SumOfParts(SetWith(i)) > TotalOf(part[i])

\* It keeps a part that it takes until the set is complete,
Keep(i) ==
    /\ part[i].pc = "decide"
    /\ Takes(part[i]) /\ ~Overpays(i)
    /\ part' = [part EXCEPT ![i].pc = "kept"]
    /\ UNCHANGED <<request, invoice, eventVars>>

\* rejects all of a set that has become too much,
Reject(i) ==
    /\ part[i].pc = "decide"
    /\ Takes(part[i]) /\ Overpays(i)
    /\ part' = [j \in Parts |-> IF j \in SetWith(i) THEN [part[j] EXCEPT !.pc = "overpaid"]
                                ELSE part[j]]
    /\ UNCHANGED <<request, invoice, eventVars>>

\* and fails a part that it does not take.
Refuse(i) ==
    /\ part[i].pc = "decide"
    /\ ~Takes(part[i])
    /\ part' = [part EXCEPT ![i].pc = "failed"]
    /\ UNCHANGED <<request, invoice, eventVars>>

Decide(i) == Keep(i) \/ Reject(i) \/ Refuse(i)

\* Parts that have waited too long for the others are failed, and sent anew.
Expire(l) ==
    /\ Kept(l) # {} /\ ~invoice[l].called
    /\ part' = [i \in Parts |-> IF i \in Kept(l) THEN NoPart ELSE part[i]]
    /\ UNCHANGED <<request, invoice, eventVars>>

\* Mutant of InvoicePayment: published when the first part is kept.
InvoicePaymentEarly(l) ==
    /\ Kept(l) # {} /\ ~invoice[l].called
    /\ Payment(l) \notin ToSet(events)
    /\ Publish(Payment(l))
    /\ UNCHANGED <<receivingVars, rpcCalls, listener>>

(***************************************************************************)
(* The parts are complete: lightningd calls the invoice_payment hook.      *)
(* on_invoice_payment publishes the payment, unless it cannot decode the   *)
(* call, does not find the invoice or ends with an error or a panic.  What *)
(* lightningd makes of its answer, to settle for one, is not seen here.    *)
(***************************************************************************)
InvoicePayment(l) ==
    /\ Kept(l) # {} /\ ~invoice[l].called
    /\ \A i \in Kept(l) : SumOfParts(Kept(l)) = TotalOf(part[i])
    /\ invoice' = [invoice EXCEPT ![l].called = TRUE]
    /\ Publish(Payment(l)) \/ UNCHANGED events
    /\ UNCHANGED <<request, part, rpcCalls, listener>>

-----------------------------------------------------------------------------

Init ==
    /\ request = [l \in Labels |-> NoRequest]
    /\ invoice = [l \in Labels |-> NoInvoice]
    /\ part = [i \in Parts |-> NoPart]
    /\ EventsInit

Next ==
    \/ \E l \in Labels, a \in Amounts : LspInvoice(l, a) \/ Invoice(l, a)
    \/ \E l \in Labels : \/ CheckCapacity(l) \/ RegularInvoice(l) \/ GatherOffers(l)
                         \/ Negotiate(l) \/ Fails(l) \/ Expire(l) \/ InvoicePayment(l)
    \/ \E i \in Parts, fwd \in Forwards, fee \in Fees :
          /\ fee < fwd
          /\ \/ \E l \in Labels \cup {None} :
                   Arrives(i, l, Onion(l, fwd, Total(l, fwd)), fwd, fwd - fee)
             \/ Arrives(i, None, Spontaneous(fwd), fwd, fwd - fee)
    \/ \E i \in Parts : Decide(i) \/ Abandon(i)
    \/ EventStep /\ UNCHANGED receivingVars

Spec == Init /\ [][Next]_vars

-----------------------------------------------------------------------------

ReceivingTypeOK ==
    /\ EventsTypeOK
    /\ \A l \in Labels :
          /\ request[l].pc \in {"none", "capacity", "regular", "offers", "negotiate",
                                "made", "failed"}
          /\ request[l].lsp \in Peers \cup {None}
          /\ invoice[l].made \in {"none", "regular", "jit"}
          /\ (request[l].pc = "made") = (invoice[l].made # "none")
          /\ invoice[l].amount \in 0..request[l].amount
          /\ request[l].pc = "negotiate" => request[l].lsp \in Peers
          /\ Payment(l) \in ToSet(events) => invoice[l].called
    /\ \A m, n \in DOMAIN events : m # n /\ events[m].kind = "payment" => events[m] # events[n]
    /\ \A i \in Parts :
          /\ part[i].pc \in {"none", "unanswered", "decide", "kept", "overpaid", "failed"}
          /\ part[i].label \in Labels \cup {None}
          /\ part[i].label # None => invoice[part[i].label].made # "none"

IsReduced(h) == h.htlc < h.fwd

SameButAmounts(sent, payload) ==
    /\ Len(payload) = Len(sent)
    /\ \A n \in DOMAIN sent :
          /\ payload[n].typ = sent[n].typ
          /\ sent[n].typ \notin {ForwardAmt, PaymentSecret} => payload[n] = sent[n]
          /\ sent[n].typ = PaymentSecret
                => SecretIn(payload[n].value) = SecretIn(sent[n].value)

(***************************************************************************)
(* on_htlc_accepted makes a payment that an LSP reduced acceptable, when   *)
(* it gets to answer.  A part with a secret, for an open invoice with an   *)
(* amount, is never failed for what it says, by itself or beside others,   *)
(* whatever total the sender had in mind; it counts for exactly its HTLC   *)
(* towards exactly the invoice, so that a set of such parts is complete,   *)
(* or rejected as too much, when its HTLCs are; and lightningd reads the   *)
(* same entries from the hook's bytes as from the sender's, but for the    *)
(* two amounts.                                                            *)
(***************************************************************************)
ReducedIsTaken ==
    \A i \in Parts : LET h == part[i] IN
        /\ h.pc = "failed" /\ IsReduced(h) /\ Reads(h.sent, PaymentSecret) # {}
              => LET inv == InvoiceFor(h.label)
                 IN inv.made = "none" \/ inv.amount = 0 \/ inv.called
        /\ h.pc \in {"kept", "overpaid"} /\ IsReduced(h)
              => ForwardOf(h) = h.htlc /\ TotalOf(h) = InvoiceFor(h.label).amount
        /\ h.pc = "decide" => SameButAmounts(FromBytes(h.sent, 1), FromBytes(h.payload, 1))

=============================================================================
