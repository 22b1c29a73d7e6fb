------------------------------- MODULE Lnurl -------------------------------
(***************************************************************************)
(* Payments and withdrawals by LNURL or lightning address, on the client's *)
(* side (gl-client/src/lnurl).  A payment asks the service of a URL what   *)
(* it takes, asks it for an invoice and has the node pay that; a client    *)
(* may also make the two requests itself.  A withdrawal has the node make  *)
(* an invoice for the service to pay.                                      *)
(*                                                                         *)
(* The services, which may answer anything, and the node are outside this  *)
(* module.  An identifier stands for what its text decodes to; metadata is *)
(* a text, of which Entries is what it parses to; SHA-256 is taken to tell *)
(* any two texts apart.  A panic ends a call as an error does.             *)
(***************************************************************************)
EXTENDS Integers, Sequences, FiniteSetsExt

CONSTANTS
    Calls,     \* of clients, each made once
    Ids,       \* identifiers: a text, whether it begins with `lnurl' in any case,
               \* and the URLs it decodes to as an LNURL and as an address
    Urls,
    Quick,     \* the URLs that hold all there is to know of a withdrawal
    Amounts,
    Answers,   \* what a service may say that it takes
    Entries,   \* per metadata text that can be read, its entries
    Invoices,  \* invoices that a service may give out
    None

ASSUME LnurlConstants ==
    /\ Quick \subseteq Urls /\ Amounts \subseteq Nat
    /\ \A id \in Ids : {id.lnurl, id.address} \subseteq Urls \cup {None} /\ id.prefixed \in BOOLEAN
    /\ \A a \in Answers : {a.min, a.max} \subseteq Nat
    /\ \A i \in Invoices : i.amount \in Nat

VARIABLES
    call,   \* the calls: where they are and what they hold
    said,   \* history: what the service of each URL answered to pay requests
    label   \* the node has an invoice of the empty label

vars == <<call, said, label>>

Idle == [op |-> "none", pc |-> "idle", id |-> None, url |-> None, amount |-> 0,
         answer |-> None, invoice |-> None]

\* Call c goes on to pc, with what it holds in `held'.
Goes(c, held, pc) == call' = [call EXCEPT ![c] = [held EXCEPT !.pc = pc]]

-----------------------------------------------------------------------------

\* resolve_lnurl_to_invoice: the URL of an LNURL, or else of an address.
Resolved(id) == IF id.prefixed THEN id.lnurl ELSE id.address

\* The first entry that names an address.
Named(metadata) ==
    LET named == {n \in DOMAIN Entries[metadata] :
                     Entries[metadata][n].type \in {"text/email", "text/identifier"}}
    IN IF named = {} THEN None ELSE Entries[metadata][Min(named)].text

\* ensure_amount_is_within_range
InRange(amount, answer) == amount \in answer.min..answer.max

\* extract_description, of which nothing but its success is used.
Readable(metadata) == metadata \in DOMAIN Entries

\* validate_pay_request_response
Valid(id, answer, amount) ==
    /\ answer.tag = "payRequest"
    /\ InRange(amount, answer)
    /\ Readable(answer.metadata)
    /\ ~id.prefixed => Named(answer.metadata) = id.text

\* Mutant of Fits: the description is not looked at.
FitsAmount(invoice, amount, metadata) == invoice.amount = amount

(***************************************************************************)
(* validate_invoice_from_callback_response: the amount, 0 being any, and   *)
(* the metadata, which the description is or is the hash of.               *)
(***************************************************************************)
Fits(invoice, amount, metadata) ==
    invoice.amount = amount /\ invoice.describes = metadata

-----------------------------------------------------------------------------

\* A call sends its first request, if its identifier decodes.
Starts(c, op, id, url, amount, pc) ==
    /\ call[c].pc = "idle"
    /\ Goes(c, [Idle EXCEPT !.op = op, !.id = id, !.url = url, !.amount = amount],
            IF url = None THEN "failed" ELSE pc)
    /\ UNCHANGED <<said, label>>

Pay(c, id, amount) == Starts(c, "pay", id, Resolved(id), amount, "asks")

\* get_pay_request_response, for a client that goes through the steps itself.
Look(c, id) == Starts(c, "look", id, id.lnurl, 0, "asks")

\* The parameters are in the URL, or asked for.
Withdraw(c, id, amount) ==
    Starts(c, "withdraw", id, id.lnurl, amount, IF id.lnurl \in Quick THEN "invoice" ELSE "asks")

\* A request in vain: there is no answer, or none that can be read.
Fails(c) ==
    /\ call[c].pc \in {"asks", "asks_invoice", "pays", "invoice"}
    /\ Goes(c, call[c], "failed")
    /\ UNCHANGED <<said, label>>

(***************************************************************************)
(* The service says what it takes.  pay goes on to ask for an invoice; a   *)
(* client that only looked has the answer, if its tag is right.            *)
(***************************************************************************)
Answered(c, answer) ==
    /\ call[c].pc = "asks" /\ call[c].op # "withdraw"
    /\ said' = [said EXCEPT ![call[c].url] = @ \cup {answer}]
    /\ Goes(c, [call[c] EXCEPT !.answer = answer],
            IF call[c].op = "pay"
            THEN IF Valid(call[c].id, answer, call[c].amount) THEN "asks_invoice" ELSE "failed"
            ELSE IF answer.tag = "payRequest" THEN "looked" ELSE "failed")
    /\ UNCHANGED label

\* get_pay_request_callback_response, for an amount that the client chooses.
Ask(c, amount) ==
    /\ call[c].pc = "looked"
    /\ Goes(c, [call[c] EXCEPT !.amount = amount], "asks_invoice")
    /\ UNCHANGED <<said, label>>

\* The service gives out an invoice: for the node to pay, or for the client.
Given(c, invoice) ==
    /\ call[c].pc = "asks_invoice"
    /\ Goes(c, [call[c] EXCEPT !.invoice = invoice],
            IF ~Fits(invoice, call[c].amount, call[c].answer.metadata) THEN "failed"
            ELSE IF call[c].op = "pay" THEN "pays" ELSE "given")
    /\ UNCHANGED <<said, label>>

Paid(c) ==
    /\ call[c].pc = "pays"
    /\ Goes(c, call[c], "paid")
    /\ UNCHANGED <<said, label>>

\* What a service says of a withdrawal is taken as it is.
Described(c) ==
    /\ call[c].pc = "asks" /\ call[c].op = "withdraw"
    /\ Goes(c, call[c], "invoice")
    /\ UNCHANGED <<said, label>>

(***************************************************************************)
(* The node makes the invoice, of the empty label, which it does not make  *)
(* twice.  The call then builds the request that hands the invoice to the  *)
(* service, and drops it unsent.                                           *)
(***************************************************************************)
Made(c) ==
    /\ call[c].pc = "invoice"
    /\ ~label /\ label' = TRUE
    /\ Goes(c, call[c], "done")
    /\ UNCHANGED said

Init ==
    /\ call = [c \in Calls |-> Idle] /\ said = [u \in Urls |-> {}] /\ label = FALSE

Next ==
    \E c \in Calls :
        \/ \E id \in Ids : \/ Look(c, id)
                           \/ \E a \in Amounts : Pay(c, id, a) \/ Withdraw(c, id, a)
        \/ \E answer \in Answers : Answered(c, answer)
        \/ \E amount \in Amounts : Ask(c, amount)
        \/ \E invoice \in Invoices : Given(c, invoice)
        \/ Fails(c) \/ Paid(c) \/ Described(c) \/ Made(c)

Spec == Init /\ [][Next]_vars

-----------------------------------------------------------------------------

(***************************************************************************)
(* pay: whatever the services say to this call and to others, what the     *)
(* node pays is for the amount asked for, which the service of the         *)
(* identifier offered to take, and commits to the metadata of that offer;  *)
(* for a lightning address the metadata names the address.  An invoice     *)
(* that a client is given by the two single requests is for the amount and *)
(* commits to what the service said, whatever it said it would take.       *)
(***************************************************************************)
PaysAsAsked ==
    \A c \in Calls : call[c].pc \in {"pays", "paid", "given"} =>
        LET id == call[c].id IN
        /\ call[c].invoice.amount = call[c].amount
        /\ \E offer \in said[IF call[c].op = "pay" THEN Resolved(id) ELSE id.lnurl] :
              /\ offer.tag = "payRequest"
              /\ call[c].invoice.describes = offer.metadata
              /\ call[c].op = "pay" =>
                    /\ offer.min <= call[c].amount /\ call[c].amount <= offer.max
                    /\ ~id.prefixed => \E n \in DOMAIN Entries[offer.metadata] :
                                          Entries[offer.metadata][n].text = id.text

=============================================================================
