------------------------------ MODULE MCLnurl ------------------------------
(***************************************************************************)
(* Two calls with an LNURL of each kind, an address, an address whose name *)
(* begins with `lnurl', and two services that answer in every way.         *)
(***************************************************************************)
EXTENDS Lnurl, TLC

Id(text, prefixed, lnurl, address) ==
    [text |-> text, prefixed |-> prefixed, lnurl |-> lnurl, address |-> address]

MCIds ==
    {Id("code", TRUE, "shop", None), Id("voucher", TRUE, "fund", None),
     Id("ann@shop", FALSE, None, "shop"), Id("lnurlfan@shop", TRUE, None, "shop")}

MCEntries ==
    [ann |-> <<[type |-> "text/plain", text |-> "ann@shop"],
               [type |-> "text/identifier", text |-> "ann@shop"]>>,
     bob |-> <<[type |-> "text/plain", text |-> "ann@shop"],
               [type |-> "text/email", text |-> "bob@shop"]>>]

\* Offers of 1 or 2, of another kind, and with metadata that cannot be read.
MCAnswers ==
    [tag : {"payRequest"}, min : {1}, max : {1, 2}, metadata : {"ann", "bob", "torn"}]
        \cup {[tag |-> "withdrawRequest", min |-> 1, max |-> 2, metadata |-> "ann"]}

MCInvoices == [amount : 0..2, describes : {"ann", "bob"}]

MCSymmetry == Permutations(Calls)

=============================================================================
