SPECIFICATION Spec
CONSTANTS
    Calls = {c1, c2}
    Ids <- MCIds
    Urls = {"shop", "fund"}
    Quick = {"fund"}
    Amounts = {1, 2}
    Answers <- MCAnswers
    Entries <- MCEntries
    Invoices <- MCInvoices
    None = None
SYMMETRY MCSymmetry
INVARIANT PaysAsAsked
CHECK_DEADLOCK FALSE
