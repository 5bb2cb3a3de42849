\* Every way the app may be used: AI quotes on or off, New Quote pressed before
\* the first quote has come or only after.
SPECIFICATION FairSpec
CONSTANTS
    Quotes = {"b1", "s1", "t1", "z1", "aiB", "aiS"}
    AIQuotes = {"aiB", "aiS"}
    SeedQuotes = {"b1", "s1", "t1", "z1"}
    TraditionOf <- MCTraditionOf
    MaxRecent = 2
    HasKey = TRUE
    Faults = TRUE
    Flows = {f1, f2}
    Nexts = {n1}
    None = None
INVARIANTS NewestIsShown OnlyLocalShown
PROPERTIES TraditionsVary FadesBackIn
