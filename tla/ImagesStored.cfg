\* Two calls in flight, failing requests, reads and saves, kills in mid-save.
SPECIFICATION ImageSpec
CONSTANTS
    Quotes = {"b1", "b2", "s1"}
    Prompts = {"temple", "flute"}
    PromptsOf <- MCPromptsOf
    LookupKeys <- MCLookupKeys
    HasKey = TRUE
    Faults = TRUE
    Slots = {c1, c2}
    Default = Default
    None = None
SYMMETRY Interchangeable
INVARIANTS ImagesOK
