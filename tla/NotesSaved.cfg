\* Crashes and failing writes at any point, overlapping removals.
SPECIFICATION Spec
CONSTANTS
    Quotes = {q1, q2}
    MaxTime = 3
    Faults = TRUE
    WaitsForClear = TRUE
    None = None
SYMMETRY Interchangeable
INVARIANTS NotepadOK
PROPERTIES NoteBeforeQuote
