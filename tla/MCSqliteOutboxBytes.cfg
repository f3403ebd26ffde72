\* Two messages fill the queue but for one error text.
SPECIFICATION Spec
CONSTANTS
    MessageIds = {m1, m2}
    Contents = {c1}
    NoContent = NoContent
    Flushers = {f1, f2}
    MaxEntries = 2
    MaxBytes = 5
    EntryBytes = 2
    ErrorBytes = 1
    Limit = 2
    ShiftCap = 1
    MaxDelay = 2
SYMMETRY Symmetry
INVARIANT StaysWithinBounds
