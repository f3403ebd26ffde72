\* Two processes flush one database with two messages; every entry has room for
\* its error text.
SPECIFICATION Spec
CONSTANTS
    MessageIds = {m1, m2}
    Contents = {c1}
    NoContent = NoContent
    Flushers = {f1, f2}
    MaxEntries = 2
    MaxBytes = 6
    EntryBytes = 2
    ErrorBytes = 1
    Limit = 2
    ShiftCap = 1
    MaxDelay = 2
SYMMETRY Symmetry
PROPERTIES OnlyEnqueueAdds ImplementsDurableQueue
