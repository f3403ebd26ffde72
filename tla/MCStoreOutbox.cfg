\* Enqueues of two messages and a flush of one entry per call take turns; the
\* queue holds both entries but only one error text fits beside them.
SPECIFICATION FairSpec
CONSTANTS
    MessageIds = {m1, m2}
    Contents = {c1}
    NoContent = NoContent
    Nobody = Nobody
    Flushers = {f1}
    MaxEntries = 2
    MaxBytes = 5
    EntryBytes = 2
    ErrorBytes = 1
    Limit = 1
    ShiftCap = 1
    MaxDelay = 1
INVARIANTS StaysLoadable
PROPERTIES ImplementsDurableQueue EventuallyDelivered
