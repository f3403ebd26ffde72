\* Two ids, two contents under the first, and a flush that takes both entries,
\* beside enqueues and crashes; the queue holds both entries but only one error
\* text fits beside them.
SPECIFICATION MCSpec
CONSTANTS
    m1 = m1
    m2 = m2
    c1 = c1
    c2 = c2
    MessageIds = {m1, m2}
    Contents = {c1, c2}
    NoContent = NoContent
    Flushers = {f1}
    MaxEntries = 2
    MaxBytes = 5
    EntryBytes = 2
    ErrorBytes = 1
    Limit = 2
    ShiftCap = 1
    MaxDelay = 1
INVARIANTS UniqueIds StaysLoadable
PROPERTIES ImplementsDurableQueue EventuallyDelivered EventuallyRetired
