\* Three messages, pages of one and three events on their way: a resync needs
\* several pages, and a gap can follow resync_required on the wire.
SPECIFICATION FairSpec
CONSTANTS
    MaxLog = 3
    MaxWire = 3
    PageSize = 1
    DelayCap = 1
INVARIANTS Gapless
PROPERTIES ProcessedInOrder EventuallyProcessed
