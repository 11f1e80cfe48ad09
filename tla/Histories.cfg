SPECIFICATION MCSpec
CONSTANTS
    Capacity = 8
    Sizes = {2, 3, 4}
    Levels = {1, 2}
    MaxSeq = 6
    MaxBatch = 2
    SlotCap = 2
    QueueLen = 1
    MaxBoots = 4
    MaxEmits = 3
    Places = 3
    Readings = {1, 2}
    MaxSamples = 7
    MaxRows = 2
    Word = 16
INVARIANTS
    LossIsNeverSilent
    HistoryGapsShow
    NewestLogKept
    OffersPreviousBoot
    AppendedIsReadable
PROPERTY
    IsBoundedLog
CHECK_DEADLOCK FALSE
