SPECIFICATION Spec
INVARIANT ReusedAsNew
INVARIANT UsedFits
INVARIANT ReadsBack
INVARIANT HashesAsTested
INVARIANT BucketInRange
CONSTANTS
    Uses <- CheckedUses
    SlotLimit = 64
    MaxRows = 2
    BucketCounts = {1, 7, 16}
