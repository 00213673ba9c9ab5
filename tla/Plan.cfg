SPECIFICATION PSpec
CONSTANTS
    Batches <- MCBatches
    Envelope = 2
    MaxPayload = 7
INVARIANTS PartsCutBatch SendersFollowItems PlansWithinLimit
