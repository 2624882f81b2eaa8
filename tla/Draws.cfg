\* Batches cut and ordered in several ways, every word and every span.
SPECIFICATION FairSpec
CONSTANTS
  HalfWord = 8
  UniformLimit = 16
  Rows = {1, 2}
  Batches <- MCBatches
  BaseSlot = 2
  FirstRejectionSlot = 64
  MaxRejectionAttempts = 2
  Columns <- MCColumns
INVARIANTS TypeOK RowIsPure RaisesOnlyWhenExhausted InRange Unbiased
PROPERTY CallsEnd
