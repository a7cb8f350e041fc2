SPECIFICATION FairSpec
CONSTANTS
  Roles <- ReceiptThenDeliverable
  MaxTries = 2
  Handlers = {h1, h2}
  MaxFaults = 1
INVARIANT BytesAreStored
PROPERTY GraceProtectsUpload
PROPERTY StorageSettles
