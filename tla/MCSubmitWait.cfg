CONSTANTS
  Request <- MCRequest
  Digest <- MCDigest
  DigestOf <- MCDigestOf
  QueueCap = 1
  MaxInject = 1
  None = None
SPECIFICATION FairSpec
CHECK_DEADLOCK FALSE
INVARIANT NoLeakedWaiter
INVARIANT NoLostReceipt
INVARIANT DroppedOnlyByDuplicate
PROPERTY Answered
