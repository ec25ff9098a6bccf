CONSTANTS
  NBuf = 2
  MaxReads = 3
  Confidence = 1
  Batch = 2
  Contents <- MCContents
SPECIFICATION FairSpec
INVARIANTS
  ParsedInFileOrder
  LinesPointIntoLiveBuffer
  MainReadsCommittedEvents
  DeletedAfterLastUse
PROPERTIES
  AnnouncedTypeStable
  ImplementsTraceDelivery
  EveryThreadFinishes
