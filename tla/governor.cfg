\* One slot, three profiles, three overlapping calls: the queue is in use almost always.
SPECIFICATION FairSpec
CONSTANTS
  a = a
  b = b
  c = c
  c1 = c1
  c2 = c2
  c3 = c3
  Profiles <- ThreeProfiles
  Callers <- ThreeCallers
  MaxConcurrent = 1
  CheckDisk = TRUE
  Overlap = TRUE
INVARIANTS SlotsCoverHolders QueueServesWaiters
PROPERTIES ImplementsSlotPool EveryCallReturns
