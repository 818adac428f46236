SPECIFICATION FairSpec
CONSTANTS
  NoLease = NoLease
  Workers = {b1, b2, i1}
  Batch = {b1, b2}
  Leases = {l1, l2, l3, l4}
  BatchLeases = {l1, l2}
  Max = 2
  BatchMax = 1
  Ttl = 3
  WaitMax = 1
  Budget = 2
  MaxFaults = 2
INVARIANTS
  CapHolds
  BatchHolds
  InteractiveHasSlot
PROPERTIES
  ImplementsSlots
  DeadLeaseExpires
  WaitEnds
