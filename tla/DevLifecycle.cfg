\* One life of the device, every legal order of calls, threads as slow as can be.
\* It ends when the device is closed.
SPECIFICATION FairSpec
CONSTANT Group = {g1, g2}
CONSTANT MaxUdpMcGroups = 2
CONSTANT MAX_ENTRIES_PER_LANE = 2
INVARIANT ThreadsGone
INVARIANT EntryThere
INVARIANT GroupsLeft
PROPERTY StartReturns
PROPERTY CloseReturns
PROPERTY GroupsAnnounced
CHECK_DEADLOCK FALSE
