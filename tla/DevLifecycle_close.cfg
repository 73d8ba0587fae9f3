\* closeDev() on every history of calls.
SPECIFICATION FairSpec
CONSTANT Group = {g1, g2}
CONSTANT MaxUdpMcGroups = 1
CONSTANT MAX_ENTRIES_PER_LANE = 1
PROPERTY CloseAlwaysReturns
CHECK_DEADLOCK FALSE
