CONSTANTS
    ExpireTime = 1
    MaxProcessed = 2
    MaxWaiting = 2
    MaxPackets = 3
    MaxRepeats = 1
SPECIFICATION FairSpec
INVARIANTS TypeOK NoUseAfterFree QueueInOrder
PROPERTIES SessionEnds LoginReached
