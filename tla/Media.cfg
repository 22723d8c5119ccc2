CONSTANTS
    Peers <- MCPeers
    Plans <- MCPlans
    Families <- MCFamilies
    SeqModulus = 7
    BlpBits = 2
    MaxFragment = 5
    StoreSize = 4
    QueueLimit = 2
SPECIFICATION FairSpec
CHECK_DEADLOCK FALSE
INVARIANTS MediaInv Transferred ReceivedAsSent UnitsIntact
 
