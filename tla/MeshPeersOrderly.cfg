SPECIFICATION DisciplinedSpec
INVARIANT ReplayAccepts
INVARIANT IpsUnique
CONSTANTS
    w1 = w1
    w2 = w2
    w3 = w3
    i1 = i1
    i2 = i2
    i3 = i3
    k1 = k1
    k2 = k2
    None = None
    NoIp = NoIp
    Tombstone = Tombstone
    WgKey <- MCWgKey
    Ip <- MCIp
    CoKey <- MCCoKey
    Founding <- MCFounding
    MaxMeshPeers = 2
    MaxKVSize = 4
    MaxOthers = 2
CONSTRAINT Bound
CHECK_DEADLOCK FALSE
