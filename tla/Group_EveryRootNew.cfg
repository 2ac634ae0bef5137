SPECIFICATION DisciplinedSpec
CONSTANTS
    a = a
    b = b
    c = c
    i1 = i1
    None = None
    Steward = {a, b, c}
    Item = {i1}
    Stamp = {1}
    Payload <- ChurnPayload
    Envelope <- ChurnEnvelope
    MaxStewards = 2
    MaxKVEntries = 6
    MaxLogSize = 9
    MaxSeen = 9
    MaxEvidence = 1
    MaxApplied = 4
    EvidenceBound = 3
PROPERTIES EveryRootNew
CHECK_DEADLOCK FALSE
