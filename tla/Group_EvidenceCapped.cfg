SPECIFICATION DisciplinedSpec
CONSTANTS
    a = a
    b = b
    c = c
    i1 = i1
    None = None
    Steward = {a, b, c}
    Item = {i1}
    Stamp = {1}
    Payload <- ForkPayload
    Envelope <- ForkEnvelope
    MaxStewards = 2
    MaxKVEntries = 6
    MaxLogSize = 9
    MaxSeen = 9
    MaxEvidence = 1
    MaxApplied = 4
    EvidenceBound = 3
INVARIANTS EvidenceCapped
CHECK_DEADLOCK FALSE
