SPECIFICATION DisciplinedSpec
CONSTANTS
    a = a
    b = b
    c = c
    i1 = i1
    None = None
    Steward = {a, b, c}
    Item = {i1}
    Stamp = {1}
    Payload <- ChurnPayload
    Envelope <- ChurnEnvelope
    MaxStewards = 2
    MaxKVEntries = 4
    MaxLogSize = 9
    MaxSeen = 1
    MaxEvidence = 1
    MaxApplied = 4
    EvidenceBound = 2
INVARIANTS TypeOK RootCommits StewardsCapped AuthenticationOn
PROPERTIES HistoryFrozen
CHECK_DEADLOCK FALSE
