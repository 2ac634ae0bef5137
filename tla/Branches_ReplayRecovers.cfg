SPECIFICATION Spec
CONSTANTS
    ann = ann
    bob = bob
    None = None
    Steward = {ann, bob}
    Payload <- Payloads
    MaxKV = 6
    MaxBranches = 2
    MaxTime = 1
    MaxSaved = 4
    MaxFaults = 1
    Token = 5
    Rate = 2
    Burst = 8
INVARIANT ReplayRecovers
