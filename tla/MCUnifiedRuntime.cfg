SPECIFICATION Spec
CONSTANTS
    MaxIndex = 3
    MaxSigned = 3
    Cadence = 1
    MaxDrift = 0
    MinConfidence = 8000
    Confidences <- MCConfidences
    MaxSequence = 3
    MaxGaps = 2
    Setups <- MCSetups
    Nows <- MCNows
INVARIANTS
    LockLatches
PROPERTIES
    CursorAdvances
    NoTickSpentTwice
    StreamFaultFreezes
