SPECIFICATION FairTeam
CONSTANTS
    V1 = V1
    V2 = V2
    text1 = text1
    text2 = text2
    comment1 = comment1
    Ids = {V1, V2}
    Supplied = {V1}
    None = None
    Texts = {text1, text2}
    Comments = {comment1}
    MaxRounds = 3
    MaxAttempts = 2
    Findings <- SmallFindings
    MaxTotal = 4
    Reported = 3
    MaxFindings = 2
    MaxBytes = 7
    Reserve = 1
    BaseSize = 1
INVARIANTS
    EvidenceFaithful
    ReviewFaithful
PROPERTY TeamRetriesBounded
CHECK_DEADLOCK FALSE
