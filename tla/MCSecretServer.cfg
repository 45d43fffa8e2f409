SPECIFICATION SecretServerSpec
CONSTANTS
    KeyName <- OneKey
    TypeOf <- OneKeyType
    Alg = {"RS256", "PS512"}
    Asked <- Requests
    RootName = {r1}
    CAName = {a1, a2}
    CertName = {n1}
    Caller = {c1, c2}
    None = None
    MaxLevels = 3
    MaxKey = 2
    MaxTokens = 3
    MaxSerial = 4
CONSTRAINT TokensOrCerts
SYMMETRY SecretServerSymmetry
INVARIANTS
    TokensVerify
    AdminDescends
    ChainsComplete
    FetchedFits
\* All requests may have been answered and the serial numbers be used up.
CHECK_DEADLOCK FALSE
