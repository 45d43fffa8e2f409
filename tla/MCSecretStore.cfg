SPECIFICATION SecretFairSpec
CONSTANTS
    Level1Name = {l1}
    Level2Name = {l2}
    CAName = {ca}
    CertName = {cert}
    TokenName = token
    UnsealName = unseal
    KeyType = {KeySet, RSA}
    KeySetType = KeySet
    SigningType = {RSA}
    None = None
    c1 = c1
    c2 = c2
    Caller = {c1, c2}
    Provider <- TwoProviders
    MaxVersion <- Bounds
INVARIANTS
    EveryKeyOpens
    IssuedByCA
    UnsealedOpensToken
PROPERTIES
    Rotations
    SecretCallsReturn
