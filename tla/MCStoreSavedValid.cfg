CONSTANTS
    Key = {k1, k2}
    Version = {v1}
    NoVersion = v0
    Writer = {w1, w2, w3}
    Nobody = Nobody
    NRetry = 2
    MaxSeq = 4
SPECIFICATION StoreSpec
SYMMETRY StoreSymmetry
PROPERTIES
    SavedIsValid
\* The bound on cfg_seq ends every behaviour of the model.
CHECK_DEADLOCK FALSE
