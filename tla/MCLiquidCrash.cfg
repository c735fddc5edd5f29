\* The wallet crashes between two of the database writes of pay_liquid_address.
CONSTANTS
    c1 = c1  c2 = c2  h1 = h1  h2 = h2  v1 = v1  v2 = v2
    Calls <- MCOneCall
    Hashes <- MCOneHash
    InitVtxos <- MCInitVtxos
    InitAmount <- MCInitAmount
    CallHashes <- MCOneCallHash
    PayAmounts = {1, 2}
    Dust = 2
    ExpiryDelta = 1
    VtxoExpiry = 3
    RefreshThreshold = 2
    MaxTip = 3
    MaxSends = 1
    Faults = {"crash"}
SPECIFICATION Spec
INVARIANT HtlcTracked
