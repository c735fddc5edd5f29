\* Two pay calls under one payment hash: the second starts after the first was revoked.
CONSTANTS
    c1 = c1  c2 = c2  h1 = h1  h2 = h2  v1 = v1  v2 = v2
    Calls <- MCCalls
    Hashes <- MCHashes
    InitVtxos <- MCInitVtxos
    InitAmount <- MCEqualAmount
    CallHashes <- MCSharedHash
    PayAmounts = {1, 2}
    Dust = 2
    ExpiryDelta = 1
    VtxoExpiry = 3
    RefreshThreshold = 2
    MaxTip = 3
    MaxSends = 1
    Faults = {}
SPECIFICATION Spec
PROPERTY ServerStatusRefined
