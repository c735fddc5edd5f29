\* Fault-free runs: two calls with their own hashes; the server may embed either hash in a policy.
CONSTANTS
    c1 = c1  c2 = c2  h1 = h1  h2 = h2  v1 = v1  v2 = v2
    Calls <- MCCalls
    Hashes <- MCHashes
    InitVtxos <- MCInitVtxos
    InitAmount <- MCInitAmount
    CallHashes <- MCDistinctHashes
    PayAmounts = {1, 2}
    Dust = 2
    ExpiryDelta = 1
    VtxoExpiry = 3
    RefreshThreshold = 2
    MaxTip = 2
    MaxSends = 1
    Faults = {}
SPECIFICATION Spec
INVARIANTS TypeOK MovementFinishedOnce HtlcTracked RowConsistent LedgerMatchesWallet
PROPERTIES LifecycleRefined PaymentResolves
