--------------------------- MODULE MCLiquidSystem ---------------------------
(***************************************************************************)
(* Instances of LiquidSystem for TLC: two pay calls, two payment hashes,  *)
(* two wallet VTXOs of amounts 2 and 1.  Each call sends 1 or 2 with      *)
(* P2TR_DUST = 2, so the dust rejection, a payment with change and one    *)
(* without change, and two calls competing for the same VTXO all occur.   *)
(***************************************************************************)
EXTENDS LiquidSystem, TLC

CONSTANTS c1, c2, h1, h2, v1, v2

MCCalls == {c1, c2}
MCHashes == {h1, h2}
MCInitVtxos == {v1, v2}
MCInitAmount == (v1 :> 2) @@ (v2 :> 1)
\* Two VTXOs that each cover a payment on their own.
MCEqualAmount == (v1 :> 2) @@ (v2 :> 2)
\* Each call uses its own hash (the CLI draws a random one per call).
MCDistinctHashes == (c1 :> {h1}) @@ (c2 :> {h2})
\* Both calls may use the same hash (a library caller reusing it).
MCSharedHash == (c1 :> {h1}) @@ (c2 :> {h1})
\* One call and one hash, for the runs with every fault enabled.
MCOneCall == {c1}
MCOneHash == {h1}
MCOneCallHash == (c1 :> {h1})
=============================================================================
