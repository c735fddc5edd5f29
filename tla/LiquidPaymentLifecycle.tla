------------------------- MODULE LiquidPaymentLifecycle -------------------------
(***************************************************************************)
(* What the bridge promises for one payment hash (spec section 4.3): once *)
(* the HTLC is locked under the hash, the payment ends in exactly one of  *)
(* completed, revoked or exited, and a terminal payment never changes.    *)
(***************************************************************************)
CONSTANT Hashes
VARIABLE pstate

States == {"none", "locked", "completed", "revoked", "exited"}

Init == pstate = [h \in Hashes |-> "none"]

Move(h, from, to) ==
    /\ pstate[h] = from
    /\ pstate' = [pstate EXCEPT ![h] = to]

Lock(h)     == Move(h, "none", "locked")
Complete(h) == Move(h, "locked", "completed")
Revoke(h)   == Move(h, "locked", "revoked")
Exit(h)     == Move(h, "locked", "exited")

Next == \E h \in Hashes : Lock(h) \/ Complete(h) \/ Revoke(h) \/ Exit(h)

Spec == Init /\ [][Next]_pstate
=============================================================================
