-------------------------- MODULE LiquidPaymentRecord --------------------------
(***************************************************************************)
(* What the server promises about its LiquidPayment record of each        *)
(* payment hash (spec sections 3 and 4.4), together with the sidechain    *)
(* facts the status stands for.  A payment is created Pending; forwarding *)
(* makes it Sent with a broadcast transaction, or Failed (an RPC error,   *)
(* after which the node may still have broadcast); it becomes Confirmed   *)
(* only once its transaction is confirmed.  Confirmed and Failed are      *)
(* terminal.  The record lives in memory, so a restart forgets every      *)
(* payment (spec 4.4, State).                                             *)
(*                                                                         *)
(* status[h]: the record's status, "None" when there is none;             *)
(* paid[h]: a sidechain transaction for h was broadcast;                  *)
(* conf[h]: it has a confirmation.                                        *)
(***************************************************************************)
CONSTANT Hashes
VARIABLES status, paid, conf

vars == <<status, paid, conf>>

Init ==
    /\ status = [h \in Hashes |-> "None"]
    /\ paid = [h \in Hashes |-> FALSE]
    /\ conf = [h \in Hashes |-> FALSE]

SetStatus(h, from, to) ==
    /\ status[h] = from
    /\ status' = [status EXCEPT ![h] = to]

Create(h) ==
    /\ SetStatus(h, "None", "Pending")
    /\ UNCHANGED <<paid, conf>>

Broadcast(h) ==
    /\ SetStatus(h, "Pending", "Sent")
    /\ paid' = [paid EXCEPT ![h] = TRUE]
    /\ UNCHANGED conf

Fail(h) ==
    /\ status[h] \in {"Pending", "Sent"}
    /\ status' = [status EXCEPT ![h] = "Failed"]
    /\ \E p \in {paid[h], TRUE} : paid' = [paid EXCEPT ![h] = p]
    /\ UNCHANGED conf

ConfirmOnChain(h) ==
    /\ paid[h] /\ ~conf[h]
    /\ conf' = [conf EXCEPT ![h] = TRUE]
    /\ UNCHANGED <<status, paid>>

Confirm(h) ==
    /\ conf[h]
    /\ SetStatus(h, "Sent", "Confirmed")
    /\ UNCHANGED <<paid, conf>>

\* A restart forgets every record; a Pending payment's broadcast may
\* still go out.
Forget ==
    /\ status' = [h \in Hashes |-> "None"]
    /\ \E late \in SUBSET {h \in Hashes : status[h] = "Pending"} :
        paid' = [h \in Hashes |-> paid[h] \/ h \in late]
    /\ UNCHANGED conf

Next ==
    \/ \E h \in Hashes :
        Create(h) \/ Broadcast(h) \/ Fail(h) \/ ConfirmOnChain(h) \/ Confirm(h)
    \/ Forget

Spec == Init /\ [][Next]_vars
=============================================================================
