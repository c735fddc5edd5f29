---------------------------- MODULE LiquidClient ----------------------------
(***************************************************************************)
(* The client payment engine (bark/src/liquid/pay.rs) and the wallet      *)
(* state it writes: the VTXO store, the bark_liquid_send table, and the   *)
(* movement ledger.  The wallet runs its futures on one thread; every     *)
(* .await is a point where another task may run, so each pay call and     *)
(* each check is a task whose program counter stops at those points.      *)
(* Database writes are separate transactions: a crash may fall between    *)
(* any two of them.                                                       *)
(*                                                                         *)
(* pay[c]: the pay_liquid_address call c ("idle" until it starts; "done"  *)
(* and "failed" are final).  chk[h]: the check_liquid_payment task that   *)
(* the wallet runs for the bark_liquid_send row of hash h.                *)
(***************************************************************************)
EXTENDS Integers, FiniteSets, Sequences, SequencesExt

CONSTANTS
    Calls, Hashes, InitVtxos,
    InitAmount,         \* amount of each initial VTXO
    CallHashes,         \* CallHashes[c]: the payment hashes call c may use
    PayAmounts,         \* amounts a call may send
    Dust,               \* P2TR_DUST
    ExpiryDelta,        \* config.htlc_send_expiry_delta (server side)
    VtxoExpiry,         \* expiry_height of the HTLC VTXOs
    RefreshThreshold,   \* config.vtxo_refresh_expiry_threshold
    MaxTip,             \* bound on the chain tip
    Faults

VARIABLES
    net, tip, policy,
    vtxo,           \* wallet VTXO state
    amt,            \* amount of each VTXO
    liquidSend,     \* bark_liquid_send: hash -> row or NoRow
    movement,       \* movement ledger entry of each call
    movFinishes,    \* finish_movement calls per movement, counted up to 2
    movBal,         \* effective_balance of each movement
    pay, chk

clientVars == <<vtxo, amt, liquidSend, movement, movFinishes, movBal, pay, chk>>

Htlc(c)    == <<c, "htlc">>
Change(c)  == <<c, "change">>
Revoked(c) == <<c, "revoked">>
VtxoIds == InitVtxos \cup {<<c, k>> : c \in Calls, k \in {"htlc", "change", "revoked"}}

NoRow == [call |-> "none", finished |-> FALSE]
VtxoState == {"none", "spendable", "locked", "spent", "exit"}
PayPc == {"idle", "cosign", "validate", "lock", "spend", "change", "row", "initiate", "done", "failed"}
ChkPc == {"idle", "status", "revoke"}

Spendable == {v \in VtxoIds : vtxo[v] = "spendable"}
Send(m)          == net' = net \cup {m}
Reply(req, resp) == net' = (net \ {req}) \cup {resp}
\* No request or reply of task t is in flight: the task may issue a call.
Quiet(t) == \A m \in net : m.task # t
\* A request or reply of task t is still in transit.
Outstanding(t) == \E m \in net : m.task = t
\* An RPC of task t returns an error without an answer: a transport
\* timeout, or the request or reply was lost.
RpcFails(t) == "timeout" \in Faults \/ ("lose" \in Faults /\ ~Outstanding(t))
SatSub(a, b) == IF a > b THEN a - b ELSE 0      \* u32::saturating_sub

\* select_vtxos_to_cover (outside src/): a non-empty set of spendable
\* VTXOs whose amounts cover the payment.
Covering(a) == {S \in SUBSET Spendable : S # {} /\ SumFunctionOnSet(amt, S) >= a}

SetPay(c, pc)  == pay' = [pay EXCEPT ![c].pc = pc]
SetChk(h, pc)  == chk' = [chk EXCEPT ![h].pc = pc]

(***************************************************************************)
(* pay_liquid_address                                                     *)
(***************************************************************************)

\* LiquidCommand::Pay as clap parses it: an address (abstracted away) and
\* an Option<Amount>, here the set of at most one amount.
LiquidCommand == [amount : {{}} \cup {{a} : a \in PayAmounts}]

\* bark liquid pay (execute_liquid_command): the CLI draws a fresh random
\* payment hash (one of CallHashes[c]) and unwraps the optional amount;
\* without an amount it panics before pay_liquid_address writes anything.
\* With one, the call is PayRejected or PayRequestCosign for that amount.
CliMissingAmount(c) ==
    /\ pay[c].pc = "idle"
    /\ \E cmd \in LiquidCommand : cmd.amount = {}
    /\ SetPay(c, "failed")
    /\ UNCHANGED <<net, vtxo, amt, liquidSend, movement, movFinishes, movBal, chk>>

\* The early returns: dust amount, a row already under the hash, or no
\* VTXOs to cover the amount.  Nothing is written.
PayRejected(c) ==
    /\ pay[c].pc = "idle"
    /\ \E h \in CallHashes[c], a \in PayAmounts :
        /\ \/ a < Dust
           \/ liquidSend[h] # NoRow
           \/ Covering(a) = {}
        /\ pay' = [pay EXCEPT ![c] = [@ EXCEPT !.pc = "failed", !.hash = h, !.amount = a]]
    /\ UNCHANGED <<net, vtxo, amt, liquidSend, movement, movFinishes, movBal, chk>>

\* The checks pass, nonces are made for the selected inputs and the cosign
\* request goes to the server.
PayRequestCosign(c) ==
    /\ pay[c].pc = "idle"
    /\ \E h \in CallHashes[c], a \in PayAmounts : \E ins \in Covering(a) :
        /\ a >= Dust
        /\ liquidSend[h] = NoRow
        /\ pay' = [pay EXCEPT ![c] = [pc |-> "cosign", hash |-> h, amount |-> a, ins |-> ins]]
        /\ Send([type |-> "CosignReq", task |-> c, ins |-> ins, amount |-> a])
    /\ UNCHANGED <<vtxo, amt, liquidSend, movement, movFinishes, movBal, chk>>

\* The cosign response: a refusal ends the call.  The returned policy is a
\* ServerHtlcSend for the change key; its payment hash is not compared
\* with the call's (the ensure! is commented out).
PayCosigned(c) ==
    /\ pay[c].pc = "cosign"
    /\ \E m \in net :
        /\ m.type = "CosignResp" /\ m.task = c
        /\ net' = net \ {m}
        /\ SetPay(c, IF m.ok THEN "validate" ELSE "failed")
    /\ UNCHANGED <<vtxo, amt, liquidSend, movement, movFinishes, movBal, chk>>

\* validate_vtxo of each HTLC VTXO, then the movement is opened and its
\* effective balance set to minus the HTLC VTXOs' total, which is the
\* amount (the package's HTLC output is exactly the amount).
PayValidate(c) ==
    /\ pay[c].pc = "validate"
    /\ movement' = [movement EXCEPT ![c] = "open"]
    /\ movBal' = [movBal EXCEPT ![c] = -pay[c].amount]
    /\ SetPay(c, "lock")
    /\ UNCHANGED <<net, vtxo, amt, liquidSend, movFinishes, chk>>

\* store_locked_vtxos(htlc_vtxos)
PayStoreLocked(c) ==
    /\ pay[c].pc = "lock"
    /\ vtxo' = [vtxo EXCEPT ![Htlc(c)] = "locked"]
    /\ amt' = [amt EXCEPT ![Htlc(c)] = pay[c].amount]
    /\ SetPay(c, "spend")
    /\ UNCHANGED <<net, liquidSend, movement, movFinishes, movBal, chk>>

\* mark_vtxos_as_spent(input_ids)
PayMarkInputsSpent(c) ==
    /\ pay[c].pc = "spend"
    /\ vtxo' = [v \in VtxoIds |-> IF v \in pay[c].ins THEN "spent" ELSE vtxo[v]]
    /\ SetPay(c, "change")
    /\ UNCHANGED <<net, amt, liquidSend, movement, movFinishes, movBal, chk>>

\* The change output of the package: what the inputs hold beyond the
\* amount.  Seeded fault: the subtraction reversed.
ChangeAmountReversed(c) == pay[c].amount - SumFunctionOnSet(amt, pay[c].ins)
ChangeAmount(c) == SumFunctionOnSet(amt, pay[c].ins) - pay[c].amount

\* The change VTXO is validated against the last input's chain anchor
\* (chain.get_tx) and stored spendable.
PayStoreChange(c) ==
    /\ pay[c].pc = "change"
    /\ LET change == ChangeAmount(c) IN
       /\ vtxo' = IF change > 0 THEN [vtxo EXCEPT ![Change(c)] = "spendable"] ELSE vtxo
       /\ amt' = [amt EXCEPT ![Change(c)] = change]
    /\ SetPay(c, "row")
    /\ UNCHANGED <<net, liquidSend, movement, movFinishes, movBal, chk>>

\* The movement gets the change and HTLC metadata; then
\* store_new_pending_liquid_send inserts the row (payment_hash UNIQUE: the
\* insert fails if a concurrent call stored one since the early check).
\* On success the InitiateLiquidPayment request is sent.
PayStoreRow(c) ==
    /\ pay[c].pc = "row"
    /\ LET h == pay[c].hash IN
       IF liquidSend[h] = NoRow
       THEN /\ liquidSend' = [liquidSend EXCEPT ![h] = [call |-> c, finished |-> FALSE]]
            /\ SetPay(c, "initiate")
            /\ Send([type |-> "InitReq", task |-> c, hash |-> h])
       ELSE /\ SetPay(c, "failed")
            /\ UNCHANGED <<liquidSend, net>>
    /\ UNCHANGED <<vtxo, amt, movement, movFinishes, movBal, chk>>

\* The initiate reply is only logged; the call returns Ok.
PayInitiated(c) ==
    /\ pay[c].pc = "initiate"
    /\ \E m \in net :
        /\ m.type = "InitResp" /\ m.task = c
        /\ net' = net \ {m}
    /\ SetPay(c, "done")
    /\ UNCHANGED <<vtxo, amt, liquidSend, movement, movFinishes, movBal, chk>>

\* An awaited chain call (validate_vtxo, chain.get_tx) fails: the ? operator
\* returns the error with whatever was already written.
PayChainError(c) ==
    /\ "chainerr" \in Faults
    /\ pay[c].pc = "validate" \/ (pay[c].pc = "change" /\ ChangeAmount(c) > 0)
    /\ SetPay(c, "failed")
    /\ UNCHANGED <<net, vtxo, amt, liquidSend, movement, movFinishes, movBal, chk>>

\* A call to the wallet database or the movement ledger fails
\* (new_movement, update_movement, store_locked_vtxos, mark_vtxos_as_spent,
\* store_spendable_vtxos, store_new_pending_liquid_send): the ? returns the
\* error with whatever was already written.  Where update_movement fails
\* after new_movement, the movement is open with no balance set.
PayDbError(c) ==
    /\ "dberr" \in Faults
    /\ pay[c].pc \in {"validate", "lock", "spend", "change", "row"}
    /\ \E opened \in IF pay[c].pc = "validate" THEN BOOLEAN ELSE {FALSE} :
        movement' = IF opened THEN [movement EXCEPT ![c] = "open"] ELSE movement
    /\ SetPay(c, "failed")
    /\ UNCHANGED <<net, vtxo, amt, liquidSend, movFinishes, movBal, chk>>

\* The cosign RPC times out: the ? returns before anything is written,
\* and the request may still reach the server.
PayRpcTimeout(c) ==
    /\ pay[c].pc = "cosign"
    /\ RpcFails(c)
    /\ SetPay(c, "failed")
    /\ UNCHANGED <<net, vtxo, amt, liquidSend, movement, movFinishes, movBal, chk>>

\* The initiate RPC times out after the row is stored: the call returns
\* the error, the row stays Pending, and the request may still be served.
InitiateRpcTimeout(c) ==
    /\ pay[c].pc = "initiate"
    /\ RpcFails(c)
    /\ SetPay(c, "failed")
    /\ UNCHANGED <<net, vtxo, amt, liquidSend, movement, movFinishes, movBal, chk>>

(***************************************************************************)
(* check_liquid_payment and process_liquid_revocation                     *)
(***************************************************************************)

\* The wallet's tick picks up the row of hash h: it reads the chain tip and
\* queries the server under the hash embedded in the HTLC policy.  Rows
\* already finished are passed again only where "recheck" is enabled.
CheckStart(h) ==
    /\ chk[h].pc = "idle"
    /\ Quiet(h)
    /\ liquidSend[h] # NoRow
    /\ ~liquidSend[h].finished \/ "recheck" \in Faults
    /\ chk' = [chk EXCEPT ![h] = [pc |-> "status", tip |-> tip]]
    /\ Send([type |-> "CheckReq", task |-> h, hash |-> policy[liquidSend[h].call].hash])
    /\ UNCHANGED <<vtxo, amt, liquidSend, movement, movFinishes, movBal, pay>>

(***************************************************************************)
(* The terminal branches of check_liquid_payment are sequences of writes  *)
(* to the wallet database and the movement ledger, each its own           *)
(* transaction and each followed by ?.  A write is the sequence of cells  *)
(* one call sets; finish_movement also counts the finish.                 *)
(***************************************************************************)
Cell(var, key, val) == [var |-> var, key |-> key, val |-> val]
WalletState == [vtxo |-> vtxo, amt |-> amt, liquidSend |-> liquidSend,
                movement |-> movement, movFinishes |-> movFinishes, movBal |-> movBal]
SetCell(w, u) ==
    IF u.var = "movement"
    THEN [w EXCEPT !.movement[u.key] = u.val,
                   !.movFinishes[u.key] = IF @ < 2 THEN @ + 1 ELSE 2]
    ELSE [w EXCEPT ![u.var][u.key] = u.val]
ApplyWrites(w, ws) == FoldLeft(LAMBDA acc, wr : FoldLeft(SetCell, acc, wr), w, ws)

\* update_movement's effective_balance after a revocation or an exit:
\* -payment.amount plus the value the wallet gets back (the revoked or the
\* exited VTXOs).  Seeded fault: the value got back is left out.
MovementBalanceDropped(c, back) == -pay[c].amount
MovementBalance(c, back) == back - pay[c].amount

\* The exit branch, taken when the revocation failed: if
\* tip > min_expiry.saturating_sub(vtxo_refresh_expiry_threshold),
\* mark_vtxos_for_exit, then update_movement and finish_movement(Failed)
\* (a failure of either leaves the movement open).  The row is left in
\* place (its removal is commented out).
ExitWrites(h) ==
    LET c == liquidSend[h].call IN
    IF chk[h].tip > SatSub(VtxoExpiry, RefreshThreshold)
    THEN << <<Cell("vtxo", Htlc(c), "exit")>>,
            <<Cell("movBal", c, MovementBalance(c, amt[Htlc(c)]))>>,
            <<Cell("movement", c, "Failed")>> >>
    ELSE << >>

\* process_liquid_revocation after the cosign: update_movement,
\* store_spendable_vtxos(revoked), mark_vtxos_as_spent(htlc_vtxos),
\* finish_movement(Failed), remove_liquid_send.  Seeded faults: the row
\* removal dropped; the revoked VTXOs marked spent instead of the HTLC.
RevokeKeepRow(h) ==
    LET c == liquidSend[h].call IN
    << <<Cell("movBal", c, MovementBalance(c, amt[Htlc(c)]))>>,
       <<Cell("vtxo", Revoked(c), "spendable"), Cell("amt", Revoked(c), amt[Htlc(c)])>>,
       <<Cell("vtxo", Htlc(c), "spent")>>, <<Cell("movement", c, "Failed")>> >>
RevokeSpendsRevoked(h) ==
    LET c == liquidSend[h].call IN
    << <<Cell("movBal", c, MovementBalance(c, amt[Htlc(c)]))>>,
       <<Cell("vtxo", Revoked(c), "spendable"), Cell("amt", Revoked(c), amt[Htlc(c)])>>,
       <<Cell("vtxo", Revoked(c), "spent")>>, <<Cell("movement", c, "Failed")>>,
       <<Cell("liquidSend", h, NoRow)>> >>
RevokeWrites(h) ==
    LET c == liquidSend[h].call IN
    << <<Cell("movBal", c, MovementBalance(c, amt[Htlc(c)]))>>,
       <<Cell("vtxo", Revoked(c), "spendable"), Cell("amt", Revoked(c), amt[Htlc(c)])>>,
       <<Cell("vtxo", Htlc(c), "spent")>>, <<Cell("movement", c, "Failed")>>,
       <<Cell("liquidSend", h, NoRow)>> >>

\* check_liquid_payment revokes on Failed, and on Pending once
\* tip > policy.htlc_expiry.  Seeded faults: the expiry test is >=; the
\* Pending branch never revokes.
ShouldRevokeAtExpiry(status, ctip, expiry) ==
    status = "Failed" \/ (status = "Pending" /\ ctip >= expiry)
ShouldRevokeOnlyFailed(status, ctip, expiry) == status = "Failed"
ShouldRevoke(status, ctip, expiry) ==
    status = "Failed" \/ (status = "Pending" /\ ctip > expiry)

\* The Complete branch: finish_liquid_send, mark_vtxos_as_spent on the HTLC
\* VTXOs, finish_movement(Finished).  Seeded fault: the finish_movement
\* call is missing.
CompleteWritesNoMovement(h, c) ==
    << <<Cell("liquidSend", h, [liquidSend[h] EXCEPT !.finished = TRUE])>>,
       <<Cell("vtxo", Htlc(c), "spent")>> >>
CompleteWrites(h, c) ==
    << <<Cell("liquidSend", h, [liquidSend[h] EXCEPT !.finished = TRUE])>>,
       <<Cell("vtxo", Htlc(c), "spent")>>, <<Cell("movement", c, "Finished")>> >>

\* The wallet process dies: running calls and checks are gone, the
\* database survives.
CrashTasks ==
    /\ pay' = [c \in Calls |-> IF pay[c].pc \in {"idle", "done"} THEN pay[c]
                               ELSE [pay[c] EXCEPT !.pc = "failed"]]
    /\ chk' = [h \in Hashes |-> [chk[h] EXCEPT !.pc = "idle"]]

\* Check h makes the writes ws in order; es are the writes of the path the
\* code takes when one of them returns an error (the exit branch after a
\* failed revocation, nothing after the Complete branch).  Without faults
\* all of ws is written.  With "dberr" a write may fail: the writes before
\* it stay and es runs, and its own writes may fail in turn.  With "crash"
\* the process may die between any two writes.
WriteThrough(h, ws, es) ==
    \E k \in 0..Len(ws), j \in 0..Len(es), crashed \in BOOLEAN :
        /\ \/ k = Len(ws) /\ j = 0 /\ ~crashed
           \/ "dberr" \in Faults /\ k < Len(ws) /\ ~crashed
           \/ /\ "crash" \in Faults /\ crashed /\ k < Len(ws)
              /\ j = 0 \/ ("dberr" \in Faults /\ j < Len(es))
        /\ LET w == ApplyWrites(WalletState, SubSeq(ws, 1, k) \o SubSeq(es, 1, j)) IN
           /\ vtxo' = w.vtxo
           /\ amt' = w.amt
           /\ liquidSend' = w.liquidSend
           /\ movement' = w.movement
           /\ movFinishes' = w.movFinishes
           /\ movBal' = w.movBal
        /\ IF crashed THEN CrashTasks ELSE SetChk(h, "idle") /\ UNCHANGED pay

\* The server's status reply.  Complete: the Complete branch.  Failed, or
\* Pending with tip > htlc_expiry: the RevokeLiquidPayHtlc request is
\* sent.  Pending otherwise: nothing.  An error reply ("Payment not found")
\* returns the error before any of it.
CheckReply(h) ==
    /\ chk[h].pc = "status"
    /\ \E m \in net :
        /\ m.type = "CheckResp" /\ m.task = h
        /\ LET c == liquidSend[h].call IN
           CASE ShouldRevoke(m.status, chk[h].tip, policy[c].expiry) ->
                   /\ Reply(m, [type |-> "RevokeReq", task |-> h, call |-> c])
                   /\ SetChk(h, "revoke")
                   /\ UNCHANGED <<vtxo, amt, liquidSend, movement, movFinishes, movBal, pay>>
             [] m.status = "Complete" ->
                   /\ net' = net \ {m}
                   /\ WriteThrough(h, CompleteWrites(h, c), << >>)
             [] OTHER ->
                   /\ net' = net \ {m}
                   /\ SetChk(h, "idle")
                   /\ UNCHANGED <<vtxo, amt, liquidSend, movement, movFinishes, movBal, pay>>

\* The revocation cosign reply: a verified cosignature revokes, a refusal
\* falls to the exit branch.
RevokeReply(h) ==
    /\ chk[h].pc = "revoke"
    /\ \E m \in net :
        /\ m.type = "RevokeResp" /\ m.task = h
        /\ net' = net \ {m}
        /\ IF m.ok THEN WriteThrough(h, RevokeWrites(h), ExitWrites(h))
           ELSE WriteThrough(h, ExitWrites(h), << >>)

\* The check RPC times out: the ? returns the error and the check ends.
CheckRpcTimeout(h) ==
    /\ chk[h].pc = "status"
    /\ RpcFails(h)
    /\ SetChk(h, "idle")
    /\ UNCHANGED <<net, vtxo, amt, liquidSend, movement, movFinishes, movBal, pay>>

\* The revocation RPC times out: process_liquid_revocation returns the
\* error and check_liquid_payment runs the exit branch.
RevokeRpcTimeout(h) ==
    /\ chk[h].pc = "revoke"
    /\ RpcFails(h)
    /\ WriteThrough(h, ExitWrites(h), << >>)
    /\ UNCHANGED net

\* The wallet process crashes and restarts: running calls and checks are
\* gone, the database survives.
ClientCrash ==
    /\ "crash" \in Faults
    /\ CrashTasks
    /\ UNCHANGED <<net, vtxo, amt, liquidSend, movement, movFinishes, movBal>>

PayStep(c) ==
    \/ CliMissingAmount(c) \/ PayRejected(c) \/ PayRequestCosign(c) \/ PayCosigned(c) \/ PayValidate(c)
    \/ PayStoreLocked(c) \/ PayMarkInputsSpent(c) \/ PayStoreChange(c)
    \/ PayStoreRow(c) \/ PayInitiated(c)

CheckStep(h) == CheckStart(h) \/ CheckReply(h) \/ RevokeReply(h)

Next ==
    \/ \E c \in Calls : PayStep(c) \/ PayChainError(c) \/ PayDbError(c)
                        \/ PayRpcTimeout(c) \/ InitiateRpcTimeout(c)
    \/ \E h \in Hashes : CheckStep(h) \/ CheckRpcTimeout(h) \/ RevokeRpcTimeout(h)
    \/ ClientCrash
=============================================================================
