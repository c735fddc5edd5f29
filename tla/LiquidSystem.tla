---------------------------- MODULE LiquidSystem ----------------------------
(***************************************************************************)
(* The wallet's payment engine and the server bridge together, over a     *)
(* message set net, with the bitcoin chain tip and the sidechain as the   *)
(* environment.  Faults is the set of failure modes a configuration       *)
(* enables:                                                                *)
(*   "crash"     the wallet process crashes between two steps;            *)
(*   "restart"   the server restarts and loses liquid_payments;            *)
(*   "lose"      a request or reply is lost in transit;                   *)
(*   "timeout"   an RPC times out while its request may still be served;   *)
(*   "chainerr"  an awaited chain call (validate, get_tx, gettransaction)  *)
(*               fails;                                                    *)
(*   "ambiguous" sendtoaddress errors after broadcasting;                  *)
(*   "recheck"   the wallet passes finished rows to check_liquid_payment.  *)
(***************************************************************************)
EXTENDS Integers, FiniteSets, Functions

CONSTANTS
    Calls, Hashes, InitVtxos, InitAmount, CallHashes, PayAmounts, Dust,
    ExpiryDelta, VtxoExpiry, RefreshThreshold, MaxTip, MaxSends, Faults

VARIABLES
    net, tip, policy,
    payments, sidechain, sideConf, srvVtxo, srvAmt, srvInit, srvChecks,
    vtxo, amt, liquidSend, movement, movFinishes, movBal, pay, chk

S == INSTANCE LiquidServer
C == INSTANCE LiquidClient

serverVars == <<payments, sidechain, sideConf, srvVtxo, srvAmt, srvInit, srvChecks>>
clientVars == <<vtxo, amt, liquidSend, movement, movFinishes, movBal, pay, chk>>
vars == <<net, tip, policy, serverVars, clientVars>>

Htlc(c)    == <<c, "htlc">>
Revoked(c) == <<c, "revoked">>
Change(c)  == <<c, "change">>
NoRow == C!NoRow
NoPolicy == S!NoPolicy

Init ==
    /\ net = {}
    /\ tip = 0
    /\ policy = [c \in Calls |-> NoPolicy]
    /\ payments = [h \in Hashes |-> "None"]
    /\ sidechain = [h \in Hashes |-> 0]
    /\ sideConf = [h \in Hashes |-> FALSE]
    /\ srvVtxo = [v \in C!VtxoIds |-> IF v \in InitVtxos THEN "spendable" ELSE "none"]
    /\ srvAmt = [v \in C!VtxoIds |-> IF v \in InitVtxos THEN InitAmount[v] ELSE 0]
    /\ srvInit = {}
    /\ srvChecks = {}
    /\ vtxo = srvVtxo
    /\ amt = srvAmt
    /\ liquidSend = [h \in Hashes |-> NoRow]
    /\ movement = [c \in Calls |-> "none"]
    /\ movFinishes = [c \in Calls |-> 0]
    /\ movBal = [c \in Calls |-> 0]
    /\ pay = [c \in Calls |-> [pc |-> "idle", hash |-> "none", amount |-> 0, ins |-> {}]]
    /\ chk = [h \in Hashes |-> [pc |-> "idle", tip |-> 0]]

\* The reply type a task is waiting for, if any.
Awaits(t) ==
    IF t \in Calls
    THEN CASE pay[t].pc = "cosign" -> "CosignResp" [] pay[t].pc = "initiate" -> "InitResp"
              [] OTHER -> "none"
    ELSE CASE chk[t].pc = "status" -> "CheckResp" [] chk[t].pc = "revoke" -> "RevokeResp"
              [] OTHER -> "none"
Replies == {"CosignResp", "InitResp", "CheckResp", "RevokeResp"}

\* A reply for a call that has returned is dropped by the RPC stack.
DiscardStale(m) ==
    /\ m.type \in Replies
    /\ Awaits(m.task) # m.type
    /\ net' = net \ {m}
    /\ UNCHANGED <<tip, policy, serverVars, clientVars>>

Lose(m) ==
    /\ "lose" \in Faults
    /\ net' = net \ {m}
    /\ UNCHANGED <<tip, policy, serverVars, clientVars>>

AdvanceTip ==
    /\ tip < MaxTip
    /\ tip' = tip + 1
    /\ UNCHANGED <<net, policy, serverVars, clientVars>>

\* Every call has returned, nothing is in flight and the tip is at its
\* bound: the model stops here.
Terminated ==
    /\ \A c \in Calls : pay[c].pc \in {"done", "failed"}
    /\ net = {} /\ srvInit = {} /\ srvChecks = {} /\ tip = MaxTip
    /\ UNCHANGED vars

ClientNext == C!Next /\ UNCHANGED <<tip, policy, serverVars>>
ServerNext == S!Next /\ UNCHANGED <<tip, clientVars>>

Next ==
    \/ ClientNext
    \/ ServerNext
    \/ AdvanceTip
    \/ \E m \in net : DiscardStale(m) \/ Lose(m)
    \/ Terminated

\* The wallet polls its futures and runs check_liquid_payment on every
\* tick; the server serves every client task's requests; blocks keep coming.
\* Faults and sidechain confirmations get no fairness.
Fairness ==
    /\ \A c \in Calls : WF_vars(C!PayStep(c) /\ UNCHANGED <<tip, policy, serverVars>>)
    /\ \A h \in Hashes : WF_vars(C!CheckStep(h) /\ UNCHANGED <<tip, policy, serverVars>>)
    /\ \A t \in Calls \cup Hashes : WF_vars(S!Serve(t) /\ UNCHANGED <<tip, clientVars>>)
    /\ \A c \in Calls : WF_vars(S!Forward(c) /\ UNCHANGED <<tip, clientVars>>)
    /\ \A h \in Hashes : WF_vars(S!Query(h) /\ UNCHANGED <<tip, clientVars>>)
    /\ WF_vars(\E m \in net : DiscardStale(m))
    /\ WF_vars(AdvanceTip)

Spec == Init /\ [][Next]_vars /\ Fairness

-----------------------------------------------------------------------------
(* Properties *)

TypeOK ==
    /\ tip \in 0..MaxTip
    /\ policy \in [Calls -> [hash : Hashes \cup {"none"}, expiry : 0..(MaxTip + ExpiryDelta)]]
    /\ payments \in [Hashes -> S!Status]
    /\ sidechain \in [Hashes -> 0..MaxSends]
    /\ sideConf \in [Hashes -> BOOLEAN]
    /\ srvVtxo \in [C!VtxoIds -> {"none", "spendable", "spent"}]
    /\ srvAmt \in [C!VtxoIds -> Nat]
    /\ srvInit \subseteq [hash : Hashes, task : Calls]
    /\ srvChecks \subseteq [hash : Hashes, task : Hashes]
    /\ vtxo \in [C!VtxoIds -> C!VtxoState]
    /\ amt \in [C!VtxoIds -> Nat]
    /\ liquidSend \in [Hashes -> {NoRow} \cup [call : Calls, finished : BOOLEAN]]
    /\ movement \in [Calls -> {"none", "open", "Finished", "Failed"}]
    /\ movBal \in [Calls -> Int]
    /\ pay \in [Calls -> [pc : C!PayPc, hash : Hashes \cup {"none"}, amount : Nat,
                          ins : SUBSET C!VtxoIds]]
    /\ chk \in [Hashes -> [pc : C!ChkPc, tip : 0..MaxTip]]
    /\ \A m \in net : m.type \in Replies \cup {"CosignReq", "InitReq", "CheckReq", "RevokeReq"}

\* The wallet finishes a bark_liquid_send row (finish_liquid_send in the
\* Complete branch of check_liquid_payment) only after a sidechain
\* transaction for that payment hash has a confirmation: the client's
\* Complete must come from the server's gettransaction, through
\* initiate_liquid_payment's Sent, for the same hash.
FinishedOnlyIfConfirmed ==
    \A h \in Hashes : liquidSend[h] # NoRow /\ liquidSend[h].finished => sideConf[h]

\* Each payment's movement is finished once: check_liquid_payment reaches
\* exactly one of the Complete branch, the revocation or the exit branch,
\* and never again afterwards.
MovementFinishedOnce == \A c \in Calls : movFinishes[c] <= 1

\* liquid_payments implements the server's promise (LiquidPaymentRecord,
\* spec 3 and 4.4): a record is created Pending, moves to Sent only with a
\* broadcast, to Confirmed only from Sent once the broadcast is confirmed,
\* Confirmed and Failed never change, and only a restart clears records.
\* initiate_liquid_payment and check_liquid_payment both leave the mutex
\* for an Elements RPC and store a result from a clone afterwards.
PaymentRecord == INSTANCE LiquidPaymentRecord
    WITH status <- payments, paid <- [h \in Hashes |-> sidechain[h] > 0], conf <- sideConf
ServerStatusRefined == PaymentRecord!Spec

\* Every HTLC VTXO the wallet holds locked is tracked: a row of
\* bark_liquid_send names its call, or that pay_liquid_address call is
\* still running.  Otherwise no check ever revokes or exits it.
HtlcTracked ==
    \A c \in Calls :
        vtxo[Htlc(c)] = "locked" =>
            \/ pay[c].pc \in {"spend", "change", "row"}
            \/ \E h \in Hashes : liquidSend[h].call = c

\* Spec 8.2: while a bark_liquid_send row exists, its HTLC VTXO is locked,
\* or it is spent or marked for exit and the payment's movement is
\* terminal.  The Complete branch, the exit branch and the revocation of
\* check_liquid_payment each must write both before the row is seen again.
RowConsistent ==
    \A h \in Hashes : liquidSend[h] # NoRow =>
        LET c == liquidSend[h].call IN
        \/ vtxo[Htlc(c)] = "locked"
        \/ vtxo[Htlc(c)] \in {"spent", "exit"} /\ movement[c] \in {"Finished", "Failed"}

\* Spec 4.3: a payment ends in exactly one of Completed, Revoked and
\* Exited.  Once the wallet holds the refund of an HTLC
\* (store_spendable_vtxos in process_liquid_revocation), the HTLC is
\* spent: neither still locked, so that a later check revokes or exits it
\* again, nor marked for exit by the exit branch.
RefundExclusive ==
    \A c \in Calls : vtxo[Revoked(c)] # "none" => vtxo[Htlc(c)] = "spent"

\* The movement ledger agrees with the wallet: once a payment's movement
\* is finished, its effective balance is what the payment took from the
\* wallet, the value back (the change, the refund of a revocation, the
\* HTLC marked for exit) minus the inputs consumed.  pay_liquid_address
\* sets it from the HTLC VTXOs, and process_liquid_revocation and the exit
\* branch of check_liquid_payment set it again from the amount and what
\* they return, in separate writes from the VTXO store's.
ValueBack(c) ==
    SumFunctionOnSet(amt, {v \in {Change(c), Revoked(c)} : vtxo[v] # "none"}
                          \cup {v \in {Htlc(c)} : vtxo[v] = "exit"})
LedgerMatchesWallet ==
    \A c \in Calls : movement[c] \in {"Finished", "Failed"} =>
        movBal[c] = ValueBack(c) - SumFunctionOnSet(amt, pay[c].ins)

\* The server never pays twice for one HTLC: once a sidechain transaction
\* was broadcast for a payment, the server does not cosign the revocation
\* of that payment's HTLC.
NoDoubleSettlement ==
    \A c \in Calls : srvVtxo[Revoked(c)] # "none" => sidechain[pay[c].hash] = 0

\* A row that is stored and not finished is eventually finished, removed
\* by a revocation, or has its HTLC marked for exit: check_liquid_payment,
\* run on every tick, drives each payment to an end, through the expiry
\* revocation if the server never confirms.  Only HTLCs that expire below
\* the model's bound on the tip are asked to, and only once the server
\* has a record under the hash the check queries (the policy's, which
\* need not be the row's): for an unknown hash every check returns
\* "Payment not found" before the expiry test.
RowOpen(h) == liquidSend[h] # NoRow /\ ~liquidSend[h].finished
             /\ vtxo[Htlc(liquidSend[h].call)] # "exit"
ExpiresInModel(h) == policy[liquidSend[h].call].expiry < MaxTip
QueriedHashKnown(h) == payments[policy[liquidSend[h].call].hash] # "None"
PaymentResolves ==
    \A h \in Hashes : RowOpen(h) /\ ExpiresInModel(h) /\ QueriedHashKnown(h) ~> ~RowOpen(h)

\* The abstract lifecycle of a payment hash (LiquidPaymentLifecycle): the
\* wallet's state maps to none, locked, completed, revoked or exited, and
\* moves along that specification.
AbsState(h) ==
    LET r == liquidSend[h] IN
    IF r # NoRow
    THEN IF r.finished THEN "completed"
         ELSE IF vtxo[Htlc(r.call)] = "exit" THEN "exited" ELSE "locked"
    ELSE IF \E c \in Calls : pay[c].hash = h /\ vtxo[Revoked(c)] # "none"
         THEN "revoked" ELSE "none"
Lifecycle == INSTANCE LiquidPaymentLifecycle WITH pstate <- [h \in Hashes |-> AbsState(h)]
LifecycleRefined == Lifecycle!Spec
=============================================================================
