---------------------------- MODULE LiquidServer ----------------------------
(***************************************************************************)
(* The server bridge (server/src/liquid/mod.rs): cosigns the HTLC package, *)
(* forwards the payment on the sidechain, and answers status queries from  *)
(* the in-memory map liquid_payments.  The server runs its RPC handlers in *)
(* parallel; a handler is split into atomic steps only where it leaves the *)
(* map's mutex and another handler may run (initiate_liquid_payment stores *)
(* Pending, then blocks on sendtoaddress, then stores the result).         *)
(*                                                                         *)
(* Requests and replies travel in the shared set net; every message names *)
(* the client task it belongs to in its field task.                        *)
(***************************************************************************)
EXTENDS Naturals, FiniteSets, Functions

CONSTANTS
    Calls,          \* client pay calls (each creates at most one HTLC)
    Hashes,         \* payment hashes
    InitVtxos,      \* the wallet's VTXOs when the model starts
    ExpiryDelta,    \* config.htlc_send_expiry_delta
    MaxSends,       \* bound on sidechain broadcasts per hash
    Faults          \* the failure modes this configuration enables

VARIABLES
    net,            \* messages in flight between client and server
    tip,            \* bitcoin chain tip (block height)
    policy,         \* policy[c]: the ServerHtlcSend policy of call c's HTLC
    payments,       \* liquid_payments: hash -> LiquidPaymentStatus or "None"
    sidechain,      \* number of sendtoaddress broadcasts per hash
    sideConf,       \* whether a broadcast for the hash has a confirmation
    srvVtxo,        \* the server database's view of each VTXO
    srvAmt,         \* the amount of each VTXO in the server database
    srvInit,        \* initiate handlers blocked in sendtoaddress
    srvChecks       \* check handlers blocked in gettransaction

serverVars == <<payments, sidechain, sideConf, srvVtxo, srvAmt, srvInit, srvChecks>>

\* VTXO identifiers: the initial ones and the outputs each call can create.
Htlc(c)    == <<c, "htlc">>
Change(c)  == <<c, "change">>
Revoked(c) == <<c, "revoked">>
VtxoIds == InitVtxos \cup {<<c, k>> : c \in Calls, k \in {"htlc", "change", "revoked"}}

NoPolicy == [hash |-> "none", expiry |-> 0]
Status == {"None", "Pending", "Sent", "Confirmed", "Failed"}

\* store_liquid_payment: insert under the mutex, replacing any entry of
\* the hash.  get_liquid_payment: a clone of the entry, "None" being
\* "Payment not found".
StoreLiquidPayment(h, st) == payments' = [payments EXCEPT ![h] = st]
GetLiquidPayment(h) == payments[h]

Send(m)          == net' = net \cup {m}
Reply(req, resp) == net' = (net \ {req}) \cup {resp}

\* The inputs the server will cosign.  get_vtxos_by_id and
\* check_vtxos_not_exited (mod.rs:50-54) only find them and test for an
\* exit; the refusal of inputs already spent is the package cosigning's
\* (cosign_oor_package_with_builder, library code outside src/), modelled
\* from what that library promises.
InputsCosignable(ins) == \A v \in ins : srvVtxo[v] = "spendable"

\* cosign_liquid_pay_htlc: the policy gets the expiry tip +
\* htlc_send_expiry_delta and the payment_hash argument.  The request
\* (LiquidPayHtlcCosignRequest) carries no payment hash, so the RPC layer
\* outside src/ supplies one the client never sent and nothing compares:
\* the policy may embed any hash.  The package spends the inputs and
\* registers the HTLC output of the amount and a change output of the
\* remainder, if any.
CosignLiquidPayHtlc(m) ==
    /\ m.type = "CosignReq"
    /\ LET c == m.task
           change == SumFunctionOnSet(srvAmt, m.ins) - m.amount
       IN IF InputsCosignable(m.ins)
          THEN \E ph \in Hashes :
               /\ policy' = [policy EXCEPT ![c] = [hash |-> ph, expiry |-> tip + ExpiryDelta]]
               /\ srvVtxo' = [v \in VtxoIds |->
                                IF v \in m.ins THEN "spent"
                                ELSE IF v = Htlc(c) \/ (v = Change(c) /\ change > 0)
                                     THEN "spendable" ELSE srvVtxo[v]]
               /\ srvAmt' = [srvAmt EXCEPT ![Htlc(c)] = m.amount, ![Change(c)] = change]
               /\ Reply(m, [type |-> "CosignResp", task |-> c, ok |-> TRUE])
          ELSE /\ Reply(m, [type |-> "CosignResp", task |-> c, ok |-> FALSE])
               /\ UNCHANGED <<policy, srvVtxo, srvAmt>>
    /\ UNCHANGED <<payments, sidechain, sideConf, srvInit, srvChecks>>

\* initiate_liquid_payment, up to the sendtoaddress call: every HTLC VTXO
\* must be spendable (the payment-hash check on its policy is commented
\* out), then the payment is stored as Pending.
InitiateLiquidPayment(m) ==
    /\ m.type = "InitReq"
    /\ IF srvVtxo[Htlc(m.task)] = "spendable"
       THEN /\ StoreLiquidPayment(m.hash, "Pending")
            /\ srvInit' = srvInit \cup {[hash |-> m.hash, task |-> m.task]}
            /\ net' = net \ {m}
       ELSE /\ Reply(m, [type |-> "InitResp", task |-> m.task])
            /\ UNCHANGED <<payments, srvInit>>
    /\ UNCHANGED <<policy, sidechain, sideConf, srvVtxo, srvAmt, srvChecks>>

\* The sendtoaddress result: Ok stores Sent with the txid, Err stores
\* Failed.  With "ambiguous" an Err can come back for a transaction the
\* node did broadcast (an RPC timeout after acceptance).
SendToAddress(i) ==
    /\ i \in srvInit
    /\ \E outcome \in {"ok", "err"} \cup (IF "ambiguous" \in Faults THEN {"lost"} ELSE {}) :
        /\ outcome # "err" => sidechain[i.hash] < MaxSends
        /\ sidechain' = IF outcome = "err" THEN sidechain
                        ELSE [sidechain EXCEPT ![i.hash] = @ + 1]
        /\ StoreLiquidPayment(i.hash, IF outcome = "ok" THEN "Sent" ELSE "Failed")
    /\ srvInit' = srvInit \ {i}
    /\ Send([type |-> "InitResp", task |-> i.task])
    /\ UNCHANGED <<policy, sideConf, srvVtxo, srvAmt, srvChecks>>

\* gettransaction reports at least one confirmation (confs >= 1).
\* Seeded fault: confs >= 0.
TxConfirmedAnyConfs(h) == sidechain[h] > 0
TxConfirmed(h) == sideConf[h]

\* The statuses for which the check asks the sidechain: Sent (the only one
\* with a txid).  Seeded fault: a Failed payment is queried too.
QueriesChainAnyStatus(st) == st \in {"Sent", "Failed"}
QueriesChain(st) == st = "Sent"

\* check_liquid_payment, up to gettransaction: get_liquid_payment clones
\* the entry under the mutex.  "Payment not found" is an error reply;
\* Pending, Confirmed and Failed are answered at once; for a Sent payment
\* the handler leaves the mutex and blocks in gettransaction.  The "No
\* Elements daemon" and "no txid" branches cannot be reached: initiate
\* requires the daemon and stores Sent with the txid.
CheckLiquidPayment(m) ==
    /\ m.type = "CheckReq"
    /\ LET st == GetLiquidPayment(m.hash) IN
       IF QueriesChain(st)
       THEN /\ net' = net \ {m}
            /\ srvChecks' = srvChecks \cup {[hash |-> m.hash, task |-> m.task]}
       ELSE /\ Reply(m, [type |-> "CheckResp", task |-> m.task,
                         status |-> CASE st = "None"      -> "Error"
                                      [] st = "Confirmed" -> "Complete"
                                      [] st = "Failed"    -> "Failed"
                                      [] OTHER            -> "Pending"])
            /\ UNCHANGED srvChecks
    /\ UNCHANGED <<policy, payments, sidechain, sideConf, srvVtxo, srvAmt, srvInit>>

\* The gettransaction result: with a confirmation the cloned payment is
\* stored back as Confirmed (over whatever the map holds now) and Complete
\* is answered; zero confirmations or an RPC error answer Pending.
GetTransaction(q) ==
    /\ q \in srvChecks
    /\ \E rpcErr \in IF "chainerr" \in Faults THEN BOOLEAN ELSE {FALSE} :
        LET promote == ~rpcErr /\ TxConfirmed(q.hash) IN
        /\ IF promote THEN StoreLiquidPayment(q.hash, "Confirmed") ELSE UNCHANGED payments
        /\ Send([type |-> "CheckResp", task |-> q.task,
                 status |-> IF promote THEN "Complete" ELSE "Pending"])
    /\ srvChecks' = srvChecks \ {q}
    /\ UNCHANGED <<policy, sidechain, sideConf, srvVtxo, srvAmt, srvInit>>

\* Revocation cosigning (outside src/, from the spec): the HTLC must exist
\* unspent under a known policy, and the sidechain payment must be Failed
\* or the HTLC past its expiry; the refund package spends the HTLC.
RevokeLiquidPayHtlc(m) ==
    /\ m.type = "RevokeReq"
    /\ LET c == m.call
           ok == /\ srvVtxo[Htlc(c)] = "spendable"
                 /\ policy[c] # NoPolicy
                 /\ payments[policy[c].hash] = "Failed" \/ tip > policy[c].expiry
       IN /\ srvVtxo' = IF ok THEN [srvVtxo EXCEPT ![Htlc(c)] = "spent", ![Revoked(c)] = "spendable"]
                        ELSE srvVtxo
          /\ srvAmt' = IF ok THEN [srvAmt EXCEPT ![Revoked(c)] = srvAmt[Htlc(c)]] ELSE srvAmt
          /\ Reply(m, [type |-> "RevokeResp", task |-> m.task, ok |-> ok])
    /\ UNCHANGED <<policy, payments, sidechain, sideConf, srvInit, srvChecks>>

\* The server process restarts: liquid_payments is only in memory, and the
\* handlers blocked in sendtoaddress or gettransaction are gone.  A
\* sendtoaddress the node already received may still be broadcast.
ServerRestart ==
    /\ "restart" \in Faults
    /\ payments' = [h \in Hashes |-> "None"]
    /\ \E sent \in SUBSET {i.hash : i \in srvInit} :
        /\ \A h \in sent : sidechain[h] < MaxSends
        /\ sidechain' = [h \in Hashes |-> IF h \in sent THEN sidechain[h] + 1 ELSE sidechain[h]]
    /\ srvInit' = {}
    /\ srvChecks' = {}
    /\ UNCHANGED <<net, policy, sideConf, srvVtxo, srvAmt>>

\* A broadcast sidechain transaction gets its first confirmation.
ConfirmOnSidechain(h) ==
    /\ sidechain[h] > 0
    /\ ~sideConf[h]
    /\ sideConf' = [sideConf EXCEPT ![h] = TRUE]
    /\ UNCHANGED <<net, policy, payments, sidechain, srvVtxo, srvAmt, srvInit, srvChecks>>

\* The server serves a request of client task t (a pay call or a check).
Serve(t) ==
    \E m \in net :
        /\ m.task = t
        /\ \/ CosignLiquidPayHtlc(m)
           \/ InitiateLiquidPayment(m)
           \/ CheckLiquidPayment(m)
           \/ RevokeLiquidPayHtlc(m)

\* The blocked initiate handler of call c gets its sendtoaddress result.
Forward(c) == \E i \in srvInit : i.task = c /\ SendToAddress(i)

\* The blocked check handler of check task h gets its gettransaction result.
Query(h) == \E q \in srvChecks : q.task = h /\ GetTransaction(q)

ServerStep ==
    \/ \E t \in Calls \cup Hashes : Serve(t)
    \/ \E c \in Calls : Forward(c)
    \/ \E h \in Hashes : Query(h)

Next ==
    \/ ServerStep
    \/ ServerRestart
    \/ \E h \in Hashes : ConfirmOnSidechain(h)
=============================================================================
