# TLA+ models of the Ark-to-Liquid payment bridge

This directory holds TLA+ models of the HTLC bridge, which pays a Liquid address
with Ark VTXOs. The models are checked with TLC. The code modelled is:

| File | What it does |
|---|---|
| `src/bark/src/liquid/pay.rs` | The wallet side: `pay_liquid_address`, `check_liquid_payment` and `process_liquid_revocation`. |
| `src/server/src/liquid/mod.rs` | The server side: `cosign_liquid_pay_htlc`, `initiate_liquid_payment`, `check_liquid_payment`, and the in-memory `liquid_payments` map behind a mutex. |
| `src/bark/src/persist/sqlite/migrations/m0023_liquid_send.rs` | The `bark_liquid_send` table, with `payment_hash UNIQUE`. |
| `src/bark-cli/src/bin/bark/liquid.rs` | `bark liquid pay`, which calls `pay_liquid_address` with a fresh random payment hash. |

## Inventory

### The parts and how they interact

- **Client payment engine (C3, pay.rs).** `pay_liquid_address` runs these steps in order:
  1. checks dust, checks for an existing row, and selects covering VTXOs;
  2. sends the cosign request and awaits it;
  3. validates the HTLC VTXOs (await);
  4. opens the movement (await);
  5. `store_locked_vtxos`, then `mark_vtxos_as_spent`;
  6. validates the change against `chain.get_tx` (await) and stores it;
  7. updates the movement (await);
  8. `store_new_pending_liquid_send`;
  9. sends `initiate_liquid_payment` (await).

  `check_liquid_payment` reads the tip and queries the server under the hash embedded in the HTLC policy. That hash is the server's choice: the cosign request carries no payment hash, and the checks that compare it with the call's are commented out (pay.rs:253, 105-107). On the reply:
  - Complete: it finishes the row, marks the HTLC spent and finishes the movement;
  - Failed, or Pending with `tip > htlc_expiry`: it revokes;
  - revocation fails (a refused cosign, an RPC error or a failed write): it takes the exit branch. Without faults a revocation never fails, so the exit branch is reached only in fault runs.

  The wallet runs its futures on one thread. Each `.await` is a point where another task may run. Each database write is its own transaction, followed by `?`. The Complete branch (`finish_liquid_send`, `mark_vtxos_as_spent`, `finish_movement`), the revocation (`store_spendable_vtxos`, `mark_vtxos_as_spent`, `finish_movement`, `remove_liquid_send`) and the exit branch (`mark_vtxos_for_exit`, `update_movement`, `finish_movement`) are each several such writes. An error from any write of the revocation sends the check into the exit branch.
- **Server bridge (C4, mod.rs).**
  - Cosign computes `expiry = tip + htlc_send_expiry_delta` and cosigns the package under the `payment_hash` the RPC layer passes in. The model lets that hash be any hash in play.
  - Initiate checks that the HTLC VTXOs are spendable, stores `Pending`, releases the mutex, calls `sendtoaddress`, and stores `Sent` or `Failed`.
  - Check clones the payment under the mutex ("Payment not found" is an error). For a `Sent` payment it releases the mutex and calls `gettransaction`. With at least one confirmation it stores the clone back as `Confirmed`.
  - `liquid_payments` lives only in memory. A restart clears it and ends the handlers blocked in `sendtoaddress`, each of which may already have broadcast.
  - Handlers may run in parallel.
- **Cosign protocol and package builder (C1, C2).** These are library code outside `src/`. Only their effect is modelled: a reply is accepted or refused, the package cosigning refuses inputs already spent (`InputsCosignable`, taken from the library), one HTLC VTXO holds the amount, a change VTXO holds the remainder, and each HTLC gets one revoked VTXO.
- **Store (C5).** The row, the VTXO states and the movement ledger. Each movement has a status and an effective balance. `pay_liquid_address` sets the balance to minus the HTLC total. The revocation and the exit branch set it again, to `-amount` plus the value they return.
- **Environment.** The bitcoin tip rises. A broadcast sidechain transaction may confirm at any time, or never.

### Behaviours that make the code hard

- A crash between the separate database writes of `pay_liquid_address`, and between those of the Complete branch, the revocation and the exit branch.
- A wallet database or ledger write failing after earlier writes of the same branch succeeded.
- Two pay calls interleaving at their awaits.
- RPCs that time out or are lost while the other side still acts.
- `sendtoaddress` erroring after it broadcast.
- A server restart that loses `liquid_payments`.
- The HTLC expiry racing a broadcast but unconfirmed payment.
- A tip that is stale by the time the reply arrives.
- Rows passed to the check again after they are finished.

Each of these is listed as a hazard, at the source line where it bites, in `PROJECT.json`.

## Modules

| Module | Models |
|---|---|
| `LiquidServer` | C4. Variables: `payments` is `liquid_payments`, `sidechain` counts broadcasts per hash, `sideConf` records a confirmation, `srvVtxo` and `srvAmt` are the server database's VTXO states and amounts, `srvInit` holds the initiate handlers blocked in `sendtoaddress`, and `srvChecks` holds the check handlers blocked in `gettransaction`. `StoreLiquidPayment` and `GetLiquidPayment` are the map's insert and get helpers, and every handler reads and writes the map through them. Actions: one per handler, split wherever the handler leaves the mutex for an Elements RPC (`SendToAddress`, `GetTransaction`), plus `ServerRestart` and `ConfirmOnSidechain`. Revocation cosigning has no source under `src/`, so `RevokeLiquidPayHtlc` follows spec 4.4. |
| `LiquidClient` | C3, C5 and the CLI entry point (`CliMissingAmount`). `pay[c]` is the program counter of pay call `c`, one value per await point. `chk[h]` is the check task of row `h`, and it keeps the tip the check read. The other variables are `vtxo`, `amt`, `liquidSend`, `movement`, `movFinishes` and `movBal` (the movement's effective balance, set by `update_movement` through `MovementBalance`). `LiquidCommand` is the parsed CLI command, with its amount an optional (a set of at most one amount). Each action is the code between two awaits, all of its writes included. The terminal branches of the check are sequences of writes (`CompleteWrites`, `RevokeWrites`, `ExitWrites`), each write the cells one database or ledger call sets. `WriteThrough` makes them in order: all of them, or under `dberr` a prefix followed by the code's error path, or under `crash` a prefix followed by the crash. In `pay_liquid_address` a failed write stops the call (`PayDbError`); at the movement step `new_movement` may have succeeded before `update_movement` failed, leaving an open movement. Each RPC timeout is its own action (`PayRpcTimeout`, `InitiateRpcTimeout`, `CheckRpcTimeout`, `RevokeRpcTimeout`). |
| `LiquidSystem` | Composes the two modules over a message set `net`. It also defines the tip, lost messages, the dropping of stale replies, fairness, and every property. |
| `LiquidPaymentRecord` | The server's promise for its record of each hash (spec 3 and 4.4): created Pending; Sent only with a broadcast; Failed from Pending or Sent, perhaps with a broadcast; Confirmed only from Sent once the broadcast is confirmed; cleared only by a restart. `LiquidSystem` maps `payments`, `sidechain` and `sideConf` onto it and checks the refinement as `ServerStatusRefined`. |
| `LiquidPaymentLifecycle` | The abstract promise for each hash: none, then locked, then exactly one of completed, revoked or exited. `LiquidSystem` maps the wallet state onto it (`AbsState`) and checks the refinement as `LifecycleRefined`. |
| `MCLiquidSystem` | Model values and constant definitions for TLC. |

`Faults` is a constant set. It enables these failure modes one at a time or together:

| Fault | Meaning |
|---|---|
| `crash` | The wallet crashes. |
| `restart` | The server restarts and loses `liquid_payments`. |
| `lose` | A message is lost. |
| `timeout` | An RPC times out while its request may still be served. |
| `chainerr` | A chain call fails. |
| `ambiguous` | `sendtoaddress` errors after it broadcast. |
| `recheck` | The wallet passes a finished row to the check again. |
| `dberr` | A write to the wallet database or the movement ledger returns an error. |

## Runs

All runs use the same bounds:
- 2 wallet VTXOs, of amounts 2 and 1 (2 and 2 for the two shared-hash runs);
- amounts {1, 2}, with `P2TR_DUST` = 2;
- expiry delta 1, VTXO expiry 3, refresh threshold 2;
- tip up to 3, except in `core`, where it is up to 2;
- at most 1 broadcast per hash.

With these bounds every branch of the code is reachable:
- a dust rejection;
- payments with and without change;
- two calls competing for one VTXO;
- a policy under the other call's hash (`core` has two hashes);
- a Pending payment past its expiry (a payment cosigned at tip 0 expires at 1, and the tip reaches 2);
- the exit branch (it needs `tip > 1` and a failed revocation, so only the fault runs reach it);
- completion before and after expiry.

`core` stops the tip at 2 because it checks two calls, two hashes and a liveness property under fourteen fairness conditions; at tip 3 it takes five minutes. Tip 2 keeps a payment that expires and one that does not, and the mutants of `core` are all caught at that bound.

| Run | Expect | What it shows |
|---|---|---|
| `core` | pass | Two pay calls with their own hashes and no faults. It checks `TypeOK`, `MovementFinishedOnce`, `HtlcTracked`, `RowConsistent`, `LedgerMatchesWallet`, `LifecycleRefined` and `PaymentResolves` (every open row whose policy hash the server knows is eventually finished or revoked). About 76k distinct states, about 110 s. |
| `faults` | pass | One call under every fault. With one hash the policy can only embed the call's, and `FinishedOnlyIfConfirmed` holds; and `liquid_payments` refines `LiquidPaymentRecord` (`ServerStatusRefined`). About 339k distinct states, about 120 s. |
| `crash_orphans_htlc` | violation | A crash between `store_locked_vtxos` and the row insert orphans the HTLC (`HtlcTracked`). |
| `same_hash_orphans_htlc` | violation | Two calls share a hash. The UNIQUE insert fails after the second call spent its inputs (`HtlcTracked`). |
| `double_settlement` | violation | A revocation past expiry while the sidechain transaction is broadcast (`NoDoubleSettlement`). |
| `recheck_finishes_twice` | violation | The check of a finished row re-runs finish (`MovementFinishedOnce`). |
| `exit_then_revoke` | violation | The exit branch leaves the row, so the next check retries the revocation, exits again and finishes the movement a second time (`MovementFinishedOnce`). |
| `foreign_policy_hash` | violation | Without faults, a policy under the other call's hash makes the wallet finish an unconfirmed payment (`FinishedOnlyIfConfirmed`). This is why `core` does not check that property. |
| `server_restart_stalls` | violation | "Payment not found" after a restart stops every check before its expiry test (`PaymentResolves`). |
| `hash_reuse_reopens_status` | violation | A revocation deletes the row, so a second call may reuse the hash. Its initiate overwrites the terminal `Failed` with `Pending`, a step `LiquidPaymentRecord` does not allow (`ServerStatusRefined`). |
| `crash_splits_terminal_writes` | violation | A crash between `mark_vtxos_as_spent` and `finish_movement` in the Complete branch leaves a finished row with its HTLC spent and its movement open for good (`RowConsistent`). |
| `dberr_refund_and_htlc` | violation | `mark_vtxos_as_spent` fails after the refund was stored. The wallet holds the refund and the locked HTLC, and the exit branch may mark that HTLC for exit (`RefundExclusive`). |

`PaymentResolves` is asked of a row only when the server has a record under its policy's hash (`QueriedHashKnown`): for an unknown hash every check returns "Payment not found" before the expiry test (pay.rs:116), which `server_restart_stalls` shows. `RowConsistent` is spec 8.2: while a row exists, its HTLC is locked, or it is settled (spent or marked for exit) with the movement terminal. It holds without faults, and a crash breaks it (`crash_splits_terminal_writes`), so the faults run no longer checks it. `RefundExclusive` says the wallet never holds an HTLC's refund while the HTLC is still locked or marked for exit. `LedgerMatchesWallet` relates the movement ledger to the VTXO store. Once a movement is finished, its effective balance equals the value the wallet got back (the change, the refund, or the HTLC marked for exit) minus the inputs consumed. The balance is written at three places in pay.rs, each computed apart from the VTXO writes. The property holds without faults. With `dberr` it fails in the same way `dberr_refund_and_htlc` shows: the ledger says the payment came back once, and the wallet holds it twice. `ServerStatusRefined` replaces the earlier `StatusOrder`: it makes the same check of the status order, and also ties Sent to a broadcast and Confirmed to a confirmation.

`PROJECT.json` records what each violation means as a finding.

Each property of a passing run has a mutant: a plausible bug, defined next to the definition it replaces, that TLC must catch. The mutants are:

| Mutant | Bug | Breaks |
|---|---|---|
| `ChangeAmountReversed` | The change subtraction is reversed. | `TypeOK` |
| `TxConfirmedAnyConfs` | The test is `confs >= 0`. | `FinishedOnlyIfConfirmed` |
| `QueriesChainAnyStatus` | A Failed payment is also queried and promoted. | `ServerStatusRefined` |
| `CompleteWritesNoMovement` | The Complete branch drops `finish_movement`. | `RowConsistent` |
| `RevokeKeepRow` | `remove_liquid_send` is dropped. | `MovementFinishedOnce` |
| `RevokeSpendsRevoked` | The wrong VTXOs are marked spent. | `HtlcTracked` |
| `ShouldRevokeAtExpiry` | The expiry test is `>=`. | `LifecycleRefined` |
| `ShouldRevokeOnlyFailed` | The expiry revocation is dropped. | `PaymentResolves` |
| `MovementBalanceDropped` | The revocation and exit balance leave out the value returned. | `LedgerMatchesWallet` |

## Fairness

The fairness is weak, on each of these:
- each pay call's next step;
- each blocked `gettransaction` returning (per check task);
- each check task's next step (the wallet ticks forever, and each tick runs `check_liquid_payment` on open rows);
- the server serving each task's requests, and each blocked `sendtoaddress` returning;
- dropping stale replies;
- the tip advancing.

Faults and sidechain confirmations get no fairness, because nothing in the code makes them happen. The fairness is per task so that the server's answers to one task cannot starve another task's request. A parallel gRPC server justifies this.

An RPC fails without an answer only under the `timeout` fault, or under `lose` when its message is gone (`RpcFails`). In fault-free runs a call blocked inside a server handler waits for its answer.

`PaymentResolves` is asked only of rows whose HTLC expires below the model's tip bound (`ExpiresInModel`) and whose policy hash the server has a record of (`QueriedHashKnown`).

## Not modelled

- MuSig2 nonces and signatures, and the contents of the package builder (library code).
- Amounts beyond what change and revocation need. Fees are zero.
- Movement metadata, logging and message wording.
- The exit subsystem after `mark_vtxos_for_exit`.
- The float conversion for `sendtoaddress` (mod.rs:122). Its outcome depends on serde_json's formatting of an f64 and on the Elements node's amount parser. Both are outside `src/`, and TLC has no floating point, so the model passes the amount through unchanged.
- CLI argument parsing (clap) and amount units. The parsed `LiquidCommand` and the `amount.unwrap()` panic are modelled.
- The intended balance, the produced and consumed VTXO lists, and the metadata that `update_movement` records. Its effective balance and its failure are modelled.
- The awaits inside the revocation's writes (`update_movement`, `finish_movement`) are not interleaving points. No other task writes that hash's row, HTLC, refund or movement in between. A crash between the writes is modelled.
- The sidechain is tracked per payment hash, not per txid. In the shared-hash runs, two payments under one hash share a confirmation flag, so those runs check only properties that do not depend on it.
- The "No Elements daemon" branch of the server check. It is unreachable, because initiate requires the daemon.
- The initiate refusal for an already spent HTLC. It is an IF branch that the passing runs do not reach, because the client sends one initiate per row.
- The on-chain exit itself and its deadline. The exit test follows the code: `tip > expiry - threshold` (pay.rs:161). Spec 4.3 says `>=`, so a revocation that fails at exactly that tip exits one check later. No property checks this, since it would only restate the guard.

## Open directions

Done:
- server-side amounts;
- spec 8.2 as `RowConsistent`;
- the server check split at `gettransaction`;
- the hash-reuse finding;
- the CLI entry point;
- wallet database and ledger errors (`dberr`), and crashes between the writes of the terminal branches;
- the abstract `LiquidPaymentRecord` and `ServerStatusRefined`;
- the movement's effective balance and `LedgerMatchesWallet`;
- the server's map helpers and the CLI command type.

Not done:
1. Track the sidechain per txid, so that a passing run with a shared hash can check `FinishedOnlyIfConfirmed`.
2. Add a revocation amount check for spec 8.5, once fees are modelled.
3. Model the package cosigning's refusal of spent inputs from the library's source, and check that two calls selecting one VTXO cannot both spend it.
4. A liveness property for movements. Without faults, every movement is opened with its row and ends with it, so `PaymentResolves` already says this. With faults, a crash in the Complete branch leaves the movement open for good (`crash_splits_terminal_writes`).
