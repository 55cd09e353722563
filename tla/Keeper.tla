------------------------------- MODULE Keeper -------------------------------
(***************************************************************************)
(* The demo keeper (backend/src/keeper.ts) run by the loop of               *)
(* backend/src/index.ts, against the chain it sends to and the database it  *)
(* reports to.                                                              *)
(*                                                                          *)
(* A tick makes five calls in a fixed order.  Each call is simulated, gas   *)
(* is estimated, the transaction is sent, its receipt is awaited and the    *)
(* outcome is recorded: five awaits, and at each of them other transactions *)
(* may be mined, the node may fail to answer and the database may fail.     *)
(* What the calls do on chain is abstracted to what the keeper can tell:    *)
(* whether a rebalance is needed, whether the net asset value is trusted,   *)
(* how long ago the two timed calls last took effect and whether the        *)
(* breaker has tripped.                                                     *)
(***************************************************************************)
EXTENDS Naturals, FiniteSets

CONSTANTS VolInterval,   \* age at which a volatility observation is due
          FeeInterval,   \* age at which the daily fee accrual is due
          MaxSkew,       \* bound: how far chain time may run during one tick
          MaxKeeperFaults,     \* bound: node and database failures in a behaviour
          Refusable,     \* the calls the contracts may come to refuse
          GasEstimate,   \* gas of a call when no time has passed (dt = 0)
          GasNeeded      \* gas the call may take in a later block

Calls == {"poke", "observeVolatility", "accrueFees", "checkpoint", "performUpkeep"}

ASSUME KeeperAssumption ==
    /\ VolInterval \in Nat \ {0} /\ FeeInterval \in Nat \ {0}
    /\ MaxSkew \in Nat /\ MaxKeeperFaults \in Nat
    /\ Refusable \subseteq Calls
    /\ GasEstimate \in Nat /\ GasNeeded \subseteq Nat

VARIABLES
    needed,     \* checkUpkeep would answer true
    danger,     \* the risk engine would assess EMERGENCY
    tripped,    \* the deposit breaker has tripped
    refused,    \* calls that would revert now: paused, oracle down, role revoked
    trusted,    \* the oracle answers, or nothing the vault owns depends on it
    obsAge,     \* time since the last volatility observation, capped
    feeAge,     \* time since the last fee accrual, capped
    skew,       \* time since the block whose timestamp this tick read
    step,       \* the call the tick is at, or "idle"
    phase,      \* where in that call it is
    gas,        \* gas limit of the transaction awaited
    outcome,    \* of that transaction: pending, ok, reverted or out of gas
    orphans,    \* transactions given up on, not yet mined
    runRows,       \* keeper_runs rows of the call in progress: success flags
    rebalanced, \* KeeperTickResult.rebalanced
    keeperFaults      \* failures so far

chainVars == <<needed, danger, tripped, refused, trusted, obsAge, feeAge>>
keeper == <<step, phase, gas, runRows, rebalanced>>
keeperVars == <<chainVars, keeper, skew, outcome, orphans, keeperFaults>>

Cap(n, bound) == IF n < bound THEN n ELSE bound
ObsCap == VolInterval + MaxSkew
FeeCap == FeeInterval + MaxSkew

\* Mutant: the estimate is sent as it is.
NoHeadroom(estimate) == estimate

(* Gas limit the keeper sends with: the estimate and 30% on top. *)
withGasHeadroom(estimate) == (estimate * 130) \div 100

-----------------------------------------------------------------------------
(* The contracts, as the keeper's calls see them. *)

Reverts(call) == call \in refused \/ (call = "performUpkeep" /\ ~needed)

(* A mined call: checkpoint and performUpkeep assess the risk, performUpkeep
   also observes the volatility and rebalances.  While the net asset value is
   not trusted accrueFees goes through, but crystallises nothing. *)
Effect(call) ==
    /\ needed' = (needed /\ call # "performUpkeep")
    /\ tripped' = (tripped \/ (danger /\ call \in {"checkpoint", "performUpkeep"}))
    /\ obsAge' = IF call \in {"observeVolatility", "performUpkeep"} /\ obsAge >= VolInterval
                 THEN 0 ELSE obsAge
    /\ feeAge' = IF call = "accrueFees" /\ trusted THEN 0 ELSE feeAge
    /\ UNCHANGED <<danger, refused, trusted>>

Mine ==
    /\ outcome = "pending"
    /\ \E used \in GasNeeded :
         \/ Reverts(step) /\ outcome' = "reverted" /\ UNCHANGED chainVars
         \/ ~Reverts(step) /\ used > gas /\ outcome' = "out of gas" /\ UNCHANGED chainVars
         \/ ~Reverts(step) /\ used <= gas /\ outcome' = "ok" /\ Effect(step)
    /\ UNCHANGED <<keeper, skew, orphans, keeperFaults>>

(* A transaction whose receipt nobody awaits any more is still mined. *)
MineOrphan ==
    \E call \in orphans :
        /\ orphans' = orphans \ {call}
        /\ IF Reverts(call) THEN UNCHANGED chainVars ELSE Effect(call)
        /\ UNCHANGED <<keeper, skew, outcome, keeperFaults>>

(* Prices, funding, oracles, users, the guardian and other keepers. *)
Market ==
    /\ \/ needed' = ~needed /\ UNCHANGED <<danger, refused, trusted>>
       \/ danger' = ~danger /\ UNCHANGED <<needed, refused, trusted>>
       \/ trusted' = ~trusted /\ UNCHANGED <<needed, danger, refused>>
       \/ \E call \in Refusable :
            /\ refused' = IF call \in refused THEN refused \ {call} ELSE refused \cup {call}
            /\ UNCHANGED <<needed, danger, trusted>>
    /\ UNCHANGED <<tripped, obsAge, feeAge, keeper, skew, outcome, orphans, keeperFaults>>

Time ==
    /\ step = "idle" \/ skew < MaxSkew
    /\ obsAge' = Cap(obsAge + 1, ObsCap)
    /\ feeAge' = Cap(feeAge + 1, FeeCap)
    /\ skew' = IF step = "idle" THEN skew ELSE skew + 1
    /\ UNCHANGED <<needed, danger, tripped, refused, trusted, keeper, outcome, orphans, keeperFaults>>

-----------------------------------------------------------------------------
(* The loop.  A run that is still going is not started again; a run that
   throws is logged and ends. *)

Fault == keeperFaults < MaxKeeperFaults /\ keeperFaults' = keeperFaults + 1

EnterCall(call) ==
    /\ step' = call
    /\ phase' = "read"
    /\ runRows' = {}
    /\ outcome' = "none"
    /\ gas' = 0

EndTick ==
    /\ step' = "idle"
    /\ phase' = "read"
    /\ runRows' = {}
    /\ outcome' = "none"
    /\ gas' = 0
    /\ skew' = 0

(* getBlock gives the tick its timestamp; if it fails the tick is over. *)
StartTick ==
    /\ step = "idle"
    /\ EnterCall("poke")
    /\ skew' = 0
    /\ rebalanced' = FALSE
    /\ UNCHANGED <<chainVars, orphans, keeperFaults>>

Successor(call) ==
    CASE call = "poke" -> "observeVolatility"
      [] call = "observeVolatility" -> "accrueFees"
      [] call = "accrueFees" -> "checkpoint"
      [] call = "checkpoint" -> "performUpkeep"

NextCall ==
    IF step = "performUpkeep" THEN EndTick
    ELSE EnterCall(Successor(step)) /\ UNCHANGED skew

(* Which calls this tick makes: the ages are taken from the timestamp read at
   the start of the tick, and checkUpkeep is read when its turn comes. *)
Due ==
    CASE step = "observeVolatility" -> obsAge >= VolInterval + skew
      [] step = "accrueFees" -> feeAge >= FeeInterval + skew
      [] step = "performUpkeep" -> needed
      [] OTHER -> TRUE

Read ==
    /\ phase = "read" /\ step # "idle"
    /\ IF Due THEN phase' = "simulate" /\ UNCHANGED <<step, gas, runRows, outcome, skew>>
              ELSE NextCall
    /\ UNCHANGED <<chainVars, rebalanced, orphans, keeperFaults>>

(* A failing read is outside send, so it aborts the tick. *)
ReadFails ==
    /\ phase = "read" /\ step \notin {"idle", "poke", "checkpoint"}
    /\ Fault
    /\ EndTick
    /\ UNCHANGED <<chainVars, rebalanced, orphans>>

KeeperGoto(p) == phase' = p /\ UNCHANGED <<step, gas, runRows, outcome, skew, orphans>>

(* simulateContract: the revert reason, or a request to send. *)
Simulate ==
    /\ phase = "simulate"
    /\ KeeperGoto(IF Reverts(step) THEN "failed" ELSE "send")
    /\ UNCHANGED <<chainVars, rebalanced, keeperFaults>>

(* estimateContractGas and writeContract. *)
Send ==
    /\ phase = "send"
    /\ IF Reverts(step)
       THEN KeeperGoto("failed")
       ELSE /\ phase' = "wait"
            /\ gas' = withGasHeadroom(GasEstimate)
            /\ outcome' = "pending"
            /\ UNCHANGED <<step, runRows, skew, orphans>>
    /\ UNCHANGED <<chainVars, rebalanced, keeperFaults>>

\* Mutant: the status of the receipt is not looked at.
ReceiptUnchecked ==
    /\ phase = "wait" /\ outcome \in {"ok", "reverted", "out of gas"}
    /\ KeeperGoto("record")
    /\ UNCHANGED <<chainVars, rebalanced, keeperFaults>>

(* waitForTransactionReceipt, and the check of its status. *)
Receipt ==
    /\ phase = "wait" /\ outcome \in {"ok", "reverted", "out of gas"}
    /\ KeeperGoto(IF outcome = "ok" THEN "record" ELSE "failed")
    /\ UNCHANGED <<chainVars, rebalanced, keeperFaults>>

\* Mutant: a transaction whose receipt timed out still counts as awaited.
NodeFailsStillAwaits ==
    /\ phase \in {"simulate", "send", "wait"}
    /\ Fault
    /\ phase' = "failed"
    /\ UNCHANGED <<chainVars, step, gas, runRows, rebalanced, outcome, orphans, skew>>

(* The node fails a call, or the receipt does not come in time: the
   transaction, if one was sent, may still be mined. *)
NodeFails ==
    /\ phase \in {"simulate", "send", "wait"}
    /\ Fault
    /\ phase' = "failed"
    /\ orphans' = IF outcome = "pending" THEN orphans \cup {step} ELSE orphans
    /\ outcome' = IF outcome = "pending" THEN "none" ELSE outcome
    /\ UNCHANGED <<chainVars, step, gas, runRows, rebalanced, skew>>

(* recordKeeperRun(success: true), inside the try of send. *)
Record ==
    /\ phase = "record"
    /\ rebalanced' = (rebalanced \/ step = "performUpkeep")
    /\ phase' = "done"
    /\ runRows' = runRows \cup {TRUE}
    /\ UNCHANGED <<chainVars, step, gas, outcome, skew, orphans, keeperFaults>>

(* Its failure is caught like a failed call, also when the row was written
   and only the answer was lost. *)
RecordThrows ==
    /\ phase = "record"
    /\ Fault
    /\ phase' = "failed"
    /\ \E written \in BOOLEAN : runRows' = IF written THEN runRows \cup {TRUE} ELSE runRows
    /\ UNCHANGED <<chainVars, step, gas, rebalanced, outcome, skew, orphans>>

\* Mutant: a failed call is logged, not recorded.
FailureNotRecorded ==
    /\ phase = "failed"
    /\ phase' = "done"
    /\ UNCHANGED <<chainVars, step, gas, runRows, rebalanced, outcome, skew, orphans, keeperFaults>>

\* Mutant: a failed call ends the tick instead of letting the others run.
StopOnFailure ==
    /\ phase = "failed"
    /\ EndTick
    /\ UNCHANGED <<chainVars, rebalanced, orphans, keeperFaults>>

(* recordKeeperRun(success: false), in the catch. *)
RecordFailure ==
    /\ phase = "failed"
    /\ phase' = "done"
    /\ runRows' = runRows \cup {FALSE}
    /\ UNCHANGED <<chainVars, step, gas, rebalanced, outcome, skew, orphans, keeperFaults>>

(* Nothing catches a failure in the catch: the tick is aborted. *)
AbortTick ==
    /\ phase = "failed"
    /\ Fault
    /\ EndTick
    /\ UNCHANGED <<chainVars, rebalanced, orphans>>

FinishCall ==
    /\ phase = "done"
    /\ NextCall
    /\ UNCHANGED <<chainVars, rebalanced, orphans, keeperFaults>>

-----------------------------------------------------------------------------
KeeperInit ==
    /\ needed = FALSE /\ danger = FALSE /\ tripped = FALSE /\ refused = {}
    /\ trusted = TRUE
    /\ obsAge = 0 /\ feeAge = 0 /\ skew = 0
    /\ step = "idle" /\ phase = "read" /\ gas = 0 /\ outcome = "none"
    /\ orphans = {} /\ runRows = {} /\ rebalanced = FALSE
    /\ keeperFaults = 0

KeeperStep ==
    \/ StartTick \/ Read \/ Simulate \/ Send \/ Receipt
    \/ Record \/ RecordFailure \/ FinishCall

Failure == ReadFails \/ NodeFails \/ RecordThrows \/ AbortTick

KeeperNext == KeeperStep \/ Failure \/ Mine \/ MineOrphan \/ Market \/ Time

KeeperSpec == KeeperInit /\ [][KeeperNext]_keeperVars

-----------------------------------------------------------------------------
KeeperTypeOK ==
    /\ needed \in BOOLEAN /\ danger \in BOOLEAN /\ tripped \in BOOLEAN
    /\ refused \in SUBSET Refusable /\ trusted \in BOOLEAN
    /\ obsAge \in 0..ObsCap /\ feeAge \in 0..FeeCap /\ skew \in 0..MaxSkew
    /\ step \in Calls \cup {"idle"}
    /\ phase \in {"read", "simulate", "send", "wait", "record", "failed", "done"}
    /\ gas \in {0, withGasHeadroom(GasEstimate)}
    /\ outcome \in {"none", "pending", "ok", "reverted", "out of gas"}
    /\ orphans \in SUBSET Calls /\ runRows \in SUBSET BOOLEAN
    /\ rebalanced \in BOOLEAN
    /\ outcome = "pending" => phase = "wait"
    /\ keeperFaults \in 0..MaxKeeperFaults

(* A success row, and a tick that says it rebalanced, stand for a mined call
   that did not revert (keeper.ts:72, 89, 102). *)
SuccessRowsAreMined ==
    TRUE \in runRows \/ (rebalanced /\ step = "performUpkeep") => outcome = "ok"

(* A call that was attempted is in keeper_runs before the tick goes on to the
   next one: only a tick that is aborted leaves an attempt without a row. *)
AttemptsAreRecorded == phase = "done" => runRows # {}

(* The 30% on top of an estimate taken at dt = 0 covers the accrual work of a
   later block: no call runs out of gas (gas.ts:5-11, security.md bug 7). *)
HeadroomSuffices == outcome # "out of gas"

(* What keeper_runs tells of a tick is what the tick did. *)
KeeperTellsTheTruth ==
    KeeperTypeOK /\ SuccessRowsAreMined /\ AttemptsAreRecorded /\ HeadroomSuffices

(* A rebalance that stays needed and allowed is carried out, whatever finite
   number of calls, receipts and inserts fail on the way. *)
PendingRebalanceIsPerformed == []<>(~needed \/ "performUpkeep" \in refused)

(* A risk EMERGENCY that lasts trips the breaker: the checkpoint is reached
   behind three other calls, any of which may fail. *)
EmergencyTripsBreaker == []<>(~danger \/ tripped \/ "checkpoint" \in refused)

(* Fees are crystallised once a day (keeper.ts:27), but for outages of the
   oracle: unless the net asset value is not trusted, or the call refused,
   again and again, the age of the accrual always comes back below the
   interval.  A call that was mined in an outage counts for nothing: the
   keeper has to come back to it. *)
FeesAreAccrued == []<>(feeAge < FeeInterval \/ ~trusted \/ "accrueFees" \in refused)

(* What the keeper must get done whatever finite number of calls, receipts,
   queries and processes fail on the way: a rebalance that stays needed is
   performed, a lasting emergency trips the breaker, fees are accrued every
   day. *)
KeeperGetsWorkDone == PendingRebalanceIsPerformed /\ EmergencyTripsBreaker /\ FeesAreAccrued

=============================================================================
