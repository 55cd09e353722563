---------------------------- MODULE DepositorPage ----------------------------
(***************************************************************************)
(* The vault page of the dashboard: its buttons and cached reads            *)
(* (frontend/src/app/vault/VaultView.tsx) and the runner that simulates,    *)
(* sends and awaits a sequence of transactions (frontend/src/lib/tx.ts),    *)
(* while the wallet is switched, the page is left and opened again, prices  *)
(* move and receipts come late or never.                                    *)
(*                                                                          *)
(* A share is worth a whole number of USDC; fees and rounding are the       *)
(* subject of Vault.  An unwind costs its owner at most one USDC.           *)
(***************************************************************************)
EXTENDS Integers, Sequences, FiniteSetsExt, SequencesExt

CONSTANTS Users, Nobody,
          Buttons,        \* buttons in use
          Amounts,      \* what is typed
          Prices, Caps, \* USDC a share is worth; USDC the vault still takes and can pay at once
          FaucetLimit,
          Holdings,     \* USDC and shares a user starts with
          Kept,         \* percent of the quote that the slippage bound keeps
          MaxClicks, MaxTxs, MaxMoves, MaxSwitches \* bounds: clicks, transactions, moves of market, of user

ASSUME PageAssumption ==
    /\ Nobody \notin Users /\ Buttons \subseteq {"faucet", "deposit", "withdraw", "redeem", "unwind"}
    /\ Amounts \subseteq Nat /\ Prices \subseteq Nat \ {0} /\ Caps \subseteq Nat
    /\ Holdings \in Nat /\ Kept \in Nat

VARIABLES chain,  \* balances, allowances and shares; price, deposit limit and liquidity
          seen,   \* the cached reads of each user, or Unread
          wallet, \* account connected, Nobody on the wrong chain
          busy,   \* the ref of the page that is open
          panel,  \* its TxState; run 0 is no action
          shown,  \* whether the page shows a sequence as running
          runs,   \* the sequences started, of this page (mine) and of pages left,
                \* each with the lowest price since its click
          txs,    \* transactions sent
          moves, switches

pageState == <<busy, panel, shown>>
pageVars == <<chain, seen, wallet, busy, panel, shown, runs, txs, moves, switches>>

Unread == [usdc |-> -1, allowance |-> -1, shares |-> -1, price |-> -1, limit |-> -1, liquid |-> -1]
IDLE == [run |-> 0, steps |-> <<>>, error |-> FALSE, running |-> FALSE]

(* A market with some holdings. *)
PageInit ==
    /\ chain \in [usdc : [Users -> {Holdings}], allowance : [Users -> {0, Holdings}],
                  shares : [Users -> {Holdings}], price : Prices, limit : Caps, liquid : Caps]
    /\ seen = [u \in Users |-> Unread]
    /\ wallet \in Users /\ busy = FALSE /\ panel = IDLE /\ shown = FALSE
    /\ runs = <<>> /\ txs = <<>> /\ moves = 0 /\ switches = 0

-----------------------------------------------------------------------------
(* What the contracts do with a call *)

maxWithdraw(state, user) == Min({state.shares[user] * state.price, state.liquid})
maxRedeem(state, user) == Min({state.shares[user], state.liquid \div state.price})

(* The call reverts; an unwind may besides find its bound missed. *)
Reverts(state, call) ==
    CASE call.kind = "faucet"   -> call.amount > FaucetLimit
      [] call.kind = "approve"  -> FALSE
      [] call.kind = "deposit"  -> \/ call.amount > state.limit \/ call.amount \div state.price = 0
                                   \/ call.amount > Min({state.usdc[call.from], state.allowance[call.from]})
      [] call.kind = "withdraw" -> call.from # call.user \/ call.amount > maxWithdraw(state, call.user)
      [] call.kind = "redeem"   -> call.from # call.user \/ call.amount > maxRedeem(state, call.user)
      [] call.kind = "unwind"   -> call.from # call.user \/ call.amount > state.shares[call.user]

Applied(state, call, pay) ==
    CASE call.kind = "faucet"   -> [state EXCEPT !.usdc[call.from] = @ + call.amount]
      [] call.kind = "approve"  -> [state EXCEPT !.allowance[call.from] = call.amount]
      [] call.kind = "deposit"  -> [state EXCEPT !.usdc[call.from] = @ - call.amount,
                                                 !.allowance[call.from] = @ - call.amount,
                                                 !.shares[call.user] = @ + call.amount \div state.price]
      [] call.kind = "withdraw" -> [state EXCEPT !.usdc[call.user] = @ + pay,
                                                 !.shares[call.user] = @ - Min({@, (pay + state.price - 1) \div state.price})]
      [] OTHER                  -> [state EXCEPT !.usdc[call.user] = @ + pay, !.shares[call.user] = @ - call.amount]

(* What an exit pays. *)
Payouts(state, call) ==
    CASE call.kind = "withdraw" -> {call.amount}
      [] call.kind = "redeem"   -> {call.amount * state.price}
      [] call.kind = "unwind"   -> (call.amount * state.price - 1)..(call.amount * state.price)
      [] OTHER                  -> {0}

(* A transaction is mined, in the order of the nonces of its sender. *)
Mine ==
    /\ \E t \in DOMAIN txs :
         /\ txs[t].status = "pending"
         /\ \A s \in 1..(t - 1) : txs[s].status = "pending" => txs[s].call.from # txs[t].call.from
         /\ IF Reverts(chain, txs[t].call)
            THEN txs' = [txs EXCEPT ![t].status = "reverted"] /\ UNCHANGED chain
            ELSE \E pay \in Payouts(chain, txs[t].call) :
                   IF pay < txs[t].call.min
                   THEN txs' = [txs EXCEPT ![t].status = "reverted"] /\ UNCHANGED chain
                   ELSE /\ txs' = [txs EXCEPT ![t].status = "success"]
                        /\ chain' = Applied(chain, txs[t].call, pay)
    /\ UNCHANGED <<seen, wallet, pageState, runs, moves, switches>>

(* Prices, limits and other users. *)
Market ==
    /\ moves < MaxMoves /\ moves' = moves + 1
    /\ \E price \in Prices, limit \in Caps, liquid \in Caps :
         /\ chain' = [chain EXCEPT !.price = price, !.limit = limit, !.liquid = liquid]
         /\ runs' = [k \in DOMAIN runs |-> [runs[k] EXCEPT !.lowest = Min({@, price})]]
    /\ UNCHANGED <<seen, wallet, pageState, txs, switches>>

-----------------------------------------------------------------------------
(* The page *)

(* What the page reads of the chain for a user. *)
Reads(user) == [usdc |-> chain.usdc[user], allowance |-> chain.allowance[user], shares |-> chain.shares[user],
                price |-> chain.price, limit |-> chain.limit, liquid |-> chain.liquid]

PollPage ==
    /\ wallet # Nobody /\ seen' = [seen EXCEPT ![wallet] = Reads(wallet)]
    /\ UNCHANGED <<chain, wallet, pageState, runs, txs, moves, switches>>

(* The buttons are enabled. *)
canAct == wallet # Nobody /\ ~shown

(* The steps of an action: a deposit that the allowance, as far as it has been
   read, does not cover is preceded by an approval. *)
Steps(kind, amount) ==
    IF kind = "deposit" /\ Max({seen[wallet].allowance, 0}) < amount THEN <<"approve", "deposit">> ELSE <<kind>>

(* A click: the action is for the account that is connected now.  run()
   returns at once when the page's own sequence is under way. *)
Click ==
    /\ canAct /\ Len(runs) < MaxClicks
    /\ \E kind \in Buttons, amount \in Amounts :
         /\ ~busy
         /\ runs' = Append(runs, [at |-> "send", user |-> wallet, amount |-> amount,
                                  steps |-> Steps(kind, amount), step |-> 1,
                                  from |-> Nobody, min |-> 0, tx |-> 0,
                                  lowest |-> chain.price, mine |-> TRUE])
         /\ panel' = [run |-> Len(runs) + 1, steps |-> [i \in DOMAIN Steps(kind, amount) |-> "queued"],
                      error |-> FALSE, running |-> TRUE]
    /\ busy' = TRUE /\ shown' = TRUE
    /\ UNCHANGED <<chain, seen, wallet, txs, moves, switches>>

(* The page is painted after a state update. *)
Paint == shown' = panel.running /\ shown # shown' /\ UNCHANGED <<chain, seen, wallet, busy, panel, runs, txs, moves, switches>>

Dismiss ==
    /\ ~shown /\ panel.run # 0 /\ ~panel.running /\ panel' = IDLE
    /\ UNCHANGED <<chain, seen, wallet, busy, shown, runs, txs, moves, switches>>

(* The user goes to another page and comes back: a new page with its own ref
   and state.  A sequence that is under way goes on without a panel. *)
Remount ==
    /\ switches < MaxSwitches /\ switches' = switches + 1
    /\ busy' = FALSE /\ panel' = IDLE /\ shown' = FALSE
    /\ runs' = [k \in DOMAIN runs |-> [runs[k] EXCEPT !.mine = FALSE]]
    /\ UNCHANGED <<chain, seen, wallet, txs, moves>>

(* Another account, another chain, or none. *)
SwitchWallet ==
    /\ switches < MaxSwitches /\ switches' = switches + 1
    /\ wallet' \in (Users \cup {Nobody}) \ {wallet}
    /\ UNCHANGED <<chain, seen, pageState, runs, txs, moves>>

-----------------------------------------------------------------------------
(* The runner *)

Patched(k, status) ==
    IF runs[k].mine THEN [panel EXCEPT !.steps[runs[k].step] = status] ELSE panel

Now(k) == runs[k].steps[runs[k].step]
CallOf(k) == [kind |-> Now(k), amount |-> runs[k].amount, user |-> runs[k].user,
              from |-> runs[k].from, min |-> runs[k].min]

\* Mutant: the panel keeps saying that the sequence is running.
FailQuietly(k) ==
    /\ runs' = [runs EXCEPT ![k].at = "failed"]
    /\ panel' = IF runs[k].mine THEN [Patched(k, "error") EXCEPT !.error = TRUE] ELSE panel
    /\ busy' = (busy /\ ~runs[k].mine)
    /\ UNCHANGED <<chain, seen, txs>>

(* Any error ends the sequence and is shown. *)
Fail(k) ==
    /\ runs' = [runs EXCEPT ![k].at = "failed"]
    /\ panel' = IF runs[k].mine THEN [Patched(k, "error") EXCEPT !.error = TRUE, !.running = FALSE] ELSE panel
    /\ busy' = (busy /\ ~runs[k].mine)
    /\ UNCHANGED <<chain, seen, txs>>

\* Mutant: the bound is that of the preview on the page.
QuotePreview(k) == IF seen[runs[k].user] = Unread THEN 0
                   ELSE (runs[k].amount * seen[runs[k].user].price * Kept) \div 100

(* The unwind quotes again when it is sent. *)
Quote(k) == (runs[k].amount * chain.price * Kept) \div 100

(* The step begins: patchStep, and the quote of an unwind. *)
Send(k) ==
    /\ runs[k].at = "send"
    /\ \/ /\ runs' = [runs EXCEPT ![k].at = "simulate",
                                  ![k].min = IF Now(k) = "unwind" THEN Quote(k) ELSE 0]
          /\ panel' = Patched(k, "signing")
          /\ UNCHANGED <<chain, seen, txs, busy>>
       \/ Now(k) = "unwind" /\ Fail(k)

(* simulateContract, from the account that is connected by now. *)
Simulate(k) ==
    /\ runs[k].at = "simulate"
    /\ \/ /\ wallet # Nobody
          /\ ~Reverts(chain, [CallOf(k) EXCEPT !.from = wallet])
          /\ \E pay \in Payouts(chain, [CallOf(k) EXCEPT !.from = wallet]) : pay >= runs[k].min
          /\ runs' = [runs EXCEPT ![k].at = "sign", ![k].from = wallet]
          /\ UNCHANGED <<chain, seen, txs, busy, panel>>
       \/ Fail(k)

(* The gas is estimated on the latest block, then the wallet signs and sends;
   it refuses for an account that is no longer the connected one. *)
Sign(k) ==
    /\ runs[k].at = "sign"
    /\ \/ /\ wallet = runs[k].from /\ ~Reverts(chain, CallOf(k)) /\ Len(txs) < MaxTxs
          /\ txs' = Append(txs, [run |-> k, step |-> runs[k].step, call |-> CallOf(k), status |-> "pending"])
          /\ runs' = [runs EXCEPT ![k].at = "receipt", ![k].tx = Len(txs) + 1]
          /\ panel' = Patched(k, "confirming")
          /\ UNCHANGED <<chain, seen, busy>>
       \/ Fail(k)

\* Mutant: a receipt is a success whatever its status.
ReceiptAny(k) ==
    /\ runs[k].at = "receipt"
    /\ \/ /\ txs[runs[k].tx].status # "pending"
          /\ runs' = [runs EXCEPT ![k].at = "refetch"] /\ panel' = Patched(k, "done")
          /\ UNCHANGED <<chain, seen, txs, busy>>
       \/ txs[runs[k].tx].status = "pending" /\ Fail(k)

(* waitForTransactionReceipt: success, a revert, or a wait that times out
   while the transaction is still pending. *)
AwaitReceipt(k) ==
    /\ runs[k].at = "receipt"
    /\ \/ /\ txs[runs[k].tx].status = "success"
          /\ runs' = [runs EXCEPT ![k].at = "refetch"] /\ panel' = Patched(k, "done")
          /\ UNCHANGED <<chain, seen, txs, busy>>
       \/ txs[runs[k].tx].status # "success" /\ Fail(k)

\* Mutant: the sequence goes on while the receipt is awaited.
RefetchUnawaited(k) ==
    /\ runs[k].at \in {"receipt", "refetch"} /\ runs[k].step < Len(runs[k].steps)
    /\ runs' = [runs EXCEPT ![k].step = @ + 1, ![k].at = "send"]
    /\ UNCHANGED <<chain, seen, txs, busy, panel>>

\* Mutant: the loop runs one step too far.
RefetchOneMore(k) ==
    /\ runs[k].at = "refetch"
    /\ runs' = [runs EXCEPT ![k].step = @ + 1, ![k].at = "send"]
    /\ UNCHANGED <<chain, seen, txs, busy, panel>>

(* Every query is read again; then the next step, or the end. *)
Refetch(k) ==
    /\ runs[k].at = "refetch"
    /\ seen' = IF wallet = Nobody THEN seen ELSE [seen EXCEPT ![wallet] = Reads(wallet)]
    /\ IF runs[k].step < Len(runs[k].steps)
       THEN runs' = [runs EXCEPT ![k].step = @ + 1, ![k].at = "send"] /\ UNCHANGED <<panel, busy>>
       ELSE /\ runs' = [runs EXCEPT ![k].at = "complete"]
            /\ panel' = IF runs[k].mine THEN [panel EXCEPT !.running = FALSE] ELSE panel
            /\ busy' = (busy /\ ~runs[k].mine)
    /\ UNCHANGED <<chain, txs>>

runStep(k) ==
    /\ Send(k) \/ Simulate(k) \/ Sign(k) \/ AwaitReceipt(k) \/ Refetch(k)
    /\ UNCHANGED <<wallet, shown, moves, switches>>

PageNext == \/ \E k \in DOMAIN runs : runStep(k)
        \/ Click \/ Paint \/ Dismiss \/ Remount \/ SwitchWallet \/ PollPage \/ Mine \/ Market

(* Every await of a sequence ends: the node answers or fails, the wallet signs
   or refuses, and the wait for a receipt has a timeout. *)
PageFairness == WF_pageVars(Paint) /\ \A k \in 1..MaxClicks : WF_pageVars(k \in DOMAIN runs /\ runStep(k))
PageSpec == PageInit /\ [][PageNext]_pageVars /\ PageFairness

-----------------------------------------------------------------------------
Stages == {"send", "simulate", "sign", "receipt", "refetch", "failed", "complete"}
Over(k) == runs[k].at \in {"failed", "complete"}
Landed(k, step) == \E t \in DOMAIN txs : txs[t].run = k /\ txs[t].step = step /\ txs[t].status = "success"

PageTypeOK ==
    /\ \A u \in Users : chain.usdc[u] >= 0 /\ chain.allowance[u] >= 0 /\ chain.shares[u] >= 0
    /\ \A k \in DOMAIN runs : runs[k].at \in Stages /\ runs[k].step \in DOMAIN runs[k].steps
    /\ panel.run \in 0..Len(runs) /\ \A i \in DOMAIN panel.steps :
         panel.steps[i] \in {"queued", "signing", "confirming", "done", "error"}
    /\ busy \in BOOLEAN /\ wallet \in Users \cup {Nobody}

(* A later step of a sequence is sent only when every earlier one has
   succeeded on the chain, whatever became of wallet, page and market. *)
StepsInOrder ==
    \A t \in DOMAIN txs : \A step \in 1..(txs[t].step - 1) : Landed(txs[t].run, step)

(* A panel that says "complete" has every step on the chain; one that is shown
   neither complete nor failed belongs to a sequence under way. *)
PanelIsTrue ==
    panel.run # 0 =>
        /\ ~panel.running /\ ~panel.error => \A step \in DOMAIN panel.steps : Landed(panel.run, step)
        /\ panel.running <=> ~Over(panel.run)
        /\ panel.running <=> busy

(* "re-quote at submit time so minAssetsOut is never based on a stale preview"
   (VaultView.tsx:235): the bound of an unwind keeps its percentage of a price
   that held after the click, so what is paid does, too. *)
BoundIsFresh ==
    \A t \in DOMAIN txs : txs[t].call.kind = "unwind" =>
        txs[t].call.min >= (txs[t].call.amount * runs[txs[t].run].lowest * Kept) \div 100

(* The buttons come back: no sequence keeps the page busy for ever. *)
PageSettles == shown ~> ~shown

(* The page and its sequences, at every moment. *)
PageHolds == PageTypeOK /\ StepsInOrder /\ PanelIsTrue /\ BoundIsFresh
=============================================================================
