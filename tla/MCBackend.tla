------------------------------ MODULE MCBackend ------------------------------
(***************************************************************************)
(* What the backend does, stores and derives, model-checked one component   *)
(* at a time: the alerts, the indexer, the snapshots, and what the API makes *)
(* of the history and of a reading of the chain.  They share no state, so a  *)
(* behaviour of several is an interleaving of these.  Only the subject of a  *)
(* behaviour moves, the others rest in one initial state.  The keeper is     *)
(* with the rebalancer it drives (MCDashboard).                              *)
(***************************************************************************)
EXTENDS Alerts, Indexer, Snapshots, Views

CONSTANTS a, b, builder, k1, k2

VARIABLE subject

(* Blocks for the indexer: the own account's funding, a rebalance, funding of
   another account; an exit through the unwind. *)
Log(event, tx, own) == [event |-> event, tx |-> tx, own |-> own]

MCBatches ==
    { << Log("FundingSettled", 1, TRUE), Log("Rebalanced", 1, TRUE), Log("FundingSettled", 2, FALSE) >>,
      << Log("Withdraw", 1, TRUE), Log("RedeemWithUnwind", 1, TRUE) >> }

(* The thresholds of the deployment (script/Deploy.s.sol) and values on and
   next to them.  The delta band is two points off the deployment's 200 bps so
   that the scaled band is not a whole number. *)
Limits(w, h, c) == [warn |-> w, high |-> h, critical |-> c]

MCThresholds ==
    [leverage |-> Limits(25000, 35000, 50000), delta |-> Limits(200, 500, 1000),
     drawdown |-> Limits(200, 500, 1000), exposure |-> Limits(8500, 9500, 10000),
     liquidation |-> Limits(3000, 2000, 1000), collateral |-> Limits(60000, 40000, 20000),
     fundingWarn |-> 0, fundingHigh |-> -1000, maxNotional |-> 8000]

MCParams == [band |-> 202, volRef |-> 6000]

MCCalm ==
    [notional |-> 4000, equity |-> 2000, distance |-> 4286, netDelta |-> 0, nav |-> 10000,
     lent |-> 6000, peak |-> 10000, pps |-> 10000, funding |-> 80000, vol |-> 6000,
     oracle |-> "OK", supplied |-> 3000, withdrawable |-> 3000, paused |-> {},
     shutdown |-> FALSE, plan |-> "none", lastRebalanceAt |-> 0, now |-> 90000]

MCValues ==
    [notional |-> {0, 3000, 8000, 8001},
     equity |-> {0, 400, 800, 1600},
     distance |-> {999, 1000, 1999, 2000, 2999, 3000, 3001},
     netDelta |-> {-1001, -1000, -500, -202, -201, -51, -50, 51, 101, 102, 200, 202, 203, 501},
     nav |-> {10000, 9000},
     lent |-> {8500, 9500},
     peak |-> {10000, 11000},
     pps |-> {9800, 9500, 9000},
     funding |-> {-50, -100, -50001, -50100, -100001, -100101},
     vol |-> {8000, 12001, 60000},
     oracle |-> {"FALLBACK", "STALE"},
     supplied |-> {0},
     withdrawable |-> {0, 300, 1499, 1500},
     paused |-> {{"breaker.deposits"}, {"breaker.deposits", "breaker.strategy"}},
     shutdown |-> {TRUE},
     plan |-> {"execute", "urgent"},
     lastRebalanceAt |-> {68400, 68399},
     now |-> {90001}]

ASSUME SharpThresholds /\ ShortsHaveMargin

-----------------------------------------------------------------------------
everything == <<subject, alertVars, indexerVars, snapshotVars, historyVars, reading>>

EitherInit ==
    /\ AlertsInit /\ IndexerInit /\ SnapshotsInit /\ HistoryInit /\ ViewsInit
    /\ subject \in {"alerts", "indexer", "snapshots", "history", "views"}
    /\ subject # "history" => snapshotRows[1].price = 8

EitherNext ==
    \/ /\ subject = "alerts" /\ AlertsNext
       /\ UNCHANGED <<subject, indexerVars, snapshotVars, historyVars, reading>>
    \/ /\ subject = "indexer" /\ IndexerNext
       /\ UNCHANGED <<subject, alertVars, snapshotVars, historyVars, reading>>
    \/ /\ subject = "snapshots" /\ SnapshotsNext
       /\ UNCHANGED <<subject, alertVars, indexerVars, historyVars, reading>>
    \/ /\ subject = "history" /\ HistoryNext
       /\ UNCHANGED <<subject, alertVars, indexerVars, snapshotVars, reading>>
    \/ /\ subject = "views" /\ ViewsNext
       /\ UNCHANGED <<subject, alertVars, indexerVars, snapshotVars, historyVars>>

(* The timers start a run again and again and one that nothing fails ends; a
   history that failed is built again. *)
EitherSpec ==
    /\ EitherInit /\ [][EitherNext]_everything
    /\ \A p \in Syncers : WF_alertVars(subject = "alerts" /\ syncAlerts(p))
    /\ \A p \in Indexers : WF_indexerVars(subject = "indexer" /\ p \in active /\ Run(p))
    /\ \A p \in Snapshotters : WF_snapshotVars(subject = "snapshots" /\ takeSnapshot(p))

(* The numbers the API derives, from the stored history and from a reading of
   the chain, say what the table and the contracts say. *)
ReportsHold ==
    /\ subject = "history" => SeriesAreTrue
    /\ subject = "views" => ViewsAgree

(* After any finite number of failed queries and processes, the active alerts
   come to be the conditions of the chain; and with the snapshots at work,
   every block is followed by one of it or of a later block. *)
LoopsKeepUp ==
    /\ subject = "alerts" => AlertsSettle
    /\ subject = "snapshots" => HistoryKeepsUp
=============================================================================
