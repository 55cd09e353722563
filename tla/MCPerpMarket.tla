---------------------------- MODULE MCPerpMarket ----------------------------
(***************************************************************************)
(* The perpetual venue with its trader, and the position mathematics alone *)
(* over many more fills than a venue's account sees.  The subject of a     *)
(* behaviour is chosen at its start; the other one rests in its initial    *)
(* state.                                                                  *)
(***************************************************************************)
EXTENDS PerpMarket, PerpPosition

VARIABLE subject    \* "venue" or "position"

\* One ETH is 100 quantity units, one usd6 is two price units: a price of 200
\* makes one ETH worth 100 usd6, so a 1 ETH position needs 10 of initial margin.
DeployedParams ==
    [takerFeeBps |-> 1, spreadBps |-> 1, maxImpactBps |-> 5, initialMarginBps |-> 10,
     maintenanceMarginBps |-> 5, liquidationPenaltyBps |-> 3, depthUsd |-> 10000]

TighterParams == [DeployedParams EXCEPT !.initialMarginBps = 20, !.maintenanceMarginBps = 10]

MCParamChoices == {DeployedParams, TighterParams}
MCRates == {-1, 1}
MCSizeDeltas == {-100, 50, 150}
MCPositionDeltas == {-150, -100, -50, -30, 30, 50, 100}
MCMargins == {-40, 0, 9, 30, 120}
MCMarkPrices == {100 + 6 * i : i \in 0..60}

EitherInit ==
    /\ subject \in {"venue", "position"}
    /\ Init
    /\ PositionInit
    /\ subject = "position" => price = 180 /\ params = DeployedParams

EitherNext ==
    \/ subject = "venue" /\ Next /\ UNCHANGED <<subject, positionVars>>
    \/ subject = "position" /\ PositionNext /\ UNCHANGED <<subject, vars>>

EitherSpec == EitherInit /\ [][EitherNext]_<<subject, vars, positionVars>>

\* Average-entry accounting, as it is booked and as the planner reads it: the
\* two statements about PerpMath, for every position the fills can build.
PositionMathsHolds ==
    subject = "position" => AccountingMatchesCashFlow /\ LiquidationPriceIsThreshold
=============================================================================
