--------------------------- MODULE MCLendingMarket ---------------------------
(***************************************************************************)
(* LendingMarket at a small scale: rates of tens of percent per period, so *)
(* that the index moves by visible roundings.  The same run walks through  *)
(* the roles with the emergency controller, and through the keeper: the    *)
(* subject of a behaviour is chosen at its start, the others rest in their *)
(* initial state.                                                          *)
(***************************************************************************)
EXTENDS LendingMarket, EmergencyController, Keeper

VARIABLE subject    \* "lending", "roles" or "keeper"

MCInitialModel == [baseRate |-> 7, slope1 |-> 11, slope2 |-> 30,
                   optimalUtilization |-> 80, reserveFactor |-> 10]
MCSteepModel == [MCInitialModel EXCEPT !.baseRate = 23, !.reserveFactor = 0]
MCModels == {MCInitialModel, MCSteepModel}

EitherInit == subject \in {"lending", "roles", "keeper"} /\ Init /\ RolesInit /\ KeeperInit

EitherNext ==
    \/ subject = "lending" /\ Next /\ UNCHANGED <<subject, rolesVars, keeperVars>>
    \/ subject = "roles" /\ RolesNext /\ UNCHANGED <<subject, vars, keeperVars>>
    \/ subject = "keeper" /\ KeeperNext /\ UNCHANGED <<subject, vars, rolesVars>>

(* setInterval starts the keeper's next tick, every await settles, blocks are
   mined. *)
EitherSpec ==
    /\ EitherInit /\ [][EitherNext]_<<subject, vars, rolesVars, keeperVars>>
    /\ WF_keeperVars(subject = "keeper" /\ KeeperStep)
    /\ WF_keeperVars(subject = "keeper" /\ Mine)

(* With the keeper at work, all of it gets done. *)
WorkGetsDone == subject = "keeper" => KeeperGetsWorkDone
=============================================================================
