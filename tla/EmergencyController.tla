------------------------- MODULE EmergencyController -------------------------
(***************************************************************************)
(* Roles (contracts/access/) and the pause, breaker and shutdown state     *)
(* (contracts/core/EmergencyController.sol), with the callers that gate    *)
(* themselves on it.  Every call is made by some account; a call the role  *)
(* checks refuse is a step that is not enabled.                            *)
(***************************************************************************)
CONSTANTS
    Accounts,       \* externally owned accounts and contracts that may call
    RiskManager,    \* the contract wired in initialize()
    Deployer        \* the account the AccessRegistry is constructed with

VARIABLES
    roles,              \* AccessRegistry: the accounts holding each role
    initialized,        \* strategy and risk manager are wired
    depositsPaused, strategyPaused, isShutdown,
    sender              \* history: the account that made the last call

rolesVars == <<roles, initialized, depositsPaused, strategyPaused, isShutdown, sender>>
flags == <<depositsPaused, strategyPaused, isShutdown>>

RoleNames == {"ADMIN", "GUARDIAN", "KEEPER", "STRATEGIST"}

ASSUME RiskManagerAssumption == RiskManager \in Accounts /\ Deployer \in Accounts

HasRole(role, account) == account \in roles[role]

\* Auth._checkGuardian: an admin may always act as guardian.
IsGuardian(account) == HasRole("GUARDIAN", account) \/ HasRole("ADMIN", account)

RolesInit ==
    /\ roles = [r \in RoleNames |-> IF r = "ADMIN" THEN {Deployer} ELSE {}]
    /\ initialized = FALSE
    /\ depositsPaused = FALSE /\ strategyPaused = FALSE /\ isShutdown = FALSE
    /\ sender = Deployer

-----------------------------------------------------------------------------
\* AccessRegistry: ADMIN administers every role; anyone may renounce their own.
GrantRole(caller, role, account) ==
    /\ HasRole("ADMIN", caller)
    /\ roles' = [roles EXCEPT ![role] = @ \cup {account}]
    /\ sender' = caller
    /\ UNCHANGED <<initialized, flags>>

RevokeRole(caller, role, account) ==
    /\ HasRole("ADMIN", caller) \/ caller = account
    /\ roles' = [roles EXCEPT ![role] = @ \ {account}]
    /\ sender' = caller
    /\ UNCHANGED <<initialized, flags>>

Initialize(caller) ==
    /\ HasRole("ADMIN", caller)
    /\ ~initialized
    /\ initialized' = TRUE
    /\ sender' = caller
    /\ UNCHANGED <<roles, flags>>

PauseDeposits(caller) ==
    /\ IsGuardian(caller)
    /\ depositsPaused' = TRUE
    /\ sender' = caller
    /\ UNCHANGED <<roles, initialized, strategyPaused, isShutdown>>

\* Mutant: deposits can be reopened after a shutdown.
UnpauseDepositsAlways(caller) ==
    /\ HasRole("ADMIN", caller)
    /\ depositsPaused' = FALSE
    /\ sender' = caller
    /\ UNCHANGED <<roles, initialized, strategyPaused, isShutdown>>

UnpauseDeposits(caller) ==
    /\ HasRole("ADMIN", caller)
    /\ ~isShutdown
    /\ depositsPaused' = FALSE
    /\ sender' = caller
    /\ UNCHANGED <<roles, initialized, strategyPaused, isShutdown>>

PauseStrategy(caller) ==
    /\ IsGuardian(caller)
    /\ strategyPaused' = TRUE
    /\ sender' = caller
    /\ UNCHANGED <<roles, initialized, depositsPaused, isShutdown>>

\* Mutant: whoever may pause may also unpause.
UnpauseStrategyByGuardian(caller) ==
    /\ IsGuardian(caller)
    /\ ~isShutdown
    /\ strategyPaused' = FALSE
    /\ sender' = caller
    /\ UNCHANGED <<roles, initialized, depositsPaused, isShutdown>>

UnpauseStrategy(caller) ==
    /\ HasRole("ADMIN", caller)
    /\ ~isShutdown
    /\ strategyPaused' = FALSE
    /\ sender' = caller
    /\ UNCHANGED <<roles, initialized, depositsPaused, isShutdown>>

\* Called by RiskManager._checkpoint on EMERGENCY, in whoever's transaction.
TripCircuitBreaker(caller) ==
    /\ initialized /\ caller = RiskManager
    /\ depositsPaused' = TRUE
    /\ sender' = caller
    /\ UNCHANGED <<roles, initialized, strategyPaused, isShutdown>>

\* Mutant: the shutdown forgets to stop the strategy.
EmergencyUnwindStrategyRunning(caller) ==
    /\ IsGuardian(caller) /\ initialized
    /\ depositsPaused' = TRUE /\ isShutdown' = TRUE
    /\ sender' = caller
    /\ UNCHANGED <<roles, initialized, strategyPaused>>

\* The flags are raised before the strategy unwinds; what the unwind closes is
\* best effort and belongs to the strategy.
EmergencyUnwind(caller) ==
    /\ IsGuardian(caller) /\ initialized
    /\ depositsPaused' = TRUE /\ strategyPaused' = TRUE /\ isShutdown' = TRUE
    /\ sender' = caller
    /\ UNCHANGED <<roles, initialized>>

RolesNext ==
    \E caller \in Accounts :
        \/ \E role \in RoleNames, account \in Accounts :
               GrantRole(caller, role, account) \/ RevokeRole(caller, role, account)
        \/ Initialize(caller)
        \/ PauseDeposits(caller) \/ UnpauseDeposits(caller)
        \/ PauseStrategy(caller) \/ UnpauseStrategy(caller)
        \/ TripCircuitBreaker(caller)
        \/ EmergencyUnwind(caller)

RolesSpec == RolesInit /\ [][RolesNext]_rolesVars

-----------------------------------------------------------------------------
RolesTypeOK ==
    /\ roles \in [RoleNames -> SUBSET Accounts]
    /\ initialized \in BOOLEAN /\ isShutdown \in BOOLEAN
    /\ depositsPaused \in BOOLEAN /\ strategyPaused \in BOOLEAN
    /\ sender \in Accounts

\* Emergency unwind is terminal: from the moment it is called no deposit and no
\* rebalance is ever possible again, whatever the roles do afterwards.
ShutdownClosesEntries == isShutdown => depositsPaused /\ strategyPaused

\* "The guardian can only make the system safer": a pause is only ever lifted by
\* an account that holds ADMIN, never by the guardian or the risk manager, and
\* after the shutdown by nobody.
Relaxes == (depositsPaused /\ ~depositsPaused') \/ (strategyPaused /\ ~strategyPaused')

OnlySafer ==
    [][/\ Relaxes => sender' \in roles["ADMIN"]
       /\ isShutdown => isShutdown' /\ depositsPaused' /\ strategyPaused']_rolesVars

=============================================================================
