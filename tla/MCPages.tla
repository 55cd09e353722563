------------------------------- MODULE MCPages -------------------------------
(***************************************************************************)
(* The API's answers and the pages of the dashboard that use them, model-   *)
(* checked one at a time: the requests with their caches, the wallet, the   *)
(* vault page, the simulation forms, the live panels while a transaction is *)
(* confirmed, and the ranges of the performance page.  Only the subject of  *)
(* a behaviour moves, the others rest in one initial state.  The vault page *)
(* is looked at twice: while the user switches and leaves, and while prices *)
(* move.                                                                    *)
(***************************************************************************)
EXTENDS ApiCache, Wallet, DepositorPage, SimForms, Panels

CONSTANTS alice, bob, reader

VARIABLE subject

Custom(move, over, horizon, leverage) ==
    [priceMovePct |-> move, moveDays |-> over, horizonDays |-> horizon, leverage |-> leverage]
Paths(paths, days, seed) == [paths |-> paths, days |-> days, seed |-> seed]

(* The contents of the fields that the forms' checks tell apart. *)
MCTyped ==
    [custom |-> {Custom(-30, 2, 30, Blank), Custom(-30, 2, 30, 3)},
     montecarlo |-> {Paths(200, 365, 42), Paths(200, 365, Fraction)}]

\* The second configuration differs from the first by less than the rounding.
MCRounded == <<1, 1, 3>>

MCDefaults == [custom |-> Custom(-30, 2, 30, Blank), montecarlo |-> Paths(200, 365, 42)]

-----------------------------------------------------------------------------
pagesVars == <<apiVars, walletVars, pageVars, formsVars, panelsVars>>

PagesRest ==
    /\ ApiInit /\ blocks = <<1>>
    /\ WalletInit /\ (subject # "wallet" => remembered = None)
    /\ PageInit /\ wallet = alice /\ chain.price = 1 /\ chain.allowance = [u \in Users |-> IF u = bob THEN Holdings ELSE 0]
    /\ FormsInit /\ target = DEFAULT_STRATEGY
    /\ PanelsInit /\ range = "7d"

PagesInit == subject \in {"api", "wallet", "page", "exits", "forms", "panels", "ranges"} /\ PagesRest

(* One client asks for the scenarios only. *)
OneReads == req'[reader].kind # "history"

(* The market stands still, and one enters with a deposit and leaves through the
   unwind; or the wallet stays connected, and one leaves through every door. *)
NoMoves == moves' = moves /\ \A k \in DOMAIN runs' : Last(runs'[k].steps) \in {"deposit", "unwind"}
NoSwitches == switches' = switches

(* The performance page is not open, or no transaction is on its way. *)
OnlyLive == \A k \in Ranges : query'[k] = query[k]
OnlyRanges == UNCHANGED <<now, block, tx>> /\ \A k \in Live : query'[k] = query[k]

PagesNext ==
    \/ /\ subject = "api" /\ ApiNext /\ OneReads
       /\ UNCHANGED <<subject, walletVars, pageVars, formsVars, panelsVars>>
    \/ /\ subject = "wallet" /\ WalletNext
       /\ UNCHANGED <<subject, apiVars, pageVars, formsVars, panelsVars>>
    \/ /\ subject = "page" /\ PageNext /\ NoMoves
       /\ UNCHANGED <<subject, apiVars, walletVars, formsVars, panelsVars>>
    \/ /\ subject = "exits" /\ PageNext /\ NoSwitches
       /\ UNCHANGED <<subject, apiVars, walletVars, formsVars, panelsVars>>
    \/ /\ subject = "forms" /\ FormsNext
       /\ UNCHANGED <<subject, apiVars, walletVars, pageVars, panelsVars>>
    \/ /\ subject = "panels" /\ PanelsNext /\ OnlyLive
       /\ UNCHANGED <<subject, apiVars, walletVars, pageVars, formsVars>>
    \/ /\ subject = "ranges" /\ PanelsNext /\ OnlyRanges
       /\ UNCHANGED <<subject, apiVars, walletVars, pageVars, formsVars>>

(* What the components' modules say of their timers, awaits and processes. *)
PagesFairness ==
    /\ \A q \in Reqs : WF_apiVars(subject = "api" /\ Serve(q))
    /\ WF_walletVars(subject = "wallet" /\ Library)
    /\ WF_walletVars(subject = "wallet" /\ Disconnected /\ UNCHANGED remembered)
    /\ WF_walletVars(subject = "wallet" /\ Attempt)
    /\ WF_walletVars(subject = "wallet" /\ Restored)
    /\ WF_pageVars(subject \in {"page", "exits"} /\ Paint)
    /\ \A k \in 1..MaxClicks : WF_pageVars(subject \in {"page", "exits"} /\ k \in DOMAIN runs /\ runStep(k))
    /\ \A i \in 1..MaxRuns : WF_formsVars(subject = "forms" /\ i \in DOMAIN reqs /\ ServeRun(i))
    /\ \A id \in LookedUp : WF_formsVars(subject = "forms" /\ getSimulation(id))
    /\ \A what \in {"api", "db", "rpc"} : WF_formsVars(subject = "forms" /\ Return(what))

PagesSpec == PagesInit /\ [][PagesNext]_<<subject, pagesVars>> /\ PagesFairness

(* What the API answers and what the pages show, send and store is true. *)
PagesHold ==
    /\ subject = "api" => AnswersHold
    /\ subject = "wallet" => WalletTypeOK
    /\ subject \in {"page", "exits"} => PageHolds
    /\ subject = "forms" => FormsHold
    /\ subject \in {"panels", "ranges"} => PanelsHold

(* A wallet that is forgotten stays forgotten, and a panel that showed data
   does not go blank. *)
PagesRemember == [][DisconnectOutlivesReload /\ NeverBlank]_pagesVars

(* Every request is answered, every button comes back, every run ends and the
   remembered wallet is restored. *)
PagesSettle ==
    /\ subject = "api" => EveryRequestIsAnswered
    /\ subject \in {"page", "exits"} => PageSettles
    /\ subject = "forms" => EveryRunEnds
    /\ subject = "wallet" => ChoiceIsRestored
=============================================================================
