-------------------------------- MODULE Wallet --------------------------------
(***************************************************************************)
(* The wallet of the dashboard (frontend): the connect and disconnect       *)
(* buttons (components/layout/WalletMenu.tsx), the wallet remembered in     *)
(* local storage (lib/wagmi.ts) and its restoration after a reload          *)
(* (app/providers.tsx), over the connections the wagmi library keeps.       *)
(*                                                                          *)
(* wagmi's statuses "connecting" and "reconnecting" are one, Pending: every *)
(* reader of the status treats them alike.                                  *)
(***************************************************************************)
EXTENDS Naturals, Sequences, SequencesExt

CONSTANTS Demo,      \* the connectors of the demo wallets
          Browser,   \* the connector of the browser's wallet
          Gone,      \* ids of demo wallets of an earlier build, which have no connector any more
          None,
          MaxTries,  \* attempts that find wagmi still busy, 10 in the code
          MaxReloads \* bound: reloads of the page

ASSUME WalletAssumption ==
    /\ Browser \notin Demo /\ Gone \cap (Demo \cup {Browser}) = {} /\ None \notin Demo \cup Gone \cup {Browser}
    /\ MaxTries \in Nat

Connectors == Demo \cup {Browser}

VARIABLES wagmi,      \* connections of the library, the current one first
          status,     \* what the library says of itself
          settled,    \* its own reconnect pass is over
          menu,       \* the await a button's handler is at, and its connector
          restore,    \* the timer that restores a demo wallet
          remembered, \* local storage
          forgotten,  \* the user has pressed Disconnect and connected nothing since
          reloads

walletVars == <<wagmi, status, settled, menu, restore, remembered, forgotten, reloads>>

At(step, connector) == [at |-> step, connector |-> connector]
Idle == At("idle", None)
NoTimer == [at |-> "off", id |-> None, tries |-> 0]

\* Mutant: any remembered wallet is restored.
TimerForAny(id) == IF id # None THEN [at |-> "waiting", id |-> id, tries |-> 0] ELSE NoTimer

(* DemoWalletRestore of a page that has just loaded. *)
Timer(id) == IF id \in Demo \cup Gone THEN [at |-> "waiting", id |-> id, tries |-> 0] ELSE NoTimer

WalletInit ==
    /\ wagmi = <<>> /\ status = "pending" /\ settled = FALSE
    /\ menu = Idle /\ forgotten = FALSE /\ reloads = 0
    /\ remembered \in Connectors \cup Gone \cup {None}
    /\ restore = Timer(remembered)

Reload ==
    /\ reloads < MaxReloads /\ reloads' = reloads + 1
    /\ wagmi' = <<>> /\ status' = "pending" /\ settled' = FALSE
    /\ menu' = Idle /\ restore' = Timer(remembered)
    /\ UNCHANGED <<remembered, forgotten>>

-----------------------------------------------------------------------------
(* The library *)

Current == IF wagmi = <<>> THEN None ELSE wagmi[1]

(* The pass over the wallets of the last page ends.  Mock connectors keep no
   session; the browser's wallet may have one.  A status that has become
   "connected" meanwhile is left alone. *)
Settle ==
    /\ ~settled /\ settled' = TRUE
    /\ IF status = "pending"
       THEN \/ wagmi' = <<>> /\ status' = "disconnected"
            \/ wagmi' = <<Browser>> /\ status' = "connected"
       ELSE UNCHANGED <<wagmi, status>>
    /\ UNCHANGED <<menu, restore, remembered, forgotten, reloads>>

Connected(connector) ==
    wagmi' = <<connector>> \o RemoveFirst(wagmi, connector) /\ status' = "connected"
Refused == status' = (IF wagmi = <<>> THEN "disconnected" ELSE "connected") /\ UNCHANGED wagmi
Dropped(connector) ==
    /\ wagmi' = RemoveFirst(wagmi, connector)
    /\ status' = IF wagmi' = <<>> THEN "disconnected" ELSE "connected"

-----------------------------------------------------------------------------
(* useWalletActions *)

(* connectWith: a click on a wallet, when no action of the menu is pending. *)
Pick ==
    /\ menu = Idle
    /\ \E connector \in Connectors \ {Current} :
         IF status = "connected"
         THEN menu' = At("leave", connector) /\ UNCHANGED status
         ELSE menu' = At("connect", connector) /\ status' = "pending"
    /\ UNCHANGED <<wagmi, settled, restore, remembered, forgotten, reloads>>

(* The connected wallet is disconnected first; an error ends the handler, and
   so does a wallet that is already the current one then. *)
Leave ==
    /\ menu.at = "leave"
    /\ \/ /\ wagmi' = IF wagmi = <<>> THEN <<>> ELSE Tail(wagmi)
          /\ IF wagmi' # <<>> /\ wagmi'[1] = menu.connector
             THEN menu' = Idle /\ status' = "connected"
             ELSE menu' = At("connect", menu.connector) /\ status' = "pending"
       \/ menu' = Idle /\ UNCHANGED <<wagmi, status>>
    /\ UNCHANGED <<settled, restore, remembered, forgotten, reloads>>

(* The owner of the browser's wallet may refuse. *)
Connect ==
    /\ menu.at = "connect"
    /\ \/ Connected(menu.connector) /\ menu' = At("remember", menu.connector) /\ forgotten' = FALSE
       \/ menu.connector = Browser /\ Refused /\ menu' = Idle /\ UNCHANGED forgotten
    /\ UNCHANGED <<settled, restore, remembered, reloads>>

Remember ==
    /\ menu.at = "remember"
    /\ menu' = Idle /\ remembered' = menu.connector
    /\ UNCHANGED <<wagmi, status, settled, restore, forgotten, reloads>>

(* disconnectAll: first forgets the wallet, then disconnects it. *)
Press ==
    /\ menu = Idle /\ status = "connected" /\ wagmi # <<>>
    /\ menu' = At("disconnect", Current) /\ forgotten' = TRUE
    /\ UNCHANGED <<wagmi, status, settled, restore, reloads>>

Disconnected ==
    /\ menu.at = "disconnect" /\ menu' = Idle
    /\ Dropped(menu.connector) \/ UNCHANGED <<wagmi, status>>
    /\ UNCHANGED <<settled, restore, forgotten, reloads>>

\* Mutant: the wallet is forgotten once it is disconnected, not before.
disconnectThenForget ==
    \/ Press /\ UNCHANGED remembered
    \/ Disconnected /\ remembered' = None

disconnectAll ==
    \/ Press /\ remembered' = None
    \/ Disconnected /\ UNCHANGED remembered

-----------------------------------------------------------------------------
(* DemoWalletRestore *)

(* attempt: the timer fires.  A wallet without a connector is forgotten. *)
Attempt ==
    /\ restore.at = "waiting"
    /\ \/ /\ status = "pending" /\ restore.tries < MaxTries /\ Current # restore.id
          /\ restore' = [restore EXCEPT !.tries = @ + 1] /\ UNCHANGED <<status, remembered>>
       \/ /\ status = "connected" \/ Current = restore.id
          /\ restore' = NoTimer /\ UNCHANGED <<status, remembered>>
       \/ /\ status = "disconnected" \/ (status = "pending" /\ restore.tries >= MaxTries)
          /\ Current # restore.id
          /\ IF restore.id \in Gone
             THEN restore' = NoTimer /\ remembered' = None /\ UNCHANGED status
             ELSE restore' = [restore EXCEPT !.at = "connecting"] /\ status' = "pending" /\ UNCHANGED remembered
    /\ UNCHANGED <<wagmi, settled, menu, forgotten, reloads>>

(* A mock connector never refuses. *)
Restored ==
    /\ restore.at = "connecting" /\ restore' = NoTimer
    /\ Connected(restore.id)
    /\ UNCHANGED <<settled, menu, remembered, forgotten, reloads>>

Library == Settle \/ Leave \/ Connect \/ Remember
WalletNext == Reload \/ Pick \/ disconnectAll \/ Library \/ Attempt \/ Restored

(* Awaits end and timers fire.  The user need not do anything. *)
WalletFairness == WF_walletVars(Library) /\ WF_walletVars(Disconnected /\ UNCHANGED remembered) /\ WF_walletVars(Attempt) /\ WF_walletVars(Restored)
WalletSpec == WalletInit /\ [][WalletNext]_walletVars /\ WalletFairness

-----------------------------------------------------------------------------
WalletTypeOK ==
    /\ wagmi \in Seq(Connectors) /\ IsInjective(wagmi)
    /\ status \in {"pending", "disconnected", "connected"}
    /\ menu \in [at : {"idle", "leave", "connect", "remember", "disconnect"}, connector : Connectors \cup {None}]
    /\ restore \in [at : {"off", "waiting", "connecting"}, id : Demo \cup Gone \cup {None}, tries : 0..MaxTries]
    /\ remembered \in Connectors \cup Gone \cup {None}
    /\ forgotten \in BOOLEAN /\ settled \in BOOLEAN

(* A page that loads after the user has pressed Disconnect restores no wallet,
   wherever between two steps of a handler the reload falls. *)
DisconnectOutlivesReload == Reload /\ forgotten => restore'.at = "off"

(* "The choice is remembered across reloads" (frontend/README.md:70): the timer
   of a page that loads with a remembered demo wallet it still has ends with
   some wallet connected, however long wagmi's own pass takes. *)
ChoiceIsRestored == restore.at = "waiting" /\ restore.id \in Demo ~> status = "connected" \/ menu # Idle \/ forgotten
=============================================================================
