-------------------------------- MODULE Panels --------------------------------
(***************************************************************************)
(* What the dashboard shows of the API: the queries of lib/queries.ts under *)
(* react-query's defaults of app/providers.tsx, the panels that render them *)
(* (components/ui/QueryState.tsx, components/layout/DemoBanner.tsx and the  *)
(* ranges of app/performance), and the refresh after a transaction          *)
(* (lib/tx.ts) against the state the API caches (api/service.ts).           *)
(*                                                                          *)
(* Time is in half seconds.  A poll, a mount and a "Retry now" are one      *)
(* action, which may come at any time.                                      *)
(***************************************************************************)
EXTENDS Integers, FiniteSets

CONSTANTS Live,      \* keys of the panels that are on screen: "health", "vault"
          Ranges,    \* keys of the performance page, of which one is selected
          Missing,   \* data that is undefined
          StateTtl,       \* how long the API keeps a state, 1.5 s
          Late,      \* when tx.ts invalidates a second time, 2.5 s
          MaxPanelsTime, MaxBlock, MaxPanelsFaults \* bounds

Keys == Live \cup Ranges

\* What the API answers to a query.
Told == [ok : BOOLEAN, block : Nat, key : Keys, late : BOOLEAN]

\* The second invalidation comes when the API's cache has expired.
ASSUME PanelsAssumption ==
    /\ StateTtl \in Nat /\ Late \in Nat /\ Late >= StateTtl
    /\ Live \cap Ranges = {} /\ Missing \notin Told
    /\ MaxPanelsTime \in Nat /\ MaxBlock \in Nat \ {0} /\ MaxPanelsFaults \in Nat

VARIABLES now, block,   \* the clock, and the height of the chain
          unreachable,         \* what is not reachable of "api" and "rpc"
          panelsFaults,
          stateCache,        \* the state the API keeps
          query,        \* react-query's queries
          last,         \* how the last fetch of a query ended
          range,        \* the selected range
          shownBefore,  \* the data its observer had last: keepPreviousData
          tx            \* the transaction of the vault page

panelsVars == <<now, block, unreachable, panelsFaults, stateCache, query, last, range, shownBefore, tx>>

Data(ok, b, key, late) == [ok |-> ok, block |-> b, key |-> key, late |-> late]
NoTx == [at |-> "none", block |-> 0, due |-> 0]

PanelsInit ==
    /\ now = 0 /\ block = 1 /\ unreachable = {} /\ panelsFaults = 0
    /\ stateCache = [at |-> 0, block |-> 1]
    /\ query = [k \in Keys |-> [data |-> Missing, status |-> "pending", fetch |-> "idle", failures |-> 0,
                                answer |-> Missing, late |-> FALSE]]
    /\ last = [k \in Keys |-> "none"]
    /\ range \in (IF Ranges = {} THEN {Missing} ELSE Ranges)
    /\ shownBefore = Missing
    /\ tx = NoTx

OnScreen == Live \cup (Ranges \cap {range})

-----------------------------------------------------------------------------
(* react-query *)

\* Mutant: a new fetch clears the error.
StartedClean(q) ==
    [q EXCEPT !.fetch = "sent", !.failures = 0, !.answer = Missing, !.late = tx.at = "late",
              !.status = IF q.data = Missing THEN "pending" ELSE "success"]

(* A fetch begins; a query without data is pending again. *)
Started(q) ==
    [q EXCEPT !.fetch = "sent", !.failures = 0, !.answer = Missing, !.late = tx.at = "late",
              !.status = IF q.data = Missing THEN "pending" ELSE q.status]

PollQuery(k) ==
    /\ k \in OnScreen /\ query[k].fetch = "idle"
    /\ query' = [query EXCEPT ![k] = Started(@)]
    /\ UNCHANGED <<now, block, unreachable, panelsFaults, stateCache, last, range, shownBefore, tx>>

(* invalidateQueries: what is on screen is fetched again, and a fetch of a
   query with data is cancelled for it. *)
Invalidated ==
    [k \in Keys |-> IF k \in OnScreen /\ (query[k].fetch = "idle" \/ query[k].data # Missing)
                    THEN Started(query[k]) ELSE query[k]]

\* Mutant: it is tried again every time.
FailedAgain(q) == [q EXCEPT !.failures = @ + 1, !.fetch = "retry"]

(* retry: 1 *)
Failed(q) ==
    IF q.failures = 0 THEN [q EXCEPT !.failures = 1, !.fetch = "retry"]
    ELSE [q EXCEPT !.fetch = "idle", !.status = "error"]

FetchFails(k) ==
    /\ query' = [query EXCEPT ![k] = Failed(@)]
    /\ last' = [last EXCEPT ![k] = IF query[k].failures = 0 THEN @ ELSE "failed"]

Retry(k) ==
    /\ query[k].fetch = "retry"
    /\ query' = [query EXCEPT ![k].fetch = "sent"]
    /\ UNCHANGED <<now, block, unreachable, panelsFaults, stateCache, last, range, shownBefore, tx>>

-----------------------------------------------------------------------------
(* The API *)

Fresh == now - stateCache.at < StateTtl

(* state(): what is cached, or a new reading. *)
ServeQuery(k) ==
    /\ query[k].fetch = "sent"
    /\ IF "api" \in unreachable \/ (k = "vault" /\ ~Fresh /\ "rpc" \in unreachable)
       THEN FetchFails(k) /\ UNCHANGED stateCache
       ELSE /\ stateCache' = IF k = "vault" /\ ~Fresh THEN [at |-> now, block |-> block] ELSE stateCache
            /\ query' = [query EXCEPT ![k].fetch = "answered",
                           ![k].answer = Data(k # "health" \/ "rpc" \notin unreachable,
                                              IF k = "vault" THEN stateCache'.block ELSE block, k, query[k].late)]
            /\ UNCHANGED last
    /\ UNCHANGED <<now, block, unreachable, panelsFaults, range, shownBefore, tx>>

Deliver(k) ==
    /\ query[k].fetch = "answered"
    /\ query' = [query EXCEPT ![k] = [@ EXCEPT !.data = query[k].answer, !.status = "success", !.fetch = "idle"]]
    /\ last' = [last EXCEPT ![k] = "ok"]
    /\ UNCHANGED <<now, block, unreachable, panelsFaults, stateCache, range, shownBefore, tx>>

-----------------------------------------------------------------------------
(* The pages *)

\* Mutant: the panel goes by the state of the query alone.
panelOfStatus(k) ==
    IF query[k].status = "pending" THEN "loading" ELSE IF query[k].status = "error" THEN "error" ELSE "data"

(* Query: loading, error, data, or the last good data with a marker. *)
panelOf(k) ==
    IF query[k].data = Missing THEN IF query[k].status = "error" THEN "error" ELSE "loading"
    ELSE IF query[k].status = "error" THEN "last good" ELSE "data"

(* DemoBanner *)
apiState ==
    IF query["health"].data # Missing THEN IF query["health"].data.ok THEN "ok" ELSE "degraded"
    ELSE IF query["health"].status = "error" THEN "down" ELSE "loading"

(* The data of the performance page: while a range is pending, that of the
   range before. *)
ranged ==
    IF query[range].data # Missing THEN query[range].data
    ELSE IF query[range].status = "pending" THEN shownBefore ELSE Missing
spinner == query[range].fetch # "idle"

\* Mutant: the page goes on with the fetch of the range it had.
SelectLater(r) ==
    /\ r \in Ranges \ {range} /\ range' = r
    /\ shownBefore' = IF query[range].data # Missing THEN query[range].data ELSE shownBefore
    /\ UNCHANGED <<query, now, block, unreachable, panelsFaults, stateCache, last, tx>>

(* Another range: its query is fetched, the fetch of the last is aborted. *)
Select(r) ==
    /\ r \in Ranges \ {range} /\ range' = r
    /\ shownBefore' = IF query[range].data # Missing THEN query[range].data ELSE shownBefore
    /\ query' = [query EXCEPT ![r] = Started(@), ![range] = [@ EXCEPT !.fetch = "idle"]]
    /\ UNCHANGED <<now, block, unreachable, panelsFaults, stateCache, last, tx>>

-----------------------------------------------------------------------------
(* A transaction of the vault page *)

Mined ==
    /\ "vault" \in Live /\ query["vault"].data # Missing /\ tx.at = "none" /\ block < MaxBlock
    /\ block' = block + 1
    /\ tx' = [at |-> "mined", block |-> block + 1, due |-> 0]
    /\ UNCHANGED <<now, unreachable, panelsFaults, stateCache, query, last, range, shownBefore>>

\* Mutant: the second time follows at once.
DueAtOnce == 0

(* When the second time is due. *)
Due == now + Late

(* The receipt is there: everything is invalidated, and once more later. *)
ReceiptArrives ==
    /\ tx.at = "mined" /\ "rpc" \notin unreachable
    /\ tx' = [tx EXCEPT !.at = "receipt", !.due = Due]
    /\ query' = Invalidated
    /\ UNCHANGED <<now, block, unreachable, panelsFaults, stateCache, last, range, shownBefore>>

SecondTime ==
    /\ tx.at = "receipt" /\ now >= tx.due
    /\ tx' = [tx EXCEPT !.at = "late"]
    /\ query' = [k \in Keys |-> IF Invalidated[k] = Started(query[k])
                                THEN [Invalidated[k] EXCEPT !.late = TRUE] ELSE query[k]]
    /\ UNCHANGED <<now, block, unreachable, panelsFaults, stateCache, last, range, shownBefore>>

-----------------------------------------------------------------------------
HalfSecond ==
    /\ now < MaxPanelsTime /\ now' = now + 1
    /\ UNCHANGED <<block, unreachable, panelsFaults, stateCache, query, last, range, shownBefore, tx>>

Block ==
    /\ block < MaxBlock /\ block' = block + 1
    /\ UNCHANGED <<now, unreachable, panelsFaults, stateCache, query, last, range, shownBefore, tx>>

Stops(what) ==
    /\ what \notin unreachable /\ panelsFaults < MaxPanelsFaults
    /\ unreachable' = unreachable \cup {what} /\ panelsFaults' = panelsFaults + 1
    /\ UNCHANGED <<now, block, stateCache, query, last, range, shownBefore, tx>>

Returns(what) ==
    /\ what \in unreachable /\ unreachable' = unreachable \ {what}
    /\ UNCHANGED <<now, block, panelsFaults, stateCache, query, last, range, shownBefore, tx>>

PanelsNext ==
    \/ \E k \in Keys : PollQuery(k) \/ Retry(k) \/ ServeQuery(k) \/ Deliver(k)
    \/ \E r \in Ranges : Select(r)
    \/ Mined \/ ReceiptArrives \/ SecondTime
    \/ HalfSecond \/ Block
    \/ \E what \in {"api", "rpc"} : Stops(what) \/ Returns(what)

PanelsSpec == PanelsInit /\ [][PanelsNext]_panelsVars

-----------------------------------------------------------------------------
PanelsTypeOK ==
    /\ now \in 0..MaxPanelsTime /\ block \in 1..MaxBlock /\ panelsFaults \in 0..MaxPanelsFaults
    /\ stateCache.at \in 0..now /\ stateCache.block \in 1..block
    /\ \A k \in Keys :
         /\ query[k].status \in {"pending", "success", "error"}
         /\ query[k].fetch \in {"idle", "sent", "answered", "retry"}
         /\ query[k].failures \in 0..1
         /\ (query[k].status = "success" => query[k].data # Missing)

(* A panel whose last fetch failed says so, until one succeeds: as an error
   when it has nothing, with a marker when it shows what it had. *)
FailureIsMarked ==
    \A k \in Keys :
        last[k] = "failed" => panelOf(k) \in IF query[k].data = Missing THEN {"error", "loading"} ELSE {"last good"}

(* "Keeps showing the last good data if a background refetch fails instead
   of blanking the panel" (QueryState.tsx:70-71). *)
NeverBlank ==
    \A k \in Keys : panelOf(k) \in {"data", "last good"} => panelOf(k)' \in {"data", "last good"}

(* The summary of the performance page is of the selected range, or there is
   a spinner beside it. *)
RangeIsShown ==
    Ranges # {} => \/ ranged = Missing
                   \/ ranged.key = range
                   \/ spinner

(* What is fetched after the second invalidation has the transaction: the
   state the API had cached before it is no longer served. *)
TransactionIsShown ==
    ("vault" \in Keys /\ query["vault"].data # Missing /\ query["vault"].data.late) =>
        query["vault"].data.block >= tx.block

(* What the panels show is what the API last answered, and told as such. *)
PanelsHold == PanelsTypeOK /\ FailureIsMarked /\ RangeIsShown /\ TransactionIsShown
=============================================================================
