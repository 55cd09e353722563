-------------------------------- MODULE Alerts --------------------------------
(***************************************************************************)
(* Persisting alerts (backend/src/alerts.ts, syncAlerts): the conditions    *)
(* found in one reading of the chain are compared with the alerts active in *)
(* the database, and row after row is opened, refreshed or resolved.        *)
(*                                                                          *)
(* There is no transaction: the conditions change, another process syncs    *)
(* the same table and a query fails between any two of the awaits.  Which   *)
(* conditions raise which alert is the subject of Views; here a condition is*)
(* a severity per key.                                                      *)
(***************************************************************************)
EXTENDS Naturals, Sequences, SequencesExt, FiniteSets

CONSTANTS Syncers,      \* processes that run the snapshot and alert loop
          Keys,       \* alert keys
          MaxChanges, \* bound: changes of the conditions
          MaxAlertFaults   \* bound: failed awaits and crashes

ASSUME AlertsAssumption == MaxChanges \in Nat /\ MaxAlertFaults \in Nat

Severities == {"WARNING", "CRITICAL"}

VARIABLES
    history, \* the conditions of the chain, one entry per change: its time is its index
    alerts,    \* the alerts table; a row's id is its index
    alertPc,      \* per process: "idle", "read", "open", "resolve"
    ts,      \* per process: the time of the state it read
    known,   \* per process: the active alerts it read, id by key
    keysLeft,    \* per process: keys still to handle in the present loop
    alertFaults   \* failures so far

alertVars == <<history, alerts, alertPc, ts, known, keysLeft, alertFaults>>

NoCondition == [k \in Keys |-> "none"]

AlertsInit ==
    /\ history = <<NoCondition>>
    /\ alerts = <<>>
    /\ alertPc = [p \in Syncers |-> "idle"]
    /\ ts = [p \in Syncers |-> 1]
    /\ known = [p \in Syncers |-> <<>>]
    /\ keysLeft = [p \in Syncers |-> {}]
    /\ alertFaults = 0

Raised(t) == {k \in Keys : history[t][k] # "none"}

(* Prices, funding, positions: any condition may come, go or grow. *)
Change ==
    /\ Len(history) <= MaxChanges
    /\ \E k \in Keys, s \in Severities \cup {"none"} :
         /\ s # Last(history)[k]
         /\ history' = Append(history, [Last(history) EXCEPT ![k] = s])
    /\ UNCHANGED <<alerts, alertPc, ts, known, keysLeft, alertFaults>>

-----------------------------------------------------------------------------
AlertsGoto(p, place) == alertPc' = [alertPc EXCEPT ![p] = place]

(* A sync that has ended, well or not, leaves nothing in the process. *)
SyncEnds(p) ==
    /\ AlertsGoto(p, "idle")
    /\ ts' = [ts EXCEPT ![p] = 1]
    /\ known' = [known EXCEPT ![p] = <<>>]
    /\ keysLeft' = [keysLeft EXCEPT ![p] = {}]

(* The loop takes a snapshot and evaluates the rules on what it read. *)
Evaluate(p) ==
    /\ alertPc[p] = "idle"
    /\ ts' = [ts EXCEPT ![p] = Len(history)]
    /\ AlertsGoto(p, "read")
    /\ UNCHANGED <<history, alerts, known, keysLeft, alertFaults>>

ActiveIds == {id \in DOMAIN alerts : alerts[id].active}

(* SELECT id, key FROM alerts WHERE active: the map from key to id. *)
ReadActive(p) ==
    /\ alertPc[p] = "read"
    /\ known' = [known EXCEPT ![p] =
         [k \in {alerts[id].key : id \in ActiveIds} |->
            CHOOSE id \in ActiveIds : alerts[id].key = k]]
    /\ keysLeft' = [keysLeft EXCEPT ![p] = Raised(ts[p])]
    /\ AlertsGoto(p, "open")
    /\ UNCHANGED <<history, alerts, ts, alertFaults>>

Refreshed(p, k) == [alerts EXCEPT ![known[p][k]].severity = history[ts[p]][k]]

NewRow(p, k) ==
    [key |-> k, severity |-> history[ts[p]][k], opened |-> ts[p], resolved |-> 0, active |-> TRUE]

\* Mutant: the table has no unique index on the active alerts.
NoConflict(k) == FALSE

(* alerts_one_active_per_key, the unique index the INSERT runs into. *)
Conflict(k) == \E id \in ActiveIds : alerts[id].key = k

\* Mutant: a known alert keeps the severity it was opened with.
HandleWithoutRefresh(p) ==
    /\ alertPc[p] = "open"
    /\ \E k \in keysLeft[p] :
         \/ /\ k \in DOMAIN known[p]
            /\ keysLeft' = [keysLeft EXCEPT ![p] = @ \ {k}]
            /\ UNCHANGED <<alerts, alertPc, ts, known>>
         \/ /\ k \notin DOMAIN known[p] /\ ~Conflict(k)
            /\ alerts' = Append(alerts, NewRow(p, k))
            /\ keysLeft' = [keysLeft EXCEPT ![p] = @ \ {k}]
            /\ UNCHANGED <<alertPc, ts, known>>
         \/ /\ k \notin DOMAIN known[p] /\ Conflict(k)
            /\ SyncEnds(p)
            /\ UNCHANGED alerts
    /\ UNCHANGED <<history, alertFaults>>

(* One candidate: an alert known as active is refreshed by its id, even if
   another process has resolved it since; any other key is inserted, and a
   conflict throws, which ends the whole sync.  The candidates may come in
   any order. *)
Handle(p) ==
    /\ alertPc[p] = "open"
    /\ \E k \in keysLeft[p] :
         \/ /\ k \in DOMAIN known[p]
            /\ alerts' = Refreshed(p, k)
            /\ keysLeft' = [keysLeft EXCEPT ![p] = @ \ {k}]
            /\ UNCHANGED <<alertPc, ts, known>>
         \/ /\ k \notin DOMAIN known[p] /\ ~Conflict(k)
            /\ alerts' = Append(alerts, NewRow(p, k))
            /\ keysLeft' = [keysLeft EXCEPT ![p] = @ \ {k}]
            /\ UNCHANGED <<alertPc, ts, known>>
         \/ /\ k \notin DOMAIN known[p] /\ Conflict(k)
            /\ SyncEnds(p)
            /\ UNCHANGED alerts
    /\ UNCHANGED <<history, alertFaults>>

\* Mutant: every alert known as active is resolved, raised or not.
KnownAll(p) == DOMAIN known[p]

(* The keys the candidates did not name. *)
Unseen(p) == DOMAIN known[p] \ Raised(ts[p])

Handled(p) ==
    /\ alertPc[p] = "open" /\ keysLeft[p] = {}
    /\ keysLeft' = [keysLeft EXCEPT ![p] = Unseen(p)]
    /\ AlertsGoto(p, "resolve")
    /\ UNCHANGED <<history, alerts, ts, known, alertFaults>>

\* Mutant: the time of the resolution is not written.
ResolveForgetKey(p) ==
    /\ alertPc[p] = "resolve"
    /\ \E k \in keysLeft[p] :
         /\ alerts' = [alerts EXCEPT ![known[p][k]] =
                       [key |-> k, severity |-> @.severity, opened |-> @.opened,
                        resolved |-> 0, active |-> FALSE]]
         /\ keysLeft' = [keysLeft EXCEPT ![p] = @ \ {k}]
    /\ UNCHANGED <<history, alertPc, ts, known, alertFaults>>

\* Mutant: the flag is flipped instead of cleared.
ResolveToggle(p) ==
    /\ alertPc[p] = "resolve"
    /\ \E k \in keysLeft[p] :
         /\ alerts' = [alerts EXCEPT ![known[p][k]] =
                       [@ EXCEPT !.active = ~@, !.resolved = IF @ = 0 THEN ts[p] ELSE 0]]
         /\ keysLeft' = [keysLeft EXCEPT ![p] = @ \ {k}]
    /\ UNCHANGED <<history, alertPc, ts, known, alertFaults>>

Resolve(p) ==
    /\ alertPc[p] = "resolve"
    /\ \E k \in keysLeft[p] :
         /\ alerts' = [alerts EXCEPT ![known[p][k]] =
                       [@ EXCEPT !.active = FALSE, !.resolved = ts[p]]]
         /\ keysLeft' = [keysLeft EXCEPT ![p] = @ \ {k}]
    /\ UNCHANGED <<history, alertPc, ts, known, alertFaults>>

Finish(p) ==
    /\ alertPc[p] = "resolve" /\ keysLeft[p] = {}
    /\ SyncEnds(p)
    /\ UNCHANGED <<history, alerts, alertFaults>>

(* A query throws or the process dies; what was written stays. *)
AlertsFail(p) ==
    /\ alertPc[p] # "idle"
    /\ alertFaults < MaxAlertFaults
    /\ alertFaults' = alertFaults + 1
    /\ SyncEnds(p)
    /\ UNCHANGED <<history, alerts>>

-----------------------------------------------------------------------------
syncAlerts(p) ==
    Evaluate(p) \/ ReadActive(p) \/ Handle(p) \/ Handled(p) \/ Resolve(p) \/ Finish(p)

AlertsNext == Change \/ \E p \in Syncers : syncAlerts(p) \/ AlertsFail(p)

AlertsSpec == AlertsInit /\ [][AlertsNext]_alertVars

-----------------------------------------------------------------------------
AlertsTypeOK ==
    /\ Len(history) \in 1..(MaxChanges + 1)
    /\ \A id \in DOMAIN alerts :
         /\ alerts[id].severity \in Severities
         /\ alerts[id].active <=> alerts[id].resolved = 0
    /\ alertPc \in [Syncers -> {"idle", "read", "open", "resolve"}]
    /\ \A p \in Syncers : /\ ts[p] \in DOMAIN history
                        /\ keysLeft[p] \subseteq Keys
                        /\ \A k \in DOMAIN known[p] : alerts[known[p][k]].key = k
    /\ alertFaults \in 0..MaxAlertFaults

(* A key has at most one active alert (001_init.sql:170-182), although two
   processes may both have read that it has none. *)
OneActivePerKey ==
    \A id, id2 \in ActiveIds : alerts[id].key = alerts[id2].key => id = id2

(* The opening and the resolution a row tells are of the chain: at the time
   it gives, the condition did hold, or did not, whoever wrote the row and
   however late. *)
EdgesAreFounded ==
    \A id \in DOMAIN alerts :
        LET r == alerts[id] IN
        /\ r.key \in Raised(r.opened)
        /\ ~r.active => r.key \notin Raised(r.resolved)

(* An alert that was resolved is not opened again: a condition that returns
   gets a row of its own, the history is not rewritten. *)
ResolvedStaysResolved ==
    [][\A id \in DOMAIN alerts : ~alerts[id].active => ~alerts'[id].active]_alertVars

(* The alerts table is sound: one active alert per key, opened and resolved
   at times the condition did hold and did not. *)
AlertsAreFounded == AlertsTypeOK /\ OneActivePerKey /\ EdgesAreFounded

(* When the conditions stay as they are, the active alerts come to be these
   conditions with their severities: every alert missing is opened, every
   other one resolved, although a sync may abort at a conflict or a failure
   and stale syncs of other processes undo what a fresh one did. *)
AlertsSettle ==
    <>[](/\ {alerts[id].key : id \in ActiveIds} = Raised(Len(history))
         /\ \A id \in ActiveIds : alerts[id].severity = Last(history)[alerts[id].key])
=============================================================================
