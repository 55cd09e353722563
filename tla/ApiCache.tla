------------------------------- MODULE ApiCache -------------------------------
(***************************************************************************)
(* The API's requests and the two caches between them                       *)
(* (backend/src/api/service.ts): the state of the chain, kept for 1.5       *)
(* seconds, and the results of the scenarios, kept for a configuration.     *)
(*                                                                          *)
(* Requests run concurrently in one event loop: code between two awaits is  *)
(* one step, and while a request waits for the node the others run, blocks  *)
(* are mined, the node goes down and time passes.  A response is reduced to *)
(* the block, or the time, it is about.                                     *)
(***************************************************************************)
EXTENDS Naturals, Sequences

CONSTANTS Reqs,     \* clients, one request at a time each
          Kinds,    \* what they ask for, of "view", "scenarios", "history"
          Ttl,      \* ticks the state is cached for
          Configs,  \* strategy configurations on the chain, each with the vault's value
          Rounded,  \* for each the one that has the same parameters and the value in whole thousands
          MaxTime, MaxApiBlock  \* bounds: ticks and blocks

ASSUME ApiAssumption == Rounded \in [Configs -> Configs] /\ Ttl \in Nat \ {0} /\ MaxTime \in Nat \ {0} /\ MaxApiBlock \in Nat \ {0}

VARIABLES
    clock,     \* Date.now(), in ticks
    blocks,    \* the chain: the configuration in force at each block
    headAt,    \* height of the chain when each tick began
    nodeUp,    \* the RPC node answers
    snapshot,  \* block of the newest snapshot in the database, 0 for none
    cache,     \* {} or the cached state: at (tick) and block
    scenarioCache, \* {} or the cached scenarios: key and what they were computed for
    req        \* per client: its request

apiVars == <<clock, blocks, headAt, nodeUp, snapshot, cache, scenarioCache, req>>

Height == Len(blocks)
NoRequest == [pc |-> "idle", kind |-> "view", asked |-> 0, block |-> 0, known |-> 0, of |-> 0]

ApiInit ==
    /\ clock = 1
    /\ blocks \in {<<c>> : c \in Configs}
    /\ headAt = <<1>>
    /\ nodeUp = TRUE
    /\ snapshot = 0
    /\ cache = {}
    /\ scenarioCache = {}
    /\ req = [q \in Reqs |-> NoRequest]

-----------------------------------------------------------------------------
(* The surroundings *)

Tick ==
    /\ clock < MaxTime
    /\ clock' = clock + 1
    /\ headAt' = Append(headAt, Height)
    /\ UNCHANGED <<blocks, nodeUp, snapshot, cache, scenarioCache, req>>

MineApiBlock ==
    /\ Height < MaxApiBlock
    /\ \E c \in Configs : blocks' = Append(blocks, c)
    /\ UNCHANGED <<clock, headAt, nodeUp, snapshot, cache, scenarioCache, req>>

Outage ==
    /\ nodeUp' = ~nodeUp
    /\ UNCHANGED <<clock, blocks, headAt, snapshot, cache, scenarioCache, req>>

TakeSnapshot ==
    /\ nodeUp /\ snapshot < Height
    /\ snapshot' = Height
    /\ UNCHANGED <<clock, blocks, headAt, nodeUp, cache, scenarioCache, req>>

-----------------------------------------------------------------------------
(* state() *)

(* The cached state that is not older than the limit. *)
Cached == {c \in cache : clock - c.at < Ttl}

\* Mutant: the age of a reading counts from its end.
StampedOnArrival(q, b) == [at |-> clock, block |-> b]

(* What a reading leaves in the cache: the time is the one from before it. *)
Stamped(q, b) == [at |-> req[q].asked, block |-> b]

(* A request arrives while nothing fresh is cached: it starts to read the
   chain, whoever else is reading it. *)
Miss(q, kind) ==
    /\ req[q].pc \in {"idle", "ok", "error"}
    /\ Cached = {}
    /\ req' = [req EXCEPT ![q] =
         [pc |-> "read", kind |-> kind, asked |-> clock, block |-> 0,
          known |-> IF kind = "history" THEN snapshot ELSE 0, of |-> 0]]
    /\ UNCHANGED <<clock, blocks, headAt, nodeUp, snapshot, cache, scenarioCache>>

\* Mutant: the calls are made without waiting for the block.
PinNothing(q) ==
    /\ req[q].pc = "read"
    /\ nodeUp
    /\ req' = [req EXCEPT ![q].pc = "pinned"]
    /\ UNCHANGED <<clock, blocks, headAt, nodeUp, snapshot, cache, scenarioCache>>

(* The head is asked for; the calls after it are pinned to that block. *)
Pin(q) ==
    /\ req[q].pc = "read"
    /\ nodeUp
    /\ req' = [req EXCEPT ![q].pc = "pinned", ![q].block = Height]
    /\ UNCHANGED <<clock, blocks, headAt, nodeUp, snapshot, cache, scenarioCache>>

ConfigAt(b) == blocks[b]

\* Mutant: results are kept under a constant key.
KeyOfAnything(b) == 0

(* The key of the scenarios' cache: the parameters, and thousands of USD. *)
ScenarioKey(b) == Rounded[ConfigAt(b)]

(* The rest of the request once it has its state, up to the next await:
   scenarios computes, or takes from its cache, all results. *)
Continue(q, kind, asked, b, known) ==
    /\ scenarioCache' =
         IF kind = "scenarios" /\ \A c \in scenarioCache : c.key # ScenarioKey(b)
         THEN {[key |-> ScenarioKey(b), of |-> ConfigAt(b)]} ELSE scenarioCache
    /\ \E of \in IF kind = "scenarios" THEN {c.of : c \in scenarioCache'} ELSE {0} :
         req' = [req EXCEPT ![q] =
           [pc |-> IF kind = "history" THEN "query" ELSE "ok",
            kind |-> kind, asked |-> asked, block |-> b, known |-> known, of |-> of]]

Hit(q, kind) ==
    /\ req[q].pc \in {"idle", "ok", "error"}
    /\ \E c \in Cached : Continue(q, kind, clock, c.block, 0)
    /\ UNCHANGED <<clock, blocks, headAt, nodeUp, snapshot, cache>>

(* The reading lands and overwrites what is cached. *)
Land(q) ==
    /\ req[q].pc = "pinned"
    /\ nodeUp
    /\ cache' = {Stamped(q, req[q].block)}
    /\ Continue(q, req[q].kind, req[q].asked, req[q].block, req[q].known)
    /\ UNCHANGED <<clock, blocks, headAt, nodeUp, snapshot>>

\* Mutant: nowTs() has no catch.
ReadThrowsUncaught(q) ==
    /\ req[q].pc \in {"read", "pinned"}
    /\ ~nodeUp
    /\ req' = [req EXCEPT ![q].pc = "error"]
    /\ UNCHANGED <<clock, blocks, headAt, nodeUp, snapshot, cache, scenarioCache>>

(* The node does not answer: a view fails, a history asks the database for
   the time of its newest snapshot. *)
ReadThrows(q) ==
    /\ req[q].pc \in {"read", "pinned"}
    /\ ~nodeUp
    /\ req' = [req EXCEPT ![q].pc = IF req[q].kind = "history" THEN "nowTs" ELSE "error"]
    /\ UNCHANGED <<clock, blocks, headAt, nodeUp, snapshot, cache, scenarioCache>>

(* The catch of nowTs(). *)
nowTs(q) ==
    /\ req[q].pc = "nowTs"
    /\ req' = [req EXCEPT ![q].pc = IF snapshot = 0 THEN "error" ELSE "query",
                          ![q].block = snapshot]
    /\ UNCHANGED <<clock, blocks, headAt, nodeUp, snapshot, cache, scenarioCache>>

\* Mutant: the query waits for the node to come back.
performanceOnline(q) ==
    /\ req[q].pc = "query"
    /\ nodeUp
    /\ req' = [req EXCEPT ![q].pc = "ok"]
    /\ UNCHANGED <<clock, blocks, headAt, nodeUp, snapshot, cache, scenarioCache>>

(* performance(): series and count, from the database alone. *)
queryPerformance(q) ==
    /\ req[q].pc = "query"
    /\ req' = [req EXCEPT ![q].pc = "ok"]
    /\ UNCHANGED <<clock, blocks, headAt, nodeUp, snapshot, cache, scenarioCache>>

Ask(q) == \E kind \in Kinds : Miss(q, kind) \/ Hit(q, kind)
Serve(q) == Pin(q) \/ Land(q) \/ ReadThrows(q) \/ nowTs(q) \/ queryPerformance(q)

ApiNext ==
    \/ Tick \/ MineApiBlock \/ Outage \/ TakeSnapshot
    \/ \E q \in Reqs : Ask(q) \/ Serve(q)

ApiSpec == ApiInit /\ [][ApiNext]_apiVars

-----------------------------------------------------------------------------
Answered(q) == req[q].pc = "ok"

ApiTypeOK ==
    /\ clock \in 1..MaxTime /\ Len(headAt) = clock
    /\ Height \in 1..MaxApiBlock
    /\ \A c \in cache : c.at \in 1..clock /\ c.block \in 1..Height
    /\ \A q \in Reqs :
         /\ req[q].pc \in {"idle", "read", "pinned", "nowTs", "query", "ok", "error"}
         /\ req[q].pc \in {"pinned", "query", "ok"} => req[q].block \in 1..Height
    /\ snapshot \in 0..Height

(* A response is never older than the cache may be: its block is not behind the
   head of the chain less than a cache's life before the request, however
   long readings take and in whatever order they land. *)
ServedIsFresh ==
    \A q \in Reqs : Answered(q) /\ req[q].kind # "history" =>
        LET since == IF req[q].asked < Ttl THEN 1 ELSE req[q].asked - Ttl + 1
        IN  req[q].block >= headAt[since]

(* Scenarios are of the parameters in force at the block the request sees, and
   of the vault's value then but for the rounding to thousands, although one
   entry is shared by requests that see different blocks. *)
ScenariosAreCurrent ==
    \A q \in Reqs : Answered(q) /\ req[q].kind = "scenarios" =>
        Rounded[req[q].of] = Rounded[ConfigAt(req[q].block)]

(* "The history endpoints (which only need the database) keep answering
   during an RPC outage" (service.ts:156-159), as soon as there is a
   snapshot when the request arrives. *)
HistorySurvivesOutage ==
    \A q \in Reqs : req[q].kind = "history" /\ req[q].known > 0 => req[q].pc # "error"

(* What the API answers is of the chain as the request may expect it. *)
AnswersHold == ApiTypeOK /\ ServedIsFresh /\ ScenariosAreCurrent /\ HistorySurvivesOutage

(* No request hangs, with the node up or down. *)
EveryRequestIsAnswered ==
    \A q \in Reqs : req[q].pc \in {"read", "pinned", "nowTs", "query"} ~> req[q].pc \in {"ok", "error"}
=============================================================================
