---------------------------- MODULE OracleManager ----------------------------
(***************************************************************************)
(* OracleManager.sol: what is made of two price feeds, and the last good    *)
(* price.  The feeds publish rounds; a round may be malformed, or far off   *)
(* the market, and a feed may be down or migrate to other decimals.         *)
(* Prices are normalised, ages in units of time.                            *)
(***************************************************************************)
EXTENDS Integers

CONSTANTS
    MarketPrices,   \* prices the market may have
    BadPrices,      \* answers no market has
    Heartbeat,      \* age beyond which an answer is stale
    MaxDeviation,   \* of a round from the one before, in basis points
    OracleMoves     \* bound: rounds, outages and other changes of the feeds

ASSUME OracleAssumption ==
    /\ MarketPrices \subseteq Nat \ {0} /\ BadPrices \subseteq Nat \ {0}
    /\ Heartbeat \in Nat \ {0} /\ MaxDeviation \in 1..5000 /\ OracleMoves \in Nat

distance(a, b) == IF a >= b THEN a - b ELSE b - a

(* What is meant by an answer that no market has: the filter is for rounds that
   are off by more than the market moves. *)
ASSUME FaultAssumption ==
    \A b \in BadPrices, p \in MarketPrices : (distance(b, p) * 10000) \div p > MaxDeviation

VARIABLES
    feed,           \* the last round of each feed, and the answer of the one before
    shutdown,
    lastGood,       \* [price, at]: the last good price and the age of it
    oracleMoves
oracleVars == <<feed, shutdown, lastGood, oracleMoves>>

Feeds == {"primary", "secondary"}
Forms == {"whole", "zero", "future", "incomplete"}
Statuses == {"OK", "FALLBACK", "STALE", "INVALID_PRICE", "INCOMPLETE_ROUND", "DEVIATION",
             "DECIMALS_MISMATCH", "FEED_FAILURE", "SHUTDOWN"}

(* prev is 0 when there is no round before, or it cannot be read. *)
NewFeed(p) == [up |-> TRUE, decimals |-> TRUE, answer |-> p, prev |-> 0, form |-> "whole", age |-> 0,
               faulty |-> FALSE]

-----------------------------------------------------------------------------
(* Reads *)

\* Mutant: an answer is compared with the round before only when it is higher.
deviatesUp(f) == f.prev # 0 /\ f.answer > f.prev /\ ((f.answer - f.prev) * 10000) \div f.prev > MaxDeviation

deviates(f) == f.prev # 0 /\ (distance(f.answer, f.prev) * 10000) \div f.prev > MaxDeviation

stale(f) == f.age > Heartbeat

Checks(f) ==
    <<[failed |-> ~f.up, status |-> "FEED_FAILURE"],
      [failed |-> ~f.decimals, status |-> "DECIMALS_MISMATCH"],
      [failed |-> f.form \in {"zero", "future"}, status |-> "INVALID_PRICE"],
      [failed |-> f.form = "incomplete", status |-> "INCOMPLETE_ROUND"],
      [failed |-> stale(f), status |-> "STALE"],
      [failed |-> deviates(f), status |-> "DEVIATION"],
      [failed |-> TRUE, status |-> "OK"]>>

(* The first check that fails. *)
_readFeed(f) ==
    LET c == Checks(f)
    IN  c[CHOOSE i \in DOMAIN c : c[i].failed /\ \A j \in 1..(i - 1) : ~c[j].failed].status

Priced(p, s) == [price |-> p, status |-> s]

\* Mutant: the second feed is read only when the first does not answer.
tryGetPriceOnFailure ==
    IF shutdown THEN Priced(0, "SHUTDOWN")
    ELSE IF _readFeed(feed["primary"]) # "FEED_FAILURE"
    THEN Priced(feed["primary"].answer, _readFeed(feed["primary"]))
    ELSE Priced(feed["secondary"].answer, IF _readFeed(feed["secondary"]) = "OK" THEN "FALLBACK" ELSE "FEED_FAILURE")

tryGetPrice ==
    IF shutdown THEN Priced(0, "SHUTDOWN")
    ELSE IF _readFeed(feed["primary"]) = "OK" THEN Priced(feed["primary"].answer, "OK")
    ELSE IF _readFeed(feed["secondary"]) = "OK" THEN Priced(feed["secondary"].answer, "FALLBACK")
    ELSE Priced(0, _readFeed(feed["primary"]))

usable(s) == s \in {"OK", "FALLBACK"}
healthy == usable(tryGetPrice.status)

getPriceOrLastGood == IF healthy THEN tryGetPrice.price ELSE lastGood.price

-----------------------------------------------------------------------------
(* The feeds *)

OracleInit ==
    /\ \E p \in MarketPrices : feed = [f \in Feeds |-> NewFeed(p)]
    /\ shutdown = FALSE /\ lastGood = [price |-> 0, at |-> 0] /\ oracleMoves = 0

Changes == oracleMoves < OracleMoves /\ oracleMoves' = oracleMoves + 1

(* A round of the market's price, or a faulty one.  A faulty round is followed
   by one that is not.  The answer of an invalid round is not compared with. *)
Round(f, p, form, faulty) ==
    feed' = [feed EXCEPT ![f] = [up |-> feed[f].up, decimals |-> feed[f].decimals,
                                 answer |-> p, prev |-> IF feed[f].form = "zero" THEN 0 ELSE feed[f].answer,
                                 form |-> form, age |-> 0, faulty |-> faulty]]

HonestRound ==
    /\ Changes
    /\ \E f \in Feeds, p \in MarketPrices : feed[f].up /\ Round(f, p, "whole", FALSE)
    /\ UNCHANGED <<shutdown, lastGood>>

FaultyRound ==
    /\ Changes
    /\ \E f \in Feeds :
          /\ feed[f].up /\ ~feed[f].faulty
          /\ \/ \E p \in BadPrices : Round(f, p, "whole", TRUE)
             \/ \E form \in Forms \ {"whole"} : Round(f, feed[f].answer, form, TRUE)
    /\ UNCHANGED <<shutdown, lastGood>>

(* A new aggregator: its rounds before the first cannot be read. *)
NewPhase ==
    /\ Changes
    /\ \E f \in Feeds, p \in MarketPrices : feed' = [feed EXCEPT ![f] = NewFeed(p)]
    /\ UNCHANGED <<shutdown, lastGood>>

FeedFails ==
    /\ Changes
    /\ \E f \in Feeds : feed' = [feed EXCEPT ![f].up = ~@]
    /\ UNCHANGED <<shutdown, lastGood>>

DecimalsChange ==
    /\ Changes
    /\ \E f \in Feeds : feed' = [feed EXCEPT ![f].decimals = ~@]
    /\ UNCHANGED <<shutdown, lastGood>>

\* Mutant: the age of an answer is not capped.
AgedForever(n) == n + 1

Aged(n) == IF n > Heartbeat THEN n ELSE n + 1
TimePasses ==
    /\ feed' = [f \in Feeds |-> [feed[f] EXCEPT !.age = Aged(@)]]
    /\ lastGood' = [lastGood EXCEPT !.at = Aged(@)]
    /\ UNCHANGED <<shutdown, oracleMoves>>

-----------------------------------------------------------------------------
(* Calls *)

(* By a guardian, and only an admin undoes it. *)
setShutdown ==
    /\ Changes
    /\ shutdown' = ~shutdown
    /\ UNCHANGED <<feed, lastGood>>

\* Mutant: the first feed is recorded, usable or not.
goodAfterRaw(priced) == [price |-> feed["primary"].answer, at |-> 0]

goodAfter(priced) == IF usable(priced.status) THEN [price |-> priced.price, at |-> 0] ELSE lastGood

poke ==
    /\ lastGood' = goodAfter(tryGetPrice)
    /\ UNCHANGED <<feed, shutdown, oracleMoves>>

OracleNext ==
    \/ HonestRound \/ FaultyRound \/ NewPhase \/ FeedFails \/ DecimalsChange
    \/ TimePasses \/ setShutdown \/ poke
OracleSpec == OracleInit /\ [][OracleNext]_oracleVars

-----------------------------------------------------------------------------
OracleTypeOK ==
    /\ \A f \in Feeds :
          /\ feed[f].answer \in MarketPrices \cup BadPrices
          /\ feed[f].prev \in {0} \cup MarketPrices \cup BadPrices
          /\ feed[f].form \in Forms /\ feed[f].age \in 0..(Heartbeat + 1)
    /\ shutdown \in BOOLEAN /\ tryGetPrice.status \in Statuses
    /\ lastGood.price \in {0} \cup MarketPrices \cup BadPrices

(* "A single manipulated or fat-fingered round is rejected": as long as faulty
   rounds come one at a time, no answer that the market never had is served or
   recorded as the last good price, by either feed, through outages, migrations
   and shutdowns. *)
OnlyMarketPrices ==
    /\ healthy => tryGetPrice.price \in MarketPrices
    /\ lastGood.price \in {0} \cup MarketPrices

(* One feed that works is enough: a fresh answer that confirms the round before
   it is served, whatever became of the other feed. *)
confirmed(f) == f.up /\ f.decimals /\ f.form = "whole" /\ f.age <= Heartbeat /\ f.prev = f.answer
OneConfirmedFeedIsEnough == ~shutdown /\ (\E f \in Feeds : confirmed(feed[f])) => healthy

(* One faulty round is not served, and one feed that works is enough. *)
OracleServesTheMarket == OnlyMarketPrices /\ OneConfirmedFeedIsEnough
=============================================================================
