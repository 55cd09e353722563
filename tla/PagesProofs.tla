----------------------------- MODULE PagesProofs -----------------------------
(***************************************************************************)
(* Theorems about the API's requests and the pages of the dashboard: for    *)
(* each an inductive invariant (ApiInv, WalletInv, PanelsInv, FormsInv,     *)
(* PageInv), that it holds at the start, that the steps keep it, and what   *)
(* it says.  As no page reads another's variables, the invariants hold      *)
(* together of the pages next to one another, too.                          *)
(* At the end, what the API says about risk.                                *)
(***************************************************************************)
EXTENDS MCPages, Views, SequenceTheorems, FiniteSetTheorems, TLAPS

(* The API's requests *)

Since(when) == IF when < Ttl THEN 1 ELSE when - Ttl + 1

Request ==
    [pc : {"idle", "read", "pinned", "nowTs", "query", "ok", "error"}, kind : Kinds \cup {"view"},
     asked : Nat, block : Nat, known : Nat, of : Configs \cup {0}]

\* What a request may rely on, with the heights of the chain at each tick, the
\* configurations of its blocks and the newest snapshot: what it has read is not
\* older than its question, and what it is told not older than the cache may be.
Serves(r, heads, confs, newest) ==
    /\ r \in Request
    /\ r.pc # "idle" => r.asked \in 1..Len(heads)
    /\ r.known <= newest
    /\ r.pc \in {"pinned", "query", "ok"} => r.block \in 1..Len(confs)
    /\ r.pc \in {"query", "nowTs"} => r.kind = "history"
    /\ r.pc = "pinned" => heads[r.asked] <= r.block
    /\ r.pc = "ok" /\ r.kind # "history" => heads[Since(r.asked)] <= r.block
    /\ r.pc = "ok" /\ r.kind = "scenarios" => r.of \in Configs /\ Rounded[r.of] = Rounded[confs[r.block]]
    /\ r.kind = "history" /\ r.known > 0 => r.pc # "error"

\* Heights that were seen, in the order in which they were.
Rising(heads, confs) ==
    /\ heads \in Seq(Nat) /\ confs \in Seq(Configs)
    /\ \A i \in 1..Len(heads) : heads[i] <= Len(confs)
    /\ \A i, j \in 1..Len(heads) : i <= j => heads[i] <= heads[j]

ApiInv ==
    /\ Rising(headAt, blocks)
    /\ clock \in 1..MaxTime /\ Len(headAt) = clock /\ Height \in 1..MaxApiBlock /\ snapshot \in 0..Height
    /\ \A c \in cache : c.at \in 1..clock /\ c.block \in 1..Height /\ headAt[c.at] <= c.block
    /\ \A c \in scenarioCache : c.key = Rounded[c.of] /\ c.of \in Configs
    /\ \A c, d \in scenarioCache : c = d
    /\ req = [q \in Reqs |-> req[q]]
    /\ \A q \in Reqs : Serves(req[q], headAt, blocks, snapshot)

\* The tick that counts is one that was, and not later than the question.
LEMMA SinceBounds ==
    ASSUME NEW t \in Nat \ {0}
    PROVE  Since(t) \in 1..t /\ Since(t) <= t
  BY ApiAssumption DEF Since

\* What is young enough to be served is not older than that.
LEMMA SinceRecent ==
    ASSUME NEW t \in Nat \ {0}, NEW at \in 1..t, t - at < Ttl
    PROVE  Since(t) <= at
  BY ApiAssumption DEF Since

\* Time and blocks only add to what a request relies on.
LEMMA StillServes ==
    ASSUME NEW r, NEW heads, NEW confs, NEW newest \in Nat, Rising(heads, confs), Serves(r, heads, confs, newest),
           NEW heads2, NEW chain2, NEW newest2 \in Nat, newest <= newest2,
           Len(heads2) \in Nat, Len(chain2) \in Nat,
           Len(heads) <= Len(heads2), Len(confs) <= Len(chain2),
           \A i \in 1..Len(heads) : heads2[i] = heads[i], \A i \in 1..Len(confs) : chain2[i] = confs[i]
    PROVE  Serves(r, heads2, chain2, newest2)
  <1>1. Len(heads) \in Nat /\ Len(confs) \in Nat
    BY LenProperties DEF Rising
  <1>2. r.asked \in Nat /\ r.block \in Nat /\ r.known \in Nat
    BY DEF Serves, Request
  <1>3. r.pc # "idle" => Since(r.asked) \in 1..Len(heads)
    <2> SUFFICES ASSUME r.pc # "idle" PROVE Since(r.asked) \in 1..Len(heads)
      OBVIOUS
    <2>1. r.asked \in 1..Len(heads)
      BY DEF Serves
    <2>2. r.asked \in Nat \ {0}
      BY <1>1, <2>1
    <2>3. Since(r.asked) \in 1..r.asked
      BY <2>2, SinceBounds
    <2> QED BY <1>1, <2>1, <2>2, <2>3
  <1>4. r.known <= newest2
    BY <1>2 DEF Serves
  <1>5. /\ r.pc # "idle" => r.asked \in 1..Len(heads2)
        /\ r.pc \in {"pinned", "query", "ok"} => r.block \in 1..Len(chain2)
    BY <1>1, <1>2 DEF Serves
  <1>6. /\ r.pc = "pinned" => heads2[r.asked] <= r.block
        /\ r.pc = "ok" /\ r.kind # "history" => heads2[Since(r.asked)] <= r.block
        /\ r.pc = "ok" /\ r.kind = "scenarios" => r.of \in Configs /\ Rounded[r.of] = Rounded[chain2[r.block]]
    BY <1>3 DEF Serves
  <1> QED BY <1>4, <1>5, <1>6 DEF Serves

LEMMA ApiStarts == ApiInit => ApiInv
  <1> SUFFICES ASSUME ApiInit PROVE ApiInv
    OBVIOUS
  <1> USE ApiAssumption DEF ApiInit, ApiInv, Height
  <1>1. headAt \in Seq(Nat) /\ blocks \in Seq(Configs) /\ Len(headAt) = 1 /\ Len(blocks) = 1 /\ headAt[1] = 1
    <2>1. PICK c \in Configs : blocks = <<c>>
      OBVIOUS
    <2>2. <<c>> \in Seq(Configs) /\ Len(<<c>>) = 1
      OBVIOUS
    <2>3. headAt = <<1>> /\ <<1>> \in Seq(Nat)
      OBVIOUS
    <2> QED BY <2>1, <2>2, <2>3
  <1>2. Rising(headAt, blocks)
    BY <1>1 DEF Rising
  <1>3. Serves(NoRequest, headAt, blocks, snapshot)
    BY DEF Serves, NoRequest, Request
  <1> QED BY <1>1, <1>2, <1>3

\* The rest of a request that has its state.
LEMMA ContinueKeeps ==
    ASSUME ApiInv, NEW q \in Reqs, NEW kind \in Kinds \cup {"view"}, NEW when \in 1..clock, NEW b \in 1..Height,
           NEW known \in 0..snapshot, headAt[Since(when)] <= b, Continue(q, kind, when, b, known)
    PROVE  /\ \A c \in scenarioCache' : c.key = Rounded[c.of] /\ c.of \in Configs
           /\ \A c, d \in scenarioCache' : c = d
           /\ req' = [p \in Reqs |-> req'[p]]
           /\ \A p \in Reqs : Serves(req'[p], headAt, blocks, snapshot)
  <1> USE DEF ApiInv
  <1>1. blocks[b] \in Configs
    BY ElementOfSeq DEF Rising, Height
  <1>2. /\ \A c \in scenarioCache' : c.key = Rounded[c.of] /\ c.of \in Configs
        /\ \A c, d \in scenarioCache' : c = d
        /\ kind = "scenarios" => \A c \in scenarioCache' : Rounded[c.of] = Rounded[blocks[b]]
    <2> DEFINE entry == [key |-> Rounded[blocks[b]], of |-> blocks[b]]
    <2>1. CASE kind = "scenarios" /\ \A c \in scenarioCache : c.key # Rounded[blocks[b]]
      <3>1. scenarioCache' = {entry} /\ entry.key = Rounded[blocks[b]] /\ entry.of = blocks[b]
        BY <2>1 DEF Continue, ScenarioKey, ConfigAt
      <3> HIDE DEF entry
      <3> QED BY <1>1, <3>1
    <2>2. CASE ~(kind = "scenarios" /\ \A c \in scenarioCache : c.key # Rounded[blocks[b]])
      <3>1. scenarioCache' = scenarioCache
        BY <2>2 DEF Continue, ScenarioKey, ConfigAt
      <3>2. ASSUME kind = "scenarios", NEW c \in scenarioCache PROVE Rounded[c.of] = Rounded[blocks[b]]
        BY <2>2, <3>2
      <3> QED BY <3>1, <3>2
    <2> QED BY <2>1, <2>2
  <1>3. PICK of \in IF kind = "scenarios" THEN {c.of : c \in scenarioCache'} ELSE {0} :
           req' = [req EXCEPT ![q] = [pc |-> IF kind = "history" THEN "query" ELSE "ok",
                                      kind |-> kind, asked |-> when, block |-> b, known |-> known, of |-> of]]
    BY DEF Continue
  <1>4. of \in Configs \cup {0} /\ (kind = "scenarios" => of \in Configs /\ Rounded[of] = Rounded[blocks[b]])
    BY <1>2, <1>3
  <1> DEFINE r == [pc |-> IF kind = "history" THEN "query" ELSE "ok",
                   kind |-> kind, asked |-> when, block |-> b, known |-> known, of |-> of]
  <1>5. Serves(r, headAt, blocks, snapshot)
    <2>1. r \in Request
      BY <1>4 DEF Request, Height
    <2> QED BY <1>4, <2>1 DEF Serves, Height
  <1> HIDE DEF r
  <1>6. req' = [req EXCEPT ![q] = r]
    BY <1>3 DEF r
  <1> QED BY <1>2, <1>5, <1>6

\* What happens around the requests.
LEMMA ApiSurroundings ==
    ASSUME ApiInv, Tick \/ MineApiBlock \/ Outage \/ TakeSnapshot
    PROVE  ApiInv'
  <1> USE ApiAssumption DEF ApiInv
  <1>1. headAt \in Seq(Nat) /\ blocks \in Seq(Configs) /\ Len(headAt) = clock /\ Height \in Nat /\ clock \in Nat /\ snapshot \in Nat
    BY DEF Rising, Height
  <1>2. CASE Tick
    <2>1. /\ headAt' = Append(headAt, Height) /\ clock' = clock + 1 /\ clock < MaxTime
          /\ UNCHANGED <<blocks, snapshot, cache, scenarioCache, req>>
      BY <1>2 DEF Tick
    <2>2. /\ headAt' \in Seq(Nat) /\ Len(headAt') = clock + 1
          /\ \A i \in 1..clock : headAt'[i] = headAt[i]
          /\ headAt'[clock + 1] = Height
      BY <1>1, <2>1, AppendProperties
    <2>3. Rising(headAt', blocks)
      <3>1. \A i \in 1..clock : headAt[i] \in Nat /\ headAt[i] <= Height
        BY <1>1, ElementOfSeq DEF Rising, Height
      <3>2. \A i \in 1..(clock + 1) : i \in 1..clock \/ i = clock + 1
        BY <1>1
      <3>3. ASSUME NEW i \in 1..(clock + 1) PROVE headAt'[i] <= Height
        <4>1. CASE i \in 1..clock
          BY <2>2, <3>1, <4>1
        <4>2. CASE i = clock + 1
          BY <1>1, <2>2, <4>2
        <4> QED BY <3>2, <4>1, <4>2
      <3>4. ASSUME NEW i \in 1..(clock + 1), NEW j \in 1..(clock + 1), i <= j PROVE headAt'[i] <= headAt'[j]
        <4>1. CASE j = clock + 1
          BY <2>2, <3>3, <4>1
        <4>2. CASE j \in 1..clock
          <5>1. i \in 1..clock
            BY <1>1, <3>4, <4>2
          <5>2. headAt[i] <= headAt[j]
            BY <1>1, <3>4, <4>2, <5>1 DEF Rising
          <5> QED BY <2>2, <4>2, <5>1, <5>2
        <4> QED BY <3>2, <4>1, <4>2
      <3> QED BY <1>1, <2>2, <3>3, <3>4 DEF Rising, Height
    <2>4. ASSUME NEW q \in Reqs PROVE Serves(req[q], headAt', blocks, snapshot)
      <3>1. Len(headAt) <= Len(headAt') /\ Len(headAt') \in Nat /\ Len(blocks) \in Nat /\ Len(blocks) <= Len(blocks) /\ snapshot <= snapshot
        BY <1>1, <2>2 DEF Height
      <3>2. Serves(req[q], headAt, blocks, snapshot) /\ Rising(headAt, blocks) /\ \A i \in 1..Len(headAt) : headAt'[i] = headAt[i]
        BY <1>1, <2>2
      <3> QED BY <1>1, <3>1, <3>2, StillServes
    <2>5. \A c \in cache : headAt'[c.at] <= c.block
      BY <2>2
    <2> QED BY <1>1, <2>1, <2>2, <2>3, <2>4, <2>5 DEF Height
  <1>3. CASE MineApiBlock
    <2>1. PICK c \in Configs : blocks' = Append(blocks, c)
      BY <1>3 DEF MineApiBlock
    <2>2. Height < MaxApiBlock /\ UNCHANGED <<clock, headAt, snapshot, cache, scenarioCache, req>>
      BY <1>3 DEF MineApiBlock
    <2>3. /\ blocks' \in Seq(Configs) /\ Len(blocks') = Len(blocks) + 1
          /\ \A i \in 1..Len(blocks) : blocks'[i] = blocks[i]
      BY <1>1, <2>1, AppendProperties
    <2>4. Rising(headAt, blocks')
      BY <1>1, <2>3 DEF Rising, Height
    <2>5. ASSUME NEW q \in Reqs PROVE Serves(req[q], headAt, blocks', snapshot)
      <3>1. Len(headAt) \in Nat /\ Len(headAt) <= Len(headAt) /\ Len(blocks') \in Nat /\ Len(blocks) <= Len(blocks')
        BY <1>1, <2>3 DEF Height
      <3>2. Serves(req[q], headAt, blocks, snapshot) /\ Rising(headAt, blocks)
        OBVIOUS
      <3>3. snapshot \in Nat /\ snapshot <= snapshot /\ \A i \in 1..Len(headAt) : headAt[i] = headAt[i]
        BY <1>1
      <3> HIDE DEF ApiInv
      <3> QED BY <2>3, <3>1, <3>2, <3>3, StillServes
    <2> QED BY <1>1, <2>2, <2>3, <2>4, <2>5 DEF Height
  <1>4. CASE Outage
    BY <1>4 DEF Outage, Height
  <1>5. CASE TakeSnapshot
    <2>1. snapshot' = Height /\ UNCHANGED <<clock, headAt, blocks, cache, scenarioCache, req>>
      BY <1>5 DEF TakeSnapshot
    <2>2. ASSUME NEW q \in Reqs PROVE Serves(req[q], headAt, blocks, Height)
      <3>1. Len(headAt) \in Nat /\ Len(headAt) <= Len(headAt) /\ Len(blocks) \in Nat /\ Len(blocks) <= Len(blocks) /\ snapshot <= Height
        BY <1>1 DEF Height
      <3>2. Serves(req[q], headAt, blocks, snapshot) /\ Rising(headAt, blocks)
        OBVIOUS
      <3> QED BY <1>1, <3>1, <3>2, StillServes
    <2> QED BY <1>1, <2>1, <2>2 DEF Height
  <1> QED BY <1>2, <1>3, <1>4, <1>5

\* A step of a request that only moves itself.
LEMMA ApiMoves ==
    ASSUME ApiInv, NEW q \in Reqs, NEW r, Serves(r, headAt, blocks, snapshot), req' = [req EXCEPT ![q] = r],
           UNCHANGED <<clock, blocks, headAt, snapshot, cache, scenarioCache>>
    PROVE  ApiInv'
  BY DEF ApiInv, Height

LEMMA ApiRequests ==
    ASSUME ApiInv, NEW q \in Reqs, Ask(q) \/ Serve(q)
    PROVE  ApiInv'
  <1> USE ApiAssumption DEF ApiInv
  <1>1. /\ Len(headAt) = clock /\ Height \in Nat /\ clock \in Nat \ {0} /\ snapshot \in Nat /\ headAt \in Seq(Nat)
        /\ blocks \in Seq(Configs) /\ Height = Len(blocks)
        /\ req[q] \in Request /\ Serves(req[q], headAt, blocks, snapshot)
    BY DEF Rising, Height, Serves
  <1>2. ASSUME NEW kind \in Kinds, Miss(q, kind) PROVE ApiInv'
    <2> DEFINE r == [pc |-> "read", kind |-> kind, asked |-> clock, block |-> 0,
                     known |-> IF kind = "history" THEN snapshot ELSE 0, of |-> 0]
    <2>1. r \in Request
      BY <1>1 DEF Request
    <2>2. Serves(r, headAt, blocks, snapshot)
      BY <1>1, <2>1 DEF Serves
    <2> QED BY <1>2, <2>2, ApiMoves DEF Miss
  <1>3. ASSUME NEW kind \in Kinds, Hit(q, kind) PROVE ApiInv'
    <2>1. PICK c \in Cached : Continue(q, kind, clock, c.block, 0)
      BY <1>3 DEF Hit
    <2>2. c \in cache /\ c.at \in 1..clock /\ c.block \in 1..Height /\ headAt[c.at] <= c.block /\ clock - c.at < Ttl
      BY <2>1 DEF Cached
    <2>3. Since(clock) \in 1..clock /\ Since(clock) <= c.at
      <3>1. clock \in Nat \ {0}
        BY <1>1
      <3> QED BY <2>2, <3>1, SinceBounds, SinceRecent
    <2>4. headAt[Since(clock)] <= headAt[c.at]
      BY <1>1, <2>2, <2>3 DEF Rising
    <2>5. headAt[Since(clock)] <= c.block
      <3>1. headAt[Since(clock)] \in Nat /\ headAt[c.at] \in Nat
        BY <1>1, <2>2, <2>3, ElementOfSeq
      <3>2. c.block \in Nat
        BY <1>1, <2>2
      <3> QED BY <2>2, <2>4, <3>1, <3>2
    <2>6. UNCHANGED <<clock, blocks, headAt, snapshot, cache>>
      BY <1>3 DEF Hit
    <2>7. kind \in Kinds \cup {"view"} /\ clock \in 1..clock /\ 0 \in 0..snapshot
      BY <1>1
    <2>8. /\ \A e \in scenarioCache' : e.key = Rounded[e.of] /\ e.of \in Configs
          /\ \A e, d \in scenarioCache' : e = d
          /\ req' = [p \in Reqs |-> req'[p]]
          /\ \A p \in Reqs : Serves(req'[p], headAt, blocks, snapshot)
      BY <2>1, <2>2, <2>5, <2>7, ContinueKeeps
    <2> QED BY <1>1, <2>6, <2>8 DEF Height
  <1>4. CASE Pin(q)
    <2> DEFINE r == [req[q] EXCEPT !.pc = "pinned", !.block = Height]
    <2>1. r \in Request /\ r.pc = "pinned" /\ r.block = Height /\ r.asked = req[q].asked /\ r.kind = req[q].kind /\ r.known = req[q].known
      BY <1>1 DEF Request
    <2>2. req[q].asked \in 1..Len(headAt)
      BY <1>1, <1>4 DEF Pin, Serves
    <2>3. headAt[req[q].asked] <= Height
      BY <2>2 DEF Rising, Height
    <2> HIDE DEF r
    <2>4. Serves(r, headAt, blocks, snapshot)
      BY <1>1, <2>1, <2>2, <2>3 DEF Serves, Height
    <2>5. req' = [req EXCEPT ![q] = r] /\ UNCHANGED <<clock, blocks, headAt, snapshot, cache, scenarioCache>>
      BY <1>4 DEF Pin, r
    <2> QED BY <2>4, <2>5, ApiMoves
  <1>5. CASE Land(q)
    <2>1. /\ req[q].asked \in 1..clock /\ req[q].block \in 1..Height /\ headAt[req[q].asked] <= req[q].block
          /\ req[q].known \in 0..snapshot /\ req[q].kind \in Kinds \cup {"view"}
      BY <1>1, <1>5 DEF Land, Serves, Request
    <2>2. Since(req[q].asked) \in 1..clock /\ Since(req[q].asked) <= req[q].asked
      <3>1. req[q].asked \in Nat \ {0} /\ req[q].asked <= clock /\ clock \in Nat
        BY <1>1, <2>1
      <3>2. Since(req[q].asked) \in 1..req[q].asked /\ Since(req[q].asked) <= req[q].asked
        BY <3>1, SinceBounds
      <3> QED BY <3>1, <3>2
    <2>3. headAt[Since(req[q].asked)] <= req[q].block
      <3>1. headAt[Since(req[q].asked)] \in Nat /\ headAt[req[q].asked] \in Nat
        BY <1>1, <2>1, <2>2, ElementOfSeq
      <3>2. headAt[Since(req[q].asked)] <= headAt[req[q].asked]
        BY <1>1, <2>1, <2>2 DEF Rising
      <3> QED BY <2>1, <3>1, <3>2
    <2>4. /\ cache' = {[at |-> req[q].asked, block |-> req[q].block]}
          /\ Continue(q, req[q].kind, req[q].asked, req[q].block, req[q].known)
          /\ UNCHANGED <<clock, blocks, headAt, snapshot>>
      BY <1>5 DEF Land, Stamped
    <2>5. \A c \in cache' : c.at \in 1..clock /\ c.block \in 1..Height /\ headAt[c.at] <= c.block
      BY <2>1, <2>4
    <2> QED BY <1>1, <2>1, <2>3, <2>4, <2>5, ContinueKeeps DEF Height
  <1>6. CASE ReadThrows(q)
    <2> DEFINE r == [req[q] EXCEPT !.pc = IF req[q].kind = "history" THEN "nowTs" ELSE "error"]
    <2>1. r \in Request /\ r.pc = (IF req[q].kind = "history" THEN "nowTs" ELSE "error") /\ r.asked = req[q].asked
          /\ r.kind = req[q].kind /\ r.known = req[q].known
      BY <1>1 DEF Request
    <2> HIDE DEF r
    <2>2. Serves(r, headAt, blocks, snapshot)
      BY <1>1, <1>6, <2>1 DEF Serves, ReadThrows
    <2>3. req' = [req EXCEPT ![q] = r] /\ UNCHANGED <<clock, blocks, headAt, snapshot, cache, scenarioCache>>
      BY <1>6 DEF ReadThrows, r
    <2> QED BY <2>2, <2>3, ApiMoves
  <1>7. CASE nowTs(q)
    <2> DEFINE r == [req[q] EXCEPT !.pc = IF snapshot = 0 THEN "error" ELSE "query", !.block = snapshot]
    <2>1. r \in Request /\ r.pc = (IF snapshot = 0 THEN "error" ELSE "query") /\ r.asked = req[q].asked
          /\ r.block = snapshot /\ r.kind = req[q].kind /\ r.known = req[q].known /\ r.known \in Nat
      BY <1>1 DEF Request
    <2> HIDE DEF r
    <2>2. Serves(r, headAt, blocks, snapshot)
      BY <1>1, <1>7, <2>1 DEF Serves, nowTs
    <2>3. req' = [req EXCEPT ![q] = r] /\ UNCHANGED <<clock, blocks, headAt, snapshot, cache, scenarioCache>>
      BY <1>7 DEF nowTs, r
    <2> QED BY <2>2, <2>3, ApiMoves
  <1>8. CASE queryPerformance(q)
    <2> DEFINE r == [req[q] EXCEPT !.pc = "ok"]
    <2>1. r \in Request /\ r.pc = "ok" /\ r.asked = req[q].asked /\ r.block = req[q].block
          /\ r.kind = req[q].kind /\ r.known = req[q].known
      BY <1>1 DEF Request
    <2> HIDE DEF r
    <2>2. Serves(r, headAt, blocks, snapshot)
      BY <1>1, <1>8, <2>1 DEF Serves, queryPerformance
    <2>3. req' = [req EXCEPT ![q] = r] /\ UNCHANGED <<clock, blocks, headAt, snapshot, cache, scenarioCache>>
      BY <1>8 DEF queryPerformance, r
    <2> QED BY <2>2, <2>3, ApiMoves
  <1> QED BY <1>2, <1>3, <1>4, <1>5, <1>6, <1>7, <1>8 DEF Ask, Serve

LEMMA ApiKeeps == ApiInv /\ [ApiNext]_apiVars => ApiInv'
  <1>1. ASSUME ApiInv, UNCHANGED apiVars PROVE ApiInv'
    BY <1>1 DEF ApiInv, apiVars, Height
  <1> QED BY <1>1, ApiSurroundings, ApiRequests DEF ApiNext

LEMMA ApiAnswers == ApiInv => AnswersHold
  <1> SUFFICES ASSUME ApiInv PROVE AnswersHold
    OBVIOUS
  <1> USE DEF ApiInv, Answered
  <1>1. ApiTypeOK
    BY DEF ApiTypeOK, Serves, Request, Height
  <1>2. ServedIsFresh
    <2>1. ASSUME NEW q \in Reqs, Answered(q), req[q].kind # "history"
          PROVE  req[q].block >= headAt[Since(req[q].asked)]
      <3>1. Serves(req[q], headAt, blocks, snapshot)
        OBVIOUS
      <3>2. req[q].asked \in Nat /\ req[q].block \in Nat
        BY <3>1 DEF Serves, Request
      <3>3. headAt[Since(req[q].asked)] <= req[q].block
        BY <2>1, <3>1 DEF Serves
      <3>4. Since(req[q].asked) \in 1..Len(headAt)
        <4>1. req[q].asked \in 1..Len(headAt) /\ Len(headAt) \in Nat
          BY <2>1, <3>1, LenProperties DEF Serves, Rising
        <4> QED BY <4>1, SinceBounds
      <3>5. headAt[Since(req[q].asked)] \in Nat
        BY <3>4, ElementOfSeq DEF Rising
      <3> QED BY <3>2, <3>3, <3>5
    <2> QED BY <2>1 DEF ServedIsFresh, Since
  <1>3. ScenariosAreCurrent
    BY DEF ScenariosAreCurrent, Serves, ConfigAt
  <1>4. HistorySurvivesOutage
    BY DEF HistorySurvivesOutage, Serves
  <1> QED BY <1>1, <1>2, <1>3, <1>4 DEF AnswersHold

-----------------------------------------------------------------------------
(* The wallet *)

\* What is taken out of a list of different things is not in it any more, and
\* the rest stay different.
LEMMA RemovedOnce ==
    ASSUME NEW S, NEW s \in Seq(S), IsInjective(s), NEW e
    PROVE  /\ RemoveFirst(s, e) \in Seq(S) /\ IsInjective(RemoveFirst(s, e))
           /\ \A i \in DOMAIN RemoveFirst(s, e) : RemoveFirst(s, e)[i] # e
  <1> DEFINE I == {i \in 1..Len(s) : s[i] = e}
  <1>1. CASE I = {}
    <2>1. RemoveFirst(s, e) = s
      BY <1>1 DEF RemoveFirst
    <2> QED BY <1>1, <2>1
  <1>2. CASE I # {}
    <2>1. PICK k \in 1..Len(s) : s[k] = e
      BY <1>2
    <2>2. I = {k}
      BY <2>1 DEF IsInjective
    <2>3. Min(I) = k
      BY <2>2 DEF Min
    <2>4. RemoveFirst(s, e) = SubSeq(s, 1, k - 1) \o SubSeq(s, k + 1, Len(s))
      BY <2>1, <2>2, <2>3 DEF RemoveFirst, SelectInSeq, RemoveAt
    <2> DEFINE a == SubSeq(s, 1, k - 1)
               b == SubSeq(s, k + 1, Len(s))
    <2>5. /\ a \in Seq(S) /\ Len(a) = k - 1 /\ \A i \in 1..(k - 1) : a[i] = s[i]
          /\ b \in Seq(S) /\ Len(b) = Len(s) - k /\ \A i \in 1..(Len(s) - k) : b[i] = s[k + i]
      <3>1. k \in Nat /\ 1 <= k /\ k <= Len(s) /\ Len(s) \in Nat
        BY <2>1, LenProperties
      <3>2. a \in Seq(S) /\ Len(a) = k - 1 /\ \A i \in 1..(k - 1) : a[i] = s[i]
        BY <3>1, SubSeqProperties
      <3>3. b \in Seq(S) /\ Len(b) = Len(s) - k /\ \A i \in 1..(Len(s) - k) : b[i] = s[k + i]
        BY <3>1, SubSeqProperties
      <3> QED BY <3>2, <3>3
    <2> HIDE DEF a, b
    <2>6. /\ a \o b \in Seq(S) /\ Len(a \o b) = Len(s) - 1
          /\ \A i \in 1..(Len(s) - 1) : i < k => (a \o b)[i] = s[i]
          /\ \A i \in 1..(Len(s) - 1) : i >= k => (a \o b)[i] = s[i + 1]
      <3>1. k \in 1..Len(s) /\ Len(s) \in Nat
        BY <2>1, LenProperties
      <3>2. a \o b \in Seq(S) /\ Len(a \o b) = Len(s) - 1
        <4>1. a \o b \in Seq(S) /\ Len(a \o b) = Len(a) + Len(b)
          BY <2>5, ConcatProperties
        <4> QED BY <3>1, <2>5, <4>1
      <3>3. ASSUME NEW i \in 1..(Len(s) - 1) PROVE (a \o b)[i] = IF i <= Len(a) THEN a[i] ELSE b[i - Len(a)]
        BY <3>1, <2>5, ConcatProperties
      <3>4. ASSUME NEW i \in 1..(Len(s) - 1), i < k PROVE (a \o b)[i] = s[i]
        BY <3>1, <3>3, <3>4, <2>5
      <3>5. ASSUME NEW i \in 1..(Len(s) - 1), i >= k PROVE (a \o b)[i] = s[i + 1]
        <4>1. i - Len(a) \in 1..(Len(s) - k) /\ ~(i <= Len(a)) /\ k + (i - Len(a)) = i + 1
          BY <3>1, <3>5, <2>5
        <4> QED BY <3>3, <2>5, <4>1
      <3> QED BY <3>2, <3>4, <3>5
    <2> DEFINE t == a \o b
    <2> HIDE DEF t
    <2>7. IsInjective(t) /\ \A i \in DOMAIN t : t[i] # e
      <3>1. /\ DOMAIN t = 1..(Len(s) - 1) /\ DOMAIN s = 1..Len(s) /\ Len(s) \in Nat /\ k \in 1..Len(s)
            /\ \A i \in DOMAIN t : i < k => t[i] = s[i]
            /\ \A i \in DOMAIN t : i >= k => t[i] = s[i + 1]
        BY <2>1, <2>6, LenProperties DEF t
      <3>2. ASSUME NEW i \in DOMAIN t
            PROVE  \E j \in DOMAIN s : j # k /\ t[i] = s[j] /\ j = IF i < k THEN i ELSE i + 1
        <4>1. CASE i < k
          <5>1. i \in DOMAIN s /\ i # k /\ t[i] = s[i] /\ i = IF i < k THEN i ELSE i + 1
            BY <3>1, <4>1
          <5> QED BY <5>1
        <4>2. CASE i >= k
          <5>1. i + 1 \in DOMAIN s /\ i + 1 # k /\ t[i] = s[i + 1] /\ i + 1 = IF i < k THEN i ELSE i + 1
            BY <3>1, <4>2
          <5> QED BY <5>1
        <4> QED BY <3>1, <4>1, <4>2
      <3>3. ASSUME NEW i \in DOMAIN t PROVE t[i] # e
        BY <2>1, <3>1, <3>2 DEF IsInjective
      <3>4. ASSUME NEW i \in DOMAIN t, NEW j \in DOMAIN t, t[i] = t[j] PROVE i = j
        <4>1. PICK i2 \in DOMAIN s : t[i] = s[i2] /\ i2 = IF i < k THEN i ELSE i + 1
          BY <3>2
        <4>2. PICK j2 \in DOMAIN s : t[j] = s[j2] /\ j2 = IF j < k THEN j ELSE j + 1
          BY <3>2
        <4>3. i2 = j2
          BY <3>4, <4>1, <4>2 DEF IsInjective
        <4> QED BY <2>1, <3>1, <4>1, <4>2, <4>3
      <3> QED BY <3>3, <3>4 DEF IsInjective
    <2>8. RemoveFirst(s, e) = t
      BY <2>4 DEF a, b, t
    <2> QED BY <2>6, <2>7, <2>8 DEF t
  <1> QED BY <1>1, <1>2

\* What is put in front after it has been taken out is in the list once.
LEMMA MovedToFront ==
    ASSUME NEW S, NEW s \in Seq(S), IsInjective(s), NEW e \in S
    PROVE  <<e>> \o RemoveFirst(s, e) \in Seq(S) /\ IsInjective(<<e>> \o RemoveFirst(s, e))
  <1> DEFINE r == RemoveFirst(s, e)
             t == <<e>> \o r
  <1>1. r \in Seq(S) /\ IsInjective(r) /\ \A i \in DOMAIN r : r[i] # e
    BY RemovedOnce
  <1> HIDE DEF r
  <1>2. /\ t \in Seq(S) /\ DOMAIN t = 1..(1 + Len(r)) /\ t[1] = e
        /\ \A i \in DOMAIN t \ {1} : i - 1 \in DOMAIN r /\ t[i] = r[i - 1]
    <2>1. <<e>> \in Seq(S) /\ Len(<<e>>) = 1 /\ <<e>>[1] = e
      OBVIOUS
    <2>2. Len(r) \in Nat /\ DOMAIN r = 1..Len(r)
      BY <1>1, LenProperties
    <2>3. /\ t \in Seq(S) /\ Len(t) = 1 + Len(r)
          /\ \A i \in 1..(1 + Len(r)) : t[i] = IF i <= 1 THEN <<e>>[i] ELSE r[i - 1]
      BY <1>1, <2>1, ConcatProperties
    <2> HIDE DEF t
    <2>4. DOMAIN t = 1..(1 + Len(r))
      BY <2>3, LenProperties
    <2> QED BY <2>1, <2>2, <2>3, <2>4
  <1> HIDE DEF t
  <1>3. ASSUME NEW i \in DOMAIN t, NEW j \in DOMAIN t, t[i] = t[j] PROVE i = j
    <2>1. (i = 1 /\ j = 1) \/ (i # 1 /\ j # 1)
      BY <1>1, <1>2, <1>3
    <2>2. CASE i # 1 /\ j # 1
      <3>1. i - 1 = j - 1
        BY <1>1, <1>2, <1>3, <2>2 DEF IsInjective
      <3> QED BY <1>1, <1>2, <3>1, LenProperties
    <2> QED BY <2>1, <2>2
  <1>4. t \in Seq(S) /\ IsInjective(t)
    BY <1>2, <1>3 DEF IsInjective
  <1> QED BY <1>4 DEF t, r

\* What the wallet's handlers and timers know: a timer is for a demo wallet,
\* and from the press of Disconnect to the next connection nothing is remembered
\* and no handler is about to remember.
WalletInv ==
    /\ WalletTypeOK
    /\ menu.at # "idle" => menu.connector \in Connectors
    /\ restore.at # "off" => restore.id \in Demo \cup Gone
    /\ restore.at = "connecting" => restore.id \in Demo
    /\ forgotten => remembered = None /\ menu.at # "remember"

LEMMA WalletStarts == WalletInit => WalletInv
  <1> SUFFICES ASSUME WalletInit PROVE WalletInv
    OBVIOUS
  <1> USE WalletAssumption DEF WalletInit, WalletInv, WalletTypeOK, Idle, At
  <1>1. wagmi \in Seq(Connectors) /\ IsInjective(wagmi)
    BY DEF IsInjective
  <1>2. restore \in [at : {"off", "waiting", "connecting"}, id : Demo \cup Gone \cup {None}, tries : 0..MaxTries]
        /\ (restore.at # "off" => restore.id \in Demo \cup Gone)
        /\ restore.at # "connecting"
    BY DEF Timer, NoTimer
  <1> QED BY <1>1, <1>2

LEMMA WalletKeeps == WalletInv /\ [WalletNext]_walletVars => WalletInv'
  <1> SUFFICES ASSUME WalletInv, [WalletNext]_walletVars PROVE WalletInv'
    OBVIOUS
  <1> USE WalletAssumption DEF WalletInv, WalletTypeOK
  <1>1. CASE UNCHANGED walletVars
    BY <1>1 DEF walletVars
  <1>2. CASE Reload
    <2>1. (wagmi \in Seq(Connectors) /\ IsInjective(wagmi))'
      BY <1>2 DEF Reload, IsInjective
    <2>2. (restore \in [at : {"off", "waiting", "connecting"}, id : Demo \cup Gone \cup {None}, tries : 0..MaxTries])'
          /\ (restore.at # "off" => restore.id \in Demo \cup Gone)'
          /\ (restore.at # "connecting")'
      BY <1>2 DEF Reload, Timer, NoTimer
    <2> QED BY <1>2, <2>1, <2>2 DEF Reload, Idle, At
  <1>3. CASE Settle
    <2>1. (wagmi \in Seq(Connectors) /\ IsInjective(wagmi))'
      <3>1. wagmi' = wagmi \/ wagmi' = <<>> \/ wagmi' = <<Browser>>
        BY <1>3 DEF Settle
      <3>2. CASE wagmi' = <<Browser>>
        BY <3>2 DEF IsInjective, Connectors
      <3>3. CASE wagmi' = <<>>
        BY <3>3 DEF IsInjective
      <3>4. CASE wagmi' = wagmi
        BY <3>4
      <3> QED BY <3>1, <3>2, <3>3, <3>4
    <2> QED BY <1>3, <2>1 DEF Settle
  <1>4. CASE Pick
    BY <1>4 DEF Pick, At, Idle
  <1>5. CASE Leave
    <2>1. (wagmi \in Seq(Connectors) /\ IsInjective(wagmi))'
      <3>1. CASE wagmi' = wagmi
        BY <3>1
      <3>2. CASE wagmi # <<>> /\ wagmi' = Tail(wagmi)
        <4>1. wagmi' \in Seq(Connectors) /\ Len(wagmi') = Len(wagmi) - 1
              /\ \A i \in 1..Len(wagmi') : wagmi'[i] = wagmi[i + 1]
          BY <3>2, HeadTailProperties
        <4>2. IsInjective(wagmi')
          <5>1. DOMAIN wagmi' = 1..Len(wagmi') /\ DOMAIN wagmi = 1..Len(wagmi) /\ Len(wagmi) \in Nat
            BY <4>1, LenProperties
          <5>2. ASSUME NEW i \in DOMAIN wagmi', NEW j \in DOMAIN wagmi', wagmi'[i] = wagmi'[j] PROVE i = j
            <6>1. i + 1 \in DOMAIN wagmi /\ j + 1 \in DOMAIN wagmi /\ wagmi[i + 1] = wagmi[j + 1]
              <7>1. i \in 1..Len(wagmi') /\ j \in 1..Len(wagmi')
                BY <5>1, <5>2
              <7>2. wagmi'[i] = wagmi[i + 1] /\ wagmi'[j] = wagmi[j + 1]
                BY <4>1, <7>1
              <7>3. i + 1 \in 1..Len(wagmi) /\ j + 1 \in 1..Len(wagmi)
                BY <4>1, <5>1, <7>1
              <7> QED BY <5>1, <5>2, <7>2, <7>3
            <6>2. i + 1 = j + 1
              BY <6>1 DEF IsInjective
            <6> QED BY <5>1, <6>2
          <5> QED BY <5>2 DEF IsInjective
        <4> QED BY <4>1, <4>2
      <3>3. CASE wagmi' = <<>>
        BY <3>3 DEF IsInjective
      <3> QED BY <1>5, <3>1, <3>2, <3>3 DEF Leave
    <2> QED BY <1>5, <2>1 DEF Leave, At, Idle
  <1>6. CASE Connect
    <2>1. (wagmi \in Seq(Connectors) /\ IsInjective(wagmi))'
      <3>1. CASE Connected(menu.connector)
        BY <1>6, <3>1, MovedToFront DEF Connect, Connected
      <3>2. CASE wagmi' = wagmi
        BY <3>2
      <3> QED BY <1>6, <3>1, <3>2 DEF Connect, Refused
    <2>2. CASE Connected(menu.connector) /\ menu' = At("remember", menu.connector) /\ forgotten' = FALSE
      BY <1>6, <2>1, <2>2 DEF Connect, Connected, At
    <2>3. CASE Refused /\ menu' = Idle /\ UNCHANGED forgotten
      BY <1>6, <2>1, <2>3 DEF Connect, Refused, At, Idle
    <2> QED BY <1>6, <2>2, <2>3 DEF Connect
  <1>7. CASE Remember
    BY <1>7 DEF Remember, Idle, At
  <1>8. CASE Press /\ remembered' = None
    <2>1. Current \in Connectors
      BY <1>8 DEF Press, Current
    <2> QED BY <1>8, <2>1 DEF Press, At, Idle
  <1>9. CASE Disconnected /\ UNCHANGED remembered
    <2>1. (wagmi \in Seq(Connectors) /\ IsInjective(wagmi))'
      BY <1>9, RemovedOnce DEF Disconnected, Dropped
    <2> QED BY <1>9, <2>1 DEF Disconnected, Dropped, Idle, At
  <1>10. CASE Attempt
    BY <1>10 DEF Attempt, NoTimer
  <1>11. CASE Restored
    <2>1. (wagmi \in Seq(Connectors) /\ IsInjective(wagmi))'
      BY <1>11, MovedToFront DEF Restored, Connected, Connectors
    <2> QED BY <1>11, <2>1 DEF Restored, Connected, NoTimer
  <1> QED BY <1>1, <1>2, <1>3, <1>4, <1>5, <1>6, <1>7, <1>8, <1>9, <1>10, <1>11
          DEF WalletNext, Library, disconnectAll

\* No step restores a wallet that has been forgotten.
LEMMA WalletStaysForgotten == WalletInv => DisconnectOutlivesReload
  BY WalletAssumption DEF WalletInv, DisconnectOutlivesReload, Reload, Timer, NoTimer, Connectors

-----------------------------------------------------------------------------
(* The panels *)

Query ==
    [data : Told \cup {Missing}, status : {"pending", "success", "error"},
     fetch : {"idle", "sent", "answered", "retry"}, failures : {0, 1},
     answer : Told \cup {Missing}, late : BOOLEAN]

\* A query of a key, whose last fetch ended in some way, while a transaction is
\* on its way: what it has, or is about to have, is of its key, and is of a block
\* with the transaction if it was asked for after the second invalidation.
Fits(q, k, ended, t) ==
    /\ q \in Query
    /\ q.status = "success" => q.data # Missing
    /\ q.fetch = "answered" => q.answer # Missing
    /\ ended = "failed" /\ q.data # Missing => q.status = "error"
    /\ q.late => t.at = "late"
    /\ q.data # Missing => q.data.key = k /\ (q.data.late => t.at = "late" /\ (k = "vault" => q.data.block >= t.block))
    /\ q.answer # Missing => q.answer.key = k /\ (q.answer.late => t.at = "late" /\ (k = "vault" => q.answer.block >= t.block))

\* Data of another range is shown only while that of the selected one is fetched.
FetchedWhenEmpty ==
    Ranges # {} /\ shownBefore # Missing /\ query[range].data = Missing /\ query[range].status = "pending"
        => query[range].fetch # "idle"

\* A state read after the receipt came has the transaction.
CacheInv ==
    /\ now \in 0..MaxPanelsTime /\ block \in 1..MaxBlock /\ panelsFaults \in 0..MaxPanelsFaults
    /\ stateCache \in [at : 0..now, block : 1..block]
    /\ tx \in [at : {"none", "mined", "receipt", "late"}, block : 0..block, due : Nat]
    /\ tx.at \in {"receipt", "late"} /\ stateCache.at > tx.due - Late => stateCache.block >= tx.block
    /\ tx.at = "late" => now >= tx.due

PanelsInv ==
    /\ CacheInv
    /\ query = [k \in Keys |-> query[k]] /\ last = [k \in Keys |-> last[k]]
    /\ \A k \in Keys : Fits(query[k], k, last[k], tx)
    /\ Ranges # {} => range \in Ranges
    /\ FetchedWhenEmpty

LEMMA StartedFits ==
    ASSUME NEW k, NEW ended, NEW q, Fits(q, k, ended, tx)
    PROVE  Fits(Started(q), k, ended, tx) /\ Started(q).fetch = "sent" /\ Started(q).data = q.data
  <1> DEFINE s == Started(q)
  <1>1. q \in Query
    BY DEF Fits
  <1>2. /\ s.data = q.data /\ s.fetch = "sent" /\ s.answer = Missing /\ s.late = (tx.at = "late")
        /\ s.status = IF q.data = Missing THEN "pending" ELSE q.status
    BY <1>1 DEF Started, Query
  <1>3. s \in Query
    <2>1. ASSUME NEW l \in BOOLEAN, NEW c \in {"pending", "success", "error"}
          PROVE  [q EXCEPT !.fetch = "sent", !.failures = 0, !.answer = Missing, !.late = l, !.status = c] \in Query
      BY <1>1 DEF Query
    <2>2. (tx.at = "late") \in BOOLEAN /\ (IF q.data = Missing THEN "pending" ELSE q.status) \in {"pending", "success", "error"}
      BY <1>1 DEF Query
    <2> QED BY <2>1, <2>2, Zenon DEF Started
  <1> HIDE DEF s
  <1>4. Fits(s, k, ended, tx)
    BY <1>2, <1>3 DEF Fits
  <1> QED BY <1>2, <1>4 DEF s

\* A fetch that is tried again, or left alone.
LEMMA RefetchedFits ==
    ASSUME NEW k, NEW ended, NEW q, NEW t, NEW f \in {"idle", "sent"}, Fits(q, k, ended, t)
    PROVE  Fits([q EXCEPT !.fetch = f], k, ended, t)
  <1> DEFINE s == [q EXCEPT !.fetch = f]
  <1>1. q \in Query
    BY DEF Fits
  <1>2. /\ s.fetch = f /\ s.data = q.data /\ s.status = q.status /\ s.failures = q.failures
        /\ s.answer = q.answer /\ s.late = q.late
    BY <1>1 DEF Query
  <1>3. s \in Query
    BY <1>1 DEF Query
  <1> HIDE DEF s
  <1>4. Fits(s, k, ended, t)
    BY <1>2, <1>3 DEF Fits
  <1> QED BY <1>4 DEF s

LEMMA FailedFits ==
    ASSUME NEW k, NEW ended, NEW q, NEW t, Fits(q, k, ended, t)
    PROVE  /\ Fits(Failed(q), k, IF q.failures = 0 THEN ended ELSE "failed", t)
           /\ Failed(q).data = q.data /\ (Failed(q).status = "pending" => Failed(q).fetch = "retry")
  <1> DEFINE s == Failed(q)
  <1>1. q \in Query
    BY DEF Fits
  <1>2. /\ s.data = q.data /\ s.answer = q.answer /\ s.late = q.late
        /\ s.fetch = IF q.failures = 0 THEN "retry" ELSE "idle"
        /\ s.status = IF q.failures = 0 THEN q.status ELSE "error"
    BY <1>1 DEF Failed, Query
  <1>3. s \in Query
    <2>1. CASE q.failures = 0
      BY <1>1, <2>1 DEF Failed, Query
    <2>2. CASE q.failures # 0
      BY <1>1, <2>2 DEF Failed, Query
    <2> QED BY <2>1, <2>2
  <1> HIDE DEF s
  <1>4. Fits(s, k, IF q.failures = 0 THEN ended ELSE "failed", t) /\ (s.status = "pending" => s.fetch = "retry")
    BY <1>2, <1>3 DEF Fits
  <1> QED BY <1>2, <1>4 DEF s

LEMMA AnsweredFits ==
    ASSUME NEW k, NEW ended, NEW q, NEW t, Fits(q, k, ended, t),
           NEW a \in Told, a.key = k, a.late = q.late, k = "vault" /\ t.at = "late" => a.block >= t.block
    PROVE  Fits([q EXCEPT !.fetch = "answered", !.answer = a], k, ended, t)
  <1> DEFINE s == [q EXCEPT !.fetch = "answered", !.answer = a]
  <1>1. q \in Query
    BY DEF Fits
  <1>2. /\ s.fetch = "answered" /\ s.answer = a /\ s.data = q.data /\ s.status = q.status /\ s.late = q.late
    BY <1>1 DEF Query
  <1>3. s \in Query
    BY <1>1 DEF Query
  <1>4. a # Missing
    BY PanelsAssumption
  <1> HIDE DEF s
  <1>5. Fits(s, k, ended, t)
    BY <1>2, <1>3, <1>4 DEF Fits
  <1> QED BY <1>5 DEF s

LEMMA DeliveredFits ==
    ASSUME NEW k, NEW ended, NEW q, NEW t, Fits(q, k, ended, t), q.fetch = "answered"
    PROVE  LET d == [q EXCEPT !.data = q.answer, !.status = "success", !.fetch = "idle"]
           IN  Fits(d, k, "ok", t) /\ d.data # Missing
  <1> DEFINE s == [q EXCEPT !.data = q.answer, !.status = "success", !.fetch = "idle"]
  <1>1. q \in Query
    BY DEF Fits
  <1>2. s.fetch = "idle" /\ s.data = q.answer /\ s.answer = q.answer /\ s.status = "success" /\ s.late = q.late
    BY <1>1 DEF Query
  <1>3. s \in Query
    BY <1>1 DEF Query
  <1> HIDE DEF s
  <1>4. Fits(s, k, "ok", t) /\ s.data # Missing
    BY <1>2, <1>3 DEF Fits
  <1> QED BY <1>4 DEF s

LEMMA PanelsStart == PanelsInit => PanelsInv
  BY PanelsAssumption DEF PanelsInit, PanelsInv, CacheInv, FetchedWhenEmpty, Fits, Query, NoTx

\* The queries of the panels, the rest of the state being as it is.
LEMMA PanelsKeepQueries ==
    ASSUME PanelsInv,
           \/ \E k \in Keys : PollQuery(k) \/ Retry(k) \/ ServeQuery(k) \/ Deliver(k)
           \/ \E r \in Ranges : Select(r)
    PROVE  PanelsInv'
  <1> USE DEF PanelsInv
  <1>1. ASSUME NEW k \in Keys, PollQuery(k) PROVE PanelsInv'
    <2>1. CacheInv' /\ UNCHANGED <<last, tx, range, shownBefore>>
      BY <1>1 DEF PollQuery, CacheInv
    <2>2. Fits(Started(query[k]), k, last[k], tx) /\ Started(query[k]).fetch = "sent"
      BY StartedFits
    <2>3. query' = [query EXCEPT ![k] = Started(query[k])]
      BY <1>1 DEF PollQuery
    <2>4. FetchedWhenEmpty'
      BY <2>1, <2>2, <2>3 DEF FetchedWhenEmpty, Keys
    <2> QED BY <2>1, <2>2, <2>3, <2>4
  <1>2. ASSUME NEW k \in Keys, Retry(k) PROVE PanelsInv'
    <2>1. CacheInv' /\ UNCHANGED <<last, tx, range, shownBefore>>
      BY <1>2 DEF Retry, CacheInv
    <2>2. query' = [query EXCEPT ![k].fetch = "sent"]
      BY <1>2 DEF Retry
    <2>3. Fits([query[k] EXCEPT !.fetch = "sent"], k, last[k], tx) /\ query[k] \in Query
      <3>1. query[k] \in Query
        BY DEF Fits
      <3> QED BY <3>1, RefetchedFits
    <2>4. query' = [query EXCEPT ![k] = [query[k] EXCEPT !.fetch = "sent"]]
      BY <2>2
    <2>5. FetchedWhenEmpty'
      BY <2>1, <2>3, <2>4 DEF FetchedWhenEmpty, Keys, Query
    <2> QED BY <2>1, <2>3, <2>4, <2>5
  <1>3. ASSUME NEW k \in Keys, ServeQuery(k) PROVE PanelsInv'
    <2>1. CASE FetchFails(k) /\ UNCHANGED stateCache
      <3>1. CacheInv' /\ UNCHANGED <<tx, range, shownBefore>>
        BY <1>3, <2>1 DEF ServeQuery, CacheInv
      <3>2. /\ query' = [query EXCEPT ![k] = Failed(query[k])]
            /\ last' = [last EXCEPT ![k] = IF query[k].failures = 0 THEN last[k] ELSE "failed"]
        BY <2>1 DEF FetchFails
      <3>3. /\ Fits(Failed(query[k]), k, last'[k], tx)
            /\ Failed(query[k]).status = "pending" => Failed(query[k]).fetch = "retry"
            /\ Failed(query[k]).data = query[k].data
        BY <3>2, FailedFits
      <3>4. FetchedWhenEmpty'
        BY <3>1, <3>2, <3>3 DEF FetchedWhenEmpty, Keys
      <3> QED BY <3>1, <3>2, <3>3, <3>4
    <2>2. ASSUME stateCache' = IF k = "vault" /\ ~Fresh THEN [at |-> now, block |-> block] ELSE stateCache,
                 query' = [query EXCEPT ![k].fetch = "answered",
                             ![k].answer = Data(k # "health" \/ "rpc" \notin unreachable,
                                                IF k = "vault" THEN stateCache'.block ELSE block, k, query[k].late)],
                 UNCHANGED last
          PROVE  PanelsInv'
      <3>1. CacheInv' /\ UNCHANGED <<tx, range, shownBefore>>
        <4>1. UNCHANGED <<now, block, panelsFaults, tx, range, shownBefore>>
          BY <1>3 DEF ServeQuery
        <4>2. stateCache' = stateCache \/ stateCache' = [at |-> now, block |-> block]
          BY <2>2
        <4>3. CASE stateCache' = stateCache
          BY <4>1, <4>3 DEF CacheInv
        <4>4. CASE stateCache' = [at |-> now, block |-> block]
          BY <4>1, <4>4 DEF CacheInv
        <4> QED BY <4>1, <4>2, <4>3, <4>4
      <3>2. k = "vault" /\ tx.at = "late" => stateCache'.block >= tx.block
        BY <2>2, PanelsAssumption DEF CacheInv, Fresh
      <3> DEFINE a == Data(k # "health" \/ "rpc" \notin unreachable,
                           IF k = "vault" THEN stateCache'.block ELSE block, k, query[k].late)
      <3>3. a \in Told /\ a.key = k /\ a.late = query[k].late /\ (k = "vault" => a.block = stateCache'.block)
        BY <3>1 DEF Data, Told, CacheInv, Fits, Query
      <3> HIDE DEF a
      <3>4. query' = [query EXCEPT ![k].fetch = "answered", ![k].answer = a]
        BY <2>2 DEF a
      <3>5. Fits([query[k] EXCEPT !.fetch = "answered", !.answer = a], k, last[k], tx) /\ query[k] \in Query
        <4>1. query[k] \in Query
          BY DEF Fits
        <4> QED BY <2>2, <3>2, <3>3, <4>1, AnsweredFits
      <3>6. query' = [query EXCEPT ![k] = [query[k] EXCEPT !.fetch = "answered", !.answer = a]]
        BY <3>4
      <3>7. FetchedWhenEmpty'
        BY <3>1, <3>5, <3>6 DEF FetchedWhenEmpty, Keys, Query
      <3> QED BY <2>2, <3>1, <3>5, <3>6, <3>7
    <2> QED BY <1>3, <2>1, <2>2 DEF ServeQuery
  <1>4. ASSUME NEW k \in Keys, Deliver(k) PROVE PanelsInv'
    <2>1. CacheInv' /\ UNCHANGED <<tx, range, shownBefore>>
      BY <1>4 DEF Deliver, CacheInv
    <2>2. /\ query' = [query EXCEPT ![k] = [query[k] EXCEPT !.data = query[k].answer, !.status = "success", !.fetch = "idle"]]
          /\ last' = [last EXCEPT ![k] = "ok"] /\ query[k].fetch = "answered"
      BY <1>4 DEF Deliver
    <2> DEFINE d == [query[k] EXCEPT !.data = query[k].answer, !.status = "success", !.fetch = "idle"]
    <2>3. Fits(d, k, "ok", tx) /\ d.data # Missing
      BY <2>2, DeliveredFits
    <2> HIDE DEF d
    <2>4. FetchedWhenEmpty'
      BY <2>1, <2>2, <2>3 DEF FetchedWhenEmpty, Keys, d
    <2>5. \A j \in Keys : Fits(query'[j], j, last'[j], tx')
      BY <2>1, <2>2, <2>3 DEF d
    <2> QED BY <2>1, <2>2, <2>4, <2>5
  <1>5. ASSUME NEW r \in Ranges, Select(r) PROVE PanelsInv'
    <2>1. CacheInv' /\ UNCHANGED <<tx, last>> /\ r \in Keys /\ range \in Keys /\ r # range /\ range' = r
      BY <1>5 DEF Select, CacheInv, Keys
    <2>2. query' = [query EXCEPT ![r] = Started(query[r]), ![range] = [query[range] EXCEPT !.fetch = "idle"]]
      BY <1>5, <2>1 DEF Select
    <2>3. Fits(Started(query[r]), r, last[r], tx) /\ Started(query[r]).fetch = "sent"
      BY <2>1, StartedFits
    <2>4. Fits([query[range] EXCEPT !.fetch = "idle"], range, last[range], tx)
      BY <2>1, RefetchedFits
    <2>5. FetchedWhenEmpty'
      BY <2>1, <2>2, <2>3 DEF FetchedWhenEmpty
    <2> QED BY <2>1, <2>2, <2>3, <2>4, <2>5
  <1> QED BY <1>1, <1>2, <1>3, <1>4, <1>5

\* The surroundings, and the two times everything is invalidated.
LEMMA InvalidatedFits ==
    ASSUME PanelsInv
    PROVE  /\ Invalidated = [k \in Keys |-> Invalidated[k]]
           /\ \A k \in Keys : Invalidated[k] = query[k] \/ Invalidated[k] = Started(query[k])
           /\ \A k \in Keys : Fits(Invalidated[k], k, last[k], tx)
  <1>1. \A k \in Keys : Invalidated[k] = query[k] \/ Invalidated[k] = Started(query[k])
    BY DEF Invalidated
  <1>2. \A k \in Keys : Fits(query[k], k, last[k], tx) /\ Fits(Started(query[k]), k, last[k], tx)
    BY StartedFits DEF PanelsInv
  <1>3. ASSUME NEW k \in Keys PROVE Fits(Invalidated[k], k, last[k], tx)
    BY <1>1, <1>2
  <1>4. Invalidated = [k \in Keys |-> Invalidated[k]]
    BY DEF Invalidated
  <1> QED BY <1>1, <1>3, <1>4

\* Nothing has been asked for after a second invalidation that has not been.
LEMMA EarlyFits ==
    ASSUME NEW k, NEW ended, NEW q, NEW t, Fits(q, k, ended, t), t.at # "late", NEW u
    PROVE  Fits(q, k, ended, u)
  BY DEF Fits, Query, Told

LEMMA LateFits ==
    ASSUME NEW k, NEW ended, NEW q, NEW t, Fits(q, k, ended, t), t.at = "late", q.answer = Missing
    PROVE  Fits([q EXCEPT !.late = TRUE], k, ended, t) /\ [q EXCEPT !.late = TRUE].data = q.data
           /\ [q EXCEPT !.late = TRUE].fetch = q.fetch
  <1> DEFINE s == [q EXCEPT !.late = TRUE]
  <1>1. q \in Query
    BY DEF Fits
  <1>2. s.fetch = q.fetch /\ s.data = q.data /\ s.answer = q.answer /\ s.status = q.status /\ s.late = TRUE
    BY <1>1 DEF Query
  <1>3. s \in Query
    BY <1>1 DEF Query
  <1> HIDE DEF s
  <1>4. Fits(s, k, ended, t)
    BY <1>2, <1>3 DEF Fits
  <1> QED BY <1>2, <1>4 DEF s

LEMMA PanelsKeepRest ==
    ASSUME PanelsInv,
           \/ Mined \/ ReceiptArrives \/ SecondTime \/ HalfSecond \/ Block
           \/ \E what \in {"api", "rpc"} : Stops(what) \/ Returns(what)
           \/ UNCHANGED panelsVars
    PROVE  PanelsInv'
  <1> USE DEF PanelsInv
  <1>1. CASE UNCHANGED <<query, last, range, shownBefore, tx>> /\ CacheInv'
    BY <1>1 DEF FetchedWhenEmpty
  <1>2. CASE HalfSecond
    <2>1. CacheInv'
      BY <1>2, PanelsAssumption DEF HalfSecond, CacheInv
    <2> QED BY <1>1, <1>2, <2>1 DEF HalfSecond
  <1>3. CASE Block
    <2>1. CacheInv'
      BY <1>3, PanelsAssumption DEF Block, CacheInv
    <2> QED BY <1>1, <1>3, <2>1 DEF Block
  <1>4. ASSUME NEW what, Stops(what) \/ Returns(what) PROVE PanelsInv'
    <2>1. CacheInv'
      BY <1>4, PanelsAssumption DEF Stops, Returns, CacheInv
    <2> QED BY <1>1, <1>4, <2>1 DEF Stops, Returns
  <1>5. CASE UNCHANGED panelsVars
    BY <1>1, <1>5 DEF panelsVars, CacheInv
  <1>6. CASE Mined
    <2>1. CacheInv'
      BY <1>6, PanelsAssumption DEF Mined, CacheInv
    <2>2. UNCHANGED <<query, last, range, shownBefore>> /\ tx.at # "late"
      BY <1>6 DEF Mined
    <2>3. \A k \in Keys : Fits(query[k], k, last[k], tx')
      BY <2>2, EarlyFits
    <2>4. FetchedWhenEmpty'
      BY <2>2 DEF FetchedWhenEmpty
    <2> QED BY <2>1, <2>2, <2>3, <2>4
  <1>7. CASE ReceiptArrives
    <2>1. CacheInv'
      <3>1. /\ tx' = [tx EXCEPT !.at = "receipt", !.due = now + Late]
            /\ UNCHANGED <<now, block, panelsFaults, stateCache>>
        BY <1>7 DEF ReceiptArrives, Due
      <3>2. now \in Nat /\ now + Late \in Nat /\ Late \in Nat
        BY PanelsAssumption DEF CacheInv
      <3>3. /\ tx' \in [at : {"none", "mined", "receipt", "late"}, block : 0..block, due : Nat]
            /\ tx'.at = "receipt" /\ tx'.due = now + Late
        BY <3>1, <3>2 DEF CacheInv
      <3>4. ~(stateCache.at > tx'.due - Late)
        BY <3>2, <3>3 DEF CacheInv
      <3> QED BY <3>1, <3>3, <3>4 DEF CacheInv
    <2>2. UNCHANGED <<last, range, shownBefore>> /\ tx.at # "late" /\ query' = Invalidated
      BY <1>7 DEF ReceiptArrives
    <2>3. \A k \in Keys : Fits(Invalidated[k], k, last[k], tx')
      BY <2>2, InvalidatedFits, EarlyFits
    <2>4. FetchedWhenEmpty'
      <3>1. CASE Ranges = {}
        BY <3>1 DEF FetchedWhenEmpty
      <3>2. CASE Ranges # {}
        <4>1. range \in Keys /\ Fits(query[range], range, last[range], tx)
          BY <3>2 DEF Keys
        <4>2. Started(query[range]).fetch = "sent" /\ Started(query[range]).data = query[range].data
          BY <4>1, StartedFits
        <4>3. Invalidated[range] = query[range] \/ Invalidated[range] = Started(query[range])
          BY <4>1, InvalidatedFits
        <4> QED BY <2>2, <4>2, <4>3 DEF FetchedWhenEmpty
      <3> QED BY <3>1, <3>2
    <2> QED BY <2>1, <2>2, <2>3, <2>4, InvalidatedFits
  <1>8. CASE SecondTime
    <2>1. CacheInv'
      <3>1. /\ tx' = [tx EXCEPT !.at = "late"] /\ tx.at = "receipt" /\ now >= tx.due
            /\ UNCHANGED <<now, block, panelsFaults, stateCache>>
        BY <1>8 DEF SecondTime
      <3>2. /\ tx' \in [at : {"none", "mined", "receipt", "late"}, block : 0..block, due : Nat]
            /\ tx'.at = "late" /\ tx'.block = tx.block /\ tx'.due = tx.due
        BY <3>1 DEF CacheInv
      <3> QED BY <3>1, <3>2 DEF CacheInv
    <2>2. /\ UNCHANGED <<last, range, shownBefore>> /\ tx.at # "late" /\ tx'.at = "late"
          /\ query' = [k \in Keys |-> IF Invalidated[k] = Started(query[k])
                                      THEN [Invalidated[k] EXCEPT !.late = TRUE] ELSE query[k]]
      BY <1>8 DEF SecondTime, CacheInv
    <2>3. ASSUME NEW k \in Keys, Invalidated[k] = Started(query[k])
          PROVE  LET q == [Invalidated[k] EXCEPT !.late = TRUE]
                 IN  Fits(q, k, last[k], tx') /\ q.fetch = "sent" /\ q.data = query[k].data
      <3> DEFINE q == Started(query[k])
      <3>1. Fits(q, k, last[k], tx) /\ q.fetch = "sent" /\ q.data = query[k].data
        BY StartedFits
      <3>2. q.answer = Missing
        BY DEF Started, Fits, Query
      <3> HIDE DEF q
      <3>3. Fits(q, k, last[k], tx')
        BY <2>2, <3>1, EarlyFits
      <3>4. Fits([q EXCEPT !.late = TRUE], k, last[k], tx') /\ [q EXCEPT !.late = TRUE].data = q.data
            /\ [q EXCEPT !.late = TRUE].fetch = q.fetch
        BY <2>2, <3>2, <3>3, LateFits
      <3> QED BY <2>3, <3>1, <3>4 DEF q
    <2>4. \A k \in Keys : Fits(query[k], k, last[k], tx')
      BY <2>2, EarlyFits
    <2>5. \A k \in Keys : Fits(query'[k], k, last[k], tx')
      BY <2>2, <2>3, <2>4
    <2>6. \A k \in Keys : query'[k] = query[k] \/ query'[k].fetch = "sent"
      BY <2>2, <2>3
    <2>7. FetchedWhenEmpty'
      BY <2>2, <2>6 DEF FetchedWhenEmpty, Keys
    <2> QED BY <2>1, <2>2, <2>5, <2>7
  <1> QED BY <1>2, <1>3, <1>4, <1>5, <1>6, <1>7, <1>8

LEMMA PanelsKeep == PanelsInv /\ [PanelsNext]_panelsVars => PanelsInv'
  BY PanelsKeepQueries, PanelsKeepRest DEF PanelsNext

\* What the invariant says of what is shown.
LEMMA PanelsAreTold == PanelsInv => PanelsHold
  <1> SUFFICES ASSUME PanelsInv PROVE PanelsHold
    OBVIOUS
  <1> USE DEF PanelsInv
  <1>1. PanelsTypeOK
    <2>1. \A k \in Keys : query[k].failures \in 0..1
      BY DEF Fits, Query
    <2>2. \A k \in Keys : /\ query[k].status \in {"pending", "success", "error"}
                          /\ query[k].fetch \in {"idle", "sent", "answered", "retry"}
                          /\ (query[k].status = "success" => query[k].data # Missing)
      BY DEF Fits, Query
    <2> QED BY <2>1, <2>2 DEF PanelsTypeOK, CacheInv
  <1>2. FailureIsMarked
    BY DEF FailureIsMarked, panelOf, Fits, Query
  <1>3. RangeIsShown
    <2> SUFFICES ASSUME Ranges # {}, ranged # Missing, ~spinner PROVE ranged.key = range
      BY DEF RangeIsShown
    <2>1. range \in Keys /\ Fits(query[range], range, last[range], tx)
      BY DEF Keys
    <2>2. CASE query[range].data # Missing
      BY <2>1, <2>2 DEF ranged, Fits
    <2>3. CASE query[range].data = Missing
      <3>1. ranged = shownBefore /\ query[range].status = "pending"
        BY <2>3 DEF ranged
      <3> QED BY <2>3, <3>1 DEF FetchedWhenEmpty, spinner
    <2> QED BY <2>2, <2>3
  <1>4. TransactionIsShown
    BY DEF TransactionIsShown, Fits
  <1> QED BY <1>1, <1>2, <1>3, <1>4 DEF PanelsHold

\* A panel that shows data has data after every step.
LEMMA PanelsKeepData ==
    ASSUME PanelsInv, [PanelsNext]_panelsVars, NEW k \in Keys, query[k].data # Missing
    PROVE  query'[k].data # Missing
  <1> USE DEF PanelsInv
  <1>1. query[k] \in Query
    BY DEF Fits
  <1>2. CASE UNCHANGED query
    BY <1>2
  <1>3. ASSUME NEW j \in Keys, PollQuery(j) PROVE query'[k].data # Missing
    <2>1. query' = [query EXCEPT ![j] = Started(query[j])] /\ query = [l \in Keys |-> query[l]]
      BY <1>3 DEF PollQuery
    <2>2. Started(query[j]).data = query[j].data
      BY StartedFits
    <2>3. query'[k] = IF k = j THEN Started(query[j]) ELSE query[k]
      BY <2>1
    <2> QED BY <2>2, <2>3
  <1>4. ASSUME NEW j \in Keys, Retry(j) PROVE query'[k].data # Missing
    BY <1>1, <1>4 DEF Retry, Query
  <1>5. ASSUME NEW j \in Keys, ServeQuery(j) PROVE query'[k].data # Missing
    <2>1. CASE query' = [query EXCEPT ![j] = Failed(query[j])]
      BY <2>1, FailedFits
    <2>2. ASSUME NEW a, query' = [query EXCEPT ![j].fetch = "answered", ![j].answer = a]
          PROVE  query'[k].data # Missing
      BY <1>1, <2>2 DEF Query
    <2> QED BY <1>5, <2>1, <2>2 DEF ServeQuery, FetchFails
  <1>6. ASSUME NEW j \in Keys, Deliver(j) PROVE query'[k].data # Missing
    <2> DEFINE d == [query[j] EXCEPT !.data = query[j].answer, !.status = "success", !.fetch = "idle"]
    <2>1. query' = [query EXCEPT ![j] = d] /\ query[j].fetch = "answered"
      BY <1>6 DEF Deliver
    <2>2. d.data # Missing
      BY <2>1, DeliveredFits
    <2> HIDE DEF d
    <2> QED BY <2>1, <2>2
  <1>7. ASSUME NEW r \in Ranges, Select(r) PROVE query'[k].data # Missing
    <2>1. query' = [query EXCEPT ![r] = Started(query[r]), ![range] = [query[range] EXCEPT !.fetch = "idle"]]
          /\ r # range /\ r \in Keys /\ range \in Keys
      BY <1>7 DEF Select, Keys
    <2>2. Started(query[r]).data = query[r].data
      BY <2>1, StartedFits
    <2>3. [query[range] EXCEPT !.fetch = "idle"].data = query[range].data
      BY <2>1 DEF Fits, Query
    <2> QED BY <2>1, <2>2, <2>3
  <1>8. CASE ReceiptArrives
    BY <1>8, InvalidatedFits, StartedFits DEF ReceiptArrives
  <1>9. CASE SecondTime
    <2>1. Started(query[k]).data = query[k].data
      BY StartedFits
    <2>2. Started(query[k]) \in Query
      <3>1. Fits(Started(query[k]), k, last[k], tx)
        BY StartedFits
      <3> QED BY <3>1 DEF Fits
    <2>3. [Started(query[k]) EXCEPT !.late = TRUE].data = query[k].data
      BY <2>1, <2>2 DEF Query
    <2> QED BY <1>9, <2>3 DEF SecondTime
  <1> QED BY <1>2, <1>3, <1>4, <1>5, <1>6, <1>7, <1>8, <1>9
          DEF PanelsNext, panelsVars, Mined, HalfSecond, Block, Stops, Returns

LEMMA PanelsNeverBlank == PanelsInv /\ [PanelsNext]_panelsVars => NeverBlank
  <1> SUFFICES ASSUME PanelsInv, [PanelsNext]_panelsVars, NEW k \in Keys, panelOf(k) \in {"data", "last good"}
               PROVE  panelOf(k)' \in {"data", "last good"}
    BY DEF NeverBlank
  <1>1. query[k].data # Missing
    BY DEF panelOf
  <1>2. query'[k].data # Missing
    BY <1>1, PanelsKeepData
  <1> QED BY <1>2 DEF panelOf

-----------------------------------------------------------------------------
(* The simulation forms *)

Bodies == {[k \in {k \in DOMAIN f : num(f[k]) # Undefined} |-> f[k]] : f \in Typed["custom"] \cup Typed["montecarlo"]}
Rans == ChainTargets \cup {Undefined} \cup {Leverage(b) : b \in Bodies}

Moments == {"sent", "run", "200", "400", "500", "done"}
FormRequest == [card : Cards, body : Bodies, at : Moments, ran : Rans, id : Nat]
FormRow == [id : Nat, kind : Cards, input : Bodies, result : Rans, req : Nat]
Mutation == [status : {"idle", "pending", "success", "error"}, req : Nat, id : Nat]
Loaded == [status : {"none", "fetching", "ok", "unreachable", "failed", "missing"},
           row : {Undefined} \cup {<<row>> : row \in FormRow}]

\* The API has nothing against the request, and an override in it is what is run.
Acceptable(r) ==
    /\ DOMAIN r.body \subseteq UNION {simulationRequest[c] : c \in Cards}
    /\ \A k \in DOMAIN r.body \cap simulationRequest.montecarlo : r.body[k] # Fraction
    /\ r.card = "custom" => {"priceMovePct", "moveDays", "horizonDays"} \subseteq DOMAIN r.body
Overridden(r) == Leverage(r.body) # Undefined => r.ran = Leverage(r.body)

FormsTypes ==
    /\ form = [c \in Cards |-> form[c]] /\ \A c \in Cards : form[c] \in Typed[c]
    /\ mutation \in [Cards -> Mutation]
    /\ reqs \in Seq(FormRequest) /\ table \in Seq(FormRow)
    /\ asked \in LookedUp \cup {0} /\ stored \in [LookedUp -> Loaded]
    /\ target \in ChainTargets /\ stopped \subseteq {"api", "db", "rpc"} /\ formsFaults \in 0..MaxFormsFaults

\* A request, as far as it has come, and the row of a run.
Followed(i, r, rows) ==
    /\ r.at # "400"
    /\ r.at = "sent" => Acceptable(r)
    /\ r.at \in {"run", "200"} => Overridden(r)
    /\ r.id <= Len(rows)
    /\ r.at = "200" => r.id \in 1..Len(rows) /\ rows[r.id].req = i
Records(row, r) ==
    /\ r.at \in {"200", "done"} /\ row.kind = r.card /\ row.input = r.body /\ row.result = r.ran
    /\ Overridden(r)

FormsInv ==
    /\ FormsTypes
    /\ \A i \in 1..Len(reqs) : Followed(i, reqs[i], table)
    /\ \A n \in 1..Len(table) : table[n].req \in 1..Len(reqs) /\ Records(table[n], reqs[table[n].req])
    /\ OneRowPerRun
    /\ \A c \in Cards : mutation[c].status = "success" =>
         mutation[c].id \in 1..Len(table) /\ table[mutation[c].id].kind = c /\ table[mutation[c].id].req = mutation[c].req
    /\ \A id \in LookedUp : stored[id].status = "ok" => id \in 1..Len(table) /\ stored[id].row = <<table[id]>>

LEMMA FormsStart == FormsInit => FormsInv
  <1> SUFFICES ASSUME FormsInit PROVE FormsInv
    OBVIOUS
  <1> USE SimFormsAssumption DEF FormsInit, FormsInv, FormsTypes, Cards
  <1>1. mutation \in [Cards -> Mutation] /\ \A c \in Cards : mutation[c].status = "idle"
    BY DEF IdleRun, Mutation
  <1>2. stored \in [LookedUp -> Loaded] /\ \A id \in LookedUp : stored[id].status = "none"
    BY DEF NotLoaded, Loaded
  <1>3. reqs \in Seq(FormRequest) /\ table \in Seq(FormRow) /\ Len(reqs) = 0 /\ Len(table) = 0 /\ DOMAIN table = {}
    OBVIOUS
  <1>4. form = [c \in Cards |-> form[c]] /\ \A c \in Cards : form[c] \in Typed[c]
    OBVIOUS
  <1>5. FormsTypes
    BY <1>1, <1>2, <1>3, <1>4
  <1> QED BY <1>1, <1>2, <1>3, <1>5 DEF OneRowPerRun

\* A request that moves on.
LEMMA Moved ==
    ASSUME NEW s \in Seq(FormRequest), NEW i \in DOMAIN s, NEW r \in FormRequest, NEW t, t = [s EXCEPT ![i] = r]
    PROVE  /\ t \in Seq(FormRequest) /\ Len(t) = Len(s) /\ i \in 1..Len(s) /\ Len(s) \in Nat
           /\ t[i] = r /\ \A j \in 1..Len(s) : j # i => t[j] = s[j]
  <1>1. i \in 1..Len(s) /\ Len(s) \in Nat
    BY LenProperties
  <1> QED BY <1>1, ExceptSeq

\* What becomes of the books when one request moves on and no row is stored.
LEMMA MovedKeeps ==
    ASSUME FormsInv, NEW i \in DOMAIN reqs, NEW r \in FormRequest, reqs' = [reqs EXCEPT ![i] = r],
           r.card = reqs[i].card, r.body = reqs[i].body, Followed(i, r, table),
           reqs[i].at = "sent" \/ r.ran = reqs[i].ran, r.at = "done" \/ reqs[i].at \notin {"200", "done"},
           UNCHANGED <<table, form, asked, stored, target>>, stopped' \subseteq {"api", "db", "rpc"},
           formsFaults' \in 0..MaxFormsFaults, mutation' \in [Cards -> Mutation],
           \A c \in Cards : mutation'[c].status = "success" =>
             mutation'[c].id \in 1..Len(table) /\ table[mutation'[c].id].kind = c /\ table[mutation'[c].id].req = mutation'[c].req
    PROVE  FormsInv'
  <1> USE DEF FormsInv
  <1>1. /\ reqs' \in Seq(FormRequest) /\ Len(reqs') = Len(reqs) /\ i \in 1..Len(reqs) /\ Len(reqs) \in Nat
        /\ reqs'[i] = r /\ \A j \in 1..Len(reqs) : j # i => reqs'[j] = reqs[j]
    BY Moved DEF FormsTypes
  <1>2. \A j \in 1..Len(reqs') : Followed(j, reqs'[j], table)
    BY <1>1
  <1>3. ASSUME NEW n \in 1..Len(table) PROVE table[n].req \in 1..Len(reqs') /\ Records(table[n], reqs'[table[n].req])
    <2>1. table[n].req \in 1..Len(reqs) /\ Records(table[n], reqs[table[n].req])
      OBVIOUS
    <2>2. CASE table[n].req = i
      BY <1>1, <2>1, <2>2 DEF Records, Overridden
    <2>3. CASE table[n].req # i
      BY <1>1, <2>1, <2>3
    <2> QED BY <2>2, <2>3
  <1>4. FormsTypes' /\ OneRowPerRun'
    BY <1>1 DEF FormsTypes, OneRowPerRun
  <1>5. UNCHANGED stored /\ UNCHANGED table /\ UNCHANGED asked
    OBVIOUS
  <1>6. (\A id \in LookedUp : stored[id].status = "ok" => id \in 1..Len(table) /\ stored[id].row = <<table[id]>>)'
    BY <1>5
  <1>7. (\A c \in Cards : mutation[c].status = "success" =>
         mutation[c].id \in 1..Len(table) /\ table[mutation[c].id].kind = c /\ table[mutation[c].id].req = mutation[c].req)'
    BY <1>5
  <1>8. (\A n \in 1..Len(table) : table[n].req \in 1..Len(reqs) /\ Records(table[n], reqs[table[n].req]))'
    BY <1>3, <1>5
  <1>9. (\A j \in 1..Len(reqs) : Followed(j, reqs[j], table))'
    BY <1>2, <1>5
  <1> QED BY <1>4, <1>6, <1>7, <1>8, <1>9
-----------------------------------------------------------------------------
\* The mutation of a card settles without a run, or is pending.
LEMMA MutationMoved ==
    ASSUME FormsTypes, NEW c \in Cards, NEW s \in {"idle", "pending", "error"}
    PROVE  LET m == [mutation EXCEPT ![c].status = s]
           IN  m \in [Cards -> Mutation] /\ m[c].status = s /\ \A d \in Cards : d # c => m[d] = mutation[d]
  BY DEF FormsTypes, Mutation

\* Nothing of the requests moves.
LEMMA FormsKeepAside ==
    ASSUME FormsInv, UNCHANGED <<reqs, table>>, FormsTypes',
           \A c \in Cards : mutation'[c] = mutation[c] \/ mutation'[c].status # "success",
           \A id \in LookedUp : stored'[id].status = "ok" => id \in 1..Len(table) /\ stored'[id].row = <<table[id]>>
    PROVE  FormsInv'
  <1> USE DEF FormsInv
  <1>1. (\A c \in Cards : mutation[c].status = "success" =>
         mutation[c].id \in 1..Len(table) /\ table[mutation[c].id].kind = c /\ table[mutation[c].id].req = mutation[c].req)'
    OBVIOUS
  <1>2. (\A id \in LookedUp : stored[id].status = "ok" => id \in 1..Len(table) /\ stored[id].row = <<table[id]>>)'
    OBVIOUS
  <1>3. OneRowPerRun'
    BY DEF OneRowPerRun
  <1>4. (\A n \in 1..Len(table) : table[n].req \in 1..Len(reqs) /\ Records(table[n], reqs[table[n].req]))'
        /\ (\A j \in 1..Len(reqs) : Followed(j, reqs[j], table))'
    OBVIOUS
  <1> QED BY <1>1, <1>2, <1>3, <1>4

LEMMA LoadedFetches ==
    ASSUME NEW l \in Loaded
    PROVE  [l EXCEPT !.status = "fetching"] \in Loaded /\ [l EXCEPT !.status = "fetching"].status = "fetching"
  BY DEF Loaded

LEMMA FormsAside ==
    ASSUME FormsInv,
           \/ \E c \in Cards : Type(c)
           \/ \E i \in DOMAIN reqs : ConnectionLost(i)
           \/ \E id \in LookedUp : Load(id) \/ getSimulation(id)
           \/ RetryNow \/ Retarget \/ UNCHANGED formsVars
           \/ \E what \in {"api", "db", "rpc"} : Return(what)
    PROVE  FormsInv'
  <1> USE DEF FormsInv
  <1>1. ASSUME NEW c \in Cards, Type(c) PROVE FormsInv'
    <2>1. PICK f \in Typed[c] : form' = [form EXCEPT ![c] = f]
      BY <1>1 DEF Type
    <2>2. UNCHANGED <<mutation, reqs, table, asked, stored, target, stopped, formsFaults>>
      BY <1>1 DEF Type, lookup, env
    <2>3. FormsTypes'
      BY <2>1, <2>2 DEF FormsTypes
    <2> QED BY <2>2, <2>3, FormsKeepAside
  <1>2. ASSUME NEW i \in DOMAIN reqs, ConnectionLost(i) PROVE FormsInv'
    <2>1. /\ mutation' = [mutation EXCEPT ![reqs[i].card].status = "error"] /\ formsFaults < MaxFormsFaults
          /\ formsFaults' = formsFaults + 1 /\ UNCHANGED <<form, reqs, table, asked, stored, target, stopped>>
      BY <1>2 DEF ConnectionLost, MutationFails, lookup
    <2>2. reqs[i].card \in Cards
      <3>1. reqs \in Seq(FormRequest)
        BY DEF FormsTypes
      <3>2. i \in 1..Len(reqs)
        BY <1>2, <3>1, LenProperties
      <3>3. reqs[i] \in FormRequest
        BY <3>1, <3>2, ElementOfSeq
      <3> QED BY <3>3 DEF FormRequest
    <2>3. mutation' \in [Cards -> Mutation] /\ \A c \in Cards : mutation'[c] = mutation[c] \/ mutation'[c].status # "success"
      <3> DEFINE c == reqs[i].card
      <3>1. FormsTypes
        OBVIOUS
      <3>2. c \in Cards /\ mutation' = [mutation EXCEPT ![c].status = "error"]
        BY <2>1, <2>2
      <3> HIDE DEF c
      <3>3. /\ mutation' \in [Cards -> Mutation] /\ mutation'[c].status = "error"
            /\ \A d \in Cards : d # c => mutation'[d] = mutation[d]
        BY <3>1, <3>2, MutationMoved
      <3> QED BY <3>3
    <2>4. FormsTypes'
      BY <2>1, <2>3, SimFormsAssumption DEF FormsTypes
    <2> QED BY <2>1, <2>3, <2>4, FormsKeepAside
  <1>3. ASSUME NEW id \in LookedUp, Load(id) PROVE FormsInv'
    <2>1. /\ asked' = id /\ UNCHANGED <<form, mutation, reqs, table, target, stopped, formsFaults>>
          /\ stored' = [k \in LookedUp |->
               IF k = id /\ stored[k].status # "ok" THEN [stored[k] EXCEPT !.status = "fetching"]
               ELSE IF k = asked /\ stored[k].status = "fetching" THEN NotLoaded ELSE stored[k]]
      BY <1>3 DEF Load, formsState, env
    <2>2. NotLoaded \in Loaded /\ NotLoaded.status = "none"
      BY DEF NotLoaded, Loaded
    <2>3. \A k \in LookedUp : [stored[k] EXCEPT !.status = "fetching"] \in Loaded /\ [stored[k] EXCEPT !.status = "fetching"].status = "fetching"
      BY LoadedFetches DEF FormsTypes
    <2>4. \A k \in LookedUp : stored'[k] \in Loaded /\ (stored'[k] = stored[k] \/ stored'[k].status # "ok")
      BY <2>1, <2>2, <2>3 DEF FormsTypes
    <2>5. FormsTypes'
      BY <2>1, <2>4 DEF FormsTypes
    <2> QED BY <2>1, <2>4, <2>5, FormsKeepAside
  <1>4. ASSUME NEW id \in LookedUp, getSimulation(id) PROVE FormsInv'
    <2>1. PICK l : /\ stored' = [stored EXCEPT ![id] = l]
                   /\ UNCHANGED <<form, mutation, reqs, table, asked, target, stopped, formsFaults>>
                   /\ \/ \E s \in {"unreachable", "failed", "missing"} : l = [status |-> s, row |-> Undefined]
                      \/ found(id) /\ l = [status |-> "ok", row |-> <<table[id]>>]
      <3>1. UNCHANGED <<form, mutation, reqs, table, asked, target, stopped, formsFaults>>
        BY <1>4 DEF getSimulation, formsState, env
      <3> QED BY <1>4, <3>1 DEF getSimulation
    <2>2. found(id) => id \in 1..Len(table) /\ table[id] \in FormRow
      BY LenProperties, ElementOfSeq DEF found, FormsTypes
    <2>3. l \in Loaded
      BY <2>1, <2>2 DEF Loaded
    <2>4. l.status = "ok" => id \in 1..Len(table) /\ l.row = <<table[id]>>
      BY <2>1, <2>2
    <2>5. FormsTypes'
      BY <2>1, <2>3 DEF FormsTypes
    <2>6. \A k \in LookedUp : stored'[k].status = "ok" => k \in 1..Len(table) /\ stored'[k].row = <<table[k]>>
      BY <2>1, <2>4 DEF FormsTypes
    <2> QED BY <2>1, <2>5, <2>6, FormsKeepAside
  <1>5. CASE RetryNow
    <2>1. /\ stored' = [stored EXCEPT ![asked].status = "fetching"] /\ asked \in LookedUp
          /\ UNCHANGED <<form, mutation, reqs, table, asked, target, stopped, formsFaults>>
      BY <1>5 DEF RetryNow, formsState, env, FormsTypes
    <2>2. [stored[asked] EXCEPT !.status = "fetching"] \in Loaded /\ [stored[asked] EXCEPT !.status = "fetching"].status = "fetching"
      BY <2>1, LoadedFetches DEF FormsTypes
    <2>3. FormsTypes'
      BY <2>1, <2>2 DEF FormsTypes
    <2>4. \A k \in LookedUp : stored'[k].status = "ok" => k \in 1..Len(table) /\ stored'[k].row = <<table[k]>>
      BY <2>1, <2>2 DEF FormsTypes
    <2> QED BY <2>1, <2>3, <2>4, FormsKeepAside
  <1>6. CASE Retarget \/ UNCHANGED formsVars \/ \E what \in {"api", "db", "rpc"} : Return(what)
    <2>1. UNCHANGED <<form, mutation, reqs, table, asked, stored>>
      BY <1>6 DEF Retarget, Return, formsVars, formsState, lookup
    <2>2. target' \in ChainTargets /\ stopped' \subseteq {"api", "db", "rpc"} /\ formsFaults' = formsFaults
      BY <1>6 DEF Retarget, Return, formsVars, env, FormsTypes
    <2>3. FormsTypes'
      BY <2>1, <2>2 DEF FormsTypes
    <2> QED BY <2>1, <2>3, FormsKeepAside
  <1> QED BY <1>1, <1>2, <1>3, <1>4, <1>5, <1>6
-----------------------------------------------------------------------------
LEMMA Requested ==
    /\ UNION {simulationRequest[c] : c \in Cards}
         = {"priceMovePct", "moveDays", "horizonDays", "leverage"} \cup {"paths", "days", "seed"}
    /\ simulationRequest.montecarlo = {"paths", "days", "seed"}
  BY DEF simulationRequest, Cards

\* A form that has no error makes a request that the API does not refuse.
LEMMA AcceptedFits ==
    ASSUME FormsTypes, NEW c \in Cards, accepts(c),
           NEW r, r = [card |-> c, body |-> body(c), at |-> "sent", ran |-> Undefined, id |-> 0]
    PROVE  r \in FormRequest /\ Acceptable(r)
  <1> DEFINE f == form[c]
             given == {k \in DOMAIN f : num(f[k]) # Undefined}
  <1>1. f \in Typed["custom"] \cup Typed["montecarlo"]
    BY DEF FormsTypes, Cards
  <1>2. body(c) = [k \in given |-> f[k]]
    BY DEF body
  <1>3. body(c) \in Bodies
    BY <1>1, <1>2 DEF Bodies
  <1>4. r \in FormRequest
    BY <1>3 DEF FormRequest, Moments, Rans
  <1>5. DOMAIN r.body = given /\ \A k \in given : r.body[k] = f[k]
    BY <1>2
  <1>6. CASE c = "custom"
    <2>1. f \in Typed["custom"] /\ acceptsCustom(f)
      BY <1>6 DEF FormsTypes, accepts
    <2>2. DOMAIN f = {"priceMovePct", "moveDays", "horizonDays", "leverage"}
      BY <2>1, SimFormsAssumption
    <2>3. given \subseteq {"priceMovePct", "moveDays", "horizonDays", "leverage"}
      BY <2>2
    <2>4. {"priceMovePct", "moveDays", "horizonDays"} \subseteq given
      BY <2>1, <2>2 DEF acceptsCustom, Within
    <2>5. \A k \in DOMAIN r.body \cap {"paths", "days", "seed"} : FALSE
      BY <1>5, <2>3
    <2>6. DOMAIN r.body \subseteq {"priceMovePct", "moveDays", "horizonDays", "leverage"}
      BY <1>5, <2>3
    <2>7. {"priceMovePct", "moveDays", "horizonDays"} \subseteq DOMAIN r.body
      BY <1>5, <2>4
    <2> QED BY <1>4, <2>5, <2>6, <2>7, Requested DEF Acceptable
  <1>7. CASE c = "montecarlo"
    <2>1. f \in Typed["montecarlo"] /\ acceptsPaths(f)
      BY <1>7 DEF FormsTypes, accepts, Cards
    <2>2. DOMAIN f = {"paths", "days", "seed"}
      BY <2>1, SimFormsAssumption
    <2>3. \A k \in given : f[k] # Fraction
      BY <2>1 DEF acceptsPaths, num
    <2>4. DOMAIN r.body \subseteq {"paths", "days", "seed"} /\ \A k \in DOMAIN r.body : r.body[k] # Fraction
      BY <1>5, <2>2, <2>3
    <2>5. r.card # "custom"
      BY <1>7
    <2> QED BY <1>4, <2>4, <2>5, Requested DEF Acceptable
  <1> QED BY <1>4, <1>6, <1>7 DEF Cards

LEMMA SubmitKeeps == ASSUME FormsInv, NEW c \in Cards, Submit(c) PROVE FormsInv'
  <1> DEFINE r == [card |-> c, body |-> body(c), at |-> "sent", ran |-> Undefined, id |-> 0]
             m == [status |-> "pending", req |-> Len(reqs) + 1, id |-> 0]
  <1> USE DEF FormsInv
  <1>1. r \in FormRequest /\ Acceptable(r) /\ r.at = "sent" /\ r.id = 0
    BY AcceptedFits DEF Submit
  <1>2. /\ reqs' = Append(reqs, r) /\ mutation' = [mutation EXCEPT ![c] = m]
        /\ UNCHANGED <<form, table, asked, stored, target, stopped, formsFaults>>
    BY DEF Submit, lookup, env
  <1>3. Len(reqs) \in Nat /\ Len(table) \in Nat
    BY LenProperties DEF FormsTypes
  <1>4. m \in Mutation /\ m.status = "pending"
    BY <1>3 DEF Mutation
  <1> HIDE DEF r, m
  <1>5. /\ reqs' \in Seq(FormRequest) /\ Len(reqs') = Len(reqs) + 1 /\ reqs'[Len(reqs) + 1] = r
        /\ \A j \in 1..Len(reqs) : reqs'[j] = reqs[j]
    BY <1>1, <1>2, AppendProperties DEF FormsTypes
  <1>6. FormsTypes'
    BY <1>2, <1>4, <1>5 DEF FormsTypes
  <1>7. Followed(Len(reqs) + 1, r, table)
    BY <1>1, <1>3 DEF Followed
  <1>8. (\A j \in 1..Len(reqs) : Followed(j, reqs[j], table))'
    <2>1. \A j \in 1..Len(reqs) : Followed(j, reqs'[j], table)
      BY <1>5
    <2>2. \A j \in 1..(Len(reqs) + 1) : Followed(j, reqs'[j], table)
      BY <1>3, <1>5, <1>7, <2>1
    <2> QED BY <1>2, <1>5, <2>2
  <1>9. (\A n \in 1..Len(table) : table[n].req \in 1..Len(reqs) /\ Records(table[n], reqs[table[n].req]))'
    BY <1>2, <1>3, <1>5
  <1>10. (\A d \in Cards : mutation[d].status = "success" =>
         mutation[d].id \in 1..Len(table) /\ table[mutation[d].id].kind = d /\ table[mutation[d].id].req = mutation[d].req)'
    BY <1>2, <1>4 DEF FormsTypes
  <1>11. OneRowPerRun' /\ (\A id \in LookedUp : stored[id].status = "ok" => id \in 1..Len(table) /\ stored[id].row = <<table[id]>>)'
    BY <1>2 DEF OneRowPerRun
  <1> QED BY <1>6, <1>8, <1>9, <1>10, <1>11

\* A request whose mutation stays what it is.
LEMMA ProgressKeeps ==
    ASSUME FormsInv, NEW i \in DOMAIN reqs, NEW r \in FormRequest, reqs' = [reqs EXCEPT ![i] = r],
           r.card = reqs[i].card, r.body = reqs[i].body, Followed(i, r, table),
           reqs[i].at = "sent" \/ r.ran = reqs[i].ran, r.at = "done" \/ reqs[i].at \notin {"200", "done"},
           UNCHANGED <<form, mutation, table, asked, stored, target, stopped, formsFaults>>
    PROVE  FormsInv'
  <1>1. /\ UNCHANGED <<table, form, asked, stored, target>> /\ stopped' \subseteq {"api", "db", "rpc"}
        /\ formsFaults' \in 0..MaxFormsFaults /\ mutation' \in [Cards -> Mutation]
        /\ \A c \in Cards : mutation'[c].status = "success" =>
             mutation'[c].id \in 1..Len(table) /\ table[mutation'[c].id].kind = c /\ table[mutation'[c].id].req = mutation'[c].req
    BY DEF FormsInv, FormsTypes
  <1> QED BY <1>1, MovedKeeps

\* What is known of a request.
LEMMA Known ==
    ASSUME FormsInv, NEW i \in DOMAIN reqs
    PROVE  /\ reqs[i] \in FormRequest /\ i \in 1..Len(reqs) /\ reqs[i].card \in Cards /\ reqs[i].body \in Bodies
           /\ reqs[i].id \in Nat /\ Followed(i, reqs[i], table)
  <1>1. reqs[i] \in FormRequest /\ i \in 1..Len(reqs)
    BY LenProperties, ElementOfSeq DEF FormsInv, FormsTypes
  <1> QED BY <1>1 DEF FormsInv, FormRequest

\* The request at another moment.
LEMMA AtMoment ==
    ASSUME FormsInv, NEW i \in DOMAIN reqs, NEW at \in Moments, NEW r, r = [reqs[i] EXCEPT !.at = at]
    PROVE  /\ r \in FormRequest /\ r.at = at /\ r.card = reqs[i].card /\ r.body = reqs[i].body
           /\ r.ran = reqs[i].ran /\ r.id = reqs[i].id
           /\ at \in {"500", "done"} => Followed(i, r, table)
  <1>1. reqs[i] \in FormRequest /\ Followed(i, reqs[i], table)
    BY Known
  <1>2. /\ r \in FormRequest /\ r.at = at /\ r.card = reqs[i].card /\ r.body = reqs[i].body
        /\ r.ran = reqs[i].ran /\ r.id = reqs[i].id
    BY <1>1 DEF FormRequest
  <1> QED BY <1>1, <1>2 DEF Followed

LEMMA SimulateKeeps == ASSUME FormsInv, NEW i \in DOMAIN reqs, simulate(i) PROVE FormsInv'
  <1>1. reqs[i] \in FormRequest /\ reqs[i].body \in Bodies /\ Followed(i, reqs[i], table) /\ reqs[i].at = "sent"
    BY Known DEF simulate
  <1>2. UNCHANGED <<form, mutation, table, asked, stored, target, stopped, formsFaults>>
    BY DEF simulate, formsState, lookup, env
  <1>3. Acceptable(reqs[i])
    BY <1>1 DEF Followed
  <1>4. Valid(i) /\ ~missing(i)
    BY <1>3 DEF Acceptable, Valid, missing
  <1>5. CASE Progress(i, "500")
    <2> DEFINE r == [reqs[i] EXCEPT !.at = "500"]
    <2>1. reqs' = [reqs EXCEPT ![i] = r]
      BY <1>5 DEF Progress
    <2>2. /\ r \in FormRequest /\ r.at = "500" /\ r.card = reqs[i].card /\ r.body = reqs[i].body
          /\ Followed(i, r, table)
      BY AtMoment DEF Moments
    <2> HIDE DEF r
    <2> QED BY <1>1, <1>2, <2>1, <2>2, ProgressKeeps
  <1>6. CASE reqs' = [reqs EXCEPT ![i].at = "run", ![i].ran = strategy(reqs[i].body)]
    <2> DEFINE x == strategy(reqs[i].body)
               r == [reqs[i] EXCEPT !.at = "run", !.ran = x]
    <2>1. reqs' = [reqs EXCEPT ![i] = r]
      BY <1>6
    <2>2. x \in Rans /\ (Leverage(reqs[i].body) # Undefined => x = Leverage(reqs[i].body))
      <3>1. target \in ChainTargets
        BY DEF FormsInv, FormsTypes
      <3> QED BY <1>1, <3>1 DEF strategy, Rans
    <2> HIDE DEF x
    <2>3. /\ r \in FormRequest /\ r.at = "run" /\ r.card = reqs[i].card /\ r.body = reqs[i].body
          /\ r.ran = x /\ r.id = reqs[i].id
      BY <1>1, <2>2 DEF FormRequest, Moments
    <2>4. Followed(i, r, table)
      <3> HIDE DEF r
      <3> QED BY <1>1, <2>2, <2>3 DEF Followed, Overridden
    <2> HIDE DEF r
    <2> QED BY <1>1, <1>2, <2>1, <2>3, <2>4, ProgressKeeps
  <1> QED BY <1>4, <1>5, <1>6 DEF simulate

\* The row of a run is stored.
LEMMA StoredKeeps ==
    ASSUME FormsInv, NEW i \in DOMAIN reqs, NEW r, reqs[i].at = "run",
           r = [reqs[i] EXCEPT !.at = "200", !.id = Len(table) + 1],
           reqs' = [reqs EXCEPT ![i] = r], table' = Append(table, Row(i)),
           UNCHANGED <<form, mutation, asked, stored, target, stopped, formsFaults>>
    PROVE  FormsInv'
  <1> DEFINE n == Len(table) + 1
             row == Row(i)
  <1> USE DEF FormsInv
  <1>1. reqs[i] \in FormRequest /\ i \in 1..Len(reqs) /\ Followed(i, reqs[i], table)
    BY Known
  <1>2. Len(table) \in Nat /\ Len(reqs) \in Nat
    BY LenProperties DEF FormsTypes
  <1>3. /\ r \in FormRequest /\ r.at = "200" /\ r.id = n /\ r.card = reqs[i].card /\ r.body = reqs[i].body
        /\ r.ran = reqs[i].ran
    <2>1. n \in Nat
      BY <1>2
    <2> HIDE DEF n
    <2> QED BY <1>1, <2>1 DEF FormRequest, Moments, n
  <1>4. /\ row \in FormRow /\ row.req = i /\ row.kind = reqs[i].card /\ row.input = reqs[i].body
        /\ row.result = reqs[i].ran
    <2>1. i \in Nat /\ n \in Nat
      BY <1>1, <1>2
    <2> QED BY <1>1, <2>1 DEF Row, FormRow, FormRequest
  <1> HIDE DEF row
  <1>5. /\ table' \in Seq(FormRow) /\ Len(table') = n /\ table'[n] = row
        /\ \A k \in 1..Len(table) : table'[k] = table[k]
    BY <1>4, AppendProperties DEF row, FormsTypes
  <1>6. /\ reqs' \in Seq(FormRequest) /\ Len(reqs') = Len(reqs)
        /\ reqs'[i] = r /\ \A j \in 1..Len(reqs) : j # i => reqs'[j] = reqs[j]
    BY <1>3, Moved DEF FormsTypes
  <1>7. FormsTypes'
    BY <1>5, <1>6 DEF FormsTypes
  <1>8. \A k \in 1..Len(table) : /\ table[k].req \in 1..Len(reqs) /\ Records(table[k], reqs[table[k].req])
                                 /\ table[k].req # i
    BY DEF Records
  <1>9. Overridden(reqs[i])
    BY <1>1 DEF Followed
  <1>10. (\A j \in 1..Len(reqs) : Followed(j, reqs[j], table))'
    <2> SUFFICES ASSUME NEW j \in 1..Len(reqs) PROVE Followed(j, reqs'[j], table')
      BY <1>6
    <2>1. CASE j = i
      <3>1. Overridden(r)
        BY <1>3, <1>9 DEF Overridden
      <3>2. r.id \in 1..Len(table') /\ table'[r.id].req = i
        BY <1>2, <1>3, <1>4, <1>5
      <3>3. r.id <= Len(table')
        BY <1>2, <1>3, <1>5
      <3>4. Followed(i, r, table')
        BY <1>3, <3>1, <3>2, <3>3 DEF Followed
      <3> QED BY <1>6, <2>1, <3>4
    <2>2. CASE j # i
      <3>1. Followed(j, reqs[j], table) /\ reqs'[j] = reqs[j]
        BY <1>6, <2>2
      <3>2. reqs[j].id <= Len(table')
        <4>1. reqs[j].id \in Nat /\ reqs[j].id <= Len(table)
          <5>1. j \in DOMAIN reqs
            BY LenProperties DEF FormsTypes
          <5>2. reqs[j].id \in Nat
            BY <5>1, Known
          <5> QED BY <3>1, <5>2 DEF Followed
        <4> QED BY <1>2, <1>5, <4>1
      <3>3. reqs[j].at = "200" => reqs[j].id \in 1..Len(table') /\ table'[reqs[j].id].req = j
        BY <1>2, <1>5, <3>1 DEF Followed
      <3>4. Followed(j, reqs[j], table')
        BY <3>1, <3>2, <3>3 DEF Followed
      <3> QED BY <3>1, <3>4
    <2> QED BY <2>1, <2>2
  <1>11. (\A k \in 1..Len(table) : table[k].req \in 1..Len(reqs) /\ Records(table[k], reqs[table[k].req]))'
    <2> SUFFICES ASSUME NEW k \in 1..n PROVE table'[k].req \in 1..Len(reqs) /\ Records(table'[k], reqs'[table'[k].req])
      BY <1>5, <1>6
    <2>1. CASE k = n
      <3>1. Overridden(r)
        BY <1>3, <1>9 DEF Overridden
      <3>2. table'[k] = row /\ row.req = i /\ reqs'[i] = r /\ i \in 1..Len(reqs)
        BY <1>1, <1>4, <1>5, <1>6, <2>1
      <3>3. Records(row, r)
        BY <1>3, <1>4, <3>1 DEF Records
      <3> QED BY <3>2, <3>3
    <2>2. CASE k # n
      BY <1>2, <1>5, <1>6, <1>8, <2>2
    <2> QED BY <2>1, <2>2
  <1>12. OneRowPerRun'
    <2> SUFFICES ASSUME NEW a \in 1..n, NEW b \in 1..n, table'[a].req = table'[b].req PROVE a = b
      <3>1. DOMAIN table' = 1..n
        BY <1>5, LenProperties
      <3> QED BY <3>1 DEF OneRowPerRun
    <2>1. DOMAIN table = 1..Len(table)
      BY LenProperties DEF FormsTypes
    <2>2. CASE a # n /\ b # n
      BY <1>2, <1>5, <2>1, <2>2 DEF OneRowPerRun
    <2>3. CASE a = n \/ b = n
      BY <1>2, <1>4, <1>5, <1>8, <2>3
    <2> QED BY <2>2, <2>3
  <1>13. (\A c \in Cards : mutation[c].status = "success" =>
         mutation[c].id \in 1..Len(table) /\ table[mutation[c].id].kind = c /\ table[mutation[c].id].req = mutation[c].req)'
    BY <1>2, <1>5
  <1>14. (\A id \in LookedUp : stored[id].status = "ok" => id \in 1..Len(table) /\ stored[id].row = <<table[id]>>)'
    BY <1>2, <1>5
  <1> QED BY <1>7, <1>10, <1>11, <1>12, <1>13, <1>14

LEMMA SaveKeeps == ASSUME FormsInv, NEW i \in DOMAIN reqs, saveSimulation(i) PROVE FormsInv'
  <1>1. UNCHANGED <<form, mutation, asked, stored, target, stopped, formsFaults>> /\ reqs[i].at = "run"
    BY DEF saveSimulation, formsState, lookup, env
  <1>2. CASE Progress(i, "500") /\ UNCHANGED table
    <2> DEFINE r == [reqs[i] EXCEPT !.at = "500"]
    <2>1. reqs' = [reqs EXCEPT ![i] = r]
      BY <1>2 DEF Progress
    <2>2. /\ r \in FormRequest /\ r.at = "500" /\ r.card = reqs[i].card /\ r.body = reqs[i].body
          /\ r.ran = reqs[i].ran /\ Followed(i, r, table)
      BY AtMoment DEF Moments
    <2> HIDE DEF r
    <2> QED BY <1>1, <1>2, <2>1, <2>2, ProgressKeeps
  <1>3. CASE table' = Append(table, Row(i)) /\ reqs' = [reqs EXCEPT ![i].at = "200", ![i].id = Len(table) + 1]
    <2> DEFINE r == [reqs[i] EXCEPT !.at = "200", !.id = Len(table) + 1]
    <2>1. reqs' = [reqs EXCEPT ![i] = r]
      BY <1>3
    <2> QED BY <1>1, <1>3, <2>1, StoredKeeps
  <1> QED BY <1>2, <1>3 DEF saveSimulation

\* The mutation settles, and its request is done.
LEMMA SettledKeeps ==
    ASSUME FormsInv, NEW i \in DOMAIN reqs, NEW m \in Mutation, Progress(i, "done"),
           mutation' = [mutation EXCEPT ![reqs[i].card] = m],
           m.status = "success" =>
             m.id \in 1..Len(table) /\ table[m.id].kind = reqs[i].card /\ table[m.id].req = m.req,
           UNCHANGED <<form, table, asked, stored, target, stopped, formsFaults>>
    PROVE  FormsInv'
  <1> DEFINE r == [reqs[i] EXCEPT !.at = "done"]
  <1>1. reqs' = [reqs EXCEPT ![i] = r]
    BY DEF Progress
  <1>2. /\ r \in FormRequest /\ r.at = "done" /\ r.card = reqs[i].card /\ r.body = reqs[i].body
        /\ r.ran = reqs[i].ran /\ Followed(i, r, table)
    BY AtMoment DEF Moments
  <1> HIDE DEF r
  <1>3. reqs[i].card \in Cards
    BY Known
  <1>4. mutation' \in [Cards -> Mutation] /\ stopped' \subseteq {"api", "db", "rpc"} /\ formsFaults' \in 0..MaxFormsFaults
    BY <1>3 DEF FormsInv, FormsTypes
  <1>5. ASSUME NEW c \in Cards, mutation'[c].status = "success"
        PROVE  mutation'[c].id \in 1..Len(table) /\ table[mutation'[c].id].kind = c /\ table[mutation'[c].id].req = mutation'[c].req
    <2>1. mutation'[c] = IF c = reqs[i].card THEN m ELSE mutation[c]
      BY <1>3 DEF FormsInv, FormsTypes
    <2>2. CASE c = reqs[i].card
      BY <1>5, <2>1, <2>2
    <2>3. CASE c # reqs[i].card
      BY <1>5, <2>1, <2>3 DEF FormsInv
    <2> QED BY <2>2, <2>3
  <1> QED BY <1>1, <1>2, <1>4, <1>5, MovedKeeps

LEMMA FailedMutation ==
    ASSUME FormsInv, NEW i \in DOMAIN reqs, MutationFails(i), Progress(i, "done"),
           UNCHANGED <<form, table, asked, stored, target, stopped, formsFaults>>
    PROVE  FormsInv'
  <1> DEFINE m == [mutation[reqs[i].card] EXCEPT !.status = "error"]
  <1>1. reqs[i].card \in Cards
    BY Known
  <1>2. m \in Mutation /\ m.status = "error"
    <2>1. mutation[reqs[i].card] \in Mutation
      BY <1>1 DEF FormsInv, FormsTypes
    <2> QED BY <2>1 DEF Mutation
  <1>3. mutation' = [mutation EXCEPT ![reqs[i].card] = m]
    BY DEF MutationFails
  <1> HIDE DEF m
  <1> QED BY <1>2, <1>3, SettledKeeps

LEMMA AnswerKeeps == ASSUME FormsInv, NEW i \in DOMAIN reqs, answer(i) \/ Unreachable(i) PROVE FormsInv'
  <1>1. UNCHANGED <<form, table, asked, stored, target, stopped, formsFaults>> /\ Progress(i, "done")
    BY DEF answer, Unreachable, lookup, env
  <1>2. CASE MutationFails(i)
    BY <1>1, <1>2, FailedMutation
  <1>3. CASE /\ reqs[i].at = "200" /\ Waiting(i)
             /\ mutation' = [mutation EXCEPT ![reqs[i].card] = [@ EXCEPT !.status = "success", !.id = reqs[i].id]]
    <2> DEFINE c == reqs[i].card
               m == [mutation[c] EXCEPT !.status = "success", !.id = reqs[i].id]
    <2>1. c \in Cards /\ reqs[i].id \in Nat /\ Followed(i, reqs[i], table)
      BY Known
    <2>2. mutation[c] \in Mutation /\ mutation[c].req = i
      BY <1>3, <2>1 DEF FormsInv, FormsTypes, Waiting
    <2>3. m \in Mutation /\ m.status = "success" /\ m.id = reqs[i].id /\ m.req = i
      BY <2>1, <2>2 DEF Mutation
    <2>4. reqs[i].id \in 1..Len(table) /\ table[reqs[i].id].req = i
      BY <1>3, <2>1 DEF Followed
    <2>5. table[reqs[i].id].kind = c
      BY <2>4 DEF FormsInv, Records
    <2>6. mutation' = [mutation EXCEPT ![c] = m]
      BY <1>3
    <2> HIDE DEF m
    <2> QED BY <1>1, <2>3, <2>4, <2>5, <2>6, SettledKeeps
  <1> QED BY <1>2, <1>3 DEF answer, Unreachable

LEMMA StopKeeps ==
    ASSUME FormsInv, NEW what \in {"api", "db", "rpc"}, ProcessStops(what)
    PROVE  FormsInv'
  <1> USE DEF FormsInv
  <1>1. /\ UNCHANGED <<form, table, asked, stored, target>> /\ formsFaults' \in 0..MaxFormsFaults
        /\ stopped' \subseteq {"api", "db", "rpc"}
    <2>1. /\ formsFaults < MaxFormsFaults /\ formsFaults' = formsFaults + 1 /\ stopped' = stopped \cup {what}
          /\ UNCHANGED <<form, table, asked, stored, target>>
      BY DEF ProcessStops, lookup
    <2> QED BY <2>1, SimFormsAssumption DEF FormsTypes
  <1>2. CASE UNCHANGED <<reqs, mutation>>
    <2>1. FormsTypes'
      BY <1>1, <1>2 DEF FormsTypes
    <2> QED BY <1>1, <1>2, <2>1, FormsKeepAside
  <1>3. CASE what = "api"
    <2>1. /\ reqs' = [i \in DOMAIN reqs |-> IF reqs[i].at # "done" THEN [reqs[i] EXCEPT !.at = "done"] ELSE reqs[i]]
          /\ mutation' = [c \in Cards |-> IF mutation[c].status = "pending" THEN [mutation[c] EXCEPT !.status = "error"] ELSE mutation[c]]
      BY <1>3 DEF ProcessStops
    <2>2. DOMAIN reqs = 1..Len(reqs) /\ Len(reqs) \in Nat
      BY LenProperties DEF FormsTypes
    <2>3. ASSUME NEW i \in 1..Len(reqs)
          PROVE  /\ reqs'[i] \in FormRequest /\ reqs'[i].at = "done" /\ reqs'[i].card = reqs[i].card /\ reqs'[i].body = reqs[i].body
                 /\ reqs'[i].ran = reqs[i].ran /\ Followed(i, reqs'[i], table)
      <3> DEFINE r == [reqs[i] EXCEPT !.at = "done"]
      <3>1. /\ r \in FormRequest /\ r.at = "done" /\ r.card = reqs[i].card /\ r.body = reqs[i].body
            /\ r.ran = reqs[i].ran /\ Followed(i, r, table)
        BY <2>2, AtMoment DEF Moments
      <3>2. reqs'[i] = r \/ (reqs'[i] = reqs[i] /\ reqs[i].at = "done")
        BY <2>1, <2>2
      <3>3. reqs[i] \in FormRequest /\ Followed(i, reqs[i], table)
        BY <2>2, Known
      <3> HIDE DEF r
      <3> QED BY <3>1, <3>2, <3>3
    <2>4. reqs' \in Seq(FormRequest) /\ Len(reqs') = Len(reqs)
      <3>1. reqs' \in [1..Len(reqs) -> FormRequest]
        BY <2>1, <2>2, <2>3
      <3> QED BY <2>2, <3>1
    <2>5. mutation' \in [Cards -> Mutation]
      <3> SUFFICES ASSUME NEW c \in Cards PROVE mutation'[c] \in Mutation
        BY <2>1
      <3>1. mutation[c] \in Mutation
        BY DEF FormsTypes
      <3>2. [mutation[c] EXCEPT !.status = "error"] \in Mutation
        BY <3>1 DEF Mutation
      <3> QED BY <2>1, <3>1, <3>2
    <2>6. ASSUME NEW c \in Cards, mutation'[c].status = "success" PROVE mutation'[c] = mutation[c]
      <3>1. CASE mutation[c].status = "pending"
        <4>1. [mutation[c] EXCEPT !.status = "error"].status = "error"
          BY DEF FormsTypes, Mutation
        <4> QED BY <2>1, <2>6, <3>1, <4>1
      <3> QED BY <2>1, <3>1
    <2>7. FormsTypes'
      BY <1>1, <2>4, <2>5 DEF FormsTypes
    <2>8. (\A j \in 1..Len(reqs) : Followed(j, reqs[j], table))'
      BY <1>1, <2>3, <2>4
    <2>9. (\A n \in 1..Len(table) : table[n].req \in 1..Len(reqs) /\ Records(table[n], reqs[table[n].req]))'
      <3> SUFFICES ASSUME NEW n \in 1..Len(table) PROVE table[n].req \in 1..Len(reqs) /\ Records(table[n], reqs'[table[n].req])
        BY <1>1, <2>4
      <3>1. table[n].req \in 1..Len(reqs) /\ Records(table[n], reqs[table[n].req])
        OBVIOUS
      <3> QED BY <2>3, <3>1 DEF Records, Overridden
    <2>10. (\A c \in Cards : mutation[c].status = "success" =>
         mutation[c].id \in 1..Len(table) /\ table[mutation[c].id].kind = c /\ table[mutation[c].id].req = mutation[c].req)'
      BY <1>1, <2>6
    <2>11. OneRowPerRun' /\ (\A id \in LookedUp : stored[id].status = "ok" => id \in 1..Len(table) /\ stored[id].row = <<table[id]>>)'
      BY <1>1 DEF OneRowPerRun
    <2> QED BY <2>7, <2>8, <2>9, <2>10, <2>11
  <1> QED BY <1>2, <1>3 DEF ProcessStops

LEMMA FormsKeep == FormsInv /\ [FormsNext]_formsVars => FormsInv'
  <1> SUFFICES ASSUME FormsInv, [FormsNext]_formsVars PROVE FormsInv'
    OBVIOUS
  <1>1. ASSUME NEW c \in Cards, Submit(c) PROVE FormsInv'
    BY <1>1, SubmitKeeps
  <1>2. ASSUME NEW i \in DOMAIN reqs, ServeRun(i) PROVE FormsInv'
    BY <1>2, SimulateKeeps, SaveKeeps, AnswerKeeps DEF ServeRun
  <1>3. ASSUME NEW what \in {"api", "db", "rpc"}, ProcessStops(what) PROVE FormsInv'
    BY <1>3, StopKeeps
  <1> QED BY <1>1, <1>2, <1>3, FormsAside DEF FormsNext

\* What the invariant says of the forms, the stored runs and the lookup.
LEMMA FormsAreTrue == FormsInv => FormsHold
  <1> SUFFICES ASSUME FormsInv PROVE FormsHold
    OBVIOUS
  <1> USE DEF FormsInv
  <1>1. DOMAIN reqs = 1..Len(reqs) /\ DOMAIN table = 1..Len(table) /\ Len(table) \in Nat
    BY LenProperties DEF FormsTypes
  <1>2. FormsTypeOK
    <2>1. \A c \in Cards : form[c] \in Typed[c] /\ mutation[c].status \in {"idle", "pending", "success", "error"}
      BY DEF FormsTypes, Mutation
    <2>2. ASSUME NEW i \in DOMAIN reqs
          PROVE  reqs[i].at \in {"sent", "run", "200", "400", "500", "done"} /\ reqs[i].id \in 0..Len(table)
      <3>1. reqs[i] \in FormRequest /\ reqs[i].id \in Nat /\ reqs[i].id <= Len(table)
        BY Known DEF Followed
      <3>2. reqs[i].at \in {"sent", "run", "200", "400", "500", "done"}
        BY <3>1 DEF FormRequest, Moments
      <3> QED BY <1>1, <3>1, <3>2
    <2>3. \A id \in LookedUp : stored[id].status \in {"none", "fetching", "ok", "unreachable", "failed", "missing"}
      BY DEF FormsTypes, Loaded
    <2>4. asked \in 0..MaxRuns /\ stopped \subseteq {"api", "db", "rpc"} /\ formsFaults \in 0..MaxFormsFaults
      BY SimFormsAssumption DEF FormsTypes
    <2> QED BY <2>1, <2>2, <2>3, <2>4 DEF FormsTypeOK
  <1>3. SavedIsShown
    <2> SUFFICES ASSUME NEW c \in Cards, mutation[c].status = "success"
                 PROVE  /\ mutation[c].id \in DOMAIN table /\ table[mutation[c].id].kind = c
                        /\ table[mutation[c].id].req = mutation[c].req
                        /\ table[mutation[c].id].result = reqs[mutation[c].req].ran
      BY DEF SavedIsShown
    <2>1. mutation[c].id \in 1..Len(table) /\ table[mutation[c].id].kind = c /\ table[mutation[c].id].req = mutation[c].req
      OBVIOUS
    <2>2. table[mutation[c].id].result = reqs[table[mutation[c].id].req].ran
      BY <2>1 DEF Records
    <2> QED BY <1>1, <2>1, <2>2
  <1>4. OneRowPerRun
    OBVIOUS
  <1>5. AcceptedIsRunnable
    BY <1>1 DEF AcceptedIsRunnable, Followed
  <1>6. OverrideIsRun
    BY <1>1 DEF OverrideIsRun, Records, Overridden
  <1>7. LookupIsStored
    BY <1>1 DEF LookupIsStored, FormsTypes
  <1> QED BY <1>2, <1>3, <1>4, <1>5, <1>6, <1>7 DEF FormsHold

-----------------------------------------------------------------------------
(* The vault page *)

PageKinds == {"faucet", "approve", "deposit", "withdraw", "redeem", "unwind"}
Chain == [usdc : [Users -> Nat], allowance : [Users -> Nat], shares : [Users -> Nat],
          price : Prices, limit : Caps, liquid : Caps]
Sequence == [at : Stages, user : Users, amount : Amounts, steps : Seq(PageKinds), step : Nat,
             from : Users \cup {Nobody}, min : Nat, tx : Nat, lowest : Prices, mine : BOOLEAN]
Call == [kind : PageKinds, amount : Amounts, user : Users, from : Users, min : Nat]
Transaction == [run : Nat, step : Nat, call : Call, status : {"pending", "success", "reverted"}]
Panel == [run : Nat, steps : Seq({"queued", "signing", "confirming", "done", "error"}),
          error : BOOLEAN, running : BOOLEAN]

Bound(amount, price) == (amount * price * Kept) \div 100
LandedIn(ts, k, step) == \E t \in 1..Len(ts) : ts[t].run = k /\ ts[t].step = step /\ ts[t].status = "success"
Ended(r) == r.at \in {"failed", "complete"}

\* Sequence k, as far as it has come, at the present price.
Follows(k, r, ts, price) ==
    /\ r.step \in 1..Len(r.steps) /\ r.lowest <= price
    /\ \A s \in 1..(r.step - 1) : LandedIn(ts, k, s)
    /\ r.at \in {"simulate", "sign"} /\ r.steps[r.step] = "unwind" => r.min >= Bound(r.amount, r.lowest)
    /\ r.at = "sign" => r.from \in Users
    /\ r.at = "receipt" => r.tx \in 1..Len(ts) /\ ts[r.tx].run = k /\ ts[r.tx].step = r.step
    /\ r.at \in {"refetch", "complete"} => LandedIn(ts, k, r.step)
    /\ r.at = "complete" => r.step = Len(r.steps)

\* A transaction and the sequence it is of.
Sent(x, rs, ts) ==
    /\ x.run \in 1..Len(rs) /\ \A s \in 1..(x.step - 1) : LandedIn(ts, x.run, s)
    /\ x.call.kind = "unwind" => x.call.min >= Bound(x.call.amount, rs[x.run].lowest)

\* The panel is that of the page's own sequence, which keeps the page busy.
Tells(p, rs, b) ==
    /\ p.run \in 0..Len(rs) /\ (p.run = 0 => p = IDLE)
    /\ p.run # 0 => /\ DOMAIN p.steps = DOMAIN rs[p.run].steps /\ rs[p.run].mine = TRUE
                    /\ (p.running = TRUE <=> ~Ended(rs[p.run])) /\ (p.error = TRUE <=> rs[p.run].at = "failed")
    /\ b = p.running
    /\ \A k \in 1..Len(rs) : rs[k].mine = TRUE /\ ~Ended(rs[k]) => p.run = k

PageTypes ==
    /\ chain \in Chain /\ wallet \in Users \cup {Nobody} /\ busy \in BOOLEAN /\ shown \in BOOLEAN
    /\ runs \in Seq(Sequence) /\ txs \in Seq(Transaction) /\ panel \in Panel
PageInv ==
    /\ PageTypes
    /\ \A k \in 1..Len(runs) : Follows(k, runs[k], txs, chain.price)
    /\ \A t \in 1..Len(txs) : Sent(txs[t], runs, txs)
    /\ Tells(panel, runs, busy)

LEMMA MinOfTwo ==
    ASSUME NEW a \in Int, NEW b \in Int
    PROVE  Min({a, b}) \in {a, b} /\ Min({a, b}) <= a /\ Min({a, b}) <= b
  <1>1. CASE a <= b
    <2>1. \A y \in {a, b} : a <= y
      BY <1>1
    <2> QED BY <2>1 DEF Min
  <1>2. CASE b <= a
    <2>1. \A y \in {a, b} : b <= y
      BY <1>2
    <2> QED BY <2>1 DEF Min
  <1> QED BY <1>1, <1>2

LEMMA LeastOfTwo ==
    ASSUME NEW a \in Nat, NEW b \in Nat
    PROVE  Min({a, b}) \in Nat /\ Min({a, b}) <= a /\ Min({a, b}) <= b
  <1>1. a \in Int /\ b \in Int
    OBVIOUS
  <1>2. Min({a, b}) \in {a, b} /\ Min({a, b}) <= a /\ Min({a, b}) <= b
    BY <1>1, MinOfTwo
  <1> HIDE DEF Min
  <1> QED BY <1>2

LEMMA LessTheSmaller == ASSUME NEW a \in Nat, NEW b \in Nat PROVE a - Min({a, b}) \in Nat
  <1> DEFINE z == Min({a, b})
  <1>1. z \in Nat /\ z <= a
    BY LeastOfTwo
  <1> HIDE DEF z
  <1>2. a - z \in Nat
    BY <1>1
  <1> QED BY <1>2 DEF z

LEMMA Product == ASSUME NEW a \in Nat, NEW b \in Nat PROVE a * b \in Nat
  OBVIOUS

LEMMA ProductGrows ==
    ASSUME NEW a \in Nat, NEW b \in Nat, NEW c \in Nat, a <= b
    PROVE  a * c <= b * c /\ c * a <= c * b
  OBVIOUS

\* A lower price gives a lower bound.
LEMMA BoundGrows ==
    ASSUME NEW amount \in Amounts, NEW p \in Prices, NEW q \in Prices, p <= q
    PROVE  Bound(amount, p) \in Nat /\ Bound(amount, q) \in Nat /\ Bound(amount, p) <= Bound(amount, q)
  <1>1. amount \in Nat /\ p \in Nat /\ q \in Nat /\ Kept \in Nat
    BY PageAssumption
  <1>2. amount * p \in Nat /\ amount * q \in Nat /\ amount * p <= amount * q
    BY <1>1, Product, ProductGrows
  <1> DEFINE x == amount * p * Kept
             y == amount * q * Kept
  <1>3. x \in Nat /\ y \in Nat /\ x <= y
    BY <1>1, <1>2, Product, ProductGrows
  <1> HIDE DEF x, y
  <1>4. x \div 100 \in Nat /\ y \div 100 \in Nat /\ x \div 100 <= y \div 100
    BY <1>3
  <1> QED BY <1>4 DEF Bound, x, y

LEMMA Quotient == ASSUME NEW a \in Nat, NEW b \in Nat \ {0} PROVE a \div b \in Nat
  OBVIOUS

LEMMA PageStarts == PageInit => PageInv
  <1> SUFFICES ASSUME PageInit PROVE PageInv
    OBVIOUS
  <1> USE PageAssumption DEF PageInit
  <1>1. chain \in Chain
    BY DEF Chain
  <1>2. IDLE \in Panel /\ IDLE.run = 0 /\ IDLE.running = FALSE
    BY DEF IDLE, Panel
  <1>3. runs \in Seq(Sequence) /\ txs \in Seq(Transaction) /\ Len(runs) = 0 /\ Len(txs) = 0
    OBVIOUS
  <1>4. PageTypes
    BY <1>1, <1>2, <1>3 DEF PageTypes
  <1>5. Tells(panel, runs, busy)
    <2>1. panel.run = 0 /\ panel = IDLE /\ 0 \in 0..Len(runs)
      BY <1>2, <1>3
    <2>2. busy = FALSE /\ panel.running = FALSE
      BY <1>2
    <2>3. busy = panel.running
      BY <2>2, Zenon
    <2> QED BY <1>3, <2>1, <2>3 DEF Tells
  <1> QED BY <1>3, <1>4, <1>5 DEF PageInv

\* What an accepted call leaves on the chain: no balance falls below zero.
LEMMA CallsKeepChain ==
    ASSUME NEW given \in Chain, NEW call \in Call, ~Reverts(given, call),
           NEW pay \in Payouts(given, call), pay >= call.min
    PROVE  Applied(given, call, pay) \in Chain /\ Applied(given, call, pay).price = given.price
  <1>1. /\ call.kind \in PageKinds /\ call.amount \in Nat /\ call.user \in Users /\ call.from \in Users /\ call.min \in Nat
    BY PageAssumption DEF Call
  <1>2. /\ given.usdc \in [Users -> Nat] /\ given.allowance \in [Users -> Nat] /\ given.shares \in [Users -> Nat]
        /\ given.price \in Nat \ {0} /\ given.liquid \in Nat /\ given.price \in Prices
        /\ given.limit \in Caps /\ given.liquid \in Caps
        /\ given = [usdc |-> given.usdc, allowance |-> given.allowance, shares |-> given.shares,
                    price |-> given.price, limit |-> given.limit, liquid |-> given.liquid]
    BY PageAssumption DEF Chain
  <1>9. \A u \in Users : given.usdc[u] \in Nat /\ given.allowance[u] \in Nat /\ given.shares[u] \in Nat
    BY <1>2
  <1>3. pay \in Nat
    <2>1. call.amount * given.price \in Nat
      BY <1>1, <1>2, Product
    <2> QED BY <1>1, <2>1 DEF Payouts, PageKinds
  <1>4. CASE call.kind = "faucet"
    <2>1. Applied(given, call, pay) = [given EXCEPT !.usdc[call.from] = @ + call.amount]
      BY <1>4 DEF Applied
    <2>2. given.usdc[call.from] + call.amount \in Nat
      BY <1>1, <1>2
    <2> QED BY <1>1, <2>1, <2>2 DEF Chain
  <1>5. CASE call.kind = "approve"
    <2>1. Applied(given, call, pay) = [given EXCEPT !.allowance[call.from] = call.amount]
      BY <1>5 DEF Applied
    <2> QED BY <1>1, <2>1 DEF Chain
  <1>6. CASE call.kind = "deposit"
    <2>1. call.amount <= Min({given.usdc[call.from], given.allowance[call.from]})
      <3> DEFINE a == given.usdc[call.from]
                 b == given.allowance[call.from]
      <3>1. a \in Nat /\ b \in Nat
        BY <1>1, <1>9
      <3>2. Min({a, b}) \in Nat
        <4> HIDE DEF a, b
        <4> QED BY <3>1, LeastOfTwo
      <3>3. ~(call.amount > Min({a, b}))
        BY <1>6 DEF Reverts
      <3> HIDE DEF a, b
      <3>4. call.amount <= Min({a, b})
        BY <1>1, <3>2, <3>3
      <3> QED BY <3>4 DEF a, b
    <2>2. given.usdc[call.from] - call.amount \in Nat /\ given.allowance[call.from] - call.amount \in Nat
      <3> DEFINE a == given.usdc[call.from]
                 b == given.allowance[call.from]
      <3>1. a \in Nat /\ b \in Nat /\ call.amount <= Min({a, b})
        BY <1>1, <1>9, <2>1
      <3> HIDE DEF a, b
      <3>2. Min({a, b}) \in Nat /\ Min({a, b}) <= a /\ Min({a, b}) <= b
        BY <3>1, LeastOfTwo
      <3>3. a - call.amount \in Nat /\ b - call.amount \in Nat
        BY <1>1, <3>1, <3>2
      <3> QED BY <3>3 DEF a, b
    <2>3. given.shares[call.user] + call.amount \div given.price \in Nat
      BY <1>1, <1>2, <1>9, Quotient
    <2>4. Applied(given, call, pay) = [given EXCEPT !.usdc[call.from] = @ - call.amount,
                                                    !.allowance[call.from] = @ - call.amount,
                                                    !.shares[call.user] = @ + call.amount \div given.price]
      BY <1>6 DEF Applied
    <2> DEFINE u == given.usdc[call.from] - call.amount
               a == given.allowance[call.from] - call.amount
               z == given.shares[call.user] + call.amount \div given.price
    <2>5. Applied(given, call, pay) = [given EXCEPT !.usdc[call.from] = u, !.allowance[call.from] = a, !.shares[call.user] = z]
      BY <2>4
    <2> HIDE DEF u, a, z
    <2>6. Applied(given, call, pay) = [usdc |-> [given.usdc EXCEPT ![call.from] = u], allowance |-> [given.allowance EXCEPT ![call.from] = a],
                                       shares |-> [given.shares EXCEPT ![call.user] = z],
                                       price |-> given.price, limit |-> given.limit, liquid |-> given.liquid]
      BY <1>2, <2>5
    <2>7. u \in Nat /\ a \in Nat /\ z \in Nat
      BY <2>2, <2>3 DEF u, a, z
    <2> QED BY <1>1, <1>2, <2>6, <2>7 DEF Chain
  <1>7. CASE call.kind = "withdraw"
    <2> DEFINE q == (pay + given.price - 1) \div given.price
               taken == Min({given.shares[call.user], q})
    <2>1. q \in Nat
      BY <1>2, <1>3, Quotient
    <2>2. given.shares[call.user] - taken \in Nat
      <3> DEFINE a == given.shares[call.user]
      <3>1. a \in Nat
        BY <1>1, <1>9
      <3> HIDE DEF q, a, taken
      <3>2. a - Min({a, q}) \in Nat
        BY <2>1, <3>1, LessTheSmaller
      <3> QED BY <3>2 DEF a, taken
    <2>3. Applied(given, call, pay) = [given EXCEPT !.usdc[call.user] = @ + pay, !.shares[call.user] = @ - taken]
      BY <1>7 DEF Applied
    <2> HIDE DEF q, taken
    <2>4. given.usdc[call.user] + pay \in Nat
      BY <1>1, <1>2, <1>3
    <2> DEFINE x == given.usdc[call.user] + pay
               y == given.shares[call.user] - taken
    <2>5. x \in Nat /\ y \in Nat /\ Applied(given, call, pay) = [given EXCEPT !.usdc[call.user] = x, !.shares[call.user] = y]
      BY <2>2, <2>3, <2>4
    <2> HIDE DEF x, y
    <2>6. Applied(given, call, pay) = [usdc |-> [given.usdc EXCEPT ![call.user] = x], allowance |-> given.allowance,
                                       shares |-> [given.shares EXCEPT ![call.user] = y],
                                       price |-> given.price, limit |-> given.limit, liquid |-> given.liquid]
      BY <1>2, <2>5
    <2>7. x \in Nat /\ y \in Nat
      BY <2>5
    <2> QED BY <1>1, <1>2, <2>6, <2>7 DEF Chain
  <1>8. CASE call.kind \in {"redeem", "unwind"}
    <2>1. call.amount <= given.shares[call.user]
      <3> DEFINE a == given.shares[call.user]
                 b == given.liquid \div given.price
      <3>1. a \in Nat /\ b \in Nat
        BY <1>1, <1>2, <1>9, Quotient
      <3>2. Min({a, b}) \in Nat /\ Min({a, b}) <= a
        <4> HIDE DEF a, b
        <4>1. a \in Int /\ b \in Int
          BY <3>1
        <4>2. Min({a, b}) \in {a, b} /\ Min({a, b}) <= a
          BY <4>1, MinOfTwo
        <4> QED BY <3>1, <4>2
      <3>3. maxRedeem(given, call.user) = Min({a, b})
        BY DEF maxRedeem
      <3>4. ~(call.amount > a) \/ ~(call.amount > maxRedeem(given, call.user))
        BY <1>8 DEF Reverts
      <3> HIDE DEF a, b
      <3>5. call.amount <= a
        BY <1>1, <3>1, <3>2, <3>3, <3>4
      <3> QED BY <3>5 DEF a
    <2>2. given.shares[call.user] - call.amount \in Nat /\ given.usdc[call.user] + pay \in Nat
      BY <1>1, <1>2, <1>3, <2>1
    <2>3. Applied(given, call, pay) = [given EXCEPT !.usdc[call.user] = @ + pay, !.shares[call.user] = @ - call.amount]
      BY <1>8 DEF Applied
    <2> DEFINE x == given.usdc[call.user] + pay
               y == given.shares[call.user] - call.amount
    <2>4. x \in Nat /\ y \in Nat /\ Applied(given, call, pay) = [given EXCEPT !.usdc[call.user] = x, !.shares[call.user] = y]
      BY <2>2, <2>3
    <2> HIDE DEF x, y
    <2>6. Applied(given, call, pay) = [usdc |-> [given.usdc EXCEPT ![call.user] = x], allowance |-> given.allowance,
                                       shares |-> [given.shares EXCEPT ![call.user] = y],
                                       price |-> given.price, limit |-> given.limit, liquid |-> given.liquid]
      BY <1>2, <2>4
    <2>7. x \in Nat /\ y \in Nat
      BY <2>4
    <2> QED BY <1>1, <1>2, <2>6, <2>7 DEF Chain
  <1> QED BY <1>1, <1>4, <1>5, <1>6, <1>7, <1>8 DEF PageKinds

\* Transactions are added and mined; what they are of stays, and a success, too.
Grows(ts, us) ==
    /\ Len(ts) <= Len(us)
    /\ \A t \in 1..Len(ts) : /\ us[t].run = ts[t].run /\ us[t].step = ts[t].step /\ us[t].call = ts[t].call
                             /\ ts[t].status = "success" => us[t].status = "success"

LEMMA LandedStays ==
    ASSUME NEW ts \in Seq(Transaction), NEW us \in Seq(Transaction), Grows(ts, us),
           NEW k, NEW step, LandedIn(ts, k, step)
    PROVE  LandedIn(us, k, step)
  <1>1. PICK t \in 1..Len(ts) : ts[t].run = k /\ ts[t].step = step /\ ts[t].status = "success"
    BY DEF LandedIn
  <1>2. Len(ts) \in Nat /\ Len(us) \in Nat /\ Len(ts) <= Len(us)
    BY LenProperties DEF Grows
  <1>3. t \in 1..Len(us) /\ us[t].run = k /\ us[t].step = step /\ us[t].status = "success"
    BY <1>1, <1>2 DEF Grows
  <1> QED BY <1>3 DEF LandedIn

LEMMA FollowsOn ==
    ASSUME NEW ts \in Seq(Transaction), NEW us \in Seq(Transaction), Grows(ts, us),
           NEW k, NEW r \in Sequence, NEW p, NEW q, Follows(k, r, ts, p), r.lowest <= q
    PROVE  Follows(k, r, us, q)
  <1>1. Len(ts) \in Nat /\ Len(us) \in Nat /\ Len(ts) <= Len(us)
    BY LenProperties DEF Grows
  <1>2. \A s \in 1..(r.step - 1) : LandedIn(us, k, s)
    BY LandedStays DEF Follows
  <1>3. r.at \in {"refetch", "complete"} => LandedIn(us, k, r.step)
    BY LandedStays DEF Follows
  <1>4. r.at = "receipt" => r.tx \in 1..Len(us) /\ us[r.tx].run = k /\ us[r.tx].step = r.step
    BY <1>1 DEF Follows, Grows
  <1> QED BY <1>2, <1>3, <1>4 DEF Follows

\* A transaction stays what it was for when sequences are added or their prices fall.
LEMMA SentOn ==
    ASSUME PageTypes, txs' \in Seq(Transaction), Grows(txs, txs'),
           runs' \in Seq(Sequence), Len(runs) <= Len(runs'),
           \A k \in 1..Len(runs) : runs'[k].lowest <= runs[k].lowest,
           NEW x \in Transaction, NEW y \in Transaction,
           y.run = x.run, y.step = x.step, y.call = x.call, Sent(x, runs, txs)
    PROVE  Sent(y, runs', txs')
  <1>1. Len(runs) \in Nat /\ Len(runs') \in Nat
    BY LenProperties DEF PageTypes
  <1>2. x.run \in 1..Len(runs) /\ x.run \in 1..Len(runs')
    BY <1>1 DEF Sent
  <1>3. \A s \in 1..(x.step - 1) : LandedIn(txs', x.run, s)
    BY LandedStays DEF Sent, PageTypes
  <1>4. ASSUME x.call.kind = "unwind" PROVE x.call.min >= Bound(x.call.amount, runs'[x.run].lowest)
    <2> DEFINE p == runs'[x.run].lowest
               q == runs[x.run].lowest
    <2>1. x.call.amount \in Amounts /\ x.call.min \in Nat /\ x.call.min >= Bound(x.call.amount, q)
      BY <1>4 DEF Sent, Transaction, Call
    <2>2. p <= q
      BY <1>2
    <2>3. p \in Prices /\ q \in Prices
      <3>1. runs'[x.run] \in Sequence /\ runs[x.run] \in Sequence
        BY <1>2, ElementOfSeq DEF PageTypes
      <3> QED BY <3>1 DEF Sequence
    <2> HIDE DEF p, q
    <2>4. x.call.min >= Bound(x.call.amount, p)
      <3> DEFINE a == Bound(x.call.amount, p)
                 b == Bound(x.call.amount, q)
      <3>1. a \in Nat /\ b \in Nat /\ a <= b
        BY <2>1, <2>2, <2>3, BoundGrows
      <3> HIDE DEF a, b
      <3> QED BY <2>1, <3>1 DEF a, b
    <2> QED BY <2>4 DEF p
  <1> QED BY <1>2, <1>3, <1>4 DEF Sent

LEMMA GrowsNot == ASSUME NEW ts \in Seq(Transaction) PROVE Grows(ts, ts)
  BY LenProperties DEF Grows

\* One sequence moves, and perhaps sends.
LEMMA SequenceMoves ==
    ASSUME PageInv, NEW k \in 1..Len(runs), NEW r \in Sequence, runs' = [runs EXCEPT ![k] = r],
           r.lowest = runs[k].lowest, Follows(k, r, txs', chain.price),
           txs' \in Seq(Transaction), Grows(txs, txs'),
           \A t \in 1..Len(txs') : t > Len(txs) => Sent(txs'[t], runs, txs),
           UNCHANGED <<chain, wallet, shown>>, panel' \in Panel, busy' \in BOOLEAN, Tells(panel', runs', busy')
    PROVE  PageInv'
  <1> USE DEF PageInv
  <1>1. Len(runs) \in Nat /\ Len(txs) \in Nat /\ Len(txs') \in Nat /\ DOMAIN runs = 1..Len(runs)
    BY LenProperties DEF PageTypes
  <1>2. /\ runs' \in Seq(Sequence) /\ Len(runs') = Len(runs) /\ runs'[k] = r
        /\ \A j \in 1..Len(runs) : j # k => runs'[j] = runs[j]
    BY <1>1, ExceptSeq DEF PageTypes
  <1>3. PageTypes'
    BY <1>2 DEF PageTypes
  <1>4. ASSUME NEW j \in 1..Len(runs) PROVE Follows(j, runs'[j], txs', chain.price)
    <2>1. CASE j = k
      BY <1>2, <2>1
    <2>2. CASE j # k
      <3>1. runs[j] \in Sequence /\ Follows(j, runs[j], txs, chain.price) /\ runs'[j] = runs[j]
        BY <1>2, <2>2, ElementOfSeq DEF PageTypes
      <3>2. runs[j].lowest <= chain.price
        BY <3>1 DEF Follows
      <3>3. Follows(j, runs[j], txs', chain.price)
        BY <3>1, <3>2, FollowsOn DEF PageTypes
      <3> QED BY <3>1, <3>3
    <2> QED BY <2>1, <2>2
  <1>5. ASSUME NEW t \in 1..Len(txs') PROVE Sent(txs'[t], runs', txs')
    <2>1. \A j \in 1..Len(runs) : runs'[j].lowest <= runs[j].lowest
      <3> SUFFICES ASSUME NEW j \in 1..Len(runs) PROVE runs'[j].lowest <= runs[j].lowest
        OBVIOUS
      <3>1. runs[j] \in Sequence /\ runs'[j].lowest = runs[j].lowest
        BY <1>2, ElementOfSeq DEF PageTypes
      <3>2. runs[j].lowest \in Nat
        BY <3>1, PageAssumption DEF Sequence
      <3> QED BY <3>1, <3>2
    <2>2. txs'[t] \in Transaction
      BY ElementOfSeq
    <2>5. PageTypes /\ runs' \in Seq(Sequence) /\ Len(runs) <= Len(runs')
      BY <1>1, <1>2
    <2>6. ASSUME NEW x \in Transaction, txs'[t].run = x.run, txs'[t].step = x.step, txs'[t].call = x.call, Sent(x, runs, txs)
          PROVE  Sent(txs'[t], runs', txs')
      <3> HIDE DEF PageInv
      <3> QED BY <2>1, <2>2, <2>5, <2>6, SentOn
    <2>3. CASE t > Len(txs)
      BY <2>2, <2>3, <2>6
    <2>4. CASE ~(t > Len(txs))
      <3>1. t \in 1..Len(txs)
        BY <1>1, <2>4
      <3>2. txs[t] \in Transaction /\ Sent(txs[t], runs, txs)
        BY <3>1, ElementOfSeq DEF PageTypes
      <3>3. txs'[t].run = txs[t].run /\ txs'[t].step = txs[t].step /\ txs'[t].call = txs[t].call
        BY <3>1 DEF Grows
      <3> QED BY <2>6, <3>2, <3>3
    <2> QED BY <2>3, <2>4
  <1>6. (\A j \in 1..Len(runs) : Follows(j, runs[j], txs, chain.price))'
    BY <1>2, <1>4
  <1>7. (\A t \in 1..Len(txs) : Sent(txs[t], runs, txs))'
    BY <1>5
  <1> QED BY <1>3, <1>6, <1>7

LEMMA KnownRun ==
    ASSUME PageInv, NEW k \in DOMAIN runs
    PROVE  /\ k \in 1..Len(runs) /\ runs[k] \in Sequence /\ Follows(k, runs[k], txs, chain.price)
           /\ runs[k].mine \in BOOLEAN /\ runs[k].lowest \in Prices /\ runs[k].steps \in Seq(PageKinds)
           /\ runs[k].amount \in Amounts /\ runs[k].step \in Nat /\ runs[k].user \in Users /\ runs[k].min \in Nat
           /\ chain \in Chain /\ chain.price \in Prices
  <1>1. k \in 1..Len(runs)
    BY LenProperties DEF PageInv, PageTypes
  <1>2. runs[k] \in Sequence
    BY <1>1, ElementOfSeq DEF PageInv, PageTypes
  <1>3. chain \in Chain /\ chain.price \in Prices
    BY DEF PageInv, PageTypes, Chain
  <1> QED BY <1>1, <1>2, <1>3 DEF PageInv, Sequence

Patches == {"queued", "signing", "confirming", "done", "error"}

\* The step of the page's own sequence is patched.
LEMMA PatchedPanel ==
    ASSUME PageInv, NEW k \in DOMAIN runs, ~Ended(runs[k]), NEW face \in Patches
    PROVE  /\ Patched(k, face) \in Panel /\ Patched(k, face).run = panel.run
           /\ Patched(k, face).running = panel.running /\ Patched(k, face).error = panel.error
           /\ DOMAIN Patched(k, face).steps = DOMAIN panel.steps
           /\ (runs[k].mine = TRUE <=> panel.run = k)
  <1>1. runs[k].mine = TRUE <=> panel.run = k
    BY KnownRun DEF PageInv, Tells
  <1>2. panel \in Panel
    BY DEF PageInv, PageTypes
  <1>3. CASE runs[k].mine = TRUE
    <2> DEFINE p == [panel EXCEPT !.steps[runs[k].step] = face]
               s == [panel.steps EXCEPT ![runs[k].step] = face]
    <2>1. Patched(k, face) = [panel EXCEPT !.steps = s]
      BY <1>2, <1>3 DEF Patched
    <2>2. panel.steps \in Seq(Patches) /\ panel = [run |-> panel.run, steps |-> panel.steps, error |-> panel.error, running |-> panel.running]
          /\ panel.run \in Nat /\ panel.error \in BOOLEAN /\ panel.running \in BOOLEAN
      BY <1>2 DEF Panel, Patches
    <2>3. s \in Seq(Patches) /\ DOMAIN s = DOMAIN panel.steps
      <3>1. runs[k].step \in 1..Len(runs[k].steps) /\ DOMAIN runs[k].steps = 1..Len(runs[k].steps)
        BY KnownRun, LenProperties DEF Follows
      <3>2. panel.run = k /\ k # 0
        BY <1>1, <1>3, KnownRun
      <3>3. DOMAIN panel.steps = DOMAIN runs[k].steps
        BY <3>2 DEF PageInv, Tells
      <3> HIDE DEF s
      <3>4. runs[k].step \in 1..Len(panel.steps)
        BY <2>2, <3>1, <3>3, LenProperties
      <3> QED BY <2>2, <3>4, ExceptSeq, LenProperties DEF s
    <2> HIDE DEF s
    <2>4. Patched(k, face) = [run |-> panel.run, steps |-> s, error |-> panel.error, running |-> panel.running]
      BY <2>1, <2>2
    <2>5. Patched(k, face) \in Panel
      BY <2>2, <2>3, <2>4 DEF Panel, Patches
    <2> QED BY <1>1, <2>3, <2>4, <2>5
  <1>4. CASE runs[k].mine # TRUE
    <2>1. runs[k].mine = FALSE
      BY <1>4, KnownRun
    <2>2. Patched(k, face) = panel
      BY <2>1 DEF Patched
    <2> QED BY <1>1, <1>2, <2>2
  <1> QED BY <1>3, <1>4

LEMMA TellsOn ==
    ASSUME PageInv, NEW k \in DOMAIN runs, NEW r \in Sequence, runs' = [runs EXCEPT ![k] = r],
           r.steps = runs[k].steps, r.mine = runs[k].mine, ~Ended(runs[k]), ~Ended(r), UNCHANGED busy,
           panel' = panel \/ \E face \in Patches : panel' = Patched(k, face)
    PROVE  panel' \in Panel /\ busy' \in BOOLEAN /\ Tells(panel', runs', busy')
  <1>1. /\ panel' \in Panel /\ panel'.run = panel.run /\ panel'.running = panel.running /\ panel'.error = panel.error
        /\ DOMAIN panel'.steps = DOMAIN panel.steps /\ (runs[k].mine = TRUE <=> panel.run = k)
    <2>1. CASE panel' = panel
      BY <2>1, KnownRun DEF PageInv, PageTypes, Tells
    <2>2. ASSUME NEW face \in Patches, panel' = Patched(k, face)
          PROVE  /\ panel' \in Panel /\ panel'.run = panel.run /\ panel'.running = panel.running /\ panel'.error = panel.error
                 /\ DOMAIN panel'.steps = DOMAIN panel.steps /\ (runs[k].mine = TRUE <=> panel.run = k)
      BY <2>2, PatchedPanel
    <2> QED BY <2>1, <2>2
  <1>2. k \in 1..Len(runs) /\ Len(runs') = Len(runs) /\ runs'[k] = r /\ \A j \in 1..Len(runs) : j # k => runs'[j] = runs[j]
    BY KnownRun, ExceptSeq DEF PageInv, PageTypes
  <1>3. panel.run = 0 => panel' = panel
    <2> SUFFICES ASSUME panel.run = 0 PROVE panel' = panel
      OBVIOUS
    <2>1. runs[k].mine = FALSE
      BY <1>1, <1>2, KnownRun
    <2>2. \A face \in Patches : Patched(k, face) = panel
      BY <2>1 DEF Patched
    <2> QED BY <2>2
  <1>4. Tells(panel, runs, busy) /\ busy \in BOOLEAN
    BY DEF PageInv, PageTypes
  <1>5. panel'.run \in 0..Len(runs') /\ (panel'.run = 0 => panel' = IDLE)
    BY <1>1, <1>2, <1>3, <1>4 DEF Tells
  <1>6. ASSUME panel'.run # 0
        PROVE  /\ DOMAIN panel'.steps = DOMAIN runs'[panel'.run].steps /\ runs'[panel'.run].mine = TRUE
               /\ (panel'.running = TRUE <=> ~Ended(runs'[panel'.run])) /\ (panel'.error = TRUE <=> runs'[panel'.run].at = "failed")
    <2>1. /\ panel.run \in 1..Len(runs) /\ DOMAIN panel.steps = DOMAIN runs[panel.run].steps /\ runs[panel.run].mine = TRUE
          /\ (panel.running = TRUE <=> ~Ended(runs[panel.run])) /\ (panel.error = TRUE <=> runs[panel.run].at = "failed")
      BY <1>1, <1>2, <1>4, <1>6 DEF Tells
    <2>2. CASE panel.run = k
      BY <1>1, <1>2, <2>1, <2>2 DEF Ended
    <2>3. CASE panel.run # k
      BY <1>1, <1>2, <2>1, <2>3
    <2> QED BY <2>2, <2>3
  <1>7. ASSUME NEW j \in 1..Len(runs'), runs'[j].mine = TRUE, ~Ended(runs'[j]) PROVE panel'.run = j
    <2>1. CASE j = k
      BY <1>1, <1>2, <1>7, <2>1
    <2>2. CASE j # k
      BY <1>1, <1>2, <1>4, <1>7, <2>2 DEF Tells
    <2> QED BY <2>1, <2>2
  <1>8. busy' = panel'.running
    <2>1. busy = panel.running /\ busy' = busy /\ panel'.running = panel.running
      BY <1>1, <1>4 DEF Tells
    <2> QED BY <2>1
  <1> QED BY <1>1, <1>4, <1>5, <1>6, <1>7, <1>8 DEF Tells

\* The page's own sequence ends, or that of a page left.
LEMMA TellsEnd ==
    ASSUME PageInv, NEW k \in DOMAIN runs, NEW r \in Sequence, runs' = [runs EXCEPT ![k] = r],
           r.steps = runs[k].steps, r.mine = runs[k].mine, ~Ended(runs[k]), Ended(r),
           busy' = (busy /\ ~runs[k].mine), NEW p \in Panel,
           panel' = IF runs[k].mine THEN p ELSE panel,
           p.run = panel.run, p.running = FALSE, DOMAIN p.steps = DOMAIN panel.steps,
           p.error = TRUE <=> r.at = "failed"
    PROVE  panel' \in Panel /\ busy' \in BOOLEAN /\ Tells(panel', runs', busy')
  <1>1. runs[k].mine = TRUE <=> panel.run = k
    BY KnownRun DEF PageInv, Tells
  <1>2. k \in 1..Len(runs) /\ Len(runs') = Len(runs) /\ runs'[k] = r /\ \A j \in 1..Len(runs) : j # k => runs'[j] = runs[j]
    BY KnownRun, ExceptSeq DEF PageInv, PageTypes
  <1>3. Tells(panel, runs, busy) /\ busy \in BOOLEAN /\ panel \in Panel
    BY DEF PageInv, PageTypes
  <1>4. CASE runs[k].mine = TRUE
    <2>1. panel' = p
      BY <1>4
    <2>2. busy' = FALSE
      BY <1>4
    <2>3. busy' = panel'.running
      BY <2>1, <2>2
    <2>4. panel'.run = k /\ k # 0
      BY <1>1, <1>2, <1>4, <2>1
    <2>5. DOMAIN panel'.steps = DOMAIN runs'[k].steps /\ runs'[k].mine = TRUE
      BY <1>1, <1>2, <1>3, <1>4, <2>1, <2>4 DEF Tells
    <2>6. (panel'.running = TRUE <=> ~Ended(runs'[k])) /\ (panel'.error = TRUE <=> runs'[k].at = "failed")
      BY <1>2, <2>1
    <2>7. ASSUME NEW j \in 1..Len(runs'), runs'[j].mine = TRUE, ~Ended(runs'[j]) PROVE panel'.run = j
      <3>1. j # k /\ runs'[j] = runs[j] /\ panel.run = j
        BY <1>2, <1>3, <2>7 DEF Tells
      <3> QED BY <1>1, <1>4, <3>1
    <2>8. panel'.run \in 0..Len(runs')
      BY <1>2, <2>4
    <2> QED BY <2>1, <2>2, <2>3, <2>4, <2>5, <2>6, <2>7, <2>8 DEF Tells
  <1>5. CASE runs[k].mine # TRUE
    <2>1. runs[k].mine = FALSE
      BY <1>5, KnownRun
    <2>2. panel' = panel
      BY <2>1
    <2>3. busy' = busy
      BY <1>3, <2>1
    <2>4. panel.run # k
      BY <1>1, <1>5
    <2>5. panel.run # 0 => panel.run \in 1..Len(runs) /\ runs'[panel.run] = runs[panel.run]
      BY <1>2, <1>3, <2>4 DEF Tells
    <2>6. ASSUME NEW j \in 1..Len(runs'), runs'[j].mine = TRUE, ~Ended(runs'[j]) PROVE panel.run = j
      BY <1>2, <1>3, <2>6 DEF Tells
    <2>7. busy' = panel'.running
      <3>1. busy = panel.running
        BY <1>3 DEF Tells
      <3> QED BY <2>2, <2>3, <3>1
    <2>8. panel.run \in 0..Len(runs') /\ (panel.run = 0 => panel = IDLE)
      BY <1>2, <1>3 DEF Tells
    <2>9. panel.run # 0 => /\ DOMAIN panel.steps = DOMAIN runs'[panel.run].steps /\ runs'[panel.run].mine = TRUE
                          /\ (panel.running = TRUE <=> ~Ended(runs'[panel.run])) /\ (panel.error = TRUE <=> runs'[panel.run].at = "failed")
      BY <1>3, <2>5 DEF Tells
    <2> QED BY <1>3, <2>2, <2>3, <2>6, <2>7, <2>8, <2>9 DEF Tells
  <1> QED BY <1>4, <1>5

LEMMA NothingSent ==
    ASSUME PageInv, UNCHANGED txs
    PROVE  txs' \in Seq(Transaction) /\ Grows(txs, txs') /\ \A t \in 1..Len(txs') : t > Len(txs) => Sent(txs'[t], runs, txs)
  <1>1. txs \in Seq(Transaction) /\ Len(txs) \in Nat
    BY LenProperties DEF PageInv, PageTypes
  <1>2. Grows(txs, txs)
    BY <1>1, GrowsNot
  <1> QED BY <1>1, <1>2

\* A sequence goes on without sending.
LEMMA QuietMove ==
    ASSUME PageInv, NEW k \in DOMAIN runs, NEW r \in Sequence, runs' = [runs EXCEPT ![k] = r],
           r.steps = runs[k].steps, r.mine = runs[k].mine, r.lowest = runs[k].lowest,
           ~Ended(runs[k]), ~Ended(r), Follows(k, r, txs, chain.price),
           UNCHANGED <<chain, wallet, shown, txs, busy>>,
           panel' = panel \/ \E face \in Patches : panel' = Patched(k, face)
    PROVE  PageInv'
  <1>1. panel' \in Panel /\ busy' \in BOOLEAN /\ Tells(panel', runs', busy')
    BY TellsOn
  <1>2. txs' \in Seq(Transaction) /\ Grows(txs, txs') /\ \A t \in 1..Len(txs') : t > Len(txs) => Sent(txs'[t], runs, txs)
    BY NothingSent
  <1>3. k \in 1..Len(runs) /\ Follows(k, r, txs', chain.price)
    BY KnownRun
  <1> QED BY <1>1, <1>2, <1>3, SequenceMoves

LEMMA FailKeeps ==
    ASSUME PageInv, NEW k \in DOMAIN runs, Fail(k), ~Ended(runs[k]), UNCHANGED <<wallet, shown>>
    PROVE  PageInv'
  <1> DEFINE r == [runs[k] EXCEPT !.at = "failed"]
             q == Patched(k, "error")
             p == [q EXCEPT !.error = TRUE, !.running = FALSE]
  <1>1. runs[k] \in Sequence /\ k \in 1..Len(runs) /\ Follows(k, runs[k], txs, chain.price)
    BY KnownRun
  <1>2. /\ r \in Sequence /\ r.at = "failed" /\ r.steps = runs[k].steps /\ r.mine = runs[k].mine /\ r.lowest = runs[k].lowest
        /\ r.step = runs[k].step
    BY <1>1 DEF Sequence, Stages
  <1>3. q \in Panel /\ q.run = panel.run /\ DOMAIN q.steps = DOMAIN panel.steps
    BY PatchedPanel DEF Patches
  <1>4. /\ runs' = [runs EXCEPT ![k] = r] /\ panel' = (IF runs[k].mine THEN p ELSE panel) /\ busy' = (busy /\ ~runs[k].mine)
        /\ UNCHANGED <<chain, txs>>
    BY DEF Fail
  <1> HIDE DEF q, r
  <1>5. p \in Panel /\ p.run = panel.run /\ p.running = FALSE /\ p.error = TRUE /\ DOMAIN p.steps = DOMAIN panel.steps
    BY <1>3 DEF Panel
  <1> HIDE DEF p
  <1>6. Follows(k, r, txs, chain.price)
    BY <1>1, <1>2 DEF Follows
  <1>7. Ended(r)
    BY <1>2 DEF Ended
  <1>8. panel' \in Panel /\ busy' \in BOOLEAN /\ Tells(panel', runs', busy')
    BY <1>2, <1>4, <1>5, <1>7, TellsEnd
  <1>9. txs' \in Seq(Transaction) /\ Grows(txs, txs') /\ \A t \in 1..Len(txs') : t > Len(txs) => Sent(txs'[t], runs, txs)
    BY <1>4, NothingSent
  <1>10. Follows(k, r, txs', chain.price)
    BY <1>4, <1>6
  <1> QED BY <1>1, <1>2, <1>4, <1>8, <1>9, <1>10, SequenceMoves

LEMMA SendKeeps ==
    ASSUME PageInv, NEW k \in DOMAIN runs, Send(k), UNCHANGED <<wallet, shown>>
    PROVE  PageInv'
  <1>1. /\ runs[k] \in Sequence /\ Follows(k, runs[k], txs, chain.price) /\ runs[k].amount \in Amounts
        /\ runs[k].lowest \in Prices /\ chain.price \in Prices /\ runs[k].at = "send"
    BY KnownRun DEF Send
  <1>2. ~Ended(runs[k])
    BY <1>1 DEF Ended
  <1>3. CASE Fail(k)
    BY <1>2, <1>3, FailKeeps
  <1>4. CASE /\ runs' = [runs EXCEPT ![k].at = "simulate", ![k].min = IF Now(k) = "unwind" THEN Quote(k) ELSE 0]
             /\ panel' = Patched(k, "signing") /\ UNCHANGED <<chain, seen, txs, busy>>
    <2> DEFINE m == IF Now(k) = "unwind" THEN Quote(k) ELSE 0
               r == [runs[k] EXCEPT !.at = "simulate", !.min = m]
    <2>1. Quote(k) \in Nat /\ Quote(k) >= Bound(runs[k].amount, runs[k].lowest)
      <3> DEFINE a == Bound(runs[k].amount, runs[k].lowest)
                 b == Bound(runs[k].amount, chain.price)
      <3>1. runs[k].lowest <= chain.price
        BY <1>1 DEF Follows
      <3>2. a \in Nat /\ b \in Nat /\ a <= b
        BY <1>1, <3>1, BoundGrows
      <3>3. Quote(k) = b
        BY DEF Quote, Bound
      <3> HIDE DEF a, b
      <3>4. Quote(k) \in Nat /\ Quote(k) >= a
        BY <3>2, <3>3
      <3> QED BY <3>4 DEF a
    <2>2. m \in Nat /\ (Now(k) = "unwind" => m >= Bound(runs[k].amount, runs[k].lowest))
      BY <2>1
    <2>3. runs' = [runs EXCEPT ![k] = r]
      BY <1>4
    <2> HIDE DEF m
    <2>4. /\ r \in Sequence /\ r.at = "simulate" /\ r.min = m /\ r.steps = runs[k].steps /\ r.mine = runs[k].mine
          /\ r.lowest = runs[k].lowest /\ r.step = runs[k].step /\ r.amount = runs[k].amount
      BY <1>1, <2>2 DEF Sequence, Stages
    <2> HIDE DEF r
    <2>5. Follows(k, r, txs, chain.price)
      BY <1>1, <2>2, <2>4 DEF Follows, Now
    <2>6. ~Ended(r)
      BY <2>4 DEF Ended
    <2>7. \E face \in Patches : panel' = Patched(k, face)
      BY <1>4 DEF Patches
    <2> QED BY <1>2, <1>4, <2>3, <2>4, <2>5, <2>6, <2>7, QuietMove
  <1> QED BY <1>3, <1>4 DEF Send

LEMMA PageSimulateKeeps ==
    ASSUME PageInv, NEW k \in DOMAIN runs, Simulate(k), UNCHANGED <<wallet, shown>>
    PROVE  PageInv'
  <1>1. runs[k] \in Sequence /\ Follows(k, runs[k], txs, chain.price) /\ runs[k].at = "simulate"
    BY KnownRun DEF Simulate
  <1>2. ~Ended(runs[k])
    BY <1>1 DEF Ended
  <1>3. CASE Fail(k)
    BY <1>2, <1>3, FailKeeps
  <1>4. CASE /\ wallet # Nobody /\ runs' = [runs EXCEPT ![k].at = "sign", ![k].from = wallet]
             /\ UNCHANGED <<chain, seen, txs, busy, panel>>
    <2> DEFINE r == [runs[k] EXCEPT !.at = "sign", !.from = wallet]
    <2>1. wallet \in Users
      BY <1>4 DEF PageInv, PageTypes
    <2>2. runs' = [runs EXCEPT ![k] = r]
      BY <1>4
    <2>3. /\ r \in Sequence /\ r.at = "sign" /\ r.min = runs[k].min /\ r.steps = runs[k].steps /\ r.mine = runs[k].mine
          /\ r.lowest = runs[k].lowest /\ r.step = runs[k].step /\ r.amount = runs[k].amount /\ r.from = wallet
      BY <1>1, <2>1 DEF Sequence, Stages
    <2> HIDE DEF r
    <2>4. Follows(k, r, txs, chain.price)
      BY <1>1, <2>1, <2>3 DEF Follows
    <2>5. ~Ended(r)
      BY <2>3 DEF Ended
    <2> QED BY <1>2, <1>4, <2>2, <2>3, <2>4, <2>5, QuietMove
  <1> QED BY <1>3, <1>4 DEF Simulate

LEMMA SignKeeps ==
    ASSUME PageInv, NEW k \in DOMAIN runs, Sign(k), UNCHANGED <<wallet, shown>>
    PROVE  PageInv'
  <1>1. /\ runs[k] \in Sequence /\ Follows(k, runs[k], txs, chain.price) /\ runs[k].at = "sign" /\ k \in 1..Len(runs)
        /\ runs[k].amount \in Amounts /\ runs[k].user \in Users /\ runs[k].min \in Nat /\ runs[k].step \in Nat
    BY KnownRun DEF Sign
  <1>2. ~Ended(runs[k])
    BY <1>1 DEF Ended
  <1>3. CASE Fail(k)
    BY <1>2, <1>3, FailKeeps
  <1>4. CASE /\ txs' = Append(txs, [run |-> k, step |-> runs[k].step, call |-> CallOf(k), status |-> "pending"])
             /\ runs' = [runs EXCEPT ![k].at = "receipt", ![k].tx = Len(txs) + 1]
             /\ panel' = Patched(k, "confirming") /\ UNCHANGED <<chain, seen, busy>>
    <2> DEFINE n == Len(txs) + 1
               x == [run |-> k, step |-> runs[k].step, call |-> CallOf(k), status |-> "pending"]
               r == [runs[k] EXCEPT !.at = "receipt", !.tx = n]
    <2>1. Len(txs) \in Nat /\ Len(runs) \in Nat /\ txs \in Seq(Transaction)
      BY LenProperties DEF PageInv, PageTypes
    <2>2. runs' = [runs EXCEPT ![k] = r] /\ txs' = Append(txs, x)
      BY <1>4
    <2>3. n \in Nat
      BY <2>1
    <2>4. CallOf(k) \in Call
      <3>1. Now(k) \in PageKinds
        <4>1. runs[k].step \in 1..Len(runs[k].steps) /\ runs[k].steps \in Seq(PageKinds)
          BY KnownRun DEF Follows
        <4> QED BY <4>1, ElementOfSeq DEF Now
      <3>2. runs[k].from \in Users
        BY <1>1 DEF Follows
      <3> QED BY <1>1, <3>1, <3>2 DEF CallOf, Call
    <2>5. /\ CallOf(k).kind = Now(k) /\ CallOf(k).amount = runs[k].amount /\ CallOf(k).min = runs[k].min
      BY DEF CallOf
    <2>6. x \in Transaction /\ x.run = k /\ x.step = runs[k].step /\ x.call = CallOf(k)
      BY <1>1, <2>1, <2>4 DEF Transaction
    <2> HIDE DEF n
    <2>7. /\ r \in Sequence /\ r.at = "receipt" /\ r.tx = n /\ r.steps = runs[k].steps /\ r.mine = runs[k].mine
          /\ r.lowest = runs[k].lowest /\ r.step = runs[k].step
      BY <1>1, <2>3 DEF Sequence, Stages
    <2> HIDE DEF r, x
    <2>8. /\ txs' \in Seq(Transaction) /\ Len(txs') = n /\ txs'[n] = x /\ \A t \in 1..Len(txs) : txs'[t] = txs[t]
      BY <2>1, <2>2, <2>6, AppendProperties DEF n
    <2>9. Grows(txs, txs')
      BY <2>1, <2>8 DEF Grows, n
    <2>10. Sent(x, runs, txs)
      <3>1. \A s \in 1..(x.step - 1) : LandedIn(txs, x.run, s)
        BY <1>1, <2>6 DEF Follows
      <3>2. x.call.kind = "unwind" => x.call.min >= Bound(x.call.amount, runs[x.run].lowest)
        BY <1>1, <2>5, <2>6 DEF Follows, Now
      <3> QED BY <1>1, <2>6, <3>1, <3>2 DEF Sent
    <2>11. \A t \in 1..Len(txs') : t > Len(txs) => Sent(txs'[t], runs, txs)
      BY <2>1, <2>8, <2>10 DEF n
    <2>12. Follows(k, r, txs', chain.price)
      <3>1. Follows(k, r, txs', chain.price) <=>
              /\ r.step \in 1..Len(r.steps) /\ r.lowest <= chain.price
              /\ \A s \in 1..(r.step - 1) : LandedIn(txs', k, s)
              /\ r.tx \in 1..Len(txs') /\ txs'[r.tx].run = k /\ txs'[r.tx].step = r.step
        BY <2>7 DEF Follows
      <3>2. r.step \in 1..Len(r.steps) /\ r.lowest <= chain.price
        BY <1>1, <2>7 DEF Follows
      <3>3. \A s \in 1..(r.step - 1) : LandedIn(txs', k, s)
        BY <1>1, <2>1, <2>7, <2>8, <2>9, LandedStays DEF Follows
      <3>4. n \in 1..Len(txs')
        BY <2>1, <2>8 DEF n
      <3> QED BY <2>6, <2>7, <2>8, <3>1, <3>2, <3>3, <3>4
    <2>13. ~Ended(r)
      BY <2>7 DEF Ended
    <2>14. \E face \in Patches : panel' = Patched(k, face)
      BY <1>4 DEF Patches
    <2>15. panel' \in Panel /\ busy' \in BOOLEAN /\ Tells(panel', runs', busy')
      BY <1>2, <1>4, <2>2, <2>7, <2>13, <2>14, TellsOn
    <2> QED BY <1>1, <1>4, <2>2, <2>7, <2>8, <2>9, <2>11, <2>12, <2>15, SequenceMoves
  <1> QED BY <1>3, <1>4 DEF Sign

LEMMA ReceiptKeeps ==
    ASSUME PageInv, NEW k \in DOMAIN runs, AwaitReceipt(k), UNCHANGED <<wallet, shown>>
    PROVE  PageInv'
  <1>1. runs[k] \in Sequence /\ Follows(k, runs[k], txs, chain.price) /\ runs[k].at = "receipt"
    BY KnownRun DEF AwaitReceipt
  <1>2. ~Ended(runs[k])
    BY <1>1 DEF Ended
  <1>3. CASE Fail(k)
    BY <1>2, <1>3, FailKeeps
  <1>4. CASE /\ txs[runs[k].tx].status = "success"
             /\ runs' = [runs EXCEPT ![k].at = "refetch"] /\ panel' = Patched(k, "done")
             /\ UNCHANGED <<chain, seen, txs, busy>>
    <2> DEFINE r == [runs[k] EXCEPT !.at = "refetch"]
    <2>1. runs' = [runs EXCEPT ![k] = r]
      BY <1>4
    <2>2. /\ r \in Sequence /\ r.at = "refetch" /\ r.steps = runs[k].steps /\ r.mine = runs[k].mine
          /\ r.lowest = runs[k].lowest /\ r.step = runs[k].step
      BY <1>1 DEF Sequence, Stages
    <2> HIDE DEF r
    <2>3. LandedIn(txs, k, runs[k].step)
      BY <1>1, <1>4 DEF LandedIn, Follows
    <2>4. Follows(k, r, txs, chain.price)
      BY <1>1, <2>2, <2>3 DEF Follows
    <2>5. ~Ended(r)
      BY <2>2 DEF Ended
    <2>6. \E face \in Patches : panel' = Patched(k, face)
      BY <1>4 DEF Patches
    <2> QED BY <1>2, <1>4, <2>1, <2>2, <2>4, <2>5, <2>6, QuietMove
  <1> QED BY <1>3, <1>4 DEF AwaitReceipt

LEMMA RefetchKeeps ==
    ASSUME PageInv, NEW k \in DOMAIN runs, Refetch(k), UNCHANGED <<wallet, shown>>
    PROVE  PageInv'
  <1>1. /\ runs[k] \in Sequence /\ Follows(k, runs[k], txs, chain.price) /\ runs[k].at = "refetch" /\ UNCHANGED <<chain, txs>>
        /\ k \in 1..Len(runs) /\ runs[k].step \in Nat /\ Len(runs[k].steps) \in Nat
    BY KnownRun, LenProperties DEF Refetch
  <1>2. ~Ended(runs[k])
    BY <1>1 DEF Ended
  <1>3. CASE runs[k].step < Len(runs[k].steps)
    <2> DEFINE n == runs[k].step + 1
               r == [runs[k] EXCEPT !.step = n, !.at = "send"]
    <2>1. runs' = [runs EXCEPT ![k] = r] /\ UNCHANGED <<panel, busy>>
      BY <1>3 DEF Refetch
    <2>2. n \in Nat /\ n \in 1..Len(runs[k].steps) /\ n - 1 = runs[k].step
      BY <1>1, <1>3
    <2> HIDE DEF n
    <2>3. /\ r \in Sequence /\ r.at = "send" /\ r.steps = runs[k].steps /\ r.mine = runs[k].mine
          /\ r.lowest = runs[k].lowest /\ r.step = n
      BY <1>1, <2>2 DEF Sequence, Stages
    <2> HIDE DEF r
    <2>4. LandedIn(txs, k, runs[k].step)
      BY <1>1 DEF Follows
    <2>5. \A s \in 1..(n - 1) : LandedIn(txs, k, s)
      BY <1>1, <2>2, <2>4 DEF Follows
    <2>6. Follows(k, r, txs, chain.price)
      BY <1>1, <2>2, <2>3, <2>5 DEF Follows
    <2>7. ~Ended(r)
      BY <2>3 DEF Ended
    <2> QED BY <1>1, <1>2, <2>1, <2>3, <2>6, <2>7, QuietMove
  <1>4. CASE ~(runs[k].step < Len(runs[k].steps))
    <2> DEFINE r == [runs[k] EXCEPT !.at = "complete"]
               p == [panel EXCEPT !.running = FALSE]
    <2>1. /\ runs' = [runs EXCEPT ![k] = r] /\ panel' = (IF runs[k].mine THEN p ELSE panel)
          /\ busy' = (busy /\ ~runs[k].mine)
      BY <1>4 DEF Refetch
    <2>2. /\ r \in Sequence /\ r.at = "complete" /\ r.steps = runs[k].steps /\ r.mine = runs[k].mine
          /\ r.lowest = runs[k].lowest /\ r.step = runs[k].step
      BY <1>1 DEF Sequence, Stages
    <2> HIDE DEF r
    <2>3. runs[k].step = Len(runs[k].steps)
      BY <1>1, <1>4 DEF Follows
    <2>4. Follows(k, r, txs, chain.price)
      BY <1>1, <2>2, <2>3 DEF Follows
    <2>5. Ended(r)
      BY <2>2 DEF Ended
    <2>6. CASE runs[k].mine = TRUE
      <3>1. panel.run = k /\ k # 0 /\ panel \in Panel
        BY <1>1, <1>2, <2>6 DEF PageInv, PageTypes, Tells
      <3>2. ~(panel.error = TRUE)
        BY <1>1, <3>1 DEF PageInv, Tells
      <3>3. p \in Panel /\ p.run = panel.run /\ p.running = FALSE /\ DOMAIN p.steps = DOMAIN panel.steps /\ p.error = panel.error
        BY <3>1 DEF Panel
      <3>4. p.error = TRUE <=> r.at = "failed"
        BY <2>2, <3>2, <3>3
      <3> HIDE DEF p
      <3>5. panel' \in Panel /\ busy' \in BOOLEAN /\ Tells(panel', runs', busy')
        BY <1>2, <2>1, <2>2, <2>5, <3>3, <3>4, TellsEnd
      <3> QED BY <1>1, <2>1, <2>2, <2>4, <3>5, NothingSent, SequenceMoves
    <2>7. CASE runs[k].mine # TRUE
      <3> DEFINE q == [panel EXCEPT !.running = FALSE, !.error = FALSE]
      <3>1. panel \in Panel
        BY DEF PageInv, PageTypes
      <3>2. q \in Panel /\ q.run = panel.run /\ q.running = FALSE /\ DOMAIN q.steps = DOMAIN panel.steps /\ q.error = FALSE
        BY <3>1 DEF Panel
      <3>3. runs[k].mine = FALSE
        BY <2>7, KnownRun
      <3>4. panel' = IF runs[k].mine THEN q ELSE panel
        BY <2>1, <3>3
      <3>5. q.error = TRUE <=> r.at = "failed"
        BY <2>2, <3>2
      <3> HIDE DEF q
      <3>6. panel' \in Panel /\ busy' \in BOOLEAN /\ Tells(panel', runs', busy')
        BY <1>2, <2>1, <2>2, <2>5, <3>2, <3>4, <3>5, TellsEnd
      <3> QED BY <1>1, <2>1, <2>2, <2>4, <3>6, NothingSent, SequenceMoves
    <2> QED BY <2>6, <2>7
  <1> QED BY <1>3, <1>4

\* Only the chain, the transactions or the surroundings of the page move.
LEMMA PageAside ==
    ASSUME PageInv, PageTypes', Grows(txs, txs'), Len(txs') = Len(txs), UNCHANGED <<runs, panel, busy>>,
           chain'.price = chain.price
    PROVE  PageInv'
  <1>1. (\A k \in 1..Len(runs) : Follows(k, runs[k], txs, chain.price))'
    <2> SUFFICES ASSUME NEW k \in 1..Len(runs) PROVE Follows(k, runs[k], txs', chain.price)
      OBVIOUS
    <2>1. runs[k] \in Sequence /\ Follows(k, runs[k], txs, chain.price)
      BY ElementOfSeq DEF PageInv, PageTypes
    <2>2. runs[k].lowest <= chain.price
      BY <2>1 DEF Follows
    <2> QED BY <2>1, <2>2, FollowsOn DEF PageInv, PageTypes
  <1>2. (\A t \in 1..Len(txs) : Sent(txs[t], runs, txs))'
    <2> SUFFICES ASSUME NEW t \in 1..Len(txs) PROVE Sent(txs'[t], runs', txs')
      OBVIOUS
    <2>1. txs[t] \in Transaction /\ txs'[t] \in Transaction /\ Sent(txs[t], runs, txs)
      BY ElementOfSeq DEF PageInv, PageTypes
    <2>2. txs'[t].run = txs[t].run /\ txs'[t].step = txs[t].step /\ txs'[t].call = txs[t].call
      BY DEF Grows
    <2>3. \A k \in 1..Len(runs) : runs'[k].lowest <= runs[k].lowest
      <3> SUFFICES ASSUME NEW k \in 1..Len(runs) PROVE runs[k].lowest <= runs[k].lowest
        OBVIOUS
      <3>1. runs[k] \in Sequence
        BY ElementOfSeq DEF PageInv, PageTypes
      <3>2. runs[k].lowest \in Nat
        BY <3>1, PageAssumption DEF Sequence
      <3> QED BY <3>2
    <2>4. PageTypes /\ txs' \in Seq(Transaction) /\ runs' \in Seq(Sequence) /\ Len(runs) <= Len(runs')
      BY LenProperties DEF PageInv, PageTypes
    <2> QED BY <2>1, <2>2, <2>3, <2>4, SentOn
  <1>3. Tells(panel, runs, busy)'
    BY DEF PageInv
  <1> QED BY <1>1, <1>2, <1>3 DEF PageInv

LEMMA MineKeeps == ASSUME PageInv, Mine PROVE PageInv'
  <1>1. UNCHANGED <<wallet, runs, panel, busy, shown>>
    BY DEF Mine, pageState
  <1>2. PICK t \in DOMAIN txs :
          /\ txs[t].status = "pending"
          /\ \/ txs' = [txs EXCEPT ![t].status = "reverted"] /\ UNCHANGED chain
             \/ ~Reverts(chain, txs[t].call) /\ \E pay \in Payouts(chain, txs[t].call) :
                  /\ ~(pay < txs[t].call.min) /\ txs' = [txs EXCEPT ![t].status = "success"]
                  /\ chain' = Applied(chain, txs[t].call, pay)
    BY DEF Mine
  <1>3. /\ t \in 1..Len(txs) /\ txs[t] \in Transaction /\ txs[t].call \in Call /\ Len(txs) \in Nat /\ txs \in Seq(Transaction)
        /\ chain \in Chain
    <2>1. t \in 1..Len(txs) /\ txs[t] \in Transaction /\ Len(txs) \in Nat /\ txs \in Seq(Transaction) /\ chain \in Chain
      BY LenProperties, ElementOfSeq DEF PageInv, PageTypes
    <2> QED BY <2>1 DEF Transaction
  <1>4. ASSUME NEW s \in {"reverted", "success"}, txs' = [txs EXCEPT ![t].status = s]
        PROVE  txs' \in Seq(Transaction) /\ Len(txs') = Len(txs) /\ Grows(txs, txs')
    <2> DEFINE x == [txs[t] EXCEPT !.status = s]
    <2>1. txs' = [txs EXCEPT ![t] = x]
      BY <1>4
    <2>2. x \in Transaction /\ x.run = txs[t].run /\ x.step = txs[t].step /\ x.call = txs[t].call
      BY <1>3 DEF Transaction
    <2> HIDE DEF x
    <2>3. txs' \in Seq(Transaction) /\ Len(txs') = Len(txs) /\ txs'[t] = x /\ \A j \in 1..Len(txs) : j # t => txs'[j] = txs[j]
      BY <1>3, <2>1, <2>2, ExceptSeq
    <2> QED BY <1>2, <1>3, <2>2, <2>3 DEF Grows
  <1>5. txs' \in Seq(Transaction) /\ Len(txs') = Len(txs) /\ Grows(txs, txs')
    BY <1>2, <1>4
  <1>6. chain' \in Chain /\ chain'.price = chain.price
    <2>1. ASSUME NEW pay \in Payouts(chain, txs[t].call), ~(pay < txs[t].call.min), ~Reverts(chain, txs[t].call),
                 chain' = Applied(chain, txs[t].call, pay)
          PROVE  chain' \in Chain /\ chain'.price = chain.price
      <3>1. pay \in Int /\ txs[t].call.min \in Int
        <4> DEFINE c == txs[t].call
        <4>1. c.amount \in Nat /\ chain.price \in Nat /\ c.kind \in PageKinds /\ c.min \in Nat
          BY <1>3, PageAssumption DEF Call, Chain
        <4>2. c.amount * chain.price \in Nat
          BY <4>1, Product
        <4>3. pay \in Payouts(chain, c)
          BY <2>1
        <4> HIDE DEF c
        <4>4. pay \in Int
          BY <4>1, <4>2, <4>3 DEF Payouts, PageKinds
        <4> QED BY <4>1, <4>4 DEF c
      <3>2. pay >= txs[t].call.min
        BY <2>1, <3>1
      <3> QED BY <1>3, <2>1, <3>2, CallsKeepChain
    <2> QED BY <1>2, <1>3, <2>1
  <1>7. PageTypes'
    BY <1>1, <1>5, <1>6 DEF PageInv, PageTypes
  <1> QED BY <1>1, <1>5, <1>6, <1>7, PageAside

\* Sequences stay what they are, but for the lowest price and the page they are of.
LEMMA RunsAside ==
    ASSUME PageInv, PageTypes', UNCHANGED txs, Len(runs') = Len(runs),
           \A k \in 1..Len(runs) : /\ runs'[k].lowest <= runs[k].lowest /\ runs'[k].lowest <= chain'.price
                                   /\ runs'[k].at = runs[k].at /\ runs'[k].step = runs[k].step /\ runs'[k].steps = runs[k].steps
                                   /\ runs'[k].min = runs[k].min /\ runs'[k].amount = runs[k].amount
                                   /\ runs'[k].from = runs[k].from /\ runs'[k].tx = runs[k].tx,
           Tells(panel', runs', busy')
    PROVE  PageInv'
  <1>1. ASSUME NEW k \in 1..Len(runs) PROVE Follows(k, runs'[k], txs, chain'.price)
    <2> DEFINE q == runs[k]
               r == runs'[k]
    <2>1. q \in Sequence /\ r \in Sequence /\ Follows(k, q, txs, chain.price)
      BY ElementOfSeq DEF PageInv, PageTypes
    <2>2. /\ r.lowest <= q.lowest /\ r.lowest <= chain'.price /\ r.at = q.at /\ r.step = q.step /\ r.steps = q.steps
          /\ r.min = q.min /\ r.amount = q.amount /\ r.from = q.from /\ r.tx = q.tx
      OBVIOUS
    <2> HIDE DEF q, r
    <2>3. ASSUME r.at \in {"simulate", "sign"}, r.steps[r.step] = "unwind" PROVE r.min >= Bound(r.amount, r.lowest)
      <3> DEFINE a == Bound(r.amount, r.lowest)
                 b == Bound(q.amount, q.lowest)
      <3>1. q.min >= b
        BY <2>1, <2>2, <2>3 DEF Follows
      <3>2. q.amount \in Amounts /\ q.lowest \in Prices /\ r.lowest \in Prices /\ q.min \in Nat
        BY <2>1 DEF Sequence
      <3>3. a \in Nat /\ b \in Nat /\ a <= b
        BY <2>2, <3>2, BoundGrows
      <3> HIDE DEF a, b
      <3>4. r.min >= a
        BY <2>2, <3>1, <3>2, <3>3
      <3> QED BY <3>4 DEF a
    <2>4. Follows(k, r, txs, chain'.price)
      BY <2>1, <2>2, <2>3 DEF Follows
    <2> QED BY <2>4 DEF r
  <1>2. (\A k \in 1..Len(runs) : Follows(k, runs[k], txs, chain.price))'
    BY <1>1
  <1>3. (\A t \in 1..Len(txs) : Sent(txs[t], runs, txs))'
    <2> SUFFICES ASSUME NEW t \in 1..Len(txs) PROVE Sent(txs'[t], runs', txs')
      OBVIOUS
    <2>1. txs[t] \in Transaction /\ Sent(txs[t], runs, txs)
      BY ElementOfSeq DEF PageInv, PageTypes
    <2>2. PageTypes /\ txs' \in Seq(Transaction) /\ runs' \in Seq(Sequence) /\ Len(runs) <= Len(runs') /\ Grows(txs, txs')
      BY LenProperties, GrowsNot DEF PageInv, PageTypes
    <2>3. \A k \in 1..Len(runs) : runs'[k].lowest <= runs[k].lowest
      OBVIOUS
    <2>4. Sent(txs[t], runs', txs')
      BY <2>1, <2>2, <2>3, SentOn
    <2> QED BY <2>4
  <1> QED BY <1>2, <1>3 DEF PageInv

LEMMA MarketKeeps == ASSUME PageInv, Market PROVE PageInv'
  <1>1. UNCHANGED <<wallet, busy, panel, shown, txs>>
    BY DEF Market, pageState
  <1>2. PICK price \in Prices, limit \in Caps, liquid \in Caps :
          /\ chain' = [chain EXCEPT !.price = price, !.limit = limit, !.liquid = liquid]
          /\ runs' = [k \in DOMAIN runs |-> [runs[k] EXCEPT !.lowest = Min({runs[k].lowest, price})]]
    BY DEF Market
  <1>3. chain' \in Chain /\ chain'.price = price
    BY <1>2 DEF PageInv, PageTypes, Chain
  <1>4. DOMAIN runs = 1..Len(runs) /\ Len(runs) \in Nat
    BY LenProperties DEF PageInv, PageTypes
  <1>5. ASSUME NEW k \in 1..Len(runs)
        PROVE  /\ runs'[k] \in Sequence /\ runs'[k].lowest <= runs[k].lowest /\ runs'[k].lowest <= price
               /\ runs'[k].at = runs[k].at /\ runs'[k].step = runs[k].step /\ runs'[k].steps = runs[k].steps
               /\ runs'[k].min = runs[k].min /\ runs'[k].amount = runs[k].amount
               /\ runs'[k].from = runs[k].from /\ runs'[k].tx = runs[k].tx /\ runs'[k].mine = runs[k].mine
    <2>1. runs[k] \in Sequence /\ runs[k].lowest \in Prices
      BY <1>4, KnownRun
    <2>2. runs[k].lowest \in Int /\ price \in Int
      <3>1. Prices \subseteq Int
        BY PageAssumption
      <3> QED BY <2>1, <3>1
    <2> DEFINE l == Min({runs[k].lowest, price})
    <2>3. l \in {runs[k].lowest, price} /\ l <= runs[k].lowest /\ l <= price
      BY <2>2, MinOfTwo
    <2>4. runs'[k] = [runs[k] EXCEPT !.lowest = l]
      BY <1>2, <1>4
    <2> HIDE DEF l
    <2>5. l \in Prices
      BY <2>1, <2>3
    <2> QED BY <2>1, <2>3, <2>4, <2>5 DEF Sequence
  <1>6. runs' \in Seq(Sequence) /\ Len(runs') = Len(runs)
    <2>1. runs' \in [1..Len(runs) -> Sequence]
      BY <1>2, <1>4, <1>5
    <2> QED BY <1>4, <2>1
  <1>7. PageTypes'
    BY <1>1, <1>3, <1>6 DEF PageInv, PageTypes
  <1>8. Tells(panel', runs', busy')
    <2>1. Tells(panel, runs, busy)
      BY DEF PageInv
    <2> QED BY <1>1, <1>5, <1>6, <2>1 DEF Tells, Ended
  <1>9. \A k \in 1..Len(runs) : /\ runs'[k].lowest <= runs[k].lowest /\ runs'[k].lowest <= chain'.price
                                /\ runs'[k].at = runs[k].at /\ runs'[k].step = runs[k].step /\ runs'[k].steps = runs[k].steps
                                /\ runs'[k].min = runs[k].min /\ runs'[k].amount = runs[k].amount
                                /\ runs'[k].from = runs[k].from /\ runs'[k].tx = runs[k].tx
    BY <1>3, <1>5
  <1> QED BY <1>1, <1>6, <1>7, <1>8, <1>9, RunsAside

LEMMA RemountKeeps == ASSUME PageInv, Remount PROVE PageInv'
  <1>1. /\ busy' = FALSE /\ panel' = IDLE /\ shown' = FALSE /\ UNCHANGED <<chain, wallet, txs>>
        /\ runs' = [k \in DOMAIN runs |-> [runs[k] EXCEPT !.mine = FALSE]]
    BY DEF Remount
  <1>2. IDLE \in Panel /\ IDLE.run = 0 /\ IDLE.running = FALSE
    BY DEF IDLE, Panel
  <1>3. DOMAIN runs = 1..Len(runs) /\ Len(runs) \in Nat
    BY LenProperties DEF PageInv, PageTypes
  <1>4. ASSUME NEW k \in 1..Len(runs)
        PROVE  /\ runs'[k] \in Sequence /\ runs'[k].lowest = runs[k].lowest /\ runs[k].lowest \in Nat
               /\ runs[k].lowest <= chain.price
               /\ runs'[k].at = runs[k].at /\ runs'[k].step = runs[k].step /\ runs'[k].steps = runs[k].steps
               /\ runs'[k].min = runs[k].min /\ runs'[k].amount = runs[k].amount
               /\ runs'[k].from = runs[k].from /\ runs'[k].tx = runs[k].tx /\ runs'[k].mine = FALSE
    <2>1. runs[k] \in Sequence /\ runs[k].lowest \in Prices /\ Follows(k, runs[k], txs, chain.price)
      BY <1>3, KnownRun
    <2>2. runs'[k] = [runs[k] EXCEPT !.mine = FALSE]
      BY <1>1, <1>3
    <2>3. runs[k].lowest \in Nat /\ runs[k].lowest <= chain.price
      BY <2>1, PageAssumption DEF Follows
    <2> QED BY <2>1, <2>2, <2>3 DEF Sequence
  <1>5. runs' \in Seq(Sequence) /\ Len(runs') = Len(runs)
    <2>1. runs' \in [1..Len(runs) -> Sequence]
      BY <1>1, <1>3, <1>4
    <2> QED BY <1>3, <2>1
  <1>6. PageTypes'
    BY <1>1, <1>2, <1>5 DEF PageInv, PageTypes
  <1>7. Tells(panel', runs', busy')
    <2>1. panel'.run = 0 /\ panel' = IDLE /\ 0 \in 0..Len(runs')
      BY <1>1, <1>2, <1>3, <1>5
    <2>2. \A k \in 1..Len(runs') : ~(runs'[k].mine = TRUE)
      BY <1>4, <1>5
    <2>3. busy' = FALSE /\ panel'.running = FALSE
      BY <1>1, <1>2
    <2>4. busy' = panel'.running
      BY <2>3, Zenon
    <2> QED BY <2>1, <2>2, <2>4 DEF Tells
  <1>8. \A k \in 1..Len(runs) : /\ runs'[k].lowest <= runs[k].lowest /\ runs'[k].lowest <= chain'.price
                                /\ runs'[k].at = runs[k].at /\ runs'[k].step = runs[k].step /\ runs'[k].steps = runs[k].steps
                                /\ runs'[k].min = runs[k].min /\ runs'[k].amount = runs[k].amount
                                /\ runs'[k].from = runs[k].from /\ runs'[k].tx = runs[k].tx
    <2> SUFFICES ASSUME NEW k \in 1..Len(runs)
                 PROVE  /\ runs'[k].lowest <= runs[k].lowest /\ runs'[k].lowest <= chain'.price
                        /\ runs'[k].at = runs[k].at /\ runs'[k].step = runs[k].step /\ runs'[k].steps = runs[k].steps
                        /\ runs'[k].min = runs[k].min /\ runs'[k].amount = runs[k].amount
                        /\ runs'[k].from = runs[k].from /\ runs'[k].tx = runs[k].tx
      OBVIOUS
    <2>1. chain'.price = chain.price
      BY <1>1
    <2>2. runs'[k].lowest <= runs[k].lowest
      <3> DEFINE a == runs'[k].lowest
                 b == runs[k].lowest
      <3>1. a = b /\ b \in Nat
        BY <1>4
      <3> HIDE DEF a, b
      <3>2. a <= b
        BY <3>1
      <3> QED BY <3>2 DEF a, b
    <2>3. runs'[k].lowest <= chain'.price
      BY <1>4, <2>1
    <2> QED BY <1>4, <2>2, <2>3
  <1> QED BY <1>1, <1>5, <1>6, <1>7, <1>8, RunsAside

LEMMA ClickKeeps == ASSUME PageInv, Click PROVE PageInv'
  <1>1. PICK kind \in Buttons, amount \in Amounts :
          /\ ~busy
          /\ runs' = Append(runs, [at |-> "send", user |-> wallet, amount |-> amount,
                                   steps |-> Steps(kind, amount), step |-> 1,
                                   from |-> Nobody, min |-> 0, tx |-> 0,
                                   lowest |-> chain.price, mine |-> TRUE])
          /\ panel' = [run |-> Len(runs) + 1, steps |-> [i \in DOMAIN Steps(kind, amount) |-> "queued"],
                       error |-> FALSE, running |-> TRUE]
    BY DEF Click
  <1>2. /\ busy' = TRUE /\ shown' = TRUE /\ UNCHANGED <<chain, wallet, txs>> /\ wallet \in Users
        /\ runs \in Seq(Sequence) /\ txs \in Seq(Transaction) /\ Len(runs) \in Nat /\ chain \in Chain /\ chain.price \in Prices
    BY LenProperties DEF Click, canAct, PageInv, PageTypes, Chain
  <1> DEFINE n == Len(runs) + 1
             steps == Steps(kind, amount)
             r == [at |-> "send", user |-> wallet, amount |-> amount, steps |-> steps, step |-> 1,
                   from |-> Nobody, min |-> 0, tx |-> 0, lowest |-> chain.price, mine |-> TRUE]
  <1>3. steps \in Seq(PageKinds) /\ 1 \in 1..Len(steps)
    <2>1. kind \in PageKinds
      BY PageAssumption DEF PageKinds
    <2>2. <<"approve", "deposit">> \in Seq(PageKinds) /\ Len(<<"approve", "deposit">>) = 2
      BY DEF PageKinds
    <2>3. <<kind>> \in Seq(PageKinds) /\ Len(<<kind>>) = 1
      BY <2>1
    <2>4. steps = <<"approve", "deposit">> \/ steps = <<kind>>
      BY DEF Steps
    <2> HIDE DEF steps
    <2>5. CASE steps = <<"approve", "deposit">>
      <3>1. Len(steps) = 2 /\ steps \in Seq(PageKinds)
        BY <2>2, <2>5
      <3> QED BY <3>1
    <2>6. CASE steps = <<kind>>
      <3>1. Len(steps) = 1 /\ steps \in Seq(PageKinds)
        BY <2>3, <2>6
      <3> QED BY <3>1
    <2> QED BY <2>4, <2>5, <2>6
  <1>4. runs' = Append(runs, r) /\ panel' = [run |-> n, steps |-> [i \in DOMAIN steps |-> "queued"], error |-> FALSE, running |-> TRUE]
    BY <1>1
  <1> HIDE DEF steps
  <1>5. /\ r \in Sequence /\ r.at = "send" /\ r.steps = steps /\ r.step = 1 /\ r.lowest = chain.price /\ r.mine = TRUE
    BY <1>2, <1>3 DEF Sequence, Stages
  <1> HIDE DEF r
  <1>6. /\ runs' \in Seq(Sequence) /\ Len(runs') = n /\ runs'[n] = r /\ \A k \in 1..Len(runs) : runs'[k] = runs[k]
    BY <1>2, <1>4, <1>5, AppendProperties
  <1>7. /\ panel' \in Panel /\ panel'.run = n /\ panel'.running = TRUE /\ panel'.error = FALSE /\ DOMAIN panel'.steps = DOMAIN steps
    <2> DEFINE q == [i \in DOMAIN steps |-> "queued"]
    <2>1. DOMAIN steps = 1..Len(steps) /\ Len(steps) \in Nat
      BY <1>3, LenProperties
    <2>2. q \in [1..Len(steps) -> {"queued", "signing", "confirming", "done", "error"}]
      BY <2>1
    <2>3. q \in Seq({"queued", "signing", "confirming", "done", "error"}) /\ DOMAIN q = DOMAIN steps
      BY <2>1, <2>2
    <2> HIDE DEF q
    <2>4. panel' = [run |-> n, steps |-> q, error |-> FALSE, running |-> TRUE]
      BY <1>4 DEF q
    <2>5. n \in Nat
      BY <1>2
    <2> QED BY <2>3, <2>4, <2>5 DEF Panel
  <1>8. PageTypes'
    BY <1>2, <1>6, <1>7 DEF PageInv, PageTypes
  <1>9. (\A k \in 1..Len(runs) : Follows(k, runs[k], txs, chain.price))'
    <2> SUFFICES ASSUME NEW k \in 1..n PROVE Follows(k, runs'[k], txs, chain.price)
      BY <1>2, <1>6
    <2>1. CASE k = n
      <3>1. chain.price \in Nat
        BY <1>2, PageAssumption
      <3>2. Follows(n, r, txs, chain.price)
        BY <1>3, <1>5, <3>1 DEF Follows
      <3> QED BY <1>6, <2>1, <3>2
    <2>2. CASE k # n
      <3>1. k \in 1..Len(runs)
        BY <1>2, <2>2
      <3> QED BY <1>6, <3>1 DEF PageInv
    <2> QED BY <2>1, <2>2
  <1>10. (\A t \in 1..Len(txs) : Sent(txs[t], runs, txs))'
    <2> SUFFICES ASSUME NEW t \in 1..Len(txs) PROVE Sent(txs[t], runs', txs')
      BY <1>2
    <2>1. txs[t] \in Transaction /\ Sent(txs[t], runs, txs)
      BY <1>2, ElementOfSeq DEF PageInv
    <2>2. PageTypes /\ txs' \in Seq(Transaction) /\ Grows(txs, txs') /\ Len(runs) <= Len(runs')
      BY <1>2, <1>6, GrowsNot DEF PageInv
    <2>3. \A k \in 1..Len(runs) : runs'[k].lowest <= runs[k].lowest
      <3> SUFFICES ASSUME NEW k \in 1..Len(runs) PROVE runs[k].lowest <= runs[k].lowest
        BY <1>6
      <3>1. runs[k] \in Sequence
        BY <1>2, ElementOfSeq
      <3>2. runs[k].lowest \in Nat
        BY <3>1, PageAssumption DEF Sequence
      <3> QED BY <3>2
    <2> QED BY <1>6, <2>1, <2>2, <2>3, SentOn
  <1>11. Tells(panel', runs', busy')
    <2>1. \A k \in 1..Len(runs) : ~(runs[k].mine = TRUE /\ ~Ended(runs[k]))
      <3> SUFFICES ASSUME NEW k \in 1..Len(runs), runs[k].mine = TRUE, ~Ended(runs[k]) PROVE FALSE
        OBVIOUS
      <3>1. Tells(panel, runs, busy)
        BY DEF PageInv
      <3>2. panel.run = k /\ k # 0
        BY <3>1 DEF Tells
      <3>3. panel.running = TRUE
        BY <3>1, <3>2 DEF Tells
      <3>4. busy = panel.running
        BY <3>1 DEF Tells
      <3> QED BY <1>1, <3>3, <3>4, Zenon
    <2>2. ASSUME NEW k \in 1..n, runs'[k].mine = TRUE, ~Ended(runs'[k]) PROVE k = n
      <3> SUFFICES ASSUME k # n PROVE FALSE
        OBVIOUS
      <3>1. k \in 1..Len(runs)
        BY <1>2
      <3> QED BY <1>6, <2>1, <2>2, <3>1
    <2>3. n \in 0..Len(runs') /\ n # 0
      BY <1>2, <1>6
    <2>4. busy' = panel'.running
      BY <1>2, <1>7, Zenon
    <2>5. ~Ended(r) /\ r.at # "failed"
      BY <1>5 DEF Ended
    <2> HIDE DEF n
    <2> QED BY <1>5, <1>6, <1>7, <2>2, <2>3, <2>4, <2>5 DEF Tells
  <1> QED BY <1>8, <1>9, <1>10, <1>11 DEF PageInv

LEMMA PageKeeps == PageInv /\ [PageNext]_pageVars => PageInv'
  <1> SUFFICES ASSUME PageInv, [PageNext]_pageVars PROVE PageInv'
    OBVIOUS
  <1>1. ASSUME NEW k \in DOMAIN runs, runStep(k) PROVE PageInv'
    <2>1. UNCHANGED <<wallet, shown>>
      BY <1>1 DEF runStep
    <2> QED BY <1>1, <2>1, SendKeeps, PageSimulateKeeps, SignKeeps, ReceiptKeeps, RefetchKeeps DEF runStep
  <1>2. CASE PollPage \/ SwitchWallet \/ Paint \/ UNCHANGED pageVars
    <2>1. UNCHANGED <<chain, busy, panel, runs, txs>> /\ (shown' = shown \/ shown' = panel.running)
      BY <1>2 DEF PollPage, SwitchWallet, Paint, pageState, pageVars
    <2>2. wallet' \in Users \cup {Nobody}
      BY <1>2 DEF PollPage, SwitchWallet, Paint, pageVars, PageInv, PageTypes
    <2>3. shown' \in BOOLEAN
      BY <2>1 DEF PageInv, PageTypes, Panel
    <2>4. PageTypes'
      BY <2>1, <2>2, <2>3 DEF PageInv, PageTypes
    <2>5. Grows(txs, txs')
      BY <2>1, GrowsNot DEF PageInv, PageTypes
    <2> QED BY <2>1, <2>4, <2>5, PageAside
  <1>3. CASE Dismiss
    <2>1. panel' = IDLE /\ ~panel.running /\ UNCHANGED <<chain, wallet, busy, shown, runs, txs>>
      BY <1>3 DEF Dismiss
    <2>2. IDLE \in Panel /\ IDLE.run = 0 /\ IDLE.running = FALSE
      BY DEF IDLE, Panel
    <2>3. PageTypes'
      BY <2>1, <2>2 DEF PageInv, PageTypes
    <2>4. Tells(panel, runs, busy) /\ panel.running \in BOOLEAN
      BY DEF PageInv, PageTypes, Panel
    <2>5. panel.running = FALSE
      BY <2>1, <2>4
    <2>6. \A k \in 1..Len(runs) : ~(runs[k].mine = TRUE /\ ~Ended(runs[k]))
      <3> SUFFICES ASSUME NEW k \in 1..Len(runs), runs[k].mine = TRUE, ~Ended(runs[k]) PROVE FALSE
        OBVIOUS
      <3>1. panel.run = k /\ k # 0
        BY <2>4 DEF Tells
      <3>2. panel.running = TRUE
        BY <2>4, <3>1 DEF Tells
      <3> QED BY <2>5, <3>2
    <2>7. busy' = panel'.running
      <3>1. busy = panel.running
        BY <2>4 DEF Tells
      <3>2. panel'.running = FALSE /\ busy' = busy
        BY <2>1, <2>2
      <3> QED BY <2>5, <3>1, <3>2, Zenon
    <2>8. panel'.run = 0 /\ 0 \in 0..Len(runs')
      BY <2>1, <2>2, LenProperties DEF PageInv, PageTypes
    <2>9. Tells(panel', runs', busy')
      BY <2>1, <2>6, <2>7, <2>8 DEF Tells
    <2> QED BY <2>1, <2>3, <2>9 DEF PageInv
  <1> QED BY <1>1, <1>2, <1>3, ClickKeeps, RemountKeeps, MineKeeps, MarketKeeps DEF PageNext

\* What the invariant says of the page, its sequences and their transactions.
LEMMA PageIsTrue == PageInv => PageHolds
  <1> SUFFICES ASSUME PageInv PROVE PageHolds
    OBVIOUS
  <1>1. /\ DOMAIN runs = 1..Len(runs) /\ DOMAIN txs = 1..Len(txs) /\ Len(runs) \in Nat /\ Len(txs) \in Nat
        /\ chain \in Chain /\ panel \in Panel /\ Tells(panel, runs, busy) /\ runs \in Seq(Sequence) /\ txs \in Seq(Transaction)
    BY LenProperties DEF PageInv, PageTypes
  <1>2. \A k, step : LandedIn(txs, k, step) => Landed(k, step)
    BY <1>1 DEF LandedIn, Landed
  <1>3. PageTypeOK
    <2>1. \A u \in Users : chain.usdc[u] >= 0 /\ chain.allowance[u] >= 0 /\ chain.shares[u] >= 0
      <3> SUFFICES ASSUME NEW u \in Users PROVE chain.usdc[u] >= 0 /\ chain.allowance[u] >= 0 /\ chain.shares[u] >= 0
        OBVIOUS
      <3>1. chain.usdc \in [Users -> Nat] /\ chain.allowance \in [Users -> Nat] /\ chain.shares \in [Users -> Nat]
        BY <1>1 DEF Chain
      <3>2. chain.usdc[u] \in Nat /\ chain.allowance[u] \in Nat /\ chain.shares[u] \in Nat
        BY <3>1
      <3> QED BY <3>2
    <2>2. \A k \in DOMAIN runs : runs[k].at \in Stages /\ runs[k].step \in DOMAIN runs[k].steps
      <3> SUFFICES ASSUME NEW k \in DOMAIN runs PROVE runs[k].at \in Stages /\ runs[k].step \in DOMAIN runs[k].steps
        OBVIOUS
      <3>1. runs[k] \in Sequence /\ Follows(k, runs[k], txs, chain.price) /\ runs[k].steps \in Seq(PageKinds)
        BY KnownRun
      <3>2. runs[k].at \in Stages /\ DOMAIN runs[k].steps = 1..Len(runs[k].steps)
        BY <3>1, LenProperties DEF Sequence
      <3> QED BY <3>1, <3>2 DEF Follows
    <2>3. panel.run \in 0..Len(runs)
      BY <1>1 DEF Tells
    <2>4. \A i \in DOMAIN panel.steps : panel.steps[i] \in {"queued", "signing", "confirming", "done", "error"}
      <3>1. panel.steps \in Seq(Patches)
        BY <1>1 DEF Panel, Patches
      <3>2. DOMAIN panel.steps = 1..Len(panel.steps)
        BY <3>1, LenProperties
      <3> QED BY <3>1, <3>2, ElementOfSeq DEF Patches
    <2>5. busy \in BOOLEAN /\ wallet \in Users \cup {Nobody}
      BY DEF PageInv, PageTypes
    <2> QED BY <2>1, <2>2, <2>3, <2>4, <2>5 DEF PageTypeOK
  <1>4. StepsInOrder
    BY <1>1, <1>2 DEF StepsInOrder, PageInv, Sent
  <1>5. PanelIsTrue
    <2> SUFFICES ASSUME panel.run # 0
                 PROVE  /\ ~panel.running /\ ~panel.error => \A step \in DOMAIN panel.steps : Landed(panel.run, step)
                        /\ panel.running <=> ~Over(panel.run)
                        /\ panel.running <=> busy
      BY DEF PanelIsTrue
    <2>1. panel.run \in DOMAIN runs /\ Follows(panel.run, runs[panel.run], txs, chain.price) /\ runs[panel.run].steps \in Seq(PageKinds)
      <3>1. panel.run \in DOMAIN runs
        BY <1>1 DEF Tells
      <3> QED BY <3>1, KnownRun
    <2>2. /\ DOMAIN panel.steps = DOMAIN runs[panel.run].steps
          /\ (panel.running = TRUE <=> ~Ended(runs[panel.run])) /\ (panel.error = TRUE <=> runs[panel.run].at = "failed")
          /\ busy = panel.running
      BY <1>1 DEF Tells
    <2>3. panel.running \in BOOLEAN /\ panel.error \in BOOLEAN
      BY <1>1 DEF Panel
    <2>4. panel.running <=> ~Over(panel.run)
      BY <2>2, <2>3 DEF Over, Ended
    <2>5. panel.running <=> busy
      BY <2>2
    <2>6. ASSUME ~panel.running, ~panel.error, NEW step \in DOMAIN panel.steps PROVE Landed(panel.run, step)
      <3>1. ~(panel.running = TRUE) /\ ~(panel.error = TRUE)
        BY <2>6, <2>3
      <3>2. runs[panel.run].at = "complete"
        BY <2>2, <3>1 DEF Ended
      <3>3. step \in 1..Len(runs[panel.run].steps) /\ runs[panel.run].step = Len(runs[panel.run].steps) /\ Len(runs[panel.run].steps) \in Nat
        BY <2>1, <2>2, <2>6, <3>2, LenProperties DEF Follows
      <3>4. LandedIn(txs, panel.run, step)
        BY <2>1, <3>2, <3>3 DEF Follows
      <3> QED BY <1>2, <3>4
    <2> QED BY <2>4, <2>5, <2>6
  <1>6. BoundIsFresh
    BY <1>1 DEF BoundIsFresh, PageInv, Sent, Bound
  <1> QED BY <1>3, <1>4, <1>5, <1>6 DEF PageHolds

-----------------------------------------------------------------------------
(* The pages together: each moves on its own *)

PagesInv == ApiInv /\ WalletInv /\ PageInv /\ FormsInv /\ PanelsInv

LEMMA PagesStart == PagesInit => PagesInv
  BY ApiStarts, WalletStarts, PageStarts, FormsStart, PanelsStart DEF PagesInit, PagesRest, PagesInv

LEMMA PagesStep ==
    [PagesNext]_<<subject, pagesVars>> =>
        [ApiNext]_apiVars /\ [WalletNext]_walletVars /\ [PageNext]_pageVars /\ [FormsNext]_formsVars /\ [PanelsNext]_panelsVars
  BY DEF PagesNext, pagesVars

LEMMA PagesKeep == PagesInv /\ [PagesNext]_<<subject, pagesVars>> => PagesInv'
  BY PagesStep, ApiKeeps, WalletKeeps, PageKeeps, FormsKeep, PanelsKeep DEF PagesInv

(* The API: an answer is of a block not older than the caches allow, the
   scenarios are of the configuration of that block, and the history is served
   from the snapshots while the node is out (backend/src/api/service.ts). *)
THEOREM ServedAnswersHold == ApiSpec => []AnswersHold
  BY ApiStarts, ApiKeeps, ApiAnswers, PTL DEF ApiSpec

(* A page that loads after Disconnect restores no wallet (lib/wagmi.ts,
   WalletMenu.tsx, app/providers.tsx). *)
THEOREM WalletStaysDisconnected == WalletSpec => [][DisconnectOutlivesReload]_walletVars
  BY WalletStarts, WalletKeeps, WalletStaysForgotten, PTL DEF WalletSpec

(* The vault page: a later transaction of a sequence is sent only when the
   earlier ones are on the chain, the panel tells what became of the sequence
   it is of, and the bound of an unwind keeps to a price after the click, for
   every wallet that is connected by then (lib/tx.ts, VaultView.tsx). *)
THEOREM SequencesHold == PageSpec => []PageHolds
  <1>1. PageInv /\ [PageNext]_pageVars => PageInv'
    BY PageKeeps
  <1> QED BY <1>1, PageStarts, PageIsTrue, PTL DEF PageSpec

(* The simulation page: what is shown as saved is the row of that run, each run
   has one row at most, and what the form accepts the API does not refuse
   (app/simulation, api/server.ts, db/repo.ts). *)
THEOREM RunsAreStored == FormsSpec => []FormsHold
  <1>1. FormsInv /\ [FormsNext]_formsVars => FormsInv'
    BY FormsKeep
  <1> QED BY <1>1, FormsStart, FormsAreTrue, PTL DEF FormsSpec

(* The live panels: a failure is marked, the summary is of the selected range,
   what is fetched after the second invalidation has the transaction, and a
   panel that showed data does not go blank (QueryState.tsx, lib/tx.ts). *)
THEOREM PanelsTellTheTruth == PanelsSpec => []PanelsHold /\ [][NeverBlank]_panelsVars
  <1>1. PanelsInv /\ [PanelsNext]_panelsVars => PanelsInv'
    BY PanelsKeep
  <1>2. PanelsInv /\ [PanelsNext]_panelsVars => [NeverBlank]_panelsVars
    BY PanelsNeverBlank
  <1> QED BY <1>1, <1>2, PanelsStart, PanelsAreTold, PTL DEF PanelsSpec

(* The same of the pages next to one another, as the run checks it. *)
THEOREM PagesAreTrue == PagesSpec => []PagesHold
  <1>1. PagesInv => PagesHold
    <2> SUFFICES ASSUME PagesInv PROVE PagesHold
      OBVIOUS
    <2>1. AnswersHold /\ PageHolds /\ FormsHold /\ PanelsHold
      BY ApiAnswers, PageIsTrue, FormsAreTrue, PanelsAreTold DEF PagesInv
    <2>2. WalletTypeOK
      BY DEF PagesInv, WalletInv
    <2> QED BY <2>1, <2>2 DEF PagesHold
  <1> QED BY <1>1, PagesStart, PagesKeep, PTL DEF PagesSpec

(* No step of any page connects a forgotten wallet or blanks a panel that
   showed data. *)
THEOREM PagesAlwaysRemember == PagesSpec => PagesRemember
  <1>1. PagesInv /\ [PagesNext]_<<subject, pagesVars>> => [DisconnectOutlivesReload /\ NeverBlank]_pagesVars
    BY WalletStaysForgotten, PanelsNeverBlank, PagesStep DEF PagesInv
  <1> QED BY <1>1, PagesStart, PagesKeep, PTL DEF PagesSpec, PagesRemember

-----------------------------------------------------------------------------
(***************************************************************************)
(* What the API says about risk, for every reading and every thresholds    *)
(* that are sharp.                                                         *)
(***************************************************************************)

LEMMA MaxIs ==
    ASSUME NEW S \in SUBSET Int, NEW k \in S, \A x \in S : x <= k PROVE Max(S) = k
  <1>1. \A x \in S : (\A y \in S : x >= y) => x = k
    OBVIOUS
  <1>2. k \in S /\ \A y \in S : k >= y
    OBVIOUS
  <1> QED BY <1>1, <1>2 DEF Max

LEMMA MaxOfPair ==
    ASSUME NEW x \in Int, NEW y \in Int PROVE Max({x, y}) = IF x >= y THEN x ELSE y
  <1>1. CASE x >= y
    <2>1. \A z \in {x, y} : z <= x
      BY <1>1
    <2> QED BY <1>1, <2>1, MaxIs
  <1>2. CASE ~(x >= y)
    <2>1. \A z \in {x, y} : z <= y
      BY <1>2
    <2> QED BY <1>2, <2>1, MaxIs
  <1> QED BY <1>1, <1>2

LEMMA MinOfPair ==
    ASSUME NEW x \in Int, NEW y \in Int PROVE Min({x, y}) = IF x <= y THEN x ELSE y
  <1>1. \A z \in {x, y} : (\A w \in {x, y} : z <= w) <=> z <= x /\ z <= y
    OBVIOUS
  <1>2. CASE x <= y
    <2>1. \A z \in {x, y} : (\A w \in {x, y} : z <= w) => z = x
      BY <1>2
    <2>2. \A w \in {x, y} : x <= w
      BY <1>2
    <2> QED BY <1>2, <2>1, <2>2 DEF Min
  <1>3. CASE ~(x <= y)
    <2>1. \A z \in {x, y} : (\A w \in {x, y} : z <= w) => z = y
      BY <1>3
    <2>2. \A w \in {x, y} : y <= w
      BY <1>3
    <2> QED BY <1>3, <2>1, <2>2 DEF Min
  <1> QED BY <1>2, <1>3

Grades == {"warn", "high", "critical"}

\* How many of the three limits are passed, when they are passed in order.
LEMMA Passed ==
    ASSUME NEW S \in SUBSET Grades, "critical" \in S => "high" \in S, "high" \in S => "warn" \in S
    PROVE  Cardinality(S) = IF "critical" \in S THEN 3 ELSE IF "high" \in S THEN 2
                            ELSE IF "warn" \in S THEN 1 ELSE 0
  <1>1. IsFiniteSet({}) /\ Cardinality({}) = 0
    BY FS_EmptySet
  <1>2. IsFiniteSet({"warn"}) /\ Cardinality({"warn"}) = 1
    BY FS_Singleton
  <1>3. IsFiniteSet({"warn"} \cup {"high"}) /\ Cardinality({"warn"} \cup {"high"}) = 2
    <2>1. "high" \notin {"warn"}
      OBVIOUS
    <2>2. IsFiniteSet({"warn"} \cup {"high"})
      BY <1>2, FS_AddElement
    <2>3. Cardinality({"warn"} \cup {"high"}) = Cardinality({"warn"}) + 1
      BY <1>2, <2>1, FS_AddElement
    <2> QED BY <1>2, <2>2, <2>3
  <1>4. Cardinality(({"warn"} \cup {"high"}) \cup {"critical"}) = 3
    <2>1. "critical" \notin {"warn"} \cup {"high"}
      OBVIOUS
    <2> QED BY <1>3, <2>1, FS_AddElement
  <1>5. CASE "critical" \in S
    <2>1. S = ({"warn"} \cup {"high"}) \cup {"critical"}
      BY <1>5 DEF Grades
    <2> QED BY <1>4, <1>5, <2>1
  <1>6. CASE "critical" \notin S /\ "high" \in S
    <2>1. S = {"warn"} \cup {"high"}
      BY <1>6 DEF Grades
    <2> QED BY <1>3, <1>6, <2>1
  <1>7. CASE "critical" \notin S /\ "high" \notin S /\ "warn" \in S
    <2>1. S = {"warn"}
      BY <1>7 DEF Grades
    <2> QED BY <1>2, <1>7, <2>1
  <1>8. CASE "critical" \notin S /\ "high" \notin S /\ "warn" \notin S
    <2>1. S = {}
      BY <1>8 DEF Grades
    <2> QED BY <1>1, <1>8, <2>1
  <1> QED BY <1>5, <1>6, <1>7, <1>8

LEMMA HigherLevels ==
    ASSUME NEW v \in Int, NEW t, t.warn \in Int, t.high \in Int, t.critical \in Int,
           t.warn <= t.high, t.high <= t.critical
    PROVE  _higherWorse(v, t) = IF v >= t.critical THEN 3 ELSE IF v >= t.high THEN 2
                                ELSE IF v >= t.warn THEN 1 ELSE 0
  <1> DEFINE S == {l \in {"warn", "high", "critical"} : v >= t[l]}
  <1>1. /\ "warn" \in S <=> v >= t.warn
        /\ "high" \in S <=> v >= t.high
        /\ "critical" \in S <=> v >= t.critical
        /\ S \in SUBSET Grades
    BY DEF Grades
  <1>2. _higherWorse(v, t) = Cardinality(S)
    BY DEF _higherWorse
  <1> HIDE DEF S
  <1>3. ("critical" \in S => "high" \in S) /\ ("high" \in S => "warn" \in S)
    BY <1>1
  <1> QED BY <1>1, <1>2, <1>3, Passed

LEMMA LowerLevels ==
    ASSUME NEW v \in Int, NEW t, t.warn \in Int, t.high \in Int, t.critical \in Int,
           t.warn >= t.high, t.high >= t.critical
    PROVE  _lowerWorse(v, t) = IF v <= t.critical THEN 3 ELSE IF v <= t.high THEN 2
                               ELSE IF v <= t.warn THEN 1 ELSE 0
  <1> DEFINE S == {l \in {"warn", "high", "critical"} : v <= t[l]}
  <1>1. /\ "warn" \in S <=> v <= t.warn
        /\ "high" \in S <=> v <= t.high
        /\ "critical" \in S <=> v <= t.critical
        /\ S \in SUBSET Grades
    BY DEF Grades
  <1>2. _lowerWorse(v, t) = Cardinality(S)
    BY DEF _lowerWorse
  <1> HIDE DEF S
  <1>3. ("critical" \in S => "high" \in S) /\ ("high" \in S => "warn" \in S)
    BY <1>1
  <1> QED BY <1>1, <1>2, <1>3, Passed

LEMMA DivBelow ==
    ASSUME NEW x \in Int, NEW d \in Nat \ {0}, NEW k \in Int
    PROVE  (k <= x \div d <=> k * d <= x) /\ x \div d \in Int
  <1> DEFINE q == x \div d
  <1>1. q \in Int /\ q * d <= x /\ x < (q + 1) * d
    OBVIOUS
  <1> HIDE DEF q
  <1>2. CASE k <= q
    <2>1. k * d <= q * d
      BY <1>1, <1>2
    <2> QED BY <1>1, <1>2, <2>1 DEF q
  <1>3. CASE k >= q + 1
    <2>1. k * d >= (q + 1) * d
      BY <1>1, <1>3
    <2> QED BY <1>1, <1>3, <2>1 DEF q
  <1> QED BY <1>1, <1>2, <1>3

-----------------------------------------------------------------------------
(* A reading *)

ViewsInv ==
    /\ reading \in Reading
    /\ reading.notional = 0 \/ reading.notional >= 20
    /\ \A q \in Quantities : reading[q] \in Values[q] \cup {Calm[q]}

LEMMA ReadingFields ==
    ASSUME NEW x \in Reading
    PROVE  /\ x.notional \in Nat /\ x.equity \in Nat /\ x.distance \in Nat /\ x.netDelta \in Int
           /\ x.nav \in Nat \ {0} /\ x.lent \in Nat /\ x.peak \in Nat \ {0} /\ x.pps \in Nat
           /\ x.funding \in Int /\ x.vol \in Nat
           /\ x.paused \in SUBSET {"breaker.deposits", "breaker.strategy"}
           /\ DOMAIN x = {"notional", "equity", "distance", "netDelta", "nav", "lent", "peak", "pps", "funding",
                          "vol", "oracle", "supplied", "withdrawable", "paused", "shutdown", "plan",
                          "lastRebalanceAt", "now"}
  BY DEF Reading

\* Each quantity for itself is of its kind.
LEMMA ReadingMoves ==
    ASSUME NEW x \in Reading, NEW y \in Reading, NEW q \in DOMAIN x PROVE [x EXCEPT ![q] = y[q]] \in Reading
  BY DEF Reading

LEMMA ViewsStart == ASSUME ShortsHaveMargin PROVE ViewsInit => ViewsInv
  BY ViewsAssumption DEF ReadingsAreTyped, ViewsInit, ViewsInv, ShortsHaveMargin, Quantities

LEMMA ViewsKeep == ASSUME ShortsHaveMargin PROVE ViewsInv /\ [ViewsNext]_reading => ViewsInv'
  <1> SUFFICES ASSUME ViewsInv, [ViewsNext]_reading PROVE ViewsInv'
    OBVIOUS
  <1>1. CASE reading' = reading
    BY <1>1 DEF ViewsInv
  <1>2. CASE Move
    <2>1. PICK q \in Quantities : \E v \in Values[q] : reading' = [reading EXCEPT ![q] = v]
      BY <1>2 DEF Move
    <2>2. PICK v \in Values[q] : reading' = [reading EXCEPT ![q] = v]
      BY <2>1
    <2> DEFINE y == [Calm EXCEPT ![q] = v]
    <2>3. y \in Reading /\ q \in DOMAIN Calm /\ Calm \in Reading
      BY ViewsAssumption DEF ReadingsAreTyped, Quantities
    <2>4. y[q] = v
      BY <2>3
    <2>5. DOMAIN reading = DOMAIN Calm
      BY <2>3, ReadingFields DEF ViewsInv
    <2> HIDE DEF y
    <2>6. reading' \in Reading
      <3>1. [reading EXCEPT ![q] = y[q]] \in Reading
        BY <2>3, <2>5, ReadingMoves DEF ViewsInv
      <3> QED BY <2>2, <2>4, <3>1
    <2>7. reading'.notional = 0 \/ reading'.notional >= 20
      <3>1. CASE q = "notional"
        <4>1. reading'.notional = v
          BY <2>2, <2>3, <2>5, <3>1
        <4> QED BY <3>1, <4>1 DEF ShortsHaveMargin
      <3>2. CASE q # "notional"
        <4>1. reading'.notional = reading.notional
          BY <2>2, <3>2
        <4> QED BY <4>1 DEF ViewsInv
      <3> QED BY <3>1, <3>2
    <2>8. \A p \in Quantities : reading'[p] \in Values[p] \cup {Calm[p]}
      BY <2>2, <2>5 DEF ViewsInv, Quantities
    <2> QED BY <2>6, <2>7, <2>8 DEF ViewsInv
  <1> QED BY <1>1, <1>2 DEF ViewsNext

LEMMA LimitTypes ==
    ASSUME NEW m \in {"leverage", "delta", "drawdown", "exposure", "liquidation", "collateral"}
    PROVE  Thresholds[m].warn \in Int /\ Thresholds[m].high \in Int /\ Thresholds[m].critical \in Int
  BY ViewsAssumption DEF ReadingsAreTyped, ThresholdTypes

LEMMA Ascending ==
    ASSUME NEW m \in {"leverage", "delta", "drawdown", "exposure"}, NEW v \in Int
    PROVE  LET t == Thresholds[m]
           IN  /\ t.warn \in Int /\ t.high \in Int /\ t.critical \in Int
               /\ 0 < t.warn /\ t.warn <= t.high /\ t.high <= t.critical
               /\ _higherWorse(v, t) = IF v >= t.critical THEN 3 ELSE IF v >= t.high THEN 2
                                       ELSE IF v >= t.warn THEN 1 ELSE 0
  <1>1. /\ Thresholds[m].warn \in Int /\ Thresholds[m].high \in Int /\ Thresholds[m].critical \in Int
        /\ 0 < Thresholds[m].warn /\ Thresholds[m].warn <= Thresholds[m].high
        /\ Thresholds[m].high <= Thresholds[m].critical
    BY LimitTypes, ViewsAssumption DEF ReadingsAreTyped, ConfigOK
  <1> QED BY <1>1, HigherLevels

LEMMA Descending ==
    ASSUME NEW m \in {"liquidation", "collateral"}, NEW v \in Int
    PROVE  LET t == Thresholds[m]
           IN  /\ t.warn \in Int /\ t.high \in Int /\ t.critical \in Int
               /\ t.warn >= t.high /\ t.high >= t.critical
               /\ _lowerWorse(v, t) = IF v <= t.critical THEN 3 ELSE IF v <= t.high THEN 2
                                      ELSE IF v <= t.warn THEN 1 ELSE 0
  <1>1. /\ Thresholds[m].warn \in Int /\ Thresholds[m].high \in Int /\ Thresholds[m].critical \in Int
        /\ Thresholds[m].warn >= Thresholds[m].high /\ Thresholds[m].high >= Thresholds[m].critical
    BY LimitTypes, ViewsAssumption DEF ReadingsAreTyped, ConfigOK
  <1> QED BY <1>1, LowerLevels

LEMMA TruncInt == ASSUME NEW x \in Int, NEW d \in Nat \ {0} PROVE Trunc(x, d) \in Int
  <1>1. x \div d \in Int /\ (-x) \div d \in Int
    BY DivBelow
  <1>2. -((-x) \div d) \in Int
    BY <1>1
  <1> QED BY <1>1, <1>2 DEF Trunc

LEMMA MetricTypes ==
    ASSUME ViewsInv
    PROVE  /\ leverageBps \in Nat /\ collateralRatioBps \in Nat /\ liquidationDistanceBps \in Nat
           /\ deltaBps \in Int /\ abs(deltaBps) \in Nat /\ fundingAprBps \in Int /\ exposureBps \in Nat
           /\ drawdownBps \in Int
  <1>1. BPS \in Nat /\ MaxUint \in Nat /\ BPS = 10000
    BY DEF BPS, MaxUint
  <1>2. ASSUME NEW x \in Nat, NEW d \in Nat \ {0} PROVE (x * BPS) \div d \in Nat
    <2>1. x * BPS \in Nat
      BY <1>1
    <2>2. 0 <= (x * BPS) \div d /\ (x * BPS) \div d \in Int
      BY <2>1, DivBelow
    <2> QED BY <2>2
  <1>3. leverageBps \in Nat
    <2>1. CASE Short /\ reading.equity # 0
      BY <1>2, <2>1, ReadingFields DEF leverageBps, ViewsInv
    <2> QED BY <1>1, <2>1 DEF leverageBps
  <1>4. collateralRatioBps \in Nat
    <2> DEFINE m == reading.notional \div 20
    <2>1. m \in Int /\ 0 <= m
      BY ReadingFields, DivBelow DEF ViewsInv
    <2>2. collateralRatioBps = IF m = 0 THEN MaxUint ELSE (reading.equity * BPS) \div m
      BY DEF collateralRatioBps
    <2> HIDE DEF m
    <2>3. CASE m # 0
      BY <1>2, <2>1, <2>2, <2>3, ReadingFields DEF ViewsInv
    <2> QED BY <1>1, <2>2, <2>3
  <1>5. liquidationDistanceBps \in Nat
    BY <1>1, ReadingFields DEF liquidationDistanceBps, ViewsInv
  <1>6. deltaBps \in Int
    <2>1. reading.netDelta * BPS \in Int /\ reading.nav \in Nat \ {0}
      BY <1>1, ReadingFields DEF ViewsInv
    <2> QED BY <2>1, TruncInt DEF deltaBps
  <1>7. abs(deltaBps) \in Nat
    BY <1>6 DEF abs
  <1>8. fundingAprBps \in Int
    BY TruncInt, ReadingFields DEF fundingAprBps, ViewsInv
  <1>9. exposureBps \in Nat
    <2> DEFINE x == (reading.lent * BPS) \div reading.nav
               y == (reading.equity * BPS) \div reading.nav
    <2>1. x \in Nat /\ y \in Nat
      BY <1>2, ReadingFields DEF ViewsInv
    <2>2. exposureBps = Max({x, y})
      BY DEF exposureBps
    <2> HIDE DEF x, y
    <2> QED BY <2>1, <2>2, MaxOfPair
  <1>10. drawdownBps \in Int
    <2>1. (reading.peak - reading.pps) * BPS \in Int /\ reading.peak \in Nat \ {0}
      BY <1>1, ReadingFields DEF ViewsInv
    <2> QED BY <2>1, DivBelow DEF drawdownBps
  <1> QED BY <1>3, <1>4, <1>5, <1>6, <1>7, <1>8, <1>9, <1>10

-----------------------------------------------------------------------------
(* The band of the delta *)

LEMMA WithinBand == ASSUME ViewsInv PROVE WithinBandIsNoTrigger
  <1> DEFINE d == abs(deltaBps)
             x == Params.band * Params.volRef
             v == reading.vol
  <1>1. d \in Nat /\ v \in Nat /\ Params.band \in Nat /\ Params.volRef \in Nat /\ x \in Nat
    BY MetricTypes, ReadingFields, ViewsAssumption DEF ReadingsAreTyped, ViewsInv, ThresholdTypes
  <1>2. "DELTA" \in _triggers <=> d > scaledBand
    BY DEF _triggers
  <1>3. CASE v <= Params.volRef
    <2>1. scaledBand = Params.band /\ (withinBand <=> d <= Params.band)
      BY <1>3 DEF scaledBand, withinBand
    <2> HIDE DEF d
    <2> QED BY <1>1, <1>2, <2>1 DEF WithinBandIsNoTrigger
  <1>4. CASE ~(v <= Params.volRef)
    <2>1. v \in Nat \ {0}
      BY <1>1, <1>4
    <2>2. x \div v \in Int /\ (d <= x \div v <=> d * v <= x)
      BY <1>1, <2>1, DivBelow
    <2>3. Params.band \div 4 \in Int /\ (d <= Params.band \div 4 <=> d * 4 <= Params.band)
      BY <1>1, DivBelow
    <2>4. scaledBand = Max({x \div v, Params.band \div 4})
      BY <1>4 DEF scaledBand
    <2>5. withinBand <=> d * v <= x \/ d * 4 <= Params.band
      BY <1>4 DEF withinBand
    <2> DEFINE p == x \div v
               q == Params.band \div 4
    <2>6. Max({p, q}) = IF p >= q THEN p ELSE q
      BY <2>2, <2>3, MaxOfPair
    <2>7. p \in Int /\ q \in Int /\ scaledBand = Max({p, q})
      BY <2>2, <2>3, <2>4
    <2>8. withinBand <=> d <= p \/ d <= q
      BY <2>2, <2>3, <2>5
    <2> HIDE DEF p, q, d
    <2>9. withinBand <=> ~(d > scaledBand)
      BY <1>1, <2>6, <2>7, <2>8
    <2> QED BY <1>2, <2>9 DEF WithinBandIsNoTrigger
  <1> QED BY <1>3, <1>4

LEMMA BandIsNoWider == ASSUME ViewsInv PROVE effectiveBandBps \in Int /\ effectiveBandBps <= Params.band
  <1> DEFINE round(n, d) == (2 * n + d) \div (2 * d)
             b == Params.band
             v == reading.vol
             x == b * Params.volRef
  <1>1. v \in Nat /\ b \in Nat /\ Params.volRef \in Nat /\ x \in Nat
    BY ReadingFields, ViewsAssumption DEF ReadingsAreTyped, ViewsInv, ThresholdTypes
  <1>2. ASSUME NEW n \in Nat, NEW d \in Nat \ {0}, n <= b * d PROVE round(n, d) \in Int /\ round(n, d) <= b
    <2>1. 2 * n + d \in Int /\ 2 * d \in Nat \ {0} /\ b + 1 \in Int
      BY <1>1
    <2>2. round(n, d) \in Int /\ (b + 1 <= round(n, d) <=> (b + 1) * (2 * d) <= 2 * n + d)
      BY <2>1, DivBelow
    <2>3. (b + 1) * (2 * d) = 2 * (b * d) + 2 * d /\ b * d \in Nat
      <3>1. \A k, j \in Nat : (k + 1) * (2 * j) = 2 * (k * j) + 2 * j /\ k * j \in Nat
        OBVIOUS
      <3> QED BY <1>1, <3>1
    <2>4. ~((b + 1) * (2 * d) <= 2 * n + d)
      BY <1>2, <2>3
    <2> HIDE DEF round
    <2> QED BY <1>1, <2>2, <2>4
  <1>3. CASE v <= Params.volRef
    BY <1>1, <1>3 DEF effectiveBandBps
  <1>4. CASE ~(v <= Params.volRef)
    <2>1. v \in Nat \ {0} /\ x <= b * v
      BY <1>1, <1>4
    <2>2. round(x, v) \in Int /\ round(x, v) <= b
      BY <1>1, <1>2, <2>1
    <2>3. round(b, 4) \in Int /\ round(b, 4) <= b
      <3>1. b <= b * 4
        BY <1>1
      <3> QED BY <1>1, <1>2, <3>1
    <2>4. effectiveBandBps = Max({round(x, v), round(b, 4)})
      BY <1>4 DEF effectiveBandBps
    <2> HIDE DEF round
    <2> QED BY <2>2, <2>3, <2>4, MaxOfPair
  <1> QED BY <1>3, <1>4

-----------------------------------------------------------------------------
(* The alerts *)

AlertKeys == {"liquidation.distance", "delta.band", "funding.negative", "drawdown", "risk.state", "oracle.health",
              "liquidity.reserve", "breaker.shutdown", "breaker.deposits", "breaker.strategy", "keeper.urgent",
              "keeper.stale"}

LEMMA OtherAlerts ==
    ASSUME ViewsInv
    PROVE  /\ \A x \in marketAlerts : x[1] \in {"delta.band", "funding.negative", "drawdown"}
           /\ \A x \in systemAlerts : x[1] \in {"risk.state", "oracle.health", "liquidity.reserve", "breaker.shutdown",
                                               "breaker.deposits", "breaker.strategy"}
           /\ \A x \in keeperAlerts : x[1] \in {"keeper.urgent", "keeper.stale"}
           /\ \A x \in liquidationAlert : x[1] = "liquidation.distance"
  <1>1. \A x \in marketAlerts : x[1] \in {"delta.band", "funding.negative", "drawdown"}
    BY DEF marketAlerts
  <1>2. reading.paused \subseteq {"breaker.deposits", "breaker.strategy"}
    BY ReadingFields DEF ViewsInv
  <1>3. \A x \in systemAlerts : x[1] \in {"risk.state", "oracle.health", "liquidity.reserve", "breaker.shutdown",
                                         "breaker.deposits", "breaker.strategy"}
    BY <1>2 DEF systemAlerts
  <1>4. \A x \in keeperAlerts : x[1] \in {"keeper.urgent", "keeper.stale"}
    BY DEF keeperAlerts
  <1>5. \A x \in liquidationAlert : x[1] = "liquidation.distance"
    BY DEF liquidationAlert
  <1> QED BY <1>1, <1>3, <1>4, <1>5

\* No two alerts are of one key.
LEMMA OneAlertPerKey == ASSUME ViewsInv PROVE \A x, y \in evaluateAlerts : x[1] = y[1] => x = y
  <1>1. \A x, y \in liquidationAlert : x[1] = y[1] => x = y
    BY DEF liquidationAlert
  <1>2. \A x, y \in marketAlerts : x[1] = y[1] => x = y
    BY DEF marketAlerts
  <1>3. \A x, y \in systemAlerts : x[1] = y[1] => x = y
    <2>1. reading.paused \subseteq {"breaker.deposits", "breaker.strategy"}
      BY ReadingFields DEF ViewsInv
    <2> QED BY <2>1 DEF systemAlerts
  <1>4. \A x, y \in keeperAlerts : x[1] = y[1] => x = y
    BY DEF keeperAlerts
  <1> DEFINE Group(x) == IF x \in liquidationAlert THEN 1 ELSE IF x \in marketAlerts THEN 2
                         ELSE IF x \in systemAlerts THEN 3 ELSE 4
  <1>5. SUFFICES ASSUME NEW x \in evaluateAlerts, NEW y \in evaluateAlerts, x[1] = y[1] PROVE x = y
    OBVIOUS
  <1>6. \/ x \in liquidationAlert /\ y \in liquidationAlert
        \/ x \in marketAlerts /\ y \in marketAlerts
        \/ x \in systemAlerts /\ y \in systemAlerts
        \/ x \in keeperAlerts /\ y \in keeperAlerts
    BY <1>5, OtherAlerts DEF evaluateAlerts
  <1> QED BY <1>1, <1>2, <1>3, <1>4, <1>5, <1>6

LEMMA LiquidationMetric ==
    ASSUME ViewsInv, SharpThresholds
    PROVE  LET v == metrics.LIQUIDATION.value
           IN  /\ v # Null /\ v < Thresholds.liquidation.warn
                      <=> Short /\ reading.distance < Thresholds.liquidation.warn
               /\ Short /\ reading.distance < Thresholds.liquidation.warn => v = reading.distance
  <1> DEFINE w == Thresholds.liquidation.warn
             x == liquidationDistanceBps
             v == metrics.LIQUIDATION.value
  <1>1. v = finiteBps(x)
    BY DEF metrics
  <1>2. x = IF Short THEN reading.distance ELSE MaxUint
    BY DEF liquidationDistanceBps
  <1>3. w \in Int /\ w < MaxUint /\ reading.distance \in Nat /\ MaxUint \in Nat
    BY LimitTypes, ReadingFields DEF SharpThresholds, ViewsInv, MaxUint
  <1> HIDE DEF w, x, v
  <1>4. v = IF x = MaxUint THEN -1 ELSE x
    BY <1>1 DEF finiteBps, Null
  <1>5. v # -1 /\ v < w <=> Short /\ reading.distance < w
    BY <1>2, <1>3, <1>4
  <1>6. Short /\ reading.distance < w => v = reading.distance
    BY <1>2, <1>3, <1>4
  <1> QED BY <1>5, <1>6 DEF Null, w, v

LEMMA LiquidationAlerted == ASSUME ViewsInv, SharpThresholds PROVE LiquidationAlertIsTrigger
  <1> DEFINE v == metrics.LIQUIDATION.value
             due == Short /\ reading.distance < Thresholds.liquidation.warn
  <1>1. v # Null /\ v < Thresholds.liquidation.warn <=> due
    BY LiquidationMetric
  <1>2. "LIQUIDATION" \in _triggers <=> due
    BY DEF _triggers
  <1>3. Alerted("liquidation.distance") <=> due
    <2>1. ASSUME due PROVE Alerted("liquidation.distance")
      <3> DEFINE s == Severity(v < Thresholds.liquidation.high)
      <3>1. <<"liquidation.distance", s>> \in liquidationAlert
        BY <1>1, <2>1 DEF liquidationAlert
      <3>2. s \in {W, C}
        BY DEF Severity
      <3> HIDE DEF s
      <3> QED BY <3>1, <3>2 DEF Alerted, evaluateAlerts
    <2>2. ASSUME Alerted("liquidation.distance") PROVE due
      <3>1. PICK s \in {W, C} : <<"liquidation.distance", s>> \in evaluateAlerts
        BY <2>2 DEF Alerted
      <3> DEFINE x == <<"liquidation.distance", s>>
      <3>2. x \in liquidationAlert
        <4>1. x[1] = "liquidation.distance"
          OBVIOUS
        <4> HIDE DEF x
        <4> QED BY <3>1, <4>1, OtherAlerts DEF evaluateAlerts, x
      <3> HIDE DEF x, v, due
      <3> QED BY <1>1, <3>2 DEF liquidationAlert, v
    <2> QED BY <2>1, <2>2
  <1> QED BY <1>2, <1>3 DEF LiquidationAlertIsTrigger

LEMMA CriticalAlerts == ASSUME ViewsInv, SharpThresholds PROVE EmergenciesAreCritical
  <1>1. _assess.LIQUIDATION = EMERGENCY => <<"liquidation.distance", C>> \in evaluateAlerts
    <2> DEFINE t == Thresholds.liquidation
               x == liquidationDistanceBps
               v == metrics.LIQUIDATION.value
    <2> SUFFICES ASSUME _assess.LIQUIDATION = EMERGENCY
                 PROVE  <<"liquidation.distance", C>> \in evaluateAlerts
      OBVIOUS
    <2>1. _lowerWorse(x, t) = 3
      BY DEF _assess, EMERGENCY
    <2>2. /\ t.warn \in Int /\ t.high \in Int /\ t.critical \in Int /\ t.warn >= t.high /\ x \in Nat
          /\ t.critical < t.high /\ t.warn < MaxUint /\ MaxUint \in Nat /\ reading.distance \in Nat
      BY LimitTypes, ViewsAssumption, MetricTypes, ReadingFields DEF ReadingsAreTyped, ConfigOK, SharpThresholds, ViewsInv, MaxUint
    <2>3. x <= t.critical
      <3>1. _lowerWorse(x, t) = IF x <= t.critical THEN 3 ELSE IF x <= t.high THEN 2
                                ELSE IF x <= t.warn THEN 1 ELSE 0
        BY <2>2, Descending
      <3> HIDE DEF x, t
      <3> QED BY <2>1, <3>1
    <2>4. x = IF Short THEN reading.distance ELSE MaxUint
      BY DEF liquidationDistanceBps
    <2> HIDE DEF x
    <2>5. Short /\ reading.distance < t.warn /\ reading.distance < t.high
      <3> HIDE DEF t
      <3> QED BY <2>2, <2>3, <2>4
    <2>6. v = reading.distance /\ v # Null /\ v < t.warn
      BY <2>5, LiquidationMetric
    <2>7. Severity(v < t.high) = C
      BY <2>5, <2>6 DEF Severity
    <2>8. <<"liquidation.distance", C>> \in liquidationAlert
      BY <2>6, <2>7 DEF liquidationAlert
    <2> QED BY <2>8 DEF evaluateAlerts
  <1>2. _assess.DELTA = EMERGENCY => <<"delta.band", C>> \in evaluateAlerts
    <2> DEFINE t == Thresholds.delta
               d == abs(deltaBps)
    <2> SUFFICES ASSUME _assess.DELTA = EMERGENCY PROVE <<"delta.band", C>> \in evaluateAlerts
      OBVIOUS
    <2>1. _higherWorse(d, t) = 3
      BY DEF _assess, EMERGENCY
    <2>2. /\ t.high \in Int /\ t.critical \in Int /\ t.high < t.critical /\ Params.band < t.critical
          /\ Params.band \in Nat /\ d \in Nat /\ effectiveBandBps \in Int /\ effectiveBandBps <= Params.band
      BY LimitTypes, ViewsAssumption, MetricTypes, BandIsNoWider DEF ReadingsAreTyped, SharpThresholds, ThresholdTypes
    <2>3. d >= t.critical
      <3>1. _higherWorse(d, t) = IF d >= t.critical THEN 3 ELSE IF d >= t.high THEN 2
                                 ELSE IF d >= t.warn THEN 1 ELSE 0
        BY <2>2, Ascending
      <3> HIDE DEF d, t
      <3> QED BY <2>1, <3>1
    <2>4. d > effectiveBandBps /\ d > t.high
      <3> HIDE DEF d, t
      <3> QED BY <2>2, <2>3
    <2>5. <<"delta.band", C>> \in marketAlerts
      BY <2>4 DEF marketAlerts, Severity
    <2> QED BY <2>5 DEF evaluateAlerts
  <1>3. _assess.DRAWDOWN = EMERGENCY => <<"drawdown", C>> \in evaluateAlerts
    <2> DEFINE t == Thresholds.drawdown
               d == drawdownBps
    <2> SUFFICES ASSUME _assess.DRAWDOWN = EMERGENCY PROVE <<"drawdown", C>> \in evaluateAlerts
      OBVIOUS
    <2>1. _higherWorse(d, t) = 3
      BY DEF _assess, EMERGENCY
    <2>2. /\ t.warn \in Int /\ t.high \in Int /\ t.critical \in Int /\ t.warn <= t.high /\ t.high <= t.critical
          /\ d \in Int
      BY LimitTypes, ViewsAssumption, MetricTypes DEF ReadingsAreTyped, ConfigOK
    <2>3. d >= t.critical
      <3>1. _higherWorse(d, t) = IF d >= t.critical THEN 3 ELSE IF d >= t.high THEN 2
                                 ELSE IF d >= t.warn THEN 1 ELSE 0
        BY <2>2, Ascending
      <3> HIDE DEF d, t
      <3> QED BY <2>1, <3>1
    <2>4. d >= t.warn /\ d >= t.high
      <3> HIDE DEF d, t
      <3> QED BY <2>2, <2>3
    <2>5. metrics.DRAWDOWN.value = d
      BY DEF metrics
    <2>6. <<"drawdown", C>> \in marketAlerts
      BY <2>4, <2>5 DEF marketAlerts, Severity
    <2> QED BY <2>6 DEF evaluateAlerts
  <1> QED BY <1>1, <1>2, <1>3 DEF EmergenciesAreCritical

-----------------------------------------------------------------------------
(* The levels *)

\* A metric without a value is at rest, and the contract would say the same of
\* it; except for an infinite leverage, which the collateral ratio tells.
LEMMA LevelsAreThose ==
    ASSUME ViewsInv, SharpThresholds
    PROVE  /\ metrics.DELTA.level = _assess.DELTA /\ metrics.DRAWDOWN.level = _assess.DRAWDOWN
           /\ metrics.LIQUIDATION.level = _assess.LIQUIDATION /\ metrics.COLLATERAL.level = _assess.COLLATERAL
           /\ metrics.FUNDING.level = _assess.FUNDING /\ metrics.EXPOSURE.level = _assess.EXPOSURE
           /\ \A f \in DOMAIN _assess : _assess[f] \in 0..3
           /\ metrics.LEVERAGE.level \in 0..3
           /\ metrics.LEVERAGE.level = _assess.LEVERAGE \/ _assess.COLLATERAL = 3
  <1> USE DEF Null, NORMAL, WARNING, HIGH_RISK
  <1>1. ASSUME NEW m \in {"leverage", "delta", "drawdown", "exposure"}, NEW v \in Int
        PROVE  /\ _higherWorse(v, Thresholds[m]) \in 0..3
               /\ level(v, Thresholds[m], TRUE) = _higherWorse(v, Thresholds[m])
    <2> DEFINE t == Thresholds[m]
    <2>1. /\ t.warn \in Int /\ t.high \in Int /\ t.critical \in Int
          /\ 0 < t.warn /\ t.warn <= t.high /\ t.high <= t.critical
          /\ _higherWorse(v, t) = IF v >= t.critical THEN 3 ELSE IF v >= t.high THEN 2
                                  ELSE IF v >= t.warn THEN 1 ELSE 0
      BY Ascending
    <2> DEFINE h == _higherWorse(v, t)
    <2>2. level(v, t, TRUE) = IF v = -1 THEN 0 ELSE h
      BY DEF level
    <2>4. h = IF v >= t.critical THEN 3 ELSE IF v >= t.high THEN 2 ELSE IF v >= t.warn THEN 1 ELSE 0
      BY <2>1
    <2> HIDE DEF t, h
    <2>5. h \in 0..3
      BY <2>4
    <2>6. v = -1 => h = 0
      BY <2>1, <2>4
    <2>3. h \in 0..3 /\ level(v, t, TRUE) = h
      BY <2>2, <2>5, <2>6
    <2> QED BY <2>3 DEF t, h
  <1>2. ASSUME NEW m \in {"liquidation", "collateral"}, NEW v \in Nat
        PROVE  /\ _lowerWorse(v, Thresholds[m]) \in 0..3
               /\ level(finiteBps(v), Thresholds[m], FALSE) = _lowerWorse(v, Thresholds[m])
    <2> DEFINE t == Thresholds[m]
    <2>1. /\ t.warn \in Int /\ t.high \in Int /\ t.critical \in Int
          /\ t.warn >= t.high /\ t.high >= t.critical /\ t.warn < MaxUint /\ MaxUint \in Nat
          /\ _lowerWorse(v, t) = IF v <= t.critical THEN 3 ELSE IF v <= t.high THEN 2
                                 ELSE IF v <= t.warn THEN 1 ELSE 0
      BY Descending DEF SharpThresholds, MaxUint
    <2> DEFINE h == _lowerWorse(v, t)
    <2>2. level(finiteBps(v), t, FALSE) = IF v = MaxUint THEN 0 ELSE h
      BY DEF level, finiteBps
    <2>4. h = IF v <= t.critical THEN 3 ELSE IF v <= t.high THEN 2 ELSE IF v <= t.warn THEN 1 ELSE 0
      BY <2>1
    <2> HIDE DEF t, h
    <2>5. h \in 0..3
      BY <2>4
    <2>6. v = MaxUint => h = 0
      BY <2>1, <2>4
    <2>3. h \in 0..3 /\ level(finiteBps(v), t, FALSE) = h
      BY <2>2, <2>5, <2>6
    <2> QED BY <2>3 DEF t, h
  <1>3. metrics.DELTA.level = _assess.DELTA /\ _assess.DELTA \in 0..3
    <2>1. abs(deltaBps) \in Int
      BY MetricTypes
    <2> QED BY <1>1, <2>1 DEF metrics, _assess
  <1>4. metrics.DRAWDOWN.level = _assess.DRAWDOWN /\ _assess.DRAWDOWN \in 0..3
    BY <1>1, MetricTypes DEF metrics, _assess
  <1>5. metrics.LIQUIDATION.level = _assess.LIQUIDATION /\ _assess.LIQUIDATION \in 0..3
    BY <1>2, MetricTypes DEF metrics, _assess
  <1>6. metrics.COLLATERAL.level = _assess.COLLATERAL /\ _assess.COLLATERAL \in 0..3
    BY <1>2, MetricTypes DEF metrics, _assess
  <1>7. metrics.EXPOSURE.level = _assess.EXPOSURE /\ _assess.EXPOSURE \in 0..3
    <2> DEFINE h == _higherWorse(exposureBps, Thresholds.exposure)
    <2>1. h \in 0..3 /\ level(exposureBps, Thresholds.exposure, TRUE) = h
      <3>1. exposureBps \in Int
        BY MetricTypes
      <3> QED BY <1>1, <3>1
    <2>2. metrics.EXPOSURE.level = Min({h, 1}) /\ _assess.EXPOSURE = Min({h, 1})
      BY <2>1 DEF metrics, _assess
    <2> HIDE DEF h
    <2>3. Min({h, 1}) \in 0..3
      BY <2>1, MinOfPair
    <2> QED BY <2>2, <2>3
  <1>8. metrics.FUNDING.level = _assess.FUNDING /\ _assess.FUNDING \in 0..3
    <2> DEFINE x == fundingAprBps
               w == Thresholds.fundingWarn
               h == Thresholds.fundingHigh
               L == {l \in {1, 2} : Short /\ x < IF l = 1 THEN w ELSE h}
    <2>1. x \in Int /\ w \in Int /\ h \in Int /\ h <= w
      BY MetricTypes, ViewsAssumption DEF ReadingsAreTyped, ThresholdTypes, ConfigOK
    <2>2. metrics.FUNDING.level = Max({0} \cup L)
      BY DEF metrics
    <2>3. _assess.FUNDING = IF ~Short THEN 0 ELSE IF x < h THEN 2 ELSE IF x < w THEN 1 ELSE 0
      BY DEF _assess, _fundingLevel
    <2>4. /\ 2 \in L <=> Short /\ x < h
          /\ 1 \in L <=> Short /\ x < w
          /\ L \subseteq {1, 2}
      OBVIOUS
    <2> HIDE DEF x, w, h, L
    <2>5. CASE 2 \in L
      <3>1. Max({0} \cup L) = 2
        <4>1. 2 \in {0} \cup L /\ {0} \cup L \in SUBSET Int /\ \A y \in {0} \cup L : y <= 2
          BY <2>4, <2>5
        <4> QED BY <4>1, MaxIs
      <3> QED BY <2>1, <2>2, <2>3, <2>4, <2>5, <3>1
    <2>6. CASE 2 \notin L /\ 1 \in L
      <3>1. Max({0} \cup L) = 1
        <4>1. 1 \in {0} \cup L /\ {0} \cup L \in SUBSET Int /\ \A y \in {0} \cup L : y <= 1
          BY <2>4, <2>6
        <4> QED BY <4>1, MaxIs
      <3> QED BY <2>1, <2>2, <2>3, <2>4, <2>6, <3>1
    <2>7. CASE 2 \notin L /\ 1 \notin L
      <3>1. Max({0} \cup L) = 0
        <4>1. 0 \in {0} \cup L /\ {0} \cup L \in SUBSET Int /\ \A y \in {0} \cup L : y <= 0
          BY <2>4, <2>7
        <4> QED BY <4>1, MaxIs
      <3> QED BY <2>1, <2>2, <2>3, <2>4, <2>7, <3>1
    <2> QED BY <2>5, <2>6, <2>7
  <1>9. _assess.POSITION_SIZE \in 0..3 /\ _assess.ORACLE \in 0..3
    BY DEF _assess
  <1>10. _assess.LEVERAGE \in 0..3
    <2>1. leverageBps \in Int
      BY MetricTypes
    <2> QED BY <1>1, <2>1 DEF _assess
  <1>11. \A f \in DOMAIN _assess : _assess[f] \in 0..3
    <2>1. DOMAIN _assess = {"LEVERAGE", "DELTA", "DRAWDOWN", "LIQUIDATION", "COLLATERAL", "EXPOSURE", "FUNDING",
                            "POSITION_SIZE", "ORACLE"}
      BY DEF _assess
    <2> QED BY <1>3, <1>4, <1>5, <1>6, <1>7, <1>8, <1>9, <1>10, <2>1
  <1>12. CASE leverageBps # MaxUint
    <2>1. metrics.LEVERAGE.level = _assess.LEVERAGE
      <3>1. finiteBps(leverageBps) = leverageBps /\ leverageBps \in Int
        BY <1>12, MetricTypes DEF finiteBps
      <3>2. level(leverageBps, Thresholds.leverage, TRUE) = _higherWorse(leverageBps, Thresholds.leverage)
        BY <1>1, <3>1
      <3> QED BY <3>1, <3>2 DEF metrics, _assess
    <2> QED BY <1>3, <1>4, <1>5, <1>6, <1>7, <1>8, <1>10, <1>11, <2>1
  <1>13. CASE leverageBps = MaxUint
    <2>1. metrics.LEVERAGE.level = 0
      BY <1>13 DEF metrics, finiteBps, level
    <2>2. _assess.COLLATERAL = 3
      <3> DEFINE n == reading.notional
                 e == reading.equity
                 m == n \div 20
                 k == Thresholds.collateral.critical
      <3>1. n \in Nat /\ e \in Nat /\ n # 0 /\ n >= 20
        <4>1. Short
          BY <1>13 DEF leverageBps, MaxUint
        <4> QED BY <4>1, ReadingFields DEF ViewsInv, Short
      <3>2. m \in Nat \ {0}
        <4>1. m \in Int /\ 1 <= m
          BY <3>1, DivBelow
        <4> QED BY <4>1
      <3>3. e <= m
        <4>1. CASE e = 0
          BY <3>2, <4>1
        <4>2. CASE e # 0
          <5>1. leverageBps = (n * 10000) \div e
            BY <3>1, <4>2 DEF leverageBps, Short, BPS
          <5>2. e \in Nat \ {0} /\ n * 10000 \in Int /\ 1000000000 <= (n * 10000) \div e
            BY <1>13, <3>1, <4>2, <5>1 DEF MaxUint
          <5>3. 1000000000 * e <= n * 10000
            BY <5>2, DivBelow
          <5>4. e * 20 <= n
            BY <3>1, <5>3
          <5> QED BY <3>1, <5>4, DivBelow
        <4> QED BY <4>1, <4>2
      <3>4. collateralRatioBps = (e * 10000) \div m
        BY <3>2 DEF collateralRatioBps, BPS
      <3>5. (e * 10000) \div m <= 10000
        <4> HIDE DEF m, e
        <4>1. e * 10000 \in Int /\ (e * 10000) \div m \in Int
          BY <3>1, <3>2, DivBelow DEF e
        <4>2. 10001 <= (e * 10000) \div m <=> 10001 * m <= e * 10000
          BY <3>2, <4>1, DivBelow
        <4>3. ~(10001 * m <= e * 10000)
          <5>1. e \in Nat
            BY <3>1
          <5> QED BY <3>2, <3>3, <5>1
        <4> QED BY <4>1, <4>2, <4>3
      <3>6. k \in Int /\ k >= 10000 /\ collateralRatioBps \in Nat
        BY LimitTypes, MetricTypes DEF SharpThresholds, BPS
      <3>7. collateralRatioBps <= k
        <4> HIDE DEF m, e, k
        <4> QED BY <3>4, <3>5, <3>6
      <3>8. _lowerWorse(collateralRatioBps, Thresholds.collateral) = 3
        BY <3>6, <3>7, Descending
      <3> QED BY <3>8 DEF _assess
    <2> QED BY <1>3, <1>4, <1>5, <1>6, <1>7, <1>8, <1>11, <2>1, <2>2
  <1> QED BY <1>12, <1>13

LEMMA MaxOfLevels ==
    ASSUME NEW S \in SUBSET (0..3), S # {} PROVE Max(S) \in S /\ \A x \in S : x <= Max(S)
  <1>1. \E k \in S : \A x \in S : k >= x
    <2>1. CASE 3 \in S
      <3>1. \A x \in S : 3 >= x
        OBVIOUS
      <3> QED BY <2>1, <3>1
    <2>2. CASE 3 \notin S /\ 2 \in S
      <3>1. \A x \in S : 2 >= x
        BY <2>2
      <3> QED BY <2>2, <3>1
    <2>3. CASE 3 \notin S /\ 2 \notin S /\ 1 \in S
      <3>1. \A x \in S : 1 >= x
        BY <2>3
      <3> QED BY <2>3, <3>1
    <2>4. CASE 3 \notin S /\ 2 \notin S /\ 1 \notin S
      <3>1. \A x \in S : x = 0
        BY <2>4
      <3>2. 0 \in S
        BY <3>1
      <3>3. \A x \in S : 0 >= x
        BY <3>1
      <3> QED BY <3>2, <3>3
    <2> QED BY <2>1, <2>2, <2>3, <2>4
  <1>2. PICK k \in S : \A x \in S : k >= x
    BY <1>1
  <1>3. Max(S) = k
    <2>1. S \in SUBSET Int
      OBVIOUS
    <2> QED BY <1>2, <2>1, MaxIs
  <1> QED BY <1>2, <1>3

LEMMA WorstMetric == ASSUME ViewsInv, SharpThresholds PROVE StateIsWorstMetric
  <1> DEFINE S == {_assess[f] : f \in DOMAIN _assess}
             T == {metrics[m].level : m \in DOMAIN metrics} \cup {_assess.POSITION_SIZE, _assess.ORACLE}
  <1>1. DOMAIN _assess = {"LEVERAGE", "DELTA", "DRAWDOWN", "LIQUIDATION", "COLLATERAL", "EXPOSURE", "FUNDING",
                          "POSITION_SIZE", "ORACLE"}
    BY DEF _assess
  <1>2. DOMAIN metrics = {"LEVERAGE", "DELTA", "DRAWDOWN", "LIQUIDATION", "COLLATERAL", "FUNDING", "EXPOSURE"}
    BY DEF metrics
  <1>3. S = {_assess.LEVERAGE, _assess.DELTA, _assess.DRAWDOWN, _assess.LIQUIDATION, _assess.COLLATERAL,
             _assess.EXPOSURE, _assess.FUNDING, _assess.POSITION_SIZE, _assess.ORACLE}
    BY <1>1
  <1>4. T = {metrics.LEVERAGE.level, metrics.DELTA.level, metrics.DRAWDOWN.level, metrics.LIQUIDATION.level,
             metrics.COLLATERAL.level, metrics.FUNDING.level, metrics.EXPOSURE.level,
             _assess.POSITION_SIZE, _assess.ORACLE}
    BY <1>2
  <1>5. state = Max(S) /\ (StateIsWorstMetric <=> state = Max(T))
    BY DEF state, StateIsWorstMetric
  <1>6. S \in SUBSET (0..3) /\ S # {}
    BY <1>1, LevelsAreThose
  <1>7. T \in SUBSET (0..3) /\ T # {}
    BY <1>1, <1>4, LevelsAreThose
  <1>8. CASE metrics.LEVERAGE.level = _assess.LEVERAGE
    <2>1. S = T
      BY <1>3, <1>4, <1>8, LevelsAreThose
    <2> QED BY <1>5, <2>1
  <1>9. CASE _assess.COLLATERAL = 3
    <2>1. 3 \in S /\ 3 \in T
      BY <1>3, <1>4, <1>9, LevelsAreThose
    <2> HIDE DEF S, T
    <2>2. Max(S) = 3 /\ Max(T) = 3
      <3>1. S \in SUBSET Int /\ T \in SUBSET Int /\ (\A x \in S : x <= 3) /\ \A x \in T : x <= 3
        BY <1>6, <1>7
      <3> QED BY <2>1, <3>1, MaxIs
    <2> QED BY <1>5, <2>2
  <1> QED BY <1>8, <1>9, LevelsAreThose

LEMMA ViewsTyped == ASSUME ViewsInv, SharpThresholds PROVE ViewsTypeOK
  <1>1. \A m \in DOMAIN metrics : metrics[m].level \in NORMAL..EMERGENCY
    <2>1. DOMAIN metrics = {"LEVERAGE", "DELTA", "DRAWDOWN", "LIQUIDATION", "COLLATERAL", "FUNDING", "EXPOSURE"}
      BY DEF metrics
    <2>2. {"DELTA", "DRAWDOWN", "LIQUIDATION", "COLLATERAL", "FUNDING", "EXPOSURE"} \subseteq DOMAIN _assess
      BY DEF _assess
    <2>3. NORMAL..EMERGENCY = 0..3
      BY DEF NORMAL, EMERGENCY
    <2>4. /\ metrics.LEVERAGE.level \in 0..3 /\ metrics.DELTA.level \in 0..3 /\ metrics.DRAWDOWN.level \in 0..3
          /\ metrics.LIQUIDATION.level \in 0..3 /\ metrics.COLLATERAL.level \in 0..3
          /\ metrics.FUNDING.level \in 0..3 /\ metrics.EXPOSURE.level \in 0..3
      BY <2>2, LevelsAreThose
    <2> QED BY <2>1, <2>3, <2>4
  <1> QED BY <1>1, OneAlertPerKey DEF ViewsTypeOK, ViewsInv

\* Whatever the quantities of a reading: the state the contract reports is the
\* worst level the API shows, the delta view and the liquidation alert say what
\* the planner's triggers say, and what is an emergency of its own is alerted on
\* as critical.
THEOREM ViewsAgreeAlways == ASSUME SharpThresholds, ShortsHaveMargin PROVE ViewsSpec => []ViewsAgree
  <1>1. ViewsInv => ViewsAgree
    BY ViewsTyped, WorstMetric, WithinBand, LiquidationAlerted, CriticalAlerts DEF ViewsAgree
  <1>2. (ViewsInit => ViewsInv) /\ (ViewsInv /\ [ViewsNext]_reading => ViewsInv')
    BY ViewsStart, ViewsKeep
  <1> QED BY <1>1, <1>2, PTL DEF ViewsSpec
=============================================================================
