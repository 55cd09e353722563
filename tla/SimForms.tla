------------------------------- MODULE SimForms -------------------------------
(***************************************************************************)
(* Simulations on request: the custom scenario, the Monte Carlo and the     *)
(* lookup of the simulation page (frontend/src/app/simulation), the two     *)
(* endpoints they use (backend/src/api/server.ts, service.ts) and the table *)
(* the runs are stored in (backend/src/db/repo.ts).                         *)
(*                                                                          *)
(* Of a simulation's result only the target leverage it ran with is kept:   *)
(* what is run on a configuration is the subject of SimEngine and of        *)
(* SimExperiments.  The form fields that are optional and passed on without *)
(* a check are represented by one, the leverage override.                   *)
(***************************************************************************)
EXTENDS Integers, Sequences, SequencesExt, FiniteSets

CONSTANTS Blank, Junk,  \* what is in a field that is not a number
          Fraction,     \* a number that is not whole
          Undefined,
          Typed,        \* per card: the contents of its form
          Defaults,     \* per card: what is in its form when the page opens
          LookedUp,     \* ids that are looked up
          ChainTargets,    \* targets the chain may be configured with
          MaxRuns,      \* bound: requests
          MaxFormsFaults     \* bound: outages, lost connections and crashes

ASSUME SimFormsAssumption ==
    /\ Undefined \notin {Blank, Junk} /\ 2 \in ChainTargets
    /\ DOMAIN Typed = {"custom", "montecarlo"}
    /\ Defaults = [c \in DOMAIN Typed |-> Defaults[c]] /\ \A c \in DOMAIN Typed : Defaults[c] \in Typed[c]
    /\ \A f \in Typed["custom"] : DOMAIN f = {"priceMovePct", "moveDays", "horizonDays", "leverage"}
    /\ \A f \in Typed["montecarlo"] : DOMAIN f = {"paths", "days", "seed"}
    /\ MaxRuns \in Nat /\ MaxFormsFaults \in Nat
    /\ LookedUp \subseteq 1..MaxRuns

Cards == {"custom", "montecarlo"}
DEFAULT_STRATEGY == 2    \* the simulator's own target leverage

VARIABLES form,      \* per card: the contents of the fields
          mutation,       \* per card: the mutation of react-query
          reqs,      \* the requests of the two cards, as they were made
          table,     \* simulation_results
          asked,     \* the id that is looked up
          stored,    \* react-query's cache of stored simulations
          target,     \* the target leverage configured on chain
          stopped,      \* what is not working of "api", "db" and "rpc"
          formsFaults

formsState == <<form, mutation>>
lookup == <<asked, stored>>
env == <<target, stopped, formsFaults>>
formsVars == <<formsState, reqs, table, lookup, env>>

IdleRun == [status |-> "idle", req |-> 0, id |-> 0]
NotLoaded == [status |-> "none", row |-> Undefined]

FormsInit ==
    /\ form = Defaults
    /\ mutation = [c \in Cards |-> IdleRun]
    /\ reqs = <<>> /\ table = <<>>
    /\ asked = 0 /\ stored = [id \in LookedUp |-> NotLoaded]
    /\ target \in ChainTargets /\ stopped = {} /\ formsFaults = 0

-----------------------------------------------------------------------------
(* The forms *)

num(text) == IF text \in {Blank, Junk} THEN Undefined ELSE text

Within(text, low, high) == num(text) # Undefined /\ low <= num(text) /\ num(text) <= high

Type(c) ==
    /\ form' \in {[form EXCEPT ![c] = f] : f \in Typed[c]}
    /\ UNCHANGED <<mutation, reqs, table, lookup, env>>

acceptsCustom(f) ==
    /\ num(f.priceMovePct) # Undefined /\ f.priceMovePct > -100
    /\ Within(f.moveDays, 0, 365) /\ Within(f.horizonDays, 1, 365)

\* Mutant: the seed only has to be a number.
acceptsAnySeed(f) == Within(f.paths, 1, 500) /\ Within(f.days, 1, 730) /\ num(f.seed) # Undefined

acceptsPaths(f) ==
    /\ \A k \in DOMAIN f : num(f[k]) # Fraction
    /\ Within(f.paths, 1, 500) /\ Within(f.days, 1, 730) /\ num(f.seed) # Undefined

(* The form has no error of its own. *)
accepts(c) == IF c = "custom" THEN acceptsCustom(form[c]) ELSE acceptsPaths(form[c])

(* The request; what is undefined is not in its JSON. *)
body(c) ==
    LET f == form[c]
        given == {k \in DOMAIN f : num(f[k]) # Undefined}
    IN  [k \in given |-> f[k]]

Leverage(input) == IF "leverage" \in DOMAIN input THEN input.leverage ELSE Undefined

Submit(c) ==
    /\ mutation[c].status # "pending"
    /\ accepts(c) /\ Len(reqs) < MaxRuns
    /\ reqs' = Append(reqs, [card |-> c, body |-> body(c), at |-> "sent", ran |-> Undefined, id |-> 0])
    /\ mutation' = [mutation EXCEPT ![c] = [status |-> "pending", req |-> Len(reqs) + 1, id |-> 0]]
    /\ UNCHANGED <<form, table, lookup, env>>

-----------------------------------------------------------------------------
(* POST /simulation *)

Progress(i, at) == reqs' = [reqs EXCEPT ![i].at = at]

(* The schema of the body: its properties, the whole numbers among them. *)
simulationRequest ==
    [custom |-> {"priceMovePct", "moveDays", "horizonDays", "leverage"},
     montecarlo |-> {"paths", "days", "seed"}]
Valid(i) ==
    /\ DOMAIN reqs[i].body \subseteq UNION {simulationRequest[c] : c \in Cards}
    /\ \A k \in DOMAIN reqs[i].body \cap simulationRequest.montecarlo : reqs[i].body[k] # Fraction

(* badRequest *)
missing(i) ==
    reqs[i].card = "custom" /\ ~({"priceMovePct", "moveDays", "horizonDays"} \subseteq DOMAIN reqs[i].body)

\* Mutant: the overrides of the request are not passed on.
strategyOf(input) == target

strategy(input) == IF Leverage(input) = Undefined THEN target ELSE Leverage(input)

(* state(), then without another await the simulation. *)
simulate(i) ==
    /\ reqs[i].at = "sent" /\ "api" \notin stopped
    /\ IF ~Valid(i) THEN Progress(i, "400")
       ELSE IF "rpc" \in stopped THEN Progress(i, "500")
       ELSE IF missing(i) THEN Progress(i, "400")
       ELSE reqs' = [reqs EXCEPT ![i].at = "run", ![i].ran = strategy(reqs[i].body)]
    /\ UNCHANGED <<formsState, table, lookup, env>>

Row(i) == [id |-> Len(table) + 1, kind |-> reqs[i].card, input |-> reqs[i].body, result |-> reqs[i].ran, req |-> i]

\* Mutant: the id of the run is the number of rows before it is stored.
saveStale(i) ==
    /\ reqs[i].at = "run"
    /\ IF "db" \in stopped THEN Progress(i, "500") /\ UNCHANGED table
       ELSE /\ table' = Append(table, Row(i))
            /\ reqs' = [reqs EXCEPT ![i].at = "200", ![i].id = Max({1, Len(table)})]
    /\ UNCHANGED <<formsState, lookup, env>>

\* Mutant: the id is taken from a sequence that has already moved on.
saveAhead(i) ==
    /\ reqs[i].at = "run"
    /\ table' = Append(table, Row(i))
    /\ reqs' = [reqs EXCEPT ![i].at = "200", ![i].id = Len(table) + 2]
    /\ UNCHANGED <<formsState, lookup, env>>

saveSimulation(i) ==
    /\ reqs[i].at = "run"
    /\ IF "db" \in stopped THEN Progress(i, "500") /\ UNCHANGED table
       ELSE /\ table' = Append(table, Row(i))
            /\ reqs' = [reqs EXCEPT ![i].at = "200", ![i].id = Len(table) + 1]
    /\ UNCHANGED <<formsState, lookup, env>>

Waiting(i) == mutation[reqs[i].card].req = i /\ mutation[reqs[i].card].status = "pending"
MutationFails(i) == mutation' = [mutation EXCEPT ![reqs[i].card].status = "error"]

\* Mutant: a failure that is answered leaves the button disabled.
answerOnlySuccess(i) ==
    /\ reqs[i].at = "200" /\ Waiting(i)
    /\ mutation' = [mutation EXCEPT ![reqs[i].card] = [@ EXCEPT !.status = "success", !.id = reqs[i].id]]
    /\ Progress(i, "done")
    /\ UNCHANGED <<form, table, lookup, env>>

(* The mutation settles with the response. *)
answer(i) ==
    /\ reqs[i].at \in {"200", "400", "500"} /\ Waiting(i)
    /\ IF reqs[i].at = "200"
       THEN mutation' = [mutation EXCEPT ![reqs[i].card] = [@ EXCEPT !.status = "success", !.id = reqs[i].id]]
       ELSE MutationFails(i)
    /\ Progress(i, "done")
    /\ UNCHANGED <<form, table, lookup, env>>

(* A mutation that failed is not retried, whatever became of the request. *)
Unreachable(i) ==
    /\ Waiting(i) /\ reqs[i].at = "sent" /\ "api" \in stopped
    /\ MutationFails(i) /\ Progress(i, "done")
    /\ UNCHANGED <<form, table, lookup, env>>

-----------------------------------------------------------------------------
(* Looking up a stored simulation *)

\* Mutant: the cache has one entry, for whatever was asked last.
LoadIntoOne(id) ==
    /\ asked' = id
    /\ stored' = [stored EXCEPT ![id] = IF asked = 0 THEN [@ EXCEPT !.status = "fetching"] ELSE stored[asked]]
    /\ UNCHANGED <<formsState, reqs, table, env>>

(* The query of another id is observed, and the fetch of the last aborted;
   what was loaded stays fresh for ever. *)
Load(id) ==
    /\ id # asked /\ asked' = id
    /\ stored' = [k \in LookedUp |->
         IF k = id /\ stored[k].status # "ok" THEN [stored[k] EXCEPT !.status = "fetching"]
         ELSE IF k = asked /\ stored[k].status = "fetching" THEN NotLoaded ELSE stored[k]]
    /\ UNCHANGED <<formsState, reqs, table, env>>

found(id) == id \in DOMAIN table

getSimulation(id) ==
    /\ stored[id].status = "fetching"
    /\ stored' = [stored EXCEPT ![id] =
         IF "api" \in stopped THEN [status |-> "unreachable", row |-> Undefined]
         ELSE IF "db" \in stopped THEN [status |-> "failed", row |-> Undefined]
         ELSE IF found(id) THEN [status |-> "ok", row |-> <<table[id]>>]
         ELSE [status |-> "missing", row |-> Undefined]]
    /\ UNCHANGED <<formsState, reqs, table, asked, env>>

(* The "Retry now" button of the error. *)
RetryNow ==
    /\ asked # 0 /\ stored[asked].status \in {"unreachable", "failed", "missing"}
    /\ stored' = [stored EXCEPT ![asked].status = "fetching"]
    /\ UNCHANGED <<formsState, reqs, table, asked, env>>

-----------------------------------------------------------------------------
(* The surroundings *)

Retarget ==
    /\ target' \in ChainTargets \ {target}
    /\ UNCHANGED <<formsState, reqs, table, lookup, stopped, formsFaults>>

(* A process stops.  With the API go the requests it was working on; the
   connections break. *)
ProcessStops(what) ==
    /\ formsFaults < MaxFormsFaults /\ formsFaults' = formsFaults + 1
    /\ what \notin stopped /\ stopped' = stopped \cup {what}
    /\ IF what = "api"
       THEN LET cut == {i \in DOMAIN reqs : reqs[i].at # "done"} IN
            /\ reqs' = [i \in DOMAIN reqs |-> IF i \in cut THEN [reqs[i] EXCEPT !.at = "done"] ELSE reqs[i]]
            /\ mutation' = [c \in Cards |-> IF mutation[c].status = "pending" THEN [mutation[c] EXCEPT !.status = "error"] ELSE mutation[c]]
       ELSE UNCHANGED <<reqs, mutation>>
    /\ UNCHANGED <<form, table, lookup, target>>

Return(what) == what \in stopped /\ stopped' = stopped \ {what} /\ UNCHANGED <<formsState, reqs, table, lookup, target, formsFaults>>

\* Mutant: mutations are retried like the queries are.
SendAgain(i) ==
    /\ formsFaults < MaxFormsFaults /\ formsFaults' = formsFaults + 1
    /\ Waiting(i) /\ Progress(i, "sent")
    /\ UNCHANGED <<formsState, table, lookup, target, stopped>>

(* The connection breaks; the API carries on with the request. *)
ConnectionLost(i) ==
    /\ formsFaults < MaxFormsFaults /\ formsFaults' = formsFaults + 1
    /\ Waiting(i) /\ MutationFails(i)
    /\ UNCHANGED <<form, reqs, table, lookup, target, stopped>>

ServeRun(i) == simulate(i) \/ saveSimulation(i) \/ answer(i) \/ Unreachable(i)

FormsNext ==
    \/ \E c \in Cards : Type(c) \/ Submit(c)
    \/ \E i \in DOMAIN reqs : ServeRun(i) \/ ConnectionLost(i)
    \/ \E id \in LookedUp : Load(id) \/ getSimulation(id)
    \/ RetryNow \/ Retarget
    \/ \E what \in {"api", "db", "rpc"} : ProcessStops(what) \/ Return(what)

(* Requests are worked on, fetches end, and what is down comes back. *)
FormsFairness ==
    /\ \A i \in 1..MaxRuns : WF_formsVars(i \in DOMAIN reqs /\ ServeRun(i))
    /\ \A id \in LookedUp : WF_formsVars(getSimulation(id))
    /\ \A what \in {"api", "db", "rpc"} : WF_formsVars(Return(what))

FormsSpec == FormsInit /\ [][FormsNext]_formsVars /\ FormsFairness

-----------------------------------------------------------------------------
FormsTypeOK ==
    /\ \A c \in Cards : form[c] \in Typed[c] /\ mutation[c].status \in {"idle", "pending", "success", "error"}
    /\ \A i \in DOMAIN reqs : reqs[i].at \in {"sent", "run", "200", "400", "500", "done"} /\ reqs[i].id \in 0..Len(table)
    /\ \A id \in LookedUp : stored[id].status \in {"none", "fetching", "ok", "unreachable", "failed", "missing"}
    /\ asked \in 0..MaxRuns /\ stopped \subseteq {"api", "db", "rpc"} /\ formsFaults \in 0..MaxFormsFaults

(* "saved as simulation #id": the row of that id is of this card, has the
   input of the run on display and the result that is shown under it, while
   the other card's run is stored in between. *)
SavedIsShown ==
    \A c \in Cards : mutation[c].status = "success" =>
        /\ mutation[c].id \in DOMAIN table
        /\ table[mutation[c].id].kind = c
        /\ table[mutation[c].id].req = mutation[c].req
        /\ table[mutation[c].id].result = reqs[mutation[c].req].ran

(* A run is stored once, also when its connection broke after it was made. *)
OneRowPerRun == \A a, b \in DOMAIN table : table[a].req = table[b].req => a = b

(* What a form accepts is never refused by the API. *)
AcceptedIsRunnable == \A i \in DOMAIN reqs : reqs[i].at # "400"

(* An override in the form is what was run, in every stored result. *)
OverrideIsRun ==
    \A n \in DOMAIN table :
        Leverage(table[n].input) # Undefined => table[n].result = Leverage(table[n].input)

(* The lookup shows the row it was asked for, and never another's. *)
LookupIsStored ==
    asked # 0 /\ stored[asked].status = "ok" =>
        asked \in DOMAIN table /\ stored[asked].row = <<table[asked]>>

(* A run that was started ends: the button is not disabled for ever. *)
EveryRunEnds == \A c \in Cards : mutation[c].status = "pending" ~> mutation[c].status # "pending"

(* The forms, the requests and the stored rows belong together. *)
FormsHold ==
    FormsTypeOK /\ SavedIsShown /\ OneRowPerRun /\ AcceptedIsRunnable /\ OverrideIsRun /\ LookupIsStored
=============================================================================
