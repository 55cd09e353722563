------------------------------- MODULE Indexer -------------------------------
(***************************************************************************)
(* The pull-based event indexer (backend/src/indexer.ts) and the tables it  *)
(* fills (backend/src/db/migrations/001_init.sql).                          *)
(*                                                                          *)
(* A run reads the head and the stored watermark, then works through the    *)
(* blocks in chunks: fetch the logs of the eight contracts, write one row   *)
(* per log of interest with a query each, and store the new watermark.      *)
(* Nothing makes the rows and the watermark one transaction, any await may  *)
(* throw, the process may die between two of them, and two processes (the   *)
(* modes `all` and `indexer`) may index the same chain.                     *)
(***************************************************************************)
EXTENDS Integers, Sequences, FiniteSets

CONSTANTS Indexers,      \* indexing processes
          Builders,   \* the one that wipes the data first (mode `history`), if any
          Chunk,      \* CHUNK: blocks per fetch
          Batches,    \* bound: what one block may contain, sequences of logs
          MaxChain,   \* bound: blocks of the chain
          MaxIndexerFaults   \* bound: failed awaits and crashes

ASSUME IndexerAssumption ==
    /\ Chunk \in Nat \ {0} /\ MaxChain \in Nat /\ MaxIndexerFaults \in Nat
    /\ Batches \subseteq Seq([event : STRING, tx : Nat, own : BOOLEAN])
    /\ Builders \subseteq Indexers
    /\ \A p, q \in Builders : p = q

VARIABLES
    chain,      \* the blocks, each a sequence of logs [event, tx, own, id]
    stored,     \* the tables: a function from the rows to their copies
    watermark,  \* indexer_state.last_block
    active,     \* the processes that run
    indexerPc,  \* per process: "reset", "idle", "begin", "fetch" or "insert"
    head,       \* per process: the head it read when the run began
    from, to,   \* per process: the chunk it is at
    todo,       \* per process: rows of the chunk not yet written
    indexerFaults      \* failures so far

procVars == <<active, indexerPc, head, from, to, todo>>
indexerVars == <<chain, stored, watermark, procVars, indexerFaults>>

IndexerInit ==
    /\ chain = <<>> /\ stored = <<>> /\ watermark = 0
    /\ active = IF Builders = {} THEN Indexers ELSE Builders
    /\ indexerPc = [p \in Indexers |-> IF p \in Builders THEN "reset" ELSE "idle"]
    /\ head = [p \in Indexers |-> 0]
    /\ from = [p \in Indexers |-> 1] /\ to = [p \in Indexers |-> 0]
    /\ todo = [p \in Indexers |-> {}]
    /\ indexerFaults = 0

-----------------------------------------------------------------------------
(* From logs to rows. *)

Contracts == <<"vault", "rebalanceManager", "perpMarket", "riskManager",
               "emergencyController", "feeManager", "strategyManager", "oracle">>

(* The events that are stored, with their contract's place in the order of
   writing and their table; all others are passed over. *)
Kept ==
    [event \in {"Deposit", "Withdraw", "Rebalanced", "FundingSettled", "Liquidated",
                "AutoDeleveraged", "RiskStateChanged", "RiskConfigUpdated",
                "DepositsPaused", "DepositsUnpaused", "StrategyPaused",
                "StrategyUnpaused", "EmergencyUnwind", "FeesAccrued",
                "PnlCrystallized", "EmergencyStepFailed", "EmergencyUnwound",
                "OracleShutdown"} |->
     CASE event = "Deposit" -> <<1, "deposits">>
       [] event = "Withdraw" -> <<1, "withdrawals">>
       [] event = "Rebalanced" -> <<2, "rebalances">>
       [] event = "FundingSettled" -> <<3, "funding_payments">>
       [] event \in {"Liquidated", "AutoDeleveraged"} -> <<3, "risk_events">>
       [] event \in {"RiskStateChanged", "RiskConfigUpdated"} -> <<4, "risk_events">>
       [] event = "FeesAccrued" -> <<6, "fee_accruals">>
       [] event \in {"PnlCrystallized", "EmergencyStepFailed", "EmergencyUnwound"}
            -> <<7, "risk_events">>
       [] event = "OracleShutdown" -> <<8, "risk_events">>
       [] OTHER -> <<5, "risk_events">>]

\* Mutant: the venue's events of other traders are stored too.
FollowedAll(log) == log.event \in DOMAIN Kept

(* Of the perpetual venue only the strategy's own account is followed. *)
Followed(log) ==
    /\ log.event \in DOMAIN Kept
    /\ Kept[log.event][1] = 3 => log.own

(* The places of the logs in blocks a to b: block and index within it. *)
Places(a, b) == UNION {{n} \X DOMAIN chain[n] : n \in a..b}

LogAt(place) == chain[place[1]][place[2]]

(* The transactions of the chunk that contain a RedeemWithUnwind. *)
unwindTxs(a, b) ==
    {<<place[1], LogAt(place).tx>> :
        place \in {m \in Places(a, b) : LogAt(m).event = "RedeemWithUnwind"}}

LogRow(place, unwound) ==
    LET log == LogAt(place)
    IN  [group |-> Kept[log.event][1], table |-> Kept[log.event][2],
         block |-> place[1], index |-> place[2], id |-> log.id,
         via_unwind |-> log.event = "Withdraw" /\ <<place[1], log.tx>> \in unwound]

(* The rows of the logs in blocks a to b. *)
RowsOf(a, b) ==
    {LogRow(place, unwindTxs(a, b)) : place \in {m \in Places(a, b) : Followed(LogAt(m))}}

(* The uniqueness the tables enforce: (tx_hash, log_index), which on one chain
   is the place of the log; a rebalance goes by its on-chain number. *)
LogKey(row) ==
    IF row.table = "rebalances" THEN <<row.table, row.id, 0>>
                                ELSE <<row.table, row.block, row.index>>

(* Rows are written contract by contract, each in the order of the chain. *)
Before(r, q) ==
    \/ r.group < q.group
    \/ r.group = q.group /\ r.block < q.block
    \/ r.group = q.group /\ r.block = q.block /\ r.index < q.index

\* Mutant: a row that is there already is written again.
InsertedAgain(row) ==
    [r \in DOMAIN stored \cup {row} |->
        IF r = row THEN (IF r \in DOMAIN stored THEN stored[r] + 1 ELSE 1) ELSE stored[r]]

(* INSERT ... ON CONFLICT DO NOTHING. *)
Inserted(row) ==
    IF \E r \in DOMAIN stored : LogKey(r) = LogKey(row) THEN stored
    ELSE [r \in DOMAIN stored \cup {row} |-> IF r = row THEN 1 ELSE stored[r]]

-----------------------------------------------------------------------------
(* The chain: blocks are final, as on the local node (no reorganisations). *)

Rebalances == {m \in Places(1, Len(chain)) : LogAt(m).event = "Rebalanced"}

(* A block is mined; the rebalance manager numbers its rebalances. *)
Produce ==
    /\ Len(chain) < MaxChain
    /\ \E batch \in Batches :
         chain' = Append(chain,
            [i \in DOMAIN batch |->
                [event |-> batch[i].event, tx |-> batch[i].tx, own |-> batch[i].own,
                 id |-> IF batch[i].event = "Rebalanced"
                        THEN Cardinality(Rebalances)
                             + Cardinality({j \in 1..i : batch[j].event = "Rebalanced"})
                        ELSE 0]])
    /\ UNCHANGED <<stored, watermark, procVars, indexerFaults>>

-----------------------------------------------------------------------------
(* One run of Indexer.sync. *)

IndexerAt(p, place) == indexerPc[p] = place
IndexerGoto(p, place) == indexerPc' = [indexerPc EXCEPT ![p] = place]

(* Mode `history` wipes the tables and the watermark before it indexes. *)
ResetData(p) ==
    /\ IndexerAt(p, "reset")
    /\ stored' = <<>> /\ watermark' = 0
    /\ IndexerGoto(p, "idle")
    /\ UNCHANGED <<chain, active, head, from, to, todo, indexerFaults>>

(* The history is built: docker-compose.yml starts the backend when the process
   that built it has ended well. *)
Built(p) ==
    /\ p \in Builders /\ IndexerAt(p, "idle")
    /\ active' = Indexers \ Builders
    /\ UNCHANGED <<chain, stored, watermark, indexerPc, head, from, to, todo, indexerFaults>>

(* Next chunk of the run, or its end. *)
Advance(p, start, end) ==
    /\ from' = [from EXCEPT ![p] = start]
    /\ to' = [to EXCEPT ![p] = IF start + Chunk - 1 > end THEN end ELSE start + Chunk - 1]
    /\ todo' = [todo EXCEPT ![p] = {}]
    /\ IndexerGoto(p, IF start <= end THEN "fetch" ELSE "idle")

(* The head of the chain. *)
Start(p) ==
    /\ IndexerAt(p, "idle")
    /\ head' = [head EXCEPT ![p] = Len(chain)]
    /\ IndexerGoto(p, "begin")
    /\ UNCHANGED <<chain, stored, watermark, active, from, to, todo, indexerFaults>>

(* The watermark, which another process may have moved past that head. *)
Begin(p) ==
    /\ IndexerAt(p, "begin")
    /\ Advance(p, watermark + 1, head[p])
    /\ UNCHANGED <<chain, stored, watermark, active, head, indexerFaults>>

(* The eight event queries of a chunk, and the rows they lead to. *)
Fetch(p) ==
    /\ IndexerAt(p, "fetch")
    /\ todo' = [todo EXCEPT ![p] = RowsOf(from[p], to[p])]
    /\ IndexerGoto(p, "insert")
    /\ UNCHANGED <<chain, stored, watermark, active, head, from, to, indexerFaults>>

Insert(p) ==
    /\ IndexerAt(p, "insert")
    /\ \E row \in todo[p] :
         /\ \A other \in todo[p] \ {row} : Before(row, other)
         /\ stored' = Inserted(row)
         /\ todo' = [todo EXCEPT ![p] = @ \ {row}]
    /\ UNCHANGED <<chain, watermark, active, indexerPc, head, from, to, indexerFaults>>

\* Mutant: the watermark is stored before the rows of the chunk.
SetLastBlockFirst(p) ==
    /\ IndexerAt(p, "insert")
    /\ watermark' = to[p]
    /\ IF todo[p] = {} THEN Advance(p, to[p] + 1, head[p]) ELSE UNCHANGED <<indexerPc, from, to, todo>>
    /\ UNCHANGED <<chain, stored, active, head, indexerFaults>>

\* Mutant: the block after the chunk is taken for its last one.
SetLastBlockTooFar(p) ==
    /\ IndexerAt(p, "insert") /\ todo[p] = {}
    /\ watermark' = to[p] + 1
    /\ Advance(p, to[p] + 2, head[p])
    /\ UNCHANGED <<chain, stored, active, head, indexerFaults>>

(* setLastBlock, once every row of the chunk is written. *)
SetLastBlock(p) ==
    /\ IndexerAt(p, "insert") /\ todo[p] = {}
    /\ watermark' = to[p]
    /\ Advance(p, to[p] + 1, head[p])
    /\ UNCHANGED <<chain, stored, active, head, indexerFaults>>

(* An await throws or the process dies: the run is over, the next one starts
   from the stored watermark.  A history that fails is built again from the
   beginning. *)
IndexerFail(p) ==
    /\ indexerPc[p] \in {"begin", "fetch", "insert"}
    /\ indexerFaults < MaxIndexerFaults
    /\ indexerFaults' = indexerFaults + 1
    /\ IndexerGoto(p, IF p \in Builders THEN "reset" ELSE "idle")
    /\ todo' = [todo EXCEPT ![p] = {}]
    /\ UNCHANGED <<chain, stored, watermark, active, head, from, to>>

Run(p) == ResetData(p) \/ Start(p) \/ Begin(p) \/ Fetch(p) \/ Insert(p) \/ SetLastBlock(p)

IndexerNext == Produce \/ \E p \in active : Run(p) \/ IndexerFail(p) \/ Built(p)

IndexerSpec == IndexerInit /\ [][IndexerNext]_indexerVars


-----------------------------------------------------------------------------
IndexerTypeOK ==
    /\ watermark \in 0..Len(chain)
    /\ active \in SUBSET Indexers
    /\ indexerPc \in [Indexers -> {"reset", "idle", "begin", "fetch", "insert"}]
    /\ head \in [Indexers -> 0..Len(chain)]
    /\ from \in [Indexers -> Nat] /\ to \in [Indexers -> 0..Len(chain)]
    /\ DOMAIN todo = Indexers
    /\ \A p \in Indexers : todo[p] # {} => indexerPc[p] = "insert"
    /\ indexerFaults \in 0..MaxIndexerFaults

(* Whatever fails and whoever else indexes, the stored watermark never passes
   a block whose logs are not all in the tables: a restart, which begins behind
   the watermark, loses nothing (indexer.ts:51-60). *)
WatermarkIsIndexed == \A row \in RowsOf(1, watermark) : row \in DOMAIN stored

(* "Re-running a range after a crash never double counts" (indexer.ts:33-34):
   no two stored rows are the same log, and none is stored twice. *)
EachLogOnce ==
    \A r, q \in DOMAIN stored :
        /\ stored[r] = 1
        /\ <<r.block, r.index>> = <<q.block, q.index>> => r = q

(* The tables hold the chain up to the watermark, and nothing twice. *)
IndexerIsSound == IndexerTypeOK /\ WatermarkIsIndexed /\ EachLogOnce

(* The logs that concern the vault: every event of interest, and of the
   perpetual venue those of its own account. *)
Concerns(log) ==
    /\ log.event \notin {"Transfer", "RedeemWithUnwind", "PeakSharePriceUpdated"}
    /\ log.event \in {"FundingSettled", "Liquidated", "AutoDeleveraged"} => log.own

Emitted == {m \in Places(1, Len(chain)) : Concerns(LogAt(m))}
Held == {<<row.block, row.index>> : row \in DOMAIN stored}

(* The tables implement the abstract store: only logs of the chain that
   concern the vault are in them, and each comes to be. *)
Store == INSTANCE EventStore WITH emitted <- Emitted, held <- Held
StoreSpec == Store!Spec
=============================================================================
