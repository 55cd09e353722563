------------------------------ MODULE Snapshots ------------------------------
(***************************************************************************)
(* Taking a snapshot (backend/src/snapshot.ts): read the whole protocol     *)
(* state through some fifty view calls (backend/src/chain/reader.ts) and    *)
(* write it to three tables in one transaction (backend/src/db/repo.ts).    *)
(*                                                                          *)
(* Blocks are mined while the calls are out, several processes snapshot the *)
(* same chain, and a query may fail or the process die at any point, also   *)
(* after the database has committed and before the answer arrives.  What    *)
(* the view calls return is abstracted to the block they are answered at.   *)
(***************************************************************************)
EXTENDS Naturals, FiniteSets

CONSTANTS Snapshotters,     \* processes that take snapshots
          MaxHeight,  \* bound: blocks of the chain
          MaxSnapshotFaults  \* bound: failed awaits and crashes

ASSUME SnapshotsAssumption ==
    /\ MaxHeight \in Nat \ {0} /\ MaxSnapshotFaults \in Nat
    /\ IsFiniteSet(Snapshotters)

VARIABLES
    height,   \* height of the chain
    snapshotPc,       \* per process: "idle", "reading", "vault", "position", "pnl", "commit"
    bn,       \* per process: the block its reads are pinned to
    got,      \* per process: the groups of calls answered, and at which block
    open,     \* per process: rows of the open transaction, by table
    tables,   \* the committed rows, by table
    snapshotFaults    \* failures so far

snapshotVars == <<height, snapshotPc, bn, got, open, tables, snapshotFaults>>

Tables == {"vault", "position", "pnl"}

(* The calls in the order they are awaited: two rounds in parallel, and the
   fee recipient's shares, whose owner the second round returns. *)
Rounds == << {"block", "vault", "positions", "pnl", "risk"},
             {"fees", "oracle", "perp", "delta"},
             {"feeShares"} >>
Groups == UNION {Rounds[i] : i \in 1..3}

NoRows == [t \in Tables |-> {}]

SnapshotsInit ==
    /\ height = 1
    /\ snapshotPc = [p \in Snapshotters |-> "idle"]
    /\ bn = [p \in Snapshotters |-> 0]
    /\ got = [p \in Snapshotters |-> <<>>]
    /\ open = [p \in Snapshotters |-> NoRows]
    /\ tables = NoRows
    /\ snapshotFaults = 0

SnapshotAt(p, place) == snapshotPc[p] = place
SnapshotGoto(p, place) == snapshotPc' = [snapshotPc EXCEPT ![p] = place]

MineHeight ==
    /\ height < MaxHeight
    /\ height' = height + 1
    /\ UNCHANGED <<snapshotPc, bn, got, open, tables, snapshotFaults>>

-----------------------------------------------------------------------------
(* readRawState *)

(* The head, asked for without the client's cache. *)
StartRead(p) ==
    /\ SnapshotAt(p, "idle")
    /\ bn' = [bn EXCEPT ![p] = height]
    /\ got' = [got EXCEPT ![p] = <<>>]
    /\ SnapshotGoto(p, "reading")
    /\ UNCHANGED <<height, open, tables, snapshotFaults>>

\* Mutant: a call without the block number is answered at the latest block.
AnsweredAtHead(p) == height

(* The block a view call is answered at. *)
AnsweredAt(p) == bn[p]

(* The next round of calls is answered. *)
ReadRound(p) ==
    /\ SnapshotAt(p, "reading")
    /\ \E i \in 1..3 :
         /\ \A j \in 1..(i - 1) : Rounds[j] \subseteq DOMAIN got[p]
         /\ Rounds[i] \cap DOMAIN got[p] = {}
         /\ got' = [got EXCEPT ![p] =
              [g \in DOMAIN got[p] \cup Rounds[i] |->
                 IF g \in Rounds[i] THEN AnsweredAt(p) ELSE got[p][g]]]
         /\ SnapshotGoto(p, IF i = 3 THEN "vault" ELSE "reading")
    /\ UNCHANGED <<height, bn, open, tables, snapshotFaults>>

(* toSnapshotRow: the groups of calls each table's columns come from. *)
toSnapshotRow ==
    [vault |-> {"block", "vault", "positions", "risk", "fees", "oracle", "delta"},
     position |-> {"positions", "perp"},
     pnl |-> {"pnl"}]

SnapshotRow(p, table, id) ==
    [id |-> id, block |-> bn[p], read |-> {got[p][g] : g \in toSnapshotRow[table]}]

-----------------------------------------------------------------------------
(* insertSnapshot *)

(* Rows of other transactions with this block: uncommitted ones make the
   INSERT wait, committed ones conflict. *)
Locked(p) == \E q \in Snapshotters \ {p} : \E r \in open[q]["vault"] : r.block = bn[p]
Taken(p) == \E r \in tables["vault"] : r.block = bn[p]

\* Mutant: every INSERT commits on its own, there is no BEGIN.
AddRowCommitted(p, table, id) ==
    /\ tables' = [tables EXCEPT ![table] = @ \cup {SnapshotRow(p, table, id)}]
    /\ open' = [open EXCEPT ![p][table] = @ \cup {SnapshotRow(p, table, id)}]

AddRow(p, table, id) ==
    /\ open' = [open EXCEPT ![p][table] = @ \cup {SnapshotRow(p, table, id)}]
    /\ UNCHANGED tables

(* The sequence of vault_snapshots.id gives a number no row has. *)
FreshId ==
    LET used == {r.id : r \in tables["vault"] \cup UNION {open[q]["vault"] : q \in Snapshotters}}
    IN  CHOOSE n \in 1..(Cardinality(used) + 1) : n \notin used

\* Mutant: a block that has its snapshot is not looked for.
InsertVaultAnyway(p) ==
    /\ SnapshotAt(p, "vault")
    /\ SnapshotGoto(p, "position") /\ AddRow(p, "vault", FreshId)
    /\ UNCHANGED <<height, bn, got, snapshotFaults>>

\* Mutant: the transaction of a conflict is left open.
InsertVaultNoRollback(p) ==
    /\ SnapshotAt(p, "vault")
    /\ ~Locked(p)
    /\ AddRow(p, "vault", FreshId)
    /\ SnapshotGoto(p, IF Taken(p) THEN "idle" ELSE "position")
    /\ UNCHANGED <<height, bn, got, snapshotFaults>>

(* BEGIN and the first INSERT.  A block that has its snapshot is left alone
   and the transaction rolled back. *)
InsertVault(p) ==
    /\ SnapshotAt(p, "vault")
    /\ ~Locked(p)
    /\ IF Taken(p) THEN SnapshotGoto(p, "idle") /\ UNCHANGED <<open, tables>>
                   ELSE SnapshotGoto(p, "position") /\ AddRow(p, "vault", FreshId)
    /\ UNCHANGED <<height, bn, got, snapshotFaults>>

TheId(p) == CHOOSE id \in {r.id : r \in open[p]["vault"]} : TRUE

InsertPosition(p) ==
    /\ SnapshotAt(p, "position")
    /\ SnapshotGoto(p, "pnl") /\ AddRow(p, "position", TheId(p))
    /\ UNCHANGED <<height, bn, got, snapshotFaults>>

InsertPnl(p) ==
    /\ SnapshotAt(p, "pnl")
    /\ SnapshotGoto(p, "commit") /\ AddRow(p, "pnl", TheId(p))
    /\ UNCHANGED <<height, bn, got, snapshotFaults>>

Committed(p) == [t \in Tables |-> tables[t] \cup open[p][t]]

\* Mutant: the connection goes back to the pool without a COMMIT.
CommitForgotten(p) ==
    /\ SnapshotAt(p, "commit")
    /\ open' = [open EXCEPT ![p] = NoRows]
    /\ SnapshotGoto(p, "idle")
    /\ UNCHANGED <<height, bn, got, tables, snapshotFaults>>

Commit(p) ==
    /\ SnapshotAt(p, "commit")
    /\ tables' = Committed(p)
    /\ open' = [open EXCEPT ![p] = NoRows]
    /\ SnapshotGoto(p, "idle")
    /\ UNCHANGED <<height, bn, got, snapshotFaults>>

(* An await throws or the process dies: the database drops the open
   transaction, unless the COMMIT was carried out and only its answer lost. *)
SnapshotFail(p) ==
    /\ ~SnapshotAt(p, "idle")
    /\ snapshotFaults < MaxSnapshotFaults
    /\ snapshotFaults' = snapshotFaults + 1
    /\ \/ UNCHANGED tables
       \/ SnapshotAt(p, "commit") /\ tables' = Committed(p)
    /\ open' = [open EXCEPT ![p] = NoRows]
    /\ SnapshotGoto(p, "idle")
    /\ UNCHANGED <<height, bn, got>>

-----------------------------------------------------------------------------
takeSnapshot(p) ==
    StartRead(p) \/ ReadRound(p) \/ InsertVault(p) \/ InsertPosition(p) \/ InsertPnl(p) \/ Commit(p)

SnapshotsNext == MineHeight \/ \E p \in Snapshotters : takeSnapshot(p) \/ SnapshotFail(p)

SnapshotsSpec == SnapshotsInit /\ [][SnapshotsNext]_snapshotVars

-----------------------------------------------------------------------------
SnapshotsTypeOK ==
    /\ height \in 1..MaxHeight
    /\ snapshotPc \in [Snapshotters -> {"idle", "reading", "vault", "position", "pnl", "commit"}]
    /\ bn \in [Snapshotters -> 0..height]
    /\ \A p \in Snapshotters : DOMAIN got[p] \subseteq Groups
    /\ \A p \in Snapshotters : open[p] # NoRows => snapshotPc[p] \in {"position", "pnl", "commit"}
    /\ snapshotFaults \in 0..MaxSnapshotFaults

(* "A snapshot never mixes pre- and post-rebalance values"
   (architecture.md:185-186, reader.ts:4-5): every column of every stored row
   was read at the block the snapshot is filed under, although blocks are
   mined between the rounds of calls. *)
SnapshotIsOfOneBlock ==
    \A t \in Tables : \A row \in tables[t] : row.read = {row.block}

(* "1:1 with vault_snapshots" (001_init.sql:44, 62): whoever dies where, a
   snapshot is in all three tables, of the same block, or in none. *)
OneToOne ==
    \A t \in Tables :
        {<<r.id, r.block>> : r \in tables[t]} = {<<r.id, r.block>> : r \in tables["vault"]}

(* "Idempotent per block" (repo.ts:76): no block has two snapshots, also when
   two processes insert it at the same time or an answer was lost. *)
OnePerBlock ==
    \A t \in Tables : \A r, q \in tables[t] :
        r.id = q.id \/ r.block = q.block => r = q

(* What the snapshots tell is one state of the chain each, and once. *)
SnapshotsAreSound == SnapshotsTypeOK /\ SnapshotIsOfOneBlock /\ OneToOne /\ OnePerBlock

(* The history keeps up: a block is followed by a snapshot of it or of a later
   one. *)
HistoryKeepsUp ==
    \A b \in 1..MaxHeight : height = b ~> \E r \in tables["vault"] : r.block >= b
=============================================================================
