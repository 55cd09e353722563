----------------------------- MODULE EventStore -----------------------------
(***************************************************************************)
(* What the indexer promises: a store that holds logs the chain emitted and *)
(* that comes to hold every one of them.  The chain only grows, and wiping  *)
(* the store to build it again is the only way a log leaves it.             *)
(***************************************************************************)
VARIABLES emitted,  \* the logs of the chain the store is meant to hold
          held      \* the logs it holds

vars == <<emitted, held>>

Init == emitted = {} /\ held = {}

Emit == emitted \subseteq emitted' /\ UNCHANGED held

Hold == \E log \in emitted \ held : held' = held \cup {log} /\ UNCHANGED emitted

Wipe == held' = {} /\ UNCHANGED emitted

Next == Emit \/ Hold \/ Wipe

Spec == Init /\ [][Next]_vars /\ WF_vars(Hold)
=============================================================================
