------------------------------ MODULE Readers -------------------------------
(***************************************************************************)
(* Threads that query the database (ametsuchi.cc:170-278, wsv.cc:440-571,  *)
(* tx_store.cc:234-309) while its writer goes on.  A committed query looks *)
(* an asset up in created_assets_, which it shares with the writer, begins *)
(* a read-only transaction of its own, which pins the last checkpoint, and *)
(* reads.  Not every way out of a query ends the transaction.              *)
(*                                                                         *)
(* Of the database there are the assets that were created and the keys     *)
(* that have an entry (the assets that one account holds, and Log for an   *)
(* index of transactions).  A query stands for its steps in one thread;    *)
(* two threads interleave between them.                                    *)
(***************************************************************************)
EXTENDS Integers, Sequences, FiniteSets

CONSTANTS
  Thread,       \* the reading threads
  Asset,        \* assets
  Log,          \* the key of an index of transactions
  TableSize,    \* number of threads that LMDB has reader slots for (126)
  MaxCommits    \* bound: checkpoints in a behaviour

ASSUME ReadersAssumption ==
  MaxCommits \in Nat /\ TableSize \in Nat /\ Log \notin Asset

(* Queries: accountGetAsset, accountGetAllAssets, and getTxByKey.           *)
Query == [type : {"asset"}, key : Asset] \cup [type : {"all", "tx"}]

NoQuery == [type |-> "none"]

VARIABLES
  checkpoints,      \* history: what each commit left; the last one is read
  pending,          \* what the append transaction would commit
  created_assets,   \* created_assets_
  writer,           \* where init_append_tx is: "append", "loading", "filling"
  published,        \* the handles of the trees may be used by others
  slot,             \* of each thread: NoSlot, Free, or the checkpoint it pins
  pc,               \* "idle", "lookup", "begin", "get", "undefined"
  query,            \* what each thread asks, NoQuery when it is idle
  result,           \* of the last query of each thread
  asked,            \* history: the last checkpoint when the query began, or 0
  raced,            \* history: created_assets_ changed under the query
  untidy            \* history: a query of the thread left its transaction

dbVars == <<checkpoints, pending, created_assets, writer, published>>
threadVars == <<slot, pc, query, result, asked, raced, untidy>>
vars == <<dbVars, threadVars>>

(* A reader slot of LMDB that a thread does not have, or has without a      *)
(* transaction in it.                                                       *)
NoSlot == -1
Free == 0

Last == Len(checkpoints)

Nothing == [created |-> {}, keys |-> {}]

Init ==
  /\ checkpoints = << Nothing >>
  /\ pending = Nothing
  /\ created_assets = {}
  /\ writer = "append"
  /\ published = FALSE
  /\ slot = [t \in Thread |-> NoSlot]
  /\ pc = [t \in Thread |-> "idle"]
  /\ query = [t \in Thread |-> NoQuery]
  /\ result = [t \in Thread |-> "none"]
  /\ asked = [t \in Thread |-> 0]
  /\ raced = [t \in Thread |-> FALSE]
  /\ untidy = [t \in Thread |-> FALSE]
-----------------------------------------------------------------------------
(* The writer.                                                              *)

(* The threads that look into created_assets_ or point into it.             *)
Pointing == {t \in Thread : query[t].type = "asset"}

TouchAssets == raced' = [t \in Thread |-> raced[t] \/ t \in Pointing]

(* asset_create; the asset's blob in created_assets_ is assigned.           *)
AppendCreate(a) ==
  /\ writer = "append"
  /\ pending' = [created |-> pending.created \cup {a},
                 keys    |-> pending.keys \cup {Log}]
  /\ created_assets' = created_assets \cup {a}
  /\ TouchAssets
  /\ UNCHANGED <<checkpoints, writer, published, slot, pc, query,
                 result, asked, untidy>>

(* asset_add, of any asset.                                                 *)
AppendAdd(a) ==
  /\ writer = "append"
  /\ pending' = [pending EXCEPT !.keys = @ \cup {a, Log}]
  /\ UNCHANGED <<checkpoints, created_assets, writer, published,
                 threadVars>>

(* account_remove: all that the account holds.                              *)
AppendRemove ==
  /\ writer = "append"
  /\ pending' = [pending EXCEPT !.keys = (@ \ Asset) \cup {Log}]
  /\ UNCHANGED <<checkpoints, created_assets, writer, published,
                 threadVars>>

(* mdb_txn_commit; the handles that the transaction opened are public.      *)
Commit ==
  /\ writer = "append"
  /\ Len(checkpoints) <= MaxCommits
  /\ checkpoints' = Append(checkpoints, pending)
  /\ published' = TRUE
  /\ writer' = "loading"
  /\ UNCHANGED <<pending, created_assets, threadVars>>

Rollback ==
  /\ writer = "append"
  /\ pending' = checkpoints[Last]
  /\ writer' = "loading"
  /\ UNCHANGED <<checkpoints, created_assets, published, threadVars>>

(* read_created_assets, first half: the copy is emptied.                    *)
Clear ==
  /\ writer = "loading"
  /\ created_assets' = {}
  /\ writer' = "filling"
  /\ TouchAssets
  /\ UNCHANGED <<checkpoints, pending, published, slot, pc, query,
                 result, asked, untidy>>

(* Mutant of Fill: what was committed last is not read.                     *)
Fill_Stale ==
  /\ writer = "filling"
  /\ created_assets' = IF Last = 1 THEN {} ELSE checkpoints[Last - 1].created
  /\ writer' = "append"
  /\ TouchAssets
  /\ UNCHANGED <<checkpoints, pending, published, slot, pc, query,
                 result, asked, untidy>>

(* read_created_assets, second half.                                        *)
Fill ==
  /\ writer = "filling"
  /\ created_assets' = pending.created
  /\ writer' = "append"
  /\ TouchAssets
  /\ UNCHANGED <<checkpoints, pending, published, slot, pc, query,
                 result, asked, untidy>>
-----------------------------------------------------------------------------
(* A thread.                                                                *)

(* The call returns or throws.                                              *)
Ends(t, outcome) ==
  /\ pc' = [pc EXCEPT ![t] = "idle"]
  /\ query' = [query EXCEPT ![t] = NoQuery]
  /\ result' = [result EXCEPT ![t] = outcome]
  /\ asked' = [asked EXCEPT ![t] = 0]
  /\ raced' = [raced EXCEPT ![t] = FALSE]

GoesTo(t, place) ==
  /\ pc' = [pc EXCEPT ![t] = place]
  /\ UNCHANGED <<query, result, asked, raced>>

(* The call.                                                                *)
Ask(t, q) ==
  /\ pc[t] = "idle"
  /\ pc' = [pc EXCEPT ![t] = IF q.type = "asset" THEN "lookup" ELSE "begin"]
  /\ query' = [query EXCEPT ![t] = q]
  /\ result' = [result EXCEPT ![t] = "none"]
  /\ asked' = [asked EXCEPT ![t] = Last]
  /\ raced' = [raced EXCEPT ![t] = q.type = "asset" /\ writer = "filling"]
  /\ UNCHANGED <<dbVars, slot, untidy>>

(* accountGetAsset finds the asset's blob; while the writer fills the copy  *)
(* it may find it or not.                                                   *)
Lookup(t) ==
  /\ pc[t] = "lookup"
  /\ \/ /\ query[t].key \in created_assets \/ writer = "filling"
        /\ GoesTo(t, "begin")
     \/ /\ query[t].key \notin created_assets
        /\ Ends(t, "ASSET_NOT_FOUND")
  /\ UNCHANGED <<dbVars, slot, untidy>>

Pins(t) == slot[t] \notin {NoSlot, Free}

(* mdb_txn_begin(MDB_RDONLY) and mdb_cursor_open.  A thread that has a      *)
(* transaction gets MDB_BAD_RSLOT, which the code takes for success: it     *)
(* goes on with a pointer that was never set.                               *)
BeginTwice(t) ==
  /\ pc[t] = "begin"
  /\ Pins(t)
  /\ GoesTo(t, "undefined")
  /\ UNCHANGED <<dbVars, slot, untidy>>

(* MDB_READERS_FULL: slots are kept until their threads end.                *)
BeginFull(t) ==
  /\ pc[t] = "begin"
  /\ slot[t] = NoSlot
  /\ Cardinality({u \in Thread : slot[u] # NoSlot}) >= TableSize
  /\ Ends(t, "FATAL")
  /\ UNCHANGED <<dbVars, slot, untidy>>

(* Mutants of Begin: without MDB_RDONLY the transaction waits until that of *)
(* the writer ends; it reads what is not committed.                         *)
Begin_Waits(t) ==
  /\ pc[t] = "begin"
  /\ writer = "loading"
  /\ \/ slot[t] = Free
     \/ /\ slot[t] = NoSlot
        /\ Cardinality({u \in Thread : slot[u] # NoSlot}) < TableSize
  /\ slot' = [slot EXCEPT ![t] = Last]
  /\ \/ /\ published
        /\ GoesTo(t, "get")
        /\ UNCHANGED untidy
     \/ /\ ~published   \* EINVAL; the transaction stays
        /\ Ends(t, "FATAL")
        /\ untidy' = [untidy EXCEPT ![t] = TRUE]
  /\ UNCHANGED dbVars

Begin_Ahead(t) ==
  /\ pc[t] = "begin"
  /\ \/ slot[t] = Free
     \/ /\ slot[t] = NoSlot
        /\ Cardinality({u \in Thread : slot[u] # NoSlot}) < TableSize
  /\ slot' = [slot EXCEPT ![t] = Last + 1]
  /\ \/ /\ published
        /\ GoesTo(t, "get")
        /\ UNCHANGED untidy
     \/ /\ ~published   \* EINVAL; the transaction stays
        /\ Ends(t, "FATAL")
        /\ untidy' = [untidy EXCEPT ![t] = TRUE]
  /\ UNCHANGED dbVars

(* A slot that no thread has, or the one that the thread had before.        *)
Begin(t) ==
  /\ pc[t] = "begin"
  /\ \/ slot[t] = Free
     \/ /\ slot[t] = NoSlot
        /\ Cardinality({u \in Thread : slot[u] # NoSlot}) < TableSize
  /\ slot' = [slot EXCEPT ![t] = Last]
  /\ \/ /\ published
        /\ GoesTo(t, "get")
        /\ UNCHANGED untidy
     \/ /\ ~published   \* EINVAL; the transaction stays
        /\ Ends(t, "FATAL")
        /\ untidy' = [untidy EXCEPT ![t] = TRUE]
  /\ UNCHANGED dbVars

(* The keys that the transaction of t has.                                  *)
Keys(t) == checkpoints[slot[t]].keys

(* Mutant of Tidy: a query that finds its key leaves its transaction too.   *)
Tidy_Never(t) ==
  /\ UNCHANGED slot
  /\ UNCHANGED untidy

(* mdb_txn_abort: the thread keeps its slot, and pins nothing.              *)
Tidy(t) ==
  /\ slot' = [slot EXCEPT ![t] = Free]
  /\ UNCHANGED untidy

Untidy(t) ==
  /\ untidy' = [untidy EXCEPT ![t] = TRUE]
  /\ UNCHANGED slot

(* accountGetAsset.  When the blob that it compares with was freed or moved *)
(* under it, the comparison may miss or find the entry.                     *)
GetAsset(t) ==
  /\ pc[t] = "get"
  /\ query[t].type = "asset"
  /\ \/ /\ query[t].key \in Keys(t)
        /\ Ends(t, "found")
        /\ Tidy(t)
     \/ /\ query[t].key \notin Keys(t) \/ raced[t]
        /\ Ends(t, "ASSET_NOT_FOUND")
        /\ Untidy(t)
  /\ UNCHANGED dbVars

(* Mutant of GetAll: it ends its transaction as accountGetAsset does.       *)
GetAll_Tidy(t) ==
  /\ pc[t] = "get"
  /\ query[t].type = "all"
  /\ Ends(t, IF Keys(t) \cap Asset = {} THEN "none" ELSE "list")
  /\ Tidy(t)
  /\ UNCHANGED dbVars

(* accountGetAllAssets: the loop is left by a return, whether the account   *)
(* holds anything or not, and what comes after it is not reached.           *)
GetAll(t) ==
  /\ pc[t] = "get"
  /\ query[t].type = "all"
  /\ Ends(t, IF Keys(t) \cap Asset = {} THEN "none" ELSE "list")
  /\ Untidy(t)
  /\ UNCHANGED dbVars

(* getTxByKey.                                                              *)
GetTx(t) ==
  /\ pc[t] = "get"
  /\ query[t].type = "tx"
  /\ \/ /\ Log \in Keys(t)
        /\ Ends(t, "found")
        /\ Tidy(t)
     \/ /\ Log \notin Keys(t)
        /\ Ends(t, "none")
        /\ Untidy(t)
  /\ UNCHANGED dbVars

(* The thread ends, and another begins: LMDB frees its slot.                *)
Restart(t) ==
  /\ pc[t] = "idle"
  /\ slot' = [slot EXCEPT ![t] = NoSlot]
  /\ result' = [result EXCEPT ![t] = "none"]
  /\ untidy' = [untidy EXCEPT ![t] = FALSE]
  /\ UNCHANGED <<dbVars, pc, query, asked, raced>>

Writer ==
  \/ \E a \in Asset : AppendCreate(a) \/ AppendAdd(a)
  \/ AppendRemove
  \/ Commit
  \/ Rollback
  \/ Clear
  \/ Fill

Goes(t) ==
  \/ Lookup(t)
  \/ BeginTwice(t)
  \/ BeginFull(t)
  \/ Begin(t)
  \/ GetAsset(t)
  \/ GetAll(t)
  \/ GetTx(t)

Next ==
  \/ Writer
  \/ \E t \in Thread : \/ \E q \in Query : Ask(t, q)
                       \/ Goes(t)
                       \/ Restart(t)

(* A call that was made goes on, and so does init_append_tx, which commit   *)
(* and rollback call: no step of them waits for another thread.  Nobody has *)
(* to append, to commit or to ask.                                          *)
Fairness ==
  /\ \A t \in Thread : WF_vars(Goes(t))
  /\ WF_vars(Clear)
  /\ WF_vars(Fill)

Spec == Init /\ [][Next]_vars /\ Fairness
-----------------------------------------------------------------------------
TypeOK ==
  /\ pending \in [created : SUBSET Asset, keys : SUBSET (Asset \cup {Log})]
  /\ created_assets \subseteq Asset
  /\ writer \in {"append", "loading", "filling"}
  /\ slot \in [Thread -> {NoSlot, Free} \cup (1..Last)]
  /\ pc \in [Thread -> {"idle", "lookup", "begin", "get", "undefined"}]
  /\ query \in [Thread -> Query \cup {NoQuery}]
  /\ asked \in [Thread -> 0..Last]

(* An asset that is not found is not held, in one of the checkpoints that   *)
(* there were during the query, although the lookup reads what the writer   *)
(* has not committed; unless the writer touched created_assets_ meanwhile   *)
(* (wsv.cc:97-109, 459-466, 503-507).                                       *)
NotFoundIsTrue ==
  [][\A t \in Thread :
       /\ pc[t] \in {"lookup", "get"}
       /\ result'[t] = "ASSET_NOT_FOUND"
       /\ ~raced[t]
       => \E i \in asked[t]..Last :
            query[t].key \notin checkpoints[i].created \cap checkpoints[i].keys
    ]_vars

(* A committed query gets a transaction of its own unless an earlier query  *)
(* of its thread found nothing, listed an account's assets or came before   *)
(* the first commit (tx_store.cc:264-306, wsv.cc:474-512).                  *)
TidyThreadsGoOn == \A t \in Thread : pc[t] = "undefined" => untidy[t]

(* What accountGetAllAssets returned stays as it was: its transaction still *)
(* pins the checkpoint that the pointers are into (wsv.cc:555-570).  Only   *)
(* the missing mdb_txn_abort sees to that.                                  *)
ListIsPinned ==
  \A t \in Thread :
    pc[t] = "idle" /\ result[t] = "list"
      => Pins(t) /\ Keys(t) \cap Asset # {}

(* Readers and writer never wait for each other: every query ends, whatever *)
(* the writer does (ametsuchi.h:52-54).                                     *)
QueriesEnd ==
  \A t \in Thread : pc[t] # "idle" ~> pc[t] \in {"idle", "undefined"}

(* A query by key that finds its key lets its checkpoint go.                *)
(* (tx_store.cc:302-306, wsv.cc:509-512)                                    *)
FoundIsReleased ==
  \A t \in Thread :
    pc[t] = "get" /\ query[t].type = "tx" /\ Log \in Keys(t) ~> ~Pins(t)

(* Every asset of the checkpoint is found again after a commit or a         *)
(* rollback emptied the copy (wsv.cc:97-109).                               *)
CopyComesBack ==
  writer = "filling" ~> checkpoints[Last].created \subseteq created_assets
-----------------------------------------------------------------------------
(* Every thread gets a new read-only transaction for a committed query      *)
(* (ametsuchi.h:54 and 90).                                                 *)
QueryGetsTransaction == \A t \in Thread : pc[t] # "undefined"
=============================================================================
