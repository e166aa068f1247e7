---------------------------- MODULE ReadersProofs ----------------------------
(***************************************************************************)
(* Safety of the reading threads (module Readers), for every number of     *)
(* threads, assets, reader slots and checkpoints.                          *)
(***************************************************************************)
EXTENDS Readers, TLAPS

Checkpoint == [created : SUBSET Asset, keys : SUBSET (Asset \cup {Log})]

(* The history is a list of checkpoints, and there is a last one.           *)
HistoryOK == checkpoints \in Seq(Checkpoint) /\ Last \in Nat \ {0}

(* The copy of the assets has those of the last checkpoint, except while it *)
(* is filled.                                                               *)
CopyOK ==
  /\ checkpoints[Last].created \subseteq pending.created
  /\ writer = "append" => created_assets = pending.created
  /\ writer # "append" => pending = checkpoints[Last]
  /\ writer = "loading" => pending.created \subseteq created_assets

(* What a thread has at each place of a query.                              *)
PlaceOK(t) ==
  /\ pc[t] = "idle" \/ (asked[t] \in 1..Last /\ result[t] = "none")
  /\ pc[t] = "lookup" => query[t].type = "asset"
  /\ pc[t] = "lookup" /\ writer = "filling" => raced[t]
  /\ pc[t] = "get" => Pins(t) /\ asked[t] <= slot[t]

(* A thread that has a transaction and does not read in it left it earlier. *)
LeftOK(t) ==
  /\ pc[t] # "get" /\ Pins(t) => untidy[t]
  /\ pc[t] = "undefined" => untidy[t]

(* What a query returns or throws.                                          *)
QueryOutcome == {"none", "FATAL", "ASSET_NOT_FOUND", "found", "list"}

ThreadsOK ==
  /\ untidy \in [Thread -> BOOLEAN]
  /\ raced \in [Thread -> BOOLEAN]
  /\ result \in [Thread -> QueryOutcome]
  /\ \A t \in Thread : PlaceOK(t) /\ LeftOK(t)

(* The inductive invariant.                                                 *)
IInv == TypeOK /\ HistoryOK /\ CopyOK /\ ThreadsOK /\ ListIsPinned
-----------------------------------------------------------------------------
LEMMA InitSafe == Init => IInv
<1>. SUFFICES ASSUME Init PROVE IInv
  OBVIOUS
<1>. USE DEF Init
<1>1. Last = 1 /\ checkpoints[Last] = Nothing /\ Nothing \in Checkpoint
  BY DEF Last, Nothing, Checkpoint
<1>2. TypeOK
  BY <1>1, ReadersAssumption DEF TypeOK, Nothing, NoSlot, Free, NoQuery
<1>3. HistoryOK
  BY <1>1 DEF HistoryOK, Checkpoint
<1>4. CopyOK
  BY <1>1 DEF CopyOK, Nothing
<1>5. ThreadsOK
  BY DEF ThreadsOK, PlaceOK, LeftOK, Pins, QueryOutcome
<1>6. ListIsPinned
  BY DEF ListIsPinned
<1>. QED
  BY <1>2, <1>3, <1>4, <1>5, <1>6 DEF IInv

(* A step of the writer that adds no checkpoint leaves the threads as they  *)
(* were, except that it may overtake them.                                  *)
LEMMA WriterKeepsThreads ==
  ASSUME IInv,
         UNCHANGED <<checkpoints, slot, pc, query, result, asked, untidy>>,
         \/ UNCHANGED raced /\ writer' # "filling"
         \/ TouchAssets
  PROVE  ThreadsOK' /\ ListIsPinned'
<1>1. raced' \in [Thread -> BOOLEAN]
  BY DEF TouchAssets, IInv, ThreadsOK
<1>2. \A t \in Thread : raced[t] => raced'[t]
  BY DEF TouchAssets, IInv, ThreadsOK
<1>3. Last' = Last
  BY DEF Last
<1>4. ASSUME NEW t \in Thread PROVE PlaceOK(t)'
  <2>1. pc[t] = "lookup" /\ writer' = "filling" => raced'[t]
    BY DEF TouchAssets, Pointing, IInv, ThreadsOK, PlaceOK
  <2>. QED
    BY <2>1, <1>3 DEF IInv, ThreadsOK, PlaceOK, Pins
<1>5. ASSUME NEW t \in Thread PROVE LeftOK(t)'
  BY DEF IInv, ThreadsOK, LeftOK, Pins
<1>6. ThreadsOK'
  BY <1>1, <1>4, <1>5 DEF IInv, ThreadsOK
<1>7. ListIsPinned'
  BY DEF IInv, ListIsPinned, Pins, Keys
<1>. QED
  BY <1>6, <1>7

LEMMA WriterSafe ==
  ASSUME IInv, Writer
  PROVE  IInv'
<1>. USE DEF IInv
<1>1. ASSUME NEW a \in Asset, AppendCreate(a) PROVE IInv'
  <2>1. ThreadsOK' /\ ListIsPinned'
    BY <1>1, WriterKeepsThreads DEF AppendCreate
  <2>2. HistoryOK' /\ Last' = Last /\ checkpoints[Last]' = checkpoints[Last]
    BY <1>1 DEF AppendCreate, HistoryOK, Last
  <2>3. TypeOK'
    BY <1>1, <2>2 DEF AppendCreate, TypeOK
  <2>4. CopyOK'
    BY <1>1, <2>2 DEF AppendCreate, CopyOK
  <2>. QED
    BY <2>1, <2>2, <2>3, <2>4
<1>2. ASSUME NEW a \in Asset, AppendAdd(a) PROVE IInv'
  <2>1. ThreadsOK' /\ ListIsPinned'
    BY <1>2, WriterKeepsThreads DEF AppendAdd, threadVars
  <2>2. HistoryOK' /\ Last' = Last /\ checkpoints[Last]' = checkpoints[Last]
    BY <1>2 DEF AppendAdd, HistoryOK, Last
  <2>3. TypeOK'
    BY <1>2, <2>2 DEF AppendAdd, TypeOK, threadVars
  <2>4. CopyOK'
    BY <1>2, <2>2 DEF AppendAdd, CopyOK, TypeOK
  <2>. QED
    BY <2>1, <2>2, <2>3, <2>4
<1>3. ASSUME AppendRemove PROVE IInv'
  <2>1. ThreadsOK' /\ ListIsPinned'
    BY <1>3, WriterKeepsThreads DEF AppendRemove, threadVars
  <2>2. HistoryOK' /\ Last' = Last /\ checkpoints[Last]' = checkpoints[Last]
    BY <1>3 DEF AppendRemove, HistoryOK, Last
  <2>3. TypeOK'
    BY <1>3, <2>2 DEF AppendRemove, TypeOK, threadVars
  <2>4. CopyOK'
    BY <1>3, <2>2 DEF AppendRemove, CopyOK, TypeOK
  <2>. QED
    BY <2>1, <2>2, <2>3, <2>4
<1>4. ASSUME Commit PROVE IInv'
  <2>1. pending \in Checkpoint
    BY DEF TypeOK, Checkpoint
  <2>2. /\ HistoryOK'
        /\ Last' = Last + 1
        /\ checkpoints'[Last'] = pending
        /\ \A i \in 1..Last : checkpoints'[i] = checkpoints[i]
    BY <1>4, <2>1 DEF Commit, HistoryOK, Last
  <2>3. TypeOK'
    BY <1>4, <2>2 DEF Commit, TypeOK, threadVars, HistoryOK
  <2>4. CopyOK'
    BY <1>4, <2>2 DEF Commit, CopyOK
  <2>5. ThreadsOK'
    BY <1>4, <2>2
    DEF Commit, threadVars, ThreadsOK, PlaceOK, LeftOK, Pins, HistoryOK
  <2>6. ListIsPinned'
    <3>1. ASSUME NEW t \in Thread, Pins(t) PROVE Keys(t)' = Keys(t)
      BY <1>4, <2>2, <3>1 DEF Commit, threadVars, Keys, Pins, TypeOK
    <3>. QED
      BY <1>4, <3>1 DEF Commit, threadVars, ListIsPinned, Pins
  <2>. QED
    BY <2>2, <2>3, <2>4, <2>5, <2>6
<1>5. ASSUME Rollback PROVE IInv'
  <2>1. ThreadsOK' /\ ListIsPinned'
    BY <1>5, WriterKeepsThreads DEF Rollback, threadVars
  <2>2. /\ HistoryOK' /\ Last' = Last /\ checkpoints[Last]' = checkpoints[Last]
        /\ checkpoints[Last] \in Checkpoint
    BY <1>5 DEF Rollback, HistoryOK, Last
  <2>3. TypeOK'
    BY <1>5, <2>2 DEF Rollback, TypeOK, threadVars, Checkpoint
  <2>4. CopyOK'
    BY <1>5, <2>2 DEF Rollback, CopyOK
  <2>. QED
    BY <2>1, <2>2, <2>3, <2>4
<1>6. ASSUME Clear PROVE IInv'
  <2>1. ThreadsOK' /\ ListIsPinned'
    BY <1>6, WriterKeepsThreads DEF Clear
  <2>2. HistoryOK' /\ Last' = Last /\ checkpoints[Last]' = checkpoints[Last]
    BY <1>6 DEF Clear, HistoryOK, Last
  <2>3. TypeOK'
    BY <1>6, <2>2 DEF Clear, TypeOK
  <2>4. CopyOK'
    BY <1>6, <2>2 DEF Clear, CopyOK
  <2>. QED
    BY <2>1, <2>2, <2>3, <2>4
<1>7. ASSUME Fill PROVE IInv'
  <2>1. ThreadsOK' /\ ListIsPinned'
    BY <1>7, WriterKeepsThreads DEF Fill
  <2>2. HistoryOK' /\ Last' = Last /\ checkpoints[Last]' = checkpoints[Last]
    BY <1>7 DEF Fill, HistoryOK, Last
  <2>3. TypeOK'
    BY <1>7, <2>2 DEF Fill, TypeOK
  <2>4. CopyOK'
    BY <1>7, <2>2 DEF Fill, CopyOK
  <2>. QED
    BY <2>1, <2>2, <2>3, <2>4
<1>. QED
  BY <1>1, <1>2, <1>3, <1>4, <1>5, <1>6, <1>7 DEF Writer

(* The lists of one thread.                                                 *)
ListOK(t) ==
  pc[t] = "idle" /\ result[t] = "list" => Pins(t) /\ Keys(t) \cap Asset # {}

(* A step of one thread changes neither the database nor another thread.    *)
LEMMA OneThread ==
  ASSUME IInv, NEW t \in Thread, UNCHANGED dbVars, TypeOK',
         NEW S, slot' = [slot EXCEPT ![t] = S],
         NEW P, pc' = [pc EXCEPT ![t] = P],
         NEW R \in QueryOutcome, result' = [result EXCEPT ![t] = R],
         NEW A, asked' = [asked EXCEPT ![t] = A],
         NEW C \in BOOLEAN, raced' = [raced EXCEPT ![t] = C],
         NEW U \in BOOLEAN, untidy' = [untidy EXCEPT ![t] = U],
         NEW Q, query' = [query EXCEPT ![t] = Q],
         PlaceOK(t)', LeftOK(t)', ListOK(t)'
  PROVE  IInv'
<1>. USE DEF IInv
<1>1. Last' = Last /\ HistoryOK' /\ CopyOK'
  BY DEF dbVars, Last, HistoryOK, CopyOK
<1>2. /\ untidy' \in [Thread -> BOOLEAN]
      /\ raced' \in [Thread -> BOOLEAN]
      /\ result' \in [Thread -> QueryOutcome]
  BY DEF ThreadsOK
<1>3. ASSUME NEW u \in Thread PROVE PlaceOK(u)' /\ LeftOK(u)' /\ ListOK(u)'
  <2>1. CASE u = t
    BY <2>1
  <2>2. CASE u # t
    <3>1. /\ slot'[u] = slot[u] /\ pc'[u] = pc[u] /\ result'[u] = result[u]
          /\ asked'[u] = asked[u] /\ raced'[u] = raced[u]
          /\ untidy'[u] = untidy[u] /\ query'[u] = query[u]
      BY <2>2 DEF TypeOK, ThreadsOK
    <3>2. PlaceOK(u) /\ LeftOK(u) /\ ListOK(u)
      BY DEF ThreadsOK, ListIsPinned, ListOK
    <3>3. PlaceOK(u)' /\ LeftOK(u)'
      BY <3>1, <3>2, <1>1 DEF PlaceOK, LeftOK, Pins, dbVars
    <3>4. ListOK(u)'
      BY <3>1, <3>2 DEF ListOK, Pins, Keys, dbVars
    <3>. QED
      BY <3>3, <3>4
  <2>. QED
    BY <2>1, <2>2
<1>4. ThreadsOK'
  BY <1>2, <1>3 DEF ThreadsOK
<1>5. ListIsPinned'
  BY <1>3 DEF ListIsPinned, ListOK
<1>. QED
  BY <1>1, <1>4, <1>5

(* An update of a function by its own value is no update.                   *)
LEMMA Same ==
  ASSUME IInv, NEW t \in Thread
  PROVE  /\ slot = [slot EXCEPT ![t] = slot[t]]
         /\ pc = [pc EXCEPT ![t] = pc[t]]
         /\ query = [query EXCEPT ![t] = query[t]]
         /\ result = [result EXCEPT ![t] = result[t]]
         /\ asked = [asked EXCEPT ![t] = asked[t]]
         /\ raced = [raced EXCEPT ![t] = raced[t]]
         /\ untidy = [untidy EXCEPT ![t] = untidy[t]]
         /\ raced[t] \in BOOLEAN /\ untidy[t] \in BOOLEAN
         /\ pc[t] \in {"idle", "lookup", "begin", "get", "undefined"}
         /\ PlaceOK(t) /\ LeftOK(t)
  BY DEF IInv, TypeOK, ThreadsOK

LEMMA AskSafe ==
  ASSUME IInv, NEW t \in Thread, NEW q \in Query, Ask(t, q)
  PROVE  IInv'
<1>1. UNCHANGED dbVars /\ slot' = slot /\ untidy' = untidy /\ Last' = Last
  BY DEF Ask, dbVars, Last
<1>2. Last \in 1..Last
  BY DEF IInv, HistoryOK
<1>. DEFINE P == IF q.type = "asset" THEN "lookup" ELSE "begin"
            C == q.type = "asset" /\ writer = "filling"
<1>3. /\ pc' = [pc EXCEPT ![t] = P]
      /\ query' = [query EXCEPT ![t] = q]
      /\ result' = [result EXCEPT ![t] = "none"]
      /\ asked' = [asked EXCEPT ![t] = Last]
      /\ raced' = [raced EXCEPT ![t] = C]
  BY DEF Ask
<1>4. /\ pc'[t] = P /\ query'[t] = q /\ result'[t] = "none"
      /\ asked'[t] = Last /\ raced'[t] = C
  BY <1>3 DEF IInv, TypeOK, ThreadsOK
<1>5. TypeOK'
  <2>1. P \in {"lookup", "begin"}
    OBVIOUS
  <2>. QED
    BY <1>1, <1>2, <1>3, <2>1 DEF IInv, TypeOK, dbVars, HistoryOK
<1>6. PlaceOK(t)'
  BY <1>1, <1>2, <1>4 DEF PlaceOK, dbVars
<1>7. LeftOK(t)'
  BY <1>1, <1>4, Same DEF LeftOK, Pins, Ask
<1>8. ListOK(t)'
  BY <1>4 DEF ListOK
<1>9. C \in BOOLEAN /\ "none" \in QueryOutcome
  BY DEF QueryOutcome
<1>. HIDE DEF P, C
<1>. QED
  BY <1>1, <1>3, <1>5, <1>6, <1>7, <1>8, <1>9, Same, OneThread

(* A query that goes on in the database that it began in.                   *)
LEMMA GoesOn ==
  ASSUME IInv, NEW t \in Thread, UNCHANGED dbVars,
         NEW S \in {NoSlot, Free} \cup 1..Last, slot' = [slot EXCEPT ![t] = S],
         NEW P \in {"begin", "get", "undefined"}, GoesTo(t, P),
         UNCHANGED untidy, pc[t] # "idle",
         P = "begin" /\ Pins(t)' => untidy[t],
         P = "get" => Pins(t)' /\ asked[t] <= S,
         P = "undefined" => untidy[t]
  PROVE  IInv'
<1>1. pc' = [pc EXCEPT ![t] = P] /\ UNCHANGED <<query, result, asked, raced>>
  BY DEF GoesTo
<1>2. Last' = Last
  BY DEF dbVars, Last
<1>3. pc'[t] = P /\ slot'[t] = S
  BY <1>1 DEF IInv, TypeOK
<1>4. TypeOK'
  BY <1>1, <1>2 DEF IInv, TypeOK, dbVars
<1>5. PlaceOK(t)'
  BY <1>1, <1>2, <1>3, Same DEF PlaceOK
<1>6. LeftOK(t)'
  BY <1>3 DEF LeftOK
<1>7. ListOK(t)'
  BY <1>3 DEF ListOK
<1>8. result[t] \in QueryOutcome
  BY DEF IInv, ThreadsOK
<1>. QED
  BY <1>1, <1>4, <1>5, <1>6, <1>7, <1>8, Same, OneThread

(* A query that ends.                                                       *)
LEMMA EndsSafe ==
  ASSUME IInv, NEW t \in Thread, UNCHANGED dbVars,
         NEW S \in {NoSlot, Free} \cup 1..Last, slot' = [slot EXCEPT ![t] = S],
         NEW U \in BOOLEAN, untidy' = [untidy EXCEPT ![t] = U],
         NEW R \in QueryOutcome, Ends(t, R),
         S \notin {NoSlot, Free} => U,
         R = "list" => S \in 1..Last /\ checkpoints[S].keys \cap Asset # {}
  PROVE  IInv'
<1>1. /\ pc' = [pc EXCEPT ![t] = "idle"]
      /\ query' = [query EXCEPT ![t] = NoQuery]
      /\ result' = [result EXCEPT ![t] = R]
      /\ asked' = [asked EXCEPT ![t] = 0]
      /\ raced' = [raced EXCEPT ![t] = FALSE]
  BY DEF Ends
<1>2. Last' = Last /\ Last \in Nat
  BY DEF dbVars, Last, IInv, HistoryOK
<1>3. /\ pc'[t] = "idle" /\ slot'[t] = S /\ untidy'[t] = U /\ result'[t] = R
  BY <1>1 DEF IInv, TypeOK, ThreadsOK
<1>4. TypeOK'
  BY <1>1, <1>2 DEF IInv, TypeOK, dbVars
<1>5. PlaceOK(t)'
  BY <1>3 DEF PlaceOK
<1>6. LeftOK(t)'
  BY <1>3 DEF LeftOK, Pins
<1>7. ListOK(t)'
  BY <1>2, <1>3 DEF ListOK, Pins, Keys, dbVars, NoSlot, Free
<1>. QED
  BY <1>1, <1>4, <1>5, <1>6, <1>7, OneThread

LEMMA GoesSafe ==
  ASSUME IInv, NEW t \in Thread, Goes(t)
  PROVE  IInv'
<1>. DEFINE Slots == {NoSlot, Free} \cup 1..Last
<1>1. slot[t] \in Slots
  BY DEF IInv, TypeOK
<1>2. Last \in Nat \ {0}
  BY DEF IInv, HistoryOK
<1>3. {"none", "FATAL", "ASSET_NOT_FOUND", "found", "list"} = QueryOutcome
  BY DEF QueryOutcome
<1>4. CASE Lookup(t)
  <2>1. UNCHANGED dbVars /\ slot' = [slot EXCEPT ![t] = slot[t]]
        /\ untidy' = untidy /\ untidy' = [untidy EXCEPT ![t] = untidy[t]]
        /\ pc[t] = "lookup"
    BY <1>4, Same DEF Lookup
  <2>2. Pins(t) => untidy[t]
    BY <2>1, Same DEF LeftOK
  <2>3. Pins(t)' <=> Pins(t)
    BY <1>4 DEF Lookup, Pins
  <2>4. CASE GoesTo(t, "begin")
    BY <1>1, <2>1, <2>2, <2>3, <2>4, GoesOn
  <2>5. CASE Ends(t, "ASSET_NOT_FOUND")
    BY <1>1, <1>3, <2>1, <2>2, <2>5, Same, EndsSafe DEF Pins
  <2>. QED
    BY <1>4, <2>4, <2>5 DEF Lookup
<1>5. CASE BeginTwice(t)
  <2>1. UNCHANGED dbVars /\ slot' = [slot EXCEPT ![t] = slot[t]]
        /\ untidy' = untidy /\ pc[t] = "begin" /\ Pins(t)
        /\ GoesTo(t, "undefined")
    BY <1>5, Same DEF BeginTwice
  <2>2. untidy[t]
    BY <2>1, Same DEF LeftOK
  <2>. QED
    BY <1>1, <2>1, <2>2, GoesOn
<1>6. CASE BeginFull(t)
  <2>1. UNCHANGED dbVars /\ slot' = [slot EXCEPT ![t] = slot[t]]
        /\ untidy' = [untidy EXCEPT ![t] = untidy[t]]
        /\ slot[t] = NoSlot /\ Ends(t, "FATAL")
    BY <1>6, Same DEF BeginFull
  <2>. QED
    BY <1>1, <1>3, <2>1, Same, EndsSafe
<1>7. CASE Begin(t)
  <2>1. UNCHANGED dbVars /\ slot' = [slot EXCEPT ![t] = Last]
        /\ pc[t] = "begin"
    BY <1>7 DEF Begin
  <2>2. Last \in 1..Last /\ Last \notin {NoSlot, Free}
    BY <1>2 DEF NoSlot, Free
  <2>3. asked[t] <= Last
    BY <1>2, <2>1, Same DEF PlaceOK
  <2>4. Pins(t)'
    BY <2>1, <2>2 DEF Pins, IInv, TypeOK
  <2>5. CASE GoesTo(t, "get") /\ untidy' = untidy
    BY <2>1, <2>2, <2>3, <2>4, <2>5, GoesOn
  <2>6. CASE Ends(t, "FATAL") /\ untidy' = [untidy EXCEPT ![t] = TRUE]
    BY <1>3, <2>1, <2>2, <2>6, EndsSafe
  <2>. QED
    BY <1>7, <2>5, <2>6 DEF Begin
<1>8. ASSUME pc[t] = "get" PROVE slot[t] \in 1..Last
  BY <1>1, <1>8, Same DEF PlaceOK, Pins
<1>9. ASSUME Tidy(t) PROVE /\ slot' = [slot EXCEPT ![t] = Free]
                           /\ untidy' = [untidy EXCEPT ![t] = untidy[t]]
  BY <1>9, Same DEF Tidy
<1>10. ASSUME Untidy(t) PROVE /\ slot' = [slot EXCEPT ![t] = slot[t]]
                              /\ untidy' = [untidy EXCEPT ![t] = TRUE]
  BY <1>10, Same DEF Untidy
<1>11. CASE GetAsset(t)
  <2>1. CASE Ends(t, "found") /\ Tidy(t)
    BY <1>3, <1>9, <1>11, <2>1, Same, EndsSafe DEF GetAsset
  <2>2. CASE Ends(t, "ASSET_NOT_FOUND") /\ Untidy(t)
    BY <1>1, <1>3, <1>10, <1>11, <2>2, EndsSafe DEF GetAsset
  <2>. QED
    BY <1>11, <2>1, <2>2 DEF GetAsset
<1>12. CASE GetAll(t)
  <2>1. UNCHANGED dbVars /\ Untidy(t) /\ pc[t] = "get"
    BY <1>12 DEF GetAll
  <2>2. CASE checkpoints[slot[t]].keys \cap Asset = {}
    <3>1. Ends(t, "none")
      BY <1>12, <2>2 DEF GetAll, Keys
    <3>. QED
      BY <1>1, <1>3, <1>10, <2>1, <3>1, EndsSafe
  <2>3. CASE checkpoints[slot[t]].keys \cap Asset # {}
    <3>1. Ends(t, "list")
      BY <1>12, <2>3 DEF GetAll, Keys
    <3>. QED
      BY <1>1, <1>3, <1>8, <1>10, <2>1, <2>3, <3>1, EndsSafe
  <2>. QED
    BY <2>2, <2>3
<1>13. CASE GetTx(t)
  <2>1. CASE Ends(t, "found") /\ Tidy(t)
    BY <1>3, <1>9, <1>13, <2>1, Same, EndsSafe DEF GetTx
  <2>2. CASE Ends(t, "none") /\ Untidy(t)
    BY <1>1, <1>3, <1>10, <1>13, <2>2, EndsSafe DEF GetTx
  <2>. QED
    BY <1>13, <2>1, <2>2 DEF GetTx
<1>. QED
  BY <1>4, <1>5, <1>6, <1>7, <1>11, <1>12, <1>13 DEF Goes

LEMMA RestartSafe ==
  ASSUME IInv, NEW t \in Thread, Restart(t)
  PROVE  IInv'
<1>1. /\ UNCHANGED <<dbVars, pc, query, asked, raced>>
      /\ slot' = [slot EXCEPT ![t] = NoSlot]
      /\ result' = [result EXCEPT ![t] = "none"]
      /\ untidy' = [untidy EXCEPT ![t] = FALSE]
      /\ pc[t] = "idle"
  BY DEF Restart
<1>2. slot'[t] = NoSlot /\ result'[t] = "none" /\ untidy'[t] = FALSE
  BY <1>1 DEF IInv, TypeOK, ThreadsOK
<1>3. TypeOK'
  BY <1>1 DEF IInv, TypeOK, dbVars, Last
<1>4. PlaceOK(t)' /\ LeftOK(t)' /\ ListOK(t)'
  BY <1>1, <1>2 DEF PlaceOK, LeftOK, ListOK, Pins
<1>5. "none" \in QueryOutcome
  BY DEF QueryOutcome
<1>. QED
  BY <1>1, <1>3, <1>4, <1>5, Same, OneThread
-----------------------------------------------------------------------------
(* The invariant holds in every state: the writer keeps the copy of the     *)
(* assets ahead of the last checkpoint, and a thread has a transaction only *)
(* while it reads or after a query that left it.                            *)
THEOREM ReadersInvariance == Spec => []IInv
<1>1. IInv /\ [Next]_vars => IInv'
  <2>. SUFFICES ASSUME IInv, [Next]_vars PROVE IInv'
    OBVIOUS
  <2>1. CASE UNCHANGED vars
    BY <2>1 DEF vars, dbVars, threadVars, IInv, TypeOK, HistoryOK, CopyOK,
      ThreadsOK, PlaceOK, LeftOK, ListIsPinned, Pins, Keys, Last
  <2>. QED
    BY <2>1, WriterSafe, AskSafe, GoesSafe, RestartSafe DEF Next
<1>. QED
  BY <1>1, InitSafe, PTL DEF Spec

(* The database, the reader slots and the threads' places keep their types. *)
THEOREM ReadersTypeCorrect == Spec => []TypeOK
<1>1. IInv => TypeOK
  BY DEF IInv
<1>. QED
  BY <1>1, ReadersInvariance, PTL

(* Only a thread with a query that left its transaction is refused another  *)
(* one (tx_store.cc:264-306, wsv.cc:474-512).                               *)
THEOREM TidyThreadsAreServed == Spec => []TidyThreadsGoOn
<1>1. IInv => TidyThreadsGoOn
  BY DEF IInv, ThreadsOK, LeftOK, TidyThreadsGoOn
<1>. QED
  BY <1>1, ReadersInvariance, PTL

(* A list of an account's assets is pinned until its thread asks again      *)
(* (wsv.cc:555-570).                                                        *)
THEOREM ListsArePinned == Spec => []ListIsPinned
<1>1. IInv => ListIsPinned
  BY DEF IInv
<1>. QED
  BY <1>1, ReadersInvariance, PTL

(* Only a step of the thread itself gives its query a result.               *)
LEMMA OwnResult ==
  ASSUME IInv, Next, NEW t \in Thread, pc[t] \in {"lookup", "get"},
         result'[t] = "ASSET_NOT_FOUND"
  PROVE  Goes(t)
<1>. USE DEF IInv, ThreadsOK
<1>1. result[t] = "none"
  BY DEF PlaceOK
<1>2. CASE Writer
  BY <1>1, <1>2 DEF Writer, AppendCreate, AppendAdd, AppendRemove, Commit,
    Rollback, Clear, Fill, threadVars
<1>3. ASSUME NEW u \in Thread, NEW q \in Query, Ask(u, q) PROVE FALSE
  BY <1>1, <1>3 DEF Ask
<1>4. ASSUME NEW u \in Thread, Restart(u) PROVE FALSE
  BY <1>1, <1>4 DEF Restart
<1>5. ASSUME NEW u \in Thread, Goes(u), u # t PROVE FALSE
  BY <1>1, <1>5 DEF Goes, Lookup, BeginTwice, BeginFull, Begin, GetAsset,
    GetAll, GetTx, Ends, GoesTo
<1>. QED
  BY <1>2, <1>3, <1>4, <1>5 DEF Next

(* What is not found was not created and held in one of the checkpoints     *)
(* that there were during the query, unless the writer overtook the query   *)
(* in created_assets_ (wsv.cc:97-109, 459-466, 503-507): the copy is never  *)
(* behind the last checkpoint, and the transaction never before the call.   *)
THEOREM NotFoundMeansAbsent == Spec => NotFoundIsTrue
<1>. DEFINE Absent(t) ==
       \E i \in asked[t]..Last :
         query[t].key \notin checkpoints[i].created \cap checkpoints[i].keys
<1>1. ASSUME IInv, Next, NEW t \in Thread, pc[t] \in {"lookup", "get"},
             result'[t] = "ASSET_NOT_FOUND", ~raced[t]
      PROVE  Absent(t)
  <2>1. Goes(t)
    BY <1>1, OwnResult
  <2>2. /\ asked[t] \in 1..Last /\ result[t] = "none" /\ Last \in Nat \ {0}
        /\ result \in [Thread -> QueryOutcome]
    BY <1>1 DEF IInv, ThreadsOK, PlaceOK, HistoryOK
  <2>3. CASE pc[t] = "lookup"
    <3>1. Lookup(t)
      BY <2>1, <2>3 DEF Goes, BeginTwice, BeginFull, Begin, GetAsset, GetAll,
        GetTx
    <3>2. query[t].key \notin created_assets
      BY <1>1, <2>2, <3>1 DEF Lookup, GoesTo
    <3>3. writer \in {"append", "loading"}
      BY <1>1, <2>3 DEF IInv, TypeOK, ThreadsOK, PlaceOK
    <3>4. checkpoints[Last].created \subseteq created_assets
      BY <1>1, <3>3 DEF IInv, CopyOK
    <3>5. Last \in asked[t]..Last
      BY <2>2
    <3>. QED
      BY <3>2, <3>4, <3>5
  <2>4. CASE pc[t] = "get"
    <3>1. slot[t] \in asked[t]..Last
      BY <1>1, <2>2, <2>4 DEF IInv, TypeOK, ThreadsOK, PlaceOK, Pins
    <3>2. GetAsset(t) \/ GetAll(t) \/ GetTx(t)
      BY <2>1, <2>4 DEF Goes, Lookup, BeginTwice, BeginFull, Begin
    <3>3. GetAsset(t)
      BY <1>1, <2>2, <3>2 DEF GetAll, GetTx, Ends
    <3>4. query[t].key \notin Keys(t)
      BY <1>1, <2>2, <3>3 DEF GetAsset, Ends
    <3>. QED
      BY <3>1, <3>4 DEF Keys
  <2>. QED
    BY <1>1, <2>3, <2>4
<1>2. IInv /\ [Next]_vars
        => [\A t \in Thread :
              /\ pc[t] \in {"lookup", "get"}
              /\ result'[t] = "ASSET_NOT_FOUND"
              /\ ~raced[t]
              => Absent(t)]_vars
  BY <1>1
<1>. QED
  BY <1>2, ReadersInvariance, PTL DEF Spec, NotFoundIsTrue
=============================================================================
