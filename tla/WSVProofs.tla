----------------------------- MODULE WSVProofs ------------------------------
(***************************************************************************)
(* The handlers of the world state view keep its trees well formed and the *)
(* copy of the tree of assets equal to it.  One lemma for each handler,    *)
(* and the theorems about a view on its own.                               *)
(***************************************************************************)
EXTENDS WSV, Induction

(* The states of a WSV object that the handlers meet and leave.             *)
ObjectOK(s) ==
  /\ s = [wsv |-> s.wsv, created_assets |-> s.created_assets, res |-> s.res]
  /\ IsWSV(s.wsv)
  /\ s.created_assets = s.wsv.assets
  /\ s.res \in Outcome

(* Put and Del keep a partial function one.                                 *)
LEMMA PutIsTree ==
  ASSUME NEW K, NEW V, NEW tree, IsTree(tree, K, V), NEW k \in K, NEW v \in V
  PROVE  IsTree(Put(tree, k, v), K, V)
BY DEF IsTree, Put

LEMMA DelIsTree ==
  ASSUME NEW K, NEW V, NEW tree, IsTree(tree, K, V), NEW keys
  PROVE  IsTree(Del(tree, keys), K, V)
BY DEF IsTree, Del

LEMMA EmptyIsTree ==
  ASSUME NEW K, NEW V
  PROVE  IsTree(EmptyTree, K, V)
BY DEF IsTree, EmptyTree

LEMMA EmptyWSVIsWSV == IsWSV(EmptyWSV)
BY EmptyIsTree DEF IsWSV, EmptyWSV

(* Unsigned arithmetic stays in the range of the type.                      *)
LEMMA ModAmount ==
  ASSUME NEW n \in Int
  PROVE  n % Word \in Amount
BY CurrencyAssumption DEF Amount

LEMMA StoredIsHolding ==
  ASSUME NEW a \in AssetFb
  PROVE  Stored(a) \in Holding
BY DEF AssetFb, Stored, Holding

LEMMA MutateIsHolding ==
  ASSUME NEW h \in Holding, NEW a \in AssetFb
  PROVE  Mutate(h, Plus(h, a)) \in Holding /\ Mutate(h, Minus(h, a)) \in Holding
<1>1. h.amount \in Int /\ a.amount \in Int
  BY CurrencyAssumption DEF Holding, AssetFb, Amount
<1>2. (h.amount + a.amount) % Word \in Amount
  BY <1>1, ModAmount
<1>3. (h.amount - a.amount) % Word \in Amount
  BY <1>1, ModAmount
<1>. QED
  BY <1>2, <1>3 DEF Mutate, Plus, Minus, Holding

(* A new tree in the place of one of the four.                              *)
LEMMA WithHoldings ==
  ASSUME NEW s, ObjectOK(s), NEW h, IsTree(h, PubKey \X AssetIds, Holding)
  PROVE  ObjectOK([s EXCEPT !.wsv.holdings = h])
BY DEF ObjectOK, IsWSV

LEMMA WithRes ==
  ASSUME NEW s, ObjectOK(s), NEW r \in Outcome
  PROVE  ObjectOK([s EXCEPT !.res = r])
BY DEF ObjectOK
-----------------------------------------------------------------------------
LEMMA AssetCreateOK ==
  ASSUME NEW s, ObjectOK(s), NEW cmd, cmd.asset \in Asset
  PROVE  ObjectOK(asset_create(s, cmd))
<1>1. AssetId(cmd.asset) \in AssetIds
  BY DEF AssetIds
<1>2. IsTree(Put(s.wsv.assets, AssetId(cmd.asset), cmd.asset), AssetIds, Asset)
  BY <1>1, PutIsTree DEF ObjectOK, IsWSV
<1>. DEFINE t == Put(s.wsv.assets, AssetId(cmd.asset), cmd.asset)
            w == [s.wsv EXCEPT !.assets = t]
<1>3. asset_create(s, cmd) = [s EXCEPT !.wsv = w, !.created_assets = t]
  BY DEF asset_create, ObjectOK
<1>4. IsWSV(w) /\ w.assets = t
  BY <1>2 DEF ObjectOK, IsWSV
<1>. HIDE DEF t, w
<1>. QED
  BY <1>3, <1>4 DEF ObjectOK

LEMMA AddCurrencyOK ==
  ASSUME NEW s, ObjectOK(s), NEW k \in PubKey, NEW a \in AssetFb
  PROVE  ObjectOK(account_add_currency(s, k, a))
<1>. DEFINE key == <<k, AssetId(a.name)>>
            h == s.wsv.holdings[key]
<1>1. key \in PubKey \X AssetIds
  BY DEF AssetFb, AssetIds
<1>2. IsTree(s.wsv.holdings, PubKey \X AssetIds, Holding)
  BY DEF ObjectOK, IsWSV
<1>3. CASE ~HasAsset(s, k, a.name)
  <2>1. IsTree(Put(s.wsv.holdings, key, Stored(a)), PubKey \X AssetIds, Holding)
    BY <1>1, <1>2, PutIsTree, StoredIsHolding
  <2>. QED
    BY <1>3, <2>1, WithHoldings DEF account_add_currency
<1>4. CASE HasAsset(s, k, a.name) /\ ~(Constructible(h) /\ Constructible(a))
  BY <1>4, WithRes DEF account_add_currency, Outcome
<1>5. CASE HasAsset(s, k, a.name) /\ Constructible(h) /\ Constructible(a)
  <2>1. h \in Holding
    BY <1>2, <1>5 DEF HasAsset, IsTree
  <2>2. IsTree(Put(s.wsv.holdings, key, Mutate(h, Plus(h, a))),
               PubKey \X AssetIds, Holding)
    BY <1>1, <1>2, <2>1, PutIsTree, MutateIsHolding
  <2>. QED
    BY <1>5, <2>2, WithHoldings DEF account_add_currency
<1>. QED
  BY <1>3, <1>4, <1>5

LEMMA RemoveCurrencyOK ==
  ASSUME NEW s, ObjectOK(s), NEW k \in PubKey, NEW a \in AssetFb
  PROVE  ObjectOK(account_remove_currency(s, k, a))
<1>. DEFINE key == <<k, AssetId(a.name)>>
            h == s.wsv.holdings[key]
<1>1. key \in PubKey \X AssetIds
  BY DEF AssetFb, AssetIds
<1>2. IsTree(s.wsv.holdings, PubKey \X AssetIds, Holding)
  BY DEF ObjectOK, IsWSV
<1>3. CASE \/ ~HasAsset(s, k, a.name)
           \/ ~(Constructible(h) /\ Constructible(a))
           \/ Less(h, a)
  BY <1>3, WithRes DEF account_remove_currency, Outcome
<1>4. CASE /\ HasAsset(s, k, a.name)
           /\ Constructible(h) /\ Constructible(a)
           /\ ~Less(h, a)
  <2>1. h \in Holding
    BY <1>2, <1>4 DEF HasAsset, IsTree
  <2>2. IsTree(Put(s.wsv.holdings, key, Mutate(h, Minus(h, a))),
               PubKey \X AssetIds, Holding)
    BY <1>1, <1>2, <2>1, PutIsTree, MutateIsHolding
  <2>. QED
    BY <1>4, <2>2, WithHoldings DEF account_remove_currency
<1>. QED
  BY <1>3, <1>4

LEMMA TransferOK ==
  ASSUME NEW s, ObjectOK(s), NEW cmd, cmd.sender \in PubKey,
         cmd.receiver \in PubKey, cmd.asset \in AssetFb
  PROVE  ObjectOK(asset_transfer(s, cmd))
BY RemoveCurrencyOK, AddCurrencyOK DEF asset_transfer

LEMMA AccountsOK ==
  ASSUME NEW s, ObjectOK(s), NEW cmd
  PROVE  /\ cmd.account \in Account => ObjectOK(account_add(s, cmd))
         /\ ObjectOK(account_remove(s, cmd))
<1>1. ASSUME cmd.account \in Account PROVE ObjectOK(account_add(s, cmd))
  <2>1. IsTree(Put(s.wsv.accounts, cmd.account.pubKey, cmd.account),
               PubKey, Account)
    BY <1>1, PutIsTree DEF ObjectOK, IsWSV, Account
  <2>. QED
    BY <2>1 DEF account_add, ObjectOK, IsWSV
<1>2. CASE cmd.pubkey \in DOMAIN s.wsv.accounts
  <2>1. IsTree(Del(s.wsv.accounts, {cmd.pubkey}), PubKey, Account)
    BY DelIsTree DEF ObjectOK, IsWSV
  <2>2. IsTree(Del(s.wsv.holdings, {cmd.pubkey} \X AssetIds),
               PubKey \X AssetIds, Holding)
    BY DelIsTree DEF ObjectOK, IsWSV
  <2>. QED
    BY <1>1, <1>2, <2>1, <2>2 DEF account_remove, ObjectOK, IsWSV
<1>3. CASE cmd.pubkey \notin DOMAIN s.wsv.accounts
  BY <1>1, <1>3, WithRes DEF account_remove, Outcome
<1>. QED
  BY <1>1, <1>2, <1>3

LEMMA PeersOK ==
  ASSUME NEW s, ObjectOK(s), NEW cmd, cmd.peer \in Peer
  PROVE  ObjectOK(peer_add(s, cmd)) /\ ObjectOK(peer_remove(s, cmd))
<1>1. ObjectOK(peer_add(s, cmd))
  <2>1. IsTree(Put(s.wsv.peers, cmd.peer.ip, cmd.peer), Ip, Peer)
    BY PutIsTree DEF ObjectOK, IsWSV, Peer
  <2>. QED
    BY <2>1 DEF peer_add, ObjectOK, IsWSV
<1>2. CASE cmd.peer.ip \in DOMAIN s.wsv.peers
  <2>1. IsTree(Del(s.wsv.peers, {cmd.peer.ip}), Ip, Peer)
    BY DelIsTree DEF ObjectOK, IsWSV
  <2>. QED
    BY <1>1, <1>2, <2>1 DEF peer_remove, ObjectOK, IsWSV
<1>3. CASE cmd.peer.ip \notin DOMAIN s.wsv.peers
  BY <1>1, <1>3, WithRes DEF peer_remove, Outcome
<1>. QED
  BY <1>2, <1>3

(* Every command leaves a well-formed view whose copy of the assets is up   *)
(* to date, also when it throws.                                            *)
LEMMA UpdateOK ==
  ASSUME NEW s, ObjectOK(s), NEW cmd \in Command
  PROVE  ObjectOK(update(s, cmd))
<1>1. cmd \in CommandFb
  BY SchemaAssumption
<1>2. "NOT_IMPLEMENTED" \in Outcome
  BY DEF Outcome
<1>3. CASE IsComplex(cmd)
  BY <1>2, <1>3, WithRes DEF update
<1>4. CASE ~IsComplex(cmd) /\ cmd.type = "AssetCreate"
  BY <1>1, <1>4, AssetCreateOK DEF update, CommandFb
<1>5. CASE ~IsComplex(cmd) /\ cmd.type = "AssetAdd"
  BY <1>1, <1>5, AddCurrencyOK DEF update, asset_add, CommandFb
<1>6. CASE ~IsComplex(cmd) /\ cmd.type = "AssetRemove"
  BY <1>1, <1>6, RemoveCurrencyOK DEF update, asset_remove, CommandFb
<1>7. CASE ~IsComplex(cmd) /\ cmd.type = "AssetTransfer"
  BY <1>1, <1>7, TransferOK DEF update, CommandFb
<1>8. CASE ~IsComplex(cmd) /\ cmd.type \in {"AccountAdd", "AccountRemove"}
  BY <1>1, <1>8, AccountsOK DEF update, CommandFb
<1>9. CASE ~IsComplex(cmd) /\ cmd.type \in {"PeerAdd", "PeerRemove"}
  BY <1>1, <1>9, PeersOK DEF update, CommandFb
<1>10. CASE /\ ~IsComplex(cmd)
            /\ cmd.type \notin {"AssetCreate", "AssetAdd", "AssetRemove",
                                "AssetTransfer", "AccountAdd", "AccountRemove",
                                "PeerAdd", "PeerRemove"}
  BY <1>2, <1>10, WithRes DEF update
<1>. QED
  BY <1>3, <1>4, <1>5, <1>6, <1>7, <1>8, <1>9, <1>10
-----------------------------------------------------------------------------
WSVInv == WSVTypeOK /\ created_assets = wsv.assets

(* The view keeps its types, and its copy of the assets is the tree.        *)
LEMMA WSVIsInvariant == WSVSpec => []WSVInv
<1>1. WSVInit => WSVInv
  BY EmptyWSVIsWSV DEF WSVInit, WSVInv, WSVTypeOK, ReadCreatedAssets, IsWSV,
                       Outcome
<1>2. WSVInv /\ [WSVNext]_wsvVars => WSVInv'
  <2>. SUFFICES ASSUME WSVInv, [WSVNext]_wsvVars PROVE WSVInv'
    OBVIOUS
  <2>1. ASSUME NEW cmd \in Command, Update(cmd) PROVE WSVInv'
    <3>. DEFINE s == [wsv |-> wsv, created_assets |-> created_assets,
                      res |-> "OK"]
    <3>1. ObjectOK(s)
      BY DEF WSVInv, WSVTypeOK, ObjectOK, Outcome
    <3>2. ObjectOK(update(s, cmd))
      BY <3>1, UpdateOK
    <3>. QED
      BY <2>1, <3>2 DEF Update, WSVInv, WSVTypeOK, ObjectOK, IsWSV
  <2>2. CASE UNCHANGED wsvVars
    BY <2>2 DEF wsvVars, WSVInv, WSVTypeOK
  <2>. QED
    BY <2>1, <2>2 DEF WSVNext
<1>. QED
  BY <1>1, <1>2, PTL DEF WSVSpec

(* The trees of a view on its own are well formed, and so is the copy in    *)
(* memory, whatever commands are submitted and refused (wsv.cc:50-438).     *)
THEOREM WSVTypeCorrect == WSVSpec => []WSVTypeOK
<1>1. WSVInv => WSVTypeOK
  BY DEF WSVInv
<1>. QED
  BY <1>1, WSVIsInvariant, PTL

(* A call on s that is refused with an InvalidTransaction, not bad_alloc.   *)
Harmless(s, t) ==
  t.res \notin {"OK", "bad_alloc"}
    => t.wsv = s.wsv /\ t.created_assets = s.created_assets

LEMMA AddIsNeverRefused ==
  ASSUME NEW s, ObjectOK(s), s.res = "OK", NEW k, NEW a
  PROVE  account_add_currency(s, k, a).res \in {"OK", "bad_alloc"}
BY DEF account_add_currency, ObjectOK

LEMMA RemoveIsHarmless ==
  ASSUME NEW s, ObjectOK(s), s.res = "OK", NEW k, NEW a
  PROVE  Harmless(s, account_remove_currency(s, k, a))
BY DEF account_remove_currency, ObjectOK, Harmless

(* What a handler does not return from, it refuses before its first write.  *)
LEMMA UpdateIsHarmless ==
  ASSUME NEW s, ObjectOK(s), s.res = "OK", NEW cmd \in Command
  PROVE  Harmless(s, update(s, cmd))
<1>1. cmd \in CommandFb
  BY SchemaAssumption
<1>2. ASSUME NEW r PROVE Harmless(s, [s EXCEPT !.res = r])
  BY DEF ObjectOK, Harmless
<1>3. Harmless(s, asset_create(s, cmd))
  BY DEF asset_create, ObjectOK, Harmless
<1>4. Harmless(s, asset_add(s, cmd))
  BY AddIsNeverRefused DEF asset_add, Harmless
<1>5. Harmless(s, asset_remove(s, cmd))
  BY RemoveIsHarmless DEF asset_remove
<1>6. CASE ~IsComplex(cmd) /\ cmd.type = "AssetTransfer"
  <2>. DEFINE debited == account_remove_currency(s, cmd.sender, cmd.asset)
  <2>1. cmd.sender \in PubKey /\ cmd.asset \in AssetFb
    BY <1>1, <1>6 DEF CommandFb
  <2>2. CASE debited.res = "OK"
    <3>1. ObjectOK(debited)
      BY <2>1, RemoveCurrencyOK
    <3>. QED
      BY <1>6, <2>2, <3>1, AddIsNeverRefused DEF update, asset_transfer, Harmless
  <2>3. CASE debited.res # "OK"
    BY <1>6, <2>3, RemoveIsHarmless DEF update, asset_transfer
  <2>. QED
    BY <2>2, <2>3
<1>7. Harmless(s, account_add(s, cmd)) /\ Harmless(s, account_remove(s, cmd))
  BY DEF account_add, account_remove, ObjectOK, Harmless
<1>8. Harmless(s, peer_add(s, cmd)) /\ Harmless(s, peer_remove(s, cmd))
  BY DEF peer_add, peer_remove, ObjectOK, Harmless
<1>. QED
  BY <1>2, <1>3, <1>4, <1>5, <1>6, <1>7, <1>8 DEF update

(* A refused command has changed nothing, for every set of commands: a      *)
(* transfer refuses before it writes (wsv.cc:306-315).                      *)
THEOREM RefusalsAreAtomic == WSVSpec => RefusalIsAtomic
<1>. DEFINE Atomic == result' \notin {"OK", "bad_alloc"}
                        => UNCHANGED <<wsv, created_assets>>
<1>1. WSVInv /\ [WSVNext]_wsvVars => [Atomic]_wsvVars
  <2>. SUFFICES ASSUME WSVInv, NEW cmd \in Command, Update(cmd)
                PROVE  Atomic
    BY DEF WSVNext
  <2>. DEFINE s == [wsv |-> wsv, created_assets |-> created_assets,
                    res |-> "OK"]
  <2>1. ObjectOK(s)
    BY DEF WSVInv, WSVTypeOK, ObjectOK, Outcome
  <2>2. Harmless(s, update(s, cmd))
    BY <2>1, UpdateIsHarmless
  <2>. QED
    BY <2>2 DEF Update, Harmless
<1>2. WSVSpec => []WSVInv
  BY WSVIsInvariant
<1>. QED
  BY <1>1, <1>2, PTL DEF WSVSpec, RefusalIsAtomic
-----------------------------------------------------------------------------
(* An amount that the blob has no room for is 0.                            *)
AbsentIsZero(w) ==
  \A key \in DOMAIN w.holdings :
    ~w.holdings[key].has_amount => w.holdings[key].amount = 0

(* What k holds of the asset with key id in the trees w.                    *)
Held(w, k, id) ==
  IF <<k, id>> \in DOMAIN w.holdings THEN w.holdings[<<k, id>>].amount ELSE 0

(* A difference of less than a word, as an unsigned number.                 *)
LEMMA ModWord ==
  ASSUME NEW n \in Int
  PROVE  /\ n \in 0..Word - 1 => n % Word = n
         /\ n \in Word..2 * Word - 1 => n % Word = n - Word
         /\ n \in -Word..-1 => n % Word = n + Word
<1>. USE CurrencyAssumption
<1>1. ASSUME n \in 0..Word - 1 PROVE n % Word = n
  <2>1. n = Word * 0 + n
    OBVIOUS
  <2>. QED
    BY <1>1, <2>1, DivModUnique
<1>2. ASSUME n \in Word..2 * Word - 1 PROVE n % Word = n - Word
  <2>1. n = Word * 1 + (n - Word) /\ n - Word \in 0..Word - 1
    BY <1>2
  <2>. QED
    BY <2>1, DivModUnique
<1>3. ASSUME n \in -Word..-1 PROVE n % Word = n + Word
  <2>1. n = Word * (-1) + (n + Word) /\ n + Word \in 0..Word - 1
    BY <1>3
  <2>. QED
    BY <2>1, DivModUnique
<1>. QED
  BY <1>1, <1>2, <1>3

(* The order by whole units and then by what is left of them.               *)
LEMMA PartsOrder ==
  ASSUME NEW x \in Nat, NEW y \in Nat, NEW d \in Nat \ {0},
         ~(x \div d < y \div d), ~(x \div d = y \div d /\ x % d < y % d)
  PROVE  y <= x
<1>. DEFINE xi == x \div d
            xf == x % d
            yi == y \div d
            yf == y % d
<1>1. /\ xi \in Int /\ xf \in 0..d - 1 /\ x = d * xi + xf
      /\ yi \in Int /\ yf \in 0..d - 1 /\ y = d * yi + yf
  OBVIOUS
<1>2. ~(xi < yi) /\ ~(xi = yi /\ xf < yf)
  OBVIOUS
<1>. HIDE DEF xi, xf, yi, yf
<1>3. CASE xi = yi
  BY <1>1, <1>2, <1>3
<1>4. CASE xi >= yi + 1
  <2>1. d * xi >= d * yi + d
    BY <1>1, <1>4
  <2>. QED
    BY <1>1, <2>1
<1>. QED
  BY <1>1, <1>2, <1>3, <1>4

(* The comparison refuses a debit that is not covered, of as many decimals  *)
(* as the holding...                                                        *)
LEMMA NotLessIsCovered ==
  ASSUME NEW h \in Holding, NEW a \in AssetFb, ~Less(h, a),
         h.precision = a.precision
  PROVE  a.amount <= h.amount
<1>1. power(10, a.precision) \in Nat \ {0}
  BY PowerPositive DEF AssetFb
<1>2. h.amount \in Nat /\ a.amount \in Nat
  BY CurrencyAssumption DEF Holding, AssetFb, Amount
<1>. QED
  BY <1>1, <1>2, PartsOrder DEF Less, integer, fractional

(* ... and, of any number of decimals, one from nothing.                    *)
LEMMA ZeroIsLess ==
  ASSUME NEW y \in Nat \ {0}, NEW d \in Nat \ {0}, NEW e \in Nat \ {0}
  PROVE  \/ 0 \div d < y \div e
         \/ 0 \div d = y \div e /\ 0 % d < y % e
<1>1. 0 = d * 0 + 0 /\ 0 \in 0..d - 1
  OBVIOUS
<1>2. 0 \div d = 0 /\ 0 % d = 0
  BY <1>1, DivModUnique
<1>3. 0 \div e = 0 /\ 0 % e = 0
  BY <1>1, DivModUnique
<1>. QED
  BY <1>2, <1>3, PartsOrder

LEMMA NotLessThanZero ==
  ASSUME NEW h \in Holding, NEW a \in AssetFb, ~Less(h, a), h.amount = 0
  PROVE  a.amount = 0
<1>. DEFINE d == power(10, h.precision)
            e == power(10, a.precision)
            y == a.amount
<1>1. d \in Nat \ {0} /\ e \in Nat \ {0}
  BY PowerPositive DEF AssetFb, Holding
<1>2. y \in Nat
  BY CurrencyAssumption DEF AssetFb, Amount
<1>3. ~(0 \div d < y \div e) /\ ~(0 \div d = y \div e /\ 0 % d < y % e)
  BY Zenon DEF Less, integer, fractional
<1>. HIDE DEF d, e, y
<1>4. y = 0
  BY <1>1, <1>2, <1>3, ZeroIsLess
<1>. QED
  BY <1>4 DEF y
-----------------------------------------------------------------------------
(* Every handler leaves the amounts that have no room zero.                 *)
LEMMA PutKeepsAbsent ==
  ASSUME NEW w, AbsentIsZero(w), NEW v, NEW key, NEW h,
         v.holdings = Put(w.holdings, key, h), ~h.has_amount => h.amount = 0
  PROVE  AbsentIsZero(v)
BY DEF AbsentIsZero, Put

LEMMA AddKeepsAbsent ==
  ASSUME NEW s, ObjectOK(s), AbsentIsZero(s.wsv), NEW k, NEW a \in AssetFb
  PROVE  AbsentIsZero(account_add_currency(s, k, a).wsv)
<1>. DEFINE t == account_add_currency(s, k, a)
            key == <<k, AssetId(a.name)>>
            h == s.wsv.holdings[key]
<1>1. CASE ~HasAsset(s, k, a.name)
  <2>1. t.wsv.holdings = Put(s.wsv.holdings, key, Stored(a))
    BY <1>1 DEF account_add_currency, ObjectOK, IsWSV
  <2>2. ~Stored(a).has_amount => Stored(a).amount = 0
    BY DEF Stored
  <2>. QED
    BY <2>1, <2>2, PutKeepsAbsent
<1>2. CASE HasAsset(s, k, a.name) /\ ~(Constructible(h) /\ Constructible(a))
  BY <1>2 DEF account_add_currency, ObjectOK
<1>3. CASE HasAsset(s, k, a.name) /\ Constructible(h) /\ Constructible(a)
  <2>. DEFINE m == Mutate(h, Plus(h, a))
  <2>1. t.wsv.holdings = Put(s.wsv.holdings, key, m)
    BY <1>3 DEF account_add_currency, ObjectOK, IsWSV
  <2>2. h \in Holding /\ (~h.has_amount => h.amount = 0)
    BY <1>3 DEF HasAsset, ObjectOK, IsWSV, IsTree, AbsentIsZero
  <2>3. ~m.has_amount => m.amount = 0
    BY <2>2 DEF Mutate, Holding
  <2>. QED
    BY <2>1, <2>3, PutKeepsAbsent
<1>. QED
  BY <1>1, <1>2, <1>3

LEMMA RemoveKeepsAbsent ==
  ASSUME NEW s, ObjectOK(s), AbsentIsZero(s.wsv), NEW k, NEW a \in AssetFb
  PROVE  AbsentIsZero(account_remove_currency(s, k, a).wsv)
<1>. DEFINE t == account_remove_currency(s, k, a)
            key == <<k, AssetId(a.name)>>
            h == s.wsv.holdings[key]
<1>1. CASE \/ ~HasAsset(s, k, a.name)
           \/ ~(Constructible(h) /\ Constructible(a))
           \/ Less(h, a)
  BY <1>1 DEF account_remove_currency, ObjectOK
<1>2. CASE /\ HasAsset(s, k, a.name)
           /\ Constructible(h) /\ Constructible(a)
           /\ ~Less(h, a)
  <2>. DEFINE m == Mutate(h, Minus(h, a))
  <2>1. t.wsv.holdings = Put(s.wsv.holdings, key, m)
    BY <1>2 DEF account_remove_currency, ObjectOK, IsWSV
  <2>2. h \in Holding /\ (~h.has_amount => h.amount = 0)
    BY <1>2 DEF HasAsset, ObjectOK, IsWSV, IsTree, AbsentIsZero
  <2>3. ~m.has_amount => m.amount = 0
    BY <2>2 DEF Mutate, Holding
  <2>. QED
    BY <2>1, <2>3, PutKeepsAbsent
<1>. QED
  BY <1>1, <1>2

LEMMA UpdateKeepsAbsent ==
  ASSUME NEW s, ObjectOK(s), AbsentIsZero(s.wsv), NEW cmd \in Command
  PROVE  AbsentIsZero(update(s, cmd).wsv)
<1>1. cmd \in CommandFb
  BY SchemaAssumption
<1>2. ASSUME NEW t, t.wsv.holdings = s.wsv.holdings PROVE AbsentIsZero(t.wsv)
  BY <1>2 DEF AbsentIsZero
<1>3. ASSUME NEW keys, NEW t, t.wsv.holdings = Del(s.wsv.holdings, keys)
      PROVE  AbsentIsZero(t.wsv)
  BY <1>3 DEF AbsentIsZero, Del
<1>4. CASE ~IsComplex(cmd) /\ cmd.type = "AssetAdd"
  BY <1>1, <1>4, AddKeepsAbsent DEF update, asset_add, CommandFb
<1>5. CASE ~IsComplex(cmd) /\ cmd.type = "AssetRemove"
  BY <1>1, <1>5, RemoveKeepsAbsent DEF update, asset_remove, CommandFb
<1>6. CASE ~IsComplex(cmd) /\ cmd.type = "AssetTransfer"
  <2>. DEFINE debited == account_remove_currency(s, cmd.sender, cmd.asset)
  <2>1. cmd.sender \in PubKey /\ cmd.asset \in AssetFb
    BY <1>1, <1>6 DEF CommandFb
  <2>2. ObjectOK(debited) /\ AbsentIsZero(debited.wsv)
    BY <2>1, RemoveCurrencyOK, RemoveKeepsAbsent
  <2>3. AbsentIsZero(account_add_currency(debited, cmd.receiver, cmd.asset).wsv)
    BY <2>1, <2>2, AddKeepsAbsent
  <2>. QED
    BY <1>6, <2>2, <2>3 DEF update, asset_transfer
<1>7. CASE /\ ~IsComplex(cmd)
           /\ cmd.type \in {"AccountAdd", "AccountRemove"}
  <2>1. account_add(s, cmd).wsv.holdings = s.wsv.holdings
    BY DEF account_add, ObjectOK, IsWSV
  <2>2. \/ account_remove(s, cmd).wsv.holdings = s.wsv.holdings
        \/ account_remove(s, cmd).wsv.holdings
             = Del(s.wsv.holdings, {cmd.pubkey} \X AssetIds)
    BY DEF account_remove, ObjectOK, IsWSV
  <2>3. /\ AbsentIsZero(account_add(s, cmd).wsv)
        /\ AbsentIsZero(account_remove(s, cmd).wsv)
    BY <1>2, <1>3, <2>1, <2>2
  <2>. QED
    BY <1>7, <2>3 DEF update
<1>8. CASE \/ IsComplex(cmd)
           \/ cmd.type \notin {"AssetAdd", "AssetRemove", "AssetTransfer",
                               "AccountAdd", "AccountRemove"}
  <2>1. /\ asset_create(s, cmd).wsv.holdings = s.wsv.holdings
        /\ peer_add(s, cmd).wsv.holdings = s.wsv.holdings
        /\ peer_remove(s, cmd).wsv.holdings = s.wsv.holdings
        /\ [s EXCEPT !.res = "NOT_IMPLEMENTED"].wsv.holdings = s.wsv.holdings
    BY DEF asset_create, peer_add, peer_remove, ObjectOK, IsWSV
  <2>2. update(s, cmd).wsv.holdings = s.wsv.holdings
    BY <1>8, <2>1 DEF update
  <2>. QED
    BY <1>2, <2>2
<1>. QED
  BY <1>4, <1>5, <1>6, <1>7, <1>8
-----------------------------------------------------------------------------
(* What a debit that succeeds met, and what it does to what is held.        *)
Debited(s, t, k, a) ==
  LET id == AssetId(a.name)
  IN  /\ HasAsset(s, k, a.name) /\ ~Less(s.wsv.holdings[<<k, id>>], a)
      /\ t.created_assets = s.created_assets
      /\ DOMAIN t.wsv.holdings = DOMAIN s.wsv.holdings
      /\ \A key \in DOMAIN s.wsv.holdings :
           t.wsv.holdings[key].has_amount = s.wsv.holdings[key].has_amount
      /\ \A l \in PubKey : Held(t.wsv, l, id) =
           IF l = k THEN (Held(s.wsv, k, id) - a.amount) % Word
           ELSE Held(s.wsv, l, id)

LEMMA DebitEffect ==
  ASSUME NEW s, ObjectOK(s), s.res = "OK", AbsentIsZero(s.wsv),
         NEW k \in PubKey, NEW a \in AssetFb,
         account_remove_currency(s, k, a).res = "OK"
  PROVE  Debited(s, account_remove_currency(s, k, a), k, a)
<1>. DEFINE t == account_remove_currency(s, k, a)
            id == AssetId(a.name)
            key == <<k, id>>
            h == s.wsv.holdings[key]
            m == Mutate(h, Minus(h, a))
<1>1. HasAsset(s, k, a.name) /\ Constructible(h) /\ Constructible(a) /\ ~Less(h, a)
  BY DEF account_remove_currency
<1>2. t.wsv.holdings = Put(s.wsv.holdings, key, m)
  BY <1>1 DEF account_remove_currency, ObjectOK, IsWSV
<1>3. t.created_assets = s.created_assets
  BY <1>1 DEF account_remove_currency, ObjectOK
<1>4. key \in DOMAIN s.wsv.holdings /\ h \in Holding
      /\ (~h.has_amount => h.amount = 0)
  BY <1>1 DEF HasAsset, ObjectOK, IsWSV, IsTree, AbsentIsZero
<1>5. h.amount \in 0..Word - 1 /\ Word \in Nat \ {0}
  BY <1>4, CurrencyAssumption DEF Holding, Amount
<1>6. m.has_amount = h.has_amount
  BY <1>4 DEF Mutate, Holding
<1>7. m.amount = (h.amount - a.amount) % Word
  <2>1. CASE h.has_amount
    BY <1>4, <2>1 DEF Mutate, Minus, Holding
  <2>2. CASE ~h.has_amount
    <3>1. h.amount = 0 /\ a.amount = 0 /\ m = h
      BY <1>1, <1>4, <2>2, NotLessThanZero DEF Mutate
    <3>2. (0 - 0) % Word = 0
      BY <1>5, ModWord
    <3>. QED
      BY <3>1, <3>2
  <2>. QED
    BY <2>1, <2>2
<1>8. DOMAIN t.wsv.holdings = DOMAIN s.wsv.holdings
      /\ \A x \in DOMAIN s.wsv.holdings :
           t.wsv.holdings[x] = IF x = key THEN m ELSE s.wsv.holdings[x]
  BY <1>2, <1>4 DEF Put
<1>9. \A x \in DOMAIN s.wsv.holdings :
        t.wsv.holdings[x].has_amount = s.wsv.holdings[x].has_amount
  BY <1>6, <1>8
<1>10. ASSUME NEW l \in PubKey
       PROVE  Held(t.wsv, l, id) = IF l = k
                                   THEN (Held(s.wsv, k, id) - a.amount) % Word
                                   ELSE Held(s.wsv, l, id)
  <2>. HIDE DEF t, id, m
  <2>1. CASE l = k
    BY <1>4, <1>7, <1>8, <2>1 DEF Held
  <2>2. CASE l # k
    BY <1>4, <1>8, <2>2 DEF Held
  <2>. QED
    BY <2>1, <2>2
<1>. QED
  BY <1>1, <1>3, <1>8, <1>9, <1>10 DEF Debited

(* What a credit that succeeds does: to a holding whose blob has room for   *)
(* the amount, or to none.                                                  *)
LEMMA CreditEffect ==
  ASSUME NEW s, ObjectOK(s), s.res = "OK", NEW k \in PubKey, NEW a \in AssetFb,
         AssetId(a.name) \in DOMAIN s.created_assets,
         LET key == <<k, AssetId(a.name)>>
         IN  key \in DOMAIN s.wsv.holdings => s.wsv.holdings[key].has_amount,
         account_add_currency(s, k, a).res = "OK"
  PROVE  LET t == account_add_currency(s, k, a)
             id == AssetId(a.name)
         IN  \A l \in PubKey : Held(t.wsv, l, id) =
               IF l = k THEN (Held(s.wsv, k, id) + a.amount) % Word
               ELSE Held(s.wsv, l, id)
<1>. DEFINE t == account_add_currency(s, k, a)
            id == AssetId(a.name)
            key == <<k, id>>
            h == s.wsv.holdings[key]
<1>1. a.amount \in 0..Word - 1 /\ Word \in Nat \ {0}
  BY CurrencyAssumption DEF AssetFb, Amount
<1>2. PICK m : /\ t.wsv.holdings = Put(s.wsv.holdings, key, m)
               /\ m.amount = (Held(s.wsv, k, id) + a.amount) % Word
  <2>1. CASE key \notin DOMAIN s.wsv.holdings
    <3>1. t.wsv.holdings = Put(s.wsv.holdings, key, Stored(a))
      BY <2>1 DEF account_add_currency, HasAsset, ObjectOK, IsWSV
    <3>2. Held(s.wsv, k, id) = 0
      BY <2>1 DEF Held
    <3>3. a.amount % Word = a.amount
      BY <1>1, ModWord
    <3>4. Stored(a).amount = (Held(s.wsv, k, id) + a.amount) % Word
      BY <1>1, <3>2, <3>3 DEF Stored
    <3>. QED
      BY <3>1, <3>4
  <2>2. CASE key \in DOMAIN s.wsv.holdings
    <3>1. HasAsset(s, k, a.name) /\ h.has_amount
      BY <2>2 DEF HasAsset
    <3>2. Constructible(h) /\ Constructible(a)
      BY <3>1 DEF account_add_currency
    <3>3. t.wsv.holdings = Put(s.wsv.holdings, key, Mutate(h, Plus(h, a)))
      BY <3>1, <3>2 DEF account_add_currency, ObjectOK, IsWSV
    <3>4. h \in Holding /\ Held(s.wsv, k, id) = h.amount
      BY <2>2 DEF Held, ObjectOK, IsWSV, IsTree
    <3>5. Mutate(h, Plus(h, a)).amount = (h.amount + a.amount) % Word
      BY <3>1, <3>4 DEF Mutate, Plus, Holding
    <3>. QED
      BY <3>3, <3>4, <3>5
  <2>. QED
    BY <2>1, <2>2
<1>3. DOMAIN t.wsv.holdings = DOMAIN s.wsv.holdings \cup {key}
      /\ \A x \in DOMAIN t.wsv.holdings :
           t.wsv.holdings[x] = IF x = key THEN m ELSE s.wsv.holdings[x]
  BY <1>2 DEF Put
<1>4. ASSUME NEW l \in PubKey
      PROVE  Held(t.wsv, l, id) = IF l = k
                                  THEN (Held(s.wsv, k, id) + a.amount) % Word
                                  ELSE Held(s.wsv, l, id)
  <2>. HIDE DEF t, id
  <2>1. CASE l = k
    BY <1>2, <1>3, <2>1 DEF Held
  <2>2. CASE l # k
    BY <1>3, <2>2 DEF Held
  <2>. QED
    BY <2>1, <2>2
<1>. QED
  BY <1>4
-----------------------------------------------------------------------------
(* The inductive invariant of the properties about amounts.                 *)
MoneyInv == WSVInv /\ AbsentIsZero(wsv)

LEMMA MoneyIsInvariant == WSVSpec => []MoneyInv
<1>1. WSVInit => AbsentIsZero(wsv)
  BY DEF WSVInit, AbsentIsZero, EmptyWSV, EmptyTree
<1>2. WSVInv /\ AbsentIsZero(wsv) /\ [WSVNext]_wsvVars => AbsentIsZero(wsv)'
  <2>. SUFFICES ASSUME WSVInv, AbsentIsZero(wsv), [WSVNext]_wsvVars
                PROVE  AbsentIsZero(wsv')
    OBVIOUS
  <2>1. ASSUME NEW cmd \in Command, Update(cmd) PROVE AbsentIsZero(wsv')
    <3>. DEFINE s == [wsv |-> wsv, created_assets |-> created_assets,
                      res |-> "OK"]
    <3>1. ObjectOK(s) /\ AbsentIsZero(s.wsv)
      BY DEF WSVInv, WSVTypeOK, ObjectOK, Outcome
    <3>2. AbsentIsZero(update(s, cmd).wsv)
      BY <3>1, UpdateKeepsAbsent
    <3>. QED
      BY <2>1, <3>2 DEF Update
  <2>2. CASE UNCHANGED wsvVars
    BY <2>2 DEF wsvVars
  <2>. QED
    BY <2>1, <2>2 DEF WSVNext
<1>. QED
  BY <1>1, <1>2, WSVIsInvariant, PTL DEF WSVSpec, MoneyInv

(* What is held before and after a transfer from k to l that succeeds.      *)
LEMMA TransferEffect ==
  ASSUME NEW s, ObjectOK(s), s.res = "OK", AbsentIsZero(s.wsv),
         NEW k \in PubKey, NEW l \in PubKey, NEW a \in AssetFb,
         NEW cmd, cmd.sender = k, cmd.receiver = l, cmd.asset = a,
         LET key == <<l, AssetId(a.name)>>
         IN  key \in DOMAIN s.wsv.holdings => s.wsv.holdings[key].has_amount,
         asset_transfer(s, cmd).res = "OK"
  PROVE  LET t == asset_transfer(s, cmd).wsv
             id == AssetId(a.name)
             debited == (Held(s.wsv, k, id) - a.amount) % Word
         IN  /\ Held(t, k, id) = IF k = l THEN (debited + a.amount) % Word
                                 ELSE debited
             /\ k # l => Held(t, l, id) = (Held(s.wsv, l, id) + a.amount) % Word
             /\ \A m \in PubKey \ {k, l} : Held(t, m, id) = Held(s.wsv, m, id)
<1>. DEFINE d == account_remove_currency(s, k, a)
            t == account_add_currency(d, l, a)
            id == AssetId(a.name)
<1>1. d.res = "OK" /\ asset_transfer(s, cmd) = t
  BY DEF asset_transfer
<1>2. ObjectOK(d)
  BY RemoveCurrencyOK
<1>3. Debited(s, d, k, a)
  BY <1>1, DebitEffect
<1>4. id \in DOMAIN d.created_assets
  BY <1>3 DEF Debited, HasAsset
<1>5. <<l, id>> \in DOMAIN d.wsv.holdings => d.wsv.holdings[<<l, id>>].has_amount
  BY <1>3 DEF Debited
<1>6. t.res = "OK"
  BY <1>1
<1>. HIDE DEF d
<1>7. \A m \in PubKey : Held(t.wsv, m, id) =
        IF m = l THEN (Held(d.wsv, l, id) + a.amount) % Word
        ELSE Held(d.wsv, m, id)
  BY <1>1, <1>2, <1>4, <1>5, <1>6, CreditEffect
<1>. HIDE DEF t, id
<1>. QED
  BY <1>1, <1>3, <1>7 DEF Debited, id

(* A sum that went round the word on one side or the other.                 *)
LEMMA MovedWithin ==
  ASSUME NEW x \in Amount, NEW y \in Amount, NEW n \in Amount
  PROVE  /\ ((x + y) - (((x - n) % Word) + ((y + n) % Word))) % Word = 0
         /\ (x - ((((x - n) % Word) + n) % Word)) % Word = 0
<1>. USE CurrencyAssumption DEF Amount
<1>1. (x - n) % Word = IF x >= n THEN x - n ELSE x - n + Word
  BY ModWord
<1>2. (y + n) % Word = IF y + n < Word THEN y + n ELSE y + n - Word
  BY ModWord
<1>3. 0 % Word = 0 /\ Word % Word = 0 /\ (-Word) % Word = 0
  BY ModWord
<1>4. (((x - n) % Word) + n) % Word = x
  <2>1. CASE x >= n
    BY <1>1, <2>1, ModWord
  <2>2. CASE x < n
    <3>1. ((x - n) % Word) + n = x + Word
      BY <1>1, <2>2
    <3>2. (x + Word) % Word = x
      BY ModWord
    <3>. QED
      BY <3>1, <3>2
  <2>. QED
    BY <2>1, <2>2
<1>5. (x + y) - (((x - n) % Word) + ((y + n) % Word)) \in {0, Word, -Word}
  BY <1>1, <1>2
<1>. QED
  BY <1>3, <1>4, <1>5

LEMMA HeldIsAmount ==
  ASSUME NEW w, IsWSV(w), NEW k \in PubKey, NEW id
  PROVE  Held(w, k, id) \in Amount
BY CurrencyAssumption DEF IsWSV, IsTree, Held, Holding, Amount

(* A transfer that succeeds makes and destroys nothing, for every set of    *)
(* commands, every width of the amounts and every number of decimals, also  *)
(* from an account to itself (wsv.cc:306-315).                              *)
THEOREM TransfersConserve == WSVSpec => TransferConserves
<1>. DEFINE Conserves(cmd) ==
       /\ cmd.type = "AssetTransfer"
       /\ CanReceive(cmd)
       /\ Update(cmd)
       /\ result' = "OK"
       => LET parties == {cmd.sender, cmd.receiver}
              a == cmd.asset.name
              Total(k, l) == IF k = l THEN Balance(k, a)
                             ELSE Balance(k, a) + Balance(l, a)
          IN  /\ (Total(cmd.sender, cmd.receiver)
                     - Total(cmd.sender, cmd.receiver)') % Word = 0
              /\ \A k \in PubKey \ parties :
                    Balance(k, a)' = Balance(k, a)
<1>1. MoneyInv => \A cmd \in Command : Conserves(cmd)
  <2>. SUFFICES ASSUME MoneyInv, NEW cmd \in Command,
                       cmd.type = "AssetTransfer", CanReceive(cmd),
                       Update(cmd), result' = "OK"
                PROVE  Conserves(cmd)
    OBVIOUS
  <2>. DEFINE s == [wsv |-> wsv, created_assets |-> created_assets,
                    res |-> "OK"]
              k == cmd.sender
              l == cmd.receiver
              n == cmd.asset.amount
              id == AssetId(cmd.asset.name)
              t == asset_transfer(s, cmd)
  <2>1. k \in PubKey /\ l \in PubKey /\ cmd.asset \in AssetFb /\ n \in Amount
    <3>1. cmd \in CommandFb
      BY SchemaAssumption
    <3>. QED
      BY <3>1 DEF CommandFb, AssetFb
  <2>2. ObjectOK(s) /\ AbsentIsZero(s.wsv) /\ s.res = "OK"
    BY DEF MoneyInv, WSVInv, WSVTypeOK, ObjectOK, Outcome
  <2>3. update(s, cmd) = t /\ t.res = "OK" /\ t.wsv = wsv'
    BY DEF Update, update
  <2>4. LET key == <<l, id>>
        IN  key \in DOMAIN s.wsv.holdings => s.wsv.holdings[key].has_amount
    BY DEF CanReceive
  <2>. DEFINE debited == (Held(wsv, k, id) - n) % Word
  <2>5. /\ Held(wsv', k, id) = IF k = l THEN (debited + n) % Word ELSE debited
        /\ k # l => Held(wsv', l, id) = (Held(wsv, l, id) + n) % Word
        /\ \A m \in PubKey \ {k, l} : Held(wsv', m, id) = Held(wsv, m, id)
    BY <2>1, <2>2, <2>3, <2>4, TransferEffect
  <2>6. /\ Held(wsv, k, id) \in Amount /\ Held(wsv, l, id) \in Amount
    BY <2>1, HeldIsAmount DEF MoneyInv, WSVInv, WSVTypeOK
  <2>7. \A m : /\ Balance(m, cmd.asset.name) = Held(wsv, m, id)
               /\ Balance(m, cmd.asset.name)' = Held(wsv', m, id)
    BY DEF Balance, Held
  <2>. HIDE DEF id, n
  <2>8. CASE k = l
    <3>1. (Held(wsv, k, id) - Held(wsv', k, id)) % Word = 0
      BY <2>1, <2>5, <2>6, <2>8, MovedWithin
    <3>. QED
      BY <2>5, <2>7, <2>8, <3>1
  <2>9. CASE k # l
    <3>1. ((Held(wsv, k, id) + Held(wsv, l, id))
             - (Held(wsv', k, id) + Held(wsv', l, id))) % Word = 0
      BY <2>1, <2>5, <2>6, <2>9, MovedWithin
    <3>. QED
      BY <2>5, <2>7, <2>9, <3>1
  <2>. QED
    BY <2>8, <2>9
<1>2. WSVSpec => []MoneyInv
  BY MoneyIsInvariant
<1>. QED
  BY <1>1, <1>2, PTL DEF TransferConserves

(* A debit that succeeds was covered, between amounts of as many decimals   *)
(* (currency.cc:45-53, wsv.cc:255-304): the comparison by whole units and   *)
(* fractions is the order of the amounts.                                   *)
THEOREM DebitsAreCovered == WSVSpec => DebitIsCovered
<1>. DEFINE Covered(cmd) ==
       /\ cmd.type \in {"AssetRemove", "AssetTransfer"}
       /\ Update(cmd)
       /\ result' = "OK"
       => LET pubKey == IF cmd.type = "AssetRemove" THEN cmd.accPubKey
                        ELSE cmd.sender
              a == cmd.asset
          IN  wsv.holdings[<<pubKey, AssetId(a.name)>>].precision = a.precision
                => a.amount <= Balance(pubKey, a.name)
<1>1. MoneyInv => \A cmd \in Command : Covered(cmd)
  <2>. SUFFICES ASSUME MoneyInv, NEW cmd \in Command,
                       cmd.type \in {"AssetRemove", "AssetTransfer"},
                       Update(cmd), result' = "OK"
                PROVE  Covered(cmd)
    OBVIOUS
  <2>. DEFINE s == [wsv |-> wsv, created_assets |-> created_assets,
                    res |-> "OK"]
              k == IF cmd.type = "AssetRemove" THEN cmd.accPubKey
                   ELSE cmd.sender
              a == cmd.asset
              key == <<k, AssetId(a.name)>>
              d == account_remove_currency(s, k, a)
  <2>1. k \in PubKey /\ a \in AssetFb
    <3>1. cmd \in CommandFb
      BY SchemaAssumption
    <3>. QED
      BY <3>1 DEF CommandFb
  <2>2. ObjectOK(s) /\ AbsentIsZero(s.wsv) /\ s.res = "OK"
    BY DEF MoneyInv, WSVInv, WSVTypeOK, ObjectOK, Outcome
  <2>3. d.res = "OK"
    BY DEF Update, update, asset_remove, asset_transfer
  <2>4. Debited(s, d, k, a)
    BY <2>1, <2>2, <2>3, DebitEffect
  <2>. HIDE DEF d, k
  <2>5. key \in DOMAIN wsv.holdings /\ ~Less(wsv.holdings[key], a)
    BY <2>4 DEF Debited, HasAsset
  <2>6. wsv.holdings[key] \in Holding
    BY <2>5 DEF MoneyInv, WSVInv, WSVTypeOK, IsWSV, IsTree
  <2>7. wsv.holdings[key].precision = a.precision
          => a.amount <= wsv.holdings[key].amount
    BY <2>1, <2>5, <2>6, NotLessIsCovered
  <2>. QED
    BY <2>5, <2>7 DEF Balance, k
<1>2. WSVSpec => []MoneyInv
  BY MoneyIsInvariant
<1>. QED
  BY <1>1, <1>2, PTL DEF DebitIsCovered
=============================================================================
