-------------------------------- MODULE WSV ---------------------------------
(***************************************************************************)
(* The world state view (class WSV, src/ametsuchi/wsv.cc): who holds how   *)
(* much of what, which accounts and peers there are and which assets were  *)
(* created.  It is four LMDB trees and created_assets_, a copy in memory   *)
(* of one of them.                                                         *)
(*                                                                         *)
(* A handler is an operator from the state s of the object, a record of    *)
(* the trees, created_assets_ and the outcome so far, to the state the     *)
(* call leaves; an exception is an outcome other than OK.  What a handler  *)
(* wrote before it threw stays written.                                    *)
(***************************************************************************)
EXTENDS Schema, LMDB

(* The key of an asset: its three names, one after the other.  A name is a  *)
(* sequence of letters here, so that two triples may have the same key.     *)
AssetId(a) == a.ledger_name \o a.domain_name \o a.asset_name

AssetIds == {AssetId(a) : a \in Asset}

(* What is left of a Currency blob in wsv_pubkey_assets.  A flatbuffer does *)
(* not store a field that has its default value, 0, when it is built, and   *)
(* has no room for it later: has_amount says whether the field is there.    *)
Stored(a) ==
  [amount |-> a.amount, precision |-> a.precision, has_amount |-> a.amount # 0]

(* mutate_amount and mutate_precision: an absent field is left alone (the   *)
(* precision never changes, Plus and Minus keep it).                        *)
Mutate(holding, cur) ==
  IF holding.has_amount THEN [holding EXCEPT !.amount = cur.amount] ELSE holding

Holding == [amount : Amount, precision : Nat, has_amount : BOOLEAN]

EmptyWSV == [assets   |-> EmptyTree,   \* wsv_assetid_asset
             accounts |-> EmptyTree,   \* wsv_pubkey_account
             peers    |-> EmptyTree,   \* wsv_ip_peer
             holdings |-> EmptyTree]   \* wsv_pubkey_assets, by <<key, asset>>

IsWSV(w) ==
  /\ w = [assets   |-> w.assets, accounts |-> w.accounts,
          peers    |-> w.peers,  holdings |-> w.holdings]
  /\ IsTree(w.assets, AssetIds, Asset)
  /\ IsTree(w.accounts, PubKey, Account)
  /\ IsTree(w.peers, Ip, Peer)
  /\ IsTree(w.holdings, PubKey \X AssetIds, Holding)

(* WSV::read_created_assets copies the whole tree.                          *)
ReadCreatedAssets(w) == w.assets

(* The object as WSV::init leaves it on the trees w.                        *)
Loaded(w) == [wsv |-> w, created_assets |-> ReadCreatedAssets(w), res |-> "OK"]
-----------------------------------------------------------------------------
(* asset_create: MDB_KEYEXIST is not raised by a put with flags 0.          *)
asset_create(s, cmd) ==
  [s EXCEPT !.wsv.assets = Put(@, AssetId(cmd.asset), cmd.asset),
            !.created_assets = Put(@, AssetId(cmd.asset), cmd.asset)]

(* accountGetAsset(uncommitted = true) finds a blob rather than throws      *)
(* ASSET_NOT_FOUND.                                                         *)
HasAsset(s, pubKey, asset) ==
  /\ AssetId(asset) \in DOMAIN s.created_assets
  /\ <<pubKey, AssetId(asset)>> \in DOMAIN s.wsv.holdings

(* account_add_currency: the catch block takes any ASSET_NOT_FOUND for a    *)
(* first holding, which it writes as it is.                                 *)
account_add_currency(s, pubKey, a) ==
  LET key == <<pubKey, AssetId(a.name)>>
      current == s.wsv.holdings[key]
  IN  IF ~HasAsset(s, pubKey, a.name)
      THEN [s EXCEPT !.wsv.holdings = Put(@, key, Stored(a))]
      ELSE IF ~(Constructible(current) /\ Constructible(a))
      THEN [s EXCEPT !.res = "bad_alloc"]
      ELSE [s EXCEPT !.wsv.holdings =
                       Put(@, key, Mutate(current, Plus(current, a)))]

account_remove_currency(s, pubKey, a) ==
  LET key == <<pubKey, AssetId(a.name)>>
      current == s.wsv.holdings[key]
  IN  IF ~HasAsset(s, pubKey, a.name)
      THEN [s EXCEPT !.res = "ASSET_NOT_FOUND"]
      ELSE IF ~(Constructible(current) /\ Constructible(a))
      THEN [s EXCEPT !.res = "bad_alloc"]
      ELSE IF Less(current, a)
      THEN [s EXCEPT !.res = "NOT_ENOUGH_ASSETS"]
      ELSE [s EXCEPT !.wsv.holdings =
                       Put(@, key, Mutate(current, Minus(current, a)))]

asset_add(s, cmd) == account_add_currency(s, cmd.accPubKey, cmd.asset)

asset_remove(s, cmd) == account_remove_currency(s, cmd.accPubKey, cmd.asset)

(* Mutant of asset_transfer: both balances are read before either is        *)
(* written, and the receiver's is written last.                             *)
asset_transfer_ReadsFirst(s, cmd) ==
  LET debited == account_remove_currency(s, cmd.sender, cmd.asset)
      credited == account_add_currency(s, cmd.receiver, cmd.asset)
      receiver == <<cmd.receiver, AssetId(cmd.asset.name)>>
  IN  IF debited.res = "OK" /\ credited.res = "OK"
      THEN [s EXCEPT !.wsv.holdings =
              Put(debited.wsv.holdings, receiver, credited.wsv.holdings[receiver])]
      ELSE debited

(* Mutant of asset_transfer: the receiver first.                            *)
asset_transfer_CreditsFirst(s, cmd) ==
  LET credited == account_add_currency(s, cmd.receiver, cmd.asset)
  IN  IF credited.res = "OK"
      THEN account_remove_currency(credited, cmd.sender, cmd.asset)
      ELSE credited

(* Mutant of asset_transfer: the receiver's half begins from the state the   *)
(* sender's began from, and undoes the debit.                               *)
asset_transfer_LosesDebit(s, cmd) ==
  LET debited == account_remove_currency(s, cmd.sender, cmd.asset)
  IN  IF debited.res = "OK"
      THEN account_add_currency(s, cmd.receiver, cmd.asset)
      ELSE debited

(* asset_transfer: the sender first; nothing undoes it when the receiver's  *)
(* half throws.                                                             *)
asset_transfer(s, cmd) ==
  LET debited == account_remove_currency(s, cmd.sender, cmd.asset)
  IN  IF debited.res = "OK"
      THEN account_add_currency(debited, cmd.receiver, cmd.asset)
      ELSE debited

account_add(s, cmd) ==
  [s EXCEPT !.wsv.accounts = Put(@, cmd.account.pubKey, cmd.account)]

(* account_remove: the account, then everything it holds.                   *)
account_remove(s, cmd) ==
  IF cmd.pubkey \in DOMAIN s.wsv.accounts
  THEN [s EXCEPT !.wsv.accounts = Del(@, {cmd.pubkey}),
                 !.wsv.holdings = Del(@, {cmd.pubkey} \X AssetIds)]
  ELSE [s EXCEPT !.res = "ACCOUNT_NOT_FOUND"]

peer_add(s, cmd) == [s EXCEPT !.wsv.peers = Put(@, cmd.peer.ip, cmd.peer)]

peer_remove(s, cmd) ==
  IF cmd.peer.ip \in DOMAIN s.wsv.peers
  THEN [s EXCEPT !.wsv.peers = Del(@, {cmd.peer.ip})]
  ELSE [s EXCEPT !.res = "PEER_NOT_FOUND"]

(* The handlers of an asset's amount refuse a ComplexAsset first.           *)
IsComplex(cmd) ==
  /\ cmd.type \in {"AssetAdd", "AssetRemove", "AssetTransfer"}
  /\ cmd.asset.type # "Currency"

(* WSV::update, on an object in state s.                                    *)
update(s, cmd) ==
  IF IsComplex(cmd) THEN [s EXCEPT !.res = "NOT_IMPLEMENTED"]
  ELSE CASE cmd.type = "AssetCreate"   -> asset_create(s, cmd)
         [] cmd.type = "AssetAdd"      -> asset_add(s, cmd)
         [] cmd.type = "AssetRemove"   -> asset_remove(s, cmd)
         [] cmd.type = "AssetTransfer" -> asset_transfer(s, cmd)
         [] cmd.type = "AccountAdd"    -> account_add(s, cmd)
         [] cmd.type = "AccountRemove" -> account_remove(s, cmd)
         [] cmd.type = "PeerAdd"       -> peer_add(s, cmd)
         [] cmd.type = "PeerRemove"    -> peer_remove(s, cmd)
         [] OTHER                      -> [s EXCEPT !.res = "NOT_IMPLEMENTED"]

Outcome == {"OK", "ASSET_NOT_FOUND", "NOT_ENOUGH_ASSETS", "ACCOUNT_NOT_FOUND",
            "PEER_NOT_FOUND", "NOT_IMPLEMENTED", "bad_alloc"}
-----------------------------------------------------------------------------
VARIABLES
  wsv,              \* the four trees, as the append transaction sees them
  created_assets,   \* created_assets_
  result            \* what the last call returned or threw

wsvVars == <<wsv, created_assets, result>>

WSVInit ==
  /\ wsv = EmptyWSV
  /\ created_assets = ReadCreatedAssets(EmptyWSV)
  /\ result = "OK"

Update(cmd) ==
  LET s == update([wsv |-> wsv, created_assets |-> created_assets,
                   res |-> "OK"], cmd)
  IN  /\ wsv' = s.wsv
      /\ created_assets' = s.created_assets
      /\ result' = s.res

WSVNext == \E cmd \in Command : Update(cmd)

WSVSpec == WSVInit /\ [][WSVNext]_wsvVars
-----------------------------------------------------------------------------
WSVTypeOK ==
  /\ IsWSV(wsv)
  /\ IsTree(created_assets, AssetIds, Asset)
  /\ result \in Outcome

(* The raw amount that pubKey holds of asset a.                             *)
Balance(pubKey, a) ==
  IF <<pubKey, AssetId(a)>> \in DOMAIN wsv.holdings
  THEN wsv.holdings[<<pubKey, AssetId(a)>>].amount ELSE 0

(* The receiver of cmd holds nothing of the asset or a blob with an amount. *)
CanReceive(cmd) ==
  LET key == <<cmd.receiver, AssetId(cmd.asset.name)>>
  IN  key \in DOMAIN wsv.holdings => wsv.holdings[key].has_amount

(* A transfer that succeeds moves an amount and neither makes nor destroys  *)
(* any: what the two parties hold together is the same before and after, as *)
(* uint64_t's, also when the sender is the receiver and whatever the        *)
(* precisions are (wsv.cc:306-315, a debit and a credit of two tree writes).*)
TransferConserves ==
  [][\A cmd \in Command :
       /\ cmd.type = "AssetTransfer"
       /\ CanReceive(cmd)
       /\ Update(cmd)
       /\ result' = "OK"
       => LET parties == {cmd.sender, cmd.receiver}
              a == cmd.asset.name
              Total(k, l) == IF k = l THEN Balance(k, a)
                             ELSE Balance(k, a) + Balance(l, a)
          IN  /\ (Total(cmd.sender, cmd.receiver)
                     - Total(cmd.sender, cmd.receiver)') % Word = 0
              /\ \A k \in PubKey \ parties :
                    Balance(k, a)' = Balance(k, a)]_wsvVars

(* Between amounts of one precision, a debit that succeeds was covered:     *)
(* comparing integer and fractional parts (currency.cc:45-53) decides the   *)
(* order of the amounts, and the subtraction does not wrap around.          *)
DebitIsCovered ==
  [][\A cmd \in Command :
       /\ cmd.type \in {"AssetRemove", "AssetTransfer"}
       /\ Update(cmd)
       /\ result' = "OK"
       => LET pubKey == IF cmd.type = "AssetRemove" THEN cmd.accPubKey
                        ELSE cmd.sender
              a == cmd.asset
          IN  wsv.holdings[<<pubKey, AssetId(a.name)>>].precision = a.precision
                => a.amount <= Balance(pubKey, a.name)]_wsvVars

(* An AssetAdd of a created asset that succeeds adds: the balance grows by  *)
(* the amount (schema/commands.fbs:59, wsv.cc:184-253).                     *)
AddSums ==
  [][\A cmd \in Command :
       /\ cmd.type = "AssetAdd"
       /\ AssetId(cmd.asset.name) \in DOMAIN wsv.assets
       /\ Update(cmd)
       /\ result' = "OK"
       => Balance(cmd.accPubKey, cmd.asset.name)'
            = (Balance(cmd.accPubKey, cmd.asset.name) + cmd.asset.amount)
                % Word]_wsvVars

(* A command that is refused with an InvalidTransaction leaves the world    *)
(* state as it was: a transfer, two writes, refuses before the first one    *)
(* (wsv.cc:306-315).  Only bad_alloc, which the receiver's half may throw,  *)
(* comes after a write.                                                     *)
RefusalIsAtomic ==
  [][result' \notin {"OK", "bad_alloc"}
       => UNCHANGED <<wsv, created_assets>>]_wsvVars
=============================================================================
