------------------------------- MODULE Schema -------------------------------
(***************************************************************************)
(* The flatbuffers of schema/*.fbs, cut to the fields that the code in     *)
(* src/ametsuchi reads.                                                    *)
(***************************************************************************)
EXTENDS Currency, Sequences

CONSTANTS
  PubKey,    \* public keys of accounts
  Ip,        \* addresses of peers
  Asset,     \* assets, as the triples of their names
  Command    \* the commands that clients submit

AssetFb == [type : {"Currency", "ComplexAsset"}, name : Asset,
            amount : Amount, precision : Nat]

Account == [pubKey : PubKey, alias : Seq(STRING)]

Peer == [ip : Ip, publicKey : Seq(STRING)]

(* The commands whose fields some handler reads.  The others are known by   *)
(* their type only: the commands that have an index but no handler, and     *)
(* those of chaincode.                                                      *)
CommandFb ==
  [type : {"AssetCreate"}, asset : Asset]
    \cup [type : {"AssetAdd", "AssetRemove"},
          accPubKey : PubKey, asset : AssetFb]
    \cup [type : {"AssetTransfer"},
          sender : PubKey, receiver : PubKey, asset : AssetFb]
    \cup [type : {"AccountAdd"}, account : Account]
    \cup [type : {"AccountRemove"}, pubkey : PubKey]
    \cup [type : {"PeerAdd", "PeerRemove"}, peer : Peer]
    \cup [type : {"AccountAddSignatory", "AccountRemoveSignatory",
                  "AccountSetUseKeys", "PeerChangeTrust", "PeerSetActive",
                  "PeerSetTrust", "Chaincode"}]

ASSUME SchemaAssumption ==
  /\ Asset \subseteq [ledger_name : Seq(STRING), domain_name : Seq(STRING),
                      asset_name : Seq(STRING)]
  /\ Command \subseteq CommandFb
=============================================================================
