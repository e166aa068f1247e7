---------------------------- MODULE MCAmetsuchi -----------------------------
(***************************************************************************)
(* A small instance of Ametsuchi: two accounts, one asset, a block of      *)
(* four leaves, and one transaction for every way through append.          *)
(***************************************************************************)
EXTENDS Ametsuchi

CONSTANTS p, q

MCPubKey == {p, q}
MCIp == {}

Yen == [ledger_name |-> <<"l">>, domain_name |-> <<"d">>,
        asset_name  |-> <<"y">>]

MCAsset == {Yen}

Fb(n, prec) ==
  [type |-> "Currency", name |-> Yen, amount |-> n, precision |-> prec]

Create == [creatorPubKey |-> p,
           command |-> [type |-> "AssetCreate", asset |-> Yen]]
AddP   == [creatorPubKey |-> p,
           command |-> [type |-> "AssetAdd", accPubKey |-> p,
                        asset |-> Fb(3, 0)]]
AddQ   == [creatorPubKey |-> q,   \* of a precision that has no Currency
           command |-> [type |-> "AssetAdd", accPubKey |-> q,
                        asset |-> Fb(1, 2)]]
Move   == [creatorPubKey |-> q,
           command |-> [type |-> "AssetTransfer", sender |-> p, receiver |-> q,
                        asset |-> Fb(2, 0)]]
Trust  == [creatorPubKey |-> q, command |-> [type |-> "PeerSetTrust"]]
Join   == [creatorPubKey |-> p,
           command |-> [type |-> "AccountAdd",
                        account |-> [pubKey |-> q, alias |-> <<"q">>]]]
Leave  == [creatorPubKey |-> p,
           command |-> [type |-> "AccountRemove", pubkey |-> q]]
Code   == [creatorPubKey |-> p, command |-> [type |-> "Chaincode"]]

MCTransaction == {Create, AddP, AddQ, Move, Trust, Join, Leave, Code}

MCCommand == {tx.command : tx \in MCTransaction}
=============================================================================
