------------------------------- MODULE MCWSV --------------------------------
(***************************************************************************)
(* Small instances of WSV: two accounts, two addresses and three assets,   *)
(* two of which have the same key.                                         *)
(***************************************************************************)
EXTENDS WSV

CONSTANTS p, q, ip1, ip2

MCPubKey == {p, q}
MCIp == {ip1, ip2}

Names(l, d, a) == [ledger_name |-> l, domain_name |-> d, asset_name |-> a]

Yen    == Names(<<"l">>, <<"d">>, <<"y">>)
AB_C   == Names(<<"l">>, <<"a", "b">>, <<"c">>)
A_BC   == Names(<<"l">>, <<"a">>, <<"b", "c">>)

MCAsset == {Yen, AB_C, A_BC}

Fb(a, n, prec) ==
  [type |-> "Currency", name |-> a, amount |-> n, precision |-> prec]

Add(k, fb)    == [type |-> "AssetAdd", accPubKey |-> k, asset |-> fb]
Remove(k, fb) == [type |-> "AssetRemove", accPubKey |-> k, asset |-> fb]
Move(k, l, fb) ==
  [type |-> "AssetTransfer", sender |-> k, receiver |-> l, asset |-> fb]
Create(a)     == [type |-> "AssetCreate", asset |-> a]
NewAccount(k, n) ==
  [type |-> "AccountAdd", account |-> [pubKey |-> k, alias |-> n]]
NewPeer(i, k) == [type |-> "PeerAdd", peer |-> [ip |-> i, publicKey |-> k]]

(* Amounts of one asset: units and tens, whole numbers and tenths.          *)
Fbs == {Fb(Yen, n, prec) : n \in {0, 3, 12}, prec \in {0, 1}}

MoneyCommand ==
  {Create(Yen)} \cup {Add(k, fb) : k \in MCPubKey, fb \in Fbs}
    \cup {Remove(p, fb) : fb \in Fbs}
    \cup {Move(k, l, fb) : k \in MCPubKey, l \in MCPubKey, fb \in Fbs}

(* Every kind of command, on assets whose keys collide.                     *)
AnyCommand ==
  {Create(AB_C), Create(A_BC)}
    \cup {Add(k, Fb(AB_C, 3, 0)) : k \in MCPubKey}
    \cup {Remove(k, Fb(A_BC, 1, 0)) : k \in MCPubKey}
    \cup {Move(p, q, Fb(AB_C, 2, 0)), Move(q, p, Fb(AB_C, 1, 2))}
    \cup {Add(q, Fb(AB_C, 1, 2)), Move(p, q, [Fb(Yen, 1, 0) EXCEPT
                                               !.type = "ComplexAsset"])}
    \cup {NewAccount(k, <<"n">>) : k \in MCPubKey} \cup {NewAccount(p, <<"m">>)}
    \cup {[type |-> "AccountRemove", pubkey |-> k] : k \in MCPubKey}
    \cup {NewPeer(ip1, <<"k">>), NewPeer(ip2, <<"k">>)}
    \cup {[type |-> "PeerRemove", peer |-> [ip |-> ip1, publicKey |-> <<"k">>]],
           [type |-> "PeerSetTrust"], [type |-> "Chaincode"]}
=============================================================================
