--------------------------- MODULE MCPermissions ---------------------------
(* One request at a time: requests only read the engine, so several do not *)
(* affect one another.                                                     *)
EXTENDS Permissions

CONSTANTS t1, a, b, bad, home, peer

OneTask == {t1}
TwoWallets == {a, b}

Tx(w, create, value) ==
  [kind |-> "tx", senders |-> <<w>>, is_create |-> create, has_value |-> value]

Xt(senders) == [kind |-> "xt", senders |-> senders, involved |-> {home, peer}]

SomeRequests ==
  {Tx(a, TRUE, FALSE), Tx(b, FALSE, TRUE), Tx(bad, FALSE, TRUE), Xt(<<a, b>>),
   Xt(<<a, bad>>), [kind |-> "ready", senders |-> <<a>>]}

Group(id, send, deploy, scope, rollups) ==
  [rule_group_id |-> id, send_native |-> send, can_deploy_contract |-> deploy,
   network_scope |-> scope, rollups |-> rollups]

Owned(active, id, wallets) ==
  [is_active |-> active, rule_group_id |-> id, wallet_addresses |-> wallets]

(* A policy with an open and a narrow group, of which the last definition  *)
(* counts, and a group without an id, which is not that of an entity       *)
(* without one; one that moves the wallets, one of them listed twice, and  *)
(* suspends an entity; and two malformed ones, by a group and an address.  *)
SomeWires ==
  {[entities |-> <<Owned(TRUE, "g", <<a>>), Owned(TRUE, "", <<b>>)>>,
    rule_groups |-> <<Group("g", None, None, "all", {}),
                      Group("g", FALSE, FALSE, "Restricted", {}),
                      Group("", FALSE, FALSE, "all", {})>>],
   [entities |-> <<Owned(FALSE, "g", <<a, b>>), Owned(TRUE, "h", <<b>>)>>,
    rule_groups |-> <<Group("g", None, TRUE, "", {}),
                      Group("h", FALSE, None, "restricted", {peer})>>],
   [entities |-> <<Owned(TRUE, "g", <<a>>), Owned(TRUE, "h", <<b>>)>>,
    rule_groups |-> <<Group("g", None, None, "all", {})>>],
   [entities |-> <<Owned(FALSE, "", <<a, bad>>)>>, rule_groups |-> <<>>]}
=============================================================================
