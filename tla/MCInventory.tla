----------------------------- MODULE MCInventory -----------------------------
(***************************************************************************)
(* Inventory for TLC: two machines, two applications, two rules.           *)
(***************************************************************************)
EXTENDS Inventory

\* Memory in units of 512 MB: one unit less, and another processor.
MCMachine == {[ram |-> 8, cpu |-> "i5"], [ram |-> 7, cpu |-> "i7"]}
MCFocus   == {{"general", "smart"}, {"general", "heartbeat"}, {"smart", "heartbeat", "antivirus"},
              {"heartbeat", "antivirus", "firewall"},
              {"software"}, {"software", "rules"}}
MCMaxTime == [f \in MCFocus |-> IF "rules" \in f THEN 2 ELSE 3]
MCForbids == [r \in Rule |-> IF r = "p2p" THEN {"torrent", "both"} ELSE {"both"}]

Symmetric == Permutations(Slot)
==============================================================================
