------------------------------ MODULE MCBridge ------------------------------
(***************************************************************************)
(* The instance of Bridge for TLC: two relayers of which one or both are   *)
(* needed, a transfer at or above the amount the contract sends by itself, *)
(* a smaller one to a module account, which the bank refuses, a change of  *)
(* the configuration and disruptions.                                      *)
(***************************************************************************)
EXTENDS Bridge

CONSTANTS owner, r1, r2, contract, user, module

MCRelayers == {r1, r2}
MCAddrs == {owner, contract} \cup Relayers

MCLower == [s \in Ids \cup Denoms |-> s]

MCTokenKey == [t \in Tokens |-> t]

MCTrustedLists == {{r1}}

Transfer(id, amount, recipient) ==
    [id |-> id, amount |-> [denom |-> "ucore", amount |-> amount],
     recipient |-> recipient]

MCTransfers == {Transfer("hash", 2, user), Transfer("other", 1, module)}

MCMsgs ==
    [owner : {owner}, trusted_addresses : {Relayers}, threshold : {1, 2},
     min_amount : {1}, max_amount : {1, 2}, xrpl_tokens : {{}}]

=============================================================================
