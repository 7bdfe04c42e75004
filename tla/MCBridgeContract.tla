-------------------------- MODULE MCBridgeContract --------------------------
(***************************************************************************)
(* Instances of BridgeContract for TLC: an owner, three relayers, one XRPL *)
(* hash and one denomination in two spellings each, evidence for two       *)
(* recipients of which one is the contract itself, two configuration       *)
(* changes, and amounts on both sides of max_amount.                       *)
(***************************************************************************)
EXTENDS BridgeContract

CONSTANTS owner, r1, r2, r3, contract, user

Relayers == {r1, r2, r3}
MCAddrs == {owner, contract} \cup Relayers

\* "HASH" and "hash" are spellings of one transaction hash; "UCORE" and "ucore"
\* are different coins of the bank, but spelled alike in an evidence id.
MCLower == [s \in Ids \cup Denoms |->
              IF s = "HASH" THEN "hash" ELSE IF s = "UCORE" THEN "ucore" ELSE s]

MCTokenKey == [t \in {"t1", "t1b"} |-> "issuer1/currency1"]

\* Lists the owner sets: fewer than the threshold, and a replacement.
MCTrustedLists == {{r1}, {r2, r3}}

Claim(id, amount, denom, recipient) ==
    [id |-> id, amount |-> [denom |-> denom, amount |-> amount],
     recipient |-> recipient]

\* A payment in two spellings of hash and coin, and a smaller one for the same
\* hash to the contract itself.
MCClaims ==
    {Claim("HASH", 2, "UCORE", user), Claim("hash", 2, "ucore", user),
     Claim("hash", 1, "ucore", contract)}

\* Two amounts for one hash, both above max_amount.
TwoLargeClaims ==
    {Claim("HASH", 2, "ucore", user), Claim("hash", 3, "ucore", user)}

\* The thresholds 0 and 4 are refused.
MCInstantiateMsgs ==
    [owner : {owner}, trusted_addresses : {Relayers},
     threshold : {0, 2, 4}, min_amount : {1}, max_amount : {1}, xrpl_tokens : {{}}]

\* Two of three relayers are needed.
TwoOfThreeMsgs ==
    [owner : {owner}, trusted_addresses : {Relayers}, threshold : {2},
     min_amount : {1}, max_amount : {1}, xrpl_tokens : {{}}]

MCLegacyStates ==
    [owner : {{}, {owner}}, threshold : {{}, {0}, {3}},
     trusted_addresses : {{}, {r1, r2}}, min_amount : {{}}, max_amount : {{}}]

=============================================================================
