----------------------------- MODULE Deployment -----------------------------
(***************************************************************************)
(* Bringing the contract to the chain: the operator's command              *)
(* deploy-and-instantiate (relayer/cmd/main.go) checks its flags and makes *)
(* the contract client (relayer/client/tx/contract.go) send two            *)
(* transactions, one storing the code and one instantiating it; the        *)
(* command deploy sends the first alone.  Between the two the chain holds  *)
(* a code nobody has instantiated, and the second may be refused by the    *)
(* contract or by the chain after the first was paid for.                  *)
(***************************************************************************)
EXTENDS Integers, Sequences, FiniteSets, SequencesExt

CONSTANTS
    Addresses,          \* bech32 addresses of the chain's prefix
    Malformed,          \* strings that are no address
    Thresholds,         \* values of the threshold flag, a 64-bit int in Go
    Amounts,            \* values of the amount flags
    UInt32,             \* the number of values of a uint32, 2^32 in the code
    MaxCodes            \* bound: codes the chain may store

VARIABLES
    codes,              \* the number of codes the chain stores
    contract,           \* NoContract, or the configuration instantiated
    cmd,                \* where the command stands
    flags,              \* the flags it was started with
    broadcastFailed     \* the chain did not include one of its transactions

vars == <<codes, contract, cmd, flags, broadcastFailed>>

NoContract == [owner |-> "none"]

Flags ==
    [ trusted   : BoundedSeq(Addresses \union Malformed, 2),
      owner     : Addresses \union Malformed,
      threshold : Thresholds,
      min       : Amounts,
      max       : Amounts ]

(* The checks of the command, in its order; it returns at the first that   *)
(* fails, before any client is made.                                       *)
FlagsAccepted(f) ==
    /\ f.trusted # << >>
    /\ Range(f.trusted) \subseteq Addresses
    /\ f.owner \in Addresses
    /\ f.threshold > 0
    /\ f.min > 0
    /\ f.max >= f.min

(* The configuration the command hands to the client: the threshold is     *)
(* truncated to 32 bits and the XRPL tokens are left at their zero value,  *)
(* a nil slice.                                                            *)
DeployConfig(f) ==
    [ owner |-> f.owner, trusted_addresses |-> f.trusted,
      threshold |-> f.threshold % UInt32,
      min_amount |-> f.min, max_amount |-> f.max, xrpl_tokens |-> "nil" ]

(* json.Marshal of the request: a nil slice becomes the literal null, any  *)
(* other slice an array.                                                   *)
InstantiatePayload(config) ==
    [ config EXCEPT !.xrpl_tokens = IF @ = "nil" THEN "null" ELSE "array" ]

(* The contract's message type: every field is required, and a list is     *)
(* read from an array only.                                                *)
ReadsAsInstantiateMsg(payload) == payload.xrpl_tokens = "array"

(* The contract's own checks on the message, apart from the tokens'.       *)
RulesAccept(payload) ==
    /\ payload.threshold # 0
    /\ payload.threshold <= Len(payload.trusted_addresses)
    /\ IsInjective(payload.trusted_addresses)

Init ==
    /\ codes = 0
    /\ contract = NoContract
    /\ cmd = "idle"
    /\ flags \in Flags
    /\ broadcastFailed = FALSE

(* deploy-and-instantiate: the flags are checked before anything is sent.  *)
DeployAndInstantiateCmd ==
    /\ cmd = "idle"
    /\ cmd' = IF FlagsAccepted(flags) THEN "deploy" ELSE "refused"
    /\ UNCHANGED <<codes, contract, flags, broadcastFailed>>

(* deploy: the code alone, with no flag of the contract's.                 *)
DeployCmd ==
    /\ cmd = "idle"
    /\ cmd' = "deployOnly"
    /\ UNCHANGED <<codes, contract, flags, broadcastFailed>>

(* MsgStoreCode is included in a block, and its events name the code.      *)
Deploy ==
    /\ cmd \in {"deploy", "deployOnly"}
    /\ codes < MaxCodes
    /\ codes' = codes + 1
    /\ cmd' = IF cmd = "deploy" THEN "instantiate" ELSE "stored"
    /\ UNCHANGED <<contract, flags, broadcastFailed>>

(* MsgInstantiateContract reaches the contract: it is refused unless the   *)
(* payload reads as the contract's message and passes its checks.          *)
Instantiate ==
    LET payload == InstantiatePayload(DeployConfig(flags))
        accepted == ReadsAsInstantiateMsg(payload) /\ RulesAccept(payload)
    IN  /\ cmd = "instantiate"
        /\ contract' = IF accepted THEN payload ELSE contract
        /\ cmd' = IF accepted THEN "deployed" ELSE "failed"
        /\ UNCHANGED <<codes, flags, broadcastFailed>>

(* Either transaction is not included: no funds, no connection, no answer  *)
(* in time.  The command reports the error and sends nothing more.         *)
BroadcastFails ==
    /\ cmd \in {"deploy", "deployOnly", "instantiate"}
    /\ cmd' = "failed"
    /\ broadcastFailed' = TRUE
    /\ UNCHANGED <<codes, contract, flags>>

(* The operator runs a command again, with other flags.                    *)
RunAgain ==
    /\ cmd \in {"refused", "failed", "stored"}
    /\ codes < MaxCodes
    /\ cmd' = "idle"
    /\ flags' \in Flags
    /\ broadcastFailed' = FALSE
    /\ UNCHANGED <<codes, contract>>

Next ==
    \/ DeployAndInstantiateCmd
    \/ DeployCmd
    \/ Deploy
    \/ Instantiate
    \/ BroadcastFails
    \/ RunAgain

Spec == Init /\ [][Next]_vars

-----------------------------------------------------------------------------
(* deploy-and-instantiate deploys the contract: when its checks passed the *)
(* flags, the flags obey the contract's own rules and the chain included   *)
(* both transactions, the command does not fail (cmd/main.go:200, and      *)
(* "Deploy smart contract" of README.md:52).                               *)
CommandDeploys ==
    (cmd = "failed" /\ ~broadcastFailed) => ~RulesAccept(DeployConfig(flags))
=============================================================================
