--------------------------- MODULE BridgeContract ---------------------------
(***************************************************************************)
(* The TX side of the bridge: the CosmWasm contract of contract/src.       *)
(* Trusted relayers submit evidence of a transaction seen on the XRP       *)
(* Ledger with threshold_bank_send; the contract pays the recipient from   *)
(* its own balance once `threshold` of them agree, or keeps the evidence   *)
(* pending until somebody finances it with execute_pending.                *)
(*                                                                         *)
(* A contract call is atomic: it either commits every write it made and    *)
(* the bank message it emitted, or, on any error, nothing.  A call that    *)
(* returns an error is therefore no step of this specification; the        *)
(* conditions of each error are the operators named after it.              *)
(*                                                                         *)
(* Vec<Addr> and Vec<XRPLToken> values whose duplicates the contract       *)
(* rejects are modelled as sets.  The id of a message is an XRPL           *)
(* transaction hash written in hexadecimal, in either case, so it contains *)
(* no '-' and the evidence id `id-amountdenom-recipient` is the record of  *)
(* its parts.                                                              *)
(***************************************************************************)
EXTENDS Naturals, Sequences, FiniteSets, Functions

CONSTANTS
    Addrs,              \* accounts of the TX chain that can sign a call
    Recipients,         \* accounts that can be named as a recipient
    Blocked,            \* recipients the bank refuses to pay (module accounts)
    ContractAddress,    \* the contract's own account
    Ids,                \* spellings of XRPL transaction hashes
    Denoms,             \* coin denominations
    Lower,              \* str::to_lowercase on Ids and Denoms
    Amounts,            \* amounts of the evidence messages
    Claims,             \* what trusted addresses give as evidence: a recipient's
                        \* amount for a hash
    AmountLimits,       \* values given to min_amount and max_amount
    TrustedLists,       \* trusted address lists the owner sets
    Tokens,             \* XRPL tokens that can be named in a message
    ValidTokens,        \* those validate_xrpl_token accepts
    TokenKey,           \* the (issuer, currency) pair of a token
    MAX_XRPL_TOKENS,    \* the cap on registered tokens
    DEFAULT_MIN_AMOUNT, \* migration default of min_amount
    DEFAULT_MAX_AMOUNT, \* migration default of max_amount
    InstantiateMsgs,    \* instantiation messages considered
    LegacyStates,       \* storages of the previous contract version considered
    MaxVersion,         \* bound: number of configuration changes, plus one
    MaxDeposit          \* bound: coins ever deposited, in each denomination

\* migration default of the threshold
DEFAULT_THRESHOLD == 2

\* The instantiation message (msg.rs).
InstantiateMsg ==
    [owner : Addrs, trusted_addresses : SUBSET Addrs, threshold : Nat,
     min_amount : Nat, max_amount : Nat, xrpl_tokens : SUBSET Tokens]

\* An Option<S>, as a set of at most one element.
Option(S) == {T \in SUBSET S : \A x, y \in T : x = y}

\* Storage items of the previous version, each of which may be missing.
LegacyState ==
    [owner : Option(Addrs), threshold : Option(Nat),
     trusted_addresses : SUBSET Addrs,
     min_amount : Option(Nat), max_amount : Option(Nat)]

ASSUME AccountAssumption ==
    /\ IsFiniteSet(Addrs)
    /\ ContractAddress \in Addrs
    /\ Blocked \subseteq Recipients
    /\ TrustedLists \subseteq SUBSET Addrs

ASSUME LowerAssumption ==
    /\ Lower \in [Ids \cup Denoms -> Ids \cup Denoms]
    /\ \A i \in Ids : Lower[i] \in Ids
    /\ \A d \in Denoms : Lower[d] \in Denoms
    /\ \A s \in Ids \cup Denoms : Lower[Lower[s]] = Lower[s]

ASSUME AmountAssumption ==
    /\ Amounts \subseteq Nat \ {0}
    /\ AmountLimits \subseteq Nat
    /\ {DEFAULT_MIN_AMOUNT, DEFAULT_MAX_AMOUNT} \subseteq Nat
    /\ MaxVersion \in Nat
    /\ MaxDeposit \in Nat

ASSUME TokenAssumption ==
    /\ IsFiniteSet(Tokens)
    /\ ValidTokens \subseteq Tokens
    /\ MAX_XRPL_TOKENS \in Nat

ASSUME StartAssumption ==
    /\ \A msg \in InstantiateMsgs : msg \in InstantiateMsg
    /\ \A old \in LegacyStates : old \in LegacyState

VARIABLES
    config,     \* CONFIG
    pending,    \* PENDING_TRANSACTIONS: evidence id -> transaction
    sent,       \* SENT_TRANSACTIONS: transaction id -> transaction
    balance,    \* the contract's account at the bank, per denomination
    attested,   \* history: the <<relayer, evidence id>> pairs accepted
    payouts,    \* history: the bank sends, in order
    wasTrusted, \* history: every address that was ever trusted
    deposited   \* history: coins deposited so far, per denomination

vars == <<config, pending, sent, balance, attested, payouts, wasTrusted,
          deposited>>

-----------------------------------------------------------------------------
(* Stored values *)

\* External, cw_storage_plus: Map::save and Map::remove.
Save(map, key, value) ==
    [k \in DOMAIN map \cup {key} |-> IF k = key THEN value ELSE map[k]]

Remove(map, key) == Restrict(map, DOMAIN map \ {key})

Coin == [denom : Denoms, amount : Amounts]

Transaction ==
    [recipient : Recipients, amount : Coin, evidence_providers : Seq(Addrs)]

ASSUME ClaimAssumption ==
    Claims \subseteq [id : Ids, amount : Coin, recipient : Recipients]

EvidenceId ==
    [id : Ids, denom : Denoms, amount : Amounts, recipient : Recipients]

ContractConfig ==
    [owner : Addrs, trusted_addresses : SUBSET Addrs, threshold : Nat \ {0},
     min_amount : Nat, max_amount : Nat, xrpl_tokens : SUBSET Tokens,
     version : Nat \ {0}]

\* A bank send: what was paid, under which evidence id, on whose evidence,
\* and whether the coins were the contract's own or the caller's.
Payout ==
    [evidence : EvidenceId, tx : Transaction, from : {"contract", "caller"}]

\* Mutant: ids are compared as they are spelled.
UnnormalizedId(id) == id

normalize_id(id) == Lower[id]

build_evidence_id(id, amount, recipient) ==
    [id |-> id, denom |-> Lower[amount.denom], amount |-> amount.amount,
     recipient |-> recipient]

extract_id_from_evidence_id(evidence_id) == evidence_id.id

\* No two tokens of S have the same issuer and currency.
UniqueTokenKeys(S) == \A t, u \in S : TokenKey[t] = TokenKey[u] => t = u

-----------------------------------------------------------------------------
(* Instantiation, and the migration of the previous version's storage *)

UnwrapOr(option, default) ==
    IF option = {} THEN default ELSE CHOOSE x \in option : TRUE

NoActivity ==
    /\ pending = << >>
    /\ sent = << >>
    /\ balance = [d \in Denoms |-> 0]
    /\ attested = {}
    /\ payouts = << >>
    /\ wasTrusted = config.trusted_addresses
    /\ deposited = [d \in Denoms |-> 0]

instantiate(msg) ==
    /\ msg.threshold # 0
    /\ msg.threshold <= Cardinality(msg.trusted_addresses)
    /\ msg.xrpl_tokens \subseteq ValidTokens
    /\ UniqueTokenKeys(msg.xrpl_tokens)
    /\ config = [owner |-> msg.owner,
                 trusted_addresses |-> msg.trusted_addresses,
                 threshold |-> msg.threshold,
                 min_amount |-> msg.min_amount,
                 max_amount |-> msg.max_amount,
                 xrpl_tokens |-> msg.xrpl_tokens,
                 version |-> 1]
    /\ NoActivity

\* The stored threshold is replaced when it is zero or exceeds the number of
\* a non-empty list of trusted addresses.
MigratedThreshold(threshold, trusted) ==
    LET n == Cardinality(trusted)
    IN  IF threshold = 0 \/ (trusted # {} /\ threshold > n)
          THEN IF trusted = {} THEN 1
               ELSE IF n < DEFAULT_THRESHOLD THEN n ELSE DEFAULT_THRESHOLD
          ELSE threshold

migrate_legacy(old) ==
    /\ config = [owner |-> UnwrapOr(old.owner, ContractAddress),
                 trusted_addresses |-> old.trusted_addresses,
                 threshold |->
                    MigratedThreshold(UnwrapOr(old.threshold, DEFAULT_THRESHOLD),
                                      old.trusted_addresses),
                 min_amount |-> UnwrapOr(old.min_amount, DEFAULT_MIN_AMOUNT),
                 max_amount |-> UnwrapOr(old.max_amount, DEFAULT_MAX_AMOUNT),
                 xrpl_tokens |-> {},
                 version |-> 1]
    /\ NoActivity

Init ==
    \/ \E msg \in InstantiateMsgs : instantiate(msg)
    \/ \E old \in LegacyStates : migrate_legacy(old)

-----------------------------------------------------------------------------
(* Evidence *)

Unauthorized(sender) == sender \notin config.trusted_addresses

LowAmount(amount) == config.min_amount > amount.amount

\* Mutant: SENT_TRANSACTIONS is not consulted.
TransferNotChecked(id) == FALSE

TransferAlreadySent(id) == id \in DOMAIN sent

EvidenceAlreadyProvided(sender, evidence_id) ==
    /\ evidence_id \in DOMAIN pending
    /\ sender \in Range(pending[evidence_id].evidence_providers)

\* The transaction stored under evidence_id once sender has been added to it.
WithProvider(sender, amount, recipient, evidence_id) ==
    IF evidence_id \in DOMAIN pending
      THEN [pending[evidence_id] EXCEPT
              !.evidence_providers = Append(@, sender)]
      ELSE [recipient |-> recipient, amount |-> amount,
            evidence_providers |-> <<sender>>]

\* Mutant: the evidence is counted as if one more were to come.
ReachesThresholdEarly(tx, amount) ==
    /\ Len(tx.evidence_providers) + 1 >= config.threshold
    /\ config.max_amount >= amount.amount

\* The contract pays by itself on exactly the threshold-th evidence of an
\* amount it may still send alone.
ReachesThreshold(tx, amount) ==
    /\ Len(tx.evidence_providers) = config.threshold
    /\ config.max_amount >= amount.amount

\* The bank executes the contract's message, or the whole call is reverted.
CanSend(tx, available) ==
    /\ tx.recipient \notin Blocked
    /\ tx.amount.amount <= available

\* The contract's account after the bank executed the message.  Any address
\* that is well formed can be the recipient, the contract's own one included,
\* which keeps the coins.
AfterSend(account, tx) ==
    [account EXCEPT ![tx.amount.denom] =
        IF tx.recipient = ContractAddress THEN @ ELSE @ - tx.amount.amount]

\* Mutant: the pending entry is not removed.
SendKeepingPending(tx, id, evidence_id, from) ==
    /\ sent' = Save(sent, id, tx)
    /\ UNCHANGED pending
    /\ payouts' = Append(payouts,
                         [evidence |-> evidence_id, tx |-> tx, from |-> from])

\* Mutant: all pending entries of the id are removed.
SendRemovingId(tx, id, evidence_id, from) ==
    /\ sent' = Save(sent, id, tx)
    /\ pending' = Restrict(pending, {e \in DOMAIN pending : e.id # id})
    /\ payouts' = Append(payouts,
                         [evidence |-> evidence_id, tx |-> tx, from |-> from])

send_bank_transaction(tx, id, evidence_id, from) ==
    /\ sent' = Save(sent, id, tx)
    /\ pending' = Remove(pending, evidence_id)
    /\ payouts' = Append(payouts,
                         [evidence |-> evidence_id, tx |-> tx, from |-> from])

threshold_bank_send(sender, rawId, amount, recipient) ==
    LET id == normalize_id(rawId)
        evidence_id == build_evidence_id(id, amount, recipient)
        tx == WithProvider(sender, amount, recipient, evidence_id)
        executes == ReachesThreshold(tx, amount)
    IN  /\ ~Unauthorized(sender)
        /\ ~LowAmount(amount)
        /\ ~TransferAlreadySent(id)
        /\ ~EvidenceAlreadyProvided(sender, evidence_id)
        /\ attested' = attested \cup {<<sender, evidence_id>>}
        /\ \/ /\ executes
              /\ CanSend(tx, balance[tx.amount.denom])
              /\ send_bank_transaction(tx, id, evidence_id, "contract")
              /\ balance' = AfterSend(balance, tx)
           \/ /\ ~executes
              /\ pending' = Save(pending, evidence_id, tx)
              /\ UNCHANGED <<sent, balance, payouts>>
        /\ UNCHANGED <<config, wasTrusted, deposited>>

\* External, wasmd: the coins attached to a call reach the contract's account
\* before the contract runs.
Credited(funds) == [balance EXCEPT ![funds.denom] = @ + funds.amount]

\* Mutant: unconfirmed transactions are executed too.
ExecuteUnconfirmed(evidence_id, funds) ==
    /\ evidence_id \in DOMAIN pending
    /\ LET tx == pending[evidence_id]
           credited == Credited(funds)
       IN  /\ funds = tx.amount
           /\ CanSend(tx, credited[tx.amount.denom])
           /\ send_bank_transaction(tx, extract_id_from_evidence_id(evidence_id),
                                    evidence_id, "caller")
           /\ balance' = AfterSend(credited, tx)
    /\ UNCHANGED <<config, attested, wasTrusted, deposited>>

\* Mutant: the attached coins may be of any spelling or amount.
ExecuteUnfunded(evidence_id, funds) ==
    /\ evidence_id \in DOMAIN pending
    /\ LET tx == pending[evidence_id]
           credited == Credited(funds)
       IN  /\ Len(tx.evidence_providers) >= config.threshold
           /\ CanSend(tx, credited[tx.amount.denom])
           /\ send_bank_transaction(tx, extract_id_from_evidence_id(evidence_id),
                                    evidence_id, "caller")
           /\ balance' = AfterSend(credited, tx)
    /\ UNCHANGED <<config, attested, wasTrusted, deposited>>

\* Anybody finances a confirmed transaction.  The coins attached to the call
\* are credited to the contract before it runs and leave with the bank send,
\* unless it is to the contract itself.
execute_pending(evidence_id, funds) ==
    /\ evidence_id \in DOMAIN pending
    /\ LET tx == pending[evidence_id]
           credited == Credited(funds)
       IN  /\ Len(tx.evidence_providers) >= config.threshold
           /\ funds = tx.amount
           /\ CanSend(tx, credited[tx.amount.denom])
           /\ send_bank_transaction(tx, extract_id_from_evidence_id(evidence_id),
                                    evidence_id, "caller")
           /\ balance' = AfterSend(credited, tx)
    /\ UNCHANGED <<config, attested, wasTrusted, deposited>>

-----------------------------------------------------------------------------
(* Configuration *)

\* CONFIG.save of a configuration whose version was incremented.
SaveConfig(new) ==
    /\ config.version < MaxVersion
    /\ config' = [new EXCEPT !.version = config.version + 1]
    /\ wasTrusted' = wasTrusted \cup new.trusted_addresses
    /\ UNCHANGED <<pending, sent, balance, attested, payouts, deposited>>

update_owner(sender, new_owner) ==
    /\ sender = config.owner
    /\ SaveConfig([config EXCEPT !.owner = new_owner])

\* Mutant: the version is not incremented.
UpdateMinUnversioned(sender, min_amount) ==
    /\ sender = config.owner
    /\ config' = [config EXCEPT !.min_amount = min_amount]
    /\ UNCHANGED <<pending, sent, balance, attested, payouts, wasTrusted,
                   deposited>>

update_min_amount(sender, min_amount) ==
    /\ sender = config.owner
    /\ SaveConfig([config EXCEPT !.min_amount = min_amount])

update_max_amount(sender, max_amount) ==
    /\ sender = config.owner
    /\ SaveConfig([config EXCEPT !.max_amount = max_amount])

update_trusted_addresses(sender, trusted_addresses) ==
    /\ sender = config.owner
    /\ SaveConfig([config EXCEPT !.trusted_addresses = trusted_addresses])

add_xrpl_tokens(sender, new_tokens) ==
    LET tokens == config.xrpl_tokens \cup new_tokens
    IN  /\ sender = config.owner
        /\ new_tokens \subseteq ValidTokens
        /\ new_tokens \cap config.xrpl_tokens = {}
        /\ UniqueTokenKeys(tokens)
        /\ Cardinality(tokens) <= MAX_XRPL_TOKENS
        /\ SaveConfig([config EXCEPT !.xrpl_tokens = tokens])

\* A migration by the chain's contract admin, on storage that already has a
\* CONFIG: it only replaces the owner, without asking the current one.
migrate(new_owner) == SaveConfig([config EXCEPT !.owner = new_owner])

\* External: somebody sends coins to the contract's account.
Deposit(denom, amount) ==
    /\ deposited[denom] + amount <= MaxDeposit
    /\ balance' = [balance EXCEPT ![denom] = @ + amount]
    /\ deposited' = [deposited EXCEPT ![denom] = @ + amount]
    /\ UNCHANGED <<config, pending, sent, attested, payouts, wasTrusted>>

-----------------------------------------------------------------------------

Evidence ==
    \E sender \in Addrs, claim \in Claims :
        threshold_bank_send(sender, claim.id, claim.amount, claim.recipient)

Execute ==
    \E evidence_id \in DOMAIN pending, funds \in Coin :
        execute_pending(evidence_id, funds)

Administer ==
    \/ \E sender \in Addrs :
         \/ \E new_owner \in Addrs : update_owner(sender, new_owner)
         \/ \E min_amount \in AmountLimits : update_min_amount(sender, min_amount)
         \/ \E max_amount \in AmountLimits : update_max_amount(sender, max_amount)
         \/ \E trusted \in TrustedLists : update_trusted_addresses(sender, trusted)
         \/ \E tokens \in SUBSET Tokens : add_xrpl_tokens(sender, tokens)
    \/ \E new_owner \in Addrs : migrate(new_owner)

Next ==
    \/ Evidence
    \/ Execute
    \/ Administer
    \/ \E denom \in Denoms, amount \in Amounts : Deposit(denom, amount)

Spec == Init /\ [][Next]_vars

-----------------------------------------------------------------------------
(* Properties *)

\* A storage map with keys in K and values in V.
IsMap(f, K, V) == DOMAIN f \subseteq K /\ f \in [DOMAIN f -> V]

\* The values the storage, the account and the histories can hold.
TypeOK ==
    /\ config \in ContractConfig
    /\ IsMap(pending, EvidenceId, Transaction)
    /\ IsMap(sent, Ids, Transaction)
    /\ balance \in [Denoms -> Nat]
    /\ attested \subseteq Addrs \X EvidenceId
    /\ payouts \in Seq(Payout)
    /\ wasTrusted \subseteq Addrs
    /\ deposited \in [Denoms -> Nat]

\* A transaction pays what its evidence id, whose id is normalised, says.
Matches(tx, evidence_id) ==
    /\ Lower[evidence_id.id] = evidence_id.id
    /\ tx.recipient = evidence_id.recipient
    /\ tx.amount.amount = evidence_id.amount
    /\ Lower[tx.amount.denom] = evidence_id.denom

\* The providers of tx are different accounts, each of which was trusted at
\* some time and submitted this very evidence.
Attested(tx, evidence_id) ==
    /\ IsInjective(tx.evidence_providers)
    /\ \A a \in Range(tx.evidence_providers) :
          a \in wasTrusted /\ <<a, evidence_id>> \in attested

\* Whatever the owner changed in between, and whether the contract or a caller
\* of execute_pending financed it, a bank send rests on the evidence of at
\* least `threshold` different accounts that were trusted and named exactly
\* this id, amount and recipient.
PaidOnQuorum ==
    \A i \in DOMAIN payouts :
        LET tx == payouts[i].tx
            evidence_id == payouts[i].evidence
        IN  /\ Len(tx.evidence_providers) >= config.threshold
            /\ Attested(tx, evidence_id)
            /\ Matches(tx, evidence_id)

\* A bank send removes the pending entry and marks the id as sent, so neither
\* late evidence nor a second execute_pending pays the same evidence again.
EvidencePaidOnce ==
    \A i, j \in DOMAIN payouts :
        payouts[i].evidence = payouts[j].evidence => i = j

\* threshold_bank_send spends the contract's own coins on an XRPL transaction,
\* however its hash is spelled, at most once, and not at all when
\* execute_pending has already paid something for it.
OwnCoinsOnlyForFirstPayout ==
    \A i, j \in DOMAIN payouts :
        /\ Lower[payouts[i].evidence.id] = Lower[payouts[j].evidence.id]
        /\ payouts[j].from = "contract"
        => j <= i

\* No evidence the contract accepted is lost: it is counted by the pending
\* entry of its evidence id until that entry is paid, and then by the payout.
AttestationsKept ==
    \A v \in attested :
        \/ EvidenceAlreadyProvided(v[1], v[2])
        \/ \E i \in DOMAIN payouts :
              /\ payouts[i].evidence = v[2]
              /\ v[1] \in Range(payouts[i].tx.evidence_providers)

\* The coins of denomination d in the bank sends at the indices I.
Total(I, d) ==
    SumFunctionOnSet([i \in DOMAIN payouts |-> payouts[i].tx.amount.amount],
                     {i \in I : payouts[i].tx.amount.denom = d})

\* Indices of the bank sends of the contract's own coins to somebody else.
Spent ==
    {i \in DOMAIN payouts : /\ payouts[i].from = "contract"
                            /\ payouts[i].tx.recipient # ContractAddress}

\* Indices of the bank sends that callers financed and the contract received.
Received ==
    {i \in DOMAIN payouts : /\ payouts[i].from = "caller"
                            /\ payouts[i].tx.recipient = ContractAddress}

\* The account holds what was deposited, and what execute_pending sent to the
\* contract itself, minus what threshold_bank_send paid to others:
\* execute_pending never touches the coins that other transfers wait for, and
\* evidence that names the contract as the recipient costs it nothing.
BalanceConserved ==
    \A d \in Denoms :
        balance[d] + Total(Spent, d) = deposited[d] + Total(Received, d)

\* Once an id is marked as sent the contract takes no more evidence for it:
\* its other pending entries can be executed, never created or completed.
SentIdIsFrozen ==
    [][\A e \in DOMAIN pending' :
          e.id \in DOMAIN sent =>
              e \in DOMAIN pending /\ pending'[e] = pending[e]]_vars

\* The version tells configurations apart, which is all the relayers' config
\* watcher looks at: no step changes the configuration under its version.
VersionTracksConfig ==
    [][config' # config => config'.version = config.version + 1]_vars

\* Every pending entry already has what a payout will need except the quorum,
\* and so will the entries that the currently trusted addresses create.
PendingSound ==
    /\ config.trusted_addresses \subseteq wasTrusted
    /\ \A e \in DOMAIN pending :
          Attested(pending[e], e) /\ Matches(pending[e], e)

\* What was paid is closed: its id is marked as sent, its entry is gone.
PaidIsClosed ==
    \A i \in DOMAIN payouts :
        /\ extract_id_from_evidence_id(payouts[i].evidence) \in DOMAIN sent
        /\ payouts[i].evidence \notin DOMAIN pending

\* The inductive invariant of threshold_bank_send and execute_pending: it joins
\* the payout guarantees to what the two storage maps must remember for them.
QuorumInv ==
    /\ PendingSound
    /\ PaidOnQuorum
    /\ PaidIsClosed
    /\ EvidencePaidOnce
    /\ OwnCoinsOnlyForFirstPayout
    /\ AttestationsKept

-----------------------------------------------------------------------------
(* A claim that the contract keeps only if its relayers agree (see Bridge) *)

\* threshold_bank_send: "Once the number of the trusted addresses by the
\* evidence ID reaches the threshold the contract executes the bank send
\* transaction and prohibits the execution of the transaction with the same
\* ID again."
OneBankSendPerId ==
    \A i, j \in DOMAIN payouts :
        payouts[i].evidence.id = payouts[j].evidence.id => i = j

=============================================================================
