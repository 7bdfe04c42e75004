------------------------ MODULE BridgeContractProofs ------------------------
(***************************************************************************)
(* Proofs about BridgeContract, for every set of accounts, ids, amounts    *)
(* and limits.                                                             *)
(***************************************************************************)
EXTENDS BridgeContract, DataTheorems

-----------------------------------------------------------------------------
(* Storage maps *)

\* Saving a value under a key of a storage map (Map::save).
LEMMA SaveIsMap ==
    ASSUME NEW K, NEW V, NEW f, IsMap(f, K, V), NEW k \in K, NEW v \in V
    PROVE  /\ IsMap(Save(f, k, v), K, V)
           /\ DOMAIN Save(f, k, v) = DOMAIN f \cup {k}
           /\ Save(f, k, v)[k] = v
           /\ \A x \in DOMAIN f : x # k => Save(f, k, v)[x] = f[x]
BY DEF IsMap, Save

\* Removing a key of a storage map (Map::remove).
LEMMA RemoveIsMap ==
    ASSUME NEW K, NEW V, NEW f, IsMap(f, K, V), NEW k
    PROVE  /\ IsMap(Remove(f, k), K, V)
           /\ DOMAIN Remove(f, k) = DOMAIN f \ {k}
           /\ \A x \in DOMAIN f \ {k} : Remove(f, k)[x] = f[x]
BY DEF IsMap, Remove, Restrict

-----------------------------------------------------------------------------
(* Type correctness *)

\* The evidence id of a message is well formed.
LEMMA EvidenceIdType ==
    ASSUME NEW id \in Ids, NEW amount \in Coin, NEW recipient \in Recipients
    PROVE  /\ normalize_id(id) \in Ids
           /\ build_evidence_id(normalize_id(id), amount, recipient) \in EvidenceId
           /\ build_evidence_id(normalize_id(id), amount, recipient).id
                = normalize_id(id)
BY LowerAssumption
DEF normalize_id, build_evidence_id, EvidenceId, Coin

\* The transaction that threshold_bank_send pays or stores is well formed.
LEMMA WithProviderType ==
    ASSUME TypeOK, NEW sender \in Addrs, NEW amount \in Coin,
           NEW recipient \in Recipients, NEW e \in EvidenceId
    PROVE  WithProvider(sender, amount, recipient, e) \in Transaction
<1>1. CASE e \in DOMAIN pending
  <2>1. pending[e] \in Transaction
    BY <1>1 DEF TypeOK, IsMap
  <2>2. Append(pending[e].evidence_providers, sender) \in Seq(Addrs)
    BY <2>1, AppendIs DEF Transaction
  <2> QED BY <1>1, <2>1, <2>2 DEF WithProvider, Transaction
<1>2. CASE e \notin DOMAIN pending
  <2>1. <<sender>> \in Seq(Addrs)
    OBVIOUS
  <2> QED BY <1>2, <2>1 DEF WithProvider, Transaction
<1> QED BY <1>1, <1>2

\* A bank send keeps the two storage maps and the payout history well formed.
LEMMA SendType ==
    ASSUME TypeOK, NEW tx \in Transaction, NEW id \in Ids, NEW e \in EvidenceId,
           NEW from \in {"contract", "caller"},
           send_bank_transaction(tx, id, e, from)
    PROVE  /\ IsMap(pending', EvidenceId, Transaction)
           /\ IsMap(sent', Ids, Transaction)
           /\ payouts' \in Seq(Payout)
<1>1. IsMap(pending', EvidenceId, Transaction)
  BY RemoveIsMap DEF send_bank_transaction, TypeOK
<1>2. IsMap(sent', Ids, Transaction)
  BY SaveIsMap DEF send_bank_transaction, TypeOK
<1>3. [evidence |-> e, tx |-> tx, from |-> from] \in Payout
  BY DEF Payout
<1>4. payouts' \in Seq(Payout)
  BY <1>3 DEF send_bank_transaction, TypeOK
<1> QED BY <1>1, <1>2, <1>4

\* Instantiation and migration produce a well-formed configuration; the
\* migrated threshold is positive whatever the old storage held.
LEMMA InitType == Init => TypeOK
<1>1. NoActivity /\ config \in ContractConfig => TypeOK
  <2>1. ASSUME NEW K, NEW V PROVE IsMap(<< >>, K, V)
    BY DEF IsMap
  <2>2. << >> \in Seq(Payout)
    OBVIOUS
  <2> QED BY <2>1, <2>2 DEF NoActivity, TypeOK, ContractConfig
<1>2. ASSUME NEW msg \in InstantiateMsgs, instantiate(msg)
      PROVE  config \in ContractConfig
  BY <1>2, StartAssumption
  DEF instantiate, ContractConfig, InstantiateMsg
<1>3. ASSUME NEW old \in LegacyStates, migrate_legacy(old)
      PROVE  config \in ContractConfig
  <2>1. old \in LegacyState
    BY StartAssumption
  <2>2. ASSUME NEW S, NEW option \in Option(S), NEW default \in S
        PROVE  UnwrapOr(option, default) \in S
    BY <2>2 DEF UnwrapOr, Option
  <2>3. UnwrapOr(old.owner, ContractAddress) \in Addrs
    BY <2>1, <2>2, AccountAssumption DEF LegacyState
  <2>4. /\ UnwrapOr(old.threshold, DEFAULT_THRESHOLD) \in Nat
        /\ UnwrapOr(old.min_amount, DEFAULT_MIN_AMOUNT) \in Nat
        /\ UnwrapOr(old.max_amount, DEFAULT_MAX_AMOUNT) \in Nat
    BY <2>1, <2>2, AmountAssumption DEF LegacyState, DEFAULT_THRESHOLD
  <2>5. old.trusted_addresses \subseteq Addrs
    BY <2>1 DEF LegacyState
  <2>6. /\ Cardinality(old.trusted_addresses) \in Nat
        /\ old.trusted_addresses # {} => Cardinality(old.trusted_addresses) # 0
    BY <2>5, AccountAssumption, FS_Subset, FS_CardinalityType, FS_EmptySet
  <2>7. ASSUME NEW t \in Nat
        PROVE  MigratedThreshold(t, old.trusted_addresses) \in Nat \ {0}
    BY <2>6 DEF MigratedThreshold, DEFAULT_THRESHOLD
  <2> QED BY <1>3, <2>3, <2>4, <2>5, <2>7 DEF migrate_legacy, ContractConfig
<1> QED BY <1>1, <1>2, <1>3 DEF Init, instantiate, migrate_legacy

\* Evidence is a call with well-formed arguments.
LEMMA EvidenceIsCall ==
    ASSUME Evidence
    PROVE  \E sender \in Addrs, id \in Ids, amount \in Coin, recipient \in Recipients :
              threshold_bank_send(sender, id, amount, recipient)
<1>1. PICK sender \in Addrs, claim \in Claims :
         threshold_bank_send(sender, claim.id, claim.amount, claim.recipient)
  BY DEF Evidence
<1>2. claim.id \in Ids /\ claim.amount \in Coin /\ claim.recipient \in Recipients
  BY ClaimAssumption
<1> QED BY <1>1, <1>2

\* An accepted threshold_bank_send keeps the state well formed: the balance
\* covers what leaves it.
LEMMA EvidenceType ==
    ASSUME TypeOK, NEW sender \in Addrs, NEW id \in Ids, NEW amount \in Coin,
           NEW recipient \in Recipients,
           threshold_bank_send(sender, id, amount, recipient)
    PROVE  TypeOK'
<1> DEFINE e == build_evidence_id(normalize_id(id), amount, recipient)
           tx == WithProvider(sender, amount, recipient, e)
<1>1. normalize_id(id) \in Ids /\ e \in EvidenceId
  BY EvidenceIdType
<1>2. tx \in Transaction
  BY <1>1, WithProviderType
<1>3. tx.amount.denom \in Denoms /\ tx.amount.amount \in Nat
  BY <1>2, AmountAssumption DEF Transaction, Coin
<1>4. /\ UNCHANGED <<config, wasTrusted, deposited>>
      /\ attested' = attested \cup {<<sender, e>>}
  BY DEF threshold_bank_send
<1>5. attested' \subseteq Addrs \X EvidenceId
  BY <1>1, <1>4 DEF TypeOK
<1>6. CASE /\ CanSend(tx, balance[tx.amount.denom])
           /\ send_bank_transaction(tx, normalize_id(id), e, "contract")
           /\ balance' = AfterSend(balance, tx)
  <2>1. balance' \in [Denoms -> Nat]
    BY <1>3, <1>6 DEF TypeOK, CanSend, AfterSend
  <2>2. /\ IsMap(pending', EvidenceId, Transaction)
        /\ IsMap(sent', Ids, Transaction)
        /\ payouts' \in Seq(Payout)
    <3> HIDE DEF e, tx
    <3> QED BY <1>1, <1>2, <1>6, SendType
  <2> QED BY <1>4, <1>5, <2>1, <2>2 DEF TypeOK
<1>7. CASE pending' = Save(pending, e, tx) /\ UNCHANGED <<sent, balance, payouts>>
  <2>1. IsMap(pending', EvidenceId, Transaction)
    BY <1>1, <1>2, <1>7, SaveIsMap DEF TypeOK
  <2> QED BY <1>4, <1>5, <1>7, <2>1 DEF TypeOK
<1> QED BY <1>6, <1>7 DEF threshold_bank_send

\* The coins of a financed pending transaction pass through the account, or stay
\* there if the contract is their recipient.
LEMMA ExecuteBalance ==
    ASSUME TypeOK, NEW e \in DOMAIN pending, NEW funds \in Coin,
           execute_pending(e, funds)
    PROVE  /\ pending[e] \in Transaction
           /\ balance' = IF pending[e].recipient = ContractAddress
                          THEN [balance EXCEPT ![pending[e].amount.denom] =
                                  @ + pending[e].amount.amount]
                          ELSE balance
<1>0. PICK tx : tx = pending[e]
  OBVIOUS
<1>1. tx \in Transaction
  BY <1>0 DEF TypeOK, IsMap
<1>2. PICK denom, amount : denom = tx.amount.denom /\ amount = tx.amount.amount
  OBVIOUS
<1>3. denom \in Denoms /\ amount \in Nat
  BY <1>1, <1>2, AmountAssumption DEF Transaction, Coin
<1>4. balance' = AfterSend([balance EXCEPT ![denom] = @ + amount], tx)
  BY <1>0, <1>2 DEF execute_pending, Credited
<1>5. balance[denom] + amount - amount = balance[denom]
  BY <1>3 DEF TypeOK
<1>6. CASE tx.recipient = ContractAddress
  BY <1>0, <1>1, <1>2, <1>3, <1>4, <1>6 DEF TypeOK, AfterSend
<1>7. CASE tx.recipient # ContractAddress
  BY <1>0, <1>1, <1>2, <1>3, <1>4, <1>5, <1>7 DEF TypeOK, AfterSend
<1> QED BY <1>6, <1>7

\* A financed pending transaction keeps the state well formed.
LEMMA ExecuteType ==
    ASSUME TypeOK, NEW e \in DOMAIN pending, NEW funds \in Coin,
           execute_pending(e, funds)
    PROVE  TypeOK'
<1>0. PICK tx : tx = pending[e]
  OBVIOUS
<1>1. e \in EvidenceId /\ tx \in Transaction
  BY <1>0 DEF TypeOK, IsMap
<1>2. e.id \in Ids
  BY <1>1 DEF EvidenceId
<1>3. /\ send_bank_transaction(tx, e.id, e, "caller")
      /\ UNCHANGED <<config, attested, wasTrusted, deposited>>
  BY <1>0 DEF execute_pending, extract_id_from_evidence_id
<1>4. tx.amount.denom \in Denoms /\ tx.amount.amount \in Nat
  BY <1>1, AmountAssumption DEF Transaction, Coin
<1>5. balance' \in [Denoms -> Nat]
  <2>1. balance' = IF tx.recipient = ContractAddress
                     THEN [balance EXCEPT ![tx.amount.denom] = @ + tx.amount.amount]
                     ELSE balance
    BY <1>0, ExecuteBalance
  <2> QED BY <1>4, <2>1 DEF TypeOK
<1>6. /\ IsMap(pending', EvidenceId, Transaction)
      /\ IsMap(sent', Ids, Transaction)
      /\ payouts' \in Seq(Payout)
  BY <1>1, <1>2, <1>3, SendType
<1> QED BY <1>3, <1>5, <1>6 DEF TypeOK

\* Every configuration call stores a well-formed configuration.
LEMMA SaveConfigType ==
    ASSUME TypeOK, NEW new \in ContractConfig, SaveConfig(new)
    PROVE  TypeOK'
<1>1. config' \in ContractConfig
  <2>1. config.version + 1 \in Nat \ {0}
    BY DEF TypeOK, ContractConfig
  <2>2. ASSUME NEW v \in Nat \ {0}
        PROVE  [new EXCEPT !.version = v] \in ContractConfig
    BY DEF ContractConfig
  <2> QED BY <2>1, <2>2 DEF SaveConfig
<1>2. wasTrusted' \subseteq Addrs
  BY DEF TypeOK, SaveConfig, ContractConfig
<1> QED BY <1>1, <1>2 DEF TypeOK, SaveConfig, IsMap

\* The configuration calls differ in the field they replace.
LEMMA AdministerSaves ==
    ASSUME TypeOK, Administer
    PROVE  \E new \in ContractConfig :
              SaveConfig(new) /\ new.threshold = config.threshold
<1> DEFINE Goal == \E new \in ContractConfig :
                      SaveConfig(new) /\ new.threshold = config.threshold
<1>1. config \in ContractConfig
  BY DEF TypeOK
<1>2. ASSUME NEW sender \in Addrs, NEW a \in Addrs, update_owner(sender, a)
      PROVE  Goal
  <2> DEFINE new == [config EXCEPT !.owner = a]
  <2>1. new \in ContractConfig /\ new.threshold = config.threshold
    BY <1>1 DEF ContractConfig
  <2>2. SaveConfig(new)
    BY <1>2 DEF update_owner
  <2> HIDE DEF new
  <2> QED BY <2>1, <2>2
<1>3. ASSUME NEW sender \in Addrs, NEW n \in AmountLimits,
             update_min_amount(sender, n)
      PROVE  Goal
  <2> DEFINE new == [config EXCEPT !.min_amount = n]
  <2>1. new \in ContractConfig /\ new.threshold = config.threshold
    BY <1>1, AmountAssumption DEF ContractConfig
  <2>2. SaveConfig(new)
    BY <1>3 DEF update_min_amount
  <2> HIDE DEF new
  <2> QED BY <2>1, <2>2
<1>4. ASSUME NEW sender \in Addrs, NEW n \in AmountLimits,
             update_max_amount(sender, n)
      PROVE  Goal
  <2> DEFINE new == [config EXCEPT !.max_amount = n]
  <2>1. new \in ContractConfig /\ new.threshold = config.threshold
    BY <1>1, AmountAssumption DEF ContractConfig
  <2>2. SaveConfig(new)
    BY <1>4 DEF update_max_amount
  <2> HIDE DEF new
  <2> QED BY <2>1, <2>2
<1>5. ASSUME NEW sender \in Addrs, NEW S \in TrustedLists,
             update_trusted_addresses(sender, S)
      PROVE  Goal
  <2> DEFINE new == [config EXCEPT !.trusted_addresses = S]
  <2>1. new \in ContractConfig /\ new.threshold = config.threshold
    BY <1>1, AccountAssumption DEF ContractConfig
  <2>2. SaveConfig(new)
    BY <1>5 DEF update_trusted_addresses
  <2> HIDE DEF new
  <2> QED BY <2>1, <2>2
<1>6. ASSUME NEW sender \in Addrs, NEW T \in SUBSET Tokens,
             add_xrpl_tokens(sender, T)
      PROVE  Goal
  <2> DEFINE new == [config EXCEPT !.xrpl_tokens = config.xrpl_tokens \cup T]
  <2>1. new \in ContractConfig /\ new.threshold = config.threshold
    BY <1>1 DEF ContractConfig
  <2>2. SaveConfig(new)
    BY <1>6 DEF add_xrpl_tokens
  <2> HIDE DEF new
  <2> QED BY <2>1, <2>2
<1>7. ASSUME NEW a \in Addrs, migrate(a)
      PROVE  Goal
  <2> DEFINE new == [config EXCEPT !.owner = a]
  <2>1. new \in ContractConfig /\ new.threshold = config.threshold
    BY <1>1 DEF ContractConfig
  <2>2. SaveConfig(new)
    BY <1>7 DEF migrate
  <2> HIDE DEF new
  <2> QED BY <2>1, <2>2
<1> QED BY <1>2, <1>3, <1>4, <1>5, <1>6, <1>7 DEF Administer

\* A deposit only adds coins.
LEMMA DepositType ==
    ASSUME TypeOK, NEW d \in Denoms, NEW n \in Amounts, Deposit(d, n)
    PROVE  TypeOK'
BY AmountAssumption DEF TypeOK, Deposit

\* The state is always well formed.  Beyond the shape of the maps this says
\* that the balance never goes below zero, and that the threshold is positive
\* from the first state on, however the contract was set up.
THEOREM TypeCorrect == Spec => []TypeOK
<1>1. Init => TypeOK
  BY InitType
<1>2. TypeOK /\ [Next]_vars => TypeOK'
  <2> SUFFICES ASSUME TypeOK, [Next]_vars PROVE TypeOK'
    OBVIOUS
  <2>1. CASE Evidence
    BY <2>1, EvidenceIsCall, EvidenceType
  <2>2. CASE Execute
    BY <2>2, ExecuteType DEF Execute
  <2>3. CASE Administer
    BY <2>3, AdministerSaves, SaveConfigType
  <2>4. CASE \E d \in Denoms, n \in Amounts : Deposit(d, n)
    BY <2>4, DepositType
  <2>5. CASE UNCHANGED vars
    BY <2>5 DEF TypeOK, vars, IsMap
  <2> QED BY <2>1, <2>2, <2>3, <2>4, <2>5 DEF Next
<1> QED BY <1>1, <1>2, PTL DEF Spec

-----------------------------------------------------------------------------
(* The payout guarantees *)

\* What threshold_bank_send makes of the evidence it accepts: a transaction
\* that pays what the evidence id says, with every account that attested it.
LEMMA ProvidedTx ==
    ASSUME TypeOK, QuorumInv, NEW sender \in Addrs, NEW id \in Ids,
           NEW amount \in Coin, NEW recipient \in Recipients, NEW e,
           e = build_evidence_id(normalize_id(id), amount, recipient),
           threshold_bank_send(sender, id, amount, recipient),
           NEW tx, tx = WithProvider(sender, amount, recipient, e)
    PROVE  /\ tx \in Transaction
           /\ Matches(tx, e)
           /\ Attested(tx, e)'
           /\ \A v \in attested' : v[2] = e => v[1] \in Range(tx.evidence_providers)
           /\ \A i \in DOMAIN payouts : payouts[i].evidence # e
<1>1. e \in EvidenceId /\ e.id = normalize_id(id)
  BY EvidenceIdType
<1>2. tx \in Transaction
  BY <1>1, WithProviderType
<1>3. /\ sender \in config.trusted_addresses
      /\ normalize_id(id) \notin DOMAIN sent
      /\ e \in DOMAIN pending => sender \notin Range(pending[e].evidence_providers)
      /\ attested' = attested \cup {<<sender, e>>}
      /\ wasTrusted' = wasTrusted
  BY DEF threshold_bank_send, Unauthorized, TransferAlreadySent,
         EvidenceAlreadyProvided
<1>4. sender \in wasTrusted
  BY <1>3 DEF QuorumInv, PendingSound
<1>5. \A i \in DOMAIN payouts : payouts[i].evidence # e
  BY <1>1, <1>3 DEF QuorumInv, PaidIsClosed, extract_id_from_evidence_id
<1>6. CASE e \in DOMAIN pending
  <2> DEFINE old == pending[e].evidence_providers
  <2>1. pending[e] \in Transaction /\ old \in Seq(Addrs)
    BY <1>6 DEF TypeOK, IsMap, Transaction
  <2>2. /\ tx.evidence_providers = Append(old, sender)
        /\ tx.recipient = pending[e].recipient
        /\ tx.amount = pending[e].amount
    BY <1>6, <2>1 DEF WithProvider, Transaction
  <2>3. /\ Matches(pending[e], e)
        /\ IsInjective(old)
        /\ \A a \in Range(old) : a \in wasTrusted /\ <<a, e>> \in attested
    BY <1>6 DEF QuorumInv, PendingSound, Attested
  <2> HIDE DEF old
  <2>4. /\ Range(tx.evidence_providers) = Range(old) \cup {sender}
        /\ IsInjective(tx.evidence_providers)
    BY <1>3, <1>6, <2>1, <2>2, <2>3, AppendIs DEF old
  <2>5. Matches(tx, e)
    BY <2>2, <2>3 DEF Matches
  <2>6. Attested(tx, e)'
    BY <1>3, <1>4, <2>3, <2>4 DEF Attested
  <2>7. \A v \in attested : v[2] = e => v[1] \in Range(old)
    BY <1>5 DEF QuorumInv, AttestationsKept, EvidenceAlreadyProvided, old
  <2> QED BY <1>2, <1>3, <1>5, <2>4, <2>5, <2>6, <2>7
<1>7. CASE e \notin DOMAIN pending
  <2>1. /\ tx.evidence_providers = <<sender>>
        /\ tx.recipient = recipient
        /\ tx.amount = amount
    BY <1>7 DEF WithProvider
  <2>2. /\ Range(tx.evidence_providers) = {sender}
        /\ IsInjective(tx.evidence_providers)
    BY <2>1 DEF Range, IsInjective
  <2>3. Matches(tx, e)
    BY <1>1, <2>1, LowerAssumption DEF Matches, build_evidence_id, normalize_id
  <2>4. Attested(tx, e)'
    BY <1>3, <1>4, <2>2 DEF Attested
  <2>5. \A v \in attested : v[2] # e
    BY <1>5, <1>7 DEF QuorumInv, AttestationsKept, EvidenceAlreadyProvided
  <2> QED BY <1>2, <1>3, <1>5, <2>2, <2>3, <2>4, <2>5
<1> QED BY <1>6, <1>7

\* A bank send keeps the invariant when its transaction is attested by a
\* quorum, counts all the evidence for e, and e was not paid before; the
\* contract's own coins are spent only under an id that is not yet sent.
LEMMA SendKeepsQuorumInv ==
    ASSUME TypeOK, QuorumInv, NEW tx \in Transaction, NEW e \in EvidenceId,
           NEW from \in {"contract", "caller"},
           send_bank_transaction(tx, e.id, e, from),
           UNCHANGED <<config, wasTrusted>>,
           attested \subseteq attested',
           \A v \in attested' \ attested : v[2] = e,
           Len(tx.evidence_providers) >= config.threshold,
           Matches(tx, e), Attested(tx, e)',
           \A v \in attested' : v[2] = e => v[1] \in Range(tx.evidence_providers),
           \A i \in DOMAIN payouts : payouts[i].evidence # e,
           from = "contract" => e.id \notin DOMAIN sent
    PROVE  QuorumInv'
<1> DEFINE p == [evidence |-> e, tx |-> tx, from |-> from]
           n == Len(payouts) + 1
<1>1. /\ pending' = Remove(pending, e)
      /\ DOMAIN pending' = DOMAIN pending \ {e}
      /\ \A x \in DOMAIN pending' : pending'[x] = pending[x]
  BY DEF send_bank_transaction, Remove, Restrict
<1>2. DOMAIN sent' = DOMAIN sent \cup {e.id}
  BY DEF send_bank_transaction, Save
<1>3. /\ DOMAIN payouts = 1 .. Len(payouts)
      /\ Len(payouts) \in Nat
      /\ DOMAIN payouts' = 1 .. n
      /\ \A i \in DOMAIN payouts : payouts'[i] = payouts[i]
      /\ payouts'[n] = p
  <2>1. payouts \in Seq(Payout) /\ payouts' = Append(payouts, p) /\ p \in Payout
    BY DEF TypeOK, send_bank_transaction, Payout
  <2> HIDE DEF p
  <2> QED BY <2>1
<1>4. /\ \A i \in DOMAIN payouts' : i \in DOMAIN payouts \/ i = n
      /\ n \notin DOMAIN payouts
      /\ n \in DOMAIN payouts'
      /\ \A i \in DOMAIN payouts' : i <= n
      /\ \A i \in DOMAIN payouts : i \in DOMAIN payouts' /\ i \in Nat
  BY <1>3
<1>6. PendingSound'
  <2>1. ASSUME NEW x \in DOMAIN pending'
        PROVE  Attested(pending[x], x)' /\ Matches(pending'[x], x)
    <3>1. x \in DOMAIN pending /\ pending'[x] = pending[x]
      BY <1>1, <2>1
    <3>2. Attested(pending[x], x) /\ Matches(pending[x], x)
      BY <3>1 DEF QuorumInv, PendingSound
    <3>3. Attested(pending[x], x)'
      BY <3>1, <3>2 DEF Attested
    <3> QED BY <3>1, <3>2, <3>3
  <2> QED BY <2>1 DEF QuorumInv, PendingSound, Matches
<1>7. PaidOnQuorum'
  <2>1. ASSUME NEW i \in DOMAIN payouts'
        PROVE  /\ Len(payouts'[i].tx.evidence_providers) >= config.threshold
               /\ Attested(payouts[i].tx, payouts[i].evidence)'
               /\ Matches(payouts'[i].tx, payouts'[i].evidence)
    <3>1. CASE i = n
      BY <1>3, <3>1 DEF Attested
    <3>2. CASE i \in DOMAIN payouts
      BY <1>3, <3>2 DEF QuorumInv, PaidOnQuorum, Attested
    <3> QED BY <1>4, <2>1, <3>1, <3>2
  <2> QED BY <2>1 DEF PaidOnQuorum, Matches
<1>8. PaidIsClosed'
  <2>1. ASSUME NEW i \in DOMAIN payouts'
        PROVE  /\ payouts'[i].evidence.id \in DOMAIN sent'
               /\ payouts'[i].evidence \notin DOMAIN pending'
    <3>1. CASE i = n
      BY <1>1, <1>2, <1>3, <3>1
    <3>2. CASE i \in DOMAIN payouts
      BY <1>1, <1>2, <1>3, <3>2
      DEF QuorumInv, PaidIsClosed, extract_id_from_evidence_id
    <3> QED BY <1>4, <2>1, <3>1, <3>2
  <2> QED BY <2>1 DEF PaidIsClosed, extract_id_from_evidence_id
<1>9. EvidencePaidOnce'
  BY <1>3, <1>4 DEF QuorumInv, EvidencePaidOnce
<1>10. OwnCoinsOnlyForFirstPayout'
  <2>1. /\ Lower[e.id] = e.id
        /\ \A i \in DOMAIN payouts :
              /\ payouts[i].evidence.id \in DOMAIN sent
              /\ Lower[payouts[i].evidence.id] = payouts[i].evidence.id
    BY DEF QuorumInv, PaidIsClosed, PaidOnQuorum, Matches,
           extract_id_from_evidence_id
  <2>2. ASSUME NEW i \in DOMAIN payouts', NEW j \in DOMAIN payouts',
               Lower[payouts'[i].evidence.id] = Lower[payouts'[j].evidence.id],
               payouts'[j].from = "contract"
        PROVE  j <= i
    <3>1. CASE i = n
      BY <1>4, <3>1
    <3>2. CASE i \in DOMAIN payouts /\ j = n
      BY <1>3, <2>1, <2>2, <3>2
    <3>3. CASE i \in DOMAIN payouts /\ j \in DOMAIN payouts
      BY <1>3, <2>2, <3>3 DEF QuorumInv, OwnCoinsOnlyForFirstPayout
    <3> QED BY <1>4, <3>1, <3>2, <3>3
  <2> QED BY <2>2 DEF OwnCoinsOnlyForFirstPayout
<1>11. AttestationsKept'
  <2>1. ASSUME NEW v \in attested'
        PROVE  \/ /\ v[2] \in DOMAIN pending'
                  /\ v[1] \in Range(pending'[v[2]].evidence_providers)
               \/ \E i \in DOMAIN payouts' :
                     /\ payouts'[i].evidence = v[2]
                     /\ v[1] \in Range(payouts'[i].tx.evidence_providers)
    <3>1. CASE v[2] = e
      BY <1>3, <1>4, <3>1
    <3>2. CASE v[2] # e
      <4>1. v \in attested
        BY <3>2
      <4>2. CASE EvidenceAlreadyProvided(v[1], v[2])
        BY <1>1, <3>2, <4>2 DEF EvidenceAlreadyProvided
      <4>3. CASE \E i \in DOMAIN payouts :
                    /\ payouts[i].evidence = v[2]
                    /\ v[1] \in Range(payouts[i].tx.evidence_providers)
        BY <1>3, <1>4, <4>3
      <4> QED BY <4>1, <4>2, <4>3 DEF QuorumInv, AttestationsKept
    <3> QED BY <3>1, <3>2
  <2> QED BY <2>1 DEF AttestationsKept, EvidenceAlreadyProvided
<1> QED BY <1>6, <1>7, <1>8, <1>9, <1>10, <1>11 DEF QuorumInv

\* Storing evidence that does not complete a quorum keeps the invariant.
LEMMA PendingKeepsQuorumInv ==
    ASSUME TypeOK, QuorumInv, NEW tx \in Transaction, NEW e \in EvidenceId,
           pending' = Save(pending, e, tx),
           UNCHANGED <<config, sent, payouts, wasTrusted>>,
           attested \subseteq attested',
           \A v \in attested' \ attested : v[2] = e,
           Matches(tx, e), Attested(tx, e)',
           \A v \in attested' : v[2] = e => v[1] \in Range(tx.evidence_providers),
           \A i \in DOMAIN payouts : payouts[i].evidence # e
    PROVE  QuorumInv'
<1>1. /\ DOMAIN pending' = DOMAIN pending \cup {e}
      /\ pending'[e] = tx
      /\ \A x \in DOMAIN pending : x # e => pending'[x] = pending[x]
  BY DEF Save
<1>2. PendingSound'
  <2>1. ASSUME NEW x \in DOMAIN pending'
        PROVE  Attested(pending[x], x)' /\ Matches(pending'[x], x)
    <3>1. CASE x = e
      BY <1>1, <3>1 DEF Attested
    <3>2. CASE x # e
      BY <1>1, <2>1, <3>2 DEF QuorumInv, PendingSound, Attested
    <3> QED BY <3>1, <3>2
  <2> QED BY <2>1 DEF QuorumInv, PendingSound, Matches
<1>3. PaidOnQuorum'
  BY DEF QuorumInv, PaidOnQuorum, Attested, Matches
<1>4. PaidIsClosed' /\ EvidencePaidOnce' /\ OwnCoinsOnlyForFirstPayout'
  BY <1>1 DEF QuorumInv, PaidIsClosed, EvidencePaidOnce,
              OwnCoinsOnlyForFirstPayout, extract_id_from_evidence_id
<1>5. AttestationsKept'
  <2>1. ASSUME NEW v \in attested'
        PROVE  \/ /\ v[2] \in DOMAIN pending'
                  /\ v[1] \in Range(pending'[v[2]].evidence_providers)
               \/ \E i \in DOMAIN payouts :
                     /\ payouts[i].evidence = v[2]
                     /\ v[1] \in Range(payouts[i].tx.evidence_providers)
    <3>1. CASE v[2] = e
      BY <1>1, <3>1
    <3>2. CASE v[2] # e
      BY <1>1, <3>2
      DEF QuorumInv, AttestationsKept, EvidenceAlreadyProvided
    <3> QED BY <3>1, <3>2
  <2> QED BY <2>1 DEF AttestationsKept, EvidenceAlreadyProvided
<1> QED BY <1>2, <1>3, <1>4, <1>5 DEF QuorumInv

\* Initially nothing is pending, attested or paid.
LEMMA InitQuorumInv == Init => QuorumInv
BY DEF Init, instantiate, migrate_legacy, NoActivity, QuorumInv, PendingSound,
       PaidOnQuorum, PaidIsClosed, EvidencePaidOnce,
       OwnCoinsOnlyForFirstPayout, AttestationsKept

\* Every step keeps the invariant.  Evidence is only added under an id that is
\* not sent, so not paid; execute_pending pays an entry that exists, so is not
\* paid either; and no configuration call changes the threshold.
LEMMA NextQuorumInv ==
    TypeOK /\ QuorumInv /\ [Next]_vars => QuorumInv'
<1> SUFFICES ASSUME TypeOK, QuorumInv, [Next]_vars PROVE QuorumInv'
  OBVIOUS
<1>1. ASSUME NEW sender \in Addrs, NEW id \in Ids, NEW amount \in Coin,
             NEW recipient \in Recipients,
             threshold_bank_send(sender, id, amount, recipient)
      PROVE  QuorumInv'
  <2> DEFINE e == build_evidence_id(normalize_id(id), amount, recipient)
  <2>0. PICK tx : tx = WithProvider(sender, amount, recipient, e)
    OBVIOUS
  <2>1. e \in EvidenceId /\ e.id = normalize_id(id)
    BY EvidenceIdType
  <2>2. /\ tx \in Transaction
        /\ Matches(tx, e)
        /\ Attested(tx, e)'
        /\ \A v \in attested' : v[2] = e => v[1] \in Range(tx.evidence_providers)
        /\ \A i \in DOMAIN payouts : payouts[i].evidence # e
    BY <1>1, <2>0, ProvidedTx
  <2>3. /\ attested' = attested \cup {<<sender, e>>}
        /\ e.id \notin DOMAIN sent
        /\ UNCHANGED <<config, wasTrusted>>
    BY <1>1, <2>1 DEF threshold_bank_send, TransferAlreadySent
  <2>4. \/ /\ send_bank_transaction(tx, e.id, e, "contract")
           /\ Len(tx.evidence_providers) = config.threshold
        \/ pending' = Save(pending, e, tx) /\ UNCHANGED <<sent, payouts>>
    BY <1>1, <2>0, <2>1 DEF threshold_bank_send, ReachesThreshold
  <2>5. config.threshold \in Nat
    BY DEF TypeOK, ContractConfig
  <2> HIDE DEF e
  <2>6. CASE /\ send_bank_transaction(tx, e.id, e, "contract")
             /\ Len(tx.evidence_providers) = config.threshold
    <3>1. Len(tx.evidence_providers) >= config.threshold
      BY <2>5, <2>6
    <3> QED BY <2>1, <2>2, <2>3, <2>6, <3>1, SendKeepsQuorumInv
  <2>7. CASE pending' = Save(pending, e, tx) /\ UNCHANGED <<sent, payouts>>
    BY <2>1, <2>2, <2>3, <2>7, PendingKeepsQuorumInv
  <2> QED BY <2>4, <2>6, <2>7
<1>2. ASSUME NEW e \in DOMAIN pending, NEW funds \in Coin,
             execute_pending(e, funds)
      PROVE  QuorumInv'
  <2>0. PICK tx : tx = pending[e]
    OBVIOUS
  <2>1. e \in EvidenceId /\ tx \in Transaction
    BY <2>0 DEF TypeOK, IsMap
  <2>2. /\ send_bank_transaction(tx, e.id, e, "caller")
        /\ Len(tx.evidence_providers) >= config.threshold
        /\ UNCHANGED <<config, attested, wasTrusted>>
    BY <1>2, <2>0 DEF execute_pending, extract_id_from_evidence_id
  <2>3. \A i \in DOMAIN payouts : payouts[i].evidence # e
    BY DEF QuorumInv, PaidIsClosed
  <2>4. \A v \in attested : v[2] = e => v[1] \in Range(tx.evidence_providers)
    BY <2>0, <2>3 DEF QuorumInv, AttestationsKept, EvidenceAlreadyProvided
  <2>5. Matches(tx, e) /\ Attested(tx, e)
    BY <2>0 DEF QuorumInv, PendingSound
  <2>6. Attested(tx, e)'
    BY <2>2, <2>5 DEF Attested
  <2> QED BY <2>1, <2>2, <2>3, <2>4, <2>5, <2>6, SendKeepsQuorumInv
<1>3. CASE Administer
  <2>1. PICK new \in ContractConfig :
           SaveConfig(new) /\ new.threshold = config.threshold
    BY <1>3, AdministerSaves
  <2>2. /\ config'.threshold = config.threshold
        /\ config'.trusted_addresses = new.trusted_addresses
        /\ wasTrusted' = wasTrusted \cup new.trusted_addresses
        /\ UNCHANGED <<pending, sent, attested, payouts>>
    BY <2>1 DEF SaveConfig, ContractConfig
  <2>3. PendingSound'
    BY <2>2 DEF QuorumInv, PendingSound, Attested, Matches
  <2>4. PaidOnQuorum'
    BY <2>2 DEF QuorumInv, PaidOnQuorum, Attested, Matches
  <2>5. /\ PaidIsClosed' /\ EvidencePaidOnce' /\ OwnCoinsOnlyForFirstPayout'
        /\ AttestationsKept'
    BY <2>2 DEF QuorumInv, PaidIsClosed, EvidencePaidOnce,
                OwnCoinsOnlyForFirstPayout, AttestationsKept,
                EvidenceAlreadyProvided, extract_id_from_evidence_id
  <2> QED BY <2>3, <2>4, <2>5 DEF QuorumInv
<1>4. ASSUME UNCHANGED <<config, pending, sent, attested, payouts, wasTrusted>>
      PROVE  QuorumInv'
  BY <1>4 DEF QuorumInv, PendingSound, PaidOnQuorum, PaidIsClosed,
              EvidencePaidOnce, OwnCoinsOnlyForFirstPayout, AttestationsKept,
              Attested, Matches, EvidenceAlreadyProvided,
              extract_id_from_evidence_id
<1> QED BY <1>1, <1>2, <1>3, <1>4, EvidenceIsCall
        DEF Next, Execute, Deposit, vars

\* The inductive invariant holds in every reachable state.
THEOREM QuorumInvariant == Spec => []QuorumInv
BY InitQuorumInv, NextQuorumInv, TypeCorrect, PTL DEF Spec

\* Every bank send, whoever financed it and whatever the owner changed before,
\* rests on `threshold` different, once trusted accounts that submitted
\* exactly the id, amount and recipient that were paid.
THEOREM PaymentsHaveQuorum == Spec => []PaidOnQuorum
BY QuorumInvariant, PTL DEF QuorumInv

\* threshold_bank_send and execute_pending together pay no evidence id twice.
THEOREM NoEvidencePaidTwice == Spec => []EvidencePaidOnce
BY QuorumInvariant, PTL DEF QuorumInv

\* The contract's own coins are spent at most once under an XRPL transaction
\* id, and only by the first bank send under that id.
THEOREM OwnCoinsSpentOncePerId == Spec => []OwnCoinsOnlyForFirstPayout
BY QuorumInvariant, PTL DEF QuorumInv

\* No accepted evidence is dropped from the count.
THEOREM EvidenceIsNotLost == Spec => []AttestationsKept
BY QuorumInvariant, PTL DEF QuorumInv

\* Whatever the owner and the admin call, a configuration never changes under
\* its version, on which the relayers' watcher relies.
THEOREM VersionIdentifiesConfig == Spec => VersionTracksConfig
<1>1. TypeOK /\ [Next]_vars
         => [config' # config => config'.version = config.version + 1]_vars
  <2> SUFFICES ASSUME TypeOK, [Next]_vars, config' # config
               PROVE  config'.version = config.version + 1
    OBVIOUS
  <2>1. CASE Administer
    <3>1. PICK new \in ContractConfig : SaveConfig(new)
      BY <2>1, AdministerSaves
    <3> QED BY <3>1 DEF SaveConfig, ContractConfig
  <2>2. CASE Evidence
    BY <2>2 DEF Evidence, threshold_bank_send
  <2>3. CASE Execute
    BY <2>3 DEF Execute, execute_pending
  <2> QED BY <2>1, <2>2, <2>3 DEF Next, Deposit, vars
<1> QED BY <1>1, TypeCorrect, PTL DEF Spec, VersionTracksConfig

\* Once an id is sent, its other pending entries are executed as they are or
\* stay: no evidence is added to them and no entry is created.
THEOREM SentIdsAreFrozen == Spec => SentIdIsFrozen
<1> DEFINE Frozen(e) == e.id \in DOMAIN sent =>
                           e \in DOMAIN pending /\ pending'[e] = pending[e]
<1>1. TypeOK /\ [Next]_vars => [\A e \in DOMAIN pending' : Frozen(e)]_vars
  <2> SUFFICES ASSUME TypeOK, [Next]_vars, NEW e \in DOMAIN pending' PROVE Frozen(e)
    OBVIOUS
  <2>1. ASSUME NEW x, pending' = Remove(pending, x) PROVE Frozen(e)
    <3>1. e \in DOMAIN pending \ {x}
      BY <2>1 DEF Remove, Restrict
    <3>2. pending'[e] = pending[e]
      BY <2>1, <3>1 DEF Remove, Restrict
    <3> QED BY <3>1, <3>2
  <2>2. ASSUME NEW sender \in Addrs, NEW id \in Ids, NEW amount \in Coin,
               NEW recipient \in Recipients,
               threshold_bank_send(sender, id, amount, recipient)
        PROVE  Frozen(e)
    <3> DEFINE x == build_evidence_id(normalize_id(id), amount, recipient)
    <3>1. x.id = normalize_id(id) /\ x.id \notin DOMAIN sent
      BY <2>2, EvidenceIdType DEF threshold_bank_send, TransferAlreadySent
    <3>2. \/ pending' = Remove(pending, x)
          \/ \E tx : pending' = Save(pending, x, tx)
      BY <2>2 DEF threshold_bank_send, send_bank_transaction
    <3> HIDE DEF x
    <3>3. CASE \E tx : pending' = Save(pending, x, tx)
      BY <3>1, <3>3 DEF Save
    <3> QED BY <2>1, <3>2, <3>3
  <2>3. CASE Execute
    BY <2>1, <2>3 DEF Execute, execute_pending, send_bank_transaction
  <2>4. CASE UNCHANGED pending
    BY <2>4
  <2>5. CASE Administer
    BY <2>4, <2>5, AdministerSaves DEF SaveConfig
  <2> QED BY <2>2, <2>3, <2>4, <2>5, EvidenceIsCall DEF Next, Deposit, vars
<1> QED BY <1>1, TypeCorrect, PTL DEF Spec, SentIdIsFrozen

-----------------------------------------------------------------------------
(* The account *)

\* The amounts of the bank sends.
PaidAmounts == [i \in DOMAIN payouts |-> payouts[i].tx.amount.amount]

\* The indices whose amounts the account lost, and those it gained.
SpentIn(d) == {i \in Spent : payouts[i].tx.amount.denom = d}
ReceivedIn(d) == {i \in Received : payouts[i].tx.amount.denom = d}

SpentSum(d) == SumFunctionOnSet(PaidAmounts, SpentIn(d))
ReceivedSum(d) == SumFunctionOnSet(PaidAmounts, ReceivedIn(d))

\* The two totals of BalanceConserved.
LEMMA TotalsAreSums ==
    ASSUME NEW d
    PROVE  Total(Spent, d) = SpentSum(d) /\ Total(Received, d) = ReceivedSum(d)
BY DEF Total, SpentSum, ReceivedSum, SpentIn, ReceivedIn, PaidAmounts

\* Indices of bank sends are finitely many, and their amounts are numbers.
LEMMA PayoutsType ==
    ASSUME TypeOK, NEW I \in SUBSET DOMAIN payouts
    PROVE  /\ IsFiniteSet(I)
           /\ \A i \in I : PaidAmounts[i] \in Int
           /\ SumFunctionOnSet(PaidAmounts, I) \in Int
<1>1. DOMAIN payouts = 1 .. Len(payouts) /\ Len(payouts) \in Nat
  BY DEF TypeOK
<1>2. IsFiniteSet(1 .. Len(payouts))
  BY <1>1, FS_Interval
<1>3. IsFiniteSet(I)
  BY <1>1, <1>2, FS_Subset
<1>4. ASSUME NEW i \in DOMAIN payouts
      PROVE  PaidAmounts[i] \in Int
  <2>1. payouts[i] \in Payout
    BY <1>1 DEF TypeOK
  <2>2. payouts[i].tx.amount.amount \in Amounts
    BY <2>1 DEF Payout, Transaction, Coin
  <2>3. payouts[i].tx.amount.amount \in Nat
    BY <2>2, AmountAssumption
  <2> QED
    BY <2>3 DEF PaidAmounts
<1>5. \A i \in I : PaidAmounts[i] \in Int
  BY <1>4
<1> QED
  BY <1>3, <1>5, SumType

\* The sums are numbers.
LEMMA SumsType ==
    ASSUME TypeOK, NEW d
    PROVE  SpentSum(d) \in Int /\ ReceivedSum(d) \in Int
<1>1. SpentIn(d) \in SUBSET DOMAIN payouts /\ ReceivedIn(d) \in SUBSET DOMAIN payouts
  BY DEF SpentIn, ReceivedIn, Spent, Received
<1> QED
  BY <1>1, PayoutsType DEF SpentSum, ReceivedSum

\* A bank send adds its amount to the sum over a set of indices that its own
\* index joins, and nothing to one that it does not.
LEMMA SendAddsTo ==
    ASSUME TypeOK, NEW p \in Payout, payouts' = Append(payouts, p),
           NEW I \in SUBSET DOMAIN payouts
    PROVE  /\ SumFunctionOnSet(PaidAmounts', I) = SumFunctionOnSet(PaidAmounts, I)
           /\ SumFunctionOnSet(PaidAmounts', I \cup {Len(payouts) + 1})
                = SumFunctionOnSet(PaidAmounts, I) + p.tx.amount.amount
<1> DEFINE n == Len(payouts) + 1
<1>1. /\ DOMAIN payouts = 1 .. Len(payouts) /\ Len(payouts) \in Nat
      /\ DOMAIN payouts' = 1 .. n
      /\ \A i \in DOMAIN payouts : payouts'[i] = payouts[i]
      /\ payouts'[n] = p
  BY DEF TypeOK
<1>2. /\ n \notin DOMAIN payouts
      /\ DOMAIN payouts' = DOMAIN payouts \cup {n}
  BY <1>1
<1>3. /\ IsFiniteSet(I)
      /\ \A i \in I : PaidAmounts[i] \in Int
      /\ SumFunctionOnSet(PaidAmounts, I) \in Int
  BY PayoutsType
<1> HIDE DEF n
<1>4. /\ \A i \in DOMAIN payouts : PaidAmounts'[i] = PaidAmounts[i]
      /\ PaidAmounts'[n] = p.tx.amount.amount
  BY <1>1, <1>2 DEF PaidAmounts
<1>5. SumFunctionOnSet(PaidAmounts', I) = SumFunctionOnSet(PaidAmounts, I)
  <2>1. \A i \in I : PaidAmounts'[i] = PaidAmounts[i]
    BY <1>4
  <2> QED
    BY <1>3, <2>1, SumSame
<1>6. p.tx.amount.amount \in Nat
  <2>1. p.tx.amount.amount \in Amounts
    BY DEF Payout, Transaction, Coin
  <2> QED
    BY <2>1, AmountAssumption
<1>7. \A i \in I \cup {n} : PaidAmounts'[i] \in Int
  BY <1>3, <1>4, <1>6
<1>8. SumFunctionOnSet(PaidAmounts', I \cup {n})
        = PaidAmounts'[n] + SumFunctionOnSet(PaidAmounts', I)
  BY <1>2, <1>3, <1>7, SumAddElement
<1>9. SumFunctionOnSet(PaidAmounts', I \cup {n})
        = SumFunctionOnSet(PaidAmounts, I) + p.tx.amount.amount
  BY <1>3, <1>4, <1>5, <1>6, <1>8
<1> QED
  BY <1>5, <1>9 DEF n

\* What a bank send does to the two sums: it counts as spent if the contract
\* financed it for somebody else, as received if a caller financed it for the
\* contract, and otherwise as neither.
LEMMA SendAdds ==
    ASSUME TypeOK, NEW p \in Payout, payouts' = Append(payouts, p), NEW d
    PROVE  /\ SpentSum(d)' =
                 IF /\ p.from = "contract" /\ p.tx.recipient # ContractAddress
                    /\ p.tx.amount.denom = d
                 THEN SpentSum(d) + p.tx.amount.amount ELSE SpentSum(d)
           /\ ReceivedSum(d)' =
                 IF /\ p.from = "caller" /\ p.tx.recipient = ContractAddress
                    /\ p.tx.amount.denom = d
                 THEN ReceivedSum(d) + p.tx.amount.amount ELSE ReceivedSum(d)
<1> DEFINE n == Len(payouts) + 1
           Joins == /\ p.from = "contract" /\ p.tx.recipient # ContractAddress
                    /\ p.tx.amount.denom = d
           Comes == /\ p.from = "caller" /\ p.tx.recipient = ContractAddress
                    /\ p.tx.amount.denom = d
<1>1. /\ DOMAIN payouts = 1 .. Len(payouts) /\ Len(payouts) \in Nat
      /\ DOMAIN payouts' = 1 .. n
      /\ \A i \in DOMAIN payouts : payouts'[i] = payouts[i]
      /\ payouts'[n] = p
  BY DEF TypeOK
<1>2. /\ n \notin DOMAIN payouts
      /\ DOMAIN payouts' = DOMAIN payouts \cup {n}
  BY <1>1
<1>3. SpentIn(d) \in SUBSET DOMAIN payouts /\ ReceivedIn(d) \in SUBSET DOMAIN payouts
  BY DEF SpentIn, ReceivedIn, Spent, Received
<1>4. /\ SumFunctionOnSet(PaidAmounts', SpentIn(d)) = SpentSum(d)
      /\ SumFunctionOnSet(PaidAmounts', SpentIn(d) \cup {n})
           = SpentSum(d) + p.tx.amount.amount
      /\ SumFunctionOnSet(PaidAmounts', ReceivedIn(d)) = ReceivedSum(d)
      /\ SumFunctionOnSet(PaidAmounts', ReceivedIn(d) \cup {n})
           = ReceivedSum(d) + p.tx.amount.amount
  BY <1>3, SendAddsTo DEF SpentSum, ReceivedSum
<1> HIDE DEF n
<1>5. SpentIn(d)' = IF Joins THEN SpentIn(d) \cup {n} ELSE SpentIn(d)
  BY <1>1, <1>2 DEF SpentIn, Spent
<1>6. ReceivedIn(d)' = IF Comes THEN ReceivedIn(d) \cup {n} ELSE ReceivedIn(d)
  BY <1>1, <1>2 DEF ReceivedIn, Received
<1>7. SpentSum(d)' = IF Joins THEN SpentSum(d) + p.tx.amount.amount ELSE SpentSum(d)
  BY <1>4, <1>5 DEF SpentSum
<1>8. ReceivedSum(d)' = IF Comes THEN ReceivedSum(d) + p.tx.amount.amount
                        ELSE ReceivedSum(d)
  BY <1>4, <1>6 DEF ReceivedSum
<1> QED
  BY <1>7, <1>8

\* A call keeps the account and the sums of bank sends together.
LEMMA NextBalance ==
    TypeOK /\ BalanceConserved /\ [Next]_vars => BalanceConserved'
<1> DEFINE Balanced(d) == balance[d] + SpentSum(d) = deposited[d] + ReceivedSum(d)
<1> SUFFICES ASSUME TypeOK, BalanceConserved, [Next]_vars, NEW d \in Denoms
             PROVE  Balanced(d)'
  BY TotalsAreSums DEF BalanceConserved, Total, SpentSum, ReceivedSum, SpentIn,
     ReceivedIn, PaidAmounts
<1>1. /\ Balanced(d)
      /\ balance \in [Denoms -> Nat] /\ deposited \in [Denoms -> Nat]
  BY TotalsAreSums DEF TypeOK, BalanceConserved
<1>2. SpentSum(d) \in Int /\ ReceivedSum(d) \in Int
  BY SumsType
<1>3. ASSUME UNCHANGED payouts
      PROVE  SpentSum(d)' = SpentSum(d) /\ ReceivedSum(d)' = ReceivedSum(d)
  BY <1>3 DEF SpentSum, ReceivedSum, SpentIn, ReceivedIn, Spent, Received, PaidAmounts
<1>4. ASSUME UNCHANGED <<payouts, balance, deposited>>
      PROVE  Balanced(d)'
  BY <1>1, <1>3, <1>4
<1>5. ASSUME NEW sender \in Addrs, NEW id \in Ids, NEW amount \in Coin,
             NEW recipient \in Recipients,
             threshold_bank_send(sender, id, amount, recipient)
      PROVE  Balanced(d)'
  <2> DEFINE e == build_evidence_id(normalize_id(id), amount, recipient)
  <2>0. PICK tx : tx = WithProvider(sender, amount, recipient, e)
    OBVIOUS
  <2>1. e \in EvidenceId
    BY EvidenceIdType
  <2>2. tx \in Transaction
    BY <2>0, <2>1, WithProviderType
  <2>3. \/ UNCHANGED <<payouts, balance, deposited>>
        \/ /\ payouts' = Append(payouts,
                                [evidence |-> e, tx |-> tx, from |-> "contract"])
           /\ balance' = AfterSend(balance, tx)
           /\ UNCHANGED deposited
    BY <1>5, <2>0 DEF threshold_bank_send, send_bank_transaction
  <2>4. ASSUME payouts' = Append(payouts,
                                 [evidence |-> e, tx |-> tx, from |-> "contract"]),
               balance' = AfterSend(balance, tx),
               UNCHANGED deposited
        PROVE  Balanced(d)'
    <3> HIDE DEF e
    <3>1. [evidence |-> e, tx |-> tx, from |-> "contract"] \in Payout
      BY <2>1, <2>2 DEF Payout
    <3>2. /\ SpentSum(d)' =
               IF tx.recipient # ContractAddress /\ tx.amount.denom = d
               THEN SpentSum(d) + tx.amount.amount ELSE SpentSum(d)
          /\ ReceivedSum(d)' = ReceivedSum(d)
      BY <2>4, <3>1, SendAdds
    <3>3. tx.amount.amount \in Nat
      BY <2>2, AmountAssumption DEF Transaction, Coin
    <3>4. balance'[d] = IF tx.recipient # ContractAddress /\ tx.amount.denom = d
                          THEN balance[d] - tx.amount.amount ELSE balance[d]
      BY <1>1, <2>4 DEF AfterSend
    <3>5. balance[d] \in Nat /\ deposited'[d] = deposited[d] /\ deposited[d] \in Nat
      BY <1>1, <2>4
    <3> QED
      BY <1>1, <1>2, <3>2, <3>3, <3>4, <3>5
  <2> QED
    BY <1>4, <2>3, <2>4
<1>6. ASSUME NEW e \in DOMAIN pending, NEW funds \in Coin, execute_pending(e, funds)
      PROVE  Balanced(d)'
  <2>0. PICK tx : tx = pending[e]
    OBVIOUS
  <2>1. e \in EvidenceId /\ tx \in Transaction
    BY <2>0 DEF TypeOK, IsMap
  <2>2. /\ payouts' = Append(payouts, [evidence |-> e, tx |-> tx, from |-> "caller"])
        /\ UNCHANGED deposited
    BY <1>6, <2>0 DEF execute_pending, send_bank_transaction
  <2>3. [evidence |-> e, tx |-> tx, from |-> "caller"] \in Payout
    BY <2>1 DEF Payout
  <2>4. /\ SpentSum(d)' = SpentSum(d)
        /\ ReceivedSum(d)' =
             IF tx.recipient = ContractAddress /\ tx.amount.denom = d
             THEN ReceivedSum(d) + tx.amount.amount ELSE ReceivedSum(d)
    BY <2>2, <2>3, SendAdds
  <2>5. tx.amount.amount \in Nat
    BY <2>1, AmountAssumption DEF Transaction, Coin
  <2>6. balance'[d] = IF tx.recipient = ContractAddress /\ tx.amount.denom = d
                        THEN balance[d] + tx.amount.amount ELSE balance[d]
    BY <1>1, <1>6, <2>0, ExecuteBalance
  <2>7. balance[d] \in Nat /\ deposited'[d] = deposited[d] /\ deposited[d] \in Nat
    BY <1>1, <2>2
  <2> QED
    BY <1>1, <1>2, <2>4, <2>5, <2>6, <2>7
<1>7. CASE Administer
  <2>1. UNCHANGED <<payouts, balance, deposited>>
    BY <1>7, AdministerSaves DEF SaveConfig
  <2> QED
    BY <1>4, <2>1
<1>8. ASSUME NEW denom \in Denoms, NEW amount \in Amounts, Deposit(denom, amount)
      PROVE  Balanced(d)'
  <2>1. SpentSum(d)' = SpentSum(d) /\ ReceivedSum(d)' = ReceivedSum(d)
    BY <1>3, <1>8 DEF Deposit
  <2>2. amount \in Nat /\ balance[d] \in Nat /\ deposited[d] \in Nat
    BY <1>1, AmountAssumption
  <2>3. /\ balance'[d] = IF d = denom THEN balance[d] + amount ELSE balance[d]
        /\ deposited'[d] = IF d = denom THEN deposited[d] + amount ELSE deposited[d]
    BY <1>1, <1>8 DEF Deposit
  <2> QED
    BY <1>1, <1>2, <2>1, <2>2, <2>3
<1> QED
  BY <1>4, <1>5, <1>6, <1>7, <1>8, EvidenceIsCall DEF Next, Execute, vars

\* The contract's account holds what was deposited, less what threshold_bank_send
\* paid to others from it, and what callers of execute_pending financed for the
\* contract itself: their other coins pass through.  Every address can be the
\* recipient.
THEOREM AccountIsConserved == Spec => []BalanceConserved
<1>1. Init => BalanceConserved
  <2> SUFFICES ASSUME Init, NEW d \in Denoms
               PROVE  balance[d] + SpentSum(d) = deposited[d] + ReceivedSum(d)
    BY TotalsAreSums DEF BalanceConserved
  <2>1. payouts = << >> /\ balance[d] = 0 /\ deposited[d] = 0
    BY DEF Init, instantiate, migrate_legacy, NoActivity
  <2>2. SpentIn(d) = {} /\ ReceivedIn(d) = {}
    BY <2>1 DEF SpentIn, ReceivedIn, Spent, Received
  <2> QED
    BY <2>1, <2>2, SumOfNothing DEF SpentSum, ReceivedSum
<1> QED
  BY <1>1, NextBalance, TypeCorrect, PTL DEF Spec
=============================================================================
