---------------------------- MODULE BridgeProofs ----------------------------
(***************************************************************************)
(* Proofs about Bridge.  The executors change the contract only through    *)
(* threshold_bank_send, so every step of the bridge is a step of the       *)
(* contract or leaves it alone, and the contract's theorems hold of the    *)
(* bridge.  What the bridge adds is that all evidence is evidence of the   *)
(* Transfers, of which there is one per hash.                              *)
(***************************************************************************)
EXTENDS Bridge, BridgeContractProofs

\* The executors' variables keep their types and each executor's place agrees
\* with whether it holds a transfer.
LEMMA ExecutorTypeInvariant == BridgeSpec => []ExecutorTypeOK
<1>1. BridgeInit => ExecutorTypeOK
  BY DisruptionsAssumption DEF BridgeInit, ExecutorTypeOK, Steps
<1>2. ExecutorTypeOK /\ [BridgeNext]_bridgeVars => ExecutorTypeOK'
  <2> SUFFICES ASSUME ExecutorTypeOK, [BridgeNext]_bridgeVars
               PROVE  ExecutorTypeOK'
    OBVIOUS
  <2> USE DEF ExecutorTypeOK, Steps, GoTo
  <2>1. ASSUME NEW r \in Relayers, NEW t \in Transfers, Receive(r, t)
        PROVE  ExecutorTypeOK'
    BY <2>1 DEF Receive
  <2>2. ASSUME NEW r \in Relayers, NEW t \in txn[r], ReadConfig(r, t)
        PROVE  ExecutorTypeOK'
    BY <2>2 DEF ReadConfig, Finish
  <2>3. ASSUME NEW r \in Relayers, NEW t \in txn[r], Submit(r, t)
        PROVE  ExecutorTypeOK'
    BY <2>3 DEF Submit, Finish
  <2>4. ASSUME NEW r \in Relayers, NEW t \in txn[r], SubmitFails(r, t)
        PROVE  ExecutorTypeOK'
    BY <2>4, DisruptionsAssumption DEF SubmitFails, Disrupt
  <2>5. ASSUME NEW r \in Relayers, NEW t \in Transfers, Redeliver(r, t)
        PROVE  ExecutorTypeOK'
    BY <2>5, DisruptionsAssumption DEF Redeliver, Disrupt
  <2>6. ASSUME NEW r \in Relayers, Restart(r)
        PROVE  ExecutorTypeOK'
    BY <2>6, DisruptionsAssumption DEF Restart, Disrupt
  <2>7. ASSUME NEW r \in Relayers, Stop(r)
        PROVE  ExecutorTypeOK'
    BY <2>7, DisruptionsAssumption DEF Stop, Disrupt
  <2>8. CASE UNCHANGED executorVars
    BY <2>8 DEF executorVars
  <2> QED
    BY <2>1, <2>2, <2>3, <2>4, <2>5, <2>6, <2>7, <2>8
    DEF BridgeNext, Executor, Disruption, bridgeVars
<1> QED BY <1>1, <1>2, PTL DEF BridgeSpec

\* An executor or a disruption calls threshold_bank_send for a transfer on
\* behalf of its relayer, or leaves the contract alone.
LEMMA RelayerStep ==
    ASSUME NEW r \in Relayers, txn[r] \subseteq Transfers,
           Executor(r) \/ Disruption(r)
    PROVE  \/ UNCHANGED vars
           \/ \E t \in Transfers :
                 threshold_bank_send(r, t.id, t.amount, t.recipient)
<1>1. CASE Executor(r)
  BY <1>1 DEF Executor, Receive, ReadConfig, Submit
<1>2. CASE Disruption(r)
  BY <1>2 DEF Disruption, SubmitFails, Redeliver, Restart, Stop
<1> QED BY <1>1, <1>2

\* A relayer's call is one the contract's specification allows.
LEMMA TransferIsEvidence ==
    ASSUME NEW r \in Relayers, NEW t \in Transfers,
           threshold_bank_send(r, t.id, t.amount, t.recipient)
    PROVE  Evidence
<1>1. r \in Addrs /\ t \in Claims
  BY RelayerAssumption, TransferAssumption
<1> QED BY <1>1 DEF Evidence

\* The bridge implements the contract's specification: no retry, repetition,
\* restart or race of the executors makes the contract do anything but the
\* steps its own theorems are about.
THEOREM BridgeImplementsContract == BridgeSpec => Spec
<1>1. BridgeInit => Init
  BY DEF BridgeInit
<1>2. ExecutorTypeOK /\ [BridgeNext]_bridgeVars => [Next]_vars
  <2> SUFFICES ASSUME ExecutorTypeOK, [BridgeNext]_bridgeVars PROVE [Next]_vars
    OBVIOUS
  <2>1. ASSUME NEW r \in Relayers, Executor(r) \/ Disruption(r)
        PROVE  [Next]_vars
    <3>1. txn[r] \subseteq Transfers
      BY DEF ExecutorTypeOK
    <3> QED BY <2>1, <3>1, RelayerStep, TransferIsEvidence DEF Next
  <2>2. CASE Others
    BY <2>2 DEF Others, Next
  <2>3. CASE UNCHANGED bridgeVars
    BY <2>3 DEF bridgeVars
  <2> QED BY <2>1, <2>2, <2>3 DEF BridgeNext
<1> QED BY <1>1, <1>2, ExecutorTypeInvariant, PTL DEF BridgeSpec, Spec

\* The state of the bridge is always well formed.
THEOREM BridgeTypeCorrect == BridgeSpec => []BridgeTypeOK
BY BridgeImplementsContract, TypeCorrect, ExecutorTypeInvariant, PTL
DEF BridgeTypeOK

-----------------------------------------------------------------------------
(* One bank send per hash *)

\* What a call with the evidence id e can add to the maps and the history.
LEMMA EvidenceAddsOnly ==
    ASSUME TypeOK, NEW t \in Transfers, NEW r \in Relayers,
           threshold_bank_send(r, t.id, t.amount, t.recipient)
    PROVE  /\ DOMAIN pending' \subseteq DOMAIN pending \cup {EvidenceOf(t)}
           /\ \/ payouts' = payouts
              \/ \E p : p.evidence = EvidenceOf(t) /\ payouts' = Append(payouts, p)
<1> DEFINE e == EvidenceOf(t)
           tx == WithProvider(r, t.amount, t.recipient, e)
<1>1. \/ send_bank_transaction(tx, normalize_id(t.id), e, "contract")
      \/ pending' = Save(pending, e, tx) /\ UNCHANGED payouts
  BY DEF threshold_bank_send, EvidenceOf
<1> HIDE DEF e, tx
<1>2. CASE send_bank_transaction(tx, normalize_id(t.id), e, "contract")
  <2>1. pending' = Remove(pending, e)
    BY <1>2 DEF send_bank_transaction
  <2>2. DOMAIN pending' \subseteq DOMAIN pending
    BY <2>1 DEF Remove, Restrict
  <2>3. payouts' = Append(payouts, [evidence |-> e, tx |-> tx, from |-> "contract"])
    BY <1>2 DEF send_bank_transaction
  <2>4. [evidence |-> e, tx |-> tx, from |-> "contract"].evidence = e
    OBVIOUS
  <2> QED BY <2>2, <2>3, <2>4 DEF e
<1>3. CASE pending' = Save(pending, e, tx) /\ UNCHANGED payouts
  BY <1>3 DEF Save, e
<1> QED BY <1>1, <1>2, <1>3

\* execute_pending pays an entry that was pending.
LEMMA ExecuteAddsOnly ==
    ASSUME TypeOK, NEW e \in DOMAIN pending, NEW funds, execute_pending(e, funds)
    PROVE  /\ DOMAIN pending' \subseteq DOMAIN pending
           /\ \E p : p.evidence = e /\ payouts' = Append(payouts, p)
<1>1. send_bank_transaction(pending[e], extract_id_from_evidence_id(e), e, "caller")
  BY DEF execute_pending
<1>2. pending' = Remove(pending, e)
  BY <1>1 DEF send_bank_transaction
<1>3. payouts' = Append(payouts, [evidence |-> e, tx |-> pending[e], from |-> "caller"])
  BY <1>1 DEF send_bank_transaction
<1>4. [evidence |-> e, tx |-> pending[e], from |-> "caller"].evidence = e
  OBVIOUS
<1>5. DOMAIN pending' \subseteq DOMAIN pending
  BY <1>2 DEF Remove, Restrict
<1> QED BY <1>3, <1>4, <1>5

\* A payout of known evidence keeps the history known.
LEMMA AppendKnown ==
    ASSUME payouts \in Seq(Payout), OnlyKnownEvidence,
           NEW p, payouts' = Append(payouts, p),
           NEW t \in Transfers, p.evidence = EvidenceOf(t)
    PROVE  \A i \in DOMAIN payouts' :
              \E u \in Transfers : payouts'[i].evidence = EvidenceOf(u)
<1>1. /\ DOMAIN payouts' = 1 .. Len(payouts) + 1
      /\ DOMAIN payouts = 1 .. Len(payouts)
      /\ Len(payouts) \in Nat
      /\ \A i \in 1 .. Len(payouts) : payouts'[i] = payouts[i]
      /\ payouts'[Len(payouts) + 1] = p
  OBVIOUS
<1>2. ASSUME NEW i \in 1 .. Len(payouts)
      PROVE  \E u \in Transfers : payouts'[i].evidence = EvidenceOf(u)
  BY <1>1 DEF OnlyKnownEvidence
<1>3. \A i \in DOMAIN payouts' : i \in 1 .. Len(payouts) \/ i = Len(payouts) + 1
  BY <1>1
<1> QED BY <1>1, <1>2, <1>3

\* The contract never holds evidence of anything but the transfers.
THEOREM EvidenceIsKnown == BridgeSpec => []OnlyKnownEvidence
<1>1. BridgeInit => OnlyKnownEvidence
  BY DEF BridgeInit, Init, instantiate, migrate_legacy, NoActivity,
         OnlyKnownEvidence
<1>2. BridgeTypeOK /\ OnlyKnownEvidence /\ [BridgeNext]_bridgeVars
         => OnlyKnownEvidence'
  <2> SUFFICES ASSUME BridgeTypeOK, OnlyKnownEvidence, [BridgeNext]_bridgeVars
               PROVE  OnlyKnownEvidence'
    OBVIOUS
  <2>0. TypeOK /\ ExecutorTypeOK /\ payouts \in Seq(Payout)
    BY DEF BridgeTypeOK, TypeOK
  <2>1. CASE UNCHANGED <<pending, payouts>>
    BY <2>1 DEF OnlyKnownEvidence, EvidenceOf
  <2>2. ASSUME NEW r \in Relayers, NEW t \in Transfers,
               threshold_bank_send(r, t.id, t.amount, t.recipient)
        PROVE  OnlyKnownEvidence'
    <3>1. \A e \in DOMAIN pending' : \E u \in Transfers : e = EvidenceOf(u)
      BY <2>0, <2>2, EvidenceAddsOnly DEF OnlyKnownEvidence
    <3>2. \A i \in DOMAIN payouts' :
             \E u \in Transfers : payouts'[i].evidence = EvidenceOf(u)
      BY <2>0, <2>2, EvidenceAddsOnly, AppendKnown DEF OnlyKnownEvidence
    <3> QED BY <3>1, <3>2 DEF OnlyKnownEvidence, EvidenceOf
  <2>3. ASSUME NEW e \in DOMAIN pending, NEW funds, execute_pending(e, funds)
        PROVE  OnlyKnownEvidence'
    <3>1. PICK t \in Transfers : e = EvidenceOf(t)
      BY DEF OnlyKnownEvidence
    <3>2. \A x \in DOMAIN pending' : \E u \in Transfers : x = EvidenceOf(u)
      BY <2>0, <2>3, ExecuteAddsOnly DEF OnlyKnownEvidence
    <3>3. \A i \in DOMAIN payouts' :
             \E u \in Transfers : payouts'[i].evidence = EvidenceOf(u)
      BY <2>0, <2>3, <3>1, ExecuteAddsOnly, AppendKnown
    <3> QED BY <3>2, <3>3 DEF OnlyKnownEvidence, EvidenceOf
  <2>4. ASSUME NEW r \in Relayers, Executor(r) \/ Disruption(r)
        PROVE  OnlyKnownEvidence'
    <3>1. txn[r] \subseteq Transfers
      BY <2>0 DEF ExecutorTypeOK
    <3> QED BY <2>1, <2>2, <2>4, <3>1, RelayerStep DEF vars
  <2>5. CASE Execute
    BY <2>3, <2>5 DEF Execute
  <2>6. CASE Administer
    <3>1. UNCHANGED <<pending, payouts>>
      BY <2>0, <2>6, AdministerSaves DEF SaveConfig
    <3> QED BY <2>1, <3>1
  <2>7. CASE \E denom \in Denoms, amount \in Amounts : Deposit(denom, amount)
    BY <2>1, <2>7 DEF Deposit
  <2>8. CASE UNCHANGED bridgeVars
    BY <2>1, <2>8 DEF bridgeVars, vars
  <2> QED BY <2>4, <2>5, <2>6, <2>7, <2>8 DEF BridgeNext, Others
<1> QED BY <1>1, <1>2, BridgeTypeCorrect, PTL DEF BridgeSpec

\* Relayers that agree on what a hash stands for keep the promise which the
\* contract alone does not: an XRPL transaction is paid at most once, by
\* threshold_bank_send or by execute_pending, for any number of relayers,
\* transfers, restarts, repetitions and configuration changes.
THEOREM OneBankSendPerTransfer == BridgeSpec => []OneBankSendPerId
<1>1. OnlyKnownEvidence /\ EvidencePaidOnce => OneBankSendPerId
  <2> SUFFICES ASSUME OnlyKnownEvidence, EvidencePaidOnce,
                      NEW i \in DOMAIN payouts, NEW j \in DOMAIN payouts,
                      payouts[i].evidence.id = payouts[j].evidence.id
               PROVE  i = j
    BY DEF OneBankSendPerId
  <2>1. PICK t \in Transfers : payouts[i].evidence = EvidenceOf(t)
    BY DEF OnlyKnownEvidence
  <2>2. PICK u \in Transfers : payouts[j].evidence = EvidenceOf(u)
    BY DEF OnlyKnownEvidence
  <2>3. EvidenceOf(t).id = Lower[t.id] /\ EvidenceOf(u).id = Lower[u.id]
    BY DEF EvidenceOf, build_evidence_id, normalize_id
  <2>4. t = u
    BY <2>1, <2>2, <2>3, TransferAssumption
  <2> QED BY <2>1, <2>2, <2>4 DEF EvidencePaidOnce
<1> QED
  BY <1>1, EvidenceIsKnown, BridgeImplementsContract, NoEvidencePaidTwice, PTL

-----------------------------------------------------------------------------
(* Executors do not lose transfers *)

\* Neither accepted evidence nor the mark of a sent id is ever taken back.
LEMMA RecordsGrow ==
    ASSUME TypeOK, [Next]_vars
    PROVE  attested \subseteq attested' /\ DOMAIN sent \subseteq DOMAIN sent'
<1>1. ASSUME NEW tx, NEW id, NEW e, NEW from,
             send_bank_transaction(tx, id, e, from)
      PROVE  DOMAIN sent \subseteq DOMAIN sent'
  BY <1>1 DEF send_bank_transaction, Save
<1>2. ASSUME NEW sender, NEW id, NEW amount, NEW recipient,
             threshold_bank_send(sender, id, amount, recipient)
      PROVE  attested \subseteq attested' /\ DOMAIN sent \subseteq DOMAIN sent'
  <2>1. attested \subseteq attested'
    BY <1>2 DEF threshold_bank_send
  <2>2. \/ sent' = sent
        \/ \E tx, i, e : send_bank_transaction(tx, i, e, "contract")
    BY <1>2 DEF threshold_bank_send
  <2> QED BY <1>1, <2>1, <2>2
<1>3. ASSUME NEW e, NEW funds, execute_pending(e, funds)
      PROVE  attested \subseteq attested' /\ DOMAIN sent \subseteq DOMAIN sent'
  <2>1. \E tx, i : send_bank_transaction(tx, i, e, "caller")
    BY <1>3 DEF execute_pending
  <2> QED BY <1>1, <1>3, <2>1 DEF execute_pending
<1>4. CASE Administer
  BY <1>4, AdministerSaves DEF SaveConfig
<1>5. CASE \E denom \in Denoms, amount \in Amounts : Deposit(denom, amount)
  BY <1>5 DEF Deposit
<1> QED BY <1>2, <1>3, <1>4, <1>5 DEF Next, Evidence, Execute, vars

\* Executor r needs not come back to transfer t.
LEMMA FinishedIsAttested ==
    ASSUME TypeOK, QuorumInv, NEW r \in Relayers, NEW t \in Transfers,
           \/ threshold_bank_send(r, t.id, t.amount, t.recipient)
           \/ NotNeeded(r, t) /\ UNCHANGED vars
    PROVE  \/ <<r, EvidenceOf(t)>> \in attested'
           \/ normalize_id(t.id) \in DOMAIN sent'
<1>1. CASE threshold_bank_send(r, t.id, t.amount, t.recipient)
  BY <1>1 DEF threshold_bank_send, EvidenceOf
<1>2. CASE NotNeeded(r, t) /\ UNCHANGED vars
  <2>1. CASE TransferAlreadySent(normalize_id(t.id))
    BY <1>2, <2>1 DEF TransferAlreadySent, vars
  <2>2. CASE EvidenceAlreadyProvided(r, EvidenceOf(t))
    BY <1>2, <2>2
    DEF EvidenceAlreadyProvided, QuorumInv, PendingSound, Attested, vars
  <2> QED BY <1>2, <2>1, <2>2 DEF NotNeeded
<1> QED BY <1>1, <1>2

\* No transfer is dropped between the executor's retries and the contract: one
\* that an executor is done with, and did not skip, is counted or sent.
THEOREM HandledTransfersAttested == BridgeSpec => []HandledIsAttested
<1> DEFINE Done(r, t) == \/ <<r, EvidenceOf(t)>> \in attested
                         \/ normalize_id(t.id) \in DOMAIN sent
<1>1. BridgeInit => HandledIsAttested
  BY DEF BridgeInit, HandledIsAttested
<1>2. /\ BridgeTypeOK /\ QuorumInv /\ HandledIsAttested
      /\ [Next]_vars /\ [BridgeNext]_bridgeVars
      => HandledIsAttested'
  <2> SUFFICES ASSUME BridgeTypeOK, QuorumInv, HandledIsAttested, [Next]_vars,
                      [BridgeNext]_bridgeVars
               PROVE  HandledIsAttested'
    OBVIOUS
  <2>0. TypeOK /\ ExecutorTypeOK
    BY DEF BridgeTypeOK
  <2>1. \A r \in Relayers : \A t \in handled[r] \ skipped[r] : Done(r, t)'
    BY <2>0, RecordsGrow DEF HandledIsAttested, TransferAlreadySent, EvidenceOf
  <2>2. SUFFICES ASSUME NEW r \in Relayers,
                        NEW t \in handled'[r] \ skipped'[r],
                        t \notin handled[r] \ skipped[r]
                 PROVE  Done(r, t)'
    BY <2>1, <2>2 DEF HandledIsAttested, TransferAlreadySent, EvidenceOf
  <2>3. PICK s \in Relayers :
           \/ \E u \in txn[s] : ReadConfig(s, u) \/ Submit(s, u)
           \/ \E u \in Transfers : Redeliver(s, u)
           \/ Restart(s)
    BY <2>0, <2>2
    DEF BridgeNext, Executor, Disruption, Receive, SubmitFails, Stop,
        executorVars, bridgeVars
  <2>4. \A u \in Transfers : ~Redeliver(s, u)
    BY <2>0, <2>2 DEF Redeliver, ExecutorTypeOK
  <2>5. ~Restart(s)
    BY <2>0, <2>2 DEF Restart, ExecutorTypeOK
  <2>6. \A u \in txn[s] : ~ReadConfig(s, u)
    BY <2>0, <2>2 DEF ReadConfig, Finish, ExecutorTypeOK
  <2>7. PICK u \in txn[s] : Submit(s, u)
    BY <2>3, <2>4, <2>5, <2>6
  <2>8. /\ s = r /\ u = t
        /\ \/ threshold_bank_send(s, u.id, u.amount, u.recipient)
           \/ NotNeeded(s, u) /\ UNCHANGED vars
    BY <2>0, <2>2, <2>7 DEF Submit, Finish, ExecutorTypeOK
  <2>9. t \in Transfers
    BY <2>0, <2>8 DEF ExecutorTypeOK
  <2> QED BY <2>0, <2>8, <2>9, FinishedIsAttested DEF EvidenceOf
<1> QED
  BY <1>1, <1>2, BridgeTypeCorrect, BridgeImplementsContract, QuorumInvariant,
     PTL DEF BridgeSpec, Spec

-----------------------------------------------------------------------------
(* The bridge pays by quorum *)

\* Only relayers submit evidence, and only they are counted.
AttestedByRelayers == \A v \in attested : v[1] \in Relayers

\* The transfers that were paid have the votes of a quorum.
PaidHaveQuorum ==
    \A t \in PaidTransfers : Cardinality(VotesFor(t)) >= config.threshold

\* A hash stands for one transfer, so evidence ids tell transfers apart.
LEMMA EvidenceNamesTransfer ==
    ASSUME NEW t \in Transfers, NEW u \in Transfers,
           EvidenceOf(t) = EvidenceOf(u)
    PROVE  t = u
<1>1. EvidenceOf(t).id = Lower[t.id] /\ EvidenceOf(u).id = Lower[u.id]
  BY DEF EvidenceOf, build_evidence_id, normalize_id
<1> QED BY <1>1, TransferAssumption

\* The accounts of a list without duplicates are as many as the list is long.
LEMMA CountProviders ==
    ASSUME NEW S, IsFiniteSet(S), NEW s \in Seq(S), IsInjective(s),
           NEW T \in SUBSET S, Range(s) \subseteq T
    PROVE  Len(s) <= Cardinality(T)
<1>1. /\ Len(s) \in Nat
      /\ DOMAIN s = 1 .. Len(s)
  OBVIOUS
<1>2. s \in Injection(1 .. Len(s), T)
  <2>1. s \in [1 .. Len(s) -> T]
    BY <1>1 DEF Range
  <2>2. \A a, b \in 1 .. Len(s) : s[a] = s[b] => a = b
    BY <1>1 DEF IsInjective
  <2> QED BY <2>1, <2>2 DEF Injection, IsInjective
<1>3. IsFiniteSet(T)
  BY FS_Subset
<1>4. Cardinality(1 .. Len(s)) <= Cardinality(T)
  BY <1>2, <1>3, FS_Injection
<1>5. Cardinality(1 .. Len(s)) = Len(s)
  BY <1>1, FS_Interval
<1> QED BY <1>4, <1>5

\* A transfer that was paid has the votes of a quorum.
LEMMA PaidHasVotes ==
    TypeOK /\ PaidOnQuorum /\ AttestedByRelayers => PaidHaveQuorum
<1> SUFFICES ASSUME TypeOK, PaidOnQuorum, AttestedByRelayers,
                    NEW t \in PaidTransfers
             PROVE  Cardinality(VotesFor(t)) >= config.threshold
  BY DEF PaidHaveQuorum
<1>1. PICK i \in DOMAIN payouts : payouts[i].evidence = EvidenceOf(t)
  BY DEF PaidTransfers
<1> DEFINE s == payouts[i].tx.evidence_providers
<1>2. s \in Seq(Addrs)
  <2>1. payouts[i] \in Payout
    BY <1>1 DEF TypeOK
  <2> QED BY <2>1 DEF Payout, Transaction
<1>3. /\ Len(s) >= config.threshold
      /\ IsInjective(s)
      /\ \A a \in Range(s) : <<a, EvidenceOf(t)>> \in attested
  BY <1>1 DEF PaidOnQuorum, Attested
<1>4. Range(s) \subseteq VotesFor(t)
  BY <1>3 DEF VotesFor, AttestedByRelayers
<1>5. VotesFor(t) \in SUBSET Addrs
  BY RelayerAssumption DEF VotesFor
<1> HIDE DEF s
<1>6. Len(s) <= Cardinality(VotesFor(t))
  BY <1>2, <1>3, <1>4, <1>5, AccountAssumption, CountProviders
<1>7. /\ Len(s) \in Nat /\ config.threshold \in Nat
      /\ Cardinality(VotesFor(t)) \in Nat
  BY <1>2, <1>5, AccountAssumption, FS_Subset, FS_CardinalityType
  DEF TypeOK, ContractConfig
<1> QED BY <1>3, <1>6, <1>7

\* A payout under the evidence id of t makes t paid, and nothing else.
LEMMA PayoutAddsTransfer ==
    ASSUME payouts \in Seq(Payout), NEW t \in Transfers,
           NEW p, p.evidence = EvidenceOf(t), payouts' = Append(payouts, p)
    PROVE  PaidTransfers' = PaidTransfers \cup {t}
<1>1. /\ DOMAIN payouts = 1 .. Len(payouts)
      /\ Len(payouts) \in Nat
      /\ DOMAIN payouts' = 1 .. Len(payouts) + 1
      /\ \A i \in 1 .. Len(payouts) : payouts'[i] = payouts[i]
      /\ payouts'[Len(payouts) + 1] = p
  OBVIOUS
<1>2. /\ \A i \in DOMAIN payouts' : i \in DOMAIN payouts \/ i = Len(payouts) + 1
      /\ \A i \in DOMAIN payouts : i \in DOMAIN payouts'
      /\ Len(payouts) + 1 \in DOMAIN payouts'
  BY <1>1
<1>3. \A u \in Transfers :
         (\E i \in DOMAIN payouts' : payouts'[i].evidence = EvidenceOf(u))
         <=> \/ \E i \in DOMAIN payouts : payouts[i].evidence = EvidenceOf(u)
             \/ u = t
  BY <1>1, <1>2, EvidenceNamesTransfer
<1> QED BY <1>3 DEF PaidTransfers, EvidenceOf

\* Evidence of t that the contract accepts is a vote of a relayer that had not
\* voted, for a transfer that was not paid, and may pay it.
LEMMA EvidenceIsVote ==
    ASSUME TypeOK, QuorumInv, PaidHaveQuorum',
           NEW r \in Relayers, NEW t \in Transfers,
           threshold_bank_send(r, t.id, t.amount, t.recipient)
    PROVE  /\ t \notin PaidTransfers
           /\ Payment!Vote(r, t) \/ Payment!VoteAndPay(r, t)
<1> DEFINE e == EvidenceOf(t)
<1>1. /\ r \in Addrs /\ t.id \in Ids /\ t.amount \in Coin
      /\ t.recipient \in Recipients
  BY RelayerAssumption, TransferAssumption, ClaimAssumption
<1>2. /\ e.id = normalize_id(t.id)
      /\ e.id \notin DOMAIN sent
      /\ ~EvidenceAlreadyProvided(r, e)
      /\ attested' = attested \cup {<<r, e>>}
      /\ config' = config
  BY <1>1, EvidenceIdType
  DEF threshold_bank_send, TransferAlreadySent, EvidenceOf
<1>3. \A i \in DOMAIN payouts : payouts[i].evidence # e
  BY <1>2 DEF QuorumInv, PaidIsClosed, extract_id_from_evidence_id
<1>4. t \notin PaidTransfers
  BY <1>3 DEF PaidTransfers
<1>5. r \notin VotesFor(t)
  BY <1>2, <1>3 DEF VotesFor, QuorumInv, AttestationsKept
<1>6. \A u \in Transfers :
         VotesFor(u)' = IF u = t THEN VotesFor(t) \cup {r} ELSE VotesFor(u)
  BY <1>2, EvidenceNamesTransfer DEF VotesFor, EvidenceOf
<1>7. Payment!Count(r, t)
  BY <1>2, <1>5, <1>6 DEF Payment!Count
<1>8. CASE payouts' = payouts
  <2>1. PaidTransfers' = PaidTransfers
    BY <1>8 DEF PaidTransfers, EvidenceOf
  <2> QED BY <1>4, <1>7, <2>1 DEF Payment!Vote
<1>9. CASE \E p : p.evidence = e /\ payouts' = Append(payouts, p)
  <2>1. PaidTransfers' = PaidTransfers \cup {t}
    BY <1>9, PayoutAddsTransfer DEF TypeOK
  <2>2. Cardinality(VotesFor(t)') >= config'.threshold
    BY <2>1 DEF PaidHaveQuorum
  <2>3. [u \in Transfers |-> VotesFor(u)]'[t] = VotesFor(t)'
    OBVIOUS
  <2> QED BY <1>2, <1>4, <1>7, <2>1, <2>2, <2>3
         DEF Payment!VoteAndPay, Payment!Cardinality, Cardinality
<1> QED BY <1>8, <1>9, EvidenceAddsOnly

\* A pending transfer that execute_pending pays had its votes already.
LEMMA ExecuteIsPay ==
    ASSUME TypeOK, QuorumInv, OnlyKnownEvidence, PaidHaveQuorum',
           NEW e \in DOMAIN pending, NEW funds, execute_pending(e, funds)
    PROVE  \E t \in Transfers : t \notin PaidTransfers /\ Payment!Pay(t)
<1>1. PICK t \in Transfers : e = EvidenceOf(t)
  BY DEF OnlyKnownEvidence
<1>2. t \notin PaidTransfers
  BY <1>1 DEF PaidTransfers, QuorumInv, PaidIsClosed
<1>3. PaidTransfers' = PaidTransfers \cup {t}
  BY <1>1, ExecuteAddsOnly, PayoutAddsTransfer DEF TypeOK
<1>4. config' = config /\ attested' = attested
  BY DEF execute_pending
<1>5. \A u \in Transfers : VotesFor(u)' = VotesFor(u)
  BY <1>4 DEF VotesFor, EvidenceOf
<1>6. Cardinality(VotesFor(t)) >= config.threshold
  BY <1>3, <1>4, <1>5 DEF PaidHaveQuorum
<1>7. Payment!Pay(t)
  BY <1>3, <1>4, <1>5, <1>6
  DEF Payment!Pay, Payment!Cardinality, Cardinality
<1> QED BY <1>2, <1>7

\* Only relayers are ever counted.
LEMMA OnlyRelayersCounted == BridgeSpec => []AttestedByRelayers
<1>1. BridgeInit => AttestedByRelayers
  BY DEF BridgeInit, Init, instantiate, migrate_legacy, NoActivity,
         AttestedByRelayers
<1>2. BridgeTypeOK /\ AttestedByRelayers /\ [BridgeNext]_bridgeVars
         => AttestedByRelayers'
  <2> SUFFICES ASSUME BridgeTypeOK, AttestedByRelayers, [BridgeNext]_bridgeVars
               PROVE  AttestedByRelayers'
    OBVIOUS
  <2>0. TypeOK /\ ExecutorTypeOK
    BY DEF BridgeTypeOK
  <2>1. CASE UNCHANGED attested
    BY <2>1 DEF AttestedByRelayers
  <2>2. ASSUME NEW r \in Relayers, Executor(r) \/ Disruption(r)
        PROVE  AttestedByRelayers'
    <3>1. txn[r] \subseteq Transfers
      BY <2>0 DEF ExecutorTypeOK
    <3>2. \/ UNCHANGED attested
          \/ \E e : attested' = attested \cup {<<r, e>>}
      BY <2>2, <3>1, RelayerStep DEF vars, threshold_bank_send
    <3> QED BY <2>1, <3>2 DEF AttestedByRelayers
  <2>3. CASE Others
    BY <2>0, <2>1, <2>3, AdministerSaves
    DEF Others, Execute, execute_pending, SaveConfig, Deposit
  <2> QED BY <2>1, <2>2, <2>3 DEF BridgeNext, bridgeVars, vars
<1> QED BY <1>1, <1>2, BridgeTypeCorrect, PTL DEF BridgeSpec

\* Quorum payment, the promise of the bridge in one small specification, is
\* implemented by the contract, its configuration calls, execute_pending and
\* any number of relayers that retry, repeat, restart and stop.
THEOREM BridgePaysByQuorum == BridgeSpec => PaysByQuorum
<1>1. BridgeInit /\ TypeOK => Payment!PaymentInit
  BY DEF BridgeInit, Init, instantiate, migrate_legacy, NoActivity, TypeOK,
         ContractConfig, Payment!PaymentInit, VotesFor, PaidTransfers
<1>2. /\ BridgeTypeOK /\ QuorumInv /\ OnlyKnownEvidence /\ PaidHaveQuorum'
      /\ [BridgeNext]_bridgeVars
      => [Payment!PaymentNext]_(Payment!paymentVars)
  <2> SUFFICES ASSUME BridgeTypeOK, QuorumInv, OnlyKnownEvidence,
                      PaidHaveQuorum', [BridgeNext]_bridgeVars
               PROVE  [Payment!PaymentNext]_(Payment!paymentVars)
    OBVIOUS
  <2>0. TypeOK /\ ExecutorTypeOK
    BY DEF BridgeTypeOK
  <2>1. ASSUME config'.threshold = config.threshold,
               UNCHANGED <<attested, payouts>>
        PROVE  UNCHANGED Payment!paymentVars
    BY <2>1 DEF Payment!paymentVars, VotesFor, PaidTransfers, EvidenceOf
  <2>2. ASSUME NEW r \in Relayers, Executor(r) \/ Disruption(r)
        PROVE  [Payment!PaymentNext]_(Payment!paymentVars)
    <3>1. txn[r] \subseteq Transfers
      BY <2>0 DEF ExecutorTypeOK
    <3>2. CASE UNCHANGED vars
      BY <2>1, <3>2 DEF vars
    <3>3. ASSUME NEW t \in Transfers,
                 threshold_bank_send(r, t.id, t.amount, t.recipient)
          PROVE  Payment!PaymentNext
      BY <2>0, <3>3, EvidenceIsVote DEF Payment!PaymentNext
    <3> QED BY <2>2, <3>1, <3>2, <3>3, RelayerStep
  <2>3. CASE Execute
    BY <2>0, <2>3, ExecuteIsPay DEF Execute, Payment!PaymentNext
  <2>4. CASE Administer
    <3>1. PICK new \in ContractConfig :
             SaveConfig(new) /\ new.threshold = config.threshold
      BY <2>0, <2>4, AdministerSaves
    <3>2. config'.threshold = config.threshold /\ UNCHANGED <<attested, payouts>>
      BY <3>1 DEF SaveConfig, ContractConfig
    <3> QED BY <2>1, <3>2
  <2>5. CASE \E denom \in Denoms, amount \in Amounts : Deposit(denom, amount)
    BY <2>1, <2>5 DEF Deposit
  <2>6. CASE UNCHANGED bridgeVars
    BY <2>1, <2>6 DEF bridgeVars, vars
  <2> QED BY <2>2, <2>3, <2>4, <2>5, <2>6 DEF BridgeNext, Others
<1>3. TypeOK /\ QuorumInv /\ AttestedByRelayers => PaidHaveQuorum
  BY PaidHasVotes DEF QuorumInv
<1> QED
  BY <1>1, <1>2, <1>3, BridgeTypeCorrect, EvidenceIsKnown, OnlyRelayersCounted,
     BridgeImplementsContract, QuorumInvariant, PTL
  DEF BridgeSpec, BridgeTypeOK, PaysByQuorum, Payment!PaymentSpec

=============================================================================
