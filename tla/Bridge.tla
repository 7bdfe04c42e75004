------------------------------- MODULE Bridge -------------------------------
(***************************************************************************)
(* The bridge: the contract and the executors of the relayers that submit  *)
(* evidence to it (relayer/executor/executor.go).                          *)
(*                                                                         *)
(* Each relayer's finders turn the XRPL transactions its scanner delivers  *)
(* into transfers.  Transactions are delivered at least once (see          *)
(* XRPLScanner): read again within a process, and all of them again after  *)
(* a restart, which forgets what was handled.  The executor takes one      *)
(* transfer at a time and repeats "read the configuration, then submit"    *)
(* until the contract accepted the evidence or says that it needs none.    *)
(*                                                                         *)
(* What finders make of a transaction is a function of the transaction and *)
(* of its registered token, so all relayers have the same Transfers.       *)
(* Relayers submit evidence only through their executors.                  *)
(***************************************************************************)
EXTENDS BridgeContract

CONSTANTS
    Relayers,       \* the accounts the relayer processes sign with
    Transfers,      \* the transfers that wait on the XRP Ledger
    MaxDisruptions  \* bound: stops, restarts, repetitions, failing calls

ASSUME RelayerAssumption == Relayers \subseteq Addrs

\* PendingTXSendTransaction: a hash names one transfer.
ASSUME TransferAssumption ==
    /\ Transfers \subseteq Claims
    /\ \A t, u \in Transfers : Lower[t.id] = Lower[u.id] => t = u

ASSUME DisruptionsAssumption == MaxDisruptions \in Nat

VARIABLES
    step,           \* per relayer: where its executor goroutine is
    txn,            \* per relayer: the transfer it took last, as a set
    handled,        \* per relayer: transfers it finished with since it started
    skipped,        \* per relayer: those it finished with for their low amount
    stopped,        \* the relayers that do not run any more
    disruptions     \* stops, restarts, repetitions and failing calls so far

executorVars == <<step, txn, handled, skipped, stopped, disruptions>>
bridgeVars == <<vars, executorVars>>

Steps == {"receive", "read_config", "submit"}

BridgeInit ==
    /\ Init
    /\ step = [r \in Relayers |-> "receive"]
    /\ txn = [r \in Relayers |-> {}]
    /\ handled = [r \in Relayers |-> {}]
    /\ skipped = [r \in Relayers |-> {}]
    /\ stopped = {}
    /\ disruptions = 0

-----------------------------------------------------------------------------
(* The executor *)

GoTo(r, s) == step' = [step EXCEPT ![r] = s]

\* retry.Do returns nil: the executor is done with the transfer.
Finish(r, t) ==
    /\ GoTo(r, "receive")
    /\ txn' = [txn EXCEPT ![r] = {}]
    /\ handled' = [handled EXCEPT ![r] = @ \cup {t}]

\* The executor receives a transfer from a finder.
Receive(r, t) ==
    /\ step[r] = "receive"
    /\ t \notin handled[r]
    /\ txn' = [txn EXCEPT ![r] = {t}]
    /\ GoTo(r, "read_config")
    /\ UNCHANGED <<vars, handled, skipped, stopped, disruptions>>

\* Mutant: an amount below the minimum is retried, until the minimum changes.
ReadConfigWaiting(r, t) ==
    /\ step[r] = "read_config"
    /\ ~LowAmount(t.amount)
    /\ GoTo(r, "submit")
    /\ UNCHANGED <<vars, txn, handled, skipped, stopped, disruptions>>

\* GetContractConfig; an amount below the minimum is not submitted.
ReadConfig(r, t) ==
    /\ step[r] = "read_config"
    /\ \/ /\ LowAmount(t.amount)
          /\ Finish(r, t)
          /\ skipped' = [skipped EXCEPT ![r] = @ \cup {t}]
       \/ /\ ~LowAmount(t.amount)
          /\ GoTo(r, "submit")
          /\ UNCHANGED <<txn, handled, skipped>>
    /\ UNCHANGED <<vars, stopped, disruptions>>

EvidenceOf(t) == build_evidence_id(normalize_id(t.id), t.amount, t.recipient)

\* Mutant: any error of the contract ends the retries.
NotNeededOnError(r, t) ==
    \/ Unauthorized(r)
    \/ LowAmount(t.amount)
    \/ TransferAlreadySent(normalize_id(t.id))
    \/ EvidenceAlreadyProvided(r, EvidenceOf(t))

\* The contract answers EvidenceAlreadyProvided or TransferAlreadySent, which
\* it does only after it checked the sender and the amount.
NotNeeded(r, t) ==
    /\ ~Unauthorized(r)
    /\ ~LowAmount(t.amount)
    /\ \/ TransferAlreadySent(normalize_id(t.id))
       \/ EvidenceAlreadyProvided(r, EvidenceOf(t))

\* The call fails because the bank cannot execute its message.
SendFails(r, t) ==
    LET tx == WithProvider(r, t.amount, t.recipient, EvidenceOf(t))
    IN  /\ ReachesThreshold(tx, t.amount)
        /\ ~CanSend(tx, balance[tx.amount.denom])

\* Mutant: the request's amount and recipient are those of another transfer.
SubmitMixed(r, t) ==
    /\ step[r] = "submit"
    /\ \E u \in Transfers : threshold_bank_send(r, t.id, u.amount, u.recipient)
    /\ Finish(r, t)
    /\ UNCHANGED <<skipped, stopped, disruptions>>

\* ThresholdBankSend returns: the evidence is accepted or not needed, or the
\* call failed and is repeated.
Submit(r, t) ==
    /\ step[r] = "submit"
    /\ \/ /\ threshold_bank_send(r, t.id, t.amount, t.recipient)
          /\ Finish(r, t)
       \/ /\ NotNeeded(r, t)
          /\ Finish(r, t)
          /\ UNCHANGED vars
       \/ /\ ~NotNeeded(r, t)
          /\ Unauthorized(r) \/ LowAmount(t.amount) \/ SendFails(r, t)
          /\ GoTo(r, "read_config")
          /\ UNCHANGED <<vars, txn, handled>>
    /\ UNCHANGED <<skipped, stopped, disruptions>>

Disrupt ==
    /\ disruptions < MaxDisruptions
    /\ disruptions' = disruptions + 1

\* The broadcast fails; the chain may have executed the call all the same.
SubmitFails(r, t) ==
    /\ step[r] = "submit"
    /\ Disrupt
    /\ threshold_bank_send(r, t.id, t.amount, t.recipient) \/ UNCHANGED vars
    /\ GoTo(r, "read_config")
    /\ UNCHANGED <<txn, handled, skipped, stopped>>

\* The scanner reads a ledger again and its transactions are sent once more.
Redeliver(r, t) ==
    /\ t \in handled[r]
    /\ Disrupt
    /\ handled' = [handled EXCEPT ![r] = @ \ {t}]
    /\ skipped' = [skipped EXCEPT ![r] = @ \ {t}]
    /\ UNCHANGED <<vars, step, txn, stopped>>

\* The process stops, or its watcher saw a new configuration version: the
\* executor is abandoned where it is and the history is scanned again.
Restart(r) ==
    /\ Disrupt
    /\ GoTo(r, "receive")
    /\ txn' = [txn EXCEPT ![r] = {}]
    /\ handled' = [handled EXCEPT ![r] = {}]
    /\ skipped' = [skipped EXCEPT ![r] = {}]
    /\ UNCHANGED <<vars, stopped>>

\* RunExecutorWithAutoRestart returns, or the host goes down, for good.
Stop(r) ==
    /\ Disrupt
    /\ stopped' = stopped \cup {r}
    /\ UNCHANGED <<vars, step, txn, handled, skipped>>

-----------------------------------------------------------------------------

\* A step of the executor that does not depend on a failure.
Executor(r) ==
    \/ \E t \in Transfers : Receive(r, t)
    \/ \E t \in txn[r] : ReadConfig(r, t) \/ Submit(r, t)

Disruption(r) ==
    \/ \E t \in txn[r] : SubmitFails(r, t)
    \/ \E t \in Transfers : Redeliver(r, t)
    \/ Restart(r)
    \/ Stop(r)

\* Steps of the owner, the contract admin and anybody with coins.
Others ==
    \/ Execute
    \/ Administer
    \/ \E denom \in Denoms, amount \in Amounts : Deposit(denom, amount)

BridgeNext ==
    \/ \E r \in Relayers \ stopped : Executor(r) \/ Disruption(r)
    \/ Others /\ UNCHANGED executorVars

BridgeSpec == BridgeInit /\ [][BridgeNext]_bridgeVars

\* An executor that was not stopped keeps running, as it retries without end,
\* and the contract is refilled.  Nothing is assumed of the owner or of callers
\* of execute_pending.
BridgeFairness ==
    /\ \A r \in Relayers : WF_bridgeVars(r \notin stopped /\ Executor(r))
    /\ WF_bridgeVars(/\ \E denom \in Denoms, amount \in Amounts :
                           Deposit(denom, amount)
                     /\ UNCHANGED executorVars)

FairBridgeSpec == BridgeSpec /\ BridgeFairness

-----------------------------------------------------------------------------
(* Properties *)

\* The executors' variables: an executor has a transfer unless it waits for one.
ExecutorTypeOK ==
    /\ step \in [Relayers -> Steps]
    /\ txn \in [Relayers -> SUBSET Transfers]
    /\ handled \in [Relayers -> SUBSET Transfers]
    /\ skipped \in [Relayers -> SUBSET Transfers]
    /\ stopped \subseteq Relayers
    /\ disruptions \in 0 .. MaxDisruptions
    /\ \A r \in Relayers :
          (step[r] = "receive" <=> txn[r] = {}) /\ \A t, u \in txn[r] : t = u

\* The values of all variables of the bridge.
BridgeTypeOK == TypeOK /\ ExecutorTypeOK

\* The contract holds evidence of transfers that exist on the XRP Ledger only:
\* whatever is retried, repeated or interrupted, a hash has one evidence id.
OnlyKnownEvidence ==
    /\ \A e \in DOMAIN pending : \E t \in Transfers : e = EvidenceOf(t)
    /\ \A i \in DOMAIN payouts :
          \E t \in Transfers : payouts[i].evidence = EvidenceOf(t)

\* An executor that is done with a transfer did not lose it: the contract
\* counts its evidence, or the transfer is sent, or its amount was too low.
\* Only the three outcomes that say so end the retries.
HandledIsAttested ==
    \A r \in Relayers : \A t \in handled[r] \ skipped[r] :
        \/ <<r, EvidenceOf(t)>> \in attested
        \/ TransferAlreadySent(normalize_id(t.id))

\* A transfer is paid, or has its quorum and waits for execute_pending.
Settled(t) ==
    \/ TransferAlreadySent(normalize_id(t.id))
    \/ /\ EvidenceOf(t) \in DOMAIN pending
       /\ Len(pending[EvidenceOf(t)].evidence_providers) >= config.threshold

\* The executor of r retries a transfer that the bank refuses to pay, for as long
\* as its evidence would complete the quorum of an amount the contract sends.
HeldUp(r) == \E t \in txn[r] : t.recipient \in Blocked /\ SendFails(r, t)

\* Enough trusted relayers were not stopped and are done with t or free to do it.
LiveQuorum(t) ==
    Cardinality({r \in config.trusted_addresses \cap (Relayers \ stopped) :
                    t \in handled[r] \/ ~HeldUp(r)})
        >= config.threshold

\* A transfer is settled, unless its amount is below the minimum, or was when a
\* relayer looked.
SettledOrLow(t) ==
    \/ LowAmount(t.amount)
    \/ \E r \in Relayers : t \in skipped[r]
    \/ Settled(t)

\* As long as a quorum keeps running in the configuration the owner leaves in
\* place, wherever other relayers stopped, and the contract is refilled, a
\* transfer is settled, unless so many of its relayers got to a transfer first
\* that the bank refuses to pay: their executors retry that one for ever and do
\* nothing behind it.  A transfer that only lacks coins holds up nobody for good.
EveryTransferSettled ==
    \A t \in Transfers : []<>~LiveQuorum(t) \/ <>SettledOrLow(t)

\* The accounts whose evidence of a transfer the contract accepted.
VotesFor(t) == {r \in Relayers : <<r, EvidenceOf(t)>> \in attested}

\* The transfers that threshold_bank_send or execute_pending paid.
PaidTransfers ==
    {t \in Transfers :
        \E i \in DOMAIN payouts : payouts[i].evidence = EvidenceOf(t)}

Payment == INSTANCE QuorumPayment WITH
    Voters <- Relayers,
    Payments <- Transfers,
    quorum <- config.threshold,
    votes <- [t \in Transfers |-> VotesFor(t)],
    paid <- PaidTransfers

\* The contract and its relayers together pay by quorum: every relayer counts
\* once for a transfer, a transfer is paid once and on the evidence of
\* `threshold` different relayers, no accepted evidence is taken back, and the
\* threshold stays, through retries, repetitions, restarts, changes of the
\* trusted addresses and calls of execute_pending in any order.
PaysByQuorum == Payment!PaymentSpec

=============================================================================
