# Verification of the XRPL to TX token migrator

TLA+ specifications of the bridge that moves tokens from the XRP Ledger to the
TX chain: a CosmWasm contract (`contract/src`, Rust) and the relayers
(`relayer`, Go) that feed it. TLC checks the specifications on small instances
and TLAPS proves the central theorems for every instance.

A holder burns tokens by paying them to their issuer on the XRP Ledger, with a
TX address in a memo. Each relayer reads the issuers' transactions, turns burns
into transfers and submits evidence of each to the contract. The contract pays
a transfer when `threshold` relayers gave the same evidence. Transfers above
`max_amount` wait until somebody finances them with `execute_pending`.

## 1. Inventory

| Part | State it keeps | Operations | Correct if |
| --- | --- | --- | --- |
| Contract (`contract/src/contract.rs`) | `CONFIG`, `PENDING_TRANSACTIONS`, `SENT_TRANSACTIONS`, its bank account | instantiate, migrate, `threshold_bank_send`, `execute_pending`, five configuration calls, paged queries | pays on a quorum only, no evidence twice, loses none, spends its own coins once per XRPL hash; each configuration has its own version |
| Executor (`relayer/executor`) | the transfer it works on | receive, read the configuration, submit, retry | finishes with a transfer only when it is accepted, sent or too small |
| Finder (`relayer/finder`) | its token | recognise a burn, convert the amount | one transfer per burn, for not more than was burned |
| XRPL scanner and RPC client (`relayer/client/xrpl`) | a history and a recent cursor per account | paged scans with retries | skips no transaction |
| Service and config watcher (`relayer/service`, `relayer/watcher`) | finders, watched version, a group of tasks and the goroutines they start | create services, watch, restart, shut down | a configuration change reaches the finders; a closed group returns; two executors never overlap |
| Contract client and commands (`relayer/client/tx/contract.go`, `relayer/cmd`) | a list of pending transactions, a built transaction | list, build, estimate, broadcast, deploy, instantiate | the list is complete, the transaction can be executed, deploying makes a contract |
| Auditor and chain client (`relayer/audit`, `relayer/client/tx/chain.go`) | fetched transactions | fetch by page, decode, look up with a pool of workers, compare | finds all transactions that spent the contract's coins, reports evidence in them that disagrees with the XRP Ledger, and judges none without its lookup |
| Metrics (`relayer/metric`) | gauges, one of them fed by the scanners | set, collect, push | gauges show what they claim |
| Signer, logger, build tooling, integration tests | none that outlives a call | | not modelled |

How they interact: scanner goroutines send transactions through channels to a
finder, finders send transfers through a channel to the one executor of a
process, the executor calls the contract by transactions of the TX chain, and
the watcher polls the contract's configuration version and stops all of them
when it changes. Relayers share no state except the contract. Nothing is
persisted by a relayer: after a restart it reads the whole history again.

What is hard to test here:

- *Relayers against each other and against the owner*: evidence arrives in any
  order, split over amounts or recipients, while limits and the list of relayers
  change.
- *Lost answers and repeats*: a broadcast fails after the chain executed it, a
  ledger is read twice, a process restarts and delivers everything again.
- *Reverted payments*: the evidence that completes a quorum fails as a whole
  if the contract lacks coins or the bank refuses the recipient.
- *Paging a list that changes*: XRPL pages end inside ledgers, pages of pending
  transactions are addressed by offset, the auditor counts pages first and reads
  them newest first.
- *Several queries for one decision*: tokens and version are read separately.
- *Goroutines that end one by one*: a restart cancels a context that a select, a
  retry loop or a blocked send sees late or never.
- *Workers that share a variable*: lookups of the audit read and write an error
  without a lock; gauges are set one by one while the pusher gathers them.
- *Boundaries*: exactly the threshold, off-by-one of cursors, ledgers before the
  first, tolerance and truncation of amounts.

`PROJECT.json` lists each hazard at its line with the properties that watch it.

## 2. Modules

| Module | Models | Used by |
| --- | --- | --- |
| `BridgeContract` | the contract: one action per message | `MCBridgeContract`, `Bridge`, `BridgeContractProofs` |
| `QuorumPayment` | what the bridge promises: payment by quorum (abstract) | `Bridge` |
| `Bridge` | contract and executors composed | `MCBridge`, `BridgeProofs` |
| `RelayerLifecycle` | restart loop, the configuration queries, the watcher | `RelayerProcess`, `RelayerProcessProofs` |
| `RelayerProcess` | the group of tasks and its goroutines, which implement `RelayerLifecycle` | itself, `RelayerProcessProofs` |
| `XRPLScanner` | the two scans of an account and `account_tx` paging | `MCXRPLScanner`, `XRPLScannerProofs` |
| `Finder` | burns, conversion, the token registry | `MCFinder`, `FinderProofs` |
| `PendingListing` | listing, building and executing pending transactions | `Metrics` |
| `Metrics` | the counts of that list, from the collector to the push gateway | itself, `MetricsProofs` |
| `Audit` | fetching, looking up and judging the chain's transactions | `MCAudit`, `AuditProofs` |
| `Deployment` | the commands that store and instantiate the contract | itself |
| `DataTheorems` | lemmas on numbers, finite sets, sequences and sums, no code | all proof modules but `RelayerProcessProofs` |

The modules meet where the code's components do. `XRPLScanner` shows that each
transaction is delivered at least once, `Finder` that relayers derive one
transfer from it, and `Bridge` starts there: its `Receive` and `Redeliver`
deliver each of `Transfers` any number of times. `RelayerLifecycle` shows when a
process restarts, `Bridge` lets it restart at any time, and `OneExecutor` of
`RelayerProcess` is why a relayer has one executor there. `Bridge` uses the
actions of `BridgeContract` themselves; `PendingListing` reduces them to the
number of evidence providers, as one XRPL hash has one evidence id there.

### BridgeContract

The variables `config`, `pending`, `sent` are the storage items, and `balance`
is the contract's bank account. The others are histories that the properties
speak of: who attested what, the bank sends in order, who was ever trusted, what
was deposited. A call is atomic in CosmWasm: if it or the bank message it emits
fails, nothing changes. So a failing call is no step, and every error is a
named condition (`Unauthorized`, `LowAmount`, `TransferAlreadySent`,
`EvidenceAlreadyProvided`) that appears negated in the action. Start states are
those of `instantiate` and of `migrate` on the storage of the previous version,
both with their validation and defaults. `Lower` is `to_lowercase`: ids are
normalised, the denomination is lower-cased in the evidence id but not in the
stored coin, and the instances use two spellings of each.

What relayers may claim is a set of triples of hash, coin and recipient
(`Claims`). A recipient is any well-formed address (`addr_validate`): one that
the bank refuses (`Blocked`), which reverts the call, or the contract itself.
`AfterSend` is the contract's account after the bank message; a payment to
itself leaves it as it was, so the coins that a caller of `execute_pending`
attached to such a transfer stay in the contract. `BalanceConserved` counts both.

### Bridge

`step`, `txn`, `handled` and `skipped` describe each relayer's executor. Reading
the configuration and submitting are separate steps, since the owner may act in
between. `Submit` has the outcomes of `ThresholdBankSend`: accepted, one of the
two errors that the executor takes for success, or another error, after which
it starts again with the configuration. `SubmitFails` is a lost answer: the
chain executed the call or did not. `Redeliver` and `Restart` forget what was
handled, and a relayer that takes `Stop` does nothing any more, wherever its
executor was. `disruptions` bounds these four.

An executor is held up (`HeldUp`) while it retries a transfer whose recipient the
bank refuses and its evidence would complete the quorum: each try is reverted as
a whole, the code has no other way out of the retries, and what comes behind it
waits. `EveryTransferSettled` is therefore stated for each transfer and counts
only relayers that have handled it or are not held up (`LiveQuorum`).

`PaysByQuorum` is the refinement: `Bridge` implements `QuorumPayment`, whose
votes are the relayers with accepted evidence of a transfer, whose payments are
the transfers, and whose quorum is the contract's threshold. A step of the
bridge is a vote, a vote that pays, a later payment, or nothing.

Two assumptions: trusted accounts give evidence only through executors, and a
hash has one transfer (`TransferAssumption`). The second is what `Finder`
establishes as `OneTransferPerTransaction`, provided that the owner writes a
currency in one spelling (see finding 3) and that multipliers do not change; the
contract has no call to change them.

### RelayerLifecycle

`NewServices` asks for the configuration three times: for the finders, the
watcher and the auditor. They are three actions, between which the owner may act
and each of which may fail. A failing query or task ends
`RunExecutorWithAutoRestart` with an error; only `ErrConfigChanged` restarts it.

### RelayerProcess

`parallel.Run` runs the executor task, the watcher and the metric tasks of one
generation of services. `Executor.Start` subscribes the finders in turn, which
leaves a scanner and a finder goroutine per token, launches the executor
goroutine and waits for it. The first task that returns closes the group with
its error; the others return when they see their context end (`Done`). The
group waits for its tasks and not for scanners and finders, so goroutines are
tagged with their generation and those of an old one run beside the new ones.
The channel between finder and executor is unbuffered (`Handover`); a finder that
sends watches nothing else, and stays in `sending` for ever if its executor has
left. A select that has several ready cases may take any. The two scans of a
token end alike and are one scanner here, and the metric tasks one task.

`RunsLifecycle` is the refinement: with `tasks`, `reason` and the goroutines
hidden, the process is `RelayerLifecycle`, whose `Watch`, `TaskFails` and
`ShutDown` are the one step in which the group returns.

### XRPLScanner

A scan has a cursor and, while it reads pages, its range, marker and
`maxLatestIndex`. `account_tx` is external: it answers the transactions of
closed ledgers in the range, a page at a time, and refuses an empty range or one
that is not closed. A full page carries a marker even if nothing follows. A
ledger that is not positive is asked for as -1, "any".

### Finder

The registry accepts tokens as `add_xrpl_tokens` does. A transaction is one of a
set, and the finder of each token decides on it with the code's conditions in
the code's order, the tolerance of `receivedAtLeastDeliveredAmount` included.
Amounts are multiples of 1/`Unit`; the conversion truncates as in the code. The
tests' values are scaled down so that rounding, tolerance and truncation all
occur within single digits.

### PendingListing

Evidence ids are numbers in the order of the contract's map. The client reads
page after page while `ThresholdBankSend` and `ExecutePending` go on, then
reports, or builds a transaction, estimates it by simulation, and broadcasts it
later. Each message of that transaction emits a bank message, which the bank may
refuse: the ids of `Refused` are those with such a recipient, and one of them
fails the whole transaction (`Executable`), as it reverts an evidence call that
would pay it. The coins attached to the messages may be missing when the
transaction is simulated or executed (`LacksCoins`). Ids in `Large` may be above
`max_amount`, which the owner moves: evidence that reaches the threshold is then
paid at once or left pending. `limit` grows with `offset` in the code (`contract.go:762`); pages are
disjoint because the contract caps the limit at 500, which is the page size
(`PageAssumption`).

### Metrics

The collector's listing is `PendingListing`'s. It ends with two separate gauges
being set, between which the pusher may gather both. A restart abandons the
listing and makes a recorder with gauges at zero (`NewRecorder`), which may be
pushed. The gateway keeps the last values it was given.

### Audit

The chain of transactions grows at its end, with non-decreasing dates. The
auditor counts pages, reads them newest first until one is too old, decodes the
messages, and compares those that give evidence with the XRP Ledger. Messages of
`execute_pending` are decoded and, as in the code, not compared. What a
transaction sent is read from its transfer events, which do not tell the message
that caused them: evidence in a transaction without such coins ends the audit
(`SentCoinsFound`), and evidence in one with several denominations is reported.

The lookups are those of `GetTransactions`: a task for each request, at most
`Workers` of them in a call at a time. The pool starts tasks in turn, but one may
be slower than the next to reach its first line, so the model takes them in any
order. `fetchErr` is shared without a lock, so a worker that starts after another
one failed sees the error and passes its hash over, or does not see it and goes
on (`TakeTask`). After the last worker the auditor reads it once more.
`txnNotFound` is an error of `callRPC`, so a hash the XRP Ledger does not know
ends the audit: the discrepancy `OrphanCoreumTx` is never reported
(`VerdictNeedsEveryLookup`).

### Deployment

The flags of `deploy-and-instantiate` are checked in the command's order, then
two transactions follow. What matters of the instantiate message is how each
field reads at the other end: the threshold after its conversion to 32 bits, and
whether the token list is an array or `null`. Either broadcast may fail, and the
operator may run either command again.

## 3. Runs

Passing runs:

| Run | States | What it shows |
| --- | --- | --- |
| `contract` | 648,561 | Quorum, single payment, no lost evidence, conserved balance with payments to the contract itself, frozen ids, versions |
| `bridge` | 111,848 | The bridge implements `QuorumPayment`; at most one bank send per XRPL hash; a finished transfer is attested; while a quorum runs that no refused recipient holds up, a transfer is paid or awaits `execute_pending` with its quorum |
| `lifecycle` | 39,949 | The goroutines implement `RelayerLifecycle`; executors do not overlap; a closed group returns and old generations end, but for finders that hold a transfer, whose token is scanned again; versions are ordered and determine tokens; changes reach the finders |
| `scanner` | 15,805 | Cursors skip nothing, the scans meet, cursors advance, everything is delivered |
| `finder` | 28,050 | One transfer per transaction, not more than was burned, every burn found |
| `listing` | 347,071 | Lists stay executable, complete and without duplicates as far as possible; approved transactions are executed unless one that the bank refuses is among them; the push gateway ends with the contract's counts |
| `audit` | 7,086,551 | A chain at rest is fetched completely and the evidence in it judged correctly; a growing one loses only its oldest; no verdict without every lookup |

Bounds, and why they suffice:

- `contract`: an owner, three relayers and the contract's own account as
  callers, one XRPL hash and one denomination in two spellings each, evidence of
  2 for a user in both spellings and of 1 for the contract itself, around a
  maximum of 1 and a minimum of 1 that the owner may move to 0 or 2, thresholds
  2 and the migration's, two configuration changes, deposits up to 2 per
  denomination. Two claims are enough to split evidence, and two changes to
  remove a relayer and raise a limit, or to change the owner and act as the new
  one. That more of each brings nothing new is what the proofs show.
- `bridge`: two relayers with a threshold of two, so that each outcome depends on
  both, or of one, so that the other is late; a transfer of 2 to a user, at or
  above the maximum, and one of 1 to a module account, which the bank refuses; a
  configuration change, which may remove a relayer or move a limit; one
  disruption, which may be a lost answer, a repetition, a restart or a stop at
  any point. So an executor meets the refused transfer first and is held up, or
  second, or is the relayer whose evidence of it is only stored. Without `HeldUp`
  in `LiveQuorum` TLC finds `EveryTransferSettled` violated here.
- `lifecycle`: two tokens and a change before, between or after the queries of
  a service creation, so that the goroutines of two generations meet, with a
  valid and an invalid scan configuration.
- `scanner`: ten transactions in six ledgers, pages of two, so that pages end
  inside and between ledgers and are empty; a window that starts at ledger 2 or
  at 0; two failing calls; the last transaction cannot be decoded.
- `finder`: 317 payments with all values and balance changes from 0 to 9, 13
  other transactions, and registries of up to two of eight tokens with
  multipliers at and beyond both limits.
- `listing`: three transactions, each of which may be above the maximum and one
  of which the bank refuses, one to a page, so that several pages follow one
  another, and one failure: of a query, a restart, or missing coins. Without
  `Obstructed` TLC finds `ApprovedIsExecuted` violated here.
- `audit`: chains of two or three transactions chosen from twelve, with each kind
  of disagreement and events with none, another or several denominations, dates
  before and at the start, pages of two, growth up to four transactions during
  the audit, and two workers. A chain of two is counted as one page, so that two
  transactions that arrive push both off it and the oldest are missed.

`CHECK_DEADLOCK FALSE` stands where counters are bounded or a process returns.

Fairness:

- `bridge`: weak fairness of the executors of relayers that were not stopped,
  because `retry.Do` repeats without end and the goroutine is always scheduled,
  and of deposits, as somebody must refill the contract. Nothing is assumed of
  the owner or of callers of `execute_pending`; disruptions are finitely many.
  Nothing makes the bank accept a recipient it refuses.
- `lifecycle`: weak fairness of the tasks and of the watcher's ticker, and of
  whatever watches a canceled context. Strong fairness of the selects of executor
  and finders once their context is canceled: Go chooses among ready cases at
  random, so a transaction that is ready as well does not win for ever. Nothing
  is assumed of the XRP Ledger or of the contract while the context lives, so
  subscribing and retrying may last for ever. Failures may happen at any time,
  and `ChangeReachesFinders` allows for a process that returned.
- `scanner`: ledgers close, goroutines run, and the RPC does not fail for ever.
- `listing`: the operator repeats the command (weak fairness), lacks the coins
  for it finitely often only, and among the
  things to do with a list does not for ever avoid building the transaction with
  all approved ones (strong fairness of `BuildMessages({})`, which other uses of
  the list disable). The collector does not for ever lose its list to other
  callers, which in the code have lists of their own (strong fairness of
  `SetUnapproved`), and the pusher repeats.

## 4. Findings

Five runs show a statement of the repository that the code does not keep.

1. `contract_two_sends`: `execute_pending` does not consult `SENT_TRANSACTIONS`.
   If relayers give evidence of two amounts or recipients for one hash, and both
   entries reach the threshold above `max_amount`, both can be sent: the run has
   evidence of 2 and of 3 coins above a maximum of 1, and two calls of
   `execute_pending`. The coins are the callers'; a second send never takes the
   contract's own (`OwnCoinsOnlyForFirstPayout` is proved).
   Relayers that run this repository's executor do not split
   (`OneBankSendPerTransfer` is proved).
2. `lifecycle_stale_tokens`: a token added between the finders' query and the
   watcher's is part of the version the watcher takes for known, and is not
   scanned until the next change or restart.
3. `finder_spellings`: currency codes are compared as strings, so a code in upper
   and in lower case is registered as two tokens. With different multipliers a
   burn becomes two transfers.
4. `scanner_gauge`: the value that guards the latest ledger gauge is never
   assigned, so the gauge falls back when a slower account reports.
5. `deploy`: `deploy-and-instantiate` leaves the token list nil, which is sent as
   `"xrpl_tokens": null`; the contract's message requires a list, so it refuses
   every such message, after the code was stored and paid for. The integration
   tests call the client with a list and do not meet it.

Seven more limits appear as conditions of passing properties:

- `update_trusted_addresses` does not compare the new list with the threshold
  (`InvalidThreshold` says it must not be smaller). With fewer addresses than the
  threshold nothing is paid any more; `PaidOnQuorum` holds all the same.
- The executor retries a transfer that the bank refuses to pay for ever
  (`executor.go:143`), and transfers behind it, which the bank would pay, are not
  attested by this relayer: hence `HeldUp` in `EveryTransferSettled`. After a
  restart it receives the same transfer again.
- `build-execute-pending-approved-transaction` without named ids puts all approved ones
  into one (`main.go:515`). One with a recipient that the bank refuses, which
  can become approved above `max_amount`, makes the simulation fail each time:
  hence `Obstructed` in `ApprovedIsExecuted`. The operator can name the others.
- The audit compares only `threshold_bank_send` messages (`audit.go:203`), so what
  `execute_pending` sent, the second send of finding 1 included, is not in a
  report: `DisagreementsReported` speaks of evidence of transactions that spent
  the contract's coins.
- A transaction that leaves the pending ones while pages are read can hide
  another from the list: hence `~removed` in `NoneMissed`.
- A transaction that arrives during the audit shifts pages, so that another one
  is read twice and reported as a double spend: hence "at rest" in
  `SoundChainAtRestPasses`.
- Evidence of a transaction that the XRP Ledger does not have makes the audit
  fail rather than report it: hence `VerdictNeedsEveryLookup`, and
  `DisagreementsReported` speaks of audits that come to a verdict.

## 5. Proofs

Every invariant and every action property that a passing run checks is also a
theorem, for all values of the constants that satisfy the named assumptions.
What remains to TLC is liveness.

- `DataTheorems`: what the other modules need of numbers (`LeastOf`, `MaxOf`,
  `QuotientBounds`), finite sets, sequences (`AppendIs`, `ConcatIs`,
  `InjectiveLength`) and sums over finite sets (`SumType`, `SumAddElement`). The
  library's induction theorems take an operator, which the provers cannot
  instantiate; induction is written as the absence of a least counterexample
  instead. `LeastOf` gives it for numbers and `SmallestOf`, by cardinality, for
  finite sets. So the recursion in `SumFunctionOnSet` is shown to have a solution
  (`SumTableExists`: a table of the sums of all subsets), which is the same in
  whatever order elements are taken (`SumTableAnyOrder`).
- `BridgeContractProofs`: `TypeCorrect`; then `QuorumInvariant`, from which
  `PaymentsHaveQuorum`, `NoEvidencePaidTwice`, `OwnCoinsSpentOncePerId` and
  `EvidenceIsNotLost` follow; the action properties `VersionIdentifiesConfig`
  and `SentIdsAreFrozen`; and `AccountIsConserved`, which is inductive with the
  types: a bank send adds one summand to the payouts of its denomination. If the
  contract pays somebody else, it leaves the balance and is `Spent`; if a caller
  pays the contract itself, it enters and is `Received`; otherwise the balance
  stays. No recipient is excluded.

  `QuorumInv` adds to these guarantees what the two maps must remember.
  `PendingSound`: an entry's providers are different, were trusted and gave
  exactly this evidence. Without it, nothing is known of the evidence that
  `execute_pending` counts. `PaidIsClosed`: what was paid is marked as sent and
  has no pending entry. Without it, a second payment cannot be excluded. The
  threshold never changes, so a quorum remains one. Each action has its step:
  the two that pay rest on `SendKeepsQuorumInv`, the one that stores on
  `PendingKeepsQuorumInv`, and configuration calls on `AdministerSaves`.
- `BridgeProofs`: `BridgeImplementsContract`, that is `BridgeSpec => Spec`: every
  step of an executor is a call of the contract or leaves it alone. So all
  theorems above hold of the bridge. Then `EvidenceIsKnown` (the contract holds
  evidence of existing transfers only), `OneBankSendPerTransfer` (from it, from
  `TransferAssumption` and from `NoEvidencePaidTwice`; this is the claim that
  the contract alone does not keep), and `HandledTransfersAttested`, which
  needs that what was attested or sent never disappears (`RecordsGrow`) and
  that an entry's providers are attested (`QuorumInv`).
  `BridgePaysByQuorum` proves the refinement of `QuorumPayment`. It needs the
  invariants above (a new attestation is of a relayer that had none, by
  `QuorumInv`; what is paid was not paid before) and that the threshold never
  changes; each contract action maps to a vote, a payment or a stutter.
- `RelayerProcessProofs`: of `RelayerLifecycle`, `VersionsStayOrdered` and
  `VersionDeterminesTokens`, from `LifecycleInv`, which adds the types. Then
  `GoroutinesRunLifecycle`, the refinement, so that these two hold of the
  goroutines; `ProcessTypeCorrect`,
  `ExecutorsDoNotOverlap`, `GroupReasonIsTrue` and `StuckTransfersRescanned`. The
  invariant `ProcessInv` adds to `LifecycleInv`: `GenerationInv`, each generation
  consumes a configuration version (which bounds generations); `ControlInv`, how
  the task set, the reason and the executor's goroutine depend on the place of
  the process, without which nothing is known of the group when it returns; and
  `FinderInv`, the tokens of all finder goroutines are among those of the present
  services, since the owner can add tokens and not remove them.
- `XRPLScannerProofs`: `ScannerTypeCorrect`, `CursorsSkipNothing`,
  `ScansLeaveNoGap`, `CursorsOnlyAdvance`. `ScannerInv` says of a scan what holds
  in the middle of its pages (`PagingInv`): everything up to the marker was
  delivered, and `maxLatestIndex` lies below the first ledger that was not read
  completely. Without it nothing is known of the cursor that a failing page
  leaves behind. `GaugeOfOneAccount`: with one account the gauge never falls,
  since it is the recent cursor; so finding 4 needs two accounts.
- `MetricsProofs`, about the listing with the metrics beside it:
  `ListingTypeCorrect`, `ApprovedRemainsExecutable` and
  `BuiltFailsOnlyIfOvertaken`. `ListingInv` adds that the messages of a built
  transaction are of listed ids, each once and none of a refused one after the
  simulation.
  `ListingMissesNone` and `ListingRepeatsNone` compare places in a list that
  changes while the offset moves over it. `PagesInv` says that without
  additions what was listed, and is still pending, has a rank below the offset
  (`ListedBefore`), that without removals what was pending all the time and is
  not listed yet has not (`UnlistedAhead`), and that the limit is the offset plus
  a page.
  It rests on ranks having no gap: a page takes what lies between two ranks.
- `FinderProofs`: `FinderTypeCorrect`; `FindersAgreeWithoutDuplicates`, from
  `FinderInv`: registered keys differ, the registry only grows, and each transfer
  comes from a scanned token; `OneSpellingNoDuplicates` and `FindersAgree` for
  currencies that are written in one way, which the contract does not make sure
  of (finding 3); `TransfersAreCovered`, which multiplies the inequalities of the
  tolerance, of the multiplier's bound and of the truncating quotient; and
  `GenuineBurnsAreFound`.
- `AuditProofs`: `MissedAreOldest` and `ChainAtRestIsFetched` from `PagingInv`;
  `VerdictIsComplete` from `LookupInv`; `AuditIsExhaustive` and `NoFalseAlarm`
  from both. `PagingInv` is about `Floor`, the position above which pages have
  been read: everything in scope above it is fetched (`CoveredAbove`), what is
  fetched has no gap (`NoGap`), and while the chain rests nothing below it is
  fetched (`OncePerPage`), so that no page repeats another. Growth moves `Floor`
  up, never down past what was read. That reading may end at the first old
  transaction rests on the order of dates (`ChainInv`), and that it reaches the
  oldest page on `PagesHoldAll`. `LookupInv` says that a task that was taken is in
  a call, or an error is set, or its transaction is in the map; without the
  second case it would fail for the workers that pass their task over. The
  recursion that keeps some transactions of a page is treated like a sum
  (`AmongIs`).

Assumptions of the constants: `Lower` is idempotent and keeps ids and
denominations apart from each other; amounts are positive; accounts and tokens
are finite sets; claims are made of the ids, coins and recipients there are;
`Transfers` are among them and have one transfer per hash; an account's transactions are in the order of their ledgers, ledgers
are positive, and pages and the window of the recent scan are not empty; an XRPL
transaction has finitely many balance lines with integer changes; messages of the
chain name hashes of which `Xrpl` says whether they exist. That dates do not
decrease is no assumption: it is what `Grow` does, as blocks do.

The type invariants of contract, bridge, process, scanner and listing, and the
inductive invariants as a whole, are left to these proofs; the runs check what
follows from them. The invariants of the listing's and the audit's paging and of
the lookups were checked by TLC on the instances of `listing` and `audit` before
they were proved.

Only model-checked: liveness (`EveryTransferSettled`, `ChangeReachesFinders`,
`ClosedGroupReturns`, `OldGenerationsEnd`, `EventuallyDelivered`,
`ApprovedIsExecuted`, `PushedCountsSettle`), since fairness and ENABLED are out of
the prover's reach. The five findings are counterexamples of TLC; sections 4 and 5
name the theorems that say when three of the refuted statements hold (1, 3 and 4).

## 6. What is not modelled

- The XRPL signer and the RPC calls that only it uses, which sign and submit
  transactions for the integration tests; logging, flag parsing, build tooling
  and the integration tests themselves.
- The two balance gauges: the loop of `Metrics` with a single number. The gauges
  of the recorder that no alert or scan depends on.
- The commands that print a configuration, a version or one message to sign
  (`migrate`, `update-trusted-addresses`, `add-xrpl-tokens`): the message is an
  action of `BridgeContract`, and the command has no state.
- Where a scan was when its context is canceled: its cursors are lost, as in a
  restart; that its goroutine ends is in `RelayerProcess`.
- Rounding in sums of XRPL balances (`Value.Add`); the tolerance absorbs it, and
  instances have sums that are too low.
- Storage of the previous contract version that already holds pending or sent
  transactions: start states have none.
- Attributes of responses, gas, fees, account sequence numbers, base64 events.

## 7. Plan

Done: the contract, the bridge and its abstract specification, the life cycle
and the goroutines that implement it, the scanner, the finder, listing, metrics,
audit and deployment; the theorems of section 5.

Next, in this order:

1. The safety that liveness rests on, as far as it is an invariant: that a listing
   in progress ends within the pages there are, that an executor in a retry has
   nothing accepted yet.
2. That the contract's actions, for ids with one evidence id, implement the
   environment of `PendingListing`.
3. Storage that was migrated with pending and sent transactions as start states
   of `BridgeContract`, with the invariants that hold of it.
