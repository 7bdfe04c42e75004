------------------------------- MODULE Audit -------------------------------
(***************************************************************************)
(* The bridge audit (relayer/audit/audit.go, the paging of                 *)
(* relayer/client/tx/chain.go and the concurrent lookups of                *)
(* relayer/client/xrpl/rpc.go).                                            *)
(*                                                                         *)
(* The auditor fetches the transactions that spent coins of the contract,  *)
(* newest first and page by page, while the chain grows; it decodes their  *)
(* messages, looks up the XRPL transactions they name with a pool of       *)
(* workers, and reports what does not agree.                               *)
(***************************************************************************)
EXTENDS Integers, Sequences, FiniteSets, Functions

CONSTANTS
    Xrpl,           \* per hash: what the XRP Ledger says of the transaction
    TxChoices,      \* transactions that may enter the chain
    InitialLengths, \* lengths of the chain when the audit starts
    MaxTxs,         \* bound: transactions of the chain
    PageSize,       \* EventsPageSize
    Workers,        \* WorkerPoolSize
    StartDate,      \* audit start date
    Known           \* hashes in KnownDiscrepancies, all of AmountMismatch

\* A chain transaction has messages, each with the method it calls and, for the
\* two that are about a transfer, the XRPL hash, the recipient and the amount.
\* Its transfer events tell in which denominations the contract sent coins: not
\* which message did, as evidence may come before the quorum.
ASSUME ChoicesAssumption ==
    \A t \in TxChoices :
        /\ t.ok \in BOOLEAN
        /\ \A i \in DOMAIN t.msgs : t.msgs[i].id \in DOMAIN Xrpl

ASSUME PageAssumption ==
    /\ {MaxTxs, StartDate} \cup InitialLengths \subseteq Nat
    /\ {PageSize, Workers} \subseteq Nat \ {0}
    /\ Known \subseteq DOMAIN Xrpl

VARIABLES
    chain,          \* transactions that spent the contract's coins, oldest first
    pc,             \* where the auditor is
    pagesTotal,     \* pages there were when the audit started
    page,           \* the next page
    txs,            \* fetched transactions, as positions in chain
    taken,          \* of GetTransactions: tasks that workers have taken
    calling,        \* tasks whose worker is in GetTransaction
    fetchErr,       \* whether a worker has set fetchErr
    xrplTxs,        \* hashes of the map of XRPL transactions
    report,         \* the discrepancies
    startLength     \* history: the chain's length when pages were counted

pageVars == <<pagesTotal, page, txs, startLength>>
lookupVars == <<taken, calling, fetchErr, xrplTxs>>
vars == <<chain, pc, pageVars, lookupVars, report>>

Dates == 0 .. StartDate

\* Blocks have increasing times.
Grown(c, t, date) ==
    Append(c, [ok |-> t.ok, msgs |-> t.msgs, sent |-> t.sent, date |-> date])

LastDate == IF chain = <<>> THEN 0 ELSE chain[Len(chain)].date

Init ==
    /\ chain = <<>>
    /\ pc = "waiting"
    /\ pagesTotal = 0 /\ page = 1
    /\ txs = <<>>
    /\ taken = {} /\ calling = {} /\ fetchErr = FALSE /\ xrplTxs = {}
    /\ report = {}
    /\ startLength = 0

\* A transaction of a relayer, or of a caller of execute_pending.  One that
\* comes after the pages were read makes no difference to the audit.
Grow(t, date) ==
    /\ Len(chain) < MaxTxs
    /\ pc \in {"waiting", "fetching"}
    /\ date >= LastDate
    /\ chain' = Grown(chain, t, date)
    /\ UNCHANGED <<pc, pageVars, lookupVars, report>>

-----------------------------------------------------------------------------
(* GetSpendingTransactions *)

\* Mutant: the last, partly filled page is not counted.
FullPages(n) == n \div PageSize

PagesFor(n) == (n \div PageSize) + (IF n % PageSize # 0 THEN 1 ELSE 0)

\* The first query is for the number of transactions alone.
CountPages ==
    /\ pc = "waiting"
    /\ Len(chain) \in InitialLengths
    /\ pagesTotal' = PagesFor(Len(chain))
    /\ startLength' = Len(chain)
    /\ pc' = "fetching"
    /\ UNCHANGED <<chain, page, txs, lookupVars, report>>

\* Mutant: pages are counted from the oldest transaction.
PageOfAscending(p) ==
    LET left == Len(chain) - (p - 1) * PageSize
        count == IF left < PageSize THEN left ELSE PageSize
    IN  [i \in 1 .. count |-> (p - 1) * PageSize + i]

\* The positions on page p of the chain in descending order.
PageOf(p) ==
    LET first == Len(chain) - (p - 1) * PageSize
        count == IF first < PageSize THEN first ELSE PageSize
    IN  [i \in 1 .. count |-> first + 1 - i]

TooOld(i) == chain[i].date < StartDate

\* The elements of the sequence s that are in S, in their order.
Among(s, S) ==
    LET prefix[n \in 0 .. Len(s)] ==
          IF n = 0 THEN <<>>
          ELSE IF s[n] \in S THEN Append(prefix[n - 1], s[n]) ELSE prefix[n - 1]
    IN  prefix[Len(s)]

\* The successful transactions of a page before the first that is too old.
Kept(positions) ==
    Among(positions, {i \in DOMAIN chain : ~TooOld(i) /\ chain[i].ok})

\* A page; the first transaction before the start date ends the search, since
\* those that follow are older.
FetchPage ==
    /\ pc = "fetching"
    /\ \/ /\ page > pagesTotal
          /\ pc' = "analyzing"
          /\ UNCHANGED <<page, txs>>
       \/ /\ page <= pagesTotal
          /\ txs' = txs \o Kept(PageOf(page))
          /\ page' = page + 1
          /\ pc' = IF \E k \in DOMAIN PageOf(page) : TooOld(PageOf(page)[k])
                   THEN "analyzing" ELSE "fetching"
    /\ UNCHANGED <<chain, pagesTotal, startLength, lookupVars, report>>

\* A query of the TX chain fails and ends the audit.
QueryFails ==
    /\ pc = "fetching"
    /\ pc' = "failed"
    /\ UNCHANGED <<chain, pageVars, lookupVars, report>>

-----------------------------------------------------------------------------
(* The analysis *)

Methods == {"threshold_bank_send", "execute_pending", "update_min_amount",
            "update_max_amount"}

\* decodeMessagePayloadToReport knows the methods of all messages.
Decodable == \A k \in DOMAIN txs : \A j \in DOMAIN chain[txs[k]].msgs :
                chain[txs[k]].msgs[j].method \in Methods

\* The messages of a transaction that give evidence.
Sends(i) == {j \in DOMAIN chain[i].msgs :
                chain[i].msgs[j].method = "threshold_bank_send"}

\* ThresholdBankSendRequests: places in txs and messages there.
Requests ==
    UNION {{k} \X Sends(txs[k]) : k \in DOMAIN txs}

Request(r) == chain[txs[r[1]]].msgs[r[2]]

\* sumCoinsEventsSiblingAttributeValues: the denominations that the transfer
\* events of a transaction have the contract send.
SentCoins(i) == chain[i].sent

\* The events of every transaction with a request show coins of the contract, in
\* one encoding or the other.
SentCoinsFound == \A r \in Requests : SentCoins(txs[r[1]]) # {}

\* analyzeContractCallDiscrepancies.  A sum of one denomination is never compared
\* with the amount of the message; a sum of several always differs from it, as a
\* number is compared with a number followed by its denomination.
ContractCallDiscrepancies ==
    {[type |-> "ContractDoubleSpend", id |-> Request(r).id] :
        r \in {r \in Requests : \E q \in Requests :
                                   q # r /\ Request(q).id = Request(r).id}}
    \cup {[type |-> "ContractSentAmountMismatch", id |-> Request(r).id] :
        r \in {r \in Requests : Cardinality(SentCoins(txs[r[1]])) # 1}}

\* buildContractCallReport and the discrepancies among the calls themselves; a
\* message of an unknown method, or events without the coins, end the audit.
BuildReport ==
    /\ pc = "analyzing"
    /\ \/ /\ Decodable /\ SentCoinsFound
          /\ report' = ContractCallDiscrepancies
          /\ pc' = "lookup"
       \/ /\ ~(Decodable /\ SentCoinsFound)
          /\ pc' = "failed"
          /\ UNCHANGED report
    /\ UNCHANGED <<chain, pageVars, lookupVars>>

-----------------------------------------------------------------------------
(* GetTransactions: a task for each request, with its hash.  The pool starts *)
(* them in turn, but one worker may be slower than the next to run its task; *)
(* the workers read and write fetchErr without a lock.                       *)

Hash(r) == Request(r).id

\* A worker takes the task of request r.  If fetchErr is set it returns at once,
\* or does not see the other worker's unsynchronised write and goes on.
TakeTask(r) ==
    /\ pc = "lookup"
    /\ r \notin taken
    /\ Cardinality(calling) < Workers
    /\ taken' = taken \cup {r}
    /\ \/ fetchErr /\ UNCHANGED calling
       \/ calling' = calling \cup {r}
    /\ UNCHANGED <<chain, pc, pageVars, fetchErr, xrplTxs, report>>

\* Mutant: the error of a lookup is dropped.
LookupReturnsSilently(r) ==
    /\ calling' = calling \ {r}
    /\ xrplTxs' = IF Xrpl[Hash(r)].found THEN xrplTxs \cup {Hash(r)} ELSE xrplTxs
    /\ UNCHANGED <<chain, pc, pageVars, taken, fetchErr, report>>

\* GetTransaction returns the transaction, or an error: of the connection, or
\* txnNotFound, which callRPC makes an error like any other.
LookupReturns(r) ==
    /\ calling' = calling \ {r}
    /\ \/ /\ Xrpl[Hash(r)].found
          /\ xrplTxs' = xrplTxs \cup {Hash(r)}
          /\ UNCHANGED fetchErr
       \/ /\ fetchErr' = TRUE
          /\ UNCHANGED xrplTxs
    /\ UNCHANGED <<chain, pc, pageVars, taken, report>>

-----------------------------------------------------------------------------
(* The comparison *)

\* Mutant: the recipient in the memo is not compared.
XrplDiscrepanciesAnyRecipient(m) ==
    LET x == Xrpl[m.id]
        d(type, cond) == {t \in {[type |-> type, id |-> m.id]} : cond}
    IN  d("NotBurningTransfer", ~x.burning)
        \cup d("AmountMismatch", m.amount # x.amount)

\* analyzeXrplToTXDiscrepancies of a message.
XrplDiscrepancies(m) ==
    LET x == Xrpl[m.id]
        d(type, cond) == {t \in {[type |-> type, id |-> m.id]} : cond}
    IN  IF m.id \notin xrplTxs THEN d("OrphanCoreumTx", TRUE)
        ELSE d("InvalidRecipient", m.recipient # x.recipient)
             \cup d("NotBurningTransfer", ~x.burning)
             \cup d("AmountMismatch", m.amount # x.amount)

\* Mutant: known discrepancies are not left out.
NeverKnown(d) == FALSE

IsKnown(d) == d.type = "AmountMismatch" /\ d.id \in Known

\* All workers are done; fetchErr ends the audit, otherwise what was found is
\* compared with the messages.
Compare ==
    /\ pc = "lookup"
    /\ taken = Requests /\ calling = {}
    /\ \/ /\ fetchErr
          /\ pc' = "failed"
          /\ UNCHANGED report
       \/ /\ ~fetchErr
          /\ report' = {d \in report \cup UNION {XrplDiscrepancies(Request(r)) : r \in Requests}
                        : ~IsKnown(d)}
          /\ pc' = "done"
    /\ UNCHANGED <<chain, pageVars, lookupVars>>

-----------------------------------------------------------------------------

Next ==
    \/ \E t \in TxChoices, date \in Dates : Grow(t, date)
    \/ CountPages \/ FetchPage \/ QueryFails
    \/ BuildReport \/ (\E r \in Requests : TakeTask(r))
    \/ (\E r \in calling : LookupReturns(r)) \/ Compare

Spec == Init /\ [][Next]_vars

-----------------------------------------------------------------------------
(* Properties *)

\* The transactions the audit is about: successful and not too old.
InScope(i) == i \in 1 .. startLength /\ chain[i].ok /\ chain[i].date >= StartDate

Fetched == {txs[k] : k \in DOMAIN txs}

Complete == pc \in {"analyzing", "lookup", "done"}

\* Transactions that arrive while pages are read push others to later pages,
\* perhaps beyond the last one that was counted.  None in the middle is lost:
\* what is missed is older than everything that was fetched.
MissesOnlyOldest ==
    Complete => \A i, j \in 1 .. startLength :
        InScope(i) /\ InScope(j) /\ i < j /\ i \in Fetched => j \in Fetched

\* A chain that did not grow is fetched completely, each transaction once.
FetchesAll ==
    Complete /\ Len(chain) = startLength =>
        /\ \A i \in 1 .. startLength : InScope(i) <=> i \in Fetched
        /\ Len(txs) = Cardinality(Fetched)

\* The message sends what the XRPL transaction burned, to the address it names.
Agrees(m) ==
    LET x == Xrpl[m.id]
    IN  /\ x.found /\ x.burning /\ m.recipient = x.recipient
        /\ m.amount = x.amount \/ m.id \in Known

\* Evidence of a transfer that does not exist as such on the XRP Ledger is
\* reported, on whichever page it is, if a threshold_bank_send of a transaction
\* that spent coins of the contract gave it.  Payments of execute_pending, and
\* evidence in transactions without a payment, are not compared.
DisagreementsReported ==
    pc = "done" /\ Len(chain) = startLength =>
        \A i \in 1 .. startLength : InScope(i) =>
            \A j \in Sends(i) : ~Agrees(chain[i].msgs[j]) =>
                \E d \in report : d.id = chain[i].msgs[j].id

\* The audit comes to a verdict only if every lookup succeeded: no task that a
\* worker passed over because of another's error, and no answer that was lost,
\* makes an existing transaction look missing.  Evidence of a transaction the
\* XRP Ledger does not know ends the audit with an error, so the discrepancy
\* OrphanCoreumTx is never in a report.
VerdictNeedsEveryLookup ==
    pc = "done" => /\ \A r \in Requests : Xrpl[Request(r).id].found
                   /\ \A d \in report : d.type # "OrphanCoreumTx"

\* No two messages with evidence name the same XRPL transaction, all of them
\* agree with it, and a transaction sends coins of one denomination.
Sound ==
    LET sends == UNION {{i} \X Sends(i) : i \in DOMAIN chain}
        Msg(s) == chain[s[1]].msgs[s[2]]
    IN  /\ \A s \in sends : Agrees(Msg(s)) /\ Cardinality(SentCoins(s[1])) = 1
        /\ \A s, r \in sends : Msg(s).id = Msg(r).id => s = r

\* README: "The audit should complete without discrepancies."  The audit of a
\* sound chain reports nothing, if the chain does not grow meanwhile (which
\* moves transactions to pages not read yet, where they are read again).
SoundChainAtRestPasses ==
    pc = "done" /\ Len(chain) = startLength /\ Sound => report = {}

=============================================================================
