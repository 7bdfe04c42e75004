----------------------------- MODULE XRPLScanner -----------------------------
(***************************************************************************)
(* How a relayer reads the transactions of the token issuers' accounts     *)
(* from the XRP Ledger (relayer/client/xrpl: scanner.go and the account_tx *)
(* paging of rpc.go).                                                      *)
(*                                                                         *)
(* TxScanner.Subscribe starts two goroutines per account.  The history     *)
(* scan reads, once, the ledgers before a recent window; the recent scan   *)
(* reads the window and then follows the ledger forever.  Both keep a      *)
(* cursor, the last ledger they need not read again, and restart from it   *)
(* when the RPC fails.  A scan asks for page after page of account_tx,     *)
(* continuing at the marker of the previous answer.                        *)
(*                                                                         *)
(* The cursors live in memory: a restarted process scans from the start.   *)
(***************************************************************************)
EXTENDS Integers, Sequences, FiniteSets, FiniteSetsExt

CONSTANTS
    Accounts,       \* issuer accounts, one per finder
    AccountTxs,     \* per account: its transactions in ledger order
    HistoryStart,   \* historyScanStartLedger
    RecentBack,     \* recentScanIndexesBack
    SkipLast,       \* RecentScanSkipLastIndexes
    PageLimit,      \* transactions in a page of account_tx
    FirstLedgers,   \* open ledgers when the process starts
    MaxLedger,      \* bound: ledgers of the XRP Ledger
    MaxFailures     \* bound: failing RPC calls

\* A transaction: its ledger, and whether its memos are hexadecimal.
XRPLTx == [ledger : Nat \ {0}, wellFormed : BOOLEAN]

ASSUME TxsAssumption ==
    \A a \in Accounts :
        /\ AccountTxs[a] \in Seq(XRPLTx)
        /\ \A i, j \in DOMAIN AccountTxs[a] :
              i <= j => AccountTxs[a][i].ledger <= AccountTxs[a][j].ledger

ASSUME ScanAssumption ==
    /\ HistoryStart \in Int
    /\ RecentBack \in Nat \ {0}
    /\ SkipLast \in Nat
    /\ PageLimit \in Nat \ {0}
    /\ FirstLedgers \subseteq Nat \ {0}
    /\ {MaxLedger, MaxFailures} \subseteq Nat

VARIABLES
    ledger,         \* the open ledger, answered by ledger_current
    initialLedger,  \* per account: initialLedger of Subscribe, 0 before
    scan,           \* per account and kind: the state of the scan goroutine
    delivered,      \* per account: indices of the transactions sent to the channel
    gauge,          \* the latest ledger index metric
    failures        \* RPC calls that failed so far

vars == <<ledger, initialLedger, scan, delivered, gauge, failures>>

Kinds == {"history", "recent"}

LedgerOf(a, i) == AccountTxs[a][i].ledger

\* A scan goroutine: between scans, or in SubscribeAccountTransactions with
\* the range it asked for, the position of the marker, and maxLatestIndex.
Scan == [pc : {"unstarted", "waiting", "paging", "done"}, cursor : Int,
         start : Int, end : Int, marker : Nat, max : Int]

Unstarted == [pc |-> "unstarted", cursor |-> 0, start |-> 0, end |-> 0,
              marker |-> 0, max |-> 0]

Init ==
    /\ ledger \in FirstLedgers
    /\ initialLedger = [a \in Accounts |-> 0]
    /\ scan = [a \in Accounts |-> [k \in Kinds |-> Unstarted]]
    /\ delivered = [a \in Accounts |-> {}]
    /\ gauge = 0
    /\ failures = 0

\* External: the XRP Ledger closes a ledger.
CloseLedger ==
    /\ ledger < MaxLedger
    /\ ledger' = ledger + 1
    /\ UNCHANGED <<initialLedger, scan, delivered, gauge, failures>>

-----------------------------------------------------------------------------
(* Subscribe *)

\* The ledger up to which the history scan, and from which the recent one, goes.
WindowStart(a) == initialLedger[a] - RecentBack

\* The initial ledger is fetched, with retries, before the goroutines start.
Subscribe(a) ==
    /\ initialLedger[a] = 0
    /\ initialLedger' = [initialLedger EXCEPT ![a] = ledger]
    /\ scan' = [scan EXCEPT
                  ![a] = [history |-> [Unstarted EXCEPT !.pc = "waiting",
                                          !.cursor = HistoryStart - 1],
                          recent |-> [Unstarted EXCEPT !.pc = "waiting",
                                          !.cursor = ledger - RecentBack]]]
    /\ UNCHANGED <<ledger, delivered, gauge, failures>>

\* GetAccountTransactions asks for "any ledger" in place of one that is not
\* positive.
RequestLedger(l) == IF l <= 0 THEN -1 ELSE l

\* Mutant: the history scan stops one ledger before the window.
BeginScanWithGap(a, k) ==
    LET s == scan[a][k]
        end == IF k = "history" THEN WindowStart(a) - 1 ELSE ledger - SkipLast
    IN  /\ s.pc = "waiting"
        /\ scan' = [scan EXCEPT ![a][k] =
                      [pc |-> "paging", cursor |-> s.cursor,
                       start |-> RequestLedger(s.cursor + 1),
                       end |-> RequestLedger(end), marker |-> 0, max |-> 0]]
        /\ UNCHANGED <<ledger, initialLedger, delivered, gauge, failures>>

\* The call of SubscribeAccountTransactions; the recent scan first asks for
\* the current ledger and keeps away from its end.
BeginScan(a, k) ==
    LET s == scan[a][k]
        end == IF k = "history" THEN WindowStart(a) ELSE ledger - SkipLast
    IN  /\ s.pc = "waiting"
        /\ scan' = [scan EXCEPT ![a][k] =
                      [pc |-> "paging", cursor |-> s.cursor,
                       start |-> RequestLedger(s.cursor + 1),
                       end |-> RequestLedger(end), marker |-> 0, max |-> 0]]
        /\ UNCHANGED <<ledger, initialLedger, delivered, gauge, failures>>

-----------------------------------------------------------------------------
(* account_tx, external: as GetAccountTransactions uses it *)

\* The server refuses a range that is empty or ends in a ledger not closed yet.
RangeRejected(s) ==
    /\ s.end # -1
    /\ s.end >= ledger \/ (s.start # -1 /\ s.end < s.start)

\* Transaction i is in a closed ledger of the range, after the marker.
Unread(a, s, i) ==
    /\ i \in DOMAIN AccountTxs[a]
    /\ i > s.marker
    /\ LedgerOf(a, i) < ledger
    /\ s.start # -1 => LedgerOf(a, i) >= s.start
    /\ s.end # -1 => LedgerOf(a, i) <= s.end

\* The first PageLimit of these transactions, which are consecutive.
Page(a, s) ==
    {i \in DOMAIN AccountTxs[a] : Unread(a, s, i) /\ ~Unread(a, s, i - PageLimit)}

\* The transactions behind that page.
Rest(a, s) ==
    {i \in DOMAIN AccountTxs[a] : Unread(a, s, i) /\ Unread(a, s, i - PageLimit)}

-----------------------------------------------------------------------------
(* SubscribeAccountTransactions and what the goroutines do with its result *)

\* SetXRPLLatestAccountLedgerIndex: xrplLatestLedgerIndex is never assigned.
xrplLatestLedgerIndex == 0

SetXRPLLatestAccountLedgerIndex(v) ==
    gauge' = IF v < xrplLatestLedgerIndex THEN gauge ELSE v

\* GetAccountTransactions returned index `latest` on this page.
MaxLatest(s, latest) == Max({s.max, latest})

\* Mutant: a history scan is not repeated after an error.
ReturnOnce(a, k, processed, failed) ==
    /\ scan' = [scan EXCEPT ![a][k] =
                  [Unstarted EXCEPT
                     !.pc = IF k = "history" THEN "done" ELSE "waiting",
                     !.cursor = processed]]
    /\ IF k = "recent" THEN SetXRPLLatestAccountLedgerIndex(processed)
                       ELSE UNCHANGED gauge

\* SubscribeAccountTransactions returns `processed`: it becomes the cursor,
\* and only a history scan without error is not repeated.
Return(a, k, processed, failed) ==
    /\ scan' = [scan EXCEPT ![a][k] =
                  [Unstarted EXCEPT
                     !.pc = IF k = "history" /\ ~failed THEN "done" ELSE "waiting",
                     !.cursor = processed]]
    /\ IF k = "recent" THEN SetXRPLLatestAccountLedgerIndex(processed)
                       ELSE UNCHANGED gauge

\* Mutant: the ledger of the last transaction is taken to be complete.
LatestIndexComplete(a, s, page) ==
    IF page = {} THEN s.start ELSE LedgerOf(a, Max(page)) + 1

\* latestIndex after a page: the ledger of its last transaction, if any.
LatestIndex(a, s, page) == IF page = {} THEN s.start ELSE LedgerOf(a, Max(page))

\* A page whose transactions can all be converted: they are sent to the
\* channel.  A full page comes with a marker even if nothing follows it.
PageReceived(a, k) ==
    LET s == scan[a][k]
        page == Page(a, s)
        max == MaxLatest(s, LatestIndex(a, s, page) - 1)
    IN  /\ s.pc = "paging"
        /\ ~RangeRejected(s)
        /\ \A i \in page : AccountTxs[a][i].wellFormed
        /\ delivered' = [delivered EXCEPT ![a] = @ \cup page]
        /\ \/ /\ Rest(a, s) # {} \/ Cardinality(page) = PageLimit
              /\ scan' = [scan EXCEPT ![a][k] =
                            [s EXCEPT !.marker = Max(page), !.max = max]]
              /\ UNCHANGED gauge
           \/ /\ Rest(a, s) = {}
              /\ Return(a, k, max, FALSE)
        /\ UNCHANGED <<ledger, initialLedger, failures>>

\* The memos of a transaction cannot be decoded: the page is abandoned there
\* and the scan will start again at that transaction's ledger.
PageUndecodable(a, k) ==
    LET s == scan[a][k]
        bad == {i \in Page(a, s) : ~AccountTxs[a][i].wellFormed}
        first == Min(bad)
    IN  /\ s.pc = "paging"
        /\ ~RangeRejected(s)
        /\ bad # {}
        /\ delivered' = [delivered EXCEPT
                           ![a] = @ \cup {i \in Page(a, s) : i < first}]
        /\ Return(a, k, MaxLatest(s, LedgerOf(a, first) - 1), TRUE)
        /\ UNCHANGED <<ledger, initialLedger, failures>>

\* Mutant: a failing page loses the position.
PageFailsFromZero(a, k) ==
    LET s == scan[a][k]
    IN  /\ s.pc = "paging"
        /\ \/ RangeRejected(s) /\ UNCHANGED failures
           \/ failures < MaxFailures /\ failures' = failures + 1
        /\ Return(a, k, s.max, TRUE)
        /\ UNCHANGED <<ledger, initialLedger, delivered>>

\* account_tx fails, or refuses the range.
PageFails(a, k) ==
    LET s == scan[a][k]
    IN  /\ s.pc = "paging"
        /\ \/ RangeRejected(s) /\ UNCHANGED failures
           \/ failures < MaxFailures /\ failures' = failures + 1
        /\ Return(a, k, MaxLatest(s, s.start - 1), TRUE)
        /\ UNCHANGED <<ledger, initialLedger, delivered>>

-----------------------------------------------------------------------------

Step(a, k) == BeginScan(a, k) \/ PageReceived(a, k) \/ PageUndecodable(a, k)

Next ==
    \/ CloseLedger
    \/ \E a \in Accounts :
         \/ Subscribe(a)
         \/ \E k \in Kinds : Step(a, k) \/ PageFails(a, k)

Spec == Init /\ [][Next]_vars

\* Ledgers keep closing and the goroutines keep running.  RPC failures are
\* not fair, and MaxFailures ends them: the RPC is eventually available.
Fairness ==
    /\ WF_vars(CloseLedger)
    /\ \A a \in Accounts :
          /\ WF_vars(Subscribe(a))
          /\ \A k \in Kinds : WF_vars(Step(a, k) \/ PageFails(a, k))

FairSpec == Spec /\ Fairness

-----------------------------------------------------------------------------
(* Properties *)

\* The values of the variables; a recent scan stays behind the open ledger.
TypeOK ==
    /\ ledger \in Nat
    /\ initialLedger \in [Accounts -> Nat]
    /\ scan \in [Accounts -> [Kinds -> Scan]]
    /\ \A a \in Accounts : /\ delivered[a] \subseteq DOMAIN AccountTxs[a]
                           /\ scan[a]["recent"].cursor < ledger
    /\ gauge \in Int
    /\ failures \in 0 .. MaxFailures

\* All transactions of account a in the ledgers from .. to were delivered.
Covered(a, from, to) ==
    \A i \in DOMAIN AccountTxs[a] :
        from <= LedgerOf(a, i) /\ LedgerOf(a, i) <= to => i \in delivered[a]

\* No failure, page boundary inside a ledger, or undecodable transaction makes
\* a cursor move past a transaction that was not sent to the channel.
CursorSkipsNothing ==
    \A a \in Accounts :
        initialLedger[a] # 0 =>
            /\ Covered(a, HistoryStart, scan[a]["history"].cursor)
            /\ Covered(a, WindowStart(a) + 1, scan[a]["recent"].cursor)

\* The two scans leave no gap between them: when the history scan is done,
\* everything up to the recent scan's cursor has been delivered.
HistoryMeetsRecent ==
    \A a \in Accounts :
        scan[a]["history"].pc = "done" =>
            Covered(a, HistoryStart,
                    Max({WindowStart(a), scan[a]["recent"].cursor}))

\* The cursors never move back, so a failing RPC does not cost work done.
CursorsAdvance ==
    [][\A a \in Accounts, k \in Kinds :
          scan[a][k].pc # "unstarted" =>
              scan'[a][k].cursor >= scan[a][k].cursor]_vars

\* The last ledger that is read while the bounded ledger is at its end.
LastScanned == IF SkipLast = 0 THEN MaxLedger - 1 ELSE MaxLedger - SkipLast

\* Despite failures of the RPC, every transaction from the history start on
\* that no undecodable transaction precedes reaches the channel.
EventuallyDelivered ==
    <>(\A a \in Accounts : \A i \in DOMAIN AccountTxs[a] :
          /\ HistoryStart <= LedgerOf(a, i) /\ LedgerOf(a, i) <= LastScanned
          /\ \A j \in 1 .. i : AccountTxs[a][j].wellFormed
          => i \in delivered[a])

\* SetXRPLLatestAccountLedgerIndex "sets latest xrpl ledger index metric to v
\* if v is greater than current value".
GaugeNeverDecreases == [][gauge' >= gauge]_vars

=============================================================================
