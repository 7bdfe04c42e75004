-------------------------- MODULE XRPLScannerProofs --------------------------
(***************************************************************************)
(* The scans miss no transaction, for any accounts and histories, any page *)
(* size and window, and any failures of the RPC.                           *)
(*                                                                         *)
(* The argument: pages are taken in order, so what precedes the marker in  *)
(* the range of the scan was sent to the channel; the ledger before that   *)
(* of the last transaction of a page is complete, and with it everything   *)
(* the cursor can become.  Ranges that are not positive, which the client  *)
(* replaces by "any ledger", only ask for more.                            *)
(***************************************************************************)
EXTENDS XRPLScanner, DataTheorems

\* The transactions of account a in the ledgers from .. to are in D.
AllIn(a, D, from, to) ==
    \A i \in DOMAIN AccountTxs[a] :
        from <= LedgerOf(a, i) /\ LedgerOf(a, i) <= to => i \in D

\* The first ledger a scan is responsible for.
Low(a, k) == IF k = "history" THEN HistoryStart ELSE WindowStart(a) + 1

\* A scan that is reading pages, from what the cursor was.
PagingInv(a, k, s, D) ==
    /\ s.start = RequestLedger(s.cursor + 1)
    /\ k = "history" => s.end = RequestLedger(WindowStart(a))
    /\ s.max >= 0
    /\ AllIn(a, D, Low(a, k), s.max)
    /\ k = "recent" => s.max < ledger
    /\ \A i \in DOMAIN AccountTxs[a] :
          i <= s.marker /\ s.start <= LedgerOf(a, i) => i \in D

\* A scan goroutine.
ScanInv(a, k, s, D) ==
    /\ AllIn(a, D, Low(a, k), s.cursor)
    /\ k = "recent" => s.cursor < ledger /\ s.pc # "done"
    /\ s.pc = "paging" => PagingInv(a, k, s, D)
    /\ k = "history" /\ s.pc = "done" => AllIn(a, D, HistoryStart, WindowStart(a))

\* The types of the variables.
ScannerTypes ==
    /\ ledger \in Nat \ {0}
    /\ initialLedger \in [Accounts -> Nat]
    /\ scan \in [Accounts -> [Kinds -> Scan]]
    /\ delivered \in [Accounts -> SUBSET Nat]
    /\ \A a \in Accounts : delivered[a] \subseteq DOMAIN AccountTxs[a]
    /\ gauge \in Int
    /\ failures \in 0 .. MaxFailures

\* The inductive invariant.
ScannerInv ==
    /\ ScannerTypes
    /\ \A a \in Accounts, k \in Kinds : ScanInv(a, k, scan[a][k], delivered[a])

-----------------------------------------------------------------------------
(* Transactions, pages and largest elements *)

\* Ledgers of an account's transactions are positive and in order.
LEMMA LedgersOrdered ==
    ASSUME NEW a \in Accounts
    PROVE  /\ \E n \in Nat : DOMAIN AccountTxs[a] = 1 .. n
           /\ DOMAIN AccountTxs[a] \subseteq Nat \ {0}
           /\ \A i \in DOMAIN AccountTxs[a] : LedgerOf(a, i) \in Nat \ {0}
           /\ \A i, j \in DOMAIN AccountTxs[a] :
                 i <= j => LedgerOf(a, i) <= LedgerOf(a, j)
<1>1. AccountTxs[a] \in Seq(XRPLTx)
  BY TxsAssumption
<1>2. PICK n \in Nat : DOMAIN AccountTxs[a] = 1 .. n /\ AccountTxs[a] \in [1 .. n -> XRPLTx]
  BY <1>1
<1>3. \A i \in DOMAIN AccountTxs[a] : LedgerOf(a, i) \in Nat \ {0}
  BY <1>2 DEF LedgerOf, XRPLTx
<1> QED
  BY <1>2, <1>3, TxsAssumption DEF LedgerOf

\* A set of numbers has a least one.
LEMMA LeastExists ==
    ASSUME NEW S \in SUBSET Nat, S # {}
    PROVE  Min(S) \in S /\ \A i \in S : Min(S) <= i
BY LeastOf DEF Min

\* A set of positions of an account's transactions has a last one.
LEMMA LastExists ==
    ASSUME NEW a \in Accounts, NEW S \in SUBSET DOMAIN AccountTxs[a], S # {}
    PROVE  Max(S) \in S /\ \A i \in S : i <= Max(S)
<1>1. PICK n \in Nat : DOMAIN AccountTxs[a] = 1 .. n
  BY LedgersOrdered
<1>2. S \in SUBSET Int /\ IsFiniteSet(S)
  BY <1>1, FS_Interval, FS_Subset
<1> QED
  BY <1>2, MaxOf

\* The larger of two numbers.
LEMMA MaxOfTwo ==
    ASSUME NEW x \in Int, NEW y \in Int
    PROVE  /\ Max({x, y}) \in {x, y}
           /\ Max({x, y}) >= x /\ Max({x, y}) >= y
<1>1. \E m \in {x, y} : \A z \in {x, y} : m >= z
  OBVIOUS
<1> QED
  BY <1>1 DEF Max
\* A page is a piece of the account's transactions without gaps: what lies
\* between the marker and one of its transactions, in the range, is on it.
LEMMA PageHasNoGaps ==
    ASSUME NEW a \in Accounts, NEW s \in Scan, ledger \in Nat,
           NEW m \in Page(a, s), NEW i \in DOMAIN AccountTxs[a],
           s.marker < i, i <= m, s.start <= LedgerOf(a, i)
    PROVE  i \in Page(a, s)
<1>1. /\ m \in DOMAIN AccountTxs[a]
      /\ Unread(a, s, m) /\ ~Unread(a, s, m - PageLimit)
  BY DEF Page
<1>2. /\ i \in Nat /\ m \in Nat /\ PageLimit \in Nat \ {0}
      /\ LedgerOf(a, i) \in Nat /\ LedgerOf(a, m) \in Nat
      /\ LedgerOf(a, i) <= LedgerOf(a, m)
      /\ s.start \in Int /\ s.end \in Int /\ s.marker \in Nat
  BY <1>1, LedgersOrdered, ScanAssumption DEF Scan
<1>3. Unread(a, s, i)
  BY <1>1, <1>2 DEF Unread
<1>4. ASSUME Unread(a, s, i - PageLimit)
      PROVE  FALSE
  <2> DEFINE p == i - PageLimit
             q == m - PageLimit
  <2>1. p \in DOMAIN AccountTxs[a] /\ s.marker < p
    BY <1>2, <1>4 DEF Unread
  <2>2. q \in DOMAIN AccountTxs[a] /\ p <= q /\ q <= m
    <3>1. PICK n \in Nat : DOMAIN AccountTxs[a] = 1 .. n
      BY LedgersOrdered
    <3> QED
      BY <1>1, <1>2, <2>1, <3>1
  <2>3. /\ LedgerOf(a, p) \in Nat /\ LedgerOf(a, q) \in Nat
        /\ LedgerOf(a, p) <= LedgerOf(a, q) /\ LedgerOf(a, q) <= LedgerOf(a, m)
    BY <1>1, <2>1, <2>2, LedgersOrdered
  <2>4. /\ LedgerOf(a, q) < ledger
        /\ s.end # -1 => LedgerOf(a, q) <= s.end
    BY <1>1, <1>2, <2>3 DEF Unread
  <2>5. s.start # -1 => LedgerOf(a, q) >= s.start
    BY <1>2, <1>4, <2>3 DEF Unread
  <2>6. q > s.marker
    BY <1>2, <2>1, <2>2
  <2>7. Unread(a, s, q)
    BY <2>2, <2>4, <2>5, <2>6 DEF Unread
  <2> QED
    BY <1>1, <2>7
<1> QED
  BY <1>3, <1>4 DEF Page

\* If transactions are left for later pages, there is a page before them.
LEMMA FirstOfRest ==
    ASSUME NEW a \in Accounts, NEW s \in Scan, Rest(a, s) # {}
    PROVE  Page(a, s) # {}
<1> DEFINE all == {i \in DOMAIN AccountTxs[a] : Unread(a, s, i)}
<1>1. all # {} /\ all \in SUBSET Nat
  BY LedgersOrdered DEF Rest
<1>2. Min(all) \in all /\ \A i \in all : Min(all) <= i
  BY <1>1, LeastExists
<1>3. ~Unread(a, s, Min(all) - PageLimit)
  <2>1. Min(all) \in Nat
    BY <1>1, <1>2
  <2>2. ~(Min(all) <= Min(all) - PageLimit)
    BY <2>1, ScanAssumption
  <2>3. Min(all) - PageLimit \notin all
    BY <1>2, <2>2
  <2> QED
    BY <2>3 DEF Unread
<1> QED
  BY <1>2, <1>3 DEF Page

\* What a scan did not read below a ledger its cursor or its pages reach.
LEMMA LowerLedgersRead ==
    ASSUME NEW a \in Accounts, NEW k \in Kinds, NEW s \in Scan,
           NEW D \in SUBSET Nat, ScannerTypes,
           AllIn(a, D, Low(a, k), s.cursor), s.start = RequestLedger(s.cursor + 1),
           NEW i \in DOMAIN AccountTxs[a], Low(a, k) <= LedgerOf(a, i), i \notin D
    PROVE  s.start <= LedgerOf(a, i)
<1>1. /\ LedgerOf(a, i) \in Nat \ {0} /\ s.cursor \in Int
  BY LedgersOrdered DEF Scan
<1>2. ~(LedgerOf(a, i) <= s.cursor)
  BY DEF AllIn
<1> QED
  BY <1>1, <1>2 DEF RequestLedger
-----------------------------------------------------------------------------
(* What a scan returns *)

\* maxLatestIndex after a page is the larger of the two.
LEMMA LatestOfTwo ==
    ASSUME NEW s \in Scan, NEW v \in Int
    PROVE  /\ MaxLatest(s, v) \in {s.max, v}
           /\ MaxLatest(s, v) >= s.max /\ MaxLatest(s, v) >= v
<1>1. s.max \in Int
  BY DEF Scan
<1> QED
  BY <1>1, MaxOfTwo DEF MaxLatest

\* The ledger before that of a transaction on the page is complete once the
\* transactions before it on the page were sent.
LEMMA NextCursor ==
    ASSUME NEW a \in Accounts, NEW k \in Kinds, NEW s \in Scan,
           NEW D \in SUBSET Nat, ScannerTypes,
           AllIn(a, D, Low(a, k), s.cursor), PagingInv(a, k, s, D),
           NEW m \in Page(a, s), NEW E \in SUBSET Nat, D \subseteq E,
           \A i \in Page(a, s) : i < m => i \in E,
           NEW x, x = MaxLatest(s, LedgerOf(a, m) - 1)
    PROVE  /\ x \in Int /\ x >= 0 /\ x >= s.cursor
           /\ AllIn(a, E, Low(a, k), x)
           /\ k = "recent" => x < ledger
<1>1. /\ m \in DOMAIN AccountTxs[a] /\ m \in Nat
      /\ LedgerOf(a, m) \in Nat \ {0} /\ LedgerOf(a, m) < ledger
      /\ s.start # -1 => LedgerOf(a, m) >= s.start
  BY LedgersOrdered DEF Page, Unread
<1>2. s.max \in Int /\ s.max >= 0 /\ s.cursor \in Int /\ s.marker \in Nat /\ ledger \in Nat
  BY DEF Scan, PagingInv, ScannerTypes
<1>3. x \in {s.max, LedgerOf(a, m) - 1} /\ x >= s.max /\ x >= LedgerOf(a, m) - 1
  <2>1. LedgerOf(a, m) - 1 \in Int
    BY <1>1
  <2> QED
    BY <2>1, LatestOfTwo
<1>4. x \in Int /\ x >= 0
  BY <1>1, <1>2, <1>3
<1>5. x >= s.cursor
  <2>1. s.start = s.cursor + 1 \/ (s.start = -1 /\ s.cursor + 1 <= 0)
    BY DEF PagingInv, RequestLedger
  <2>2. CASE s.cursor + 1 <= 0
    BY <1>2, <1>4, <2>2
  <2>3. CASE ~(s.cursor + 1 <= 0)
    BY <1>1, <1>2, <1>3, <1>4, <2>1, <2>3
  <2> QED
    BY <2>2, <2>3
<1>6. k = "recent" => x < ledger
  BY <1>1, <1>2, <1>3 DEF PagingInv
<1>7. ASSUME NEW i \in DOMAIN AccountTxs[a],
             Low(a, k) <= LedgerOf(a, i), LedgerOf(a, i) <= x, i \notin D
      PROVE  i \in E
  <2>1. i \in Nat /\ LedgerOf(a, i) \in Nat
    BY LedgersOrdered
  <2>2. x = LedgerOf(a, m) - 1
    BY <1>3, <1>7 DEF PagingInv, AllIn
  <2>3. i < m
    BY <1>1, <1>7, <2>1, <2>2, LedgersOrdered
  <2>4. s.start <= LedgerOf(a, i)
    BY <1>7, LowerLedgersRead DEF PagingInv
  <2>5. ~(i <= s.marker)
    BY <1>7, <2>4 DEF PagingInv
  <2>6. i \in Page(a, s)
    BY <1>1, <1>2, <2>1, <2>3, <2>4, <2>5, PageHasNoGaps
  <2> QED
    BY <2>3, <2>6
<1>8. AllIn(a, E, Low(a, k), x)
  BY <1>7 DEF AllIn
<1> QED
  BY <1>4, <1>5, <1>6, <1>8

\* A request that fails, or finds nothing, leaves the cursor where it was or
\* where earlier pages have brought it.
LEMMA SameCursor ==
    ASSUME NEW a \in Accounts, NEW k \in Kinds, NEW s \in Scan,
           NEW D \in SUBSET Nat, ScannerTypes,
           AllIn(a, D, Low(a, k), s.cursor), PagingInv(a, k, s, D),
           k = "recent" => s.cursor < ledger,
           NEW x, x = MaxLatest(s, s.start - 1)
    PROVE  /\ x \in Int /\ x >= 0 /\ x >= s.cursor
           /\ AllIn(a, D, Low(a, k), x)
           /\ k = "recent" => x < ledger
<1>1. /\ s.max \in Int /\ s.max >= 0 /\ s.cursor \in Int /\ s.start \in Int
      /\ ledger \in Nat
  BY DEF Scan, PagingInv, ScannerTypes
<1>2. x \in {s.max, s.start - 1} /\ x >= s.max /\ x >= s.start - 1
  <2>1. s.start - 1 \in Int
    BY <1>1
  <2> QED
    BY <2>1, LatestOfTwo
<1>3. x \in Int /\ x >= 0
  BY <1>1, <1>2
<1>4. s.start = s.cursor + 1 \/ (s.start = -1 /\ s.cursor + 1 <= 0)
  BY DEF PagingInv, RequestLedger
<1>5. x = s.max \/ x = s.cursor
  <2>1. CASE x = s.start - 1 /\ s.start = s.cursor + 1
    BY <1>1, <2>1
  <2>2. CASE x = s.start - 1 /\ s.start = -1
    BY <1>3, <2>2
  <2> QED
    BY <1>2, <1>4, <2>1, <2>2
<1>6. x >= s.cursor
  BY <1>1, <1>2, <1>3, <1>4
<1>7. AllIn(a, D, Low(a, k), x)
  BY <1>5 DEF PagingInv
<1>8. k = "recent" => x < ledger
  BY <1>5 DEF PagingInv
<1> QED
  BY <1>3, <1>6, <1>7, <1>8

\* Everything up to the marker of a page was sent, once the page was.
LEMMA ReadUpToMarker ==
    ASSUME NEW a \in Accounts, NEW k \in Kinds, NEW s \in Scan,
           NEW D \in SUBSET Nat, ledger \in Nat, PagingInv(a, k, s, D),
           NEW m \in Page(a, s),
           NEW i \in DOMAIN AccountTxs[a], i <= m, s.start <= LedgerOf(a, i)
    PROVE  i \in D \cup Page(a, s)
<1>1. s.marker \in Nat /\ i \in Nat /\ m \in Nat
  BY LedgersOrdered DEF Scan, Page
<1>2. CASE i <= s.marker
  BY <1>2 DEF PagingInv
<1>3. CASE s.marker < i
  BY <1>3, PageHasNoGaps
<1> QED
  BY <1>1, <1>2, <1>3

\* A history scan whose last page was received has read its whole range.
LEMMA HistoryComplete ==
    ASSUME NEW a \in Accounts, NEW s \in Scan, NEW D \in SUBSET Nat, ScannerTypes,
           AllIn(a, D, Low(a, "history"), s.cursor), PagingInv(a, "history", s, D),
           ~RangeRejected(s), Rest(a, s) = {}
    PROVE  AllIn(a, D \cup Page(a, s), HistoryStart, WindowStart(a))
<1> SUFFICES ASSUME NEW i \in DOMAIN AccountTxs[a], HistoryStart <= LedgerOf(a, i),
                    LedgerOf(a, i) <= WindowStart(a), i \notin D
             PROVE  i \in Page(a, s)
  BY DEF AllIn
<1>1. /\ LedgerOf(a, i) \in Nat \ {0} /\ i \in Nat
      /\ WindowStart(a) \in Int /\ ledger \in Nat /\ s.marker \in Nat
  BY LedgersOrdered, ScanAssumption DEF WindowStart, ScannerTypes, Scan
<1>2. s.end = WindowStart(a) /\ s.end > 0
  BY <1>1 DEF PagingInv, RequestLedger
<1>3. s.end < ledger
  BY <1>1, <1>2 DEF RangeRejected
<1>4. s.start <= LedgerOf(a, i)
  BY LowerLedgersRead DEF PagingInv, Low, Kinds
<1>5. i > s.marker
  BY <1>1, <1>4 DEF PagingInv
<1>6. Unread(a, s, i)
  BY <1>1, <1>2, <1>3, <1>4, <1>5 DEF Unread
<1> QED
  BY <1>6 DEF Page, Rest
-----------------------------------------------------------------------------
(* The steps *)

\* A scan that does not move is not disturbed by later ledgers, nor by what
\* the other scan of the account delivers.
LEMMA ScanUndisturbed ==
    ASSUME NEW a \in Accounts, NEW k \in Kinds, NEW s \in Scan,
           NEW D \in SUBSET Nat, NEW E \in SUBSET Nat, D \subseteq E,
           ledger \in Nat, ledger' \in Nat, ledger' >= ledger,
           initialLedger' = initialLedger, ScanInv(a, k, s, D)
    PROVE  ScanInv(a, k, s, E)'
<1>1. Low(a, k)' = Low(a, k) /\ WindowStart(a)' = WindowStart(a)
  BY DEF Low, WindowStart
<1>2. \A from, to : AllIn(a, D, from, to) => AllIn(a, E, from, to)
  BY DEF AllIn
<1>3. s.cursor \in Int /\ s.max \in Int
  BY DEF Scan
<1>4. ASSUME PagingInv(a, k, s, D)
      PROVE  PagingInv(a, k, s, E)'
  <2>1. AllIn(a, E, Low(a, k), s.max)'
    BY <1>1, <1>2, <1>4 DEF PagingInv, AllIn, LedgerOf
  <2>2. k = "recent" => s.max < ledger'
    BY <1>3, <1>4 DEF PagingInv
  <2> QED
    BY <1>1, <1>4, <2>1, <2>2 DEF PagingInv, LedgerOf, RequestLedger
<1> QED
  BY <1>1, <1>2, <1>3, <1>4 DEF ScanInv, AllIn, LedgerOf

\* A step of one scan keeps the invariant if it keeps that scan's.
LEMMA StepKeepsInv ==
    ASSUME ScannerInv, NEW a \in Accounts, NEW k \in Kinds,
           NEW s \in Scan, NEW E \in SUBSET DOMAIN AccountTxs[a],
           delivered[a] \subseteq E,
           scan' = [scan EXCEPT ![a][k] = s],
           delivered' = [delivered EXCEPT ![a] = E],
           ledger' = ledger, initialLedger' = initialLedger,
           gauge' \in Int, failures' \in 0 .. MaxFailures,
           ScanInv(a, k, s, E)
    PROVE  ScannerInv'
<1>1. E \in SUBSET Nat /\ ledger \in Nat /\ ledger' >= ledger
  BY LedgersOrdered DEF ScannerInv, ScannerTypes
<1>2. ScannerTypes'
  BY <1>1 DEF ScannerInv, ScannerTypes
<1>3. ASSUME NEW b \in Accounts, NEW j \in Kinds
      PROVE  ScanInv(b, j, scan[b][j], delivered[b])'
  <2>1. delivered[b] \subseteq delivered'[b] /\ delivered'[b] \in SUBSET Nat
        /\ delivered[b] \in SUBSET Nat
    BY <1>1 DEF ScannerInv, ScannerTypes
  <2>2. CASE b = a /\ j = k
    <3>1. scan'[b][j] = s /\ delivered'[b] = E
      BY <2>2 DEF ScannerInv, ScannerTypes
    <3>2. ScanInv(a, k, s, E)'
      BY <1>1, ScanUndisturbed
    <3> QED
      BY <2>2, <3>1, <3>2
         DEF ScanInv, PagingInv, AllIn, Low, WindowStart, LedgerOf, RequestLedger
  <2>3. CASE ~(b = a /\ j = k)
    <3>1. scan'[b][j] = scan[b][j] /\ scan[b][j] \in Scan
      BY <2>3 DEF ScannerInv, ScannerTypes
    <3>2. ScanInv(b, j, scan[b][j], delivered[b])
      BY DEF ScannerInv
    <3>3. PICK r \in Scan : r = scan[b][j]
      BY <3>1
    <3>4. PICK D \in SUBSET Nat : D = delivered[b]
      BY <2>1
    <3>5. PICK F \in SUBSET Nat : F = delivered'[b]
      BY <2>1
    <3>6. ScanInv(b, j, r, D)
      BY <3>2, <3>3, <3>4
    <3>7. ScanInv(b, j, r, F)'
      BY <1>1, <2>1, <3>4, <3>5, <3>6, ScanUndisturbed
    <3> QED
      BY <3>1, <3>3, <3>5, <3>7
         DEF ScanInv, PagingInv, AllIn, Low, WindowStart, LedgerOf, RequestLedger
  <2> QED
    BY <2>2, <2>3
<1> QED
  BY <1>2, <1>3 DEF ScannerInv

\* SubscribeAccountTransactions returns x.
LEMMA ReturnKeepsInv ==
    ASSUME ScannerInv, NEW a \in Accounts, NEW k \in Kinds,
           NEW x \in Int, NEW failed \in BOOLEAN,
           NEW E \in SUBSET DOMAIN AccountTxs[a], delivered[a] \subseteq E,
           Return(a, k, x, failed),
           delivered' = [delivered EXCEPT ![a] = E],
           ledger' = ledger, initialLedger' = initialLedger,
           failures' \in 0 .. MaxFailures,
           AllIn(a, E, Low(a, k), x), k = "recent" => x < ledger,
           k = "history" /\ ~failed => AllIn(a, E, HistoryStart, WindowStart(a))
    PROVE  ScannerInv'
<1> DEFINE place == IF k = "history" /\ ~failed THEN "done" ELSE "waiting"
           s == [Unstarted EXCEPT !.pc = place, !.cursor = x]
<1>0. place \in {"done", "waiting"} /\ (place = "done" => k = "history" /\ ~failed)
  BY Zenon
<1>2. scan' = [scan EXCEPT ![a][k] = s]
  BY DEF Return
<1> HIDE DEF place
<1>1. s \in Scan /\ s.cursor = x /\ s.pc = place
  <2>1. Unstarted \in Scan
    BY DEF Unstarted, Scan
  <2>2. DOMAIN Unstarted = {"pc", "cursor", "start", "end", "marker", "max"}
    BY DEF Unstarted
  <2> QED
    BY <1>0, <2>1, <2>2 DEF Scan
<1>3. gauge' \in Int
  BY DEF Return, SetXRPLLatestAccountLedgerIndex, ScannerInv, ScannerTypes
<1> HIDE DEF s
<1>4. ScanInv(a, k, s, E)
  BY <1>0, <1>1 DEF ScanInv, Kinds
<1> QED
  BY <1>1, <1>2, <1>3, <1>4, StepKeepsInv
\* The result becomes the cursor.
LEMMA ReturnSetsCursor ==
    ASSUME ScannerInv, NEW a \in Accounts, NEW k \in Kinds,
           NEW x, NEW failed, Return(a, k, x, failed)
    PROVE  scan'[a][k].cursor = x
BY DEF Return, ScannerInv, ScannerTypes, Unstarted

\* The state of the scan that moves.
LEMMA ScanFacts ==
    ASSUME ScannerInv, NEW a \in Accounts, NEW k \in Kinds
    PROVE  /\ scan[a][k] \in Scan
           /\ delivered[a] \in SUBSET Nat /\ delivered[a] \subseteq DOMAIN AccountTxs[a]
           /\ ScanInv(a, k, scan[a][k], delivered[a])
           /\ delivered = [delivered EXCEPT ![a] = delivered[a]]
           /\ ScannerTypes
BY DEF ScannerInv, ScannerTypes

\* A scan begins: its range starts behind the cursor.
LEMMA BeginScanKeepsInv ==
    ASSUME ScannerInv, NEW a \in Accounts, NEW k \in Kinds, BeginScan(a, k)
    PROVE  ScannerInv' /\ scan'[a][k].cursor >= scan[a][k].cursor
<1> DEFINE c == scan[a][k].cursor
           end == IF k = "history" THEN WindowStart(a) ELSE ledger - SkipLast
           s == [pc |-> "paging", cursor |-> c, start |-> RequestLedger(c + 1),
                 end |-> RequestLedger(end), marker |-> 0, max |-> 0]
<1>1. /\ scan' = [scan EXCEPT ![a][k] = s]
      /\ UNCHANGED <<ledger, initialLedger, delivered, gauge, failures>>
  BY DEF BeginScan
<1>2. c \in Int /\ WindowStart(a) \in Int /\ ledger \in Nat \ {0}
  BY ScanFacts, ScanAssumption DEF Scan, WindowStart, ScannerTypes
<1>3. s \in Scan
  BY <1>2, ScanAssumption DEF Scan, RequestLedger
<1>4. AllIn(a, delivered[a], Low(a, k), 0)
  BY LedgersOrdered DEF AllIn
<1>5. \A i \in DOMAIN AccountTxs[a] : ~(i <= 0)
  BY LedgersOrdered
<1>6. PagingInv(a, k, s, delivered[a])
  BY <1>2, <1>4, <1>5 DEF PagingInv
<1>7. ScanInv(a, k, s, delivered[a])
  BY <1>6, ScanFacts DEF ScanInv
<1>8. scan'[a][k].cursor >= scan[a][k].cursor
  BY <1>1, <1>2 DEF ScannerInv, ScannerTypes
<1> HIDE DEF s
<1>9. ScannerInv'
  BY <1>1, <1>3, <1>7, ScanFacts, StepKeepsInv DEF ScannerTypes
<1> QED
  BY <1>8, <1>9

\* A page arrives: the marker or the cursor moves to what it completes.
LEMMA PageReceivedKeepsInv ==
    ASSUME ScannerInv, NEW a \in Accounts, NEW k \in Kinds, PageReceived(a, k)
    PROVE  ScannerInv' /\ scan'[a][k].cursor >= scan[a][k].cursor
<1> DEFINE s == scan[a][k]
           D == delivered[a]
           page == Page(a, s)
           E == D \cup page
           x == MaxLatest(s, LatestIndex(a, s, page) - 1)
<1>1. /\ s.pc = "paging" /\ ~RangeRejected(s)
      /\ delivered' = [delivered EXCEPT ![a] = E]
      /\ UNCHANGED <<ledger, initialLedger, failures>>
  BY DEF PageReceived
<1>2. /\ s \in Scan /\ D \in SUBSET Nat /\ D \subseteq DOMAIN AccountTxs[a]
      /\ ScannerTypes /\ ledger \in Nat
      /\ AllIn(a, D, Low(a, k), s.cursor) /\ PagingInv(a, k, s, D)
      /\ k = "recent" => s.cursor < ledger
  BY <1>1, ScanFacts DEF ScanInv, ScannerTypes
<1>3. page \in SUBSET DOMAIN AccountTxs[a]
  BY DEF Page
<1>4. E \in SUBSET DOMAIN AccountTxs[a] /\ E \in SUBSET Nat
  BY <1>2, <1>3, LedgersOrdered
<1>5. ASSUME page # {}
      PROVE  /\ Max(page) \in page
             /\ x = MaxLatest(s, LedgerOf(a, Max(page)) - 1)
  BY <1>3, <1>5, LastExists DEF LatestIndex
<1>6. /\ x \in Int /\ x >= 0 /\ x >= s.cursor
      /\ AllIn(a, E, Low(a, k), x)
      /\ k = "recent" => x < ledger
  <2>1. CASE page = {}
    <3>1. x = MaxLatest(s, s.start - 1) /\ E = D
      BY <2>1 DEF LatestIndex
    <3> HIDE DEF s, D, x, E
    <3> QED
      BY <1>2, <3>1, SameCursor
  <2>2. CASE page # {}
    <3>1. PICK m \in page : x = MaxLatest(s, LedgerOf(a, m) - 1)
      BY <1>5, <2>2
    <3>2. \A i \in Page(a, s) : i < m => i \in E
      OBVIOUS
    <3>3. D \subseteq E /\ m \in Page(a, s)
      OBVIOUS
    <3> HIDE DEF s, D, x, E, page
    <3> QED
      BY <1>2, <1>4, <3>1, <3>2, <3>3, NextCursor
  <2> QED
    BY <2>1, <2>2
<1>7. CASE /\ Rest(a, s) # {} \/ Cardinality(page) = PageLimit
           /\ scan' = [scan EXCEPT ![a][k] = [s EXCEPT !.marker = Max(page), !.max = x]]
           /\ UNCHANGED gauge
  <2> DEFINE r == [s EXCEPT !.marker = Max(page), !.max = x]
  <2>1. page # {}
    <3>1. CASE Cardinality(page) = PageLimit
      BY <3>1, FS_EmptySet, ScanAssumption
    <3>2. CASE Rest(a, s) # {}
      BY <1>2, <3>2, FirstOfRest
    <3> QED
      BY <1>7, <3>1, <3>2
  <2>2. Max(page) \in Nat /\ Max(page) \in page
    BY <1>3, <1>5, <2>1, LedgersOrdered
  <2>3. /\ r \in Scan /\ r.marker = Max(page) /\ r.max = x /\ r.pc = "paging"
        /\ r.cursor = s.cursor /\ r.start = s.start /\ r.end = s.end
    BY <1>1, <1>2, <1>6, <2>2 DEF Scan
  <2>4. \A i \in DOMAIN AccountTxs[a] :
           i <= r.marker /\ r.start <= LedgerOf(a, i) => i \in E
    BY <1>2, <2>2, <2>3, ReadUpToMarker
  <2>5. AllIn(a, E, Low(a, k), s.cursor)
    BY <1>2 DEF AllIn
  <2>6. ScanInv(a, k, r, E)
    <3> HIDE DEF r, E, x, page, D
    <3>1. PagingInv(a, k, r, E)
      BY <1>2, <1>6, <2>3, <2>4 DEF PagingInv
    <3> QED
      BY <1>2, <2>3, <2>5, <3>1 DEF ScanInv
  <2>7. gauge' \in Int /\ failures' \in 0 .. MaxFailures
    BY <1>1, <1>2, <1>7 DEF ScannerTypes
  <2>8. scan'[a][k] = r /\ s.cursor \in Int
    BY <1>2, <1>7 DEF ScannerTypes, Scan
  <2> HIDE DEF r, E, x, page
  <2>9. ScannerInv'
    BY <1>1, <1>4, <1>7, <2>3, <2>6, <2>7, StepKeepsInv DEF r, E
  <2> QED
    BY <2>3, <2>8, <2>9
<1>8. CASE Rest(a, s) = {} /\ Return(a, k, x, FALSE)
  <2>1. k = "history" => AllIn(a, E, HistoryStart, WindowStart(a))
    BY <1>1, <1>2, <1>8, HistoryComplete
  <2>2. failures' \in 0 .. MaxFailures
    BY <1>1, <1>2 DEF ScannerTypes
  <2>3. D \subseteq E
    OBVIOUS
  <2> HIDE DEF E, x
  <2>4. ScannerInv'
    BY <1>1, <1>4, <1>6, <1>8, <2>1, <2>2, <2>3, ReturnKeepsInv
  <2> QED
    BY <1>6, <1>8, <2>4, ReturnSetsCursor
<1> QED
  BY <1>7, <1>8 DEF PageReceived
\* A transaction that cannot be decoded: the ledgers before its own are read.
LEMMA PageUndecodableKeepsInv ==
    ASSUME ScannerInv, NEW a \in Accounts, NEW k \in Kinds, PageUndecodable(a, k)
    PROVE  ScannerInv' /\ scan'[a][k].cursor >= scan[a][k].cursor
<1> DEFINE s == scan[a][k]
           D == delivered[a]
           bad == {i \in Page(a, s) : ~AccountTxs[a][i].wellFormed}
           m == Min(bad)
           E == D \cup {i \in Page(a, s) : i < m}
           x == MaxLatest(s, LedgerOf(a, m) - 1)
<1>1. /\ s.pc = "paging" /\ bad # {}
      /\ delivered' = [delivered EXCEPT ![a] = E]
      /\ Return(a, k, x, TRUE)
      /\ UNCHANGED <<ledger, initialLedger, failures>>
  BY DEF PageUndecodable
<1>2. /\ s \in Scan /\ D \in SUBSET Nat /\ D \subseteq DOMAIN AccountTxs[a]
      /\ ScannerTypes
      /\ AllIn(a, D, Low(a, k), s.cursor) /\ PagingInv(a, k, s, D)
  BY <1>1, ScanFacts DEF ScanInv
<1>3. Page(a, s) \subseteq DOMAIN AccountTxs[a] /\ DOMAIN AccountTxs[a] \subseteq Nat
  BY LedgersOrdered DEF Page
<1>4. m \in Page(a, s)
  <2>1. bad \in SUBSET Nat
    BY <1>3
  <2> QED
    BY <1>1, <2>1, LeastExists
<1>5. /\ E \in SUBSET DOMAIN AccountTxs[a] /\ E \in SUBSET Nat /\ D \subseteq E
      /\ \A i \in Page(a, s) : i < m => i \in E
  BY <1>2, <1>3
<1>6. failures' \in 0 .. MaxFailures
  BY <1>1, <1>2 DEF ScannerTypes
<1> HIDE DEF bad, m, E
<1>7. /\ x \in Int /\ AllIn(a, E, Low(a, k), x) /\ x >= s.cursor
      /\ k = "recent" => x < ledger
  BY <1>2, <1>4, <1>5, NextCursor
<1> HIDE DEF x
<1>8. ScannerInv'
  BY <1>1, <1>5, <1>6, <1>7, ReturnKeepsInv
<1> QED
  BY <1>1, <1>7, <1>8, ReturnSetsCursor

\* account_tx fails: nothing is delivered, and the cursor does not fall back.
LEMMA PageFailsKeepsInv ==
    ASSUME ScannerInv, NEW a \in Accounts, NEW k \in Kinds, PageFails(a, k)
    PROVE  ScannerInv' /\ scan'[a][k].cursor >= scan[a][k].cursor
<1> DEFINE s == scan[a][k]
           D == delivered[a]
           x == MaxLatest(s, s.start - 1)
<1>1. /\ s.pc = "paging"
      /\ UNCHANGED failures \/ (failures < MaxFailures /\ failures' = failures + 1)
      /\ Return(a, k, x, TRUE)
      /\ UNCHANGED <<ledger, initialLedger, delivered>>
  BY DEF PageFails
<1>2. /\ s \in Scan /\ D \in SUBSET Nat /\ D \in SUBSET DOMAIN AccountTxs[a]
      /\ ScannerTypes
      /\ AllIn(a, D, Low(a, k), s.cursor) /\ PagingInv(a, k, s, D)
      /\ k = "recent" => s.cursor < ledger
      /\ delivered' = [delivered EXCEPT ![a] = D]
  BY <1>1, ScanFacts DEF ScanInv
<1>3. failures' \in 0 .. MaxFailures
  BY <1>1, <1>2, ScanAssumption DEF ScannerTypes
<1>4. /\ x \in Int /\ AllIn(a, D, Low(a, k), x) /\ x >= s.cursor
      /\ k = "recent" => x < ledger
  BY <1>2, SameCursor
<1> HIDE DEF x, D
<1>5. D \subseteq D /\ delivered[a] = D
  BY DEF D
<1>6. ScannerInv'
  BY <1>1, <1>2, <1>3, <1>4, <1>5, ReturnKeepsInv
<1> QED
  BY <1>1, <1>4, <1>6, ReturnSetsCursor

\* Both scans start before their first ledgers.
LEMMA SubscribeKeepsInv ==
    ASSUME ScannerInv, NEW a \in Accounts, Subscribe(a)
    PROVE  ScannerInv'
<1> DEFINE h == [Unstarted EXCEPT !.pc = "waiting", !.cursor = HistoryStart - 1]
           r == [Unstarted EXCEPT !.pc = "waiting", !.cursor = ledger - RecentBack]
<1>1. /\ initialLedger' = [initialLedger EXCEPT ![a] = ledger]
      /\ scan' = [scan EXCEPT ![a] = [history |-> h, recent |-> r]]
      /\ UNCHANGED <<ledger, delivered, gauge, failures>>
  BY DEF Subscribe
<1>2. ScannerTypes /\ ledger \in Nat
  BY DEF ScannerInv, ScannerTypes
<1>3. /\ h \in Scan /\ h.pc = "waiting" /\ h.cursor = HistoryStart - 1
      /\ r \in Scan /\ r.pc = "waiting" /\ r.cursor = ledger - RecentBack
  <2>1. Unstarted \in Scan
    BY DEF Unstarted, Scan
  <2>2. HistoryStart - 1 \in Int /\ ledger - RecentBack \in Int
    BY <1>2, ScanAssumption
  <2>3. \A c \in Int : LET s == [Unstarted EXCEPT !.pc = "waiting", !.cursor = c]
                      IN  s \in Scan /\ s.pc = "waiting" /\ s.cursor = c
    BY <2>1 DEF Scan
  <2> QED
    BY <2>2, <2>3
<1> HIDE DEF h, r
<1>4. ScannerTypes'
  <2>1. [history |-> h, recent |-> r] \in [Kinds -> Scan]
    BY <1>3 DEF Kinds
  <2> QED
    BY <1>1, <1>2, <2>1 DEF ScannerTypes
<1>5. ASSUME NEW b \in Accounts, NEW j \in Kinds
      PROVE  ScanInv(b, j, scan[b][j], delivered[b])'
  <2>1. CASE b = a
    <3>1. /\ initialLedger'[a] = ledger
          /\ scan'[a] = [history |-> h, recent |-> r]
      BY <1>1, <1>2 DEF ScannerTypes
    <3>2. \A i \in DOMAIN AccountTxs[a] : LedgerOf(a, i) \in Nat
      BY LedgersOrdered
    <3>3. CASE j = "history"
      BY <1>2, <1>3, <2>1, <3>1, <3>2, <3>3, ScanAssumption
         DEF ScanInv, AllIn, Low, LedgerOf
    <3>4. CASE j = "recent"
      BY <1>1, <1>2, <1>3, <2>1, <3>1, <3>2, <3>4, ScanAssumption
         DEF ScanInv, AllIn, Low, LedgerOf, WindowStart
    <3> QED
      BY <3>3, <3>4 DEF Kinds
  <2>2. CASE b # a
    <3>1. /\ scan'[b][j] = scan[b][j] /\ initialLedger'[b] = initialLedger[b]
          /\ delivered'[b] = delivered[b] /\ ledger' = ledger
          /\ ScanInv(b, j, scan[b][j], delivered[b])
      BY <1>1, <1>2, <2>2 DEF ScannerTypes, ScannerInv
    <3> QED
      BY <3>1 DEF ScanInv, PagingInv, AllIn, Low, WindowStart, LedgerOf, RequestLedger
  <2> QED
    BY <2>1, <2>2
<1> QED
  BY <1>4, <1>5 DEF ScannerInv

\* A ledger closes.
LEMMA CloseLedgerKeepsInv ==
    ASSUME ScannerInv, CloseLedger
    PROVE  ScannerInv'
<1>1. /\ ledger' = ledger + 1 /\ ledger \in Nat
      /\ UNCHANGED <<initialLedger, scan, delivered, gauge, failures>>
  BY DEF CloseLedger, ScannerInv, ScannerTypes
<1>2. ScannerTypes'
  BY <1>1 DEF ScannerInv, ScannerTypes
<1>3. ASSUME NEW b \in Accounts, NEW j \in Kinds
      PROVE  ScanInv(b, j, scan[b][j], delivered[b])'
  <2>1. PICK s \in Scan, D \in SUBSET Nat :
           s = scan[b][j] /\ D = delivered[b] /\ ScanInv(b, j, s, D)
    BY ScanFacts
  <2>2. ScanInv(b, j, s, D)'
    BY <1>1, <2>1, ScanUndisturbed
  <2> QED
    BY <1>1, <2>1, <2>2
       DEF ScanInv, PagingInv, AllIn, Low, WindowStart, LedgerOf, RequestLedger
<1> QED
  BY <1>2, <1>3 DEF ScannerInv
-----------------------------------------------------------------------------
(* The theorems *)

\* The invariant is kept by every step.
LEMMA ScannerInductive == ScannerInv /\ [Next]_vars => ScannerInv'
<1> SUFFICES ASSUME ScannerInv, [Next]_vars
             PROVE  ScannerInv'
  OBVIOUS
<1>1. CASE CloseLedger
  BY <1>1, CloseLedgerKeepsInv
<1>2. ASSUME NEW a \in Accounts, Subscribe(a)
      PROVE  ScannerInv'
  BY <1>2, SubscribeKeepsInv
<1>3. ASSUME NEW a \in Accounts, NEW k \in Kinds, Step(a, k) \/ PageFails(a, k)
      PROVE  ScannerInv'
  BY <1>3, BeginScanKeepsInv, PageReceivedKeepsInv, PageUndecodableKeepsInv,
     PageFailsKeepsInv DEF Step
<1>4. CASE UNCHANGED vars
  BY <1>4
     DEF vars, ScannerInv, ScannerTypes, ScanInv, PagingInv, AllIn, Low, WindowStart,
         LedgerOf, RequestLedger
<1> QED
  BY <1>1, <1>2, <1>3, <1>4 DEF Next

\* Every state the scanner reaches has the invariant.
LEMMA ScannerInvariant == Spec => []ScannerInv
<1>1. ASSUME Init
      PROVE  ScannerInv
  <2>1. Unstarted \in Scan /\ Unstarted.pc = "unstarted" /\ Unstarted.cursor = 0
    BY DEF Unstarted, Scan
  <2>2. ScannerTypes
    BY <1>1, <2>1, ScanAssumption DEF Init, ScannerTypes, Kinds
  <2>3. ASSUME NEW a \in Accounts, NEW k \in Kinds
        PROVE  ScanInv(a, k, scan[a][k], delivered[a])
    <3>1. scan[a][k] = Unstarted
      BY <1>1 DEF Init
    <3>2. AllIn(a, delivered[a], Low(a, k), 0)
      BY LedgersOrdered DEF AllIn
    <3> QED
      BY <2>1, <2>2, <3>1, <3>2 DEF ScanInv, ScannerTypes
  <2> QED
    BY <2>2, <2>3 DEF ScannerInv
<1> QED
  BY <1>1, ScannerInductive, PTL DEF Spec

\* The variables of TxScanner keep their types, and the recent scan stays
\* behind the open ledger.
THEOREM ScannerTypeCorrect == Spec => []TypeOK
<1>1. ScannerInv => TypeOK
  <2> SUFFICES ASSUME ScannerInv
               PROVE  TypeOK
    OBVIOUS
  <2>1. \A a \in Accounts : scan[a]["recent"].cursor < ledger
    BY DEF ScannerInv, ScanInv, Kinds
  <2> QED
    BY <2>1 DEF ScannerInv, ScannerTypes, TypeOK
<1> QED
  BY <1>1, ScannerInvariant, PTL

\* Neither cursor passes a transaction that was not sent to the channel,
\* whatever the page size, the position of undecodable transactions and the
\* failures of account_tx.
THEOREM CursorsSkipNothing == Spec => []CursorSkipsNothing
<1>1. ScannerInv => CursorSkipsNothing
  <2> SUFFICES ASSUME ScannerInv, NEW a \in Accounts
               PROVE  /\ Covered(a, HistoryStart, scan[a]["history"].cursor)
                      /\ Covered(a, WindowStart(a) + 1, scan[a]["recent"].cursor)
    BY DEF CursorSkipsNothing
  <2>1. /\ ScanInv(a, "history", scan[a]["history"], delivered[a])
        /\ ScanInv(a, "recent", scan[a]["recent"], delivered[a])
    BY DEF ScannerInv, Kinds
  <2> QED
    BY <2>1 DEF ScanInv, AllIn, Covered, Low
<1> QED
  BY <1>1, ScannerInvariant, PTL

\* Once Subscribe's history scan has returned without error, nothing is missing
\* between the history start and the recent scan's cursor.
THEOREM ScansLeaveNoGap == Spec => []HistoryMeetsRecent
<1>1. ScannerInv => HistoryMeetsRecent
  <2> SUFFICES ASSUME ScannerInv, NEW a \in Accounts, scan[a]["history"].pc = "done"
               PROVE  Covered(a, HistoryStart,
                              Max({WindowStart(a), scan[a]["recent"].cursor}))
    BY DEF HistoryMeetsRecent
  <2>1. /\ AllIn(a, delivered[a], HistoryStart, WindowStart(a))
        /\ AllIn(a, delivered[a], WindowStart(a) + 1, scan[a]["recent"].cursor)
    BY DEF ScannerInv, ScanInv, Kinds, Low
  <2>2. WindowStart(a) \in Int /\ scan[a]["recent"].cursor \in Int
    BY ScanAssumption DEF ScannerInv, ScannerTypes, Scan, WindowStart, Kinds
  <2>3. Max({WindowStart(a), scan[a]["recent"].cursor})
           \in {WindowStart(a), scan[a]["recent"].cursor}
    BY <2>2, MaxOfTwo
  <2>4. \A i \in DOMAIN AccountTxs[a] : LedgerOf(a, i) \in Nat
    BY LedgersOrdered
  <2> QED
    BY <2>1, <2>2, <2>3, <2>4 DEF AllIn, Covered
<1> QED
  BY <1>1, ScannerInvariant, PTL

\* The goroutines of an account run only after Subscribe has its ledger.
SubscribedInv ==
    \A a \in Accounts, k \in Kinds :
        scan[a][k].pc # "unstarted" => initialLedger[a] # 0

\* A step of the scans of an account moves one scan, which was started.
LEMMA OneScanMoves ==
    ASSUME ScannerInv, NEW a \in Accounts, NEW k \in Kinds, Step(a, k) \/ PageFails(a, k)
    PROVE  /\ scan[a][k].pc # "unstarted" /\ initialLedger' = initialLedger
           /\ \A b \in Accounts, j \in Kinds :
                 ~(b = a /\ j = k) => scan'[b][j] = scan[b][j]
<1>1. \E s : scan' = [scan EXCEPT ![a][k] = s]
  BY DEF Step, BeginScan, PageReceived, PageUndecodable, PageFails, Return
<1>2. scan[a][k].pc # "unstarted" /\ initialLedger' = initialLedger
  BY DEF Step, BeginScan, PageReceived, PageUndecodable, PageFails
<1> QED
  BY <1>1, <1>2 DEF ScannerInv, ScannerTypes

\* Started scans have a ledger they started from.
LEMMA SubscribedFirst == Spec => []SubscribedInv
<1>1. Init => SubscribedInv
  BY DEF Init, SubscribedInv, Unstarted
<1>2. ASSUME ScannerInv, SubscribedInv, [Next]_vars
      PROVE  SubscribedInv'
  <2>1. ASSUME NEW a \in Accounts, Subscribe(a)
        PROVE  SubscribedInv'
    <3>1. ledger # 0 /\ initialLedger'[a] = ledger
      BY <1>2, <2>1 DEF ScannerInv, ScannerTypes, Subscribe
    <3>2. \A b \in Accounts :
             b # a => scan'[b] = scan[b] /\ initialLedger'[b] = initialLedger[b]
      BY <1>2, <2>1 DEF ScannerInv, ScannerTypes, Subscribe
    <3> QED
      BY <1>2, <3>1, <3>2 DEF SubscribedInv
  <2>2. ASSUME NEW a \in Accounts, NEW k \in Kinds, Step(a, k) \/ PageFails(a, k)
        PROVE  SubscribedInv'
    BY <1>2, <2>2, OneScanMoves DEF SubscribedInv
  <2>3. CASE CloseLedger \/ UNCHANGED vars
    BY <1>2, <2>3 DEF CloseLedger, vars, SubscribedInv
  <2> QED
    BY <1>2, <2>1, <2>2, <2>3 DEF Next
<1> QED
  BY <1>1, <1>2, ScannerInvariant, PTL DEF Spec

\* A cursor of a scan that was started does not move back in a step.
LEMMA CursorStep ==
    ASSUME ScannerInv, SubscribedInv, [Next]_vars,
           NEW b \in Accounts, NEW j \in Kinds, scan[b][j].pc # "unstarted"
    PROVE  scan'[b][j].cursor >= scan[b][j].cursor
<1>1. scan[b][j].cursor \in Int
  BY ScanFacts DEF Scan
<1>2. ASSUME NEW a \in Accounts, Subscribe(a)
      PROVE  scan'[b][j] = scan[b][j]
  BY <1>2 DEF Subscribe, SubscribedInv, ScannerInv, ScannerTypes
<1>3. ASSUME NEW a \in Accounts, NEW k \in Kinds, Step(a, k) \/ PageFails(a, k)
      PROVE  scan'[b][j].cursor >= scan[b][j].cursor
  <2>1. CASE b = a /\ j = k
    BY <1>3, <2>1, BeginScanKeepsInv, PageReceivedKeepsInv,
       PageUndecodableKeepsInv, PageFailsKeepsInv DEF Step
  <2>2. CASE ~(b = a /\ j = k)
    BY <1>1, <1>3, <2>2, OneScanMoves
  <2> QED
    BY <2>1, <2>2
<1>4. CASE CloseLedger \/ UNCHANGED vars
  BY <1>1, <1>4 DEF CloseLedger, vars
<1> QED
  BY <1>1, <1>2, <1>3, <1>4 DEF Next

\* No step of a scan, failed or not, moves a cursor of TxScanner back.
THEOREM CursorsOnlyAdvance == Spec => CursorsAdvance
<1>1. ScannerInv /\ SubscribedInv /\ [Next]_vars =>
         [\A a \in Accounts, k \in Kinds :
             scan[a][k].pc # "unstarted" => scan'[a][k].cursor >= scan[a][k].cursor]_vars
  BY CursorStep
<1> QED
  BY <1>1, ScannerInvariant, SubscribedFirst, PTL DEF Spec, CursorsAdvance

-----------------------------------------------------------------------------
(* The gauge of the latest ledger *)

\* The gauge is zero or behind the recent cursor of every account.
GaugeInv ==
    /\ gauge >= 0
    /\ gauge # 0 => \A a \in Accounts : /\ initialLedger[a] # 0
                                        /\ gauge <= scan[a]["recent"].cursor

\* The gauge changes when a recent scan returns, to the new cursor.
LEMMA GaugeStep ==
    ASSUME ScannerInv, NEW a \in Accounts, NEW k \in Kinds, Step(a, k) \/ PageFails(a, k)
    PROVE  \/ gauge' = gauge
           \/ k = "recent" /\ gauge' = scan'[a][k].cursor /\ gauge' >= 0
<1>1. ASSUME NEW x \in Int, NEW failed, Return(a, k, x, failed)
      PROVE  \/ gauge' = gauge
             \/ k = "recent" /\ gauge' = scan'[a][k].cursor /\ gauge' >= 0
  <2>1. scan'[a][k].cursor = x
    BY <1>1, ReturnSetsCursor
  <2> QED
    BY <1>1, <2>1
       DEF Return, SetXRPLLatestAccountLedgerIndex, xrplLatestLedgerIndex
<1>2. ASSUME NEW x, NEW failed, Return(a, k, x, failed), ScannerInv'
      PROVE  x \in Int
  <2>1. scan'[a][k] \in Scan
    BY <1>2 DEF ScannerInv, ScannerTypes
  <2> QED
    BY <1>2, <2>1, ReturnSetsCursor DEF Scan
<1>3. ScannerInv'
  BY BeginScanKeepsInv, PageReceivedKeepsInv, PageUndecodableKeepsInv,
     PageFailsKeepsInv DEF Step
<1>4. gauge' = gauge \/ \E x, failed : Return(a, k, x, failed)
  <2>1. CASE BeginScan(a, k)
    BY <2>1 DEF BeginScan
  <2>2. CASE PageReceived(a, k)
    BY <2>2 DEF PageReceived
  <2>3. CASE PageUndecodable(a, k)
    BY <2>3 DEF PageUndecodable
  <2>4. CASE PageFails(a, k)
    BY <2>4 DEF PageFails
  <2> QED
    BY <2>1, <2>2, <2>3, <2>4 DEF Step
<1> QED
  BY <1>1, <1>2, <1>3, <1>4

\* What SetXRPLLatestAccountLedgerIndex promises, and does not keep when several
\* accounts are scanned, holds of a relayer that scans one account.
THEOREM GaugeOfOneAccount ==
    ASSUME \A a, b \in Accounts : a = b
    PROVE  Spec => GaugeNeverDecreases
<1>1. Init => GaugeInv
  BY DEF Init, GaugeInv
<1>2. ASSUME ScannerInv, SubscribedInv, GaugeInv, [Next]_vars
      PROVE  GaugeInv' /\ gauge' >= gauge
  <2>1. gauge \in Int
    BY <1>2 DEF ScannerInv, ScannerTypes
  <2>2. ASSUME NEW a \in Accounts, Subscribe(a)
        PROVE  GaugeInv' /\ gauge' = gauge
    <3>1. gauge' = gauge /\ initialLedger[a] = 0
      BY <2>2 DEF Subscribe
    <3>2. gauge = 0
      BY <1>2, <3>1 DEF GaugeInv
    <3> QED
      BY <3>1, <3>2 DEF GaugeInv
  <2>3. ASSUME NEW a \in Accounts, NEW k \in Kinds, Step(a, k) \/ PageFails(a, k)
        PROVE  GaugeInv' /\ gauge' >= gauge
    <3>1. /\ Accounts = {a} /\ "recent" \in Kinds
          /\ initialLedger' = initialLedger /\ initialLedger[a] # 0
      BY <1>2, <2>3, OneScanMoves DEF SubscribedInv, Kinds
    <3>2. PICK c, d : c = scan[a]["recent"].cursor /\ d = scan'[a]["recent"].cursor
      OBVIOUS
    <3>3. ScannerInv'
      BY <1>2, ScannerInductive
    <3>4. c \in Int /\ d \in Int
      BY <1>2, <3>1, <3>2, <3>3 DEF ScannerInv, ScannerTypes, Scan
    <3>5. c <= d
      <4>1. CASE k = "recent"
        BY <1>2, <2>3, <3>2, <3>4, <4>1, OneScanMoves, CursorStep
      <4>2. CASE k # "recent"
        BY <1>2, <2>3, <3>1, <3>2, <3>4, <4>2, OneScanMoves
      <4> QED
        BY <4>1, <4>2
    <3>6. gauge' = gauge \/ (gauge' = d /\ gauge' >= 0)
      BY <1>2, <2>3, <3>2, GaugeStep
    <3>7. gauge >= 0 /\ (gauge # 0 => gauge <= c)
      BY <1>2, <3>2 DEF GaugeInv
    <3>8. gauge' >= gauge /\ gauge' >= 0 /\ (gauge' # 0 => gauge' <= d)
      BY <2>1, <3>4, <3>5, <3>6, <3>7
    <3> QED
      BY <3>1, <3>2, <3>8 DEF GaugeInv
  <2>4. CASE CloseLedger \/ UNCHANGED vars
    BY <1>2, <2>1, <2>4 DEF CloseLedger, vars, GaugeInv
  <2> QED
    BY <1>2, <2>1, <2>2, <2>3, <2>4 DEF Next
<1>3. ScannerInv /\ SubscribedInv /\ GaugeInv /\ [Next]_vars
        => GaugeInv' /\ [gauge' >= gauge]_vars
  BY <1>2
<1> QED
  BY <1>1, <1>3, ScannerInvariant, SubscribedFirst, PTL DEF Spec, GaugeNeverDecreases
=============================================================================
