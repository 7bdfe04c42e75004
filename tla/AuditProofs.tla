----------------------------- MODULE AuditProofs -----------------------------
(***************************************************************************)
(* What an audit that ends with a verdict has seen, for any chain, any     *)
(* page size and any number of workers.                                    *)
(*                                                                         *)
(* The argument: the chain only grows, at its new end, and is ordered by   *)
(* time.  A page covers positions that follow the previous page without a  *)
(* gap, or overlap it when the chain has grown, so the fetched positions   *)
(* have no gap above the lowest one.  After the pages neither the chain    *)
(* nor the tasks change, and every task that was taken is being called,    *)
(* has set fetchErr, or has its transaction in the map.                    *)
(***************************************************************************)
EXTENDS Audit, DataTheorems

-----------------------------------------------------------------------------
(* Kept elements of a page *)

\* p has the kept elements of each prefix of s.
IsPrefixTable(p, s, S) ==
    p = [n \in 0 .. Len(s) |->
           IF n = 0 THEN <<>>
           ELSE IF s[n] \in S THEN Append(p[n - 1], s[n]) ELSE p[n - 1]]

\* There is such a table.
LEMMA PrefixTableExists ==
    ASSUME NEW s, Len(s) \in Nat, NEW S
    PROVE  \E p : IsPrefixTable(p, s, S)
<1> DEFINE Step(p, n) == IF n = 0 THEN <<>>
                         ELSE IF s[n] \in S THEN Append(p[n - 1], s[n]) ELSE p[n - 1]
           Table(p, m) == p = [n \in 0 .. m |-> Step(p, n)]
           Bad == {m \in Nat : ~ \E p : Table(p, m)}
<1>1. Bad = {}
  <2> SUFFICES ASSUME Bad # {} PROVE FALSE
    OBVIOUS
  <2>1. PICK m \in Bad : \A k \in Bad : m <= k
    <3>1. Bad \in SUBSET Nat
      OBVIOUS
    <3> HIDE DEF Bad
    <3> QED
      BY <3>1, LeastOf
  <2>2. m \in Nat
    OBVIOUS
  <2>3. PICK h : \A n \in 0 .. (m - 1) : h[n] = Step(h, n)
    <3>1. CASE m = 0
      <4>1. 0 .. (m - 1) = {}
        BY <3>1
      <4> QED
        BY <4>1
    <3>2. CASE m # 0
      <4>1. m - 1 \in Nat /\ ~ (m <= m - 1)
        BY <2>2, <3>2
      <4>2. m - 1 \notin Bad
        BY <2>1, <4>1
      <4>3. PICK h : Table(h, m - 1)
        BY <4>1, <4>2
      <4>4. \A n \in 0 .. (m - 1) : h[n] = Step(h, n)
        BY <4>3
      <4> QED
        BY <4>4
    <3> QED
      BY <3>1, <3>2
  <2> DEFINE p == [n \in 0 .. m |-> Step(h, n)]
  <2>4. ASSUME NEW n \in 0 .. m, n # 0
        PROVE  p[n - 1] = h[n - 1]
    <3>1. n - 1 \in 0 .. m /\ n - 1 \in 0 .. (m - 1)
      BY <2>2, <2>4
    <3>2. h[n - 1] = Step(h, n - 1)
      BY <2>3, <3>1
    <3> HIDE DEF Step
    <3> QED
      BY <3>1, <3>2
  <2>5. \A n \in 0 .. m : Step(h, n) = Step(p, n)
    <3> HIDE DEF p
    <3> QED
      BY <2>4
  <2>6. Table(p, m)
    <3> HIDE DEF Step
    <3> QED
      BY <2>5
  <2> HIDE DEF Table, p
  <2> QED
    BY <2>6
<1>2. PICK p : Table(p, Len(s))
  <2> HIDE DEF Table
  <2> QED
    BY <1>1
<1>3. IsPrefixTable(p, s, S)
  BY <1>2 DEF IsPrefixTable
<1> QED
  BY <1>3

\* The kept elements of a sequence.
LEMMA AmongIs ==
    ASSUME NEW A, NEW s \in Seq(A), NEW S
    PROVE  /\ Among(s, S) \in Seq(A)
           /\ Range(Among(s, S)) = Range(s) \cap S
           /\ IsInjective(s) => IsInjective(Among(s, S))
<1>1. Len(s) \in Nat /\ DOMAIN s = 1 .. Len(s)
  OBVIOUS
<1> DEFINE p == CHOOSE q : IsPrefixTable(q, s, S)
<1>2. IsPrefixTable(p, s, S)
  BY <1>1, PrefixTableExists
<1>3. Among(s, S) = p[Len(s)]
  BY DEF Among, IsPrefixTable
<1> HIDE DEF p
<1>4. \A n \in 0 .. Len(s) :
         p[n] = IF n = 0 THEN <<>>
                ELSE IF s[n] \in S THEN Append(p[n - 1], s[n]) ELSE p[n - 1]
  BY <1>2 DEF IsPrefixTable
<1> DEFINE Upto(n) == {x \in S : \E k \in 1 .. n : x = s[k]}
           Good(n) == /\ p[n] \in Seq(A)
                      /\ Range(p[n]) = Upto(n)
                      /\ IsInjective(s) => IsInjective(p[n])
           Bad == {n \in 0 .. Len(s) : ~ Good(n)}
<1>5. Bad = {}
  <2> SUFFICES ASSUME Bad # {} PROVE FALSE
    OBVIOUS
  <2>1. PICK n \in Bad : \A k \in Bad : n <= k
    <3>1. Bad \in SUBSET Nat
      BY <1>1
    <3> HIDE DEF Bad
    <3> QED
      BY <3>1, LeastOf
  <2>2. n \in 0 .. Len(s) /\ n \in Nat /\ ~ Good(n)
    BY <1>1
  <2>3. CASE n = 0
    <3>1. p[n] = <<>>
      BY <1>4, <2>2, <2>3
    <3>2. p[n] \in Seq(A) /\ DOMAIN p[n] = {}
      BY <3>1
    <3>3. Range(p[n]) = {} /\ IsInjective(p[n])
      BY <3>2 DEF Range, IsInjective
    <3>4. Upto(n) = {}
      BY <2>3
    <3> QED
      BY <2>2, <3>2, <3>3, <3>4
  <2>4. CASE n # 0
    <3>1. /\ n - 1 \in 0 .. Len(s) /\ ~ (n <= n - 1)
          /\ n \in 1 .. Len(s) /\ s[n] \in A
      BY <1>1, <2>2, <2>4
    <3>2. Good(n - 1)
      BY <2>1, <3>1
    <3>3. \A k \in 1 .. n : k \in 1 .. (n - 1) \/ k = n
      BY <2>2
    <3>4. \A k \in 1 .. (n - 1) : k \in 1 .. n /\ k \in 1 .. Len(s) /\ k # n
      BY <1>1, <2>2
    <3>5. n \in 1 .. n
      BY <2>2, <2>4
    <3>6. CASE s[n] \in S
      <4>1. p[n] = Append(p[n - 1], s[n])
        BY <1>4, <2>2, <2>4, <3>6
      <4>2. Upto(n) = Upto(n - 1) \cup {s[n]}
        BY <3>3, <3>4, <3>5, <3>6
      <4>3. IsInjective(s) => s[n] \notin Upto(n - 1)
        BY <1>1, <3>1, <3>4 DEF IsInjective
      <4> HIDE DEF Upto
      <4>4. /\ p[n] \in Seq(A)
            /\ Range(p[n]) = Range(p[n - 1]) \cup {s[n]}
            /\ IsInjective(p[n - 1]) /\ s[n] \notin Range(p[n - 1])
                  => IsInjective(p[n])
        BY <3>1, <3>2, <4>1, AppendIs
      <4> QED
        BY <2>2, <3>2, <4>2, <4>3, <4>4
    <3>7. CASE s[n] \notin S
      <4>1. p[n] = p[n - 1]
        BY <1>4, <2>2, <2>4, <3>7
      <4>2. Upto(n) = Upto(n - 1)
        BY <3>3, <3>4, <3>7
      <4> HIDE DEF Upto
      <4> QED
        BY <2>2, <3>2, <4>1, <4>2
    <3> QED
      BY <3>6, <3>7
  <2> QED
    BY <2>3, <2>4
<1>6. Good(Len(s))
  <2> HIDE DEF Good
  <2>1. Len(s) \in 0 .. Len(s)
    BY <1>1
  <2> QED
    BY <1>5, <2>1
<1>7. Upto(Len(s)) = Range(s) \cap S
  BY <1>1 DEF Range
<1> QED
  BY <1>3, <1>6, <1>7

-----------------------------------------------------------------------------
(* The inductive invariant of the paging *)

Places == {"waiting", "fetching", "analyzing", "lookup", "done", "failed"}

\* The transactions of a chain.
ChainTxs ==
    {[ok |-> t.ok, msgs |-> t.msgs, sent |-> t.sent, date |-> d] : t \in TxChoices, d \in Dates}

\* The chain is in the order of time.
ChainInv ==
    /\ chain \in Seq(ChainTxs)
    /\ \A i, j \in DOMAIN chain : i <= j => chain[i].date <= chain[j].date

\* The pages read so far covered the positions above this one.
Floor == Len(chain) - (page - 1) * PageSize

PagingType ==
    /\ pc \in Places
    /\ page \in Nat \ {0} /\ pagesTotal \in Nat /\ startLength \in Nat
    /\ txs \in Seq(Nat)
    /\ pc = "waiting" => txs = <<>> /\ page = 1 /\ startLength = 0
    /\ pc # "waiting" => /\ startLength <= Len(chain)
                         /\ pagesTotal = PagesFor(startLength)

\* Only transactions of the chain that are in the scope of an audit are kept.
FetchedInScope ==
    \A i \in Fetched : i \in DOMAIN chain /\ chain[i].ok /\ chain[i].date >= StartDate

\* What is missed is older than everything that was fetched.
NoGap ==
    \A i, j \in 1 .. startLength :
        InScope(i) /\ InScope(j) /\ i < j /\ i \in Fetched => j \in Fetched

\* Pages move down the chain, and so does the chain's growth move it.
CoveredAbove ==
    pc = "fetching" =>
        \A j \in 1 .. startLength : InScope(j) /\ j > Floor => j \in Fetched

\* As long as the chain does not grow, no page overlaps an earlier one.
OncePerPage ==
    pc = "fetching" /\ Len(chain) = startLength =>
        IsInjective(txs) /\ \A i \in Fetched : i > Floor

\* And the last page reaches the oldest transaction of the scope.
CompleteAtRest ==
    Complete /\ Len(chain) = startLength =>
        IsInjective(txs) /\ \A j \in 1 .. startLength : InScope(j) => j \in Fetched

PagingInv ==
    /\ PagingType /\ FetchedInScope /\ NoGap
    /\ CoveredAbove /\ OncePerPage /\ CompleteAtRest

-----------------------------------------------------------------------------
(* A page *)

LEMMA SizesType ==
    /\ PageSize \in Nat \ {0}
    /\ StartDate \in Nat
BY PageAssumption

\* One page more.
LEMMA OneMore ==
    ASSUME NEW a \in Int, NEW c \in Int
    PROVE  ((a + 1) - 1) * c = (a - 1) * c + c
<1>1. (a + 1) - 1 = (a - 1) + 1
  OBVIOUS
<1>2. ((a - 1) + 1) * c = (a - 1) * c + c
  OBVIOUS
<1> QED
  BY <1>1, <1>2

\* The pages that are counted hold all transactions there are.
LEMMA PagesHoldAll ==
    ASSUME NEW n \in Nat
    PROVE  PagesFor(n) \in Nat /\ n <= PagesFor(n) * PageSize
<1>1. PageSize \in Nat \ {0}
  BY SizesType
<1> DEFINE q == n \div PageSize
<1>2. /\ q \in Nat
      /\ q * PageSize <= n
      /\ n < (q + 1) * PageSize
  BY <1>1, QuotientBounds
<1>3. n % PageSize = 0 => n = q * PageSize
  BY <1>1
<1>4. PagesFor(n) = IF n % PageSize # 0 THEN q + 1 ELSE q
  BY <1>2 DEF PagesFor
<1>5. PICK m \in Nat, t \in Nat : m = q /\ t = q * PageSize
  BY <1>1, <1>2
<1> HIDE DEF q
<1>6. CASE n % PageSize # 0
  <2>1. PagesFor(n) = m + 1
    BY <1>4, <1>5, <1>6
  <2> QED
    BY <1>1, <1>2, <1>5, <2>1
<1>7. CASE n % PageSize = 0
  <2>1. PagesFor(n) = m /\ n = m * PageSize
    BY <1>3, <1>4, <1>5, <1>7
  <2> QED
    BY <1>5, <2>1
<1> QED
  BY <1>6, <1>7

\* The positions of the page that is read next.
LEMMA PageIs ==
    ASSUME ChainInv, PagingType
    PROVE  /\ Floor \in Int
           /\ PageOf(page) \in Seq(Nat)
           /\ IsInjective(PageOf(page))
           /\ Range(PageOf(page)) =
                {i \in DOMAIN chain : Floor - PageSize < i /\ i <= Floor}
<1>1. /\ PageSize \in Nat \ {0} /\ page \in Nat
      /\ Len(chain) \in Nat /\ DOMAIN chain = 1 .. Len(chain)
  BY SizesType DEF ChainInv, PagingType
<1>2. PICK f \in Int : f = (page - 1) * PageSize
  BY <1>1
<1>3. f >= 0
  BY <1>1, <1>2, TimesMonotone DEF PagingType
<1>4. PICK g \in Int : g = Len(chain) - f
  <2>1. Len(chain) - f \in Int
    BY <1>1
  <2> QED
    BY <2>1
<1>5. Floor = g /\ g <= Len(chain)
  BY <1>1, <1>2, <1>3, <1>4 DEF Floor
<1>6. PICK c \in Int : c = (IF g < PageSize THEN g ELSE PageSize)
  <2>1. CASE g < PageSize
    BY <2>1
  <2>2. CASE ~ (g < PageSize)
    BY <1>1, <2>2
  <2> QED
    BY <2>1, <2>2
<1>7. PICK s : s = PageOf(page)
  OBVIOUS
<1>8. s = [i \in 1 .. c |-> g + 1 - i]
  BY <1>2, <1>4, <1>6, <1>7 DEF PageOf
<1>9. c <= g /\ c <= PageSize /\ (c = g \/ c = PageSize)
  BY <1>1, <1>6
<1>10. \A i \in 1 .. c : s[i] = g + 1 - i /\ s[i] \in 1 .. Len(chain)
  <2>1. \A i \in 1 .. c : s[i] = g + 1 - i
    BY <1>8
  <2>2. \A i \in 1 .. c : g + 1 - i \in 1 .. Len(chain)
    BY <1>1, <1>5, <1>9
  <2> QED
    BY <2>1, <2>2
<1>11. PICK n \in Nat : 1 .. c = 1 .. n
  <2>1. CASE c >= 0
    BY <2>1
  <2>2. CASE ~ (c >= 0)
    <3>1. 1 .. c = 1 .. 0
      BY <2>2
    <3> QED
      BY <3>1
  <2> QED
    BY <2>1, <2>2
<1>12. s \in Seq(Nat)
  <2>1. s \in [1 .. n -> Nat]
    BY <1>8, <1>10, <1>11
  <2> QED
    BY <2>1
<1>13. IsInjective(s)
  BY <1>1, <1>8, <1>10 DEF IsInjective
<1>14. Range(s) = {i \in DOMAIN chain : Floor - PageSize < i /\ i <= Floor}
  <2>1. ASSUME NEW i \in 1 .. c
        PROVE  s[i] \in {k \in DOMAIN chain : Floor - PageSize < k /\ k <= Floor}
    BY <1>1, <1>5, <1>10, <1>9
  <2>2. ASSUME NEW k \in DOMAIN chain, Floor - PageSize < k, k <= Floor
        PROVE  \E i \in 1 .. c : s[i] = k
    <3>1. PICK i \in Int : i = g + 1 - k
      BY <1>1
    <3>2. i \in 1 .. c
      BY <1>1, <1>5, <1>9, <2>2, <3>1
    <3>3. s[i] = k
      BY <1>1, <1>10, <3>1, <3>2
    <3> QED
      BY <3>2, <3>3
  <2>3. DOMAIN s = 1 .. c
    BY <1>8
  <2> QED
    BY <2>1, <2>2, <2>3 DEF Range
<1> QED
  BY <1>5, <1>7, <1>12, <1>13, <1>14

\* What is kept of it.
LEMMA KeptIs ==
    ASSUME ChainInv, PagingType
    PROVE  /\ Kept(PageOf(page)) \in Seq(Nat)
           /\ IsInjective(Kept(PageOf(page)))
           /\ Range(Kept(PageOf(page))) =
                {i \in DOMAIN chain : /\ Floor - PageSize < i /\ i <= Floor
                                      /\ chain[i].ok /\ ~TooOld(i)}
BY PageIs, AmongIs DEF Kept

-----------------------------------------------------------------------------
(* The paging keeps its invariant *)

LEMMA InitPaging == Init => ChainInv /\ PagingInv
<1> SUFFICES ASSUME Init PROVE ChainInv /\ PagingInv
  OBVIOUS
<1>1. chain = <<>> /\ txs = <<>> /\ pc = "waiting" /\ page = 1 /\ pagesTotal = 0 /\ startLength = 0
  BY DEF Init
<1>2. DOMAIN chain = {} /\ DOMAIN txs = {} /\ chain \in Seq(ChainTxs) /\ txs \in Seq(Nat)
  BY <1>1
<1>3. ChainInv /\ Fetched = {}
  BY <1>2 DEF ChainInv, Fetched
<1>4. PagingType
  BY <1>1, <1>2 DEF PagingType, Places
<1>5. 1 .. startLength = {}
  BY <1>1
<1> QED
  BY <1>1, <1>3, <1>4, <1>5 DEF PagingInv, FetchedInScope, NoGap, CoveredAbove,
     OncePerPage, CompleteAtRest, Complete

\* A transaction of the chain.
LEMMA ChainTxType ==
    ASSUME NEW x \in ChainTxs
    PROVE  x.date \in Nat /\ x.ok \in BOOLEAN
<1>1. PICK t \in TxChoices, d \in Dates : x = [ok |-> t.ok, msgs |-> t.msgs, sent |-> t.sent, date |-> d]
  BY DEF ChainTxs
<1>2. d \in Nat
  BY SizesType DEF Dates
<1> QED
  BY <1>1, <1>2, ChoicesAssumption

\* The chain grows at its end.
LEMMA GrowIs ==
    ASSUME ChainInv, NEW t \in TxChoices, NEW d \in Dates, Grow(t, d)
    PROVE  /\ Len(chain) \in Nat /\ DOMAIN chain = 1 .. Len(chain)
           /\ Len(chain') = Len(chain) + 1
           /\ DOMAIN chain' = 1 .. (Len(chain) + 1)
           /\ \A i \in DOMAIN chain : chain'[i] = chain[i]
           /\ ChainInv'
<1>1. PICK x : x = [ok |-> t.ok, msgs |-> t.msgs, sent |-> t.sent, date |-> d]
  OBVIOUS
<1>2. x \in ChainTxs /\ x.date = d
  BY <1>1 DEF ChainTxs
<1>3. chain' = Append(chain, x)
  BY <1>1 DEF Grow, Grown
<1>4. chain \in Seq(ChainTxs)
  BY DEF ChainInv
<1>5. /\ Len(chain) \in Nat /\ DOMAIN chain = 1 .. Len(chain)
      /\ Len(chain') = Len(chain) + 1
      /\ DOMAIN chain' = 1 .. (Len(chain) + 1)
      /\ \A i \in DOMAIN chain : chain'[i] = chain[i]
      /\ chain'[Len(chain) + 1] = x
      /\ chain' \in Seq(ChainTxs)
  BY <1>2, <1>3, <1>4
<1>6. \A i \in DOMAIN chain : chain[i].date \in Nat /\ chain[i].date <= d
  <2> TAKE i \in DOMAIN chain
  <2>1. i \in 1 .. Len(chain) /\ Len(chain) \in DOMAIN chain /\ i <= Len(chain)
    BY <1>5
  <2>2. chain[i] \in ChainTxs /\ chain[Len(chain)] \in ChainTxs
    BY <1>4, <2>1
  <2>3. chain[i].date \in Nat /\ chain[Len(chain)].date \in Nat
    BY <2>2, ChainTxType
  <2>4. chain[i].date <= chain[Len(chain)].date
    BY <2>1 DEF ChainInv
  <2>5. LastDate = chain[Len(chain)].date
    BY <2>1, <1>5 DEF LastDate
  <2>6. d \in Nat /\ d >= LastDate
    BY SizesType DEF Dates, Grow
  <2> QED
    BY <2>3, <2>4, <2>5, <2>6
<1>7. d \in Nat
  BY SizesType DEF Dates
<1>8. \A i, j \in DOMAIN chain' : i <= j => chain'[i].date <= chain'[j].date
  <2> TAKE i, j \in DOMAIN chain'
  <2> HAVE i <= j
  <2>1. CASE j \in DOMAIN chain
    <3>1. i \in DOMAIN chain
      BY <1>5, <2>1
    <3> QED
      BY <1>5, <2>1, <3>1 DEF ChainInv
  <2>2. CASE j \notin DOMAIN chain
    <3>1. chain'[j].date = d
      BY <1>2, <1>5, <2>2
    <3>2. CASE i \in DOMAIN chain
      BY <1>5, <1>6, <3>1, <3>2
    <3>3. CASE i \notin DOMAIN chain
      <4>1. i = j
        BY <1>5, <2>2, <3>3
      <4> QED
        BY <1>7, <3>1, <4>1
    <3> QED
      BY <3>2, <3>3
  <2> QED
    BY <2>1, <2>2
<1> QED
  BY <1>5, <1>8 DEF ChainInv

LEMMA GrowKeepsPaging ==
    ASSUME ChainInv, PagingInv, NEW t \in TxChoices, NEW d \in Dates, Grow(t, d)
    PROVE  PagingInv'
<1>1. /\ Len(chain) \in Nat /\ DOMAIN chain = 1 .. Len(chain)
      /\ Len(chain') = Len(chain) + 1
      /\ DOMAIN chain' = 1 .. (Len(chain) + 1)
      /\ \A i \in DOMAIN chain : chain'[i] = chain[i]
  BY GrowIs
<1>2. /\ pc' = pc /\ page' = page /\ pagesTotal' = pagesTotal /\ txs' = txs
      /\ startLength' = startLength
      /\ pc \in {"waiting", "fetching"}
  BY DEF Grow, pageVars
<1>3. PagingType
  BY DEF PagingInv
<1>4. Fetched' = Fetched
  BY <1>2 DEF Fetched
<1>5. startLength \in Nat /\ startLength <= Len(chain)
  BY <1>1, <1>2, <1>3 DEF PagingType
<1>6. \A i \in 1 .. startLength : i \in DOMAIN chain /\ i \in DOMAIN chain'
  BY <1>1, <1>5
<1>7. \A i \in 1 .. startLength : InScope(i)' <=> InScope(i)
  BY <1>1, <1>2, <1>6 DEF InScope
<1>8. PagingType'
  BY <1>1, <1>2, <1>3, <1>5 DEF PagingType
<1>9. FetchedInScope'
  BY <1>1, <1>4 DEF FetchedInScope, PagingInv
<1>10. NoGap'
  BY <1>2, <1>4, <1>7 DEF NoGap, PagingInv
<1>11. Floor \in Int /\ Floor' = Floor + 1
  <2>1. PICK f \in Int : f = (page - 1) * PageSize
    BY <1>3, SizesType DEF PagingType
  <2> QED
    BY <1>1, <1>2, <2>1 DEF Floor
<1>12. CoveredAbove'
  BY <1>2, <1>4, <1>7, <1>11 DEF CoveredAbove, PagingInv
<1>13. OncePerPage' /\ CompleteAtRest'
  <2>1. Len(chain') # startLength'
    BY <1>1, <1>2, <1>5
  <2> QED
    BY <2>1 DEF OncePerPage, CompleteAtRest
<1> QED
  BY <1>8, <1>9, <1>10, <1>12, <1>13 DEF PagingInv

LEMMA CountPagesKeepsPaging ==
    ASSUME ChainInv, PagingInv, CountPages
    PROVE  PagingInv'
<1>1. /\ pc = "waiting" /\ pc' = "fetching" /\ chain' = chain
      /\ page' = page /\ txs' = txs
      /\ startLength' = Len(chain) /\ pagesTotal' = PagesFor(Len(chain))
  BY DEF CountPages
<1>2. Len(chain) \in Nat
  BY DEF ChainInv
<1>3. page = 1 /\ txs = <<>>
  BY <1>1 DEF PagingInv, PagingType
<1>4. DOMAIN txs' = {} /\ Fetched' = {} /\ IsInjective(txs') /\ txs' \in Seq(Nat)
  BY <1>1, <1>3 DEF Fetched, IsInjective
<1>5. Floor' = Len(chain)
  <2>1. (1 - 1) * PageSize = 0
    BY SizesType
  <2> QED
    BY <1>1, <1>2, <1>3, <2>1 DEF Floor
<1>6. PagingType'
  BY <1>1, <1>2, <1>3, <1>4, PagesHoldAll DEF PagingType, Places
<1>7. \A j \in 1 .. startLength' : ~ (j > Floor')
  BY <1>1, <1>2, <1>5
<1> QED
  BY <1>1, <1>4, <1>6, <1>7 DEF PagingInv, FetchedInScope, NoGap, CoveredAbove,
     OncePerPage, CompleteAtRest, Complete

\* The steps that read no page.
LEMMA OthersKeepPaging ==
    ASSUME ChainInv, PagingInv, chain' = chain, UNCHANGED pageVars,
           \/ pc' = pc
           \/ pc # "waiting" /\ pc' = "failed"
           \/ Complete /\ pc' \in {"lookup", "done"}
    PROVE  ChainInv' /\ PagingInv'
<1>1. page' = page /\ pagesTotal' = pagesTotal /\ txs' = txs /\ startLength' = startLength
  BY DEF pageVars
<1>2. Fetched' = Fetched /\ Floor' = Floor /\ ChainInv'
  BY <1>1 DEF Fetched, Floor, ChainInv
<1>3. \A i : InScope(i)' <=> InScope(i)
  BY <1>1 DEF InScope
<1>4. Complete' => Complete
  BY DEF Complete
<1>5. pc' = "fetching" => pc = "fetching"
  OBVIOUS
<1>6. PagingType'
  BY <1>1 DEF PagingInv, PagingType, Places, Complete
<1>7. FetchedInScope' /\ NoGap'
  BY <1>1, <1>2, <1>3 DEF PagingInv, FetchedInScope, NoGap
<1>8. CoveredAbove' /\ OncePerPage'
  BY <1>1, <1>2, <1>3, <1>5 DEF PagingInv, CoveredAbove, OncePerPage
<1>9. CompleteAtRest'
  BY <1>1, <1>2, <1>3, <1>4 DEF PagingInv, CompleteAtRest
<1> QED
  BY <1>2, <1>6, <1>7, <1>8, <1>9 DEF PagingInv

\* All pages were read.
LEMMA LastPageKeepsPaging ==
    ASSUME ChainInv, PagingInv, FetchPage, page > pagesTotal
    PROVE  PagingInv'
<1>1. /\ pc = "fetching" /\ pc' = "analyzing" /\ chain' = chain
      /\ pagesTotal' = pagesTotal /\ startLength' = startLength
      /\ page' = page /\ txs' = txs
  <2>1. page \in Nat /\ pagesTotal \in Nat
    BY DEF PagingInv, PagingType
  <2>2. ~ (page <= pagesTotal)
    BY <2>1
  <2> QED
    BY <2>2 DEF FetchPage
<1>2. Fetched' = Fetched
  BY <1>1 DEF Fetched
<1>3. \A i : InScope(i)' <=> InScope(i)
  BY <1>1 DEF InScope
<1>4. PagingType'
  BY <1>1 DEF PagingInv, PagingType, Places
<1>5. FetchedInScope' /\ NoGap'
  BY <1>1, <1>2, <1>3 DEF PagingInv, FetchedInScope, NoGap
<1>6. CompleteAtRest'
  <2> SUFFICES ASSUME Len(chain) = startLength
               PROVE  /\ IsInjective(txs)
                      /\ \A j \in 1 .. startLength : InScope(j) => j \in Fetched
    BY <1>1, <1>2, <1>3 DEF CompleteAtRest
  <2>1. /\ page \in Nat /\ pagesTotal \in Nat /\ startLength \in Nat
        /\ pagesTotal = PagesFor(startLength)
    BY <1>1 DEF PagingInv, PagingType
  <2>2. startLength <= pagesTotal * PageSize
    BY <2>1, PagesHoldAll
  <2>3. pagesTotal * PageSize <= (page - 1) * PageSize
    <3>1. page - 1 \in Int /\ pagesTotal <= page - 1
      BY <2>1
    <3> QED
      BY <2>1, <3>1, TimesMonotone, SizesType
  <2>4. PICK f \in Int : f = (page - 1) * PageSize
    BY <2>1, SizesType
  <2>5. PICK g \in Int : g = pagesTotal * PageSize
    BY <2>1, SizesType
  <2>6. Floor = startLength - f
    BY <2>4 DEF Floor
  <2>7. \A j \in 1 .. startLength : j > Floor
    BY <2>1, <2>2, <2>3, <2>4, <2>5, <2>6
  <2> QED
    BY <1>1, <2>7 DEF PagingInv, CoveredAbove, OncePerPage
<1>7. CoveredAbove' /\ OncePerPage'
  BY <1>1 DEF CoveredAbove, OncePerPage
<1> QED
  BY <1>4, <1>5, <1>6, <1>7 DEF PagingInv

\* A page is read.
LEMMA ReadPageKeepsPaging ==
    ASSUME ChainInv, PagingInv, FetchPage, page <= pagesTotal
    PROVE  PagingInv'
<1> DEFINE positions == PageOf(page)
           old == \E k \in DOMAIN positions : TooOld(positions[k])
<1>1. /\ pc = "fetching" /\ chain' = chain
      /\ pagesTotal' = pagesTotal /\ startLength' = startLength
      /\ page' = page + 1 /\ txs' = txs \o Kept(positions)
      /\ pc' = IF old THEN "analyzing" ELSE "fetching"
  <2>1. page \in Nat /\ pagesTotal \in Nat
    BY DEF PagingInv, PagingType
  <2>2. ~ (page > pagesTotal)
    BY <2>1
  <2> QED
    BY <2>2 DEF FetchPage
<1>2. /\ page \in Nat \ {0} /\ startLength \in Nat /\ startLength <= Len(chain)
      /\ txs \in Seq(Nat) /\ Len(chain) \in Nat /\ DOMAIN chain = 1 .. Len(chain)
      /\ PageSize \in Nat \ {0} /\ StartDate \in Nat
      /\ PagingType /\ FetchedInScope /\ NoGap /\ CoveredAbove /\ OncePerPage
  BY <1>1, SizesType DEF PagingInv, PagingType, ChainInv
<1>3. PICK kept : kept = Kept(positions)
  OBVIOUS
<1>4. /\ kept \in Seq(Nat) /\ IsInjective(kept)
      /\ Range(kept) = {i \in DOMAIN chain : /\ Floor - PageSize < i /\ i <= Floor
                                             /\ chain[i].ok /\ ~TooOld(i)}
  BY <1>2, <1>3, KeptIs
<1>5. Floor \in Int /\ Floor' = Floor - PageSize
  <2>1. PICK f \in Int : f = (page - 1) * PageSize
    BY <1>2
  <2>2. ((page + 1) - 1) * PageSize = f + PageSize
    BY <1>2, <2>1, OneMore
  <2> QED
    BY <1>1, <1>2, <2>1, <2>2 DEF Floor
<1>6. Fetched = Range(txs) /\ Fetched' = Range(txs')
  BY DEF Fetched, Range
<1>7. /\ txs' \in Seq(Nat)
      /\ Fetched' = Fetched \cup Range(kept)
      /\ /\ IsInjective(txs)
         /\ \A x \in Fetched : x \notin Range(kept)
         => IsInjective(txs')
  <2>1. txs' = txs \o kept
    BY <1>1, <1>3
  <2> QED
    BY <1>2, <1>4, <1>6, <2>1, ConcatIs
<1>8. \A i : InScope(i)' <=> InScope(i)
  BY <1>1 DEF InScope
<1>9. \A i \in DOMAIN chain : chain[i].date \in Nat
  BY <1>2, ChainTxType DEF ChainInv
<1>10. \A i \in DOMAIN chain : TooOld(i) <=> ~ (chain[i].date >= StartDate)
  BY <1>2, <1>9 DEF TooOld
<1>11. \A j \in 1 .. startLength :
          InScope(j) /\ j > Floor - PageSize => j \in Fetched'
  <2> TAKE j \in 1 .. startLength
  <2> HAVE InScope(j) /\ j > Floor - PageSize
  <2>1. CASE j > Floor
    BY <1>1, <1>2, <1>7, <2>1 DEF CoveredAbove
  <2>2. CASE ~ (j > Floor)
    <3>1. j \in DOMAIN chain /\ j <= Floor /\ Floor - PageSize < j
      BY <1>2, <1>5, <2>2
    <3>2. chain[j].ok /\ ~TooOld(j)
      BY <1>10, <3>1 DEF InScope
    <3> QED
      BY <1>4, <1>7, <3>1, <3>2
  <2> QED
    BY <2>1, <2>2
<1>12. PagingType'
  <2>1. page + 1 \in Nat \ {0}
    BY <1>2
  <2> QED
    BY <1>1, <1>2, <1>7, <2>1 DEF PagingType, Places
<1>13. FetchedInScope'
  BY <1>1, <1>2, <1>4, <1>7, <1>10 DEF FetchedInScope
<1>14. NoGap'
  <2> SUFFICES ASSUME NEW i \in 1 .. startLength, NEW j \in 1 .. startLength,
                      InScope(i), InScope(j), i < j, i \in Fetched'
               PROVE  j \in Fetched'
    BY <1>1, <1>8 DEF NoGap
  <2>1. CASE i \in Fetched
    BY <1>2, <1>7, <2>1 DEF NoGap
  <2>2. CASE i \in Range(kept)
    <3>1. i > Floor - PageSize
      BY <1>2, <1>4, <1>5, <2>2
    <3>2. j > Floor - PageSize
      BY <1>2, <1>5, <3>1
    <3> QED
      BY <1>11, <3>2
  <2> QED
    BY <1>7, <2>1, <2>2
<1>15. CoveredAbove'
  BY <1>1, <1>5, <1>8, <1>11 DEF CoveredAbove
<1>16. ASSUME Len(chain) = startLength
       PROVE  IsInjective(txs') /\ \A i \in Fetched' : i > Floor - PageSize
  <2>1. IsInjective(txs) /\ \A i \in Fetched : i > Floor
    BY <1>1, <1>2, <1>16 DEF OncePerPage
  <2>2. Fetched \subseteq DOMAIN chain
    BY <1>2 DEF FetchedInScope
  <2>3. \A x \in Fetched : x \notin Range(kept) /\ x > Floor - PageSize
    BY <1>2, <1>4, <1>5, <2>1, <2>2
  <2>4. \A x \in Range(kept) : x > Floor - PageSize
    BY <1>2, <1>4, <1>5
  <2> QED
    BY <1>7, <2>1, <2>3, <2>4
<1>17. OncePerPage'
  BY <1>1, <1>5, <1>16 DEF OncePerPage
<1>18. CompleteAtRest'
  <2> SUFFICES ASSUME Complete', Len(chain) = startLength
               PROVE  /\ IsInjective(txs')
                      /\ \A j \in 1 .. startLength : InScope(j) => j \in Fetched'
    BY <1>1, <1>8 DEF CompleteAtRest
  <2>1. old
    BY <1>1 DEF Complete
  <2>2. PICK k \in DOMAIN positions : TooOld(positions[k])
    BY <2>1
  <2>3. PICK o : o = positions[k]
    OBVIOUS
  <2>4. o \in DOMAIN chain /\ Floor - PageSize < o /\ TooOld(o)
    <3>1. o \in Range(positions)
      BY <2>2, <2>3 DEF Range
    <3> QED
      BY <1>2, <2>2, <2>3, <3>1, PageIs
  <2>5. ASSUME NEW j \in 1 .. startLength, InScope(j)
        PROVE  j \in Fetched'
    <3>1. j \in DOMAIN chain /\ chain[j].date >= StartDate
      BY <1>2, <2>5 DEF InScope
    <3>2. ~ (j <= o)
      <4> SUFFICES ASSUME j <= o PROVE FALSE
        OBVIOUS
      <4>1. chain[j].date <= chain[o].date
        BY <2>4, <3>1 DEF ChainInv
      <4> QED
        BY <1>2, <1>9, <1>10, <2>4, <3>1, <4>1
    <3>3. j > Floor - PageSize
      BY <1>2, <1>5, <2>4, <3>1, <3>2
    <3> QED
      BY <1>11, <2>5, <3>3
  <2> QED
    BY <1>16, <2>5
<1> QED
  BY <1>12, <1>13, <1>14, <1>15, <1>17, <1>18 DEF PagingInv

LEMMA NextKeepsPaging ==
    ASSUME ChainInv, PagingInv, [Next]_vars
    PROVE  ChainInv' /\ PagingInv'
<1>1. CASE \E t \in TxChoices, d \in Dates : Grow(t, d)
  BY <1>1, GrowIs, GrowKeepsPaging
<1>2. CASE CountPages
  <2>1. ChainInv'
    BY <1>2 DEF CountPages, ChainInv
  <2> QED
    BY <1>2, <2>1, CountPagesKeepsPaging
<1>3. CASE FetchPage
  <2>1. ChainInv'
    BY <1>3 DEF FetchPage, ChainInv
  <2>2. page > pagesTotal \/ page <= pagesTotal
    BY DEF PagingInv, PagingType
  <2> QED
    BY <1>3, <2>1, <2>2, LastPageKeepsPaging, ReadPageKeepsPaging
<1>4. CASE QueryFails
  BY <1>4, OthersKeepPaging DEF QueryFails
<1>5. CASE BuildReport
  BY <1>5, OthersKeepPaging DEF BuildReport, Complete
<1>6. CASE \E r \in Requests : TakeTask(r)
  BY <1>6, OthersKeepPaging DEF TakeTask
<1>7. CASE \E r \in calling : LookupReturns(r)
  BY <1>7, OthersKeepPaging DEF LookupReturns
<1>8. CASE Compare
  BY <1>8, OthersKeepPaging DEF Compare, Complete
<1>9. CASE UNCHANGED vars
  BY <1>9, OthersKeepPaging DEF vars
<1> QED
  BY <1>1, <1>2, <1>3, <1>4, <1>5, <1>6, <1>7, <1>8, <1>9 DEF Next

LEMMA PagingInvariant == Spec => [](ChainInv /\ PagingInv)
<1>1. ChainInv /\ PagingInv /\ [Next]_vars => (ChainInv /\ PagingInv)'
  BY NextKeepsPaging
<1> QED
  BY <1>1, InitPaging, PTL DEF Spec

-----------------------------------------------------------------------------
(* What is fetched *)

\* GetSpendingTransactions loses no transaction between two it returns, however
\* the chain grows between its queries.
THEOREM MissedAreOldest == Spec => []MissesOnlyOldest
<1>1. ChainInv /\ PagingInv => MissesOnlyOldest
  BY DEF PagingInv, NoGap, MissesOnlyOldest
<1> QED
  BY <1>1, PagingInvariant, PTL

\* GetSpendingTransactions of a chain that does not grow meanwhile returns the
\* successful transactions since the start date, each once.
THEOREM ChainAtRestIsFetched == Spec => []FetchesAll
<1>1. ASSUME ChainInv, PagingInv, Complete, Len(chain) = startLength
      PROVE  /\ \A i \in 1 .. startLength : InScope(i) <=> i \in Fetched
             /\ Len(txs) = Cardinality(Fetched)
  <2>1. /\ IsInjective(txs) /\ txs \in Seq(Nat)
        /\ \A i \in 1 .. startLength : InScope(i) => i \in Fetched
    BY <1>1 DEF PagingInv, PagingType, CompleteAtRest
  <2>2. Fetched = Range(txs)
    BY DEF Fetched, Range
  <2>3. Len(txs) = Cardinality(Fetched)
    BY <2>1, <2>2, InjectiveLength
  <2>4. \A i \in 1 .. startLength : i \in Fetched => InScope(i)
    BY <1>1 DEF PagingInv, FetchedInScope, InScope
  <2> QED
    BY <2>1, <2>3, <2>4
<1>2. ChainInv /\ PagingInv => FetchesAll
  BY <1>1 DEF FetchesAll
<1> QED
  BY <1>2, PagingInvariant, PTL

-----------------------------------------------------------------------------
(* The inductive invariant of the lookups *)

\* What a verdict says of requests whose lookups all succeeded.
Verdict == {d \in ContractCallDiscrepancies
                    \cup UNION {XrplDiscrepancies(Request(r)) : r \in Requests}
            : ~IsKnown(d)}

\* No task before the report of the calls, none in progress after the verdict.
TasksInPlace ==
    /\ calling \subseteq taken
    /\ pc \in {"waiting", "fetching", "analyzing"} => taken = {}
    /\ pc = "done" => calling = {}

\* A task that was taken is in progress, or failed, or has its answer in the
\* map; what is in the map was found.
TasksAnswered ==
    /\ \A r \in taken : r \in calling \/ fetchErr \/ Hash(r) \in xrplTxs
    /\ \A h \in xrplTxs : Xrpl[h].found

\* The report is about the requests as they are.
ReportInv ==
    /\ pc = "lookup" => report = ContractCallDiscrepancies
    /\ pc = "done" => /\ \A r \in Requests : Hash(r) \in xrplTxs
                      /\ report = Verdict

LookupInv == TasksInPlace /\ TasksAnswered /\ ReportInv

LEMMA InitLookup == Init => LookupInv
BY DEF Init, LookupInv, TasksInPlace, TasksAnswered, ReportInv

\* Once the pages are read, the requests stay the same.
LEMMA RequestsStay ==
    ASSUME chain' = chain, txs' = txs
    PROVE  /\ Requests' = Requests
           /\ \A r : Hash(r)' = Hash(r)
           /\ ContractCallDiscrepancies' = ContractCallDiscrepancies
           /\ xrplTxs' = xrplTxs => Verdict' = Verdict
<1>1. \A i : Sends(i)' = Sends(i) /\ SentCoins(i)' = SentCoins(i)
  BY DEF Sends, SentCoins
<1>2. Requests' = Requests
  BY <1>1 DEF Requests
<1>3. \A r : Request(r)' = Request(r)
  BY DEF Request
<1>4. \A r : Hash(r)' = Hash(r)
  BY <1>3 DEF Hash
<1>5. ContractCallDiscrepancies' = ContractCallDiscrepancies
  BY <1>1, <1>2, <1>3 DEF ContractCallDiscrepancies
<1>6. xrplTxs' = xrplTxs => \A r : XrplDiscrepancies(Request(r))' = XrplDiscrepancies(Request(r))
  BY <1>3 DEF XrplDiscrepancies
<1>7. xrplTxs' = xrplTxs => Verdict' = Verdict
  BY <1>2, <1>5, <1>6 DEF Verdict, IsKnown
<1> QED
  BY <1>2, <1>4, <1>5, <1>7

\* The steps before the lookups.
LEMMA PagesKeepLookup ==
    ASSUME LookupInv, UNCHANGED <<lookupVars, report>>,
           pc \in {"waiting", "fetching"},
           pc' \in {"waiting", "fetching", "analyzing", "failed"}
    PROVE  LookupInv'
BY DEF LookupInv, TasksInPlace, TasksAnswered, ReportInv, lookupVars

LEMMA BuildReportKeepsLookup ==
    ASSUME LookupInv, BuildReport
    PROVE  LookupInv'
<1>1. chain' = chain /\ txs' = txs /\ UNCHANGED lookupVars /\ pc = "analyzing"
  BY DEF BuildReport, pageVars
<1>2. \/ pc' = "lookup" /\ report' = ContractCallDiscrepancies
      \/ pc' = "failed"
  BY DEF BuildReport
<1> QED
  BY <1>1, <1>2, RequestsStay
     DEF LookupInv, TasksInPlace, TasksAnswered, ReportInv, lookupVars

LEMMA TakeTaskKeepsLookup ==
    ASSUME LookupInv, NEW r \in Requests, TakeTask(r)
    PROVE  LookupInv'
<1>1. /\ chain' = chain /\ txs' = txs /\ pc = "lookup" /\ pc' = pc
      /\ fetchErr' = fetchErr /\ xrplTxs' = xrplTxs /\ report' = report
      /\ taken' = taken \cup {r}
      /\ \/ fetchErr /\ calling' = calling
         \/ calling' = calling \cup {r}
  BY DEF TakeTask, pageVars
<1>2. TasksInPlace'
  BY <1>1 DEF LookupInv, TasksInPlace
<1>3. TasksAnswered'
  BY <1>1, RequestsStay DEF LookupInv, TasksAnswered
<1>4. ReportInv'
  BY <1>1, RequestsStay DEF LookupInv, ReportInv
<1> QED
  BY <1>2, <1>3, <1>4 DEF LookupInv

LEMMA LookupReturnsKeepsLookup ==
    ASSUME LookupInv, NEW r \in calling, LookupReturns(r)
    PROVE  LookupInv'
<1>1. /\ chain' = chain /\ txs' = txs /\ pc' = pc
      /\ report' = report /\ taken' = taken /\ calling' = calling \ {r}
      /\ \/ Xrpl[Hash(r)].found /\ xrplTxs' = xrplTxs \cup {Hash(r)} /\ fetchErr' = fetchErr
         \/ fetchErr' = TRUE /\ xrplTxs' = xrplTxs
  BY DEF LookupReturns, pageVars
<1>2. pc # "done" /\ r \in taken
  BY DEF LookupInv, TasksInPlace
<1>3. TasksInPlace'
  BY <1>1 DEF LookupInv, TasksInPlace
<1>4. TasksAnswered'
  BY <1>1, RequestsStay DEF LookupInv, TasksAnswered
<1>5. ReportInv'
  BY <1>1, <1>2, RequestsStay DEF LookupInv, ReportInv
<1> QED
  BY <1>3, <1>4, <1>5 DEF LookupInv

LEMMA CompareKeepsLookup ==
    ASSUME LookupInv, Compare
    PROVE  LookupInv'
<1>1. /\ chain' = chain /\ txs' = txs /\ pc = "lookup"
      /\ taken' = taken /\ calling' = calling /\ fetchErr' = fetchErr
      /\ xrplTxs' = xrplTxs
      /\ taken = Requests /\ calling = {}
  BY DEF Compare, pageVars, lookupVars
<1>2. TasksInPlace' /\ TasksAnswered'
  BY <1>1, RequestsStay DEF LookupInv, TasksInPlace, TasksAnswered, Compare
<1>3. CASE pc' = "failed"
  BY <1>2, <1>3 DEF LookupInv, ReportInv
<1>4. CASE pc' = "done" /\ ~fetchErr
  <2>1. report = ContractCallDiscrepancies
    BY <1>1 DEF LookupInv, ReportInv
  <2>2. report' = Verdict
    BY <1>4, <2>1 DEF Compare, Verdict
  <2>3. \A r \in Requests : Hash(r) \in xrplTxs
    BY <1>1, <1>4 DEF LookupInv, TasksAnswered
  <2> QED
    BY <1>1, <1>2, <1>4, <2>2, <2>3, RequestsStay DEF LookupInv, ReportInv
<1> QED
  BY <1>3, <1>4 DEF Compare

LEMMA NextKeepsLookup ==
    ASSUME LookupInv, [Next]_vars
    PROVE  LookupInv'
<1>1. CASE \E t \in TxChoices, d \in Dates : Grow(t, d)
  BY <1>1, PagesKeepLookup DEF Grow
<1>2. CASE CountPages
  BY <1>2, PagesKeepLookup DEF CountPages
<1>3. CASE FetchPage
  BY <1>3, PagesKeepLookup DEF FetchPage
<1>4. CASE QueryFails
  BY <1>4, PagesKeepLookup DEF QueryFails
<1>5. CASE BuildReport
  BY <1>5, BuildReportKeepsLookup
<1>6. CASE \E r \in Requests : TakeTask(r)
  BY <1>6, TakeTaskKeepsLookup
<1>7. CASE \E r \in calling : LookupReturns(r)
  BY <1>7, LookupReturnsKeepsLookup
<1>8. CASE Compare
  BY <1>8, CompareKeepsLookup
<1>9. CASE UNCHANGED vars
  BY <1>9, RequestsStay
     DEF vars, lookupVars, pageVars, LookupInv, TasksInPlace, TasksAnswered, ReportInv
<1> QED
  BY <1>1, <1>2, <1>3, <1>4, <1>5, <1>6, <1>7, <1>8, <1>9 DEF Next

LEMMA LookupInvariant == Spec => []LookupInv
BY InitLookup, NextKeepsLookup, PTL DEF Spec

-----------------------------------------------------------------------------
(* What the verdict says *)

\* A transaction in the map is not missing, so only the other discrepancies are
\* found for its message.
LEMMA DiscrepanciesOfFound ==
    ASSUME NEW m, m.id \in xrplTxs
    PROVE  \A d : d \in XrplDiscrepancies(m) <=>
             \/ /\ d = [type |-> "InvalidRecipient", id |-> m.id]
                /\ m.recipient # Xrpl[m.id].recipient
             \/ /\ d = [type |-> "NotBurningTransfer", id |-> m.id]
                /\ ~ Xrpl[m.id].burning
             \/ /\ d = [type |-> "AmountMismatch", id |-> m.id]
                /\ m.amount # Xrpl[m.id].amount
BY DEF XrplDiscrepancies

\* Whatever the order in which workers take tasks and answers come, and whether
\* or not they see each other's error, an audit that ends with a verdict found
\* the XRPL transaction of every request.
THEOREM VerdictIsComplete == Spec => []VerdictNeedsEveryLookup
<1>1. ASSUME LookupInv, pc = "done"
      PROVE  /\ \A r \in Requests : Xrpl[Request(r).id].found
             /\ \A d \in report : d.type # "OrphanCoreumTx"
  <2>1. /\ \A r \in Requests : Hash(r) \in xrplTxs
        /\ \A h \in xrplTxs : Xrpl[h].found
        /\ report = Verdict
    BY <1>1 DEF LookupInv, TasksAnswered, ReportInv
  <2>2. \A r \in Requests : Request(r).id \in xrplTxs
    BY <2>1 DEF Hash
  <2>3. ASSUME NEW d \in report PROVE d.type # "OrphanCoreumTx"
    <3>1. \/ d \in ContractCallDiscrepancies
          \/ \E r \in Requests : d \in XrplDiscrepancies(Request(r))
      BY <2>1 DEF Verdict
    <3>2. CASE d \in ContractCallDiscrepancies
      BY <3>2 DEF ContractCallDiscrepancies
    <3>3. CASE \E r \in Requests : d \in XrplDiscrepancies(Request(r))
      <4>1. PICK r \in Requests : d \in XrplDiscrepancies(Request(r))
        BY <3>3
      <4>2. PICK m : m = Request(r)
        OBVIOUS
      <4>3. m.id \in xrplTxs /\ d \in XrplDiscrepancies(m)
        BY <2>2, <4>1, <4>2
      <4> QED
        BY <4>3, DiscrepanciesOfFound
    <3> QED
      BY <3>1, <3>2, <3>3
  <2> QED
    BY <2>1, <2>2, <2>3
<1>2. LookupInv => VerdictNeedsEveryLookup
  BY <1>1 DEF VerdictNeedsEveryLookup
<1> QED
  BY <1>2, LookupInvariant, PTL

\* The audit of a chain at rest reports every piece of evidence since the start
\* date that does not agree with the XRP Ledger.
THEOREM AuditIsExhaustive == Spec => []DisagreementsReported
<1>1. ASSUME ChainInv, PagingInv, LookupInv, pc = "done", Len(chain) = startLength,
             NEW i \in 1 .. startLength, InScope(i),
             NEW j \in Sends(i), ~Agrees(chain[i].msgs[j])
      PROVE  \E d \in report : d.id = chain[i].msgs[j].id
  <2>1. i \in Fetched
    BY <1>1 DEF PagingInv, CompleteAtRest, Complete
  <2>2. PICK k \in DOMAIN txs : txs[k] = i
    BY <2>1 DEF Fetched
  <2>3. PICK r : r = <<k, j>>
    OBVIOUS
  <2>4. r \in Requests
    BY <1>1, <2>2, <2>3 DEF Requests
  <2>5. PICK m : m = chain[i].msgs[j]
    OBVIOUS
  <2>6. Request(r) = m
    BY <2>2, <2>3, <2>5 DEF Request
  <2>7. m.id \in xrplTxs /\ Xrpl[m.id].found /\ report = Verdict
    BY <1>1, <2>4, <2>6 DEF LookupInv, TasksAnswered, ReportInv, Hash
  <2>8. \A d \in XrplDiscrepancies(m) : ~IsKnown(d) => d \in report
    BY <2>4, <2>6, <2>7 DEF Verdict
  <2>9. \/ ~ Xrpl[m.id].burning
        \/ m.recipient # Xrpl[m.id].recipient
        \/ m.amount # Xrpl[m.id].amount /\ m.id \notin Known
    BY <1>1, <2>5, <2>7 DEF Agrees
  <2>10. PICK d \in XrplDiscrepancies(m) : ~IsKnown(d) /\ d.id = m.id
    <3>1. CASE ~ Xrpl[m.id].burning
      <4>1. PICK d : d = [type |-> "NotBurningTransfer", id |-> m.id]
        OBVIOUS
      <4> QED
        BY <2>7, <3>1, <4>1, DiscrepanciesOfFound DEF IsKnown
    <3>2. CASE m.recipient # Xrpl[m.id].recipient
      <4>1. PICK d : d = [type |-> "InvalidRecipient", id |-> m.id]
        OBVIOUS
      <4> QED
        BY <2>7, <3>2, <4>1, DiscrepanciesOfFound DEF IsKnown
    <3>3. CASE m.amount # Xrpl[m.id].amount /\ m.id \notin Known
      <4>1. PICK d : d = [type |-> "AmountMismatch", id |-> m.id]
        OBVIOUS
      <4> QED
        BY <2>7, <3>3, <4>1, DiscrepanciesOfFound DEF IsKnown
    <3> QED
      BY <2>9, <3>1, <3>2, <3>3
  <2> QED
    BY <2>5, <2>8, <2>10
<1>2. ChainInv /\ PagingInv /\ LookupInv => DisagreementsReported
  BY <1>1 DEF DisagreementsReported
<1> QED
  BY <1>2, PagingInvariant, LookupInvariant, PTL

\* The audit of a sound chain at rest reports nothing.
THEOREM NoFalseAlarm == Spec => []SoundChainAtRestPasses
<1> DEFINE sends == UNION {{i} \X Sends(i) : i \in DOMAIN chain}
           Msg(s) == chain[s[1]].msgs[s[2]]
<1>1. ASSUME ChainInv, PagingInv, LookupInv, pc = "done", Len(chain) = startLength, Sound,
             NEW d \in report
      PROVE  FALSE
  <2>1. /\ \A s \in sends : Agrees(Msg(s)) /\ Cardinality(SentCoins(s[1])) = 1
        /\ \A s, r \in sends : Msg(s).id = Msg(r).id => s = r
    BY <1>1 DEF Sound
  <2>2. IsInjective(txs)
    BY <1>1 DEF PagingInv, CompleteAtRest, Complete
  <2>3. ASSUME NEW r \in Requests
        PROVE  /\ r[1] \in DOMAIN txs /\ r = <<r[1], r[2]>>
               /\ <<txs[r[1]], r[2]>> \in sends
               /\ Msg(<<txs[r[1]], r[2]>>) = Request(r)
    <3>1. PICK k \in DOMAIN txs : r \in {k} \X Sends(txs[k])
      BY DEF Requests
    <3>2. r[1] = k /\ r[2] \in Sends(txs[k]) /\ r = <<r[1], r[2]>>
      BY <3>1
    <3>3. txs[k] \in DOMAIN chain
      BY <1>1 DEF PagingInv, FetchedInScope, Fetched
    <3> QED
      BY <3>2, <3>3 DEF Request
  <2>4. \A r \in Requests : /\ Agrees(Request(r))
                            /\ Cardinality(SentCoins(txs[r[1]])) = 1
    <3> TAKE r \in Requests
    <3>1. PICK s \in sends : s = <<txs[r[1]], r[2]>> /\ Msg(s) = Request(r)
      BY <2>3
    <3>2. Agrees(Msg(s)) /\ Cardinality(SentCoins(s[1])) = 1
      BY <2>1
    <3> QED
      BY <3>1, <3>2
  <2>5. ASSUME NEW r \in Requests, NEW q \in Requests, Request(q).id = Request(r).id
        PROVE  q = r
    <3>1. PICK s \in sends : s = <<txs[r[1]], r[2]>> /\ Msg(s) = Request(r)
      BY <2>3
    <3>2. PICK t \in sends : t = <<txs[q[1]], q[2]>> /\ Msg(t) = Request(q)
      BY <2>3
    <3>3. t = s
      BY <2>1, <2>5, <3>1, <3>2
    <3>4. txs[q[1]] = txs[r[1]] /\ q[2] = r[2]
      BY <3>1, <3>2, <3>3
    <3>5. q[1] \in DOMAIN txs /\ r[1] \in DOMAIN txs
          /\ q = <<q[1], q[2]>> /\ r = <<r[1], r[2]>>
      BY <2>3
    <3>6. q[1] = r[1]
      BY <2>2, <3>4, <3>5 DEF IsInjective
    <3> QED
      BY <3>4, <3>5, <3>6
  <2>6. /\ \A r \in Requests : Request(r).id \in xrplTxs
        /\ report = Verdict
    BY <1>1 DEF LookupInv, ReportInv, Hash
  <2>7. d \notin ContractCallDiscrepancies
    BY <2>4, <2>5 DEF ContractCallDiscrepancies
  <2>8. PICK r \in Requests : d \in XrplDiscrepancies(Request(r)) /\ ~IsKnown(d)
    BY <1>1, <2>6, <2>7 DEF Verdict
  <2>9. PICK m : m = Request(r)
    OBVIOUS
  <2>10. m.id \in xrplTxs /\ Agrees(m) /\ d \in XrplDiscrepancies(m)
    BY <2>4, <2>6, <2>8, <2>9
  <2> QED
    BY <2>8, <2>10, DiscrepanciesOfFound DEF Agrees, IsKnown
<1>2. ChainInv /\ PagingInv /\ LookupInv => SoundChainAtRestPasses
  BY <1>1 DEF SoundChainAtRestPasses
<1> QED
  BY <1>2, PagingInvariant, LookupInvariant, PTL

=============================================================================
