---------------------------- MODULE FinderProofs ----------------------------
(***************************************************************************)
(* What the finders make of a transaction, for any tokens, multipliers,    *)
(* amounts, balances and tolerance.                                        *)
(*                                                                         *)
(* The argument: the registry has an issuer and currency string once and   *)
(* multipliers between 0.1 and 10 only, and what was sent to the executor  *)
(* is what the finders that read the transaction make of it.  The rest is  *)
(* arithmetic on one transaction.                                          *)
(***************************************************************************)
EXTENDS Finder, DataTheorems

\* The registry.
RegistryInv ==
    /\ tokens \in Seq(TokenChoices) /\ Len(tokens) <= MaxTokens
    /\ \A i \in DOMAIN tokens : validate_xrpl_token(tokens[i])
    /\ \A i, j \in DOMAIN tokens : Key(tokens[i]) = Key(tokens[j]) => i = j

\* The transfers are those of the finders that read the transaction.
FromScans ==
    \A t : t \in transfers <=> \E k \in scanned : t \in buildPendingTransaction(k, txn)

\* The inductive invariant.
FinderInv ==
    /\ txn \in XRPLTxs
    /\ RegistryInv
    /\ scanned \subseteq Range(tokens)
    /\ FromScans

\* The owner writes each currency in one way: the contract, which compares the
\* strings, does not make sure of it.
WrittenInOneWay ==
    \A j, k \in TokenChoices :
        Decode[j.currency] = Decode[k.currency] => j.currency = k.currency

-----------------------------------------------------------------------------
(* The invariant *)

\* add_xrpl_tokens keeps the registered tokens and checks the new ones.
LEMMA AddKeepsInv ==
    ASSUME FinderInv, NEW new \in Seq(TokenChoices), add_xrpl_tokens(new)
    PROVE  FinderInv'
<1>1. /\ tokens \in Seq(TokenChoices)
      /\ tokens' = tokens \o new
      /\ UNCHANGED <<txn, scanned, transfers>>
  BY DEF FinderInv, RegistryInv, add_xrpl_tokens
<1>2. /\ tokens' \in Seq(TokenChoices)
      /\ Len(tokens) \in Nat /\ Len(new) \in Nat
      /\ Len(tokens') = Len(tokens) + Len(new)
      /\ DOMAIN tokens = 1 .. Len(tokens)
      /\ DOMAIN new = 1 .. Len(new)
      /\ DOMAIN tokens' = 1 .. (Len(tokens) + Len(new))
      /\ \A i \in 1 .. (Len(tokens) + Len(new)) :
            tokens'[i] = IF i <= Len(tokens) THEN tokens[i] ELSE new[i - Len(tokens)]
  BY <1>1
<1>3. \A i \in DOMAIN tokens : i \in DOMAIN tokens' /\ tokens'[i] = tokens[i]
  BY <1>2
<1>4. \A i \in DOMAIN tokens' : validate_xrpl_token(tokens'[i])
  <2> SUFFICES ASSUME NEW i \in DOMAIN tokens' PROVE validate_xrpl_token(tokens'[i])
    OBVIOUS
  <2>1. CASE i \in DOMAIN tokens
    BY <1>3, <2>1 DEF FinderInv, RegistryInv
  <2>2. CASE i \notin DOMAIN tokens
    <3>1. i - Len(tokens) \in DOMAIN new /\ tokens'[i] = new[i - Len(tokens)]
      BY <1>2, <2>2
    <3> QED
      BY <3>1 DEF add_xrpl_tokens
  <2> QED
    BY <2>1, <2>2
<1>5. \A i, j \in DOMAIN tokens' : Key(tokens'[i]) = Key(tokens'[j]) => i = j
  BY <1>1 DEF add_xrpl_tokens, Duplicated
<1>6. Len(tokens') <= MaxTokens
  BY <1>2 DEF add_xrpl_tokens
<1>7. scanned' \subseteq Range(tokens')
  BY <1>1, <1>3 DEF FinderInv, Range
<1> QED
  BY <1>1, <1>2, <1>4, <1>5, <1>6, <1>7
     DEF FinderInv, RegistryInv, FromScans, buildPendingTransaction, TransferOf,
         IsBurn, IsPaymentOf

\* A finder reads the transaction.
LEMMA ScanKeepsInv ==
    ASSUME FinderInv, NEW k \in Range(tokens), Scan(k)
    PROVE  FinderInv'
<1>1. /\ scanned' = scanned \cup {k}
      /\ transfers' = transfers \cup buildPendingTransaction(k, txn)
      /\ UNCHANGED <<txn, tokens>>
  BY DEF Scan
<1>2. FromScans'
  <2>1. \A t : t \in transfers' <=>
                  \E j \in scanned' : t \in buildPendingTransaction(j, txn)
    BY <1>1 DEF FinderInv, FromScans
  <2> QED
    BY <1>1, <2>1 DEF FromScans
<1> QED
  BY <1>1, <1>2 DEF FinderInv, RegistryInv

\* Every state of the registry and the finders has the invariant.
LEMMA FinderInvariant == Spec => []FinderInv
<1>1. Init => FinderInv
  <2> SUFFICES ASSUME Init PROVE FinderInv
    OBVIOUS
  <2>1. tokens = << >> /\ scanned = {} /\ transfers = {} /\ txn \in XRPLTxs
    BY DEF Init
  <2>2. /\ tokens \in Seq(TokenChoices) /\ Len(tokens) = 0
        /\ DOMAIN tokens = {}
    BY <2>1
  <2>3. RegistryInv
    BY <2>2, ScaleAssumption DEF RegistryInv
  <2> QED
    BY <2>1, <2>3 DEF FinderInv, FromScans
<1>2. FinderInv /\ [Next]_vars => FinderInv'
  <2> SUFFICES ASSUME FinderInv, [Next]_vars PROVE FinderInv'
    OBVIOUS
  <2>1. ASSUME NEW k \in TokenChoices, add_xrpl_tokens(<<k>>) PROVE FinderInv'
    <3>1. <<k>> \in Seq(TokenChoices)
      OBVIOUS
    <3> QED
      BY <2>1, <3>1, AddKeepsInv
  <2>2. ASSUME NEW j \in TokenChoices, NEW k \in TokenChoices,
               add_xrpl_tokens(<<j, k>>)
        PROVE  FinderInv'
    <3>1. <<j, k>> \in Seq(TokenChoices)
      OBVIOUS
    <3> QED
      BY <2>2, <3>1, AddKeepsInv
  <2>3. ASSUME NEW k \in Range(tokens), Scan(k) PROVE FinderInv'
    BY <2>3, ScanKeepsInv
  <2>4. CASE UNCHANGED vars
    BY <2>4 DEF vars, FinderInv, RegistryInv, FromScans
  <2> QED
    BY <2>1, <2>2, <2>3, <2>4 DEF Next
<1> QED
  BY <1>1, <1>2, PTL DEF Spec

-----------------------------------------------------------------------------
(* One transaction and one registered token *)

\* A finder is of a registered token, which is valid.
LEMMA ScannedIsValid ==
    ASSUME FinderInv, NEW k \in scanned
    PROVE  /\ k \in TokenChoices /\ \E i \in DOMAIN tokens : k = tokens[i]
           /\ validate_xrpl_token(k)
           /\ k.num \in Nat \ {0} /\ k.den \in Nat \ {0} /\ k.num <= 10 * k.den
<1>1. PICK i \in DOMAIN tokens : k = tokens[i]
  BY DEF FinderInv, Range
<1>2. k \in TokenChoices /\ validate_xrpl_token(k)
  BY <1>1 DEF FinderInv, RegistryInv
<1>3. k.num \in Nat /\ k.den \in Nat \ {0}
  BY <1>2, TokensAssumption
<1>4. 10 * k.num >= k.den /\ k.num <= 10 * k.den
  BY <1>2 DEF validate_xrpl_token
<1> QED
  BY <1>1, <1>2, <1>3, <1>4

\* The amount is the value times the multiplier, rounded down.
LEMMA AmountBounds ==
    ASSUME FinderInv, NEW k \in scanned
    PROVE  LET a == TransferOf(k, txn).amount
           IN  /\ a \in Nat
               /\ a * (Unit * k.den) <= Owed(k)
               /\ Owed(k) < (a + 1) * (Unit * k.den)
<1>1. k.num \in Nat \ {0} /\ k.den \in Nat \ {0}
  BY ScannedIsValid
<1>2. Unit \in Nat \ {0} /\ Scale \in Nat \ {0}
  BY ScaleAssumption
<1>3. txn.value \in Nat
  BY TxAssumption DEF FinderInv
<1>4. Owed(k) \in Nat
  BY <1>1, <1>2, <1>3 DEF Owed
<1>5. Unit * k.den \in Nat \ {0}
  BY <1>1, <1>2
<1>6. TransferOf(k, txn).amount = Owed(k) \div (Unit * k.den)
  BY <1>1 DEF TransferOf, ConvertXRPLAmountToTXAmount, Owed
<1> QED
  BY <1>4, <1>5, <1>6, QuotientBounds

\* The balances of the issuer, their sum and the largest of them.
LEMMA BalanceTypes ==
    ASSUME NEW x \in XRPLTxs
    PROVE  /\ x.value \in Nat
           /\ IsFiniteSet(LinesOf(x))
           /\ Received(x) \in Int
           /\ ToleranceScale(x) \in Nat
           /\ x.value <= ToleranceScale(x)
           /\ \A i \in LinesOf(x) : x.lines[i].balance <= ToleranceScale(x)
<1> DEFINE change == [i \in DOMAIN x.lines |-> x.lines[i].change]
           balances == {x.lines[i].balance : i \in LinesOf(x)}
           scales == balances \cup {x.value}
<1>1. /\ x.value \in Nat
      /\ IsFiniteSet(DOMAIN x.lines)
      /\ \A i \in DOMAIN x.lines :
            x.lines[i].change \in Int /\ x.lines[i].balance \in Nat
  BY TxAssumption
<1>2. LinesOf(x) \subseteq DOMAIN x.lines
  BY DEF LinesOf
<1>3. IsFiniteSet(LinesOf(x))
  BY <1>1, <1>2, FS_Subset
<1>4. Received(x) \in Int
  <2>1. \A i \in LinesOf(x) : change[i] \in Int
    BY <1>1, <1>2
  <2> HIDE DEF change
  <2>2. SumFunctionOnSet(change, LinesOf(x)) \in Int
    BY <1>3, <2>1, SumType
  <2> QED
    BY <2>2 DEF Received, change
<1>5. IsFiniteSet(scales)
  <2> DEFINE balance == [i \in DOMAIN x.lines |-> x.lines[i].balance]
  <2>1. IsFiniteSet(balances)
    <3>1. balances = {balance[i] : i \in LinesOf(x)}
      BY <1>2
    <3> HIDE DEF balances, balance
    <3> QED
      BY <1>3, <3>1, ImageFinite
  <2> HIDE DEF balances
  <2> QED
    BY <2>1, FS_AddElement
<1>6. scales \in SUBSET Nat
  BY <1>1, <1>2
<1>7. Max(scales) \in scales /\ \A s \in scales : s <= Max(scales)
  <2>1. scales \in SUBSET Int /\ scales # {}
    BY <1>6
  <2> HIDE DEF scales
  <2> QED
    BY <1>5, <2>1, MaxOf
<1>8. ToleranceScale(x) = Max(scales)
  BY DEF ToleranceScale
<1> QED
  BY <1>1, <1>3, <1>4, <1>6, <1>7, <1>8

\* A transfer is made by the finder of a registered token from a burn.
LEMMA TransferIsOfBurn ==
    ASSUME FinderInv, NEW t \in transfers
    PROVE  \E k \in scanned : /\ t = TransferOf(k, txn)
                              /\ IsBurn(k, txn)
                              /\ t.amount # 0
BY DEF FinderInv, FromScans, buildPendingTransaction

\* A burn that a finder believes was of the delivered value, up to the
\* tolerance.
LEMMA BurnIsReceived ==
    ASSUME NEW x \in XRPLTxs, receivedAtLeastDeliveredAmount(x)
    PROVE  Epsilon * x.value <= Epsilon * Received(x) + ToleranceScale(x)
<1>1. /\ x.value \in Nat /\ Received(x) \in Int /\ ToleranceScale(x) \in Nat
      /\ Epsilon \in Nat
  BY BalanceTypes, ScaleAssumption
<1>2. PICK v \in Nat, r \in Int, s \in Nat :
        v = x.value /\ r = Received(x) /\ s = ToleranceScale(x)
  BY <1>1
<1>3. Epsilon * (v - r) = Epsilon * v - Epsilon * r
  BY <1>1
<1>4. CASE r >= v
  <2>1. v * Epsilon <= r * Epsilon
    BY <1>1, <1>4, TimesMonotone
  <2>2. v * Epsilon = Epsilon * v /\ r * Epsilon = Epsilon * r
    BY <1>1
  <2>3. Epsilon * v \in Int /\ Epsilon * r \in Int
    BY <1>1
  <2> QED
    BY <1>2, <2>1, <2>2, <2>3
<1>5. CASE Epsilon * (v - r) <= s
  <2>1. Epsilon * v \in Int /\ Epsilon * r \in Int
    BY <1>1
  <2> QED
    BY <1>2, <1>3, <1>5, <2>1
<1> QED
  BY <1>2, <1>4, <1>5 DEF receivedAtLeastDeliveredAmount

\* A bound on the quotient of a product, as integers.
LEMMA WithinMultiplier ==
    ASSUME NEW a \in Nat, NEW unit \in Nat, NEW den \in Nat \ {0}, NEW num \in Nat,
           NEW scale \in Nat, NEW value \in Nat,
           a * (unit * den) <= scale * value * num, num <= 10 * den
    PROVE  a * unit <= 10 * (scale * value)
<1>1. scale * value \in Nat /\ a * unit \in Nat
  OBVIOUS
<1>2. PICK w \in Nat, u \in Nat : w = scale * value /\ u = a * unit
  BY <1>1
<1>3. a * (unit * den) = u * den
  <2>1. a * (unit * den) = (a * unit) * den
    OBVIOUS
  <2> QED
    BY <1>2, <2>1
<1>4. num * w <= (10 * den) * w
  BY TimesMonotone
<1>5. scale * value * num = num * w /\ (10 * den) * w = (10 * w) * den
  BY <1>2
<1>6. u * den <= (10 * w) * den
  <2>1. u * den <= num * w
    BY <1>3, <1>5
  <2>2. u * den \in Int /\ num * w \in Int /\ (10 * w) * den \in Int
    OBVIOUS
  <2> QED
    BY <1>4, <1>5, <2>1, <2>2
<1>7. u <= 10 * w
  BY <1>6, TimesMonotone
<1> QED
  BY <1>2, <1>7

-----------------------------------------------------------------------------
(* The theorems *)

\* The registry is limited, finders are of registered tokens, and a transfer
\* has an address and a positive amount.
THEOREM FinderTypeCorrect == Spec => []TypeOK
<1>1. FinderInv => TypeOK
  <2> SUFFICES ASSUME FinderInv, NEW t \in transfers
               PROVE  t.amount \in Nat \ {0} /\ t.recipient # NoAddress
    BY DEF TypeOK, FinderInv, RegistryInv
  <2>1. PICK k \in scanned : /\ t = TransferOf(k, txn)
                             /\ IsBurn(k, txn)
                             /\ t.amount # 0
    BY TransferIsOfBurn
  <2>2. t.amount \in Nat
    BY <2>1, AmountBounds
  <2>3. t.recipient = ExtractAddressFromMemo(txn.memos)
    BY <2>1 DEF TransferOf
  <2> QED
    BY <2>1, <2>2, <2>3 DEF IsBurn
<1> QED
  BY <1>1, FinderInvariant, PTL

\* As long as no currency of an issuer is registered twice, the finders make at
\* most one transfer of a transaction, whenever they read it and whatever was
\* registered in between.
THEOREM FindersAgreeWithoutDuplicates ==
    Spec => [](DuplicatesPrevented => OneTransferPerTransaction)
<1>1. FinderInv => (DuplicatesPrevented => OneTransferPerTransaction)
  <2> SUFFICES ASSUME FinderInv, DuplicatesPrevented,
                      NEW t \in transfers, NEW u \in transfers
               PROVE  t = u
    BY DEF OneTransferPerTransaction
  <2>1. PICK k \in scanned : t = TransferOf(k, txn) /\ IsBurn(k, txn)
    BY TransferIsOfBurn
  <2>2. PICK j \in scanned : u = TransferOf(j, txn) /\ IsBurn(j, txn)
    BY TransferIsOfBurn
  <2>3. k.issuer = j.issuer /\ Decode[k.currency] = Decode[j.currency]
    BY <2>1, <2>2 DEF IsBurn, IsPaymentOf
  <2>4. k = j
    BY <2>3, ScannedIsValid DEF DuplicatesPrevented
  <2> QED
    BY <2>1, <2>2, <2>4
<1> QED
  BY <1>1, FinderInvariant, PTL

\* In a registry whose currencies are written in one way the contract's check
\* prevents duplicates.
THEOREM OneSpellingNoDuplicates ==
    ASSUME WrittenInOneWay
    PROVE  Spec => []DuplicatesPrevented
<1>1. FinderInv => DuplicatesPrevented
  <2> SUFFICES ASSUME FinderInv, NEW i \in DOMAIN tokens, NEW j \in DOMAIN tokens,
                      tokens[i].issuer = tokens[j].issuer,
                      Decode[tokens[i].currency] = Decode[tokens[j].currency]
               PROVE  i = j
    BY DEF DuplicatesPrevented
  <2>1. tokens[i] \in TokenChoices /\ tokens[j] \in TokenChoices
    BY DEF FinderInv, RegistryInv
  <2>2. Key(tokens[i]) = Key(tokens[j])
    BY <2>1 DEF WrittenInOneWay, Key
  <2> QED
    BY <2>2 DEF FinderInv, RegistryInv
<1> QED
  BY <1>1, FinderInvariant, PTL

\* So the finders make at most one transfer of a transaction: what Bridge
\* assumes of its Transfers.
THEOREM FindersAgree ==
    ASSUME WrittenInOneWay
    PROVE  Spec => []OneTransferPerTransaction
BY OneSpellingNoDuplicates, FindersAgreeWithoutDuplicates, PTL

\* The multiplier's bound, the check of the balances and the truncation keep a
\* transfer within ten times what the issuer received, up to the tolerance.
THEOREM TransfersAreCovered == Spec => []PaidWithinBurn
<1>1. FinderInv => PaidWithinBurn
  <2> SUFFICES ASSUME FinderInv, NEW t \in transfers
               PROVE  t.amount * Unit * Epsilon
                        <= 10 * Scale * (Epsilon * Received(txn) + ToleranceScale(txn))
    BY DEF PaidWithinBurn
  <2>1. PICK k \in scanned : t = TransferOf(k, txn) /\ IsBurn(k, txn)
    BY TransferIsOfBurn
  <2>2. txn \in XRPLTxs
    BY DEF FinderInv
  <2>3. /\ Received(txn) \in Int /\ ToleranceScale(txn) \in Nat /\ txn.value \in Nat
        /\ Epsilon \in Nat /\ Unit \in Nat /\ Scale \in Nat
    BY <2>2, BalanceTypes, ScaleAssumption
  <2>4. PICK r \in Int : r = Epsilon * Received(txn) + ToleranceScale(txn)
    BY <2>3
  <2>5. Epsilon * txn.value <= r
    BY <2>1, <2>2, <2>4, BurnIsReceived DEF IsBurn
  <2>6. PICK a \in Nat : a = t.amount
    BY <2>1, AmountBounds
  <2>7. a * Unit <= 10 * (Scale * txn.value)
    <3>1. a * (Unit * k.den) <= Scale * txn.value * k.num
      BY <2>1, <2>6, AmountBounds DEF Owed
    <3>2. k.num \in Nat /\ k.den \in Nat \ {0} /\ k.num <= 10 * k.den
      BY ScannedIsValid
    <3> QED
      BY <2>3, <3>1, <3>2, WithinMultiplier
  <2>8. PICK v \in Nat : v = txn.value
    BY <2>3
  <2>9. (a * Unit) * Epsilon <= (10 * (Scale * v)) * Epsilon
    <3>1. a * Unit \in Int /\ 10 * (Scale * v) \in Int
      BY <2>3
    <3> QED
      BY <2>3, <2>7, <2>8, <3>1, TimesMonotone
  <2>10. (10 * (Scale * v)) * Epsilon = (Epsilon * v) * (10 * Scale)
    BY <2>3
  <2>11. (Epsilon * v) * (10 * Scale) <= r * (10 * Scale)
    <3>1. Epsilon * v \in Int /\ 10 * Scale \in Nat
      BY <2>3
    <3> QED
      BY <2>5, <2>8, <3>1, TimesMonotone
  <2>12. r * (10 * Scale) = 10 * Scale * r
    BY <2>3
  <2>13. a * Unit * Epsilon <= 10 * Scale * r
    <3>1. /\ a * Unit * Epsilon \in Int /\ (Epsilon * v) * (10 * Scale) \in Int
          /\ 10 * Scale * r \in Int
      BY <2>3
    <3> QED
      BY <2>9, <2>10, <2>11, <2>12, <3>1
  <2> QED
    BY <2>4, <2>6, <2>13
<1> QED
  BY <1>1, FinderInvariant, PTL

\* A genuine burn passes the checks of the finder of its token.
LEMMA GenuineIsBurn ==
    ASSUME FinderInv, NEW k \in scanned, GenuineBurn(k)
    PROVE  IsBurn(k, txn)
<1>1. txn \in XRPLTxs
  BY DEF FinderInv
<1>2. ExtractAddressFromMemo(txn.memos) # NoAddress
  <2> DEFINE valid == {i \in DOMAIN txn.memos : txn.memos[i] # NoAddress}
  <2>1. valid # {}
    BY DEF GenuineBurn
  <2>2. valid \in SUBSET Nat
    BY <1>1, TxAssumption
  <2>3. Min(valid) \in valid
    <3> HIDE DEF valid
    <3>1. \E m \in valid : \A y \in valid : m <= y
      BY <2>1, <2>2, LeastOf
    <3> QED
      BY <3>1 DEF Min
  <2> QED
    BY <2>1, <2>3 DEF ExtractAddressFromMemo
<1>3. receivedAtLeastDeliveredAmount(txn)
  <2>1. PICK i \in DOMAIN txn.lines :
          /\ LinesOf(txn) = {i}
          /\ 2 * Epsilon * (txn.value - txn.lines[i].change)
                <= txn.lines[i].balance + txn.lines[i].change
    BY DEF GenuineBurn
  <2>2. txn.lines[i].change \in Int /\ txn.lines[i].balance \in Nat
    BY <1>1, TxAssumption
  <2>3. Received(txn) = txn.lines[i].change
    <3> DEFINE change == [j \in DOMAIN txn.lines |-> txn.lines[j].change]
    <3>1. change[i] = txn.lines[i].change
      OBVIOUS
    <3> HIDE DEF change
    <3>2. SumFunctionOnSet(change, {i}) = change[i]
      BY <2>2, <3>1, SumOfOne
    <3> QED
      BY <2>1, <3>1, <3>2 DEF Received, change
  <2>4. /\ ToleranceScale(txn) \in Nat /\ txn.value \in Nat
        /\ txn.value <= ToleranceScale(txn)
        /\ txn.lines[i].balance <= ToleranceScale(txn)
        /\ Epsilon \in Nat
    BY <1>1, <2>1, BalanceTypes, ScaleAssumption
  <2>5. PICK v \in Nat, c \in Int, b \in Nat, s \in Nat :
          /\ v = txn.value /\ c = txn.lines[i].change
          /\ b = txn.lines[i].balance /\ s = ToleranceScale(txn)
    BY <2>2, <2>4
  <2>6. c >= v \/ Epsilon * (v - c) <= s
    <3> SUFFICES ASSUME c < v PROVE Epsilon * (v - c) <= s
      BY <2>5
    <3>1. PICK d \in Int : d = Epsilon * (v - c)
      BY <2>4
    <3>2. 2 * Epsilon * (v - c) = 2 * d
      BY <2>4, <3>1
    <3>3. 2 * d <= b + c /\ v <= s /\ b <= s
      BY <2>1, <2>4, <2>5, <3>2
    <3> QED
      BY <3>1, <3>3
  <2> QED
    BY <2>1, <2>3, <2>5, <2>6 DEF receivedAtLeastDeliveredAmount
<1> QED
  BY <1>2, <1>3 DEF IsBurn, GenuineBurn

\* Every genuine burn worth a coin becomes a transfer of the largest number of
\* coins that is not more than what is owed.
THEOREM GenuineBurnsAreFound == Spec => []BurnsAreFound
<1>1. FinderInv => BurnsAreFound
  <2> SUFFICES ASSUME FinderInv, NEW k \in scanned,
                      GenuineBurn(k), Owed(k) >= Unit * k.den
               PROVE  \E t \in transfers :
                         /\ t.amount * Unit * k.den <= Owed(k)
                         /\ Owed(k) < (t.amount + 1) * Unit * k.den
    BY DEF BurnsAreFound
  <2>1. IsBurn(k, txn)
    BY GenuineIsBurn
  <2>2. PICK t : t = TransferOf(k, txn)
    OBVIOUS
  <2>3. /\ t.amount \in Nat
        /\ t.amount * (Unit * k.den) <= Owed(k)
        /\ Owed(k) < (t.amount + 1) * (Unit * k.den)
    BY <2>2, AmountBounds
  <2>4. k.den \in Nat \ {0} /\ k.num \in Nat
    BY ScannedIsValid
  <2>5. Unit \in Nat /\ Scale \in Nat
    BY ScaleAssumption
  <2>6. txn.value \in Nat
    BY TxAssumption DEF FinderInv
  <2>7. Owed(k) \in Nat
    BY <2>4, <2>5, <2>6 DEF Owed
  <2>8. PICK a \in Nat : a = t.amount
    BY <2>3
  <2>9. /\ a * (Unit * k.den) = a * Unit * k.den
        /\ (a + 1) * (Unit * k.den) = (a + 1) * Unit * k.den
    BY <2>4, <2>5
  <2>10. a # 0
    <3>1. ASSUME a = 0 PROVE FALSE
      <4>1. Owed(k) < (0 + 1) * (Unit * k.den)
        BY <2>3, <2>8, <3>1
      <4>2. (0 + 1) * (Unit * k.den) = Unit * k.den /\ Unit * k.den \in Nat
        BY <2>4, <2>5
      <4> QED
        BY <2>7, <4>1, <4>2
    <3> QED
      BY <3>1
  <2>11. t \in transfers
    BY <2>1, <2>2, <2>8, <2>10 DEF FinderInv, FromScans, buildPendingTransaction
  <2> QED
    BY <2>3, <2>8, <2>9, <2>11
<1> QED
  BY <1>1, FinderInvariant, PTL
=============================================================================
