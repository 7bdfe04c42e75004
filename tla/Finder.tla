------------------------------- MODULE Finder -------------------------------
(***************************************************************************)
(* From a transaction of the XRP Ledger to a transfer                      *)
(* (relayer/finder/finder.go), and the registry of tokens that it depends  *)
(* on (add_xrpl_tokens of the contract).                                   *)
(*                                                                         *)
(* There is a finder for each registered token.  It turns a validated,     *)
(* successful payment of that token to the token's issuer, i.e. a burn,    *)
(* into the amount to send on the TX chain.  A burn is believed only if    *)
(* the issuer's balances in the ledger metadata changed by the delivered   *)
(* amount, up to a rounding tolerance.                                     *)
(*                                                                         *)
(* Transactions do not influence each other, so a behaviour is about one.  *)
(* Amounts of XRPL tokens are multiples of 1/Unit.  The text of a memo is  *)
(* what it parses to; sums of balances are exact.                          *)
(***************************************************************************)
EXTENDS Integers, Sequences, Functions, FiniteSetsExt

CONSTANTS
    Codes,          \* currency codes the owner may write: hexadecimal strings
    Decode,         \* per code: the currency it stands for
    TokenChoices,   \* tokens the owner may register
    XRPLTxs,        \* transactions of the XRP Ledger
    NoAddress,      \* a memo without the suffix or without a valid address
    Unit,           \* parts of an XRPL token
    Scale,          \* 10^TXDecimals
    Epsilon,        \* the tolerance is 1/Epsilon of the balance
    MaxTokens       \* MAX_XRPL_TOKENS

ASSUME CodesAssumption == DOMAIN Decode = Codes
ASSUME ScaleAssumption == {Unit, Scale, Epsilon, MaxTokens} \subseteq Nat \ {0}

\* XRPLToken of the contract; the multiplier is a fraction.
ASSUME TokensAssumption ==
    \A k \in TokenChoices :
        /\ k.currency \in Codes
        /\ k.activation_date \in Nat
        /\ k.num \in Nat /\ k.den \in Nat \ {0}

\* Transaction of relayer/client/xrpl; a balance is taken without its sign.
ASSUME TxAssumption ==
    \A x \in XRPLTxs :
        /\ x.date \in Nat /\ x.value \in Nat
        /\ DOMAIN x.memos \subseteq Nat
        /\ IsFiniteSet(DOMAIN x.lines)
        /\ \A i \in DOMAIN x.lines :
              x.lines[i].change \in Int /\ x.lines[i].balance \in Nat

VARIABLES
    txn,        \* the transaction on the XRP Ledger
    tokens,     \* xrpl_tokens of the contract
    scanned,    \* the tokens whose finders read the transaction
    transfers   \* PendingTXSendTransactions the finders sent to the executor

vars == <<txn, tokens, scanned, transfers>>

Init ==
    /\ txn \in XRPLTxs
    /\ tokens = <<>>
    /\ scanned = {}
    /\ transfers = {}

-----------------------------------------------------------------------------
(* The registry *)

\* The multiplier is between 0.1 and 10.
validate_xrpl_token(k) == 10 * k.num >= k.den /\ k.num <= 10 * k.den

Key(k) == <<k.issuer, k.currency>>

\* Mutant: new tokens are compared with each other only.
DuplicatedAmongNew(new) ==
    \E i, j \in DOMAIN new : i # j /\ Key(new[i]) = Key(new[j])

\* A token whose issuer and currency string are registered already, or occur
\* twice in the call.
Duplicated(new) ==
    LET all == tokens \o new
    IN  \E i, j \in DOMAIN all : i # j /\ Key(all[i]) = Key(all[j])

\* add_xrpl_tokens, called by the owner.
add_xrpl_tokens(new) ==
    /\ \A i \in DOMAIN new : validate_xrpl_token(new[i])
    /\ ~Duplicated(new)
    /\ Len(tokens) + Len(new) <= MaxTokens
    /\ tokens' = tokens \o new
    /\ UNCHANGED <<txn, scanned, transfers>>

-----------------------------------------------------------------------------
(* The finder of a token k *)

\* The address in the first memo that has one.
ExtractAddressFromMemo(memos) ==
    LET valid == {i \in DOMAIN memos : memos[i] # NoAddress}
    IN  IF valid = {} THEN NoAddress ELSE memos[Min(valid)]

\* value * 10^decimals * multiplier, truncated; a zero multiplier counts as 1.
ConvertXRPLAmountToTXAmount(value, num, den) ==
    IF num = 0 THEN (Scale * value) \div Unit
    ELSE (Scale * value * num) \div (Unit * den)

\* The issuer's balances of the delivered currency among the changed ones.
LinesOf(x) == {i \in DOMAIN x.lines : x.lines[i].currency = x.currency}

Received(x) == SumFunctionOnSet([i \in DOMAIN x.lines |-> x.lines[i].change],
                                LinesOf(x))

\* Mutant: the tolerance is relative to the remaining balance alone.
ToleranceOfBalance(x) == Max({x.lines[i].balance : i \in LinesOf(x)})

\* The amount of which a fraction 1/Epsilon is tolerated: the largest balance,
\* or the delivered amount, since a full burn ends at 0.
ToleranceScale(x) == Max({x.lines[i].balance : i \in LinesOf(x)} \cup {x.value})

\* Mutant: the delivered amount is taken at its word.
AnyBalanceChange(x) == LinesOf(x) # {}

\* The balances rose by at least the delivered amount, up to the tolerance.
receivedAtLeastDeliveredAmount(x) ==
    /\ LinesOf(x) # {}
    /\ \/ Received(x) >= x.value
       \/ Epsilon * (x.value - Received(x)) <= ToleranceScale(x)

\* A payment of the token k to its issuer.
IsPaymentOf(k, x) ==
    /\ ~x.native
    /\ x.currency = Decode[k.currency]
    /\ x.issuer = k.issuer
    /\ x.destination = k.issuer

\* What buildPendingTransaction asks of a transaction, but for its amount; the
\* balances must be computable from the metadata.
IsBurn(k, x) ==
    /\ x.validated /\ x.success /\ x.payment
    /\ x.date >= k.activation_date
    /\ ExtractAddressFromMemo(x.memos) # NoAddress
    /\ IsPaymentOf(k, x)
    /\ x.readable
    /\ receivedAtLeastDeliveredAmount(x)

TransferOf(k, x) ==
    [hash |-> x.hash,
     amount |-> ConvertXRPLAmountToTXAmount(x.value, k.num, k.den),
     recipient |-> ExtractAddressFromMemo(x.memos)]

\* Mutant: a transfer of nothing is sent on.
BuildWithoutAmount(k, x) == {t \in {TransferOf(k, x)} : IsBurn(k, x)}

\* At most one transfer.
buildPendingTransaction(k, x) ==
    {t \in {TransferOf(k, x)} : IsBurn(k, x) /\ t.amount # 0}

\* The goroutine of SubscribeTXSendTransactions reads the transaction.
Scan(k) ==
    /\ k \notin scanned
    /\ scanned' = scanned \cup {k}
    /\ transfers' = transfers \cup buildPendingTransaction(k, txn)
    /\ UNCHANGED <<txn, tokens>>

-----------------------------------------------------------------------------

\* Calls with one or two tokens.
Next ==
    \/ \E k \in TokenChoices : add_xrpl_tokens(<<k>>)
    \/ \E j, k \in TokenChoices : add_xrpl_tokens(<<j, k>>)
    \/ \E k \in Range(tokens) : Scan(k)

Spec == Init /\ [][Next]_vars

-----------------------------------------------------------------------------
(* Properties *)

\* A transfer has an address and an amount, whatever the transaction is.
TypeOK ==
    /\ txn \in XRPLTxs
    /\ tokens \in Seq(TokenChoices) /\ Len(tokens) <= MaxTokens
    /\ scanned \subseteq Range(tokens)
    /\ \A t \in transfers : t.amount \in Nat \ {0} /\ t.recipient # NoAddress

\* No duplicate registration and no two multipliers make two different
\* transfers, hence two evidence ids, of one XRPL transaction.  Bridge assumes
\* it of its Transfers.  It needs currencies that are written in one way.
OneTransferPerTransaction == \A t, u \in transfers : t = u

\* Nobody is sent more than ten times what the issuer received: the registry's
\* bound on multipliers, the check of the burn and the truncation together.
PaidWithinBurn ==
    \A t \in transfers :
        t.amount * Unit * Epsilon
            <= 10 * Scale * (Epsilon * Received(txn) + ToleranceScale(txn))

\* What the holder is owed for the transaction under token k, in parts of
\* 1/(Unit * den) of the smallest coin.
Owed(k) == Scale * txn.value * k.num

\* A burn of a registered token by one holder, with an address.  The issuer's
\* balance rose by the value but for the XRPL's rounding error, which is well
\* below 1/Epsilon of the balance before the burn.
GenuineBurn(k) ==
    /\ txn.validated /\ txn.success /\ txn.payment /\ txn.readable
    /\ IsPaymentOf(k, txn)
    /\ txn.date >= k.activation_date
    /\ \E i \in DOMAIN txn.memos : txn.memos[i] # NoAddress
    /\ \E i \in DOMAIN txn.lines :
          /\ LinesOf(txn) = {i}
          /\ 2 * Epsilon * (txn.value - txn.lines[i].change)
                <= txn.lines[i].balance + txn.lines[i].change

\* Every genuine burn worth a coin is found by the finder of its token, for the
\* largest number of coins that is not more than what is owed.
BurnsAreFound ==
    \A k \in scanned : GenuineBurn(k) /\ Owed(k) >= Unit * k.den =>
        \E t \in transfers :
            /\ t.amount * Unit * k.den <= Owed(k)
            /\ Owed(k) < (t.amount + 1) * Unit * k.den

\* "Build unique keys from existing tokens to prevent duplicates": no currency
\* of an issuer is registered twice.
DuplicatesPrevented ==
    \A i, j \in DOMAIN tokens :
        /\ tokens[i].issuer = tokens[j].issuer
        /\ Decode[tokens[i].currency] = Decode[tokens[j].currency]
        => i = j

=============================================================================
