--------------------------- MODULE QuorumPayment ---------------------------
(***************************************************************************)
(* What the bridge promises, without its contract storage, its evidence    *)
(* ids, its retries or its configuration: every voter can vote once for a  *)
(* payment, and a payment is made once, on the votes of a quorum whose     *)
(* size never changes.  Bridge implements this specification.              *)
(***************************************************************************)
EXTENDS Naturals, FiniteSets

CONSTANTS
    Voters,     \* who may vote
    Payments    \* the payments that can be asked for

VARIABLES
    quorum,     \* votes that a payment needs
    votes,      \* who voted for each payment
    paid        \* the payments made

paymentVars == <<quorum, votes, paid>>

PaymentInit ==
    /\ quorum \in Nat \ {0}
    /\ votes = [p \in Payments |-> {}]
    /\ paid = {}

\* Voter v votes for p.
Count(v, p) ==
    /\ v \notin votes[p]
    /\ votes' = [votes EXCEPT ![p] = @ \cup {v}]
    /\ UNCHANGED quorum

Vote(v, p) ==
    /\ Count(v, p)
    /\ UNCHANGED paid

\* A vote that completes the quorum may pay at once.
VoteAndPay(v, p) ==
    /\ Count(v, p)
    /\ Cardinality(votes'[p]) >= quorum
    /\ paid' = paid \cup {p}

\* A payment with its quorum is made later.
Pay(p) ==
    /\ Cardinality(votes[p]) >= quorum
    /\ paid' = paid \cup {p}
    /\ UNCHANGED <<quorum, votes>>

PaymentNext ==
    \E p \in Payments \ paid :
        \/ \E v \in Voters : Vote(v, p) \/ VoteAndPay(v, p)
        \/ Pay(p)

PaymentSpec == PaymentInit /\ [][PaymentNext]_paymentVars

=============================================================================
