--------------------------- MODULE PendingListing ---------------------------
(***************************************************************************)
(* Listing and executing the contract's pending transactions.              *)
(*                                                                         *)
(* GetAllPendingTransactions (relayer/client/tx/contract.go) asks the      *)
(* contract for its pending transactions page by page, while relayers add  *)
(* evidence and other callers execute transactions.  Its result feeds the  *)
(* metrics and the commands of relayer/cmd: print the transactions, or     *)
(* build one transaction with an execute_pending message for each approved *)
(* one.  That transaction is estimated when it is built, and signed and    *)
(* broadcast later.                                                        *)
(*                                                                         *)
(* Evidence ids are numbers, in the order in which the contract's map is   *)
(* iterated.  Each one is of an XRPL transaction of its own, so what the   *)
(* contract keeps of a sent transaction is the evidence id.                *)
(***************************************************************************)
EXTENDS Naturals, FiniteSets, Functions

CONSTANTS
    EvidenceIds,    \* evidence ids of pending transactions
    Large,          \* those with an amount above max_amount, as the owner may
                    \* set it from time to time
    Refused,        \* those with a recipient that the bank refuses to pay
    Threshold,      \* the contract's threshold
    Providers,      \* bound: relayers that provide evidence
    PageSize,       \* ContractPageSize: 500
    MaxPageLimit,   \* MAX_PAGE_LIMIT: 500
    MaxFailures     \* bound: failing queries, and times the coins are missing

ASSUME IdsAssumption == EvidenceIds \subseteq Nat /\ IsFiniteSet(EvidenceIds)
                        /\ Large \subseteq EvidenceIds
                        /\ Refused \subseteq EvidenceIds
ASSUME QuorumAssumption ==
    Threshold \in Nat \ {0} /\ Providers \in Nat /\ MaxFailures \in Nat
ASSUME PageAssumption == PageSize \in Nat \ {0} /\ MaxPageLimit = PageSize

VARIABLES
    pending,        \* PENDING_TRANSACTIONS: evidence id -> evidence providers
    sent,           \* SENT_TRANSACTIONS
    pc,             \* where the client is
    offset, limit,  \* of the next page
    unapproved,     \* per evidence id: how often unapprovedTransactions has it
    approved,       \* per evidence id: how often approvedTransactions has it
    msgs,           \* per evidence id: its messages in the built transaction
    failures,       \* failures so far
    stable,         \* history: pending since the listing started
    added, removed  \* history: whether a transaction was added to the pending
                    \* ones, or removed from them, since then

contractVars == <<pending, sent>>
historyVars == <<stable, added, removed>>
listVars == <<offset, limit, unapproved, approved>>
vars == <<contractVars, pc, listVars, msgs, failures, historyVars>>

Nowhere == [e \in EvidenceIds |-> 0]
Ids == DOMAIN pending

Places == {"idle", "listing", "listed", "counted", "built", "prepared"}

Init ==
    /\ pending = <<>>
    /\ sent = {}
    /\ pc = "idle"
    /\ offset = 0 /\ limit = PageSize
    /\ unapproved = Nowhere /\ approved = Nowhere /\ msgs = Nowhere
    /\ failures = 0
    /\ stable = {} /\ added = FALSE /\ removed = FALSE

-----------------------------------------------------------------------------
(* The contract *)

IsApproved(e) == e \in Ids /\ pending[e] >= Threshold

\* The transactions es leave PENDING_TRANSACTIONS and are sent.
SendAll(es) ==
    /\ pending' = Restrict(pending, Ids \ es)
    /\ sent' = sent \cup es

\* What the history notes of it.
NoteSent(es) ==
    /\ stable' = stable \ es
    /\ removed' = (removed \/ es \cap Ids # {})
    /\ added' = added

\* threshold_bank_send by a relayer that gave no evidence of e yet: the call
\* that reaches the threshold sends the transaction, unless it is too large at
\* that time, and is reverted if the bank refuses to.
ThresholdBankSend(e) ==
    LET given == IF e \in Ids THEN pending[e] ELSE 0
    IN  /\ e \notin sent
        /\ given < Providers
        /\ \/ /\ given + 1 = Threshold /\ e \notin Refused
              /\ SendAll({e}) /\ NoteSent({e})
           \/ /\ given + 1 # Threshold \/ e \in Large
              /\ pending' = [f \in Ids \cup {e} |->
                               IF f = e THEN given + 1 ELSE pending[f]]
              /\ added' = (added \/ e \notin Ids)
              /\ UNCHANGED <<sent, stable, removed>>

\* execute_pending by somebody else.
ExecutePending(e) ==
    /\ IsApproved(e) /\ e \notin Refused
    /\ SendAll({e}) /\ NoteSent({e})

\* The position of e in the map's ascending order.
Rank(e) == Cardinality({f \in Ids : f < e})

\* Mutant: the limit of the request is not capped.
PaginateUncapped(from, count) ==
    {e \in Ids : from <= Rank(e) /\ Rank(e) < from + count}

\* get_pending_transactions: skip(offset), take(limit.min(MAX_PAGE_LIMIT)).
paginate_transactions(from, count) ==
    {e \in Ids : /\ from <= Rank(e)
                 /\ Rank(e) < from + count
                 /\ Rank(e) < from + MaxPageLimit}

-----------------------------------------------------------------------------
(* GetAllPendingTransactions *)

StartListing ==
    /\ pc = "idle"
    /\ pc' = "listing"
    /\ stable' = Ids /\ added' = FALSE /\ removed' = FALSE
    /\ UNCHANGED <<contractVars, listVars, msgs, failures>>

\* The caller returns, and its variables are gone.
Return ==
    /\ pc' = "idle"
    /\ offset' = 0 /\ limit' = PageSize
    /\ unapproved' = Nowhere /\ approved' = Nowhere /\ msgs' = Nowhere
    /\ stable' = {} /\ added' = FALSE /\ removed' = FALSE

\* Mutant: the offset is taken for the last position read.
AdvanceTooFar ==
    /\ offset' = offset + PageSize + 1
    /\ limit' = limit + PageSize

\* Both the offset and the limit grow by a page.
Advance ==
    /\ offset' = offset + PageSize
    /\ limit' = limit + PageSize

\* Mutant: a transaction that misses one evidence is approved.
ClassifyLoosely(e) == pending[e] + 1 >= Threshold

\* len(EvidenceProviders) < Threshold is not the case.
Classify(e) == pending[e] >= Threshold

AddTo(list, es) == [e \in EvidenceIds |-> IF e \in es THEN list[e] + 1 ELSE list[e]]

\* A page of the contract; an empty one is the end of the list.
ReadPage ==
    LET page == paginate_transactions(offset, limit)
    IN  /\ pc = "listing"
        /\ \/ /\ page = {}
              /\ pc' = "listed"
              /\ UNCHANGED listVars
           \/ /\ page # {}
              /\ approved' = AddTo(approved, {e \in page : Classify(e)})
              /\ unapproved' = AddTo(unapproved, {e \in page : ~Classify(e)})
              /\ Advance
              /\ UNCHANGED pc
        /\ UNCHANGED <<contractVars, msgs, failures, historyVars>>

\* A query fails and with it the listing.
QueryFails ==
    /\ pc = "listing"
    /\ failures < MaxFailures
    /\ failures' = failures + 1
    /\ Return
    /\ UNCHANGED contractVars

-----------------------------------------------------------------------------
(* What the listing is for *)

\* A command prints the transactions.
Report ==
    /\ pc = "listed"
    /\ Return
    /\ UNCHANGED <<contractVars, failures>>

\* BuildExecutePendingMessages for the evidence ids the operator names, or for
\* all approved transactions if there are none; the first transaction of a
\* named id counts.  A named id that is not approved is an error.
BuildMessages(named) ==
    /\ pc = "listed"
    /\ \/ /\ \A e \in named : approved[e] > 0
          /\ msgs' = IF named = {} THEN approved ELSE AddTo(Nowhere, named)
          /\ pc' = "built"
          /\ UNCHANGED <<listVars, historyVars>>
       \/ /\ \E e \in named : approved[e] = 0
          /\ Return
    /\ UNCHANGED <<contractVars, failures>>

\* The messages of a transaction are executed in turn, all or none: a second
\* one of the same evidence id does not find it, and one whose bank send is
\* refused is reverted.
Executable ==
    /\ msgs # Nowhere
    /\ \A e \in EvidenceIds :
          msgs[e] > 0 => msgs[e] = 1 /\ IsApproved(e) /\ e \notin Refused

\* Mutant: the fees are computed without simulating the transaction.
EstimateWithoutSimulation ==
    /\ pc = "built"
    /\ pc' = "prepared"
    /\ UNCHANGED <<contractVars, listVars, msgs, failures, historyVars>>

\* EstimateExecuteMessages simulates the transaction; an error ends the command.
EstimateExecuteMessages ==
    /\ pc = "built"
    /\ \/ Executable /\ pc' = "prepared" /\ UNCHANGED <<listVars, msgs, historyVars>>
       \/ ~Executable /\ Return
    /\ UNCHANGED <<contractVars, failures>>

\* The signed transaction is executed by the chain.
Broadcast ==
    /\ pc = "prepared"
    /\ \/ Executable /\ SendAll({e \in EvidenceIds : msgs[e] > 0})
       \/ ~Executable /\ UNCHANGED contractVars
    /\ Return
    /\ UNCHANGED failures

\* The operator's account lacks the coins that go with the messages, when they
\* are simulated or, as coins may leave it in between, when they are executed.
LacksCoins ==
    /\ pc \in {"built", "prepared"}
    /\ failures < MaxFailures
    /\ failures' = failures + 1
    /\ Return
    /\ UNCHANGED contractVars

-----------------------------------------------------------------------------

Contract ==
    /\ \E e \in EvidenceIds : ThresholdBankSend(e) \/ ExecutePending(e)
    /\ UNCHANGED <<pc, listVars, msgs, failures>>

Client ==
    \/ StartListing \/ ReadPage \/ QueryFails
    \/ Report \/ (\E named \in SUBSET EvidenceIds : BuildMessages(named))
    \/ EstimateExecuteMessages \/ Broadcast \/ LacksCoins

Next == Contract \/ Client

Spec == Init /\ [][Next]_vars

\* The operator builds the transaction with all approved transactions again and
\* again, and signs and broadcasts it.  Relayers and other callers need not act.
FairSpec ==
    /\ Spec
    /\ WF_vars(StartListing \/ ReadPage \/ EstimateExecuteMessages \/ Broadcast)
    /\ SF_vars(BuildMessages({}))

-----------------------------------------------------------------------------
(* Properties *)

\* The values of the variables; a pending transaction has evidence.
TypeOK ==
    /\ Ids \subseteq EvidenceIds /\ \A e \in Ids : pending[e] \in 1 .. Providers
    /\ sent \subseteq EvidenceIds
    /\ pc \in Places
    /\ offset \in Nat /\ limit \in Nat
    /\ {unapproved, approved, msgs} \subseteq [EvidenceIds -> Nat]
    /\ failures \in 0 .. MaxFailures
    /\ stable \subseteq Ids
    /\ added \in BOOLEAN /\ removed \in BOOLEAN

IsListed(e) == unapproved[e] + approved[e] > 0

\* However long ago the page was read, what it called approved still has its
\* quorum or was sent: evidence is not withdrawn, a sent transaction does not
\* return.
ApprovedStaysExecutable ==
    \A e \in EvidenceIds : approved[e] > 0 => e \in sent \/ IsApproved(e)

\* Relayers that add transactions while pages are read hide none of them: what
\* was pending all the time is listed, unless one was removed meanwhile (which
\* moves the others forward, perhaps to a page that was already read).
NoneMissed ==
    pc = "listed" /\ ~removed => \A e \in stable : IsListed(e)

\* Pages do not overlap although the limit grows with the offset, because the
\* contract caps it: without additions no transaction is listed twice, so the
\* transaction built from the list has one message for each.
ListedOnce ==
    pc \in {"listing", "listed"} /\ ~added =>
        \A e \in EvidenceIds : unapproved[e] + approved[e] <= 1

\* The contract and the bank execute a transaction that was estimated, however
\* long ago, until one of its messages is executed by somebody else: as long as
\* the operator's account has the coins, nothing else makes it fail.
FailsOnlyIfOvertaken ==
    pc = "prepared" /\ ~Executable => \E e \in sent : msgs[e] > 0

\* An approved transaction that the bank refuses is part of every transaction
\* with all approved ones, whose simulation fails.
Obstructed == \E e \in Refused : IsApproved(e)

\* README: "by default all transactions will be executed".  An operator who
\* repeats the command, and has the coins for it but for some failures, executes
\* every approved transaction in the end, unless one that the bank refuses is
\* approved as well: it holds back all others.
ApprovedIsExecuted ==
    \A e \in EvidenceIds : IsApproved(e) ~> e \in sent \/ Obstructed

=============================================================================
