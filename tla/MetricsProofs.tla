---------------------------- MODULE MetricsProofs ----------------------------
(***************************************************************************)
(* What holds of the listing and of the transaction built from it, for any *)
(* number of pending transactions, any threshold and any page size.        *)
(*                                                                         *)
(* The argument: evidence is only ever added and a sent transaction stays  *)
(* sent, so a transaction that a page showed as approved is approved or    *)
(* sent at any later time; the messages of a built transaction are of such *)
(* transactions, and the simulation has seen each of them once.            *)
(***************************************************************************)
EXTENDS Metrics, DataTheorems

\* The variables of the contract and of the listing have their types.
ListingTypes ==
    /\ pending \in [Ids -> 1 .. Providers] /\ Ids \subseteq EvidenceIds
    /\ sent \subseteq EvidenceIds
    /\ offset \in Nat /\ limit \in Nat
    /\ unapproved \in [EvidenceIds -> Nat]
    /\ approved \in [EvidenceIds -> Nat]
    /\ msgs \in [EvidenceIds -> Nat]
    /\ failures \in 0 .. MaxFailures
    /\ stable \subseteq Ids
    /\ added \in BOOLEAN /\ removed \in BOOLEAN

\* A built transaction has messages of approved transactions only; one that was
\* simulated has one of each, at least one, and none that the bank refuses.
BuiltFromApproved ==
    /\ pc \in {"built", "prepared"} =>
         \A e \in EvidenceIds : msgs[e] > 0 => approved[e] > 0
    /\ pc = "prepared" =>
         /\ msgs # Nowhere /\ \A e \in EvidenceIds : msgs[e] <= 1
         /\ \A e \in Refused : ~(msgs[e] > 0)

\* The inductive invariant.
ListingInv ==
    ListingTypes /\ pc \in Places /\ ApprovedStaysExecutable /\ BuiltFromApproved

-----------------------------------------------------------------------------

\* A caller that returns leaves the invariant, whatever the contract did.
LEMMA ReturnKeepsInv ==
    ASSUME ListingTypes, Return,
           pending' \in [Ids' -> 1 .. Providers], Ids' \subseteq EvidenceIds,
           sent' \subseteq EvidenceIds, failures' \in 0 .. MaxFailures
    PROVE  ListingInv'
<1>1. /\ unapproved' \in [EvidenceIds -> Nat]
      /\ approved' \in [EvidenceIds -> Nat]
      /\ msgs' \in [EvidenceIds -> Nat]
      /\ \A e \in EvidenceIds : approved'[e] = 0
  BY DEF Return, Nowhere
<1>2. /\ offset' \in Nat /\ limit' \in Nat
      /\ stable' = {} /\ added' \in BOOLEAN /\ removed' \in BOOLEAN
      /\ pc' = "idle"
  BY PageAssumption DEF Return
<1>3. ListingTypes'
  BY <1>1, <1>2 DEF ListingTypes
<1>4. ApprovedStaysExecutable'
  BY <1>1 DEF ApprovedStaysExecutable
<1> QED
  BY <1>2, <1>3, <1>4 DEF ListingInv, BuiltFromApproved, Places

\* Entries that leave the pending transactions keep the rest as it is.
LEMMA SendAllTypes ==
    ASSUME NEW es \in SUBSET EvidenceIds, ListingTypes, SendAll(es)
    PROVE  /\ Ids' = Ids \ es
           /\ pending' \in [Ids' -> 1 .. Providers]
           /\ \A e \in Ids' : pending'[e] = pending[e]
           /\ Ids' \subseteq EvidenceIds
           /\ sent' = sent \cup es
BY DEF ListingTypes, SendAll, Restrict, Ids

\* A step of the contract keeps what a listing in progress relies on: evidence
\* grows, or the transaction is sent.
LEMMA ContractKeepsInv ==
    ASSUME ListingInv, Contract
    PROVE  ListingInv'
<1>1. PICK x \in EvidenceIds : ThresholdBankSend(x) \/ ExecutePending(x)
  BY DEF Contract
<1>2. UNCHANGED <<pc, listVars, msgs, failures>>
  BY DEF Contract
<1>3. ASSUME SendAll({x}), NoteSent({x})
      PROVE  ListingInv'
  <2>1. /\ Ids' = Ids \ {x}
        /\ pending' \in [Ids' -> 1 .. Providers]
        /\ \A e \in Ids' : pending'[e] = pending[e]
        /\ Ids' \subseteq EvidenceIds
        /\ sent' = sent \cup {x}
    BY <1>3, SendAllTypes DEF ListingInv
  <2>2. ListingTypes'
    BY <1>2, <1>3, <2>1 DEF ListingInv, ListingTypes, NoteSent, listVars
  <2>3. ApprovedStaysExecutable'
    BY <1>2, <2>1 DEF ListingInv, ApprovedStaysExecutable, IsApproved, listVars
  <2> QED
    BY <1>2, <2>2, <2>3 DEF ListingInv, BuiltFromApproved, listVars
<1>4. ASSUME NEW given \in Nat, given = (IF x \in Ids THEN pending[x] ELSE 0),
             given < Providers,
             pending' = [f \in Ids \cup {x} |-> IF f = x THEN given + 1 ELSE pending[f]],
             added' = (added \/ x \notin Ids),
             UNCHANGED <<sent, stable, removed>>
      PROVE  ListingInv'
  <2>1. /\ Ids' = Ids \cup {x}
        /\ pending' \in [Ids' -> 1 .. Providers]
        /\ \A e \in Ids : pending'[e] >= pending[e]
    BY <1>4, QuorumAssumption DEF ListingInv, ListingTypes, Ids
  <2>2. ListingTypes'
    BY <1>2, <1>4, <2>1 DEF ListingInv, ListingTypes, listVars
  <2>3. ASSUME NEW e \in Ids, pending[e] >= Threshold
        PROVE  pending'[e] >= Threshold
    <3>1. pending[e] \in Nat /\ pending'[e] \in Nat
      BY <2>1 DEF ListingInv, ListingTypes
    <3> QED
      BY <2>1, <2>3, <3>1, QuorumAssumption
  <2>4. ApprovedStaysExecutable'
    BY <1>2, <1>4, <2>1, <2>3
       DEF ListingInv, ApprovedStaysExecutable, IsApproved, listVars
  <2> QED
    BY <1>2, <2>2, <2>4 DEF ListingInv, BuiltFromApproved, listVars
<1>5. CASE ExecutePending(x)
  BY <1>3, <1>5 DEF ExecutePending
<1>6. CASE ThresholdBankSend(x)
  <2> DEFINE given == IF x \in Ids THEN pending[x] ELSE 0
  <2>1. given \in Nat
    BY DEF ListingInv, ListingTypes
  <2>2. CASE SendAll({x}) /\ NoteSent({x})
    BY <1>3, <2>2
  <2>3. CASE /\ given < Providers
             /\ pending' = [f \in Ids \cup {x} |->
                              IF f = x THEN given + 1 ELSE pending[f]]
             /\ added' = (added \/ x \notin Ids)
             /\ UNCHANGED <<sent, stable, removed>>
    BY <1>4, <2>1, <2>3
  <2> QED
    BY <1>6, <2>2, <2>3 DEF ThresholdBankSend
<1> QED
  BY <1>1, <1>5, <1>6

\* A step of the caller: what it calls approved was approved when it read the
\* page, and what it prepares was executable when it was simulated.
LEMMA ClientKeepsInv ==
    ASSUME ListingInv, Client
    PROVE  ListingInv'
<1> USE DEF ListingInv
<1>1. CASE StartListing
  BY <1>1 DEF StartListing, ListingTypes, contractVars, listVars, Ids, Places,
              ApprovedStaysExecutable, IsApproved, BuiltFromApproved
<1>2. CASE ReadPage
  <2> DEFINE page == paginate_transactions(offset, limit)
  <2>1. page \subseteq Ids
    BY DEF paginate_transactions
  <2>2. CASE page = {}
    BY <1>2, <2>2
       DEF ReadPage, ListingTypes, contractVars, listVars, historyVars, Ids,
           Places, ApprovedStaysExecutable, IsApproved, BuiltFromApproved
  <2>3. CASE /\ approved' = AddTo(approved, {e \in page : Classify(e)})
             /\ unapproved' = AddTo(unapproved, {e \in page : ~Classify(e)})
             /\ Advance
             /\ UNCHANGED pc
    <3>1. UNCHANGED <<contractVars, msgs, failures, historyVars>> /\ pc = "listing"
      BY <1>2 DEF ReadPage
    <3>2. ListingTypes'
      BY <2>3, <3>1, PageAssumption
         DEF ListingTypes, contractVars, historyVars, Advance, AddTo, Ids
    <3>3. ApprovedStaysExecutable'
      <4>1. SUFFICES ASSUME NEW e \in EvidenceIds, approved'[e] > 0
                     PROVE  e \in sent \/ IsApproved(e)
        BY <3>1 DEF ApprovedStaysExecutable, IsApproved, Ids, contractVars
      <4>2. CASE approved[e] > 0
        BY <4>2 DEF ApprovedStaysExecutable
      <4>3. CASE e \in page /\ Classify(e)
        BY <2>1, <4>3 DEF Classify, IsApproved
      <4> QED
        BY <2>3, <4>1, <4>2, <4>3 DEF AddTo, ListingTypes
    <3> QED
      BY <2>3, <3>1, <3>2, <3>3 DEF BuiltFromApproved
  <2> QED
    BY <1>2, <2>2, <2>3 DEF ReadPage
<1>3. CASE QueryFails
  BY <1>3, ReturnKeepsInv, QuorumAssumption DEF QueryFails, contractVars, ListingTypes, Ids
<1>4. CASE Report
  BY <1>4, ReturnKeepsInv DEF Report, contractVars, ListingTypes, Ids
<1>5. ASSUME NEW named \in SUBSET EvidenceIds, BuildMessages(named)
      PROVE  ListingInv'
  <2>1. CASE Return
    BY <1>5, <2>1, ReturnKeepsInv DEF BuildMessages, contractVars, ListingTypes, Ids
  <2>2. CASE /\ \A e \in named : approved[e] > 0
             /\ msgs' = IF named = {} THEN approved ELSE AddTo(Nowhere, named)
             /\ pc' = "built"
             /\ UNCHANGED <<listVars, historyVars>>
    <3>1. UNCHANGED <<contractVars, failures>>
      BY <1>5 DEF BuildMessages
    <3>2. /\ msgs' \in [EvidenceIds -> Nat]
          /\ \A e \in EvidenceIds : msgs'[e] > 0 => approved[e] > 0
      BY <2>2 DEF AddTo, Nowhere, ListingTypes
    <3> QED
      BY <2>2, <3>1, <3>2
         DEF ListingTypes, contractVars, listVars, historyVars, Ids, Places,
             ApprovedStaysExecutable, IsApproved, BuiltFromApproved
  <2> QED
    BY <1>5, <2>1, <2>2 DEF BuildMessages
<1>6. CASE EstimateExecuteMessages
  <2>1. CASE Return
    BY <1>6, <2>1, ReturnKeepsInv
       DEF EstimateExecuteMessages, contractVars, ListingTypes, Ids
  <2>2. CASE Executable /\ pc' = "prepared" /\ UNCHANGED <<listVars, msgs, historyVars>>
    <3>1. UNCHANGED <<contractVars, failures>> /\ pc = "built"
      BY <1>6 DEF EstimateExecuteMessages
    <3>2. /\ msgs # Nowhere
          /\ \A e \in EvidenceIds : msgs[e] <= 1
          /\ \A e \in Refused : ~(msgs[e] > 0)
      BY <2>2, IdsAssumption DEF Executable, ListingTypes
    <3> QED
      BY <2>2, <3>1, <3>2
         DEF ListingTypes, contractVars, listVars, historyVars, Ids, Places, Nowhere,
             ApprovedStaysExecutable, IsApproved, BuiltFromApproved
  <2> QED
    BY <1>6, <2>1, <2>2 DEF EstimateExecuteMessages
<1>7. CASE Broadcast
  <2>1. CASE UNCHANGED contractVars
    BY <1>7, <2>1, ReturnKeepsInv DEF Broadcast, contractVars, ListingTypes, Ids
  <2>2. CASE SendAll({e \in EvidenceIds : msgs[e] > 0})
    BY <1>7, <2>2, SendAllTypes, ReturnKeepsInv DEF Broadcast, ListingTypes
  <2> QED
    BY <1>7, <2>1, <2>2 DEF Broadcast
<1>8. CASE LacksCoins
  BY <1>8, ReturnKeepsInv, QuorumAssumption DEF LacksCoins, contractVars, ListingTypes, Ids
<1> QED
  BY <1>1, <1>2, <1>3, <1>4, <1>5, <1>6, <1>7, <1>8 DEF Client

\* The collector, the pusher and a restart do not touch the contract.
LEMMA MetricsStep ==
    ListingInv /\ [MetricsNext]_metricsVars => ListingInv'
<1> SUFFICES ASSUME ListingInv, [MetricsNext]_metricsVars
             PROVE  ListingInv'
  OBVIOUS
<1>1. CASE Next /\ UNCHANGED <<gauges, pushed>>
  BY <1>1, ContractKeepsInv, ClientKeepsInv DEF Next
<1>2. CASE PushMetrics \/ UNCHANGED metricsVars
  BY <1>2
     DEF PushMetrics, ListingInv, ListingTypes, ApprovedStaysExecutable, IsApproved,
         BuiltFromApproved, Ids, metricsVars, vars, contractVars, listVars, historyVars
<1>3. CASE SetUnapproved
  BY <1>3
     DEF SetUnapproved, ListingInv, ListingTypes, ApprovedStaysExecutable, IsApproved,
         BuiltFromApproved, Ids, Places, contractVars, listVars, historyVars
<1>4. CASE SetApproved
  BY <1>4, ReturnKeepsInv DEF SetApproved, contractVars, ListingInv, ListingTypes, Ids
<1>5. CASE NewRecorder
  BY <1>5, ReturnKeepsInv, QuorumAssumption
     DEF NewRecorder, contractVars, ListingInv, ListingTypes, Ids
<1> QED
  BY <1>1, <1>2, <1>3, <1>4, <1>5 DEF MetricsNext

\* Every state of the listing, the commands and the metrics has the invariant.
LEMMA ListingInvariant == MetricsSpec => []ListingInv
<1>1. ASSUME MetricsInit
      PROVE  ListingInv
  <2>1. Init
    BY <1>1 DEF MetricsInit
  <2>2. Ids = {} /\ pending \in [Ids -> 1 .. Providers]
    <3>1. pending = [i \in {} |-> 0]
      BY <2>1 DEF Init
    <3> QED
      BY <3>1 DEF Ids
  <2>3. /\ unapproved \in [EvidenceIds -> Nat]
        /\ approved \in [EvidenceIds -> Nat]
        /\ msgs \in [EvidenceIds -> Nat]
        /\ \A e \in EvidenceIds : approved[e] = 0
    BY <2>1 DEF Init, Nowhere
  <2>4. added \in BOOLEAN /\ removed \in BOOLEAN /\ sent = {} /\ stable = {}
    BY <2>1 DEF Init
  <2>5. offset \in Nat /\ limit \in Nat /\ failures \in 0 .. MaxFailures
    BY <2>1, PageAssumption, QuorumAssumption DEF Init
  <2>6. ListingTypes
    BY <2>2, <2>3, <2>4, <2>5 DEF ListingTypes
  <2> QED
    BY <2>1, <2>3, <2>6
       DEF Init, ListingInv, Places, ApprovedStaysExecutable, BuiltFromApproved
<1> QED
  BY <1>1, MetricsStep, PTL DEF MetricsSpec

\* The variables of the contract, of GetAllPendingTransactions and of the
\* commands that use it keep their types.
THEOREM ListingTypeCorrect == MetricsSpec => []TypeOK
<1>1. ListingInv => TypeOK
  BY DEF ListingInv, ListingTypes, TypeOK
<1> QED
  BY <1>1, ListingInvariant, PTL

\* What GetAllPendingTransactions calls approved has the quorum that
\* execute_pending asks for, or was sent, at any time after the page was read.
THEOREM ApprovedRemainsExecutable == MetricsSpec => []ApprovedStaysExecutable
<1>1. ListingInv => ApprovedStaysExecutable
  BY DEF ListingInv
<1> QED
  BY <1>1, ListingInvariant, PTL

\* The transaction of build-execute-pending that passed its simulation is refused
\* later, by the contract or by the bank, only because somebody else executed one
\* of its evidence ids, if the operator's account has the coins.
THEOREM BuiltFailsOnlyIfOvertaken == MetricsSpec => []FailsOnlyIfOvertaken
<1>1. ASSUME ListingInv, pc = "prepared", \A e \in sent : ~(msgs[e] > 0)
      PROVE  Executable
  <2>1. ASSUME NEW e \in EvidenceIds, msgs[e] > 0
        PROVE  msgs[e] = 1 /\ IsApproved(e) /\ e \notin Refused
    BY <1>1, <2>1
       DEF ListingInv, ListingTypes, ApprovedStaysExecutable, BuiltFromApproved
  <2> QED
    BY <1>1, <2>1 DEF Executable, ListingInv, BuiltFromApproved
<1>2. ListingInv => FailsOnlyIfOvertaken
  BY <1>1 DEF FailsOnlyIfOvertaken
<1> QED
  BY <1>2, ListingInvariant, PTL

-----------------------------------------------------------------------------
(* Pages that are read while the map changes *)

\* How often a transaction is listed.
Times(e) == unapproved[e] + approved[e]

\* Without additions what was listed and is still pending is before the offset.
ListedBefore ==
    pc \in {"listing", "listed"} /\ ~added =>
        \A e \in EvidenceIds : /\ Times(e) <= 1
                               /\ e \in Ids /\ Times(e) > 0 => Rank(e) < offset

\* Without removals what is not listed yet is not before the offset.
UnlistedAhead ==
    pc = "listing" /\ ~removed =>
        \A e \in stable : Times(e) > 0 \/ offset <= Rank(e)

\* The inductive invariant of the pages.
PagesInv ==
    /\ limit = offset + PageSize
    /\ pc = "idle" => \A e \in EvidenceIds : Times(e) = 0
    /\ pc = "idle" => offset = 0
    /\ ListedBefore
    /\ UnlistedAhead
    /\ NoneMissed

\* Positions are numbers, and grow with the set that is iterated.
LEMMA RankBelow ==
    ASSUME NEW A, NEW B, A \subseteq B, B \subseteq EvidenceIds, NEW e
    PROVE  /\ Cardinality({f \in A : f < e}) \in Nat
           /\ Cardinality({f \in B : f < e}) \in Nat
           /\ Cardinality({f \in A : f < e}) <= Cardinality({f \in B : f < e})
<1>1. PICK a : a = {f \in A : f < e}
  OBVIOUS
<1>2. PICK b : b = {f \in B : f < e}
  OBVIOUS
<1>3. a \subseteq b /\ b \subseteq EvidenceIds
  BY <1>1, <1>2
<1>4. IsFiniteSet(b)
  BY <1>3, IdsAssumption, FS_Subset
<1>5. IsFiniteSet(a) /\ Cardinality(a) <= Cardinality(b)
  BY <1>3, <1>4, FS_Subset
<1>6. Cardinality(a) \in Nat /\ Cardinality(b) \in Nat
  BY <1>4, <1>5, FS_CardinalityType
<1> QED
  BY <1>1, <1>2, <1>5, <1>6

\* The positions of a map have no gaps.
LEMMA RanksHaveNoGap ==
    ASSUME Ids \subseteq EvidenceIds, NEW n \in Nat, NEW e \in Ids, n <= Rank(e)
    PROVE  \E f \in Ids : Rank(f) = n
<1> DEFINE Late == {f \in Ids : n <= Rank(f)}
           Before(f) == {h \in Ids : h < f}
<1>1. Ids \subseteq Nat
  BY IdsAssumption
<1>2. PICK f \in Late : \A h \in Late : f <= h
  <2>1. Late \in SUBSET Nat /\ Late # {}
    BY <1>1
  <2> HIDE DEF Late
  <2> QED
    BY <2>1, LeastOf
<1>3. IsFiniteSet(Before(f)) /\ Before(f) \in SUBSET Int /\ Rank(f) \in Nat
  <2>1. Before(f) \subseteq EvidenceIds /\ Before(f) \in SUBSET Int
    <3>1. Before(f) \subseteq Ids
      OBVIOUS
    <3> HIDE DEF Before
    <3>2. \A h \in Before(f) : h \in Nat
      BY <1>1, <3>1
    <3> QED
      BY <3>1, <3>2
  <2>2. IsFiniteSet(Before(f))
    <3> HIDE DEF Before
    <3> QED
      BY <2>1, IdsAssumption, FS_Subset
  <2>3. Cardinality(Before(f)) \in Nat
    BY <2>2, FS_CardinalityType
  <2> QED
    BY <2>1, <2>2, <2>3 DEF Rank
<1>4. ASSUME n < Rank(f) PROVE FALSE
  <2>1. Before(f) # {}
    BY <1>3, <1>4, FS_EmptySet DEF Rank
  <2> DEFINE p == Max(Before(f))
  <2>2. p \in Before(f) /\ \A x \in Before(f) : x <= p
    <3> HIDE DEF Before
    <3> QED
      BY <1>3, <2>1, MaxOf
  <2> HIDE DEF p
  <2>3. p \in Ids /\ p \in Nat /\ f \in Nat /\ p < f
    BY <1>1, <2>2
  <2>4. Before(p) = Before(f) \ {p}
    <3>1. ASSUME NEW h \in Ids
          PROVE  h < p <=> (h < f /\ h # p)
      <4>1. h \in Nat /\ (h < f => h <= p)
        BY <1>1, <2>2
      <4> QED
        BY <2>3, <4>1
    <3> QED
      BY <3>1
  <2>5. Rank(f) = Rank(p) + 1 /\ Rank(p) \in Nat
    <3>1. /\ Cardinality(Before(f) \ {p}) \in Nat
          /\ Cardinality(Before(f)) = Cardinality(Before(f) \ {p}) + 1
      <4> HIDE DEF Before
      <4> QED
        BY <1>3, <2>2, RemoveShrinks
    <3> QED
      BY <2>4, <3>1 DEF Rank
  <2>6. n <= Rank(p)
    BY <1>4, <2>5
  <2>7. p \in Late /\ ~ (f <= p)
    BY <2>3, <2>6
  <2> QED
    BY <1>2, <2>7
<1>5. Rank(f) = n
  BY <1>3, <1>4
<1> QED
  BY <1>5

\* What a page of the contract has: the cap makes pages as long as the offset
\* advances, whatever limit is asked for.
LEMMA PageIs ==
    ASSUME ListingTypes, limit = offset + PageSize
    PROVE  /\ \A e \in Ids : Rank(e) \in Nat
           /\ paginate_transactions(offset, limit)
                = {e \in Ids : offset <= Rank(e) /\ Rank(e) < offset + PageSize}
<1>1. \A e \in Ids : Rank(e) \in Nat
  BY RankBelow DEF Rank, ListingTypes
<1>2. \A e \in Ids : Rank(e) < offset + PageSize => Rank(e) < offset + limit
  BY <1>1, PageAssumption DEF ListingTypes
<1> QED
  BY <1>1, <1>2, PageAssumption DEF paginate_transactions

\* A caller that returns has no list.
LEMMA ReturnKeepsPages ==
    ASSUME Return
    PROVE  PagesInv'
<1>1. /\ offset' = 0 /\ limit' = 0 + PageSize
      /\ pc' = "idle"
      /\ \A e \in EvidenceIds : unapproved'[e] = 0 /\ approved'[e] = 0
  BY PageAssumption DEF Return, Nowhere
<1> QED
  BY <1>1 DEF PagesInv, Times, ListedBefore, UnlistedAhead, NoneMissed

\* The contract changes while the pages are read: a removal moves transactions
\* forward, an addition moves them backward.
LEMMA ContractKeepsPages ==
    ASSUME ListingInv, PagesInv, Contract
    PROVE  PagesInv'
<1>1. PICK x \in EvidenceIds : ThresholdBankSend(x) \/ ExecutePending(x)
  BY DEF Contract
<1>2. UNCHANGED <<pc, offset, limit, unapproved, approved>>
  BY DEF Contract, listVars
<1>3. ListingTypes /\ ListingTypes'
  BY ContractKeepsInv DEF ListingInv
<1>4. \A e \in EvidenceIds : Times(e)' = Times(e)
  BY <1>2 DEF Times
<1>5. ASSUME Ids' = Ids, stable' \subseteq stable, added' = added, removed' = removed
      PROVE  PagesInv'
  <2>1. \A e : Rank(e)' = Rank(e)
    BY <1>5 DEF Rank
  <2>2. stable \subseteq EvidenceIds
    BY <1>3 DEF ListingTypes
  <2> QED
    BY <1>2, <1>4, <1>5, <2>1, <2>2
       DEF PagesInv, ListedBefore, UnlistedAhead, NoneMissed, IsListed, Times
<1>6. ASSUME Ids' = Ids \ {x}, x \in Ids, stable' = stable \ {x},
             removed' = TRUE, added' = added
      PROVE  PagesInv'
  <2>1. ASSUME NEW e \in Ids'
        PROVE  Rank(e)' \in Nat /\ Rank(e) \in Nat /\ Rank(e)' <= Rank(e)
    <3>1. Ids' \subseteq Ids /\ Ids \subseteq EvidenceIds
      BY <1>3, <1>6 DEF ListingTypes
    <3> QED
      BY <3>1, RankBelow, Zenon DEF Rank
  <2>2. ListedBefore'
    <3> SUFFICES ASSUME pc \in {"listing", "listed"}, ~added, NEW e \in EvidenceIds
                 PROVE  /\ Times(e) <= 1
                        /\ e \in Ids' /\ Times(e) > 0 => Rank(e)' < offset
      BY <1>2, <1>4, <1>6 DEF ListedBefore
    <3>1. /\ Times(e) <= 1
          /\ e \in Ids /\ Times(e) > 0 => Rank(e) < offset
      BY DEF PagesInv, ListedBefore
    <3>2. offset \in Nat
      BY <1>3 DEF ListingTypes
    <3> QED
      BY <1>6, <2>1, <3>1, <3>2
  <2> QED
    BY <1>2, <1>4, <1>6, <2>2 DEF PagesInv, UnlistedAhead, NoneMissed
<1>7. ASSUME Ids' = Ids \cup {x}, added' = TRUE, stable' = stable, removed' = removed
      PROVE  PagesInv'
  <2>1. ASSUME NEW e
        PROVE  Rank(e)' \in Nat /\ Rank(e) \in Nat /\ Rank(e) <= Rank(e)'
    <3>1. Ids \subseteq Ids' /\ Ids' \subseteq EvidenceIds
      BY <1>3, <1>7 DEF ListingTypes
    <3> QED
      BY <3>1, RankBelow, Zenon DEF Rank
  <2>2. UnlistedAhead'
    <3> SUFFICES ASSUME pc = "listing", ~removed, NEW e \in stable
                 PROVE  Times(e)' > 0 \/ offset <= Rank(e)'
      BY <1>2, <1>7 DEF UnlistedAhead
    <3>1. Times(e) > 0 \/ offset <= Rank(e)
      BY DEF PagesInv, UnlistedAhead
    <3>2. offset \in Nat /\ e \in EvidenceIds
      BY <1>3 DEF ListingTypes
    <3> QED
      BY <1>4, <2>1, <3>1, <3>2
  <2>3. NoneMissed'
    BY <1>2, <1>7 DEF PagesInv, NoneMissed, IsListed
  <2> QED
    BY <1>2, <1>4, <1>7, <2>2, <2>3 DEF PagesInv, ListedBefore
<1>8. ASSUME SendAll({x}), NoteSent({x})
      PROVE  PagesInv'
  <2>1. Ids' = Ids \ {x}
    BY <1>3, <1>8, SendAllTypes
  <2>2. CASE x \in Ids
    BY <1>6, <1>8, <2>1, <2>2 DEF NoteSent
  <2>3. CASE x \notin Ids
    BY <1>3, <1>5, <1>8, <2>1, <2>3 DEF NoteSent, ListingTypes
  <2> QED
    BY <2>2, <2>3
<1>9. ASSUME NEW v,
             pending' = [f \in Ids \cup {x} |-> IF f = x THEN v ELSE pending[f]],
             added' = (added \/ x \notin Ids),
             UNCHANGED <<sent, stable, removed>>
      PROVE  PagesInv'
  <2>1. Ids' = Ids \cup {x}
    BY <1>9 DEF Ids
  <2>2. CASE x \in Ids
    BY <1>3, <1>5, <1>9, <2>1, <2>2 DEF ListingTypes
  <2>3. CASE x \notin Ids
    BY <1>7, <1>9, <2>1, <2>3
  <2> QED
    BY <2>2, <2>3
<1> QED
  BY <1>1, <1>8, <1>9 DEF ThresholdBankSend, ExecutePending

\* The next page: an empty one is past every pending transaction, another one
\* has what follows the pages that were read.
LEMMA ReadPageKeepsPages ==
    ASSUME ListingInv, PagesInv, ReadPage
    PROVE  PagesInv'
<1> DEFINE page == paginate_transactions(offset, limit)
<1>1. /\ \A e \in Ids : Rank(e) \in Nat
      /\ page = {e \in Ids : offset <= Rank(e) /\ Rank(e) < offset + PageSize}
  BY PageIs DEF ListingInv, PagesInv
<1>2. /\ pc = "listing" /\ UNCHANGED <<pending, stable, added, removed>>
      /\ \A e : Rank(e)' = Rank(e)
      /\ Ids' = Ids
  BY DEF ReadPage, contractVars, historyVars, Rank, Ids
<1>3. /\ offset \in Nat /\ PageSize \in Nat \ {0}
      /\ stable \subseteq Ids /\ Ids \subseteq EvidenceIds
      /\ \A e \in EvidenceIds : unapproved[e] \in Nat /\ approved[e] \in Nat
  BY PageAssumption DEF ListingInv, ListingTypes
<1>4. CASE page = {} /\ pc' = "listed" /\ UNCHANGED listVars
  <2>1. \A e \in EvidenceIds : Times(e)' = Times(e)
    BY <1>4 DEF Times, listVars
  <2>2. ASSUME NEW e \in stable, ~removed
        PROVE  Times(e) > 0
    <3> SUFFICES ASSUME offset <= Rank(e) PROVE FALSE
      BY <1>2, <2>2 DEF PagesInv, UnlistedAhead
    <3>1. PICK f \in Ids : Rank(f) = offset
      BY <1>3, RanksHaveNoGap
    <3>2. f \in page
      BY <1>1, <1>3, <3>1
    <3> QED
      BY <1>4, <3>2
  <2>3. NoneMissed'
    BY <1>2, <1>4, <2>2 DEF NoneMissed, IsListed, Times, listVars
  <2> QED
    BY <1>2, <1>4, <2>1, <2>3 DEF PagesInv, ListedBefore, UnlistedAhead, listVars
<1>5. CASE /\ approved' = AddTo(approved, {e \in page : Classify(e)})
           /\ unapproved' = AddTo(unapproved, {e \in page : ~Classify(e)})
           /\ Advance
           /\ UNCHANGED pc
  <2>1. /\ offset' = offset + PageSize
        /\ limit' = offset' + PageSize
    BY <1>3, <1>5 DEF Advance, PagesInv
  <2>2. ASSUME NEW e \in EvidenceIds
        PROVE  /\ Times(e) \in Nat
               /\ Times(e)' = IF e \in page THEN Times(e) + 1 ELSE Times(e)
    <3>1. unapproved[e] \in Nat /\ approved[e] \in Nat
      BY <1>3
    <3>2. /\ approved'[e] = IF e \in page /\ Classify(e)
                              THEN approved[e] + 1 ELSE approved[e]
          /\ unapproved'[e] = IF e \in page /\ ~Classify(e)
                                THEN unapproved[e] + 1 ELSE unapproved[e]
      BY <1>5 DEF AddTo
    <3> QED
      BY <3>1, <3>2 DEF Times
  <2>3. ListedBefore'
    <3> SUFFICES ASSUME ~added, NEW e \in EvidenceIds
                 PROVE  /\ Times(e)' <= 1
                        /\ e \in Ids /\ Times(e)' > 0 => Rank(e) < offset'
      BY <1>2, <1>5 DEF ListedBefore
    <3>1. /\ Times(e) <= 1
          /\ e \in Ids /\ Times(e) > 0 => Rank(e) < offset
      BY <1>2 DEF PagesInv, ListedBefore
    <3>2. CASE e \in page
      <4>1. e \in Ids /\ Rank(e) \in Nat /\ offset <= Rank(e) /\ Rank(e) < offset'
        BY <1>1, <2>1, <3>2
      <4>2. Times(e) = 0
        BY <1>3, <2>2, <3>1, <4>1
      <4> QED
        BY <2>2, <3>2, <4>1, <4>2
    <3>3. CASE e \notin page
      BY <1>1, <1>3, <2>1, <2>2, <3>1, <3>3
    <3> QED
      BY <3>2, <3>3
  <2>4. UnlistedAhead'
    <3> SUFFICES ASSUME ~removed, NEW e \in stable
                 PROVE  Times(e)' > 0 \/ offset' <= Rank(e)
      BY <1>2 DEF UnlistedAhead
    <3>1. Times(e) > 0 \/ offset <= Rank(e)
      BY <1>2 DEF PagesInv, UnlistedAhead
    <3>2. e \in Ids /\ e \in EvidenceIds /\ Rank(e) \in Nat
      BY <1>1, <1>3
    <3> QED
      BY <1>1, <1>3, <2>1, <2>2, <3>1, <3>2
  <2> QED
    BY <1>2, <1>5, <2>1, <2>3, <2>4 DEF PagesInv, NoneMissed
<1> QED
  BY <1>4, <1>5 DEF ReadPage

\* Any other step of the caller, the collector or the pusher.
LEMMA MetricsKeepsPages ==
    ListingInv /\ PagesInv /\ [MetricsNext]_metricsVars => PagesInv'
<1> SUFFICES ASSUME ListingInv, PagesInv, [MetricsNext]_metricsVars
             PROVE  PagesInv'
  OBVIOUS
<1>1. CASE Contract
  BY <1>1, ContractKeepsPages
<1>2. CASE ReadPage
  BY <1>2, ReadPageKeepsPages
<1>3. CASE Return
  BY <1>3, ReturnKeepsPages
<1>4. ASSUME UNCHANGED listVars, pc' \in {"counted", "built", "prepared"}
      PROVE  PagesInv'
  BY <1>4 DEF PagesInv, ListedBefore, UnlistedAhead, NoneMissed, listVars
<1>5. CASE StartListing
  <2>1. /\ pc = "idle" /\ pc' = "listing" /\ stable' = Ids
        /\ UNCHANGED <<pending, offset, limit, unapproved, approved>>
    BY <1>5 DEF StartListing, contractVars, listVars
  <2>2. \A e \in EvidenceIds : Times(e)' = 0
    BY <2>1 DEF PagesInv, Times
  <2>3. ListedBefore'
    BY <2>1, <2>2 DEF ListedBefore
  <2>4. ASSUME NEW e \in Ids
        PROVE  offset <= Rank(e)'
    <3>1. Rank(e)' = Rank(e) /\ offset = 0
      BY <2>1 DEF Rank, Ids, PagesInv
    <3>2. Rank(e) \in Nat
      BY RankBelow DEF Rank, ListingInv, ListingTypes
    <3> QED
      BY <3>1, <3>2
  <2>5. UnlistedAhead'
    BY <2>1, <2>4 DEF UnlistedAhead
  <2> QED
    BY <2>1, <2>3, <2>5 DEF PagesInv, NoneMissed
<1>6. CASE UNCHANGED vars
  <2>1. UNCHANGED <<pending, pc, offset, limit, unapproved, approved,
                    stable, added, removed>>
    BY <1>6 DEF vars, contractVars, listVars, historyVars
  <2> QED
    BY <2>1 DEF PagesInv, ListedBefore, UnlistedAhead, NoneMissed, Times, IsListed,
                Rank, Ids
<1>7. CASE Client
  BY <1>2, <1>3, <1>4, <1>5, <1>7
     DEF Client, QueryFails, Report, BuildMessages, EstimateExecuteMessages, Broadcast,
         LacksCoins
<1>8. CASE SetUnapproved
  BY <1>4, <1>8 DEF SetUnapproved
<1> QED
  BY <1>1, <1>3, <1>6, <1>7, <1>8
     DEF MetricsNext, Next, SetApproved, PushMetrics, NewRecorder, metricsVars

\* Every state of the listing, the commands and the metrics has the invariant.
LEMMA PagesInvariant == MetricsSpec => []PagesInv
<1>1. ASSUME MetricsInit
      PROVE  PagesInv
  <2>1. /\ offset = 0 /\ limit = 0 + PageSize
        /\ pc = "idle"
        /\ \A e \in EvidenceIds : unapproved[e] = 0 /\ approved[e] = 0
    BY <1>1, PageAssumption DEF MetricsInit, Init, Nowhere
  <2> QED
    BY <2>1 DEF PagesInv, Times, ListedBefore, UnlistedAhead, NoneMissed
<1> QED
  BY <1>1, MetricsKeepsPages, ListingInvariant, PTL DEF MetricsSpec

\* GetAllPendingTransactions shows every transaction that was pending from its
\* first to its last page, whatever relayers add meanwhile, unless one of the
\* pending ones is removed.
THEOREM ListingMissesNone == MetricsSpec => []NoneMissed
<1>1. PagesInv => NoneMissed
  BY DEF PagesInv
<1> QED
  BY <1>1, PagesInvariant, PTL

\* GetAllPendingTransactions shows no transaction twice, although its limit
\* grows with its offset, unless one is added while it reads.
THEOREM ListingRepeatsNone == MetricsSpec => []ListedOnce
<1>1. PagesInv => ListedOnce
  BY DEF PagesInv, ListedBefore, ListedOnce, Times
<1> QED
  BY <1>1, PagesInvariant, PTL
=============================================================================
