------------------------------- MODULE Metrics -------------------------------
(***************************************************************************)
(* The counts of pending transactions on their way to the alerts.          *)
(*                                                                         *)
(* The relayer's collector (relayer/metric/tx.go) lists the contract's     *)
(* pending transactions again and again and sets two gauges of the         *)
(* recorder, one after the other; the pusher (relayer/metric/pusher.go)    *)
(* gathers the registry and adds it to the push gateway, which keeps the   *)
(* last values it was given.  A restart of the relayer makes a new         *)
(* recorder, with gauges at zero.  The listing is the one the operator's   *)
(* commands use, PendingListing.                                           *)
(***************************************************************************)
EXTENDS PendingListing

VARIABLES
    gauges,         \* the recorder's two counts
    pushed          \* the counts the push gateway has

metricsVars == <<vars, gauges, pushed>>

NoCounts == [unapproved |-> 0, approved |-> 0]

\* len of a list of the listing: repeated entries count.
Length(list) == SumFunction(list)

MetricsInit ==
    /\ Init
    /\ gauges = NoCounts
    /\ pushed = NoCounts

\* SetTXPendingUnapprovedTransactionsCount, after a listing that succeeded.
SetUnapproved ==
    /\ pc = "listed"
    /\ pc' = "counted"
    /\ gauges' = [gauges EXCEPT !.unapproved = Length(unapproved)]
    /\ UNCHANGED <<contractVars, listVars, msgs, failures, historyVars, pushed>>

\* Mutant: the gauge is set only if there is something to report.
SetApprovedIfAny ==
    /\ pc = "counted"
    /\ Return
    /\ gauges' = IF Length(approved) = 0 THEN gauges
                 ELSE [gauges EXCEPT !.approved = Length(approved)]
    /\ UNCHANGED <<contractVars, failures, pushed>>

\* SetTXPendingApprovedTransactionsCount; the collector waits for its delay.
SetApproved ==
    /\ pc = "counted"
    /\ Return
    /\ gauges' = [gauges EXCEPT !.approved = Length(approved)]
    /\ UNCHANGED <<contractVars, failures, pushed>>

\* Add of the pusher; it runs beside the collector, also between the two sets.
PushMetrics ==
    /\ pushed' = gauges
    /\ UNCHANGED <<vars, gauges>>

\* The relayer is started again: a listing of its collector is abandoned.
NewRecorder ==
    /\ failures < MaxFailures
    /\ failures' = failures + 1
    /\ pc \in {"idle", "listing", "listed", "counted"}
    /\ Return
    /\ gauges' = NoCounts
    /\ UNCHANGED <<contractVars, pushed>>

MetricsNext ==
    \/ Next /\ UNCHANGED <<gauges, pushed>>
    \/ SetUnapproved \/ SetApproved \/ PushMetrics \/ NewRecorder

MetricsSpec == MetricsInit /\ [][MetricsNext]_metricsVars

\* PendingListing's operator, who builds, signs and broadcasts again and again,
\* beside a collector and a pusher that repeat for ever (retry.Do ends with the
\* context only).
FairMetricsSpec ==
    /\ MetricsSpec
    /\ WF_metricsVars(StartListing /\ UNCHANGED <<gauges, pushed>>)
    /\ WF_metricsVars((ReadPage \/ EstimateExecuteMessages \/ Broadcast)
                        /\ UNCHANGED <<gauges, pushed>>)
    /\ SF_metricsVars(BuildMessages({}) /\ UNCHANGED <<gauges, pushed>>)
    /\ SF_metricsVars(SetUnapproved)
    /\ WF_metricsVars(SetApproved)
    /\ WF_metricsVars(PushMetrics)

-----------------------------------------------------------------------------
(* Properties *)

\* What the contract has.
Counts ==
    [ unapproved |-> Cardinality({e \in Ids : ~IsApproved(e)}),
      approved   |-> Cardinality({e \in Ids : IsApproved(e)}) ]

\* alert.rules tells of counts that stay: whatever was listed while relayers and
\* operators acted, whichever queries failed and whenever the relayer was
\* started again, the gateway ends with the contract's counts and keeps them.
PushedCountsSettle == <>[](pushed = Counts)
=============================================================================
