--------------------------- MODULE RelayerProcess ---------------------------
(***************************************************************************)
(* What RelayerLifecycle calls running: the goroutines of one generation   *)
(* of services, and how they end when parallel.Run cancels their context.  *)
(*                                                                         *)
(* The group has an executor task, a watcher task and the metric tasks.    *)
(* Executor.Start subscribes a finder for each token, which leaves a       *)
(* scanner and a finder goroutine behind, launches the executor goroutine  *)
(* and waits for it.  The group waits for its tasks only: a finder that is *)
(* blocked on handing a transfer to an executor that left is blocked for   *)
(* ever, next to the goroutines of the generations that follow.            *)
(***************************************************************************)
EXTENDS RelayerLifecycle

VARIABLES
    gen,        \* the generation of the services that run or ran last
    tasks,      \* the tasks of its group that did not return
    reason,     \* the error that closes the group, if any
    subscribed, \* the tokens whose finders Executor.Start subscribed
    launched,   \* Executor.Start has launched its goroutine
    waiting,    \* generations whose executor goroutine is in its select
    busy,       \* generations whose executor goroutine is in retry.Do
    scanning,   \* <<generation, token>>: scanner goroutines
    idle,       \* <<generation, token>>: finder goroutines in their select
    sending,    \* <<generation, token>>: finder goroutines that send a transfer
    validScan   \* the process was started with a positive recentScanIndexesBack

startVars == <<subscribed, launched>>
goroutines == <<waiting, busy, scanning, idle, sending>>
groupVars == <<gen, tasks, reason, startVars, validScan>>
processVars == <<groupVars, goroutines>>
allVars == <<vars, processVars>>

Tasks == {"executor", "watcher", "metrics"}

ProcessInit ==
    /\ Init
    /\ gen = 0
    /\ tasks = {}
    /\ reason = "none"
    /\ subscribed = {}
    /\ launched = FALSE
    /\ waiting = {} /\ busy = {}
    /\ scanning = {} /\ idle = {} /\ sending = {}
    /\ validScan \in BOOLEAN

\* The context of generation g is canceled: by the group, or with the context
\* of the process.
Done(g) == g # gen \/ reason # "none" \/ canceled

-----------------------------------------------------------------------------
(* The group *)

\* NewServices is complete and parallel.Run spawns the tasks.
StartGroup ==
    /\ NewAuditor
    /\ gen' = gen + 1
    /\ tasks' = Tasks
    /\ reason' = "none"
    /\ subscribed' = {}
    /\ launched' = FALSE
    /\ UNCHANGED <<goroutines, validScan>>

\* External, parallel: a task returns; the first error closes the group.
Return(task, err) ==
    /\ tasks' = tasks \ {task}
    /\ reason' = IF reason = "none" THEN err ELSE reason

\* Mutant: Watch goes on after a version that is the next one.
WatcherPollsLate ==
    /\ "watcher" \in tasks
    /\ onchain.version > watched + 1
    /\ Return("watcher", "changed")
    /\ UNCHANGED <<vars, gen, startVars, goroutines, validScan>>

\* A poll of Watch that finds another version; polls that fail, or find the
\* known version, change nothing.
WatcherPolls ==
    /\ "watcher" \in tasks
    /\ onchain.version # watched
    /\ Return("watcher", "changed")
    /\ UNCHANGED <<vars, gen, startVars, goroutines, validScan>>

\* Mutant: the metric tasks do not watch their context.
WatcherStops(task) ==
    /\ task \in tasks \ {"executor", "metrics"}
    /\ Done(gen)
    /\ Return(task, "canceled")
    /\ UNCHANGED <<vars, gen, startVars, goroutines, validScan>>

\* Watch, and retry.Do in the collectors and in the pusher, see the context end.
TaskStops(task) ==
    /\ task \in tasks \ {"executor"}
    /\ Done(gen)
    /\ Return(task, "canceled")
    /\ UNCHANGED <<vars, gen, startVars, goroutines, validScan>>

\* Mutant: the group does not wait for its tasks.
GroupReturnsEarly ==
    /\ pc = "running"
    /\ Done(gen)
    /\ pc' = IF reason = "changed" THEN "loop" ELSE "returned"
    /\ UNCHANGED <<onchain, finders, watched, canceled, processVars>>

\* Mutant: the process starts over after any error but the operator's signal.
GroupStartsOver ==
    /\ pc = "running"
    /\ tasks = {}
    /\ pc' = IF canceled THEN "returned" ELSE "loop"
    /\ UNCHANGED <<onchain, finders, watched, canceled, processVars>>

\* parallel.Run returns: ErrConfigChanged leads to the next iteration.
GroupReturns ==
    /\ pc = "running"
    /\ tasks = {}
    /\ pc' = IF reason = "changed" THEN "loop" ELSE "returned"
    /\ UNCHANGED <<onchain, finders, watched, canceled, processVars>>

-----------------------------------------------------------------------------
(* Executor.Start and the executor's goroutine *)

\* The scanner has the current ledger, or gives up asking for it as the context
\* is canceled; its goroutines and the finder's start either way.
Subscribe(token) ==
    /\ "executor" \in tasks
    /\ validScan
    /\ token \in finders.tokens \ subscribed
    /\ subscribed' = subscribed \cup {token}
    /\ scanning' = scanning \cup {<<gen, token>>}
    /\ idle' = idle \cup {<<gen, token>>}
    /\ UNCHANGED <<vars, validScan, gen, tasks, reason, launched, waiting, busy,
                   sending>>

\* The first scanner refuses its configuration and the executor task fails.
SubscribeFails ==
    /\ "executor" \in tasks
    /\ ~validScan
    /\ finders.tokens # {}
    /\ Return("executor", "failed")
    /\ UNCHANGED <<vars, gen, startVars, goroutines, validScan>>

Launch ==
    /\ "executor" \in tasks
    /\ subscribed = finders.tokens
    /\ ~launched
    /\ launched' = TRUE
    /\ waiting' = waiting \cup {gen}
    /\ UNCHANGED <<vars, validScan, gen, tasks, reason, subscribed, busy,
                   scanning, idle, sending>>

\* Mutant: Start does not wait for executionDoneCh.
StartReturnsEarly ==
    /\ "executor" \in tasks
    /\ launched
    /\ Done(gen)
    /\ tasks' = tasks \ {"executor"}
    /\ UNCHANGED <<vars, gen, reason, startVars, goroutines, validScan>>

\* executionDoneCh is closed; returning nil from a closed context is no error.
StartReturns ==
    /\ "executor" \in tasks
    /\ launched
    /\ gen \notin waiting \cup busy
    /\ tasks' = tasks \ {"executor"}
    /\ UNCHANGED <<vars, gen, reason, startVars, goroutines, validScan>>

\* The unbuffered channel: a finder that sends meets an executor that waits.
Handover(g, token) ==
    /\ <<g, token>> \in sending
    /\ g \in waiting
    /\ sending' = sending \ {<<g, token>>}
    /\ idle' = idle \cup {<<g, token>>}
    /\ waiting' = waiting \ {g}
    /\ busy' = busy \cup {g}
    /\ UNCHANGED <<vars, groupVars, scanning>>

\* retry.Do returns: the evidence is settled, or the context is canceled.
RetryEnds(g) ==
    /\ g \in busy
    /\ busy' = busy \ {g}
    /\ waiting' = waiting \cup {g}
    /\ UNCHANGED <<vars, groupVars, scanning, idle, sending>>

ExecutorStops(g) ==
    /\ g \in waiting
    /\ Done(g)
    /\ waiting' = waiting \ {g}
    /\ UNCHANGED <<vars, groupVars, busy, scanning, idle, sending>>

-----------------------------------------------------------------------------
(* Finders and scanners *)

\* A scanner hands over a transaction that is a transfer.  A select that could
\* also see the canceled context may choose to.
FinderReceives(g, token) ==
    /\ <<g, token>> \in scanning \cap idle
    /\ idle' = idle \ {<<g, token>>}
    /\ sending' = sending \cup {<<g, token>>}
    /\ UNCHANGED <<vars, groupVars, waiting, busy, scanning>>

FinderStops(g, token) ==
    /\ <<g, token>> \in idle
    /\ Done(g)
    /\ idle' = idle \ {<<g, token>>}
    /\ UNCHANGED <<vars, groupVars, waiting, busy, scanning, sending>>

\* Mutant: the scanner sends without watching its context.
ScannerStopsUnblocked(g, token) ==
    /\ <<g, token>> \in scanning \cap idle
    /\ Done(g)
    /\ scanning' = scanning \ {<<g, token>>}
    /\ UNCHANGED <<vars, groupVars, waiting, busy, idle, sending>>

ScannerStops(g, token) ==
    /\ <<g, token>> \in scanning
    /\ Done(g)
    /\ scanning' = scanning \ {<<g, token>>}
    /\ UNCHANGED <<vars, groupVars, waiting, busy, idle, sending>>

-----------------------------------------------------------------------------

\* Steps before and after the group, with the steps of owner and operator.
Outside == StartIteration \/ CreateFinders \/ Initialize

Group ==
    \/ StartGroup
    \/ WatcherPolls
    \/ \E task \in Tasks : TaskStops(task)
    \/ GroupReturns
    \/ \E token \in Tokens : Subscribe(token)
    \/ SubscribeFails
    \/ Launch
    \/ StartReturns

ExecutorStep(g) == RetryEnds(g) \/ ExecutorStops(g)

FinderStep(g, token) ==
    \/ Handover(g, token)
    \/ FinderReceives(g, token)
    \/ FinderStops(g, token)
    \/ ScannerStops(g, token)

ProcessNext ==
    \/ (Owner \/ Outside \/ QueryFails \/ Cancel) /\ UNCHANGED processVars
    \/ Group
    \/ \E g \in waiting \cup busy : ExecutorStep(g)
    \/ \E f \in scanning \cup idle \cup sending : FinderStep(f[1], f[2])

ProcessSpec == ProcessInit /\ [][ProcessNext]_allVars

Generations == 1 .. MaxVersion

\* Goroutines run, a poll comes after each tick, and what watches a canceled
\* context sees it: a select chooses among what is ready at random, so not for
\* ever the same case.  Nothing is assumed of the XRP Ledger or of the contract
\* while the context lives: Subscribe and retry.Do may then last for ever.
ProcessFairness ==
    /\ WF_allVars(\/ Outside /\ UNCHANGED processVars
                  \/ StartGroup \/ GroupReturns
                  \/ SubscribeFails \/ Launch \/ StartReturns)
    /\ WF_allVars(WatcherPolls)
    /\ WF_allVars(\E task \in Tasks : TaskStops(task))
    /\ WF_allVars(Done(gen) /\ \E token \in Tokens : Subscribe(token))
    /\ WF_allVars(\E g \in busy : Done(g) /\ RetryEnds(g))
    /\ SF_allVars(\E g \in waiting : ExecutorStops(g))
    /\ SF_allVars(\E f \in idle : FinderStops(f[1], f[2]))
    /\ WF_allVars(\E f \in scanning : ScannerStops(f[1], f[2]))

FairProcessSpec == ProcessSpec /\ ProcessFairness

-----------------------------------------------------------------------------
(* Properties *)

\* The values of the variables of the process.
ProcessTypeOK ==
    /\ TypeOK
    /\ gen \in 0 .. MaxVersion
    /\ tasks \subseteq Tasks
    /\ reason \in {"none", "changed", "failed", "canceled"}
    /\ subscribed \subseteq Tokens
    /\ launched \in BOOLEAN
    /\ waiting \subseteq Generations /\ busy \subseteq Generations
    /\ scanning \subseteq Generations \X Tokens
    /\ idle \subseteq Generations \X Tokens
    /\ sending \subseteq Generations \X Tokens
    /\ validScan \in BOOLEAN

\* Two executors never submit for the same account: the goroutine of a
\* generation has ended when the next NewServices begins, wherever it was in
\* its select or in its retries when the watcher saw the change.
OneExecutor ==
    /\ waiting \cup busy \subseteq {gen}
    /\ waiting \cap busy = {}
    /\ pc # "running" => waiting \cup busy = {}

\* A transfer that is stuck in a finder of an old generation is not lost: its
\* token has a finder in every later generation, which scans the history again.
StuckTransferIsRescanned == \A f \in sending : f[2] \in finders.tokens

\* The tasks of a group leave only when its context ended, and the group tells
\* a changed configuration from the other reasons.
GroupEndsForAReason ==
    /\ pc # "running" => tasks = {}
    /\ pc = "running" /\ tasks # Tasks => reason # "none" \/ canceled
    /\ pc = "running" /\ reason = "changed" => onchain.version # watched
    /\ pc = "running" /\ reason = "canceled" => canceled

\* The goroutines do what RelayerLifecycle says of the process as a whole: the
\* tasks that end one after the other make one Watch, TaskFails or ShutDown.
RunsLifecycle == Spec

\* Once its context is canceled, by the watcher, by a task that failed or by the
\* operator, every task ends, wherever it waits, and parallel.Run returns.
ClosedGroupReturns == pc = "running" /\ Done(gen) ~> pc # "running"

\* What old generations leave behind ends, but for finders that hold a transfer.
OldGenerationsEnd ==
    []<>(/\ waiting \cup busy \subseteq {gen}
         /\ \A f \in scanning \cup idle : f[1] = gen)

=============================================================================
