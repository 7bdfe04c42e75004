------------------------ MODULE RelayerProcessProofs ------------------------
(***************************************************************************)
(* Proofs about RelayerLifecycle and RelayerProcess, for any set of tokens *)
(* and any number of configuration changes.  A restart reads its queries   *)
(* in an order that keeps the versions of finders, watcher and contract    *)
(* ordered; the goroutines of the process implement that life cycle, there *)
(* is one executor at a time, and no token of a stuck finder is forgotten. *)
(***************************************************************************)
EXTENDS RelayerProcess, TLAPS

-----------------------------------------------------------------------------
(* The life cycle *)

\* The inductive invariant.
LifecycleInv == TypeOK /\ VersionsOrdered /\ CurrentVersionMeansCurrentTokens

\* Initially nothing was read.
LEMMA InitLifecycleInv == Init => LifecycleInv
<1> SUFFICES ASSUME Init PROVE LifecycleInv
  OBVIOUS
<1>1. onchain \in ConfigView /\ onchain.version = 1
  BY MaxVersionAssumption DEF Init, ConfigView
<1>2. finders \in ConfigView /\ finders.version = 0
  BY MaxVersionAssumption DEF Init, NoConfig, ConfigView
<1>3. pc \in Place /\ watched \in 0 .. MaxVersion
  BY MaxVersionAssumption DEF Init, Place
<1>4. canceled \in BOOLEAN
  BY Zenon DEF Init
<1>5. TypeOK
  BY <1>1, <1>2, <1>3, <1>4 DEF TypeOK
<1> QED
  BY <1>1, <1>2, <1>5
  DEF Init, LifecycleInv, VersionsOrdered, CurrentVersionMeansCurrentTokens

\* A change of the contract makes its version larger than all that were read.
LEMMA OwnerLifecycleInv == LifecycleInv /\ Owner => LifecycleInv'
<1> SUFFICES ASSUME LifecycleInv, Owner PROVE LifecycleInv'
  OBVIOUS
<1> USE MaxVersionAssumption
    DEF LifecycleInv, TypeOK, VersionsOrdered, CurrentVersionMeansCurrentTokens,
        ConfigView
<1>1. ASSUME NEW new \in SUBSET Tokens, AddTokens(new) PROVE LifecycleInv'
  <2>1. onchain' \in ConfigView /\ onchain'.version = onchain.version + 1
    BY <1>1 DEF AddTokens
  <2> QED BY <1>1, <2>1 DEF AddTokens
<1>2. CASE ChangeOtherField
  <2>1. onchain' \in ConfigView /\ onchain'.version = onchain.version + 1
    BY <1>2 DEF ChangeOtherField
  <2> QED BY <1>2, <2>1 DEF ChangeOtherField
<1> QED BY <1>1, <1>2 DEF Owner

\* The process reads the tokens before the version, and both from the contract.
LEMMA ProcessLifecycleInv ==
    LifecycleInv /\ (Process \/ QueryFails \/ TaskFails \/ Cancel)
        => LifecycleInv'
<1> SUFFICES ASSUME LifecycleInv, Process \/ QueryFails \/ TaskFails \/ Cancel
             PROVE  LifecycleInv'
  OBVIOUS
<1> USE DEF LifecycleInv, TypeOK, VersionsOrdered,
            CurrentVersionMeansCurrentTokens, ConfigView, Place
<1>1. CASE StartIteration
  BY <1>1 DEF StartIteration
<1>2. CASE CreateFinders
  BY <1>2 DEF CreateFinders
<1>3. CASE Initialize
  BY <1>3 DEF Initialize
<1>4. CASE NewAuditor
  BY <1>4 DEF NewAuditor
<1>5. CASE Watch
  BY <1>5 DEF Watch
<1>6. CASE ShutDown
  BY <1>6 DEF ShutDown
<1>7. CASE QueryFails
  BY <1>7 DEF QueryFails
<1>8. CASE TaskFails
  BY <1>8 DEF TaskFails
<1>9. CASE Cancel
  BY <1>9 DEF Cancel
<1> QED BY <1>1, <1>2, <1>3, <1>4, <1>5, <1>6, <1>7, <1>8, <1>9 DEF Process

\* Every step keeps the invariant.
LEMMA LifecycleStep == LifecycleInv /\ [Next]_vars => LifecycleInv'
<1>1. LifecycleInv /\ UNCHANGED vars => LifecycleInv'
  BY DEF LifecycleInv, TypeOK, VersionsOrdered,
         CurrentVersionMeansCurrentTokens, vars
<1> QED BY <1>1, OwnerLifecycleInv, ProcessLifecycleInv DEF Next

\* The invariant holds in every state.
LEMMA LifecycleInvariant == Spec => []LifecycleInv
BY LifecycleStep, InitLifecycleInv, PTL DEF Spec

\* NewServices reads the tokens before ConfigWatcher.Initialize reads the
\* version, so finders can only be older than what the watcher compares with.
THEOREM VersionsStayOrdered == Spec => []VersionsOrdered
BY LifecycleInvariant, PTL DEF LifecycleInv

\* Finders whose version is the contract's scan exactly the registered tokens.
THEOREM VersionDeterminesTokens == Spec => []CurrentVersionMeansCurrentTokens
BY LifecycleInvariant, PTL DEF LifecycleInv

-----------------------------------------------------------------------------
(* The process *)


\* Every restart has a version of its own, which bounds the generations.
GenerationInv ==
    /\ pc = "running" => 1 <= gen /\ gen <= watched
    /\ pc = "new_auditor" => gen < watched
    /\ pc \in {"loop", "create_finders", "init_watcher"} => gen < onchain.version

\* Executor.Start returns after its goroutine, which ends with its context.
StartInv ==
    /\ "executor" \notin tasks => waiting \cup busy = {}
    /\ pc = "running" /\ ~launched => waiting \cup busy = {}
    /\ pc = "running" /\ launched =>
          /\ gen \in waiting \cup busy \/ Done(gen)
          /\ subscribed = finders.tokens
    /\ ~validScan => subscribed = {}

\* Finders exist for registered tokens only, and tokens stay registered.
FinderInv ==
    /\ finders.tokens \subseteq onchain.tokens
    /\ \A f \in idle \cup sending : f[2] \in finders.tokens

ControlInv == OneExecutor /\ GroupEndsForAReason /\ StartInv

\* The inductive invariant.
ProcessInv ==
    /\ LifecycleInv
    /\ ProcessTypeOK
    /\ GenerationInv
    /\ ControlInv
    /\ FinderInv

\* Initially no goroutine runs.
LEMMA InitProcessInv == ProcessInit => ProcessInv
<1> SUFFICES ASSUME ProcessInit PROVE ProcessInv
  OBVIOUS
<1>1. LifecycleInv
  BY InitLifecycleInv DEF ProcessInit
<1>2. TypeOK /\ onchain.version = 1 /\ pc = "loop" /\ finders.tokens = {}
  BY <1>1 DEF LifecycleInv, ProcessInit, Init, NoConfig
<1>3. ProcessTypeOK
  <2>1. launched \in BOOLEAN /\ validScan \in BOOLEAN
    BY Zenon DEF ProcessInit
  <2>2. gen \in 0 .. MaxVersion
    BY MaxVersionAssumption DEF ProcessInit
  <2> QED BY <1>2, <2>1, <2>2 DEF ProcessInit, ProcessTypeOK
<1>4. GenerationInv /\ FinderInv
  BY <1>2 DEF ProcessInit, GenerationInv, FinderInv
<1>5. ControlInv
  BY <1>2 DEF ProcessInit, ControlInv, OneExecutor, GroupEndsForAReason, StartInv
<1> QED BY <1>1, <1>3, <1>4, <1>5 DEF ProcessInv

\* Every step of a goroutine is a step of the process as a whole, or none: the
\* step that RelayerLifecycle calls Watch, TaskFails or ShutDown is the one in
\* which parallel.Run returns.
LEMMA StepOfLifecycle ==
    ASSUME LifecycleInv, GroupEndsForAReason, ProcessTypeOK, ProcessNext
    PROVE  [Next]_vars
<1>1. CASE (Owner \/ Outside \/ QueryFails \/ Cancel) /\ UNCHANGED processVars
  BY <1>1 DEF Outside, Next, Process
<1>2. CASE StartGroup
  BY <1>2 DEF StartGroup, Next, Process
<1>3. CASE GroupReturns
  <2>1. CASE reason = "changed"
    BY <1>3, <2>1 DEF GroupReturns, GroupEndsForAReason, Watch, Next, Process
  <2>2. CASE reason = "failed"
    BY <1>3, <2>2 DEF GroupReturns, TaskFails, Next
  <2>3. CASE reason \in {"none", "canceled"}
    <3>1. canceled
      BY <1>3, <2>3 DEF GroupReturns, GroupEndsForAReason, Tasks
    <3> QED BY <1>3, <2>3, <3>1 DEF GroupReturns, ShutDown, Next, Process
  <2> QED BY <2>1, <2>2, <2>3 DEF ProcessTypeOK
<1>4. CASE \/ WatcherPolls \/ SubscribeFails \/ Launch \/ StartReturns
           \/ \E task \in Tasks : TaskStops(task)
           \/ \E token \in Tokens : Subscribe(token)
  BY <1>4 DEF WatcherPolls, SubscribeFails, Launch, StartReturns, TaskStops,
              Subscribe
<1>5. CASE \E g \in waiting \cup busy : ExecutorStep(g)
  BY <1>5 DEF ExecutorStep, RetryEnds, ExecutorStops
<1>6. CASE \E f \in scanning \cup idle \cup sending : FinderStep(f[1], f[2])
  BY <1>6 DEF FinderStep, Handover, FinderReceives, FinderStops, ScannerStops
<1> QED BY <1>1, <1>2, <1>3, <1>4, <1>5, <1>6 DEF ProcessNext, Group

\* A step outside of the group: the contract changes, services are created, the
\* operator cancels.
LEMMA OutsideProcessInv ==
    ASSUME ProcessInv, LifecycleInv',
           Owner \/ Outside \/ QueryFails \/ Cancel, UNCHANGED processVars
    PROVE  ProcessInv'
<1> USE DEF ProcessInv, LifecycleInv
<1>1. ProcessTypeOK'
  BY DEF ProcessTypeOK, processVars, groupVars, startVars, goroutines
<1> USE DEF processVars, groupVars, startVars, goroutines
<1>2. ASSUME Owner PROVE GenerationInv' /\ ControlInv' /\ FinderInv'
  <2>1. /\ onchain'.version = onchain.version + 1
        /\ onchain.tokens \subseteq onchain'.tokens
        /\ UNCHANGED <<pc, finders, watched, canceled>>
    BY <1>2 DEF Owner, AddTokens, ChangeOtherField, TypeOK, ConfigView
  <2>2. /\ onchain.version \in Nat /\ watched \in Nat /\ gen \in Nat
        /\ pc = "running" => watched <= onchain.version
    BY MaxVersionAssumption
    DEF TypeOK, ConfigView, ProcessTypeOK, VersionsOrdered
  <2>3. GenerationInv' /\ FinderInv'
    BY <2>1, <2>2 DEF GenerationInv, FinderInv
  <2>4. ControlInv'
    BY <2>1, <2>2
    DEF ControlInv, OneExecutor, GroupEndsForAReason, StartInv, Done
  <2> QED BY <2>3, <2>4
<1>3. ASSUME StartIteration \/ CreateFinders \/ Initialize \/ QueryFails
      PROVE  GenerationInv' /\ ControlInv' /\ FinderInv'
  <2>1. /\ pc # "running" /\ pc' # "running"
        /\ UNCHANGED <<onchain, canceled>>
    BY <1>3 DEF StartIteration, CreateFinders, Initialize, QueryFails
  <2>2. GenerationInv'
    BY <1>3 DEF StartIteration, CreateFinders, Initialize, QueryFails,
                GenerationInv
  <2>3. ControlInv'
    BY <2>1 DEF ControlInv, OneExecutor, GroupEndsForAReason, StartInv
  <2>4. finders' = finders \/ finders' = onchain
    BY <1>3 DEF StartIteration, CreateFinders, Initialize, QueryFails
  <2>5. FinderInv'
    BY <2>1, <2>4 DEF FinderInv
  <2> QED BY <2>2, <2>3, <2>5
<1>4. ASSUME Cancel PROVE GenerationInv' /\ ControlInv' /\ FinderInv'
  <2>1. canceled' /\ UNCHANGED <<onchain, pc, finders, watched>>
    BY <1>4 DEF Cancel
  <2>2. GenerationInv' /\ FinderInv'
    BY <2>1 DEF GenerationInv, FinderInv
  <2>3. ControlInv'
    BY <2>1 DEF ControlInv, OneExecutor, GroupEndsForAReason, StartInv, Done
  <2> QED BY <2>2, <2>3
<1> QED BY <1>1, <1>2, <1>3, <1>4 DEF Outside

\* The group starts and ends with no executor goroutine.
LEMMA GroupBoundsProcessInv ==
    ASSUME ProcessInv, LifecycleInv', StartGroup \/ GroupReturns
    PROVE  ProcessInv'
<1> USE DEF ProcessInv, LifecycleInv
<1>0. onchain.version \in Nat /\ watched \in 0 .. MaxVersion /\ gen \in Nat
  BY DEF TypeOK, ConfigView, ProcessTypeOK
<1>1. CASE StartGroup
  <2>1. /\ pc = "new_auditor" /\ pc' = "running"
        /\ gen' = gen + 1 /\ tasks' = Tasks /\ reason' = "none"
        /\ subscribed' = {} /\ launched' = FALSE
        /\ UNCHANGED <<onchain, finders, watched, canceled, goroutines, validScan>>
    BY <1>1 DEF StartGroup, NewAuditor
  <2>2. GenerationInv'
    BY <1>0, <2>1 DEF GenerationInv
  <2>3. ProcessTypeOK'
    <3>1. gen' \in 0 .. MaxVersion
      BY <1>0, <2>1, MaxVersionAssumption DEF GenerationInv
    <3>2. launched' \in BOOLEAN
      BY <2>1
    <3> QED BY <2>1, <3>1, <3>2 DEF ProcessTypeOK, goroutines
  <2>4. ControlInv'
    BY <2>1 DEF ControlInv, OneExecutor, GroupEndsForAReason, StartInv,
                goroutines, Tasks
  <2>5. FinderInv'
    BY <2>1 DEF FinderInv, goroutines
  <2> QED BY <2>2, <2>3, <2>4, <2>5
<1>2. CASE GroupReturns
  <2>1. /\ pc = "running" /\ tasks = {}
        /\ pc' = IF reason = "changed" THEN "loop" ELSE "returned"
        /\ UNCHANGED <<onchain, finders, watched, canceled, processVars>>
    BY <1>2 DEF GroupReturns
  <2>2. GenerationInv'
    BY <1>0, <2>1
    DEF GenerationInv, ControlInv, GroupEndsForAReason, VersionsOrdered,
        processVars, groupVars
  <2>3. ProcessTypeOK' /\ FinderInv'
    BY <2>1 DEF ProcessTypeOK, FinderInv, processVars, groupVars, startVars,
                goroutines
  <2>4. ControlInv'
    BY <2>1 DEF ControlInv, OneExecutor, GroupEndsForAReason, StartInv,
                processVars, groupVars, startVars, goroutines
  <2> QED BY <2>2, <2>3, <2>4
<1> QED BY <1>1, <1>2

\* A task returns: the watcher and the metric tasks.
LEMMA TaskProcessInv ==
    ASSUME ProcessInv, WatcherPolls \/ \E task \in Tasks : TaskStops(task)
    PROVE  ProcessInv'
<1> USE DEF ProcessInv, vars
<1> DEFINE Returns(task, err) ==
              /\ task \in tasks
              /\ Return(task, err)
              /\ err = "changed" => onchain.version # watched
              /\ err = "canceled" => Done(gen)
              /\ UNCHANGED <<vars, gen, startVars, goroutines, validScan>>
<1>1. PICK task \in {"watcher", "metrics"}, err \in {"changed", "canceled"} :
         Returns(task, err)
  <2>1. CASE WatcherPolls
    BY <2>1 DEF WatcherPolls
  <2>2. ASSUME NEW task \in Tasks, TaskStops(task)
        PROVE  task \in {"watcher", "metrics"} /\ Returns(task, "canceled")
    BY <2>2 DEF TaskStops, Tasks
  <2> QED BY <2>1, <2>2
<1>2. LifecycleInv'
  BY <1>1 DEF LifecycleInv, TypeOK, VersionsOrdered,
              CurrentVersionMeansCurrentTokens
<1>3. ProcessTypeOK'
  BY <1>1, <1>2 DEF ProcessTypeOK, Return, startVars, goroutines, LifecycleInv
<1>4. GenerationInv' /\ FinderInv'
  BY <1>1 DEF GenerationInv, FinderInv, goroutines
<1>5. ControlInv'
  BY <1>1 DEF ControlInv, OneExecutor, GroupEndsForAReason, StartInv, Done,
              Return, Tasks, startVars, goroutines
<1> QED BY <1>2, <1>3, <1>4, <1>5

\* Executor.Start: finders are subscribed for the tokens that NewServices read,
\* and the executor's goroutine is launched at most once.
LEMMA StartProcessInv ==
    ASSUME ProcessInv,
           \/ SubscribeFails \/ Launch \/ StartReturns
           \/ \E token \in Tokens : Subscribe(token)
    PROVE  ProcessInv'
<1> USE DEF ProcessInv
<1>0. UNCHANGED vars /\ "executor" \in tasks /\ pc = "running"
  BY DEF SubscribeFails, Launch, StartReturns, Subscribe, ControlInv,
         GroupEndsForAReason
<1>1. LifecycleInv'
  BY <1>0 DEF LifecycleInv, TypeOK, VersionsOrdered,
              CurrentVersionMeansCurrentTokens, vars
<1>2. gen \in Generations
  BY <1>0, MaxVersionAssumption DEF GenerationInv, ProcessTypeOK, Generations
<1> USE DEF vars, startVars, goroutines
<1>3. CASE SubscribeFails
  <2>1. waiting \cup busy = {}
    BY <1>0, <1>3 DEF SubscribeFails, ControlInv, StartInv
  <2>2. ProcessTypeOK' /\ GenerationInv' /\ FinderInv'
    BY <1>0, <1>1, <1>3 DEF SubscribeFails, Return, ProcessTypeOK, LifecycleInv,
                            GenerationInv, FinderInv
  <2>3. ControlInv'
    BY <1>0, <1>3, <2>1
    DEF SubscribeFails, Return, ControlInv, OneExecutor, GroupEndsForAReason,
        StartInv, Done
  <2> QED BY <1>1, <2>2, <2>3
<1>4. CASE Launch
  <2>1. launched' \in BOOLEAN
    BY <1>4 DEF Launch
  <2>2. ProcessTypeOK' /\ GenerationInv' /\ FinderInv'
    BY <1>0, <1>1, <1>2, <1>4, <2>1
    DEF Launch, ProcessTypeOK, LifecycleInv, GenerationInv, FinderInv
  <2>3. ControlInv'
    BY <1>0, <1>4
    DEF Launch, ControlInv, OneExecutor, GroupEndsForAReason, StartInv, Done
  <2> QED BY <1>1, <2>2, <2>3
<1>5. CASE StartReturns
  <2>1. waiting \cup busy = {} /\ Done(gen)
    BY <1>0, <1>5 DEF StartReturns, ControlInv, OneExecutor, StartInv
  <2>2. ProcessTypeOK' /\ GenerationInv' /\ FinderInv'
    BY <1>0, <1>1, <1>5 DEF StartReturns, ProcessTypeOK, LifecycleInv,
                            GenerationInv, FinderInv
  <2>3. ControlInv'
    BY <1>0, <1>5, <2>1
    DEF StartReturns, ControlInv, OneExecutor, GroupEndsForAReason, StartInv, Done
  <2> QED BY <1>1, <2>2, <2>3
<1>6. ASSUME NEW token \in Tokens, Subscribe(token) PROVE ProcessInv'
  <2>1. ProcessTypeOK' /\ GenerationInv'
    BY <1>0, <1>1, <1>2, <1>6
    DEF Subscribe, ProcessTypeOK, LifecycleInv, GenerationInv
  <2>2. FinderInv'
    BY <1>0, <1>6 DEF Subscribe, FinderInv
  <2>3. ControlInv'
    BY <1>0, <1>6
    DEF Subscribe, ControlInv, OneExecutor, GroupEndsForAReason, StartInv, Done
  <2> QED BY <1>1, <2>1, <2>2, <2>3
<1> QED BY <1>3, <1>4, <1>5, <1>6

\* The goroutines that Executor.Start launched.
LEMMA GoroutineProcessInv ==
    ASSUME ProcessInv,
           \/ \E g \in waiting \cup busy : ExecutorStep(g)
           \/ \E f \in scanning \cup idle \cup sending : FinderStep(f[1], f[2])
    PROVE  ProcessInv'
<1> USE DEF ProcessInv
<1>0. UNCHANGED <<vars, groupVars>>
  BY DEF ExecutorStep, RetryEnds, ExecutorStops, FinderStep, Handover,
         FinderReceives, FinderStops, ScannerStops
<1>1. LifecycleInv' /\ GenerationInv'
  BY <1>0 DEF LifecycleInv, TypeOK, VersionsOrdered, GenerationInv,
              CurrentVersionMeansCurrentTokens, vars, groupVars
<1> USE DEF vars, groupVars, startVars
<1>2. ASSUME NEW g \in waiting \cup busy, ExecutorStep(g) PROVE ProcessInv'
  <2>1. ProcessTypeOK' /\ FinderInv'
    BY <1>0, <1>1, <1>2
    DEF ExecutorStep, RetryEnds, ExecutorStops, ProcessTypeOK, LifecycleInv,
        FinderInv
  <2>2. ControlInv'
    BY <1>0, <1>2
    DEF ExecutorStep, RetryEnds, ExecutorStops, ControlInv, OneExecutor,
        GroupEndsForAReason, StartInv, Done
  <2> QED BY <1>1, <2>1, <2>2
<1>3. ASSUME NEW f \in scanning \cup idle \cup sending, FinderStep(f[1], f[2])
      PROVE  ProcessInv'
  <2>1. f \in Generations \X Tokens /\ f = <<f[1], f[2]>>
    BY DEF ProcessTypeOK
  <2>2. ProcessTypeOK'
    BY <1>0, <1>1, <1>3, <2>1
    DEF FinderStep, Handover, FinderReceives, FinderStops, ScannerStops,
        ProcessTypeOK, LifecycleInv
  <2>3. idle' \cup sending' \subseteq idle \cup sending
    BY <1>3, <2>1
    DEF FinderStep, Handover, FinderReceives, FinderStops, ScannerStops
  <2>4. FinderInv'
    BY <1>0, <2>3 DEF FinderInv
  <2>5. waiting' \cup busy' = waiting \cup busy /\ waiting' \cap busy' = {}
    BY <1>3
    DEF FinderStep, Handover, FinderReceives, FinderStops, ScannerStops,
        ControlInv, OneExecutor
  <2>6. ControlInv'
    BY <1>0, <2>5
    DEF ControlInv, OneExecutor, GroupEndsForAReason, StartInv, Done
  <2> QED BY <1>1, <2>2, <2>4, <2>6
<1> QED BY <1>2, <1>3

\* Every step keeps the invariant, and is a step of the process as a whole.
LEMMA NextProcessInv ==
    ProcessInv /\ [ProcessNext]_allVars => ProcessInv' /\ [Next]_vars
<1> SUFFICES ASSUME ProcessInv, [ProcessNext]_allVars
             PROVE  ProcessInv' /\ [Next]_vars
  OBVIOUS
<1>1. CASE UNCHANGED allVars
  BY <1>1
  DEF allVars, vars, processVars, groupVars, startVars, goroutines, ProcessInv,
      LifecycleInv, TypeOK, VersionsOrdered, CurrentVersionMeansCurrentTokens,
      ProcessTypeOK, GenerationInv, FinderInv, ControlInv, OneExecutor,
      GroupEndsForAReason, StartInv, Done
<1>2. CASE ProcessNext
  <2>1. [Next]_vars
    BY <1>2, StepOfLifecycle DEF ProcessInv, ControlInv
  <2>2. LifecycleInv'
    BY <2>1, LifecycleStep DEF ProcessInv
  <2>3. ProcessInv'
    BY <1>2, <2>2, OutsideProcessInv, GroupBoundsProcessInv, TaskProcessInv,
       StartProcessInv, GoroutineProcessInv
    DEF ProcessNext, Group
  <2> QED BY <2>1, <2>3
<1> QED BY <1>1, <1>2

\* The invariant holds in every state.
LEMMA ProcessInvariant == ProcessSpec => []ProcessInv
BY InitProcessInv, NextProcessInv, PTL DEF ProcessSpec

\* The goroutines implement the process of RelayerLifecycle, whatever the order
\* in which tasks, finders and scanners see that their context ended; so its
\* theorems hold of the goroutines too.
THEOREM GoroutinesRunLifecycle == ProcessSpec => RunsLifecycle
<1>1. ProcessInit => Init
  BY DEF ProcessInit
<1> QED BY <1>1, ProcessInvariant, NextProcessInv, PTL
        DEF ProcessSpec, RunsLifecycle, Spec

\* The variables keep their types; that there are no more generations than
\* versions takes the version comparison of the watcher.
THEOREM ProcessTypeCorrect == ProcessSpec => []ProcessTypeOK
BY ProcessInvariant, PTL DEF ProcessInv

\* A relayer never runs two executors, and none while services are created.
THEOREM ExecutorsDoNotOverlap == ProcessSpec => []OneExecutor
BY ProcessInvariant, PTL DEF ProcessInv, ControlInv

\* The group ends for the reason it reports.
THEOREM GroupReasonIsTrue == ProcessSpec => []GroupEndsForAReason
BY ProcessInvariant, PTL DEF ProcessInv, ControlInv

\* No transfer is lost in a finder that outlives its generation: its token is
\* scanned again.
THEOREM StuckTransfersRescanned == ProcessSpec => []StuckTransferIsRescanned
<1>1. FinderInv => StuckTransferIsRescanned
  BY DEF FinderInv, StuckTransferIsRescanned
<1> QED BY <1>1, ProcessInvariant, PTL DEF ProcessInv

=============================================================================
