-------------------------- MODULE RelayerLifecycle --------------------------
(***************************************************************************)
(* The life of one relayer process (relayer/service, relayer/watcher):     *)
(* RunExecutorWithAutoRestart builds the services from the contract's      *)
(* configuration, runs them, and starts over when the config watcher       *)
(* reports another version.                                                *)
(*                                                                         *)
(* NewServices asks the contract for its configuration three times: for    *)
(* the tokens the finders scan, for the version the watcher compares with, *)
(* and for the auditor.  Each answer is a step, so the owner can act in    *)
(* between.                                                                *)
(***************************************************************************)
EXTENDS Naturals

CONSTANTS
    Tokens,         \* XRPL tokens the owner may register
    MaxVersion      \* bound: configuration versions of the contract

ASSUME MaxVersionAssumption == MaxVersion \in Nat \ {0}

VARIABLES
    onchain,    \* the contract's configuration: its version and tokens
    pc,         \* where RunExecutorWithAutoRestart is
    finders,    \* the configuration the running finders were created from
    watched,    \* ConfigWatcher.currentVersion
    canceled    \* the process context is canceled

vars == <<onchain, pc, finders, watched, canceled>>

ConfigView == [version : 0 .. MaxVersion, tokens : SUBSET Tokens]

\* Where the process can be: at the head of the loop, before each of the three
\* queries of NewServices, in parallel.Run, or returned to the caller.
Place == {"loop", "create_finders", "init_watcher", "new_auditor", "running",
          "returned"}

NoConfig == [version |-> 0, tokens |-> {}]

Init ==
    /\ onchain \in [version : {1}, tokens : SUBSET Tokens]
    /\ pc = "loop"
    /\ finders = NoConfig
    /\ watched = 0
    /\ canceled = FALSE

-----------------------------------------------------------------------------
(* The contract's owner *)

\* Mutant: tokens are added under the version the contract had.
AddTokensUnversioned(new) ==
    /\ new \cap onchain.tokens = {}
    /\ onchain' = [onchain EXCEPT !.tokens = @ \cup new]
    /\ UNCHANGED <<pc, finders, watched, canceled>>

\* Mutant: the tokens replace the registered ones.
ReplaceTokens(new) ==
    /\ onchain.version < MaxVersion
    /\ onchain' = [version |-> onchain.version + 1, tokens |-> new]
    /\ UNCHANGED <<pc, finders, watched, canceled>>

\* add_xrpl_tokens, with tokens that are not registered yet.
AddTokens(new) ==
    /\ onchain.version < MaxVersion
    /\ new \cap onchain.tokens = {}
    /\ onchain' = [version |-> onchain.version + 1,
                   tokens |-> onchain.tokens \cup new]
    /\ UNCHANGED <<pc, finders, watched, canceled>>

\* Any other configuration call: a new owner, limit or list of relayers.
ChangeOtherField ==
    /\ onchain.version < MaxVersion
    /\ onchain' = [onchain EXCEPT !.version = @ + 1]
    /\ UNCHANGED <<pc, finders, watched, canceled>>

-----------------------------------------------------------------------------
(* The relayer process *)

\* The head of the loop: the context is checked before services are created.
StartIteration ==
    /\ pc = "loop"
    /\ pc' = IF canceled THEN "returned" ELSE "create_finders"
    /\ UNCHANGED <<onchain, finders, watched, canceled>>

\* NewServices queries the tokens and creates one finder for each.
CreateFinders ==
    /\ pc = "create_finders"
    /\ finders' = onchain
    /\ pc' = "init_watcher"
    /\ UNCHANGED <<onchain, watched, canceled>>

\* Mutant: a version that is already known is kept across restarts.
InitializeOnce ==
    /\ pc = "init_watcher"
    /\ watched' = IF watched = 0 THEN onchain.version ELSE watched
    /\ pc' = "new_auditor"
    /\ UNCHANGED <<onchain, finders, canceled>>

\* ConfigWatcher.Initialize queries the configuration again for its version.
Initialize ==
    /\ pc = "init_watcher"
    /\ watched' = onchain.version
    /\ pc' = "new_auditor"
    /\ UNCHANGED <<onchain, finders, canceled>>

\* NewAuditor queries it a third time, for the auditor alone.
NewAuditor ==
    /\ pc = "new_auditor"
    /\ pc' = "running"
    /\ UNCHANGED <<onchain, finders, watched, canceled>>

\* A query of NewServices fails and ends RunExecutorWithAutoRestart.
QueryFails ==
    /\ pc \in {"create_finders", "init_watcher", "new_auditor"}
    /\ pc' = "returned"
    /\ UNCHANGED <<onchain, finders, watched, canceled>>

\* A poll of Watch that finds another version; polls that fail, or find the
\* known version, change nothing.  ErrConfigChanged stops all tasks.
Watch ==
    /\ pc = "running"
    /\ onchain.version # watched
    /\ pc' = "loop"
    /\ UNCHANGED <<onchain, finders, watched, canceled>>

\* A task of the group ends with an error, which is returned.
TaskFails ==
    /\ pc = "running"
    /\ pc' = "returned"
    /\ UNCHANGED <<onchain, finders, watched, canceled>>

\* The context is canceled; a running group stops and nil is returned.
Cancel ==
    /\ ~canceled
    /\ canceled' = TRUE
    /\ UNCHANGED <<onchain, pc, finders, watched>>

ShutDown ==
    /\ canceled
    /\ pc = "running"
    /\ pc' = "returned"
    /\ UNCHANGED <<onchain, finders, watched, canceled>>

-----------------------------------------------------------------------------

Owner == (\E new \in SUBSET Tokens : AddTokens(new)) \/ ChangeOtherField

Process == StartIteration \/ CreateFinders \/ Initialize \/ NewAuditor \/ Watch
           \/ ShutDown

Next == Owner \/ Process \/ QueryFails \/ TaskFails \/ Cancel

Spec == Init /\ [][Next]_vars

\* The process keeps running, and the watcher's ticker keeps polling; nothing
\* is assumed of the owner, of the operator, or of failing queries.
FairSpec == Spec /\ WF_vars(Process)

-----------------------------------------------------------------------------
(* Properties *)

\* The values of the variables.
TypeOK ==
    /\ onchain \in ConfigView
    /\ pc \in Place
    /\ finders \in ConfigView
    /\ watched \in 0 .. MaxVersion
    /\ canceled \in BOOLEAN

\* Services are initialised while the contract changes: whatever the order,
\* the watcher never compares with a version older than the finders' one, nor
\* with one the contract has not had.
VersionsOrdered ==
    /\ finders.version <= onchain.version
    /\ pc \in {"new_auditor", "running"} =>
          finders.version <= watched /\ watched <= onchain.version

\* Comparing versions suffices to compare token lists: finders that were
\* created from the version the contract still has scan its tokens.
CurrentVersionMeansCurrentTokens ==
    finders.version = onchain.version => finders.tokens = onchain.tokens

\* A change made after Initialize is picked up: the watcher stops the services
\* and NewServices builds finders from that configuration or a later one,
\* unless the process returns.
ChangeReachesFinders ==
    \A v \in 1 .. MaxVersion :
        pc = "running" /\ watched < v /\ onchain.version = v
            ~> pc = "returned" \/ finders.version >= v

\* README: "XRPL tokens are now stored in the contract. The relayer reads them
\* automatically from the contract."  Once the owner makes no more changes, a
\* relayer that has not returned scans the registered tokens.
ScansRegisteredTokens ==
    <>[](pc = "returned" \/ (pc = "running" /\ finders.tokens = onchain.tokens))

=============================================================================
