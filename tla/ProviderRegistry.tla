-------------------------- MODULE ProviderRegistry --------------------------
(***************************************************************************)
(* Which provider executes a run's stages.  Every run is started with a    *)
(* worker thread of its own (cli.py _run_worker), which first resolves the *)
(* run's `providers:' block into orchestrator/registry.py's module         *)
(* dictionary and then polls the one task queue all runs share.            *)
(*                                                                         *)
(* The dictionary belongs to the process: cli.py has a process per run,    *)
(* the dashboard one process for all of its runs, whose worker threads     *)
(* never stop.  Registration is a sequence of dictionary writes, and any   *)
(* polling thread may execute a stage between two of them.                 *)
(*                                                                         *)
(* Of the catalogue, the two capabilities that tell the modalities apart   *)
(* are kept.                                                               *)
(***************************************************************************)
EXTENDS Naturals, Sequences, FiniteSets

CONSTANTS
  Runs, Processes,
  Home,           \* the process each run's worker thread lives in
  LongLived,      \* processes that outlive their runs: the dashboard's
  Config,         \* each run's `providers:' block; "auto" where it is silent
  Keyed           \* capabilities with an API key

Caps == <<"avatar_render", "media_sync">>     \* in catalogue order
CapNames == {Caps[i] : i \in 1..Len(Caps)}

\* _PROVIDER_CATALOG, and _KEYED_DEFAULT ("stub" for what it does not list)
Catalog == [avatar_render |-> {"stub", "did", "faceless_mixed_media"},
            media_sync    |-> {"stub", "narration_conform"}]
KeyedDefault == [avatar_render |-> "did", media_sync |-> "stub"]

ASSUME RegistryAssumption ==
  /\ IsFiniteSet(Runs)
  /\ Home \in [Runs -> Processes] /\ LongLived \subseteq Processes
  /\ DOMAIN Config = Runs /\ \A r \in Runs : DOMAIN Config[r] = CapNames
  /\ Keyed \subseteq {"avatar_render"}

\* A command is a process of its own; the dashboard names FACELESS_PROVIDERS or
\* nothing.
ASSUME HomeAssumption ==
  \A r \in Runs :
    IF Home[r] \in LongLived
      THEN \A c \in CapNames : Config[r][c] \in Catalog[c] \cup {"auto"}
      ELSE \A s \in Runs : Home[s] = Home[r] => s = r

VARIABLES
  providers,      \* per process, the dictionary _providers
  thread,         \* per run, its worker thread: where it is in registration
  nextCap,        \* and the index of the capability it registers next
  flow,           \* per run, index of the workflow's current stage; 0: closed
  used,           \* per run, the provider that executed each stage
  alone           \* history: no other run was open beside this one, and no
                  \* other process polled

vars == <<providers, thread, nextCap, flow, used, alone>>

Names == UNION {Catalog[c] : c \in CapNames}
Registering == {"clear", "stubs", "keyed", "config"}
Threads == {"absent", "polling", "dead"} \cup Registering

Init ==
  /\ providers = [p \in Processes |-> [c \in CapNames |-> "none"]]
  /\ thread = [r \in Runs |-> "absent"]
  /\ nextCap = [r \in Runs |-> 1]
  /\ flow = [r \in Runs |-> 0]
  /\ used = [r \in Runs |-> [c \in CapNames |-> "none"]]
  /\ alone = [r \in Runs |-> FALSE]

\* Launched, and not through both stages yet.
Open(r) == thread[r] # "absent" /\ flow[r] <= Len(Caps)

Launch(r) ==
  /\ thread[r] = "absent"
  /\ thread' = [thread EXCEPT ![r] = "clear"]
  /\ alone' = [x \in Runs |->
                IF x = r
                  THEN \A y \in Runs : /\ ~ Open(y)
                                       /\ Home[y] = Home[r] \/ thread[y] # "polling"
                  ELSE alone[x] /\ ~ Open(x)]
  /\ UNCHANGED <<providers, nextCap, flow, used>>
-----------------------------------------------------------------------------
(* register_from_run_config, in run r's worker thread *)

Put(r, c, name) == providers' = [providers EXCEPT ![Home[r]][c] = name]

\* Faulty: one capability past the end of the catalogue.
StepPastTheEnd(r, after) ==
  IF nextCap[r] <= Len(Caps)
    THEN nextCap' = [nextCap EXCEPT ![r] = @ + 1] /\ UNCHANGED thread
    ELSE /\ nextCap' = [nextCap EXCEPT ![r] = 1]
         /\ thread' = [thread EXCEPT ![r] = after]

\* On to the next capability, or to the next pass over the catalogue.
Step(r, after) ==
  IF nextCap[r] < Len(Caps)
    THEN nextCap' = [nextCap EXCEPT ![r] = @ + 1] /\ UNCHANGED thread
    ELSE /\ nextCap' = [nextCap EXCEPT ![r] = 1]
         /\ thread' = [thread EXCEPT ![r] = after]

Clear(r) ==
  /\ thread[r] = "clear"
  /\ providers' = [providers EXCEPT ![Home[r]] = [c \in CapNames |-> "none"]]
  /\ thread' = [thread EXCEPT ![r] = "stubs"]
  /\ UNCHANGED <<nextCap, flow, used, alone>>

\* Faulty: the loop over the catalogue ends one capability early.
StubsAllButLast(r) ==
  /\ thread[r] = "stubs"
  /\ IF nextCap[r] < Len(Caps) THEN Put(r, Caps[nextCap[r]], "stub")
                               ELSE UNCHANGED providers
  /\ Step(r, "keyed")
  /\ UNCHANGED <<flow, used, alone>>

RegisterStub(r) ==
  /\ thread[r] = "stubs"
  /\ Put(r, Caps[nextCap[r]], "stub")
  /\ Step(r, "keyed")
  /\ UNCHANGED <<flow, used, alone>>

RegisterKeyed(r) ==
  /\ thread[r] = "keyed"
  /\ LET c == Caps[nextCap[r]]
     IN IF c \in Keyed THEN Put(r, c, KeyedDefault[c]) ELSE UNCHANGED providers
  /\ Step(r, "config")
  /\ UNCHANGED <<flow, used, alone>>

\* Faulty: the block only fills in what no key has chosen.
ConfigYieldsToKey(r) ==
  /\ thread[r] = "config"
  /\ LET c == Caps[nextCap[r]]
     IN IF Config[r][c] # "auto" /\ c \notin Keyed
          THEN Put(r, c, Config[r][c]) ELSE UNCHANGED providers
  /\ Step(r, "polling")
  /\ UNCHANGED <<flow, used, alone>>

\* An unknown name raises ProviderResolutionError, which ends the thread and
\* not the run.
RegisterFromConfig(r) ==
  /\ thread[r] = "config"
  /\ LET c == Caps[nextCap[r]]
     IN CASE Config[r][c] = "auto"       -> UNCHANGED providers /\ Step(r, "polling")
          [] Config[r][c] \in Catalog[c] -> Put(r, c, Config[r][c]) /\ Step(r, "polling")
          [] OTHER -> /\ thread' = [thread EXCEPT ![r] = "dead"]
                      /\ UNCHANGED <<providers, nextCap>>
  /\ UNCHANGED <<flow, used, alone>>
-----------------------------------------------------------------------------
\* start_workflow, two seconds after the thread was started: long enough for
\* it to resolve the providers or to die of them.
StartWorkflow(r) ==
  /\ flow[r] = 0 /\ thread[r] \in {"polling", "dead"}
  /\ flow' = [flow EXCEPT ![r] = 1]
  /\ UNCHANGED <<providers, thread, nextCap, used, alone>>

\* A polling thread takes run r's stage and looks the provider up in its own
\* process; a KeyError is retried by Temporal.  cli.py exits with its run.
Execute(r, worker) ==
  LET c == Caps[flow[r]]
  IN /\ flow[r] \in 1..Len(Caps) /\ thread[worker] = "polling"
     /\ providers[Home[worker]][c] # "none"
     /\ used' = [used EXCEPT ![r][c] = providers[Home[worker]][c]]
     /\ flow' = [flow EXCEPT ![r] = @ + 1]
     /\ thread' = IF flow[r] = Len(Caps) /\ Home[r] \notin LongLived
                    THEN [thread EXCEPT ![r] = "dead"] ELSE thread
     /\ UNCHANGED <<providers, nextCap, alone>>

\* Every run is through its stages, or nobody polls for those that are not.
Quiet ==
  /\ \A r \in Runs : thread[r] \in {"absent", "polling", "dead"}
  /\ UNCHANGED vars

Resolve(r) == Clear(r) \/ RegisterStub(r) \/ RegisterKeyed(r) \/ RegisterFromConfig(r)

Next ==
  \/ \E r \in Runs : Launch(r) \/ Resolve(r) \/ StartWorkflow(r)
  \/ \E r, w \in Runs : Execute(r, w)
  \/ Quiet

\* Threads run, and Temporal hands an open stage to some polling worker.
Fairness ==
  \A r \in Runs : /\ WF_vars(Resolve(r)) /\ WF_vars(StartWorkflow(r))
                  /\ WF_vars(\E w \in Runs : Execute(r, w))

Spec == Init /\ [][Next]_vars

FairSpec == Spec /\ Fairness
-----------------------------------------------------------------------------
(* Properties *)

\* Every variable has the type of what it stands for in the code.
TypeOK ==
  /\ providers \in [Processes -> [CapNames -> Names \cup {"none"}]]
  /\ thread \in [Runs -> Threads]
  /\ nextCap \in [Runs -> 1..Len(Caps)]
  /\ flow \in [Runs -> 0..Len(Caps) + 1]
  /\ used \in [Runs -> [CapNames -> Names \cup {"none"}]]
  /\ alone \in [Runs -> BOOLEAN]

\* The precedence of registry.py: run config, then key, then stub.
Resolution(r, c) ==
  IF Config[r][c] # "auto" THEN Config[r][c]
  ELSE IF c \in Keyed THEN KeyedDefault[c] ELSE "stub"

\* Each stage of a run that nothing else was open beside is executed by the
\* provider the run's own configuration resolves to, although every thread the
\* dashboard ever started is still polling and every earlier run has rewritten
\* the registry.
RunGetsItsProviders ==
  \A r \in Runs, c \in CapNames :
    alone[r] => used[r][c] \in {"none", Resolution(r, c)}

\* However many threads resolve at once, a registry is incomplete only while
\* one of them is between its clear and its last stub.
RegistryComplete ==
  \A r \in Runs :
    /\ thread[r] \in {"keyed", "config", "polling"}
    /\ \A x \in Runs : Home[x] = Home[r] => thread[x] # "stubs"
    => \A c \in CapNames : providers[Home[r]][c] # "none"

\* A run whose workflow was started gets through its stages, unless nobody is
\* left to poll: an incomplete registry delays a stage and never wedges it.
StartedRunsFinish ==
  \A r \in Runs :
    flow[r] > 0 ~> \/ flow[r] > Len(Caps)
                   \/ \A w \in Runs : thread[w] # "polling"

\* registry.py:175 says that explicit entries win, and that nothing falls back
\* silently: "a faceless run that quietly rendered an avatar would pass M4's
\* diff and fail its purpose"; here: a named provider is the one that executes.
ConfigWins ==
  \A r \in Runs, c \in CapNames :
    Config[r][c] # "auto" => used[r][c] \in {"none", Config[r][c]}
=============================================================================
