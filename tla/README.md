# Content engine: a TLA+ verification project

The content engine turns an idea into a published video: a Temporal workflow
(`orchestrator/pipeline.py`) drives eleven stages S00 .. S100, each executed by a provider
behind an activity, each judged by an exit validator, with a human approval gate (G80) in front of
disclosure (G90) and publishing (S100). This directory models that machinery in TLA+,
checks it with TLC on small instances, and proves much of it with TLAPS for all of them.

Paths below are relative to the repository root. `PROJECT.json` lists, for every definition that
models code, the lines it stands for.

## 1. The system

| Component | Code | State it keeps | Operations |
|---|---|---|---|
| Pipeline workflow | `orchestrator/pipeline.py` | `_stage_outputs`, `_approval`, `_current_master_hash`, position of the coroutine | `run`, `_run_stage_with_correction`, `_run_intake_with_correction`, signal `approve` |
| Stage graph, correction policy | `graph/pipeline_graph.py`, `contracts/common/correction_plan.py` | none | order, budget, retryable types |
| Activities | `orchestrator/activities.py` | none | `run_stage`, `run_intake_stage`, `record_g80_approval`, `fetch_identity_reference` |
| Stage executor | `orchestrator/stage_executor.py` | two dictionaries per process: results, feedback | `execute_stage`, the exit validators |
| Manifest and telemetry | `orchestrator/manifest_store.py`, `telemetry.py` | PostgreSQL rows keyed by run, stage, attempt | upsert, load |
| Run drivers | `cli.py`, `orchestrator/dashboard_api.py`, `scripts/approve.py`, `scripts/run_pipeline.py` | phase of the driver, `_runs` | start, wait for the gate, look the hash up, sign, wait, verify; the dashboard process stops and starts |
| Provider registry | `orchestrator/registry.py`, `worker.py` | one dictionary per process | clear, register stubs, keyed, configured; `get` |
| Consent gate | `orchestrator/consent_gate.py` | none of its own | `validate_run` |
| Registry of faces and voices | `scripts/seed_*_reference.py`, `sql/create_registry_profiles.sql` | rows with consent and reference | store the asset, upsert the row |
| Artifact storage | `orchestrator/storage.py` | MinIO objects | `put_artifact`, `get_artifact` |
| Avatar rendering | `providers/real/did_avatar.py` | talks at D-ID | create, poll, download, give up |
| Media chain | providers and validators of S00 .. S100 | the artifacts in the envelope | make, measure, judge |
| Word timestamps | `providers/real/openai_whisper_captions.py`, `assembly.py` | none | repair, validate, cut into cues |
| Publish precondition | `orchestrator/publish_precondition.py` | none | verdict of G90 and S100 |
| Contract drift classifier | `scripts/classify_contract_drift.py` | none | breaking, or additive |

**How they interact.** A driver starts the workflow and a worker thread in its own process. The
workflow calls activities; Temporal delivers an activity at least once to some polling worker.
The activity calls `execute_stage`, which looks the provider up in the *process's* registry, calls
it, runs the validator, writes the manifest row and the telemetry row, and answers. The answer is
stored in `_stage_outputs`, whose artifact references make up the envelope of every later stage. A
validation failure comes back as an exception; the workflow retries in place if the type is
retryable and the budget allows. Any other exception never reaches the workflow: Temporal's default
policy replays the activity, without a maximum. The drivers do not ask the workflow where it is:
they count rows in PostgreSQL, look the master's hash up there and send the `approve` signal. The
registry's rows and the objects they point to are written by seed scripts at any time, and read by
the consent gate, `fetch_identity_reference`, S20's provider and S20's validator.

**What is hard.** Activities are repeated after crashes and timeouts, and a try that timed out may
still be running, with a paid job at D-ID behind it; the two caches are per process; signals arrive in any phase; consent may
be withdrawn and faces reseeded at any time; several runs share the registry of the dashboard's process, which may be
restarted under them; every measurement of a medium has a fallback of its own; and the waits of the drivers look at the
rows and not at the workflow.

**What makes each correct.** The workflow: it is a chain of stages, retries stay local, what is on record explains the
outcome, only an approved run publishes. The executor: what the rows say is what the workflow was told. The
rendering: nothing is paid for twice without a fault. The drivers: they approve the master of their own run or nothing,
and report success only of a published run. The registry: a run is executed by the providers its configuration names.
Consent: a withdrawal stops the providers within a try, and what a row names can be read. The media: what the reviewer
gets to see is the run's own video and as long as its narration.

## 2. The modules

| Module | Models | Proofs in |
|---|---|---|
| `PipelineGraph` | Stage order, budget, failure types of each stage, which are retryable. Constants only. | |
| `PublishGate` | *Abstract.* One master, one verdict, release only if approved. | |
| `StageChain` | *Abstract.* Stages passed in order, tried again in place within the budget. | |
| `AvatarPipeline` | The workflow, one activity per step. Implements `PublishGate` and `StageChain`. | `AvatarPipelineProofs` |
| `StageContract` | *Abstract.* One stage as the workflow may think of it. | |
| `StageExecution` | One stage from queue to answer: workers, tries, caches, row writes, crashes, replays. Implements `StageContract`. | `StageExecutionProofs` |
| `RenderJob` | EXTENDS `StageExecution`: the provider call of S30 opened up into D-ID's talks. Implements `StageContract`. | `RenderJobProofs` |
| `RunDriver` | EXTENDS `AvatarPipeline`: the workflow composed with a driver. | `RunDriverProofs` |
| `ProviderRegistry` | The registry, several runs, several processes. | `ProviderRegistryProofs` |
| `ConsentRegistry` | Registry rows, artifact store, seed scripts, withdrawals, and the run that uses them. | `ConsentRegistryProofs` |
| `CaptionTiming` | Word timestamps as pure operators. | `OperatorProofs` |
| `PublishChecks` | The precondition evaluator, the gates that ask it, the publishers, as pure operators. | `OperatorProofs` |
| `MediaChain` | What S00 .. S100 hand each other, measure and decide. Composes `CaptionTiming` and `PublishChecks`, implements `StageChain`. | `MediaChainProofs` |
| `ContractDrift` | When a change of a contract breaks old documents. | `OperatorProofs` |

The `MC*` modules give TLC the values of the constants. Definitions commented "Faulty"
are plausible bugs; nothing uses them. Each is put in the place of the definition that follows it to see
that the properties notice.

### 2.1 `AvatarPipeline`

State: `awaiting` is the await the coroutine is suspended on, `stage` and `attempt` its position;
`renderHash` and `masterHash` are the videos among `_stage_outputs` (`masterHash` is also
`_current_master_hash`, `pipeline.py:313`); `approval` is `_approval`; `recorded` the
decision handed to `record_g80_approval`; `manifest` and `evidence` the rows and the stored reports, per
stage and attempt; `obstacles` what makes the pending activity raise at present. `early` in an approval is a history bit: it was
accepted while there was no master.

One action per outcome of an await: `IntakePasses`, `MediaStagePasses`, `DisclosurePasses`,
`PublishPasses`, `StageFails` (both correction loops; whether it retries, refetches the identity or
gives up follows from `Retryable`), `FetchIdentity`, `RefetchIdentity`, `Approve` (the signal handler, enabled in every
phase), `GateOpens`, `GateTimesOut`, `RecordApproval`, and `ObstacleChanges` for the environment.
An activity is one step here; `StageExecution` justifies that.

An activity that raises anything but a `ValidationFailure` is retried by Temporal's default policy with the same arguments and without end.
`Obstacles` are the reasons: the identity's consent is withdrawn (`activities.py:122`), the voice's is (`elevenlabs_voice.py:72`, in faceless runs too), the
narration is over a cap of S20's provider (`elevenlabs_voice.py:57`, `elevenlabs_voice.py:85`), or something else fails (`fault`: a service, a provider, a capability nobody
registered). `Obstructing` says which of them the pending activity meets, and no activity passes or fails validation while it meets one (`Unobstructed`). Consents and faults come and go; that
a script is too long is settled when S10 passes, and nothing undoes it. Obstacles are tracked only while the pending activity meets them, since they matter to no other.

The workflow implements two abstract specifications. `Gate == INSTANCE PublishGate`: the master is
`masterHash`, the verdict is G80's row, released is the master once S100 has a PASSED row.
`Chain == INSTANCE StageChain`: two correction loops, two stage loops cut at the gate and the identity
fetches in between amount to one chain; while the first fetch is awaited the chain is at S10 already.

### 2.2 `StageExecution`, `StageContract` and `RenderJob`

`StageExecution` opens up the one step an activity is in `AvatarPipeline`. Workers poll, hit the result cache or call the
provider, keep or drop the feedback, write the manifest row, write the telemetry row, then reply: each a step, with
`Crash` and `Raise` possible at every one. A lost try is noticed by its timeout (`LostTryTimesOut`), and a slow one
may be timed out while it goes on (`SlowTryTimesOut`). Outputs are numbered by the provider calls that made them,
so "the same output" has a meaning. Its refinement of `StageContract` says that none of this is
visible to the workflow: each attempt leaves exactly the row of the verdict that was delivered, and the output on record is
the one the workflow was given. That holds of `InTimeSpec`, in which no try outlives its timeout; the full `Spec` has the
slow tries too, and the run `telemetry_truth` shows why the premise is needed.

`RenderJob` replaces the provider call by what `DIDAvatarProvider.run` does: a talk is created (`CreateTalk`; or exists
without anybody knowing its id, `LoseTalk`), ends at D-ID (`TalkEnds`), is found done and stored (`FinishTalk`) or found in
error (`FindError`), or outlasts the deadline (`GiveUpPolling`). `talks` are D-ID's jobs and never shrink: nothing
in the code cancels one. `RenderInTimeSpec` is `RenderSpec` without tries that outlive their timeout, as `InTimeSpec` is for `Spec`.

### 2.3 `RunDriver`

`RunDriver` EXTENDS `AvatarPipeline` and adds one driver: the command line, the dashboard's background
thread or a human with `scripts/approve.py`. `oldRows` are rows an earlier run with the same id left in PostgreSQL; `Seen`
is what the queries return. `Surplus` are the PASSED rows among them that the present run need not have overwritten when it gets
to S60, and `OneSurplusRow` the premise that there is one at most. `WorkerAlive` says which workers outlive which driver: the command's
daemon thread dies with it, the dashboard's does not. The dashboard process itself may stop at any moment
(`DashboardRestarts`): `_runs`, the driving thread and the worker are gone, and the phase of a run it drove is `lost`. A workflow without a worker waits until another
run in a dashboard brings one (`serving`, `AnotherRunStarts`): all runs share one task queue, so a workflow that a command has left behind may go on, too. `DriversOnlySignal` states that every behaviour of the composition is,
as far as the workflow goes, a behaviour of `AvatarPipeline`.

### 2.4 `ProviderRegistry`

Each run has a thread that first resolves the run's configuration as a sequence of dictionary writes and then
polls the one task queue all runs share, so that any polling thread may execute a stage of any run, between any two writes of
another. Two of the ten capabilities are kept: those in which the two modalities differ.

### 2.5 `ConsentRegistry`

Rows of a face and a voice, the content under each key of the store, and the scripts that have stored an asset and not yet
written its row (`pending`: a script may die there, `SeedDies`). The run is followed through the places where it looks at either:
`validate_run`'s two SELECTs, the fetch of the identity, S20's read of the voice, the speech, the
validator's read of the sample, the render with the reference of its envelope, and the refetch. `late` counts provider calls made
since a consent was withdrawn. Withdrawals come from outside: nothing in the repository writes anything but "active".

### 2.6 `MediaChain`, `CaptionTiming` and `PublishChecks`

An artifact is its kind, its length in milliseconds, whether it has a sound track, what its
pictures show (the S30 attempt that rendered them; 0 for a fixture), and whether codec and frame size
are those QC wants. Every stage picks its inputs from `upstream` with the lookups the provider uses, makes an artifact and has
it judged. Every measurement is a subprocess that may fail; each step chooses the set `broken` of those that do, and the model uses the
fallback of the code at that place: 0 in most, five seconds in `assembly.py:38`, the fixture in `assembly.py:190`, a similarity
of zero where a clip or a frame cannot be decoded. A judge's verdict is free, and its absence counts as a yes. The lookups matter
because the envelope accumulates: `FreshIdentity` depends on the retry putting its new reference where the lookup finds it.

`CaptionTiming` has the repair of degenerate words, the validator and the subtitle cues as operators over sequences of words.
`PublishChecks` has the evaluator of the publish precondition with its complaints, and the validators of S00, G90 and S100.
S100's validator has no approval at hand: it asks the evaluator anyway and drops each complaint with the word "approval" in it, which is
why a complaint has words in the model.

### 2.7 `ContractDrift`

The classifier's breaking deltas over two schemas, and beside them `Accepts`, what a validator does with a document.

## 3. The runs

| Run | Distinct states | Shows |
|---|---|---|
| `pipeline` | 184 835 | The safety properties of the workflow, the refinements of `PublishGate` and `StageChain`, and that it ends once its activities stop raising. |
| `media` | 42 417 | What reaches the gate and is published is right whatever was measured wrongly on the way; retries have a reason; the media never leave the chain of stages. |
| `stage` | 114 209 | Two workers, two crashes, two exceptions; rows and deliveries agree, the contract is implemented. |
| `render` | 157 598 | One process at D-ID with a kill, an exception, a slow try and a failed talk: talks and renders have causes, feedback is never stale, the stage resolves. |
| `driver` | 102 456 | The three drivers, no rows of an earlier run or those of one killed at S40 or at S70, a dashboard that is restarted. |
| `registry` | 5 869 | Two dashboard runs and one command with a misspelt provider. |
| `consent` | 644 764 | One run while its face and voice are reseeded, their consents withdrawn and seed scripts die. |
| `approval_hash`, `disclosure_hash`, `telemetry_truth`, `script_cap`, `registry_config` | | Statements of the repository that the code does not keep; section 6. |

The properties are stated, with the code behaviour each is about, in a comment above each definition. Every one
of them is broken by a plausible bug in a definition that models code (`mutants` in `PROJECT.json`).

### Bounds, and why they are enough

* `RetryBudget = 3` is the code's own value, so the retry counters are not bounded artificially.
* `Hashes = {h1, h2}` (with a third for the zeros and an old run's hash in `RunDriver`): every property compares two hashes.
* `FlakyStages`: stages outside it always pass. The five chosen cover the kinds of failure there are: retryable (S00),
  with identity refetch (S30), of the master (S60), terminal only (S70) and behind the gate (S100). The proofs do not depend on
  the choice.
* `MaxCrashes`, `MaxErrors`, `MaxSlow` bound the faults during one stage. Two crashes with two exceptions let a replay be replayed
  while the other worker holds an older cache entry; `stage` is a run of `InTimeSpec`, so its `MaxSlow` is 0. In `render` one fault of each kind, a failed talk included, meets
  every step of the others. `StageResolves` needs some bound: with infinitely many faults no stage resolves.
* `Workers`: two in `stage`, where the caches differ; one in `render`, as the command line has it, because feedback is only
  found again in the process that stored it.
* Three runs, two processes: two runs overlap in the dashboard and a third has a process of its own.
* `consent`: two versions of a face and of a voice, so that a reseed changes something; two rows written by seed scripts and two withdrawals, so that
  a withdrawn consent is made active again and withdrawn again; one exception; three misses, which is the retry budget, so that a run can fail on misses alone.
* Media lengths are chosen around every threshold: a narration near the five seconds of the fixture, two at either side of
  the fifteen seconds of the unfitted title cards, one beyond the cap; renders that drift by nothing, within QC's tolerance, within the
  stages' tolerance only, and beyond it; scripts just under, at and over the cap.
* Transcripts: seven words (a full cue and one more), with two neighbours squeezed, collapsed, turned round or out of order in
  twelve ways, missing timestamps, the last word collapsed, too few words and none.

Deadlock is checked in all runs; where the system may stop for good the specifications have an explicit stuttering step
(`Finished`, `Ended`, `Over`, `Resolved`, `Quiet`), and where a provider raises for ever, a step that changes nothing
(`SynthesisRaises`, `RefusedTry`).

### Fairness

* `AvatarPipeline`: weak fairness of the coroutine's own steps. A worker polls, every activity has a start-to-close
  timeout and Temporal's default policy retries it, and the gate's wait has a timer of 30 minutes (`pipeline.py:327`). These steps are enabled only while the pending
  activity meets no obstacle, so nothing obliges an activity that raises to answer; and signals, owners and services owe nothing. `RunEnds` therefore assumes that from some point on
  nothing makes the pending activity raise: both consents are there, the script is within S20's caps, and services answer. Each of these is needed. With an identity or a voice whose consent stays withdrawn,
  or a script over the cap, the activity is retried without end and the run never ends: that is what `RunEndsUnderConsent` assumes of the two consents, and what `script_cap` shows of the script.
* `RenderJob`: a worker process that lives goes on, some worker polls, Temporal's timeout fires, and D-ID ends a talk somebody waits for (the
  poll's deadline alone would not do: a try that gives up is replayed with a new talk). Faults are bounded and never fair.
* `RunDriver`: workflow and driver; each of the driver's waits has a deadline. The reviewer owes nothing, and nobody need start another run:
  `DashboardSettles` assumes that the dashboard, or some later run in it, serves from some point on, and, as `RunEnds` does, that nothing makes
  the activities raise for ever.
* `ProviderRegistry`: threads run, and Temporal hands an open stage to some polling worker.
* `ConsentRegistry`: Temporal dispatches what is pending and replays what raised. Owners and scripts owe nothing; `RunEndsUnderConsent` assumes that
  both consents are active for good at some point.
* `MediaChain` and the run `stage` state safety and refinement only.

## 4. The proofs

The assumptions on the constants are the named ASSUMEs of the modules, which TLC evaluates in the runs. None of the
safety properties is inductive; each proof rests on a strengthening.

**`AvatarPipelineProofs`**: for every `RetryBudget` in `Nat \ {0}`, every nonempty set `Hashes` that does not contain `NoHash` and every
`FlakyStages`. That publishing is approved holds because of where the coroutine is, and the property does not mention the coroutine. `IInv` supplies this:

* `ChainInv`: everything upstream of the position has passed, and nothing downstream of it has a row;
* `StageInv`: which rows the current stage has, by what the coroutine is suspended on;
* `GateInv`: when a decision is on record, and that behind the gate it is an approval;
* `MasterInv`: there is a master from S60 on, and a decision accepted since names it;
* `CorrectionHistory` itself.

`TypeInv`, `TypeOK` with the bound on the attempt that waits for an identity, is inductive on its own and proved first; `IInv` is
then preserved with one step per action (`InductiveInvariantHolds`), and the properties follow. `RowsNeverRewritten` uses
that the attempt about to report has no row yet (`StageInv`); the two refinements use `GateInv`, `MasterInv` and `StageInv` to show that a step maps to
the abstract step, or to a stutter.

**`StageExecutionProofs`**: for any number of workers, any budget and any number of faults. `RecordsMatch` and `StageRefinesContract` are about
`InTimeSpec` and rest on `RecordInv`: at most one execution is under way, and it is the current one (`OneExecution`); attempts before the current one have failed rows
and no output, later ones none (`RowsInOrder`); what the execution has written so far agrees with its verdict (`RowsWritten`); outputs are real
(`Outputs`); and the outcome is on record (`Verdicted`). `CallsAreExplained` is about `Spec`, slow tries included, and counts: calls, plus executions that may still call
(`Cardinality(Running)`), plus one if a lost try is about to be replayed (`Owed`), never exceed `attempt + crashes + errors + slow`.

`FeedbackIsFresh` rests on `FeedbackInv`: a process that still holds feedback holds that of the failure the loop last got back, or of one
it has not got back yet. It assumes one process (`OneProcess`), as the code needs it to: feedback is only found again where it was stored.

**`RenderJobProofs`**: for any number of processes, of failed talks and of faults. A step of the render is a step of the stage, or a try that ends because
D-ID failed or the deadline passed (`StageMoves`); what is proved of the stage is carried over along this line, with one more step for such a try.
`RenderCallsExplained` and `RenderFeedbackIsFresh` are about `RenderSpec`; `RenderRecordsMatch` and `RenderRefinesContract` are about `RenderInTimeSpec`.
`TalksExplained` is new and counts in two accounts (`TalksInv`). In the first (`TalksPaid`), talks, executions that have none yet (`Fresh`) and a try still owed are paid for by
attempts, faults and the errors that D-ID has reported. In the second (`LeftBehind`), talks that run with nobody waiting and executions the server has given up (`Late`) are
paid for by faults. Neither would be kept without `TriesInv` (the server waits for one execution at most) and `Apart` (no two executions wait for the same talk).
`PassedRendersKept` counts processes with an empty cache (`KeptInv`); it assumes that there are finitely many.

**`RunDriverProofs`** carries the workflow's `IInv` along: a driver's signal is a step of the workflow only if the hash it found is a video's,
which depends on the rows (`HashInv`), and a driver that verifies has seen the workflow complete (`PhaseInv`). `DriverSignsMaster` rests on `SignInv`: between counting and
signing, the master exists. The driver counts PASSED rows, so this is a matter of cardinality (`TooFewRows`): until S60 has passed there are fewer than eight,
because each of the six stages before it has one PASSED row at most, and what is left is the earlier run's surplus. The premise `OneSurplusRow` is therefore
needed, and TLC evaluates it as an ASSUME of `MCRunDriver`. With two surplus rows the statement is false; section 6 says how.

**`MediaChainProofs`**: for any budget, any lengths of script and speech, any drift of a render and any transcript. Every property speaks of artifacts that a stage picked out of
its envelope, so all rests on what the envelope holds. `ChainInv` says it: where the loop is and which verdicts it may carry (`LoopInv`); an artifact of a kind is there
exactly if its stage has passed, and once only (`RefsInv`); the identity is the one fetched last, once per attempt at S30 (`IdentityInv`). From it follow
`FreshIdentityHolds` and the refinement `MediaFollowTheChain`. `MediaInv` adds what the artifacts have to do with each other, one part per stage: the narration lasts (`SpokenInv`), the
render lasts and is the first video (`RenderedInv`), syncing and assembly keep what is shown (`SyncedInv`, `AssembledInv`), QC bounds the distance to the narration (`InspectedInv`), the
disclosure is about the same pictures (`DisclosedInv`). `MasterFollowsNarrationHolds`, `MasterIsTheRunsOwnHolds` and `SyncedToNarrationHolds` follow at the gate. `WordsInv` says that the words kept
are well timed; `CuesAreShownHolds` and `RepairSparesRetriesHolds` join it to the theorems about captions below. `FacelessRendersHoldAlways` needs one more
invariant, `SmoothInv`: as long as no tool has failed, a faceless run's videos have exactly the narration's length; then each refusal of the media contradicts it (`FacelessFailure`).
The lemmas about the lookups (`FirstExists`, `FirstAppended`, `OthersKept`) need the first position of a kind in a sequence, which is there because a set of naturals has a least member (`Least`).

**`ProviderRegistryProofs`**: `ThreadInv` (a workflow starts only once its thread has resolved
the providers or died of them), `FillInv` (a missing entry is one that some thread is still to fill in) and `AloneInv` (what the dictionary holds, entry by
entry, while a run that nothing else was open beside resolves its providers, and after). `HomeAssumption` is needed: a command is a process of its own, and a dashboard run names the faceless providers or none.

**`ConsentRegistryProofs`**: `StoreInv` (content-addressed keys hold their own content or nothing, what a row or a pending script names is stored), `LateInv` (where a call
made after a withdrawal can still come from) and `CostInv` (attempts are paid for by reseeds and misses), for any numbers of reseeds, withdrawals, exceptions and misses.

**`OperatorProofs`** has the theorems about the pure operators. *Captions*, for every sequence of words: `RepairLeavesNoneDegenerate`, `RepairPassesTiming` (a transcription in
order passes `WellTimed` and `Apart` once repaired), `RepairIsStable` and `CuesLast` (cues of valid, ordered captions
last, for any number of words). The argument is arithmetic on `RepairedEnd`: it lies after the start, and not beyond the next
word's start by more than the tolerance. `MediaChainProofs` uses them in the chain.

*Publishing*: dropping complaints by a word in them drops the approval's and no others (`PublishIsThePrecondition`), so S100 passes exactly
when the evaluator given a matching approval would; the validator's own backstop adds nothing (`BackstopIsIdle`); a content evaluator has seen an approval of this master
and the constant True (`EvaluatorIsStrict`); G90 and S100 agree (`GatesAgree`); and what a publisher sends is not refused afterwards (`SentIsNeverRefused`).

*Contracts*: a change called additive keeps every old document valid provided no free property gains a type or an enum
(`AdditiveKeepsDocuments`), and without the proviso it does not (`NewEnumGoesUnnoticed`).

**Model-checked only.** Every invariant, action property and refinement that a run checks is proved. What is left to TLC is liveness (`RunEnds`, `StageResolves`, `StartedRunsFinish`,
`DashboardSettles`, `RunEndsUnderConsent`), which is out of the prover's reach, and the counterexamples of section 6.

## 5. What is not modelled, and why

* A retry of S30 whose identity was reseeded in the meantime has another cache key (`stage_executor.py:52`) and misses an older result. `StageExecution` and `RenderJob` take
  the envelope to be the same at every attempt; reseeding is the subject of `ConsentRegistry`.
* External services, HTTP, SQL, subprocesses, prompts, pixels and samples: pure I/O. What the code does with their answers, errors included, is modelled where section 2 says so.
* `gemini_script.py`: no catalogue entry names it, so no run executes it.
* Caption times are floats in seconds in the code and whole milliseconds here; the rounding of sums of floats around a tolerance is not modelled. The length of faceless segments is taken as exact, not rounded to frames.
* Burning captions in may fail silently (`assembly.py:117`) and does not change what is measured later, so the model leaves it out.
* Mixed configurations the catalogue allows but no shipped run has, such as D-ID without an identity: the provider raises and the stage is retried without end.
* Reading YAML (`provider_config.py`), argument parsing, the HTTP layer of the dashboard and the shape checks of the contracts change no state of a run.
* Contract and graph lints, schema export and the smoke tests read sources or call one service once; the dashboard's page only polls.

## 6. Where the code and its documents disagree

Each is a run that TLC ends with a counterexample:

* `approval_hash`: until S60 has passed, `approve` accepts a decision whatever hash it names (`pipeline.py:249`), and the later master is
  published under it. `g80_approval.py:30` says that a decision applies to exactly the video it names. `LateApprovalNamesMaster` is what does hold.
* `disclosure_hash`: `stub_disclosure.py:27` takes the first `video/mp4` upstream, which is S30's render, and discloses its hash as the master's.
* `telemetry_truth`: a try that outlived its timeout overwrites the telemetry row of the try that counted.
* `registry_config`: two overlapping runs in the dashboard share one registry, and a run of one modality is executed by the other's providers.
  `RunGetsItsProviders` is what does hold, for a run that nothing else was open beside.
* `script_cap`: S10 caps the sum of the scenes at 1500 characters; S20 joins them with two blanks, caps the result at 1500, and raises a `ValueError`
  that is retried with the same script without end.

Observed while modelling, without a run of their own:

* *Rendering.* The poll's deadline is 300 s from the talk's creation, the activity's timeout five minutes from its start, so when the
  `TimeoutError` of `did_avatar.py` comes nobody waits for it any more. Temporal's default policy has no maximum of attempts: if D-ID never ends a talk, talk after talk is
  created. No talk is ever cancelled.
* *Resuming.* The result cache is memory of the worker: a run restarted with its id executes every stage again, while `kill_drill.sh:6` speaks of resuming.
* *Consent.* Reseeding makes a withdrawn consent active again and keeps the old `consent_grant_id`. S30 never asks for consent; its reference was fetched before S10 or on
  the refetch. S30's judge compares with the very reference the render was made from.
* *Identity.* After an S30 refetch the later stages' envelopes still hold the first identity reference; nothing reads it there.
* *Stubs.* A stub voice is silent and fails S20's volume check, so a run on stubs alone does not get past S20; a stub render is black, scores zero against any
  identity, and does not get past S30 in a run that has one.
* *Tolerances.* QC's (0.75 s) is tighter than that of S30 to S60 (2 s) and its failure is terminal: a render that is 1.8 s off is accepted three times and then ends the run. `MasterFollowsNarration` rests on this.
* *Publishing.* S100 is validated after it has published. The third test in `upload_video` cannot fail, the one before it says more.
* *Drivers.* `approve.py` signs sixty-four zeros when it finds no master, and says that the gate accepts any hash (`approve.py:44`); once there is a master the gate
  refuses it. A workflow that died before the gate is noticed only when the
  wait expires. The dashboard then reports a failed row with the highest attempt (`dashboard_api.py:121`), which may be of a stage that recovered. The comment at
  `dashboard_api.py:48` says that a restart loses status tracking; it loses the worker and the approval, too. `verify_manifest.py:54` adds one for a row that exists.
* *Counting rows.* The wait for the gate ends at eight PASSED rows (`cli.py:92`), meant as "S00-S70 all passed" (`cli.py:76`), and rows of an earlier run with the same id count. One of
  them that the new run has not overwritten does no harm (`DriverSignsMaster`). Two do: TLC, given an earlier run that passed S10 and S20 at their second attempts, or one that had
  reached the gate, finds the driver counting eight rows before S60 has passed, signing sixty-four zeros while there is no master to compare them with, and the workflow recording that approval of a
  video nobody made. `pipeline_run_instructions.md:257` forbids reusing an id; `kill_drill.sh` reuses one on purpose.
* *Contracts.* The classifier calls an enum on a field that had none additive (`classify_contract_drift.py:143`) while its verdict says that old documents still validate (`classify_contract_drift.py:241`); `NewEnumGoesUnnoticed` is the counterexample.

## 7. The plan, and what is left of it

Done: the workflow with its two refinements; the stage with its contract, and the rendering inside it; the drivers and the dashboard's restart; the
registry; consent and seeding; the media from S00 to S100 with caption timing and the publish checks; the contract drift classifier; and the
proofs of section 4, which cover every safety property and every refinement that the runs check.

Left, most important first:

1. An abstract specification of what consent owes a run (a grant, its withdrawal, the provider calls after it) for `ConsentRegistry` to implement, as `PublishGate` is for the workflow,
   and one of what a driver reports for `RunDriver`.
2. That `OneSurplusRow` is exact is checked on examples; an explicit run of the model from any two surplus rows to an early approval would make it a theorem about the rows.
3. The deadlines of the drivers and of the activities are free choices; with clocks one could say which of them comes first.
