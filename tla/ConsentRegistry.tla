--------------------------- MODULE ConsentRegistry ---------------------------
(***************************************************************************)
(* The registry rows of a face and a voice, the artifact store they point  *)
(* into, and one AVATAR run that uses both while their owners reseed them  *)
(* and withdraw consent: sql/create_registry_profiles.sql, the two seed    *)
(* scripts, orchestrator/storage.py, orchestrator/consent_gate.py,         *)
(* fetch_identity_reference, and the places where S20 and S30 read either. *)
(*                                                                         *)
(* A version is a person's asset as one seeding provides it: the image, or *)
(* the ElevenLabs voice together with its sample.  Nothing in the source   *)
(* withdraws consent; the column exists to be set from outside.            *)
(***************************************************************************)
EXTENDS Naturals

CONSTANTS
  Versions,         \* what a seed script may be given
  RetryBudget,      \* DEFAULT_RETRY_BUDGET
  MaxSeeds,         \* bound: rows written by the seed scripts
  MaxWithdrawals,   \* bound: consents withdrawn
  MaxErrors,        \* bound: activities that raise
  MaxMisses         \* bound: renders and speeches that fail without a cause here

ASSUME BudgetAssumption == RetryBudget \in Nat \ {0}
ASSUME VersionAssumption == Versions # {} /\ 0 \notin Versions
ASSUME BoundAssumption ==
  /\ MaxSeeds \in Nat /\ MaxWithdrawals \in Nat
  /\ MaxErrors \in Nat /\ MaxMisses \in Nat

VARIABLES
  store,     \* MinIO: the content under each key, 0 for none
  rows,      \* identity_profiles and voice_profiles
  pending,   \* seed scripts that have stored their asset and not yet the row
  at,        \* where the run is
  attempt,   \* of the stage it is in
  face,      \* the identity reference among the run's artifact_refs
  speaker,   \* the provider_voice_id this try of S20 has read
  speech,    \* the voice heard in the narration
  late,      \* history: provider calls made since a consent was withdrawn
  seeds, withdrawals, errors, misses

registry == <<store, rows, pending>>
run      == <<at, attempt, face, speaker, speech, late>>
bounds   == <<seeds, withdrawals, errors, misses>>
vars     == <<registry, run, bounds>>

Kinds == {"identity", "voice"}

Keys == Kinds \X (Versions \cup {0})

Places == {"check_identity", "check_voice", "fetch", "read_voice", "speak",
           "judge_voice", "render", "refetch", "refused", "done", "failed"}

Ended == {"refused", "done", "failed"}

\* Faulty: an artifact is stored under its id alone.
IdOnlyKey(kind, v) == <<kind, 0>>

\* put_artifact appends the digest of the content to the artifact's id.
Key(kind, v) == <<kind, v>>

\* An ArtifactRefV1.
Ref(kind, v) == [path |-> Key(kind, v), hash |-> v]
NoRef == [path |-> <<"identity", 0>>, hash |-> 0]

\* get_artifact returns the content, or raises.
Readable(ref) == store[ref.path] = ref.hash

Active(kind) == rows[kind].consent = "active"

Init ==
  /\ \E f \in Versions, v \in Versions :
       /\ rows = [k \in Kinds |->
                   [consent |-> "active",
                    ref |-> Ref(k, IF k = "identity" THEN f ELSE v)]]
       /\ store = [k \in Keys |->
                    IF k \in {Key("identity", f), Key("voice", v)}
                      THEN IF k[1] = "identity" THEN f ELSE v
                      ELSE 0]
  /\ pending = {}
  /\ at = "check_identity" /\ attempt = 1
  /\ face = NoRef /\ speaker = 0 /\ speech = 0
  /\ late = [k \in Kinds |-> 0]
  /\ seeds = 0 /\ withdrawals = 0 /\ errors = 0 /\ misses = 0
-----------------------------------------------------------------------------
(* seed_identity_reference.py and seed_voice_reference.py *)

\* Faulty: the row is announced before its asset is stored.
SeedStoresLater(kind, v) ==
  /\ seeds < MaxSeeds
  /\ pending' = pending \cup {<<kind, v>>}
  /\ UNCHANGED <<store, rows, run, bounds>>

SeedStores(kind, v) ==
  /\ seeds < MaxSeeds
  /\ store' = [store EXCEPT ![Key(kind, v)] = v]
  /\ pending' = pending \cup {<<kind, v>>}
  /\ UNCHANGED <<rows, run, bounds>>

\* The upsert; a consent that was withdrawn is active again.
SeedWrites(kind, v) ==
  /\ <<kind, v>> \in pending /\ seeds < MaxSeeds
  /\ seeds' = seeds + 1
  /\ rows' = [rows EXCEPT ![kind] =
                [consent |-> "active", ref |-> Ref(kind, v)]]
  /\ pending' = pending \ {<<kind, v>>}
  /\ late' = [late EXCEPT ![kind] = 0]
  /\ UNCHANGED <<store, at, attempt, face, speaker, speech, withdrawals,
                 errors, misses>>

\* The script dies in between: the asset stays, and no row names it.
SeedDies(kind, v) ==
  /\ <<kind, v>> \in pending
  /\ pending' = pending \ {<<kind, v>>}
  /\ UNCHANGED <<store, rows, run, bounds>>

Withdraw(kind) ==
  /\ Active(kind) /\ withdrawals < MaxWithdrawals
  /\ withdrawals' = withdrawals + 1
  /\ rows' = [rows EXCEPT ![kind].consent = "revoked"]
  /\ UNCHANGED <<store, pending, run, seeds, errors, misses>>
-----------------------------------------------------------------------------
(* validate_run, and the run *)

\* One SELECT after the other; the run is refused unless each finds "active".
Validate(place, kind, next) ==
  /\ at = place
  /\ at' = IF Active(kind) THEN next ELSE "refused"
  /\ UNCHANGED <<registry, attempt, face, speaker, speech, late, bounds>>

\* Faulty: the reference is returned whatever the row's consent says.
FetchAnyIdentity(place, next) ==
  /\ at = place
  /\ at' = next /\ face' = rows["identity"].ref
  /\ attempt' = IF place = "refetch" THEN attempt + 1 ELSE 1
  /\ UNCHANGED <<registry, speaker, speech, late, bounds>>

\* fetch_identity_reference raises, and is tried again, until it finds "active".
FetchIdentity(place, next) ==
  /\ at = place /\ Active("identity")
  /\ at' = next /\ face' = rows["identity"].ref
  /\ attempt' = IF place = "refetch" THEN attempt + 1 ELSE 1
  /\ UNCHANGED <<registry, speaker, speech, late, bounds>>

\* Faulty: a retry speaks with the voice the first attempt had read.
ReadVoiceOnce ==
  /\ at = "read_voice"
  /\ speaker = 0 => Active("voice")
  /\ speaker' = IF speaker = 0 THEN rows["voice"].ref.hash ELSE speaker
  /\ at' = "speak"
  /\ UNCHANGED <<registry, attempt, face, speech, late, bounds>>

\* ElevenLabsVoiceProvider reads voice and consent at every try.
ReadVoice ==
  /\ at = "read_voice" /\ Active("voice")
  /\ speaker' = rows["voice"].ref.hash
  /\ at' = "speak"
  /\ UNCHANGED <<registry, attempt, face, speech, late, bounds>>

CountLate(kind) ==
  late' = IF Active(kind) THEN late ELSE [late EXCEPT ![kind] = @ + 1]

Speak ==
  /\ at = "speak"
  /\ speech' = speaker
  /\ CountLate("voice")
  /\ at' = "judge_voice"
  /\ UNCHANGED <<registry, attempt, face, speaker, bounds>>

\* The activity raises once the words are spoken: Temporal replays it.
SpeakRaises ==
  /\ at \in {"speak", "judge_voice"} /\ errors < MaxErrors
  /\ errors' = errors + 1
  /\ IF at = "speak" THEN CountLate("voice") ELSE UNCHANGED late
  /\ at' = "read_voice"
  /\ UNCHANGED <<registry, attempt, face, speaker, speech, seeds, withdrawals,
                 misses>>

\* Whether the sample that the row names by now is of the voice in the speech;
\* a sample that cannot be had is no reason to fail.
SoundsRight == rows["voice"].ref.hash = speech

VoicePasses ==
  /\ at = "judge_voice"
  /\ at' = "render" /\ attempt' = 1
  /\ UNCHANGED <<registry, face, speaker, speech, late, bounds>>

\* Faulty: the budget is not looked at.
RetryAlways(next) == at' = next

\* One more attempt at the stage, or the end of the run.
Retry(next) ==
  IF attempt < RetryBudget THEN at' = next ELSE at' = "failed"

\* speaker_similarity_low
VoiceFails ==
  /\ at = "judge_voice" /\ Readable(rows["voice"].ref)
  /\ IF SoundsRight THEN misses < MaxMisses /\ misses' = misses + 1
                    ELSE UNCHANGED misses
  /\ Retry("read_voice")
  /\ attempt' = IF attempt < RetryBudget THEN attempt + 1 ELSE attempt
  /\ UNCHANGED <<registry, face, speaker, speech, late, seeds, withdrawals,
                 errors>>

\* S30 reads the image its envelope names; so does its validator, and nobody
\* asks for consent.  An envelope is replayed as it is.
RenderPasses ==
  /\ at = "render" /\ Readable(face)
  /\ CountLate("identity")
  /\ at' = "done"
  /\ UNCHANGED <<registry, attempt, face, speaker, speech, bounds>>

RenderRaises ==
  /\ at = "render" /\ Readable(face) /\ errors < MaxErrors
  /\ errors' = errors + 1
  /\ CountLate("identity")
  /\ UNCHANGED <<registry, at, attempt, face, speaker, speech, seeds,
                 withdrawals, misses>>

\* identity_similarity_low: the retry fetches the reference anew.
RenderFails ==
  /\ at = "render" /\ Readable(face) /\ misses < MaxMisses
  /\ misses' = misses + 1
  /\ CountLate("identity")
  /\ Retry("refetch")
  /\ UNCHANGED <<registry, attempt, face, speaker, speech, seeds, withdrawals,
                 errors>>

\* A try that finds no consent, or cannot read the image, raises at once; it
\* leaves nothing behind and is tried again for as long as it takes.
RefusedTry ==
  /\ \/ at \in {"fetch", "refetch"} /\ ~ Active("identity")
     \/ at = "read_voice" /\ ~ Active("voice")
     \/ at = "render" /\ ~ Readable(face)
  /\ UNCHANGED vars

Over ==
  /\ at \in Ended
  /\ UNCHANGED vars

Run ==
  \/ Validate("check_identity", "identity", "check_voice")
  \/ Validate("check_voice", "voice", "fetch")
  \/ FetchIdentity("fetch", "read_voice")
  \/ FetchIdentity("refetch", "render")
  \/ ReadVoice \/ Speak \/ SpeakRaises \/ VoicePasses \/ VoiceFails
  \/ RenderPasses \/ RenderRaises \/ RenderFails

Owners ==
  \E k \in Kinds :
    \/ \E v \in Versions : SeedStores(k, v) \/ SeedWrites(k, v) \/ SeedDies(k, v)
    \/ Withdraw(k)

Next == Run \/ RefusedTry \/ (at \notin Ended /\ Owners) \/ Over

Spec == Init /\ [][Next]_vars

\* Temporal dispatches what is pending and retries what raised.
FairSpec == Spec /\ WF_vars(Run)
-----------------------------------------------------------------------------
(* Properties *)

\* Every variable has the type of what it stands for in the code.
TypeOK ==
  /\ store \in [Keys -> Versions \cup {0}]
  /\ rows \in [Kinds -> [consent : {"active", "revoked"},
                         ref : [path : Keys, hash : Versions]]]
  /\ pending \subseteq Kinds \X Versions
  /\ at \in Places /\ attempt \in 1..RetryBudget
  /\ face \in [path : Keys, hash : Versions \cup {0}]
  /\ speaker \in Versions \cup {0} /\ speech \in Versions \cup {0}
  /\ late \in [Kinds -> Nat]
  /\ seeds \in 0..MaxSeeds /\ withdrawals \in 0..MaxWithdrawals
  /\ errors \in 0..MaxErrors /\ misses \in 0..MaxMisses

\* What a row names, and what a run was given before the row was overwritten,
\* can be read and has the hash it was announced with, however often the asset
\* is seeded anew and wherever a seed script dies.
ReferencesResolve ==
  /\ \A k \in Kinds : Readable(rows[k].ref)
  /\ face # NoRef => Readable(face)

\* After a withdrawal the run speaks at most once more, in a try that had read
\* the consent before; and it renders one attempt at most, with as many replays
\* as the activity raises, though S30 never asks.
WithdrawalStopsProviders ==
  /\ late["voice"] <= 1
  /\ late["identity"] <= 1 + errors

\* A reseed between the speech and its judgement costs an attempt, and no more:
\* a run fails only after as many reseeds and unlucky scores as its budget.
MixedPairsNeedReseeds == at = "failed" => seeds + misses >= RetryBudget

\* Unless a consent is withdrawn for good the run ends: no reseed, withdrawal
\* or dead script leaves it waiting for an asset that cannot be read.
RunEndsUnderConsent ==
  (<>[](Active("identity") /\ Active("voice"))) => <>(at \in Ended)
=============================================================================
