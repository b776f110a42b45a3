------------------------------ MODULE MediaChain ------------------------------
(***************************************************************************)
(* What the stages of one run hand each other, from the idea to the        *)
(* receipt: the artifacts a stage's provider picks from its envelope, the  *)
(* artifact it makes, what the stage's exit validator measures of it, and  *)
(* the retry in place when the validator says no.  AvatarPipeline leaves a *)
(* validator's verdict open; here it follows from the media.               *)
(*                                                                         *)
(* A stage's activity is one step.  Every measurement is a subprocess that *)
(* may fail and has a fallback of its own; each step chooses the ones that *)
(* do ("broken").  A provider that raises is retried by Temporal with the  *)
(* same envelope and leaves nothing behind, so that is a stutter.          *)
(* Lengths are milliseconds.                                               *)
(***************************************************************************)
EXTENDS PipelineGraph, CaptionTiming, PublishChecks, FiniteSets, SequencesExt

CONSTANTS
  ScriptLengths,  \* bound: characters in the scenes a model may write
  Narrations,     \* bound: lengths of the speech ElevenLabs may return
  RenderDrifts,   \* bound: by how much D-ID's video may differ from the speech
  Transcripts     \* bound: what whisper-1 may hear

ASSUME ScriptAssumption == ScriptLengths \subseteq Nat \ {0}
ASSUME NarrationAssumption == Narrations \subseteq Nat \ {0}
ASSUME DriftAssumption == RenderDrifts \subseteq Int
ASSUME TranscriptAssumption == Transcripts \subseteq Seq(Words)

VARIABLES
  config,         \* the providers of the run, its topic, and whether it has
                  \* an identity
  stage, attempt, \* as in AvatarPipeline; Published once S100 has passed
  failed,         \* the exception has left the workflow
  refs,           \* artifact_refs of _stage_outputs, in the order they came
  upstream,       \* artifact_refs of the current attempt's envelope
  fetched,        \* identity references fetched so far
  verdict,        \* failure_type of the last attempt, "passed" at first
  raw, words,     \* the last transcription, and the words S50 passed
  flawed          \* history: a measurement or a tool has failed

vars == <<config, stage, attempt, failed, refs, upstream, fetched, verdict,
          raw, words, flawed>>

FixtureDuration   == 5000    \* black_5s.mp4 and silent_5s.wav
MaxAudioDuration  == 50000   \* MAX_AUDIO_DURATION_SEC
ScriptCap         == 1500    \* combined_length of _validate_s10_script
SynthesisCap      == 1500    \* MAX_CHARS_MULTILINGUAL_V2
SceneCount        == 3       \* the number of scenes S10 asks for
SceneDuration     == 5000    \* SCENE_DURATION_SECONDS
RenderTolerance   == 2000    \* DURATION_TOLERANCE_SECONDS of did_avatar.py
SyncTolerance     == 2000    \* sync_policy_v1.json
MasterTolerance   == 2000    \* validate_assembly's default
QCTolerance       == 750     \* DURATION_TOLERANCE_SECONDS of stub_qc.py
ConformSlack      == 100     \* mux only, without padding or trimming

Published == S100 + 1

Distance(a, b) == IF a < b THEN b - a ELSE a - b

\* An artifact: its id's prefix, its length, whether it has the narration as
\* a sound track, what its pictures show (the render of that attempt, 0 for
\* the fixture), and whether codecs and frame size are those QC expects.  A
\* script's length is its scenes' characters, and it shows that many scenes; an
\* identity reference shows the number of its fetch; a disclosure shows what the
\* video does whose hash it names.
Artifact(kind, length, sound, shows, spec) ==
  [kind |-> kind, length |-> length, sound |-> sound, shows |-> shows,
   spec |-> spec]
IdentityRef(n) == Artifact("identity", 0, FALSE, n, FALSE)

VideoKinds == {"avatar", "sync", "master"}
NoRef == Artifact("none", 0, FALSE, 0, FALSE)

FirstOfKinds(seq, kinds) ==
  LET i == SelectInSeq(seq, LAMBDA r : r.kind \in kinds)
  IN  IF i = 0 THEN NoRef ELSE seq[i]

ScriptRef   == FirstOfKinds(upstream, {"script"})
VoiceRef    == FirstOfKinds(upstream, {"voice"})
VideoRef    == FirstOfKinds(upstream, VideoKinds)
MasterRef   == FirstOfKinds(upstream, {"master"})
IdentityUsed == FirstOfKinds(upstream, {"identity"})

\* Avatar runs take the keyed provider of a capability or its stub; faceless
\* runs name their own renderer and sync provider.
Configs ==
  [identity : {TRUE}, topic : {"given", "blank"},
   script : {"stub", "openai"}, voice : {"stub", "elevenlabs"},
   render : {"stub", "did"}, sync : {"stub"},
   captions : {"stub", "openai_whisper"}]
  \cup
  [identity : {FALSE}, topic : {"given", "blank"},
   script : {"stub", "openai"}, voice : {"stub", "elevenlabs"},
   render : {"faceless_mixed_media"},
   sync : {"narration_conform"}, captions : {"stub", "openai_whisper"}]

StubWords == <<[start |-> 0,    end |-> 400],  [start |-> 500,  end |-> 800],
               [start |-> 900,  end |-> 1400], [start |-> 1500, end |-> 2100]>>

Init ==
  /\ config \in Configs
  /\ stage = S00 /\ attempt = 1 /\ failed = FALSE
  /\ fetched = 0
  /\ refs = <<>> /\ upstream = <<>>
  /\ verdict = "passed"
  /\ raw = <<>> /\ words = <<>>
  /\ flawed = FALSE
-----------------------------------------------------------------------------
(* The correction loop around a stage *)

\* Faulty variant: the new reference is put behind the old one.
FreshUpstreamAppended == Append(upstream, IdentityRef(fetched + 1))

Others(list, r) == IF r.kind = "identity" THEN list ELSE Append(list, r)

\* The references but the identity's, in the order they came.
WithoutIdentity(seq) ==
  LET kept[n \in 0..Len(seq)] ==
        IF n = 0 THEN <<>> ELSE Others(kept[n - 1], seq[n])
  IN  kept[Len(seq)]

\* An S30 retry gets a reference fetched anew in place of the one it had.
FreshUpstream == Append(WithoutIdentity(upstream), IdentityRef(fetched + 1))

\* The stage has passed, and its output's refs join those of the stages before.
HandsOn(new) ==
  /\ verdict' = "passed"
  /\ stage' = stage + 1 /\ attempt' = 1
  /\ refs' = refs \o new /\ upstream' = refs'
  /\ UNCHANGED failed

Passes(out) == HandsOn(<<out>>) /\ UNCHANGED fetched

Retries(type) ==
  /\ verdict' = type
  /\ Retryable(type, attempt)
  /\ attempt' = attempt + 1
  /\ IF stage = S30 /\ config.identity
     THEN upstream' = FreshUpstream /\ fetched' = fetched + 1
     ELSE UNCHANGED <<upstream, fetched>>
  /\ UNCHANGED <<stage, failed, refs>>

GivesUp(type) ==
  /\ verdict' = type
  /\ ~Retryable(type, attempt)
  /\ failed' = TRUE
  /\ UNCHANGED <<stage, attempt, refs, upstream, fetched>>

\* The stage's activity made out, and its validator says type of it.
Reports(type, out) ==
  \/ type = "passed" /\ Passes(out)
  \/ type # "passed" /\ (Retries(type) \/ GivesUp(type))

\* The stage is run, and the tools in broken fail meanwhile.
Runs(s, broken) ==
  /\ stage = s /\ ~failed
  /\ flawed' = (flawed \/ broken # {})
  /\ UNCHANGED config
-----------------------------------------------------------------------------
(* Measurements, with their fallbacks *)

\* Faulty variant: a stream without a measured length counts as five seconds.
StreamDurationGuessed(r, ok) == IF ok THEN r.length ELSE FixtureDuration

\* _stream_duration, _probe_video_duration, _probe_duration,
\* _measure_audio_duration: 0 when the file cannot be probed.
StreamDuration(r, ok) == IF ok THEN r.length ELSE 0

\* _measure_duration of assembly.py: 5 s when it cannot be probed.
MeasuredDuration(r, ok) == IF ok THEN r.length ELSE FixtureDuration

\* _get_upstream_audio_duration
UpstreamAudio(ok) ==
  IF VoiceRef = NoRef THEN 0 ELSE MeasuredDuration(VoiceRef, ok)

Within(tolerance, length, expected) ==
  expected > 0 => Distance(length, expected) <= tolerance
-----------------------------------------------------------------------------
(* S00: intake, and the identity's first fetch *)

Idea == Artifact("idea", 0, FALSE, 0, FALSE)

\* The drivers let a blank topic pass; the retries are given the same one.
Intake ==
  /\ Runs(S00, {})
  /\ IF ValidIntake(TRUE, config.topic)
     THEN /\ HandsOn(IF config.identity THEN <<Idea, IdentityRef(1)>>
                                        ELSE <<Idea>>)
          /\ fetched' = IF config.identity THEN 1 ELSE 0
     ELSE Retries("intake_mismatch") \/ GivesUp("intake_mismatch")
  /\ UNCHANGED <<raw, words>>
-----------------------------------------------------------------------------
(* S10: script_generation *)

StubScript == Artifact("script", 155, FALSE, SceneCount, FALSE)

Scripts == IF config.script = "stub" THEN {StubScript}
           ELSE [kind : {"script"}, length : ScriptLengths, sound : {FALSE},
                 shows : {2, SceneCount}, spec : {FALSE}]

\* The scenes are judged first, the stored script only when they are good.
ScriptVerdict(out, broken) ==
  IF out.shows # SceneCount \/ out.length > ScriptCap THEN "malformed_script"
  ELSE IF "fetch" \in broken THEN "hash_mismatch"
  ELSE "passed"

Script ==
  \E out \in Scripts, broken \in SUBSET {"fetch"} :
    /\ Runs(S10, broken)
    /\ Reports(ScriptVerdict(out, broken), out)
    /\ UNCHANGED <<raw, words>>
-----------------------------------------------------------------------------
(* S20: voice_synthesis *)

\* The narration is the scenes with a blank between each two.
NarrationLength == ScriptRef.length + ScriptRef.shows - 1

CanSpeak == config.voice = "elevenlabs" => NarrationLength <= SynthesisCap

\* A ValueError is no ValidationFailure: Temporal retries the activity with
\* the same script, and the provider raises again.
SynthesisRaises ==
  /\ stage = S20 /\ ~failed /\ ~CanSpeak
  /\ UNCHANGED vars

\* The stub's wav is silent, which is only noticed if its volume is measured.
ValidVoice(out, broken) ==
  /\ StreamDuration(out, "streams" \notin broken) \in 1..MaxAudioDuration
  /\ config.voice = "stub" => "volume" \in broken

\* compute_speaker_similarity: a clip that cannot be decoded is like no other.
SoundsAlike(alike, broken) == alike /\ "decode" \notin broken

\* The voice the stub names has no reference sample to compare with.
VoiceVerdict(out, alike, broken) ==
  IF ~ValidVoice(out, broken) THEN "voice_invalid"
  ELSE IF config.voice = "elevenlabs" /\ ~SoundsAlike(alike, broken)
  THEN "speaker_similarity_low"
  ELSE "passed"

\* Speech longer than the cap is raised about before it is stored.
Speech == IF config.voice = "stub" THEN {FixtureDuration}
          ELSE Narrations \cap 1..MaxAudioDuration

Voice ==
  \E length \in Speech, alike \in BOOLEAN,
     broken \in SUBSET {"streams", "volume", "decode"} :
    LET out == Artifact("voice", length, TRUE, 0, FALSE)
    IN  /\ Runs(S20, broken)
        /\ CanSpeak
        /\ Reports(VoiceVerdict(out, alike, broken), out)
        /\ UNCHANGED <<raw, words>>
-----------------------------------------------------------------------------
(* S30: avatar_render *)

\* Faulty variant: scenes are not fitted to the narration.
FacelessLengthFixed(measured) == ScriptRef.shows * SceneDuration

\* Title cards, each with its share of the narration, or five seconds each.
FacelessLength(measured) ==
  IF measured > 0 THEN measured ELSE ScriptRef.shows * SceneDuration

\* D-ID lip-syncs the reference to the speech and embeds it.
Rendered(broken) ==
  CASE config.render = "stub" ->
         {Artifact("avatar", FixtureDuration, FALSE, 0, TRUE)}
    [] config.render = "did" ->
         [kind : {"avatar"}, sound : {TRUE}, shows : {attempt}, spec : BOOLEAN,
          length : {VoiceRef.length + d : d \in RenderDrifts} \cap (Nat \ {0})]
    [] config.render = "faceless_mixed_media" ->
         {Artifact("avatar",
                   FacelessLength(StreamDuration(VoiceRef,
                                                 "narration" \notin broken)),
                   FALSE, attempt, TRUE)}

ValidRender(out, broken) ==
  /\ StreamDuration(out, "streams" \notin broken) > 0
  /\ Within(RenderTolerance, out.length, UpstreamAudio("expected" \notin broken))

\* compute_identity_similarity: a frame that cannot be had is like nothing, and
\* neither is one that is black all over, as the fixture's are.
LooksAlike(out, alike, broken) ==
  alike /\ "frame" \notin broken /\ out.shows # 0

\* Without an identity reference there is nothing to be alike.
RenderVerdict(out, alike, broken) ==
  IF ~ValidRender(out, broken) THEN "avatar_render_invalid"
  ELSE IF IdentityUsed # NoRef /\ ~LooksAlike(out, alike, broken)
  THEN "identity_similarity_low"
  ELSE "passed"

RenderAvatar ==
  \E broken \in SUBSET {"narration", "streams", "expected", "frame"} :
    /\ Runs(S30, broken)
    /\ \E out \in Rendered(broken), alike \in BOOLEAN :
         Reports(RenderVerdict(out, alike, broken), out)
    /\ UNCHANGED <<raw, words>>
-----------------------------------------------------------------------------
(* S40: media_sync *)

\* Faulty variant: pads the pictures that are too long, cuts the short ones.
ConformedSwapped(video, speech, measured) ==
  LET diff == speech - measured
  IN  IF diff < -ConformSlack THEN Smaller(video - diff + 500, speech)
      ELSE Smaller(video, speech)

\* Pictures within the slack are muxed, shorter ones padded by half a second
\* too much, and the shortest stream ends both; longer ones are cut.
Conformed(video, speech, measured) ==
  LET diff == speech - measured
  IN  IF diff > ConformSlack THEN Smaller(video + diff + 500, speech)
      ELSE Smaller(video, speech)

Synced(broken) ==
  IF config.sync = "stub" THEN [VideoRef EXCEPT !.kind = "sync"]
  ELSE Artifact("sync",
                Conformed(VideoRef.length, VoiceRef.length,
                          StreamDuration(VideoRef, "video" \notin broken)),
                TRUE, VideoRef.shows, VideoRef.spec)

SyncVerdict(out, broken) ==
  IF \/ StreamDuration(out, "output" \notin broken) = 0
     \/ ~Within(SyncTolerance, out.length,
                UpstreamAudio("expected" \notin broken))
  THEN "sync_duration_mismatch" ELSE "passed"

\* narration_conform raises when it cannot measure the narration.
Sync ==
  \E broken \in SUBSET {"narration", "video", "output", "expected"} :
    /\ Runs(S40, broken)
    /\ config.sync = "narration_conform" => "narration" \notin broken
    /\ Reports(SyncVerdict(Synced(broken), broken), Synced(broken))
    /\ UNCHANGED <<raw, words>>
-----------------------------------------------------------------------------
(* S50: caption_generation *)

CaptionVerdict(captions, broken) ==
  IF ValidCaptions(captions, UpstreamAudio("expected" \notin broken))
  THEN "passed" ELSE "caption_timing_invalid"

\* Each attempt transcribes anew; what does not pass is not handed on.
Caption ==
  \E heard \in IF config.captions = "stub" THEN {<<>>} ELSE Transcripts,
     broken \in SUBSET {"expected"} :
    LET captions == IF config.captions = "stub" THEN StubWords
                    ELSE Repair(heard)
        type     == CaptionVerdict(captions, broken)
    IN  /\ Runs(S50, broken)
        /\ Reports(type, Artifact("captions", 0, FALSE, 0, FALSE))
        /\ raw' = heard
        /\ words' = IF type = "passed" THEN captions ELSE <<>>
-----------------------------------------------------------------------------
(* S60: assembly *)

\* Faulty variant: the fallback is given the run's narration.
FixtureWithNarration ==
  Artifact("master", Smaller(FixtureDuration, VoiceRef.length), TRUE, 0, TRUE)

\* black_5s.mp4, which has no sound track.
Fixture == Artifact("master", FixtureDuration, FALSE, 0, TRUE)

\* S40's video is preferred to S30's.
AssemblySource ==
  IF FirstOfKinds(upstream, {"sync"}) # NoRef
  THEN FirstOfKinds(upstream, {"sync"}) ELSE VideoRef

\* A video with a sound track is taken as it is, one without is muxed with the
\* narration, and whatever goes wrong ends in the fixture.  Burning captions
\* in, or failing to, changes nothing that is measured later.
Assembled(broken) ==
  LET source == AssemblySource
  IN  IF source = NoRef \/ "fetch" \in broken THEN Fixture
      ELSE IF source.sound /\ "sound" \notin broken
      THEN [source EXCEPT !.kind = "master"]
      ELSE IF VoiceRef = NoRef \/ "mux" \in broken THEN Fixture
      ELSE Artifact("master", Smaller(source.length, VoiceRef.length), TRUE,
                    source.shows, source.spec)

AssemblyFailures(out, broken) ==
  {f \in {"duration", "video stream", "audio stream"} :
     CASE f = "duration"     -> ~Within(MasterTolerance,
                                  MeasuredDuration(out, "length" \notin broken),
                                  UpstreamAudio("expected" \notin broken))
       [] f = "video stream" -> "pictures" \in broken
       [] f = "audio stream" -> ~out.sound \/ "track" \in broken}

\* A wrong length gives the failure its type whatever else is wrong.
AssemblyVerdict(out, broken) ==
  LET failures == AssemblyFailures(out, broken)
  IN  IF "duration" \in failures THEN "assembly_duration_mismatch"
      ELSE IF failures # {} THEN "assembly_failed"
      ELSE "passed"

Assemble ==
  \E broken \in SUBSET {"fetch", "sound", "mux", "pictures", "track", "length",
                        "expected"} :
    /\ Runs(S60, broken)
    /\ Reports(AssemblyVerdict(Assembled(broken), broken), Assembled(broken))
    /\ UNCHANGED <<raw, words>>
-----------------------------------------------------------------------------
(* S70: quality_control *)

\* The report's "passed": both lengths are measured anew, the speech's in
\* S20's own artifact.
QCPassed(broken) ==
  LET heard == StreamDuration(VoiceRef, "narration" \notin broken)
      seen  == StreamDuration(MasterRef, "video" \notin broken)
  IN  /\ MasterRef.sound /\ MasterRef.spec
      /\ heard > 0 /\ seen > 0
      /\ Distance(heard, seen) <= QCTolerance

\* judge_video_quality: a yes, with MIN_CONFIDENCE or below it, a no, or an
\* exception for want of a key, of keyframes or of a well-formed answer.
Judgments == {"yes", "unsure", "no", "raises"}

\* The judge's no is final, and so is its doubt; its being unavailable counts
\* as yes.
SubjectiveOk(judgment) == judgment \in {"yes", "raises"}

QCVerdict(judgment, broken) ==
  IF ~QCPassed(broken) THEN "qc_failed"
  ELSE IF ~SubjectiveOk(judgment) THEN "subjective_quality_check_failed"
  ELSE "passed"

Inspect ==
  \E judgment \in Judgments, broken \in SUBSET {"narration", "video"} :
    /\ Runs(S70, broken)
    /\ Reports(QCVerdict(judgment, broken),
               Artifact("qc_report", 0, FALSE, 0, FALSE))
    /\ UNCHANGED <<raw, words>>
-----------------------------------------------------------------------------
(* G80, G90 and S100 *)

\* A decision for the master, one against it, or none in time; which hash a
\* decision names is AvatarPipeline's subject.
Decide ==
  /\ Runs(G80, {})
  /\ \/ HandsOn(<<>>)
     \/ /\ verdict' \in {"approval_rejected", "no_approval"}
        /\ failed' = TRUE
        /\ UNCHANGED <<stage, attempt, refs, upstream>>
  /\ UNCHANGED <<fetched, raw, words>>

StubFlag == "True"

\* The provider signs the first video of the envelope.
Disclose ==
  /\ Runs(G90, {})
  /\ VideoRef # NoRef
  /\ Reports(DisclosureFailure(StubFlag),
             Artifact("disclosure", 0, FALSE, VideoRef.shows, FALSE))
  /\ UNCHANGED <<raw, words>>

Signed ==
  Disclosure(FirstOfKinds(upstream, {"disclosure"}) # NoRef, StubFlag)

\* A receipt is payload only: nothing joins the refs.  The validator knows the
\* master's hash from the disclosure alone and compares it with nothing.
Publish ==
  LET type == PublishFailure(StubPrivacy, Signed, "master", "none")
  IN  /\ Runs(S100, {})
      /\ StubPublishes(Signed)
      /\ \/ type = "passed" /\ HandsOn(<<>>) /\ UNCHANGED fetched
         \/ type # "passed" /\ (Retries(type) \/ GivesUp(type))
      /\ UNCHANGED <<raw, words>>
-----------------------------------------------------------------------------
Ended == failed \/ stage = Published

Next ==
  \/ Intake \/ Script \/ Voice \/ SynthesisRaises
  \/ RenderAvatar \/ Sync \/ Caption \/ Assemble \/ Inspect
  \/ Decide \/ Disclose \/ Publish
  \/ Ended /\ UNCHANGED vars

Spec == Init /\ [][Next]_vars
-----------------------------------------------------------------------------
(* Properties *)

\* Every variable keeps its type; at most one artifact of a kind is handed on.
TypeOK ==
  /\ config \in Configs
  /\ stage \in S00..Published /\ attempt \in Attempts /\ failed \in BOOLEAN
  /\ \A i, j \in 1..Len(refs) : refs[i].kind = refs[j].kind => i = j
  /\ \A i, j \in 1..Len(upstream) : upstream[i].kind = upstream[j].kind => i = j
  /\ fetched \in 0..RetryBudget
  /\ verdict \in {"passed", "no_approval"} \/ \E s \in Stages : verdict \in FailureTypes(s)
  /\ raw \in Transcripts \cup {<<>>} /\ Len(words) \in Nat
  /\ flawed \in BOOLEAN

\* A master that reached the human gate, and so one that is published, lasts as
\* long as the narration of its run, to within QC's tolerance, whichever
\* measurements failed on the way: S30, S40 and S60 each allow two seconds and
\* two of them fall back to five seconds when they cannot measure, so it rests
\* on S70 measuring for itself.
MasterFollowsNarration ==
  stage >= G80 => Distance(MasterRef.length, VoiceRef.length) <= QCTolerance

\* A master at the gate speaks the narration and shows what S30 rendered: the
\* fixture assembly falls back to on any error never gets that far.  And though
\* G90 signs the first video it meets, which is not the master, that video
\* shows what the published one does.
MasterIsTheRunsOwn ==
  stage >= G80 => /\ MasterRef.sound
                  /\ MasterRef.shows = FirstOfKinds(refs, {"avatar"}).shows
                  /\ stage > G90 => FirstOfKinds(refs, {"disclosure"}).shows
                                      = MasterRef.shows

\* Every attempt at S30 is rendered from, and judged by, a reference fetched
\* for that attempt: the lookups take the first image of the envelope, so the
\* retry must not leave the doubted one in it.
FreshIdentity ==
  stage = S30 /\ config.identity
    => IdentityUsed.shows = fetched /\ fetched = attempt

\* narration_conform leaves at most its slack between pictures and speech,
\* however long S30's video is and even if it could not be measured.
SyncedToNarration ==
  config.sync = "narration_conform" /\ stage > S40
    => Distance(FirstOfKinds(refs, {"sync"}).length, VoiceRef.length)
         <= ConformSlack

\* A faceless run whose tools work is not refused for how it was rendered,
\* synced, assembled or measured: only its idea, script, speech, captions or a
\* judge, human or not, stop it.
FacelessRendersHold ==
  failed /\ ~config.identity /\ ~flawed
    => verdict \in {"intake_mismatch", "malformed_script", "voice_invalid",
                    "speaker_similarity_low", "caption_timing_invalid",
                    "subjective_quality_check_failed", "approval_rejected",
                    "no_approval"}

\* A transcription in order, at a plausible rate, is never sent back for words
\* that alignment collapsed: the repair has given each of them a length that
\* the validator accepts, and pushed none into its neighbour.
RepairSparesRetries ==
  verdict = "caption_timing_invalid" /\ ~flawed /\ raw # <<>> /\ Orderly(raw)
    => ~PlausibleRate(raw, VoiceRef.length)

\* Subtitles cut from captions that passed are on screen for a while, unless
\* the speech was transcribed out of order.
CuesAreShown ==
  Ordered(words)
    => \A k \in 1..CueCount(words) : Cue(words, k).from < Cue(words, k).to

\* The run as a chain of stages.
Chain == INSTANCE StageChain WITH
  FirstStage <- S00, GateStage <- G80, LastStage <- S100,
  stage <- IF stage = Published THEN S100 ELSE stage,
  ended <- IF failed THEN "failed"
           ELSE IF stage = Published THEN "completed" ELSE "no"

\* The media decide each verdict, and still a run is a chain of stages passed in
\* order and retried in place, as AvatarPipeline's is: what the providers hand
\* each other never skips a stage, and a retry that gets a new envelope is one
\* of the same stage and counts.
MediaFollowChain == Chain!Spec

\* A script that passed S10 can be spoken at S20: the runbook has S10 cap the
\* characters of the scenes so that they fit downstream synthesis.  The blanks
\* between the scenes are not counted there, but they are at S20.
ScriptFitsSynthesis == stage = S20 => CanSpeak
=============================================================================
