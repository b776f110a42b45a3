-------------------------- MODULE MediaChainProofs --------------------------
(***************************************************************************)
(* Proofs about MediaChain, for any budget, any lengths of script and      *)
(* speech, any drift of a render and anything whisper-1 may hear.          *)
(*                                                                         *)
(* Every property speaks of artifacts that a stage picked out of its       *)
(* envelope.  So the proofs rest on what the envelope holds: an artifact   *)
(* of a kind from the moment its stage has passed, one of each kind, and   *)
(* the same one ever after.                                                *)
(***************************************************************************)
EXTENDS MediaChain, OperatorProofs, SequenceTheorems, WellFoundedInduction

(* Sequences of artifacts, and the first of a kind in one *)

Kinds == {"idea", "identity", "script", "voice", "avatar", "sync", "captions",
          "master", "qc_report", "disclosure"}

Artifacts == [kind : Kinds, length : Int, sound : BOOLEAN, shows : Nat,
              spec : BOOLEAN]

Has(seq, kinds) == \E i \in 1..Len(seq) : seq[i].kind \in kinds

Unique(seq) == \A i, j \in 1..Len(seq) : seq[i].kind = seq[j].kind => i = j

LEMMA LeastOf ==
  ASSUME NEW R, IsWellFoundedOn(R, Nat), R = {p \in Nat \X Nat : p[1] < p[2]},
         NEW S \in SUBSET Nat, S # {}
  PROVE  \E x \in S : \A y \in S : x <= y
<1>1. \E x \in S : \A y \in S : ~ (<<y, x>> \in R)
  BY WFMin
<1>2. \A x, y \in Nat : y < x => <<y, x>> \in R
  <2> SUFFICES ASSUME NEW x \in Nat, NEW y \in Nat, y < x
               PROVE  <<y, x>> \in {p \in Nat \X Nat : p[1] < p[2]}
    OBVIOUS
  <2>1. <<y, x>> \in Nat \X Nat /\ <<y, x>>[1] = y /\ <<y, x>>[2] = x
    OBVIOUS
  <2> QED
    BY <2>1
<1>3. \A x, y \in S : ~ (y < x) => x <= y
  OBVIOUS
<1> QED
  BY <1>1, <1>2, <1>3

\* A set of naturals has a least member.  The induction theorems of the library
\* take an operator, which no prover instantiates; the least counterexample
\* does the same work.
LEMMA Least ==
  ASSUME NEW S \in SUBSET Nat, S # {}
  PROVE  \E x \in S : \A y \in S : x <= y
<1>1. IsWellFoundedOn({p \in Nat \X Nat : p[1] < p[2]}, Nat)
  BY NatLessThanWellFounded DEF OpToRel
<1> QED
  BY <1>1, LeastOf

LEMMA FirstFound ==
  ASSUME NEW kinds, NEW seq, Len(seq) \in Nat, NEW i \in 1..Len(seq),
         seq[i].kind \in kinds,
         \A j \in 1..Len(seq) : j < i => seq[j].kind \notin kinds
  PROVE  FirstOfKinds(seq, kinds) = seq[i]
<1> DEFINE I == {j \in 1..Len(seq) : seq[j].kind \in kinds}
<1>1. i \in I /\ \A j \in I : i <= j
  OBVIOUS
<1>2. Min(I) = i
  <2>1. \A x, y \in I :
          (\A z \in I : x =< z) /\ (\A z \in I : y =< z) => x = y
    OBVIOUS
  <2> QED
    BY <1>1, <2>1 DEF Min
<1> QED
  BY <1>1, <1>2 DEF FirstOfKinds, SelectInSeq

LEMMA FirstMissing ==
  ASSUME NEW kinds, NEW seq, ~ Has(seq, kinds)
  PROVE  FirstOfKinds(seq, kinds) = NoRef
<1> DEFINE I == {j \in 1..Len(seq) : seq[j].kind \in kinds}
<1>1. I = {}
  BY DEF Has
<1> QED
  BY <1>1 DEF FirstOfKinds, SelectInSeq

\* The first of several kinds is there as soon as any of them is.
LEMMA FirstExists ==
  ASSUME NEW kinds, NEW seq \in Seq(Artifacts), Has(seq, kinds)
  PROVE  \E i \in 1..Len(seq) :
           /\ seq[i].kind \in kinds
           /\ \A j \in 1..Len(seq) : j < i => seq[j].kind \notin kinds
           /\ FirstOfKinds(seq, kinds) = seq[i]
<1> DEFINE I == {j \in 1..Len(seq) : seq[j].kind \in kinds}
<1>1. Len(seq) \in Nat
  OBVIOUS
<1>2. I \in SUBSET Nat /\ I # {}
  BY <1>1 DEF Has
<1>3. PICK i \in I : \A j \in I : i <= j
  BY <1>2, Least
<1>4. i \in 1..Len(seq) /\ seq[i].kind \in kinds
  BY <1>3
<1>5. \A j \in 1..Len(seq) : j < i => seq[j].kind \notin kinds
  BY <1>1, <1>3
<1> QED
  BY <1>1, <1>4, <1>5, FirstFound

LEMMA FirstTyped ==
  ASSUME NEW kinds, NEW seq \in Seq(Artifacts)
  PROVE  /\ Has(seq, kinds) => /\ FirstOfKinds(seq, kinds) \in Artifacts
                               /\ FirstOfKinds(seq, kinds).kind \in kinds
         /\ ~ Has(seq, kinds) => FirstOfKinds(seq, kinds) = NoRef
<1>1. ASSUME Has(seq, kinds)
      PROVE  /\ FirstOfKinds(seq, kinds) \in Artifacts
             /\ FirstOfKinds(seq, kinds).kind \in kinds
  <2>1. PICK i \in 1..Len(seq) : /\ seq[i].kind \in kinds
                                 /\ FirstOfKinds(seq, kinds) = seq[i]
    BY <1>1, FirstExists
  <2>2. seq[i] \in Artifacts
    BY ElementOfSeq
  <2> QED
    BY <2>1, <2>2
<1> QED
  BY <1>1, FirstMissing

\* An artifact that joins the others comes last: what was found before is found
\* still.
LEMMA FirstAppended ==
  ASSUME NEW kinds, NEW seq \in Seq(Artifacts), NEW r \in Artifacts
  PROVE  /\ Append(seq, r) \in Seq(Artifacts)
         /\ Has(Append(seq, r), kinds) <=> Has(seq, kinds) \/ r.kind \in kinds
         /\ FirstOfKinds(Append(seq, r), kinds) =
              IF Has(seq, kinds) THEN FirstOfKinds(seq, kinds)
              ELSE IF r.kind \in kinds THEN r ELSE NoRef
<1> DEFINE n == Len(seq)
           app == Append(seq, r)
<1>1. /\ n \in Nat /\ app \in Seq(Artifacts) /\ Len(app) = n + 1
      /\ \A i \in 1..n : app[i] = seq[i]
      /\ app[n + 1] = r
  BY AppendProperties, LenProperties
<1> HIDE DEF app, n
<1>2. Has(app, kinds) <=> Has(seq, kinds) \/ r.kind \in kinds
  BY <1>1 DEF Has, n
<1>3. CASE Has(seq, kinds)
  <2>1. PICK i \in 1..n :
           /\ seq[i].kind \in kinds
           /\ \A j \in 1..n : j < i => seq[j].kind \notin kinds
           /\ FirstOfKinds(seq, kinds) = seq[i]
    BY <1>3, FirstExists DEF n
  <2>2. i \in 1..Len(app) /\ app[i] = seq[i]
    BY <1>1, <2>1
  <2>3. \A j \in 1..Len(app) : j < i => app[j].kind \notin kinds
    BY <1>1, <2>1
  <2>4. FirstOfKinds(app, kinds) = app[i]
    BY <1>1, <2>1, <2>2, <2>3, FirstFound
  <2> QED
    BY <1>1, <1>2, <1>3, <2>1, <2>2, <2>4 DEF app
<1>4. CASE ~ Has(seq, kinds) /\ r.kind \in kinds
  <2>1. \A j \in 1..Len(app) : j < n + 1 => app[j].kind \notin kinds
    BY <1>1, <1>4 DEF Has, n
  <2>2. /\ Len(app) \in Nat /\ n + 1 \in 1..Len(app)
        /\ app[n + 1].kind \in kinds
    BY <1>1, <1>4
  <2>3. FirstOfKinds(app, kinds) = app[n + 1]
    BY <2>1, <2>2, FirstFound
  <2> QED
    BY <1>1, <1>2, <1>4, <2>3 DEF app
<1>5. CASE ~ Has(seq, kinds) /\ r.kind \notin kinds
  <2>1. FirstOfKinds(app, kinds) = NoRef
    BY <1>2, <1>5, FirstMissing
  <2> QED
    BY <1>1, <1>2, <1>5, <2>1 DEF app
<1> QED
  BY <1>3, <1>4, <1>5

LEMMA UniqueAppended ==
  ASSUME NEW seq \in Seq(Artifacts), Unique(seq), NEW r \in Artifacts,
         ~ Has(seq, {r.kind})
  PROVE  Unique(Append(seq, r))
<1>1. /\ Len(seq) \in Nat /\ Len(Append(seq, r)) = Len(seq) + 1
      /\ \A i \in 1..Len(seq) : Append(seq, r)[i] = seq[i]
      /\ Append(seq, r)[Len(seq) + 1] = r
  BY AppendProperties, LenProperties
<1>2. \A i \in 1..Len(seq) : seq[i].kind # r.kind
  BY DEF Has
<1>3. \A i \in 1..(Len(seq) + 1) : i \in 1..Len(seq) \/ i = Len(seq) + 1
  BY <1>1
<1> QED
  BY <1>1, <1>2, <1>3 DEF Unique

\* WithoutIdentity is well defined: a list can be built up to any length.
LEMMA KeptExists ==
  ASSUME NEW s, NEW n \in Nat
  PROVE  \E f : f = [k \in 0..n |->
                       IF k = 0 THEN <<>> ELSE Others(f[k - 1], s[k])]
<1> DEFINE E(m) == \E f : f = [k \in 0..m |->
                                 IF k = 0 THEN <<>> ELSE Others(f[k - 1], s[k])]
           Bad == {m \in Nat : ~ E(m)}
<1>1. SUFFICES ASSUME Bad # {} PROVE FALSE
  OBVIOUS
<1>2. PICK m \in Bad : \A y \in Bad : m <= y
  BY <1>1, Least
<1>3. m # 0
  <2> DEFINE f == [k \in 0..0 |-> <<>>]
  <2>1. f = [k \in 0..0 |-> IF k = 0 THEN <<>> ELSE Others(f[k - 1], s[k])]
    OBVIOUS
  <2>2. E(0)
    BY <2>1
  <2> QED
    BY <2>2
<1>4. E(m - 1)
  BY <1>2, <1>3
<1>5. PICK f : f = [k \in 0..(m - 1) |->
                      IF k = 0 THEN <<>> ELSE Others(f[k - 1], s[k])]
  BY <1>4
<1>6. E(m)
  <2> DEFINE g == [k \in 0..m |->
                     IF k < m THEN f[k] ELSE Others(f[m - 1], s[m])]
  <2>1. \A k \in 0..m : g[k] = IF k = 0 THEN <<>> ELSE Others(g[k - 1], s[k])
    BY <1>3, <1>5
  <2>2. g = [k \in 0..m |-> IF k = 0 THEN <<>> ELSE Others(g[k - 1], s[k])]
    BY <2>1
  <2> QED
    BY <2>2
<1> QED
  BY <1>6

\* What is left without the identity is artifacts, one of a kind if they were,
\* and no identity among them.
LEMMA OthersKept ==
  ASSUME NEW seq \in Seq(Artifacts), Unique(seq)
  PROVE  /\ WithoutIdentity(seq) \in Seq(Artifacts)
         /\ Unique(WithoutIdentity(seq))
         /\ ~ Has(WithoutIdentity(seq), {"identity"})
<1> DEFINE n == Len(seq)
           R(f) == f = [k \in 0..n |->
                          IF k = 0 THEN <<>> ELSE Others(f[k - 1], seq[k])]
           f == CHOOSE f : R(f)
           P(k) == /\ f[k] \in Seq(Artifacts) /\ Unique(f[k])
                   /\ ~ Has(f[k], {"identity"})
                   /\ \A kind : Has(f[k], {kind}) =>
                                  \E j \in 1..k : seq[j].kind = kind
<1>1. n \in Nat
  OBVIOUS
<1>2. R(f)
  <2>1. \E g : R(g)
    BY <1>1, KeptExists
  <2> QED
    BY <2>1
<1>3. WithoutIdentity(seq) = f[n]
  BY DEF WithoutIdentity
<1> HIDE DEF f
<1>4. \A k \in 0..n : f[k] = IF k = 0 THEN <<>> ELSE Others(f[k - 1], seq[k])
  BY <1>2
<1>5. P(0)
  <2>1. f[0] = <<>> /\ <<>> \in Seq(Artifacts) /\ Len(<<>>) = 0
    BY <1>1, <1>4
  <2> QED
    BY <2>1 DEF Unique, Has
<1>6. ASSUME NEW k \in 1..n, P(k - 1) PROVE P(k)
  <2>1. f[k] = Others(f[k - 1], seq[k])
    BY <1>1, <1>4
  <2>2. seq[k] \in Artifacts
    BY ElementOfSeq
  <2>3. CASE seq[k].kind = "identity"
    <3>1. f[k] = f[k - 1]
      BY <2>1, <2>3 DEF Others
    <3>2. \A j \in 1..(k - 1) : j \in 1..k
      BY <1>1
    <3> QED
      BY <1>6, <3>1, <3>2
  <2>4. CASE seq[k].kind # "identity"
    <3>1. f[k] = Append(f[k - 1], seq[k])
      BY <2>1, <2>4 DEF Others
    <3>2. ~ Has(f[k - 1], {seq[k].kind})
      <4>1. ASSUME Has(f[k - 1], {seq[k].kind}) PROVE FALSE
        <5>1. PICK j \in 1..(k - 1) : seq[j].kind = seq[k].kind
          BY <1>6, <4>1
        <5>2. j \in 1..n /\ j # k
          BY <1>1
        <5> QED
          BY <5>1, <5>2 DEF Unique
      <4> QED
        BY <4>1
    <3>3. f[k] \in Seq(Artifacts)
      BY <1>6, <2>2, <3>1, FirstAppended
    <3>4. \A kind : Has(f[k], {kind}) =>
                      Has(f[k - 1], {kind}) \/ kind = seq[k].kind
      BY <1>6, <2>2, <3>1, FirstAppended
    <3>5. Unique(f[k])
      BY <1>6, <2>2, <3>1, <3>2, UniqueAppended
    <3>6. \A kind : Has(f[k], {kind}) => \E j \in 1..k : seq[j].kind = kind
      <4> SUFFICES ASSUME NEW kind, Has(f[k], {kind})
                   PROVE  \E j \in 1..k : seq[j].kind = kind
        OBVIOUS
      <4>1. CASE kind = seq[k].kind
        BY <4>1
      <4>2. CASE Has(f[k - 1], {kind})
        <5>1. PICK j \in 1..(k - 1) : seq[j].kind = kind
          BY <1>6, <4>2
        <5> QED
          BY <1>1, <5>1
      <4> QED
        BY <3>4, <4>1, <4>2
    <3> QED
      BY <1>6, <2>4, <3>3, <3>4, <3>5, <3>6
  <2> QED
    BY <2>3, <2>4
<1> HIDE DEF P
<1>7. \A k \in 0..n : P(k)
  <2> DEFINE Bad == {k \in 0..n : ~ P(k)}
  <2>1. SUFFICES ASSUME Bad # {} PROVE FALSE
    OBVIOUS
  <2>2. Bad \in SUBSET Nat
    BY <1>1
  <2>3. PICK k \in Bad : \A y \in Bad : k <= y
    BY <2>1, <2>2, Least
  <2>4. k \in 1..n
    BY <1>1, <1>5, <2>3
  <2>5. P(k - 1)
    BY <1>1, <2>3, <2>4
  <2> QED
    BY <1>6, <2>3, <2>4, <2>5
<1>8. P(n)
  BY <1>1, <1>7
<1> QED
  BY <1>3, <1>8 DEF P
-----------------------------------------------------------------------------
(* What the envelope holds *)

\* The stage that makes artifacts of a kind.
Maker(kind) ==
  CASE kind \in {"idea", "identity"} -> S00
    [] kind = "script"     -> S10
    [] kind = "voice"      -> S20
    [] kind = "avatar"     -> S30
    [] kind = "sync"       -> S40
    [] kind = "captions"   -> S50
    [] kind = "master"     -> S60
    [] kind = "qc_report"  -> S70
    [] kind = "disclosure" -> G90

\* The loop is at a stage, and an attempt of it; the last verdict is one of it.
LoopInv ==
  /\ config \in Configs
  /\ stage \in S00..Published /\ attempt \in Attempts /\ failed \in BOOLEAN
  /\ \/ verdict = "passed"
     \/ stage \in Stages /\ verdict \in FailureTypes(stage)
     \/ stage = G80 /\ verdict = "no_approval"

\* A kind is among the references once its stage has passed, and once only; an
\* envelope holds all of them, but for an S30 that has got a new identity.
RefsInv ==
  /\ refs \in Seq(Artifacts) /\ Unique(refs)
  /\ \A k \in Kinds : Has(refs, {k}) <=>
                        Maker(k) < stage /\ (k = "identity" => config.identity)
  /\ upstream \in Seq(Artifacts) /\ Unique(upstream)
  /\ ~ (stage = S30 /\ config.identity /\ attempt > 1) => upstream = refs

\* The identity in the envelope is the one that was fetched last, once for
\* every attempt at S30.
IdentityInv ==
  /\ fetched \in 0..RetryBudget
  /\ config.identity =>
       /\ stage \in S10..S20 => fetched = 1
       /\ stage = S30 => fetched = attempt
       /\ stage \in S10..S30 =>
            FirstOfKinds(upstream, {"identity"}) = IdentityRef(fetched)

ChainInv == LoopInv /\ RefsInv /\ IdentityInv

LEMMA Numbers ==
  /\ S00 = 1 /\ S10 = 2 /\ S20 = 3 /\ S30 = 4 /\ S40 = 5 /\ S50 = 6
  /\ S60 = 7 /\ S70 = 8 /\ G80 = 9 /\ G90 = 10 /\ S100 = 11 /\ Published = 12
BY DEF S00, S10, S20, S30, S40, S50, S60, S70, G80, G90, S100, Published

\* What a lookup finds has the fields of an artifact.
LEMMA Found ==
  ASSUME NEW seq \in Seq(Artifacts), NEW kinds
  PROVE  LET r == FirstOfKinds(seq, kinds)
         IN  /\ r.length \in Int /\ r.shows \in Nat
             /\ r.sound \in BOOLEAN /\ r.spec \in BOOLEAN
             /\ r = [kind |-> r.kind, length |-> r.length, sound |-> r.sound,
                     shows |-> r.shows, spec |-> r.spec]
             /\ \A k \in Kinds : [r EXCEPT !.kind = k] =
                  Artifact(k, r.length, r.sound, r.shows, r.spec)
<1> DEFINE r == FirstOfKinds(seq, kinds)
<1>1. r \in Artifacts \/ r = NoRef
  BY FirstTyped
<1>2. r \in [kind : Kinds \cup {"none"}, length : Int, sound : BOOLEAN,
             shows : Nat, spec : BOOLEAN]
  <2>1. NoRef \in [kind : Kinds \cup {"none"}, length : Int, sound : BOOLEAN,
                   shows : Nat, spec : BOOLEAN]
    BY DEF NoRef, Artifact
  <2>2. Artifacts \subseteq [kind : Kinds \cup {"none"}, length : Int,
                            sound : BOOLEAN, shows : Nat, spec : BOOLEAN]
    BY DEF Artifacts
  <2> HIDE DEF r
  <2> QED
    BY <1>1, <2>1, <2>2
<1> QED
  BY <1>2 DEF Artifact
-----------------------------------------------------------------------------
(* What a stage's activity makes *)

\* The stage is at work: it makes an artifact of its kind, and its validator
\* knows nothing else to say of it but that stage's failure types.
Makes(s, kind) ==
  /\ stage = s /\ ~failed /\ config' = config
  /\ \E out \in Artifacts, type \in {"passed"} \cup FailureTypes(s) :
       out.kind = kind /\ Reports(type, out)

LEMMA ScriptMakes ==
  ASSUME Script
  PROVE  Makes(S10, "script")
<1>1. PICK out \in Scripts, broken \in SUBSET {"fetch"} :
        Runs(S10, broken) /\ Reports(ScriptVerdict(out, broken), out)
  BY DEF Script
<1>2. /\ "script" \in Kinds /\ 155 \in Int /\ SceneCount \in Nat /\ 2 \in Nat
      /\ ScriptLengths \subseteq Int
  BY ScriptAssumption DEF Kinds, SceneCount
<1>3. out \in Artifacts /\ out.kind = "script"
  <2>1. CASE config.script = "stub"
    <3>1. out = StubScript
      BY <2>1 DEF Scripts
    <3> QED
      BY <1>2, <3>1 DEF Artifact, Artifacts, StubScript
  <2>2. CASE config.script # "stub"
    BY <1>2, <2>2 DEF Scripts, Artifacts
  <2> QED
    BY <2>1, <2>2
<1>4. ScriptVerdict(out, broken) \in {"passed"} \cup FailureTypes(S10)
  BY Numbers DEF ScriptVerdict, FailureTypes
<1> QED
  BY <1>1, <1>3, <1>4 DEF Makes, Runs

LEMMA SpeechTyped ==
  ASSUME NEW length \in Speech
  PROVE  /\ length \in Int /\ length > 0
         /\ Artifact("voice", length, TRUE, 0, FALSE) \in Artifacts
         /\ Artifact("voice", length, TRUE, 0, FALSE).kind = "voice"
<1>1. length \in Int /\ length > 0
  BY NarrationAssumption DEF Speech, FixtureDuration
<1>2. "voice" \in Kinds
  BY DEF Kinds
<1> QED
  BY <1>1, <1>2 DEF Artifact, Artifacts

LEMMA VoiceMakes ==
  ASSUME Voice
  PROVE  Makes(S20, "voice")
<1>1. PICK length \in Speech, alike \in BOOLEAN,
           broken \in SUBSET {"streams", "volume", "decode"} :
        LET out == Artifact("voice", length, TRUE, 0, FALSE)
        IN  /\ Runs(S20, broken)
            /\ Reports(VoiceVerdict(out, alike, broken), out)
  BY DEF Voice
<1> DEFINE out == Artifact("voice", length, TRUE, 0, FALSE)
<1>2. out \in Artifacts /\ out.kind = "voice"
  BY SpeechTyped
<1>3. VoiceVerdict(out, alike, broken) \in {"passed"} \cup FailureTypes(S20)
  BY Numbers DEF VoiceVerdict, FailureTypes
<1> QED
  BY <1>1, <1>2, <1>3 DEF Makes, Runs

LEMMA RenderedTyped ==
  ASSUME LoopInv, RefsInv, NEW broken, NEW out \in Rendered(broken)
  PROVE  out \in Artifacts /\ out.kind = "avatar"
<1>1. /\ VoiceRef.length \in Int /\ ScriptRef.shows \in Nat
      /\ attempt \in Nat /\ "avatar" \in Kinds
  <2>1. VoiceRef.length \in Int /\ ScriptRef.shows \in Nat
    BY Found DEF VoiceRef, ScriptRef, RefsInv
  <2>2. attempt \in Nat
    BY RetryBudgetAssumption DEF LoopInv, Attempts
  <2> QED
    BY <2>1, <2>2 DEF Kinds
<1>2. FacelessLength(StreamDuration(VoiceRef, "narration" \notin broken)) \in Int
  <2>1. StreamDuration(VoiceRef, "narration" \notin broken) \in Int
    BY <1>1 DEF StreamDuration
  <2>2. ScriptRef.shows * SceneDuration \in Int
    BY <1>1 DEF SceneDuration
  <2>3. ASSUME NEW measured \in Int PROVE FacelessLength(measured) \in Int
    BY <2>2 DEF FacelessLength
  <2> QED
    BY ONLY <2>1, <2>3
<1>3. CASE config.render = "stub"
  <2>1. out = Artifact("avatar", FixtureDuration, FALSE, 0, TRUE)
    BY <1>3 DEF Rendered
  <2> QED
    BY <1>1, <2>1 DEF Artifact, Artifacts, FixtureDuration
<1>4. CASE config.render = "did"
  <2> DEFINE lengths == {VoiceRef.length + d : d \in RenderDrifts}
                          \cap (Nat \ {0})
  <2>1. out \in [kind : {"avatar"}, sound : {TRUE}, shows : {attempt},
                 spec : BOOLEAN, length : lengths]
    BY <1>4 DEF Rendered
  <2>2. lengths \subseteq Int
    OBVIOUS
  <2> HIDE DEF lengths
  <2> QED
    BY <1>1, <2>1, <2>2 DEF Artifacts
<1>5. CASE config.render = "faceless_mixed_media"
  <2> DEFINE length ==
        FacelessLength(StreamDuration(VoiceRef, "narration" \notin broken))
  <2>1. out = Artifact("avatar", length, FALSE, attempt, TRUE)
    BY <1>5 DEF Rendered
  <2>2. length \in Int
    BY <1>2
  <2> HIDE DEF length
  <2> QED
    BY <1>1, <2>1, <2>2 DEF Artifact, Artifacts
<1> QED
  BY <1>3, <1>4, <1>5 DEF LoopInv, Configs

LEMMA RenderMakes ==
  ASSUME LoopInv, RefsInv, RenderAvatar
  PROVE  Makes(S30, "avatar")
<1>1. PICK broken \in SUBSET {"narration", "streams", "expected", "frame"} :
        /\ Runs(S30, broken)
        /\ \E out \in Rendered(broken), alike \in BOOLEAN :
             Reports(RenderVerdict(out, alike, broken), out)
  BY DEF RenderAvatar
<1>2. PICK out \in Rendered(broken), alike \in BOOLEAN :
        Reports(RenderVerdict(out, alike, broken), out)
  BY <1>1
<1>3. out \in Artifacts /\ out.kind = "avatar"
  BY RenderedTyped
<1>4. RenderVerdict(out, alike, broken) \in {"passed"} \cup FailureTypes(S30)
  BY Numbers DEF RenderVerdict, FailureTypes
<1> QED
  BY <1>1, <1>2, <1>3, <1>4 DEF Makes, Runs

LEMMA SyncedTyped ==
  ASSUME RefsInv, NEW broken
  PROVE  Synced(broken) \in Artifacts /\ Synced(broken).kind = "sync"
<1>1. /\ VoiceRef.length \in Int /\ VideoRef.length \in Int
      /\ VideoRef.shows \in Nat
      /\ VideoRef.sound \in BOOLEAN /\ VideoRef.spec \in BOOLEAN
      /\ "sync" \in Kinds
      /\ [VideoRef EXCEPT !.kind = "sync"] =
           Artifact("sync", VideoRef.length, VideoRef.sound, VideoRef.shows,
                    VideoRef.spec)
  BY Found DEF VoiceRef, VideoRef, RefsInv, Kinds
<1>2. Conformed(VideoRef.length, VoiceRef.length,
                StreamDuration(VideoRef, "video" \notin broken)) \in Int
  <2>1. StreamDuration(VideoRef, "video" \notin broken) \in Int
    BY <1>1 DEF StreamDuration
  <2>2. ASSUME NEW video \in Int, NEW speech \in Int, NEW measured \in Int
        PROVE  Conformed(video, speech, measured) \in Int
    BY DEF Conformed, Smaller, ConformSlack
  <2> QED
    BY ONLY <1>1, <2>1, <2>2
<1> QED
  BY <1>1, <1>2 DEF Artifact, Artifacts, Synced

LEMMA SyncMakes ==
  ASSUME RefsInv, Sync
  PROVE  Makes(S40, "sync")
<1>1. PICK broken \in SUBSET {"narration", "video", "output", "expected"} :
        /\ Runs(S40, broken)
        /\ Reports(SyncVerdict(Synced(broken), broken), Synced(broken))
  BY DEF Sync
<1>2. Synced(broken) \in Artifacts /\ Synced(broken).kind = "sync"
  BY SyncedTyped
<1>3. SyncVerdict(Synced(broken), broken) \in {"passed"} \cup FailureTypes(S40)
  BY Numbers DEF SyncVerdict, FailureTypes
<1> QED
  BY <1>1, <1>2, <1>3 DEF Makes, Runs

LEMMA CaptionMakes ==
  ASSUME Caption
  PROVE  Makes(S50, "captions")
<1> DEFINE out == Artifact("captions", 0, FALSE, 0, FALSE)
<1>1. out \in Artifacts /\ out.kind = "captions"
  BY DEF Artifact, Artifacts, Kinds
<1>2. ASSUME NEW captions, NEW broken
      PROVE  CaptionVerdict(captions, broken) \in {"passed"} \cup FailureTypes(S50)
  BY Numbers DEF CaptionVerdict, FailureTypes
<1> QED
  BY <1>1, <1>2 DEF Caption, Makes, Runs

LEMMA AssembledTyped ==
  ASSUME RefsInv, NEW broken
  PROVE  Assembled(broken) \in Artifacts /\ Assembled(broken).kind = "master"
<1> DEFINE source == AssemblySource
<1>1. /\ source.length \in Int /\ source.shows \in Nat
      /\ source.sound \in BOOLEAN /\ source.spec \in BOOLEAN
      /\ VoiceRef.length \in Int /\ "master" \in Kinds
      /\ [source EXCEPT !.kind = "master"] =
           Artifact("master", source.length, source.sound, source.shows,
                    source.spec)
  BY Found DEF AssemblySource, VoiceRef, VideoRef, RefsInv, Kinds
<1>2. Fixture \in Artifacts /\ Fixture.kind = "master"
  BY <1>1 DEF Artifact, Artifacts, Fixture, FixtureDuration
<1>3. /\ [source EXCEPT !.kind = "master"] \in Artifacts
      /\ [source EXCEPT !.kind = "master"].kind = "master"
  BY <1>1 DEF Artifact, Artifacts
<1> DEFINE muxed == Artifact("master", Smaller(source.length, VoiceRef.length),
                             TRUE, source.shows, source.spec)
<1>4. muxed \in Artifacts /\ muxed.kind = "master"
  BY <1>1 DEF Artifact, Artifacts, Smaller
<1> QED
  BY <1>2, <1>3, <1>4 DEF Assembled

LEMMA AssembleMakes ==
  ASSUME RefsInv, Assemble
  PROVE  Makes(S60, "master")
<1>1. PICK broken \in SUBSET {"fetch", "sound", "mux", "pictures", "track",
                              "length", "expected"} :
        /\ Runs(S60, broken)
        /\ Reports(AssemblyVerdict(Assembled(broken), broken), Assembled(broken))
  BY DEF Assemble
<1>2. Assembled(broken) \in Artifacts /\ Assembled(broken).kind = "master"
  BY AssembledTyped
<1>3. AssemblyVerdict(Assembled(broken), broken)
        \in {"passed"} \cup FailureTypes(S60)
  BY Numbers DEF AssemblyVerdict, FailureTypes
<1> QED
  BY <1>1, <1>2, <1>3 DEF Makes, Runs

LEMMA InspectMakes ==
  ASSUME Inspect
  PROVE  Makes(S70, "qc_report")
<1> DEFINE out == Artifact("qc_report", 0, FALSE, 0, FALSE)
<1>1. out \in Artifacts /\ out.kind = "qc_report"
  BY DEF Artifact, Artifacts, Kinds
<1>2. ASSUME NEW judgment, NEW broken
      PROVE  QCVerdict(judgment, broken) \in {"passed"} \cup FailureTypes(S70)
  BY Numbers DEF QCVerdict, FailureTypes
<1> QED
  BY <1>1, <1>2 DEF Inspect, Makes, Runs

LEMMA DiscloseMakes ==
  ASSUME RefsInv, Disclose
  PROVE  Makes(G90, "disclosure")
<1> DEFINE out == Artifact("disclosure", 0, FALSE, VideoRef.shows, FALSE)
<1>1. VideoRef.shows \in Nat /\ "disclosure" \in Kinds
  BY Found DEF VideoRef, RefsInv, Kinds
<1>2. out \in Artifacts /\ out.kind = "disclosure"
  BY <1>1 DEF Artifact, Artifacts
<1>3. DisclosureFailure(StubFlag) = "passed"
  BY DEF DisclosureFailure, StubFlag
<1> QED
  BY <1>2, <1>3 DEF Disclose, Makes, Runs

Makings == Kinds \ {"idea", "identity"}

\* No two of these kinds are made by the same stage.
LEMMA Makers ==
  /\ \A k \in Kinds : Maker(k) \in {S00, S10, S20, S30, S40, S50, S60, S70, G90}
  /\ \A k \in {"idea", "identity"} : Maker(k) = S00
  /\ \A k \in Makings : Maker(k) > S00
  /\ \A k, l \in Makings : Maker(k) = Maker(l) => k = l
  /\ Maker("script") = S10 /\ Maker("voice") = S20 /\ Maker("avatar") = S30
  /\ Maker("sync") = S40 /\ Maker("captions") = S50 /\ Maker("master") = S60
  /\ Maker("qc_report") = S70 /\ Maker("disclosure") = G90
<1>1. /\ Maker("idea") = S00 /\ Maker("identity") = S00
      /\ Maker("script") = S10 /\ Maker("voice") = S20 /\ Maker("avatar") = S30
      /\ Maker("sync") = S40 /\ Maker("captions") = S50 /\ Maker("master") = S60
      /\ Maker("qc_report") = S70 /\ Maker("disclosure") = G90
  BY DEF Maker
<1>2. \A k \in Kinds :
        \/ k = "idea" \/ k = "identity" \/ k = "script" \/ k = "voice"
        \/ k = "avatar" \/ k = "sync" \/ k = "captions" \/ k = "master"
        \/ k = "qc_report" \/ k = "disclosure"
  BY DEF Kinds
<1> QED
  BY <1>1, <1>2, Numbers DEF Makings

\* Whatever the stages do, a step is one of these.
LEMMA Outcomes ==
  ASSUME LoopInv, RefsInv, [Next]_vars
  PROVE  \/ \E kind \in Makings : Makes(Maker(kind), kind)
         \/ Intake \/ Decide \/ Publish
         \/ UNCHANGED vars
<1>1. {"script", "voice", "avatar", "sync", "captions", "master", "qc_report",
       "disclosure"} \subseteq Makings
  BY DEF Makings, Kinds
<1>2. SynthesisRaises => UNCHANGED vars
  BY DEF SynthesisRaises
<1> QED
  BY <1>1, <1>2, Makers, ScriptMakes, VoiceMakes, RenderMakes, SyncMakes,
     CaptionMakes, AssembleMakes, InspectMakes, DiscloseMakes DEF Next
-----------------------------------------------------------------------------
(* The invariant of the chain *)

LEMMA IdentityArtifact ==
  ASSUME NEW n \in Nat
  PROVE  IdentityRef(n) \in Artifacts /\ IdentityRef(n).kind = "identity"
BY DEF IdentityRef, Artifact, Artifacts, Kinds

LEMMA LoopPassed ==
  ASSUME LoopInv, config' = config, NEW new, HandsOn(new), stage \in Stages
  PROVE  LoopInv'
BY RetryBudgetAssumption, Numbers DEF LoopInv, HandsOn, Stages, Attempts

LEMMA PassKeeps ==
  ASSUME ChainInv, config' = config, NEW kind \in Makings, stage = Maker(kind),
         NEW out \in Artifacts, out.kind = kind, Passes(out)
  PROVE  ChainInv'
<1>1. stage \in Stages /\ stage > S00
  BY Makers, Numbers DEF Stages, Makings
<1>2. LoopInv'
  BY <1>1, LoopPassed DEF ChainInv, Passes
<1>3. /\ refs' = Append(refs, out) /\ upstream' = refs'
      /\ stage' = stage + 1 /\ attempt' = 1 /\ fetched' = fetched
  BY AppendIsConcat DEF Passes, HandsOn, ChainInv, RefsInv
<1>4. RefsInv'
  <2>1. ~ Has(refs, {kind})
    BY <1>1, Numbers DEF ChainInv, RefsInv, Stages, Makings
  <2>2. refs' \in Seq(Artifacts) /\ Unique(refs')
    BY <1>3, <2>1, FirstAppended, UniqueAppended DEF ChainInv, RefsInv
  <2>3. ASSUME NEW k \in Kinds
        PROVE  Has(refs', {k}) <=>
                 Maker(k) < stage' /\ (k = "identity" => config'.identity)
    <3>1. Has(refs', {k}) <=> Has(refs, {k}) \/ k = kind
      BY <1>3, FirstAppended DEF ChainInv, RefsInv
    <3>2. Has(refs, {k}) <=>
            Maker(k) < stage /\ (k = "identity" => config.identity)
      BY DEF ChainInv, RefsInv
    <3>3. Maker(k) < stage + 1 <=> Maker(k) < stage \/ Maker(k) = stage
      BY <1>1, Makers, Numbers DEF Stages
    <3>4. Maker(k) = stage <=> k = kind
      BY <1>1, Makers, Numbers DEF Makings
    <3>5. kind # "identity"
      BY DEF Makings
    <3> QED
      BY <1>3, <3>1, <3>2, <3>3, <3>4, <3>5
  <2> QED
    BY <1>3, <2>2, <2>3 DEF RefsInv
<1>5. IdentityInv'
  <2>1. ASSUME config.identity, stage' \in S10..S30
        PROVE  /\ fetched' = 1
               /\ FirstOfKinds(upstream', {"identity"}) = IdentityRef(fetched')
    <3>1. stage \in S10..S20
      BY <1>1, <1>3, <2>1, Numbers DEF Stages
    <3>2. upstream = refs /\ fetched = 1
      BY <2>1, <3>1, Numbers DEF ChainInv, RefsInv, IdentityInv
    <3>3. Has(refs, {"identity"})
      BY <1>1, <2>1, Makers, Numbers DEF ChainInv, RefsInv, Kinds
    <3>4. FirstOfKinds(upstream', {"identity"}) =
            FirstOfKinds(refs, {"identity"})
      BY <1>3, <3>3, FirstAppended DEF ChainInv, RefsInv
    <3>5. FirstOfKinds(upstream, {"identity"}) = IdentityRef(fetched)
      BY <2>1, <3>1, Numbers DEF ChainInv, IdentityInv
    <3> QED
      BY <1>3, <3>2, <3>4, <3>5
  <2>2. fetched' \in 0..RetryBudget
    BY <1>3 DEF ChainInv, IdentityInv
  <2> QED
    BY <1>3, <2>1, <2>2, Numbers DEF IdentityInv
<1> QED
  BY <1>2, <1>4, <1>5 DEF ChainInv

LEMMA RetryKeeps ==
  ASSUME ChainInv, config' = config, stage \in Stages,
         NEW type \in FailureTypes(stage), Retries(type)
  PROVE  ChainInv'
<1>1. /\ attempt' = attempt + 1 /\ attempt < RetryBudget
      /\ verdict' = type
      /\ stage' = stage /\ failed' = failed /\ refs' = refs
  BY DEF Retries, Retryable
<1>2. LoopInv'
  BY <1>1, RetryBudgetAssumption DEF ChainInv, LoopInv, Attempts
<1>3. CASE stage = S30 /\ config.identity
  <2>1. upstream' = FreshUpstream /\ fetched' = fetched + 1
    BY <1>3 DEF Retries
  <2>2. fetched = attempt
    BY <1>3 DEF ChainInv, IdentityInv
  <2>3. fetched + 1 \in 0..RetryBudget /\ fetched + 1 \in Nat
    BY <1>1, <2>2, RetryBudgetAssumption DEF ChainInv, LoopInv, Attempts
  <2> DEFINE r == IdentityRef(fetched + 1)
             kept == WithoutIdentity(upstream)
  <2>4. r \in Artifacts /\ r.kind = "identity"
    BY <2>3, IdentityArtifact
  <2>5. /\ kept \in Seq(Artifacts) /\ Unique(kept)
        /\ ~ Has(kept, {"identity"})
    BY OthersKept DEF ChainInv, RefsInv
  <2>6. upstream' = Append(kept, r)
    BY <2>1 DEF FreshUpstream
  <2> HIDE DEF r, kept
  <2>7. upstream' \in Seq(Artifacts) /\ Unique(upstream')
    BY <2>4, <2>5, <2>6, FirstAppended, UniqueAppended
  <2>8. FirstOfKinds(upstream', {"identity"}) = r
    BY <2>4, <2>5, <2>6, FirstAppended
  <2>9. RefsInv'
    <3>1. attempt' > 1
      BY <1>1, RetryBudgetAssumption DEF ChainInv, LoopInv, Attempts
    <3> QED
      BY <1>1, <1>3, <2>7, <3>1 DEF ChainInv, RefsInv
  <2>10. IdentityInv'
    BY <1>1, <1>3, <2>1, <2>2, <2>3, <2>8, Numbers DEF IdentityInv, r
  <2> QED
    BY <1>2, <2>9, <2>10 DEF ChainInv
<1>4. CASE ~ (stage = S30 /\ config.identity)
  <2>1. upstream' = upstream /\ fetched' = fetched
    BY <1>4 DEF Retries
  <2>2. RefsInv'
    BY <1>1, <1>4, <2>1 DEF ChainInv, RefsInv
  <2>3. IdentityInv'
    BY <1>1, <1>4, <2>1 DEF ChainInv, IdentityInv
  <2> QED
    BY <1>2, <2>2, <2>3 DEF ChainInv
<1> QED
  BY <1>3, <1>4

LEMMA GiveUpKeeps ==
  ASSUME ChainInv, config' = config, stage \in Stages,
         \/ verdict' \in FailureTypes(stage)
         \/ stage = G80 /\ verdict' = "no_approval",
         failed' \in BOOLEAN, UNCHANGED <<stage, attempt, refs, upstream, fetched>>
  PROVE  ChainInv'
BY DEF ChainInv, LoopInv, RefsInv, IdentityInv

LEMMA NothingHandedOn ==
  ASSUME ChainInv, config' = config, stage \in {G80, S100}, HandsOn(<<>>),
         fetched' = fetched
  PROVE  ChainInv'
<1>1. stage \in Stages
  BY Numbers DEF Stages
<1>2. LoopInv'
  BY <1>1, LoopPassed DEF ChainInv
<1>3. refs' = refs /\ upstream' = refs /\ stage' = stage + 1 /\ attempt' = 1
  BY ConcatEmptySeq DEF HandsOn, ChainInv, RefsInv
<1>4. \A k \in Kinds : Maker(k) < stage' <=> Maker(k) < stage
  BY <1>3, Makers, Numbers
<1>5. RefsInv'
  BY <1>3, <1>4 DEF ChainInv, RefsInv
<1>6. IdentityInv'
  BY <1>3, Numbers DEF ChainInv, IdentityInv
<1> QED
  BY <1>2, <1>5, <1>6 DEF ChainInv

\* Two references join none at S00.
LEMMA IntakePassed ==
  ASSUME ChainInv, config' = config, stage = S00, failed' = failed,
         HandsOn(IF config.identity THEN <<Idea, IdentityRef(1)>> ELSE <<Idea>>),
         fetched' = IF config.identity THEN 1 ELSE 0
  PROVE  ChainInv'
<1>1. stage \in Stages /\ stage' = S10 /\ attempt' = 1
  BY Numbers DEF Stages, HandsOn
<1>2. LoopInv'
  BY <1>1, LoopPassed DEF ChainInv
<1>3. /\ Idea \in Artifacts /\ Idea.kind = "idea"
      /\ IdentityRef(1) \in Artifacts /\ IdentityRef(1).kind = "identity"
      /\ {"idea", "identity"} \subseteq Kinds
  <2>1. 0 \in Int /\ 0 \in Nat /\ 1 \in Nat
    OBVIOUS
  <2> QED
    BY <2>1, IdentityArtifact DEF Idea, Artifact, Artifacts, Kinds
<1>4. refs \in Seq(Artifacts) /\ Unique(refs) /\ \A k \in Kinds : ~ Has(refs, {k})
  BY Makers, Numbers DEF ChainInv, RefsInv
<1> DEFINE one == Append(refs, Idea)
           two == Append(one, IdentityRef(1))
<1>5. /\ one \in Seq(Artifacts) /\ Unique(one)
      /\ \A k \in Kinds : Has(one, {k}) <=> k = "idea"
  BY <1>3, <1>4, FirstAppended, UniqueAppended
<1>6. /\ two \in Seq(Artifacts) /\ Unique(two)
      /\ \A k \in Kinds : Has(two, {k}) <=> k \in {"idea", "identity"}
      /\ FirstOfKinds(two, {"identity"}) = IdentityRef(1)
  <2> HIDE DEF one
  <2>1. ~ Has(one, {"identity"})
    BY <1>3, <1>5
  <2>2. two \in Seq(Artifacts) /\ Unique(two)
    BY <1>3, <1>5, <2>1, FirstAppended, UniqueAppended
  <2>3. FirstOfKinds(two, {"identity"}) = IdentityRef(1)
    BY <1>3, <1>5, <2>1, FirstAppended
  <2>4. ASSUME NEW k \in Kinds
        PROVE  Has(two, {k}) <=> k \in {"idea", "identity"}
    <3>1. Has(two, {k}) <=> Has(one, {k}) \/ IdentityRef(1).kind \in {k}
      BY <1>3, <1>5, FirstAppended
    <3> QED
      BY <1>3, <1>5, <3>1
  <2> QED
    BY <2>2, <2>3, <2>4
<1>7. refs' = (IF config.identity THEN two ELSE one) /\ upstream' = refs'
  <2>1. <<Idea, IdentityRef(1)>> = <<Idea>> \o <<IdentityRef(1)>>
    OBVIOUS
  <2>2. <<Idea>> \in Seq(Artifacts) /\ <<IdentityRef(1)>> \in Seq(Artifacts)
    BY <1>3
  <2>3. refs \o <<Idea>> = one
    BY <1>3, <1>4, AppendIsConcat
  <2>4. one \o <<IdentityRef(1)>> = two
    BY <1>3, <1>5, AppendIsConcat
  <2>5. refs \o <<Idea, IdentityRef(1)>> = two
    BY <1>4, <2>1, <2>2, <2>3, <2>4, ConcatAssociative
  <2> QED
    BY <2>3, <2>5 DEF HandsOn
<1> HIDE DEF one, two
<1>8. \A k \in Kinds : Maker(k) < S10 <=> k \in {"idea", "identity"}
  BY Makers, Numbers DEF Makings
<1>9. RefsInv'
  BY <1>1, <1>5, <1>6, <1>7, <1>8, Numbers DEF RefsInv
<1>10. IdentityInv'
  BY <1>1, <1>6, <1>7, RetryBudgetAssumption, Numbers DEF IdentityInv
<1> QED
  BY <1>2, <1>9, <1>10 DEF ChainInv

LEMMA ChainStep ==
  ASSUME ChainInv, [Next]_vars
  PROVE  ChainInv'
<1>1. ASSUME NEW kind \in Makings, Makes(Maker(kind), kind)
      PROVE  ChainInv'
  <2>1. PICK out \in Artifacts, type \in {"passed"} \cup FailureTypes(stage) :
          out.kind = kind /\ Reports(type, out)
    BY <1>1 DEF Makes
  <2>2. config' = config /\ stage = Maker(kind) /\ stage \in Stages
    BY <1>1, Makers, Numbers DEF Makes, Makings, Stages
  <2>3. CASE type = "passed"
    BY <2>1, <2>2, <2>3, PassKeeps DEF Reports
  <2>4. CASE type # "passed" /\ Retries(type)
    BY <2>1, <2>2, <2>4, RetryKeeps
  <2>5. CASE type # "passed" /\ GivesUp(type)
    BY <2>1, <2>2, <2>5, GiveUpKeeps DEF GivesUp
  <2> QED
    BY <2>1, <2>3, <2>4, <2>5 DEF Reports
<1>2. ASSUME Intake PROVE ChainInv'
  <2>1. config' = config /\ stage = S00 /\ stage \in Stages
    BY <1>2, Numbers DEF Intake, Runs, Stages
  <2>2. "intake_mismatch" \in FailureTypes(stage)
    BY <2>1, Numbers DEF FailureTypes
  <2>3. CASE ValidIntake(TRUE, config.topic)
    BY <1>2, <2>1, <2>3, IntakePassed DEF Intake, HandsOn
  <2>4. CASE Retries("intake_mismatch")
    BY <2>1, <2>2, <2>4, RetryKeeps
  <2>5. CASE GivesUp("intake_mismatch")
    BY <2>1, <2>2, <2>5, GiveUpKeeps DEF GivesUp
  <2> QED
    BY <1>2, <2>3, <2>4, <2>5 DEF Intake
<1>3. ASSUME Decide PROVE ChainInv'
  <2>1. config' = config /\ stage = G80 /\ stage \in Stages /\ fetched' = fetched
    BY <1>3, Numbers DEF Decide, Runs, Stages
  <2>2. "approval_rejected" \in FailureTypes(stage)
    BY <2>1, Numbers DEF FailureTypes
  <2>3. CASE HandsOn(<<>>)
    BY <2>1, <2>3, NothingHandedOn
  <2>4. CASE /\ verdict' \in {"approval_rejected", "no_approval"}
             /\ failed' = TRUE
             /\ UNCHANGED <<stage, attempt, refs, upstream>>
    BY <2>1, <2>2, <2>4, GiveUpKeeps
  <2> QED
    BY <1>3, <2>3, <2>4 DEF Decide
<1>4. ASSUME Publish PROVE ChainInv'
  <2> DEFINE type == PublishFailure(StubPrivacy, Signed, "master", "none")
  <2>1. config' = config /\ stage = S100 /\ stage \in Stages
    BY <1>4, Numbers DEF Publish, Runs, Stages
  <2>2. type # "passed" => type \in FailureTypes(stage)
    BY <2>1, Numbers DEF FailureTypes, PublishFailure
  <2>3. CASE HandsOn(<<>>) /\ fetched' = fetched
    BY <2>1, <2>3, NothingHandedOn
  <2>4. CASE type # "passed" /\ Retries(type)
    BY <2>1, <2>2, <2>4, RetryKeeps
  <2>5. CASE type # "passed" /\ GivesUp(type)
    BY <2>1, <2>2, <2>5, GiveUpKeeps DEF GivesUp
  <2> QED
    BY <1>4, <2>3, <2>4, <2>5 DEF Publish
<1>5. ASSUME UNCHANGED vars PROVE ChainInv'
  BY <1>5 DEF ChainInv, LoopInv, RefsInv, IdentityInv, vars
<1> QED
  BY <1>1, <1>2, <1>3, <1>4, <1>5, Outcomes DEF ChainInv

LEMMA ChainStart ==
  ASSUME Init
  PROVE  ChainInv
<1>1. /\ config \in Configs /\ stage = 1 /\ attempt = 1 /\ failed = FALSE
      /\ fetched = 0 /\ refs = <<>> /\ upstream = <<>> /\ verdict = "passed"
  BY Numbers DEF Init
<1>2. LoopInv
  <2>1. stage \in S00..Published
    BY <1>1, Numbers
  <2>2. attempt \in Attempts
    BY <1>1, RetryBudgetAssumption DEF Attempts
  <2> QED
    BY <1>1, <2>1, <2>2 DEF LoopInv
<1>3. refs \in Seq(Artifacts) /\ Unique(refs) /\ \A k : ~ Has(refs, {k})
  <2>1. refs = <<>> /\ refs \in Seq(Artifacts) /\ Len(refs) = 0
    BY <1>1
  <2> QED
    BY <2>1 DEF Unique, Has
<1>4. RefsInv
  <2>1. \A k \in Kinds : ~ (Maker(k) < stage)
    BY <1>1, Makers, Numbers
  <2>2. upstream = refs
    BY <1>1
  <2> QED
    BY <1>3, <2>1, <2>2 DEF RefsInv
<1>5. IdentityInv
  BY <1>1, RetryBudgetAssumption, Numbers DEF IdentityInv
<1> QED
  BY <1>2, <1>4, <1>5 DEF ChainInv

\* Each envelope holds one artifact of every kind whose stage has passed, and
\* no other; a new identity comes with every new attempt at S30.
THEOREM Chained == Spec => []ChainInv
<1> QED
  BY ChainStart, ChainStep, PTL DEF Spec

\* A retry at S30 is judged by the reference fetched for it: the lookup takes the
\* first identity of the envelope, and the old one is no longer in it.
THEOREM FreshIdentityHolds == Spec => []FreshIdentity
<1>1. ChainInv => FreshIdentity
  <2> SUFFICES ASSUME ChainInv, stage = S30, config.identity
               PROVE  IdentityUsed.shows = fetched /\ fetched = attempt
    BY DEF FreshIdentity
  <2>1. fetched = attempt /\ IdentityUsed = IdentityRef(fetched)
    BY Numbers DEF ChainInv, IdentityInv, IdentityUsed
  <2> QED
    BY <2>1 DEF IdentityRef, Artifact
<1> QED
  BY <1>1, Chained, PTL
-----------------------------------------------------------------------------
(* The chain of stages *)

\* How a run moves: on, again, out, or not at all.
Moves ==
  \/ ~failed /\ stage \in Stages /\ UNCHANGED failed
     /\ stage' = stage + 1 /\ attempt' = 1 /\ verdict' = "passed"
  \/ ~failed /\ stage \in Stages \ {G80} /\ UNCHANGED <<failed, stage, refs>>
     /\ attempt < RetryBudget /\ attempt' = attempt + 1
  \/ ~failed /\ stage \in Stages /\ failed' /\ UNCHANGED <<stage, attempt, refs>>
  \/ UNCHANGED vars

LEMMA EveryMove ==
  ASSUME ChainInv, [Next]_vars
  PROVE  Moves
<1>1. ASSUME NEW kind \in Makings, Makes(Maker(kind), kind)
      PROVE  Moves
  <2>1. PICK out \in Artifacts : \E type : Reports(type, out)
    BY <1>1 DEF Makes
  <2>2. ~failed /\ stage \in Stages \ {G80}
    BY <1>1, Makers, Numbers DEF Makes, Makings, Stages
  <2> QED
    BY <2>1, <2>2 DEF Reports, Passes, HandsOn, Retries, GivesUp, Retryable, Moves
<1>2. ASSUME Intake PROVE Moves
  <2>1. ~failed /\ stage \in Stages \ {G80}
    BY <1>2, Numbers DEF Intake, Runs, Stages
  <2> QED
    BY <1>2, <2>1 DEF Intake, HandsOn, Retries, GivesUp, Retryable, Moves
<1>3. ASSUME Decide PROVE Moves
  <2>1. ~failed /\ stage \in Stages
    BY <1>3, Numbers DEF Decide, Runs, Stages
  <2> QED
    BY <1>3, <2>1 DEF Decide, HandsOn, Moves
<1>4. ASSUME Publish PROVE Moves
  <2>1. ~failed /\ stage \in Stages \ {G80}
    BY <1>4, Numbers DEF Publish, Runs, Stages
  <2> QED
    BY <1>4, <2>1 DEF Publish, HandsOn, Retries, GivesUp, Retryable, Moves
<1>5. ASSUME UNCHANGED vars PROVE Moves
  BY <1>5 DEF Moves
<1> QED
  BY <1>1, <1>2, <1>3, <1>4, <1>5, Outcomes DEF ChainInv

\* Whatever the providers make of each other's artifacts and whichever of their
\* tools fail, a run is a chain of stages passed in order, each tried again in
\* place and no more than the budget allows.
THEOREM MediaFollowTheChain == Spec => MediaFollowChain
<1>1. Init => Chain!Init
  BY Numbers DEF Init, Chain!Init
<1>2. ChainInv /\ [Next]_vars => [Chain!Next]_(Chain!vars)
  <2> SUFFICES ASSUME ChainInv, [Next]_vars
               PROVE  Chain!Next \/ UNCHANGED Chain!vars
    OBVIOUS
  <2>1. Moves
    BY EveryMove
  <2>2. \A s \in Stages : s \in Nat /\ s <= S100 /\ s # Published
    BY Numbers DEF Stages
  <2> DEFINE at    == IF stage = Published THEN S100 ELSE stage
             ended == IF failed THEN "failed"
                      ELSE IF stage = Published THEN "completed" ELSE "no"
  <2>3. CASE ~failed /\ stage \in Stages /\ UNCHANGED failed
             /\ stage' = stage + 1 /\ attempt' = 1
    <3>1. at = stage /\ ended = "no"
      BY <2>2, <2>3
    <3>2. CASE stage = S100
      <4>1. at' = S100 /\ ended' = "completed"
        BY <2>3, <3>2, Numbers
      <4> QED
        BY <2>3, <3>1, <3>2, <4>1 DEF Chain!Next, Chain!Complete
    <3>3. CASE stage # S100
      <4>1. stage < S100 /\ at' = stage + 1 /\ ended' = "no"
        BY <2>3, <3>3, Numbers DEF Stages
      <4> QED
        BY <2>3, <3>1, <4>1 DEF Chain!Next, Chain!Pass
    <3> QED
      BY <3>2, <3>3
  <2>4. CASE ~failed /\ stage \in Stages \ {G80} /\ UNCHANGED <<failed, stage, refs>>
             /\ attempt < RetryBudget /\ attempt' = attempt + 1
    <3>1. at = stage /\ ended = "no" /\ at' = at /\ ended' = ended
      BY <2>2, <2>4
    <3> QED
      BY <2>4, <3>1 DEF Chain!Next, Chain!Retry
  <2>5. CASE ~failed /\ stage \in Stages /\ failed'
             /\ UNCHANGED <<stage, attempt, refs>>
    <3>1. at = stage /\ ended = "no" /\ at' = at /\ ended' = "failed"
      BY <2>2, <2>5
    <3> QED
      BY <2>5, <3>1 DEF Chain!Next, Chain!Fail
  <2>6. CASE UNCHANGED vars
    BY <2>6 DEF vars, Chain!vars
  <2> QED
    BY <2>1, <2>3, <2>4, <2>5, <2>6 DEF Moves
<1> QED
  BY <1>1, <1>2, Chained, PTL DEF Spec, MediaFollowChain, Chain!Spec
-----------------------------------------------------------------------------
(* What is handed on stays *)

Of(kind) == FirstOfKinds(refs, {kind})

\* What was found among the references is found ever after.
LEMMA Kept ==
  ASSUME ChainInv, [Next]_vars, NEW kinds \in SUBSET Kinds, Has(refs, kinds)
  PROVE  FirstOfKinds(refs', kinds) = FirstOfKinds(refs, kinds)
<1>1. ASSUME NEW kind \in Makings, Makes(Maker(kind), kind)
      PROVE  FirstOfKinds(refs', kinds) = FirstOfKinds(refs, kinds)
  <2>1. PICK out \in Artifacts : \E type : Reports(type, out)
    BY <1>1 DEF Makes
  <2>2. CASE Passes(out)
    <3>1. refs' = Append(refs, out)
      BY <2>2, AppendIsConcat DEF Passes, HandsOn, ChainInv, RefsInv
    <3> QED
      BY <3>1, FirstAppended DEF ChainInv, RefsInv
  <2>3. CASE refs' = refs
    BY <2>3
  <2> QED
    BY <2>1, <2>2, <2>3 DEF Reports, Retries, GivesUp
<1>2. ASSUME Intake PROVE FALSE
  <2>1. stage = S00
    BY <1>2 DEF Intake, Runs
  <2>2. PICK i \in 1..Len(refs) : refs[i].kind \in kinds
    BY DEF Has
  <2>3. refs[i].kind \in Kinds /\ Has(refs, {refs[i].kind})
    BY <2>2 DEF Has
  <2>4. Maker(refs[i].kind) < S00
    BY <2>1, <2>3 DEF ChainInv, RefsInv
  <2> QED
    BY <2>3, <2>4, Makers, Numbers
<1>3. ASSUME Decide \/ Publish PROVE refs' = refs
  <2>1. HandsOn(<<>>) => refs' = refs
    BY ConcatEmptySeq DEF HandsOn, ChainInv, RefsInv
  <2>2. CASE Decide
    BY <2>1, <2>2 DEF Decide
  <2>3. CASE Publish
    BY <2>1, <2>3 DEF Publish, Retries, GivesUp
  <2> QED
    BY <1>3, <2>2, <2>3
<1>4. ASSUME UNCHANGED vars PROVE refs' = refs
  BY <1>4 DEF vars
<1> QED
  BY <1>1, <1>2, <1>3, <1>4, Outcomes DEF ChainInv

LEMMA OfKept ==
  ASSUME ChainInv, [Next]_vars, NEW kind \in Makings, Maker(kind) < stage
  PROVE  /\ Of(kind)' = Of(kind) /\ Of(kind) \in Artifacts
         /\ Of(kind).kind = kind /\ Of(kind) # NoRef
         /\ Has(refs, {kind})
<1>1. kind \in Kinds /\ kind # "identity"
  BY DEF Makings
<1>2. Has(refs, {kind})
  BY <1>1 DEF ChainInv, RefsInv
<1>3. Of(kind)' = Of(kind)
  BY <1>1, <1>2, Kept DEF Of
<1>4. Of(kind) \in Artifacts /\ Of(kind).kind = kind
  BY <1>2, FirstTyped DEF Of, ChainInv, RefsInv
<1>5. NoRef.kind = "none" /\ kind # "none"
  BY <1>1 DEF NoRef, Artifact, Kinds
<1> QED
  BY <1>2, <1>3, <1>4, <1>5

\* Behind S30 the envelope is what was handed on; so is a faceless run's always.
LEMMA Envelope ==
  ASSUME ChainInv
  PROVE  stage > S30 \/ ~ config.identity \/ attempt = 1 => upstream = refs
BY Numbers, RetryBudgetAssumption DEF ChainInv, LoopInv, RefsInv, Attempts

\* At a stage that has work to do, only its own activity takes a step.
LEMMA Working ==
  ASSUME [Next]_vars, ~ UNCHANGED vars, ~failed, stage \in Stages
  PROVE  /\ stage = S00 => Intake
         /\ stage = S10 => Script
         /\ stage = S20 => Voice
         /\ stage = S30 => RenderAvatar
         /\ stage = S40 => Sync
         /\ stage = S50 => Caption
         /\ stage = S60 => Assemble
         /\ stage = S70 => Inspect
         /\ stage = G80 => Decide
         /\ stage = G90 => Disclose
         /\ stage = S100 => Publish
<1>1. Next
  BY DEF vars
<1>2. /\ Intake => stage = S00
      /\ Script => stage = S10
      /\ Voice => stage = S20
      /\ RenderAvatar => stage = S30
      /\ Sync => stage = S40
      /\ Caption => stage = S50
      /\ Assemble => stage = S60
      /\ Inspect => stage = S70
      /\ Decide => stage = G80
      /\ Disclose => stage = G90
      /\ Publish => stage = S100
  <2>1. \A s, broken : Runs(s, broken) => stage = s
    BY DEF Runs
  <2> QED
    BY <2>1 DEF Intake, Script, Voice, RenderAvatar, Sync, Caption, Assemble,
                Inspect, Decide, Disclose, Publish
<1>3. ~ SynthesisRaises
  BY DEF SynthesisRaises
<1> QED
  BY <1>1, <1>2, <1>3, Numbers DEF Next

\* A stage that is left was passed.
LEMMA Left ==
  ASSUME ChainInv, [Next]_vars, stage' # stage
  PROVE  /\ stage \in Stages /\ stage' = stage + 1 /\ ~failed /\ ~failed'
         /\ ~ UNCHANGED vars /\ verdict' = "passed"
BY EveryMove DEF vars, Moves

LEMMA EveryConfig ==
  ASSUME ChainInv, [Next]_vars
  PROVE  config' = config
<1>1. ASSUME NEW kind \in Makings, Makes(Maker(kind), kind)
      PROVE  config' = config
  BY <1>1 DEF Makes
<1> QED
  BY <1>1, Outcomes DEF ChainInv, Intake, Decide, Publish, Runs, vars

\* The artifact that joins the references is the one of its kind.
LEMMA Joined ==
  ASSUME ChainInv, NEW kind \in Makings, stage = Maker(kind),
         NEW out \in Artifacts, out.kind = kind, NEW type, Reports(type, out),
         stage' # stage
  PROVE  /\ type = "passed" /\ Of(kind)' = out
         /\ refs' = Append(refs, out)
<1>1. type = "passed" /\ Passes(out)
  BY DEF Reports, Retries, GivesUp
<1>2. refs' = Append(refs, out)
  BY <1>1, AppendIsConcat DEF Passes, HandsOn, ChainInv, RefsInv
<1>3. ~ Has(refs, {kind})
  <2>1. kind \in Kinds /\ ~ (Maker(kind) < stage)
    BY Makers, Numbers DEF Makings
  <2> QED
    BY <2>1 DEF ChainInv, RefsInv
<1> QED
  BY <1>1, <1>2, <1>3, FirstAppended DEF Of, ChainInv, RefsInv
-----------------------------------------------------------------------------
(* What the artifacts have to do with each other *)

\* The narration lasts.
SpokenInv == stage > S20 => Of("voice").length > 0

\* The pictures last, and they are the first video of the envelope from now on.
RenderedInv ==
  stage > S30 => /\ Of("avatar").length > 0
                 /\ FirstOfKinds(refs, VideoKinds) = Of("avatar")

\* Syncing keeps what is shown; a faceless run's is as long as the narration.
SyncedInv ==
  stage > S40 =>
    /\ Of("sync").shows = Of("avatar").shows
    /\ config.sync = "narration_conform" =>
         Distance(Of("sync").length, Of("voice").length) <= ConformSlack

\* A master that passed has sound, so it is not the fixture.
AssembledInv ==
  stage > S60 => /\ Of("master").sound
                 /\ Of("master").shows = Of("avatar").shows

InspectedInv ==
  stage > S70 =>
    Distance(Of("master").length, Of("voice").length) <= QCTolerance

DisclosedInv == stage > G90 => Of("disclosure").shows = Of("avatar").shows

MediaInv == SpokenInv /\ RenderedInv /\ SyncedInv /\ AssembledInv
              /\ InspectedInv /\ DisclosedInv

\* Is the stage behind this one, or this one just passed, or yet to pass?
LEMMA Where ==
  ASSUME ChainInv, [Next]_vars, NEW s \in Stages
  PROVE  \/ stage > s
         \/ stage = s /\ stage' # stage
         \/ ~ (stage' > s)
<1>1. Moves
  BY EveryMove
<1>2. stage \in Nat /\ s \in Nat
  BY Numbers DEF ChainInv, LoopInv, Stages
<1>3. stage' = stage \/ stage' = stage + 1
  BY <1>1 DEF Moves, vars
<1> QED
  BY <1>2, <1>3

LEMMA MakingKinds ==
  {"script", "voice", "avatar", "sync", "captions", "master", "qc_report",
   "disclosure"} \subseteq Makings
BY DEF Makings, Kinds

LEMMA SpokenStep ==
  ASSUME ChainInv, SpokenInv, [Next]_vars
  PROVE  SpokenInv'
<1>1. CASE stage > S20
  <2>1. Of("voice")' = Of("voice")
    BY <1>1, Makers, MakingKinds, OfKept
  <2> QED
    BY <1>1, <2>1 DEF SpokenInv
<1>2. CASE stage = S20 /\ stage' # stage
  <2>1. Voice
    BY <1>2, Left, Working
  <2>2. PICK length \in Speech, alike \in BOOLEAN,
             broken \in SUBSET {"streams", "volume", "decode"} :
          LET out == Artifact("voice", length, TRUE, 0, FALSE)
          IN  Reports(VoiceVerdict(out, alike, broken), out)
    BY <2>1 DEF Voice
  <2> DEFINE out == Artifact("voice", length, TRUE, 0, FALSE)
  <2>3. out \in Artifacts /\ out.kind = "voice" /\ length > 0
    BY SpeechTyped
  <2>4. out.length = length
    BY DEF Artifact
  <2> HIDE DEF out
  <2>5. Of("voice")' = out
    BY <1>2, <2>2, <2>3, Makers, MakingKinds, Joined DEF out
  <2> QED
    BY <2>3, <2>4, <2>5 DEF SpokenInv
<1> QED
  BY <1>1, <1>2, Where, Numbers DEF SpokenInv, Stages

LEMMA RenderedStep ==
  ASSUME ChainInv, RenderedInv, [Next]_vars
  PROVE  RenderedInv'
<1>1. CASE stage > S30
  <2>1. Of("avatar")' = Of("avatar") /\ Has(refs, {"avatar"})
    BY <1>1, Makers, MakingKinds, OfKept
  <2>2. Has(refs, VideoKinds)
    BY <2>1 DEF Has, VideoKinds
  <2>3. VideoKinds \in SUBSET Kinds
    BY DEF VideoKinds, Kinds
  <2>4. FirstOfKinds(refs', VideoKinds) = FirstOfKinds(refs, VideoKinds)
    BY <2>2, <2>3, Kept
  <2> QED
    BY <1>1, <2>1, <2>4 DEF RenderedInv
<1>2. CASE stage = S30 /\ stage' # stage
  <2>1. RenderAvatar
    BY <1>2, Left, Working
  <2>2. PICK broken : \E out \in Rendered(broken), alike \in BOOLEAN :
                        Reports(RenderVerdict(out, alike, broken), out)
    BY <2>1 DEF RenderAvatar
  <2>3. PICK out \in Rendered(broken), alike \in BOOLEAN :
          Reports(RenderVerdict(out, alike, broken), out)
    BY <2>2
  <2>4. out \in Artifacts /\ out.kind = "avatar"
    BY RenderedTyped DEF ChainInv
  <2>5. /\ RenderVerdict(out, alike, broken) = "passed"
        /\ Of("avatar")' = out /\ refs' = Append(refs, out)
    BY <1>2, <2>3, <2>4, Makers, MakingKinds, Joined
  <2>6. out.length > 0
    <3>1. StreamDuration(out, "streams" \notin broken) > 0
      BY <2>5 DEF RenderVerdict, ValidRender
    <3> QED
      BY <3>1 DEF StreamDuration
  <2>7. ~ Has(refs, VideoKinds)
    <3>1. \A k \in VideoKinds : k \in Kinds /\ ~ (Maker(k) < stage)
      BY <1>2, Makers, MakingKinds, Numbers DEF VideoKinds, Kinds
    <3>2. \A k \in VideoKinds : ~ Has(refs, {k})
      BY <3>1 DEF ChainInv, RefsInv
    <3> QED
      BY <3>2 DEF Has
  <2>8. FirstOfKinds(refs', VideoKinds) = out
    <3>1. out.kind \in VideoKinds
      BY <2>4 DEF VideoKinds
    <3> QED
      BY <2>4, <2>5, <2>7, <3>1, FirstAppended DEF ChainInv, RefsInv
  <2> QED
    BY <2>5, <2>6, <2>8 DEF RenderedInv
<1> QED
  BY <1>1, <1>2, Where, Numbers DEF RenderedInv, Stages

\* Whether it pads, cuts or only muxes, and with what it measured of the pictures
\* or nothing, narration_conform leaves no more than its slack.
LEMMA ConformedIsClose ==
  ASSUME NEW video \in Int, video > 0, NEW speech \in Int, speech > 0,
         NEW measured \in {0, video}
  PROVE  Distance(Conformed(video, speech, measured), speech) <= ConformSlack
BY DEF Conformed, Distance, Smaller, ConformSlack

LEMMA SyncedStep ==
  ASSUME ChainInv, SpokenInv, RenderedInv, SyncedInv, [Next]_vars
  PROVE  SyncedInv'
<1>c. config' = config
  BY EveryConfig
<1>1. CASE stage > S40
  <2>1. \A k \in {"sync", "avatar", "voice"} : Of(k)' = Of(k)
    <3>1. \A k \in {"sync", "avatar", "voice"} :
            k \in Makings /\ Maker(k) < stage
      BY <1>1, Makers, MakingKinds, Numbers DEF ChainInv, LoopInv
    <3> QED
      BY <3>1, OfKept
  <2> QED
    BY <1>1, <1>c, <2>1 DEF SyncedInv
<1>2. CASE stage = S40 /\ stage' # stage
  <2>1. Sync
    BY <1>2, Left, Working
  <2>2. PICK broken : Reports(SyncVerdict(Synced(broken), broken), Synced(broken))
    BY <2>1 DEF Sync
  <2>3. Synced(broken) \in Artifacts /\ Synced(broken).kind = "sync"
    BY SyncedTyped DEF ChainInv
  <2>4. Of("sync")' = Synced(broken)
    BY <1>2, <2>2, <2>3, Makers, MakingKinds, Joined
  <2>5. /\ Of("avatar")' = Of("avatar") /\ Of("avatar") \in Artifacts
        /\ Of("voice")' = Of("voice") /\ Of("voice") \in Artifacts
    <3>1. \A k \in {"avatar", "voice"} : k \in Makings /\ Maker(k) < stage
      BY <1>2, Makers, MakingKinds, Numbers
    <3> QED
      BY <3>1, OfKept
  <2>6. VideoRef = Of("avatar") /\ VoiceRef = Of("voice")
    BY <1>2, Envelope, Numbers DEF RenderedInv, VideoRef, VoiceRef, Of
  <2>7. Synced(broken).shows = Of("avatar").shows
    <3>1. CASE config.sync = "stub"
      <4>1. Synced(broken) = [VideoRef EXCEPT !.kind = "sync"]
        BY <3>1 DEF Synced
      <4> QED
        BY <2>5, <2>6, <4>1 DEF Artifacts
    <3>2. CASE config.sync # "stub"
      BY <2>6, <3>2 DEF Synced, Artifact
    <3> QED
      BY <3>1, <3>2
  <2>8. ASSUME config.sync = "narration_conform"
        PROVE  Distance(Synced(broken).length, Of("voice").length) <= ConformSlack
    <3> DEFINE measured == StreamDuration(VideoRef, "video" \notin broken)
               length == Conformed(VideoRef.length, VoiceRef.length, measured)
    <3>1. Synced(broken).length = length
      BY <2>8 DEF Synced, Artifact
    <3>2. measured \in {0, VideoRef.length}
      BY DEF StreamDuration
    <3>3. /\ VideoRef.length \in Int /\ VideoRef.length > 0
          /\ VoiceRef.length \in Int /\ VoiceRef.length > 0
      BY <1>2, <2>5, <2>6, Numbers DEF RenderedInv, SpokenInv, Artifacts
    <3> HIDE DEF measured
    <3>4. Distance(length, VoiceRef.length) <= ConformSlack
      BY <3>2, <3>3, ConformedIsClose
    <3> QED
      BY <2>6, <3>1, <3>4
  <2> QED
    BY <1>c, <2>4, <2>5, <2>7, <2>8 DEF SyncedInv
<1> QED
  BY <1>1, <1>2, Where, Numbers DEF SyncedInv, Stages

LEMMA AssembledStep ==
  ASSUME ChainInv, SyncedInv, AssembledInv, [Next]_vars
  PROVE  AssembledInv'
<1>1. CASE stage > S60
  <2>1. \A k \in {"master", "avatar"} : Of(k)' = Of(k)
    <3>1. \A k \in {"master", "avatar"} : k \in Makings /\ Maker(k) < stage
      BY <1>1, Makers, MakingKinds, Numbers DEF ChainInv, LoopInv
    <3> QED
      BY <3>1, OfKept
  <2> QED
    BY <1>1, <2>1 DEF AssembledInv
<1>2. CASE stage = S60 /\ stage' # stage
  <2>1. Assemble
    BY <1>2, Left, Working
  <2>2. PICK broken \in SUBSET {"fetch", "sound", "mux", "pictures", "track",
                                "length", "expected"} :
          Reports(AssemblyVerdict(Assembled(broken), broken), Assembled(broken))
    BY <2>1 DEF Assemble
  <2> DEFINE out == Assembled(broken)
  <2>3. out \in Artifacts /\ out.kind = "master"
    BY AssembledTyped DEF ChainInv
  <2>4. Of("master")' = out /\ AssemblyVerdict(out, broken) = "passed"
    BY <1>2, <2>2, <2>3, Makers, MakingKinds, Joined
  <2>5. \A k \in {"avatar", "sync"} :
          /\ Of(k)' = Of(k) /\ Of(k) \in Artifacts /\ Of(k) # NoRef
    <3>1. \A k \in {"avatar", "sync"} : k \in Makings /\ Maker(k) < stage
      BY <1>2, Makers, MakingKinds, Numbers
    <3> QED
      BY <3>1, OfKept
  <2>6. AssemblySource = Of("sync")
    BY <1>2, <2>5, Envelope, Numbers DEF AssemblySource, Of
  <2>7. out.sound
    <3>1. "audio stream" \notin AssemblyFailures(out, broken)
      BY <2>4 DEF AssemblyVerdict
    <3> HIDE DEF out
    <3> QED
      BY <3>1 DEF AssemblyFailures
  <2>8. out.shows = Of("sync").shows
    <3>1. ~ Fixture.sound
      BY DEF Fixture, Artifact
    <3>2. CASE out = [Of("sync") EXCEPT !.kind = "master"]
      BY <2>5, <3>2 DEF Artifacts
    <3>3. CASE out = Artifact("master",
                              Smaller(Of("sync").length, VoiceRef.length), TRUE,
                              Of("sync").shows, Of("sync").spec)
      BY <3>3 DEF Artifact
    <3> QED
      BY <2>6, <2>7, <3>1, <3>2, <3>3 DEF Assembled
  <2> QED
    BY <1>2, <2>4, <2>5, <2>7, <2>8, Numbers DEF AssembledInv, SyncedInv
<1> QED
  BY <1>1, <1>2, Where, Numbers DEF AssembledInv, Stages

LEMMA InspectedStep ==
  ASSUME ChainInv, InspectedInv, [Next]_vars
  PROVE  InspectedInv'
<1>1. CASE stage > S70
  <2>1. \A k \in {"master", "voice"} : Of(k)' = Of(k)
    <3>1. \A k \in {"master", "voice"} : k \in Makings /\ Maker(k) < stage
      BY <1>1, Makers, MakingKinds, Numbers DEF ChainInv, LoopInv
    <3> QED
      BY <3>1, OfKept
  <2> QED
    BY <1>1, <2>1 DEF InspectedInv
<1>2. CASE stage = S70 /\ stage' # stage
  <2>1. Inspect
    BY <1>2, Left, Working
  <2> DEFINE out == Artifact("qc_report", 0, FALSE, 0, FALSE)
  <2>2. PICK judgment \in Judgments, broken \in SUBSET {"narration", "video"} :
          Reports(QCVerdict(judgment, broken), out)
    BY <2>1 DEF Inspect
  <2>3. QCPassed(broken)
    <3>1. QCVerdict(judgment, broken) = "passed"
      BY <1>2, <2>2 DEF Reports, Retries, GivesUp
    <3> QED
      BY <3>1 DEF QCVerdict
  <2>4. \A k \in {"master", "voice"} : Of(k)' = Of(k) /\ Of(k) \in Artifacts
    <3>1. \A k \in {"master", "voice"} : k \in Makings /\ Maker(k) < stage
      BY <1>2, Makers, MakingKinds, Numbers
    <3> QED
      BY <3>1, OfKept
  <2>5. MasterRef = Of("master") /\ VoiceRef = Of("voice")
    BY <1>2, Envelope, Numbers DEF MasterRef, VoiceRef, Of
  <2>6. Distance(VoiceRef.length, MasterRef.length) <= QCTolerance
    <3> DEFINE heard == StreamDuration(VoiceRef, "narration" \notin broken)
               seen  == StreamDuration(MasterRef, "video" \notin broken)
    <3>1. heard > 0 /\ seen > 0 /\ Distance(heard, seen) <= QCTolerance
      BY <2>3 DEF QCPassed
    <3>2. heard \in {0, VoiceRef.length} /\ seen \in {0, MasterRef.length}
      BY DEF StreamDuration
    <3> HIDE DEF heard, seen
    <3>3. heard = VoiceRef.length /\ seen = MasterRef.length
      BY <3>1, <3>2
    <3> QED
      BY <3>1, <3>3
  <2>7. Of("voice").length \in Int /\ Of("master").length \in Int
    BY <2>4 DEF Artifacts
  <2> QED
    BY <2>4, <2>5, <2>6, <2>7 DEF InspectedInv, Distance
<1> QED
  BY <1>1, <1>2, Where, Numbers DEF InspectedInv, Stages

LEMMA DisclosedStep ==
  ASSUME ChainInv, RenderedInv, DisclosedInv, [Next]_vars
  PROVE  DisclosedInv'
<1>1. CASE stage > G90
  <2>1. \A k \in {"disclosure", "avatar"} : Of(k)' = Of(k)
    <3>1. \A k \in {"disclosure", "avatar"} : k \in Makings /\ Maker(k) < stage
      BY <1>1, Makers, MakingKinds, Numbers DEF ChainInv, LoopInv
    <3> QED
      BY <3>1, OfKept
  <2> QED
    BY <1>1, <2>1 DEF DisclosedInv
<1>2. CASE stage = G90 /\ stage' # stage
  <2>1. Disclose
    BY <1>2, Left, Working
  <2> DEFINE out == Artifact("disclosure", 0, FALSE, VideoRef.shows, FALSE)
  <2>2. Reports(DisclosureFailure(StubFlag), out)
    BY <2>1 DEF Disclose
  <2>3. Of("avatar")' = Of("avatar") /\ Of("avatar") \in Artifacts
    <3>1. "avatar" \in Makings /\ Maker("avatar") < stage
      BY <1>2, Makers, MakingKinds, Numbers
    <3> QED
      BY <3>1, OfKept
  <2>4. VideoRef = Of("avatar")
    BY <1>2, Envelope, Numbers DEF RenderedInv, VideoRef
  <2>5. out \in Artifacts /\ out.kind = "disclosure"
    <3>1. VideoRef.shows \in Nat /\ "disclosure" \in Kinds
      BY <2>3, <2>4 DEF Artifacts, Kinds
    <3> QED
      BY <3>1 DEF Artifact, Artifacts
  <2>6. Of("disclosure")' = out
    BY <1>2, <2>2, <2>5, Makers, MakingKinds, Joined
  <2>7. out.shows = VideoRef.shows
    BY DEF Artifact
  <2> QED
    BY <2>3, <2>4, <2>6, <2>7 DEF DisclosedInv
<1> QED
  BY <1>1, <1>2, Where, Numbers DEF DisclosedInv, Stages

LEMMA MediaHolds == Spec => []MediaInv
<1>1. Init => MediaInv
  BY Numbers DEF Init, MediaInv, SpokenInv, RenderedInv, SyncedInv, AssembledInv,
                 InspectedInv, DisclosedInv
<1>2. ChainInv /\ MediaInv /\ [Next]_vars => MediaInv'
  BY SpokenStep, RenderedStep, SyncedStep, AssembledStep, InspectedStep,
     DisclosedStep DEF MediaInv
<1> QED
  BY <1>1, <1>2, Chained, PTL DEF Spec

\* At the human gate and behind it, where the artifacts that were handed on are
\* what the lookups find.
LEMMA AtTheGate ==
  ASSUME ChainInv, stage > S40
  PROVE  /\ MasterRef = Of("master") /\ VoiceRef = Of("voice")
         /\ Of("voice") \in Artifacts
         /\ stage > S60 => Of("master") \in Artifacts
<1>1. upstream = refs
  BY Envelope, Numbers DEF ChainInv, LoopInv
<1>2. \A k \in {"voice", "master"} : Maker(k) < stage => Of(k) \in Artifacts
  <2> SUFFICES ASSUME NEW k \in {"voice", "master"}, Maker(k) < stage
               PROVE  Of(k) \in Artifacts
    OBVIOUS
  <2>1. Has(refs, {k})
    BY DEF ChainInv, RefsInv, Kinds
  <2> QED
    BY <2>1, FirstTyped DEF Of, ChainInv, RefsInv
<1> QED
  BY <1>1, <1>2, Makers, Numbers DEF MasterRef, VoiceRef, Of, ChainInv, LoopInv

\* Whatever the script, the speech and the render, and whichever measurements
\* failed on the way: the master a person is asked about lasts as long as its
\* narration, since S70 measures both for itself.
THEOREM MasterFollowsNarrationHolds == Spec => []MasterFollowsNarration
<1>1. ChainInv /\ MediaInv => MasterFollowsNarration
  <2> SUFFICES ASSUME ChainInv, MediaInv, stage >= G80
               PROVE  Distance(MasterRef.length, VoiceRef.length) <= QCTolerance
    BY DEF MasterFollowsNarration
  <2>1. stage > S70 /\ stage > S40
    BY Numbers DEF ChainInv, LoopInv
  <2> QED
    BY <2>1, AtTheGate DEF MediaInv, InspectedInv
<1> QED
  BY <1>1, Chained, MediaHolds, PTL

\* The master at the gate shows what S30 rendered and speaks, and the video that
\* G90 signs shows the same, though it is not the master: a failure of assembly
\* ends in the fixture, and the fixture ends there.
THEOREM MasterIsTheRunsOwnHolds == Spec => []MasterIsTheRunsOwn
<1>1. ChainInv /\ MediaInv => MasterIsTheRunsOwn
  <2> SUFFICES ASSUME ChainInv, MediaInv, stage >= G80
               PROVE  /\ MasterRef.sound
                      /\ MasterRef.shows = Of("avatar").shows
                      /\ stage > G90 => Of("disclosure").shows = MasterRef.shows
    BY DEF MasterIsTheRunsOwn, Of
  <2>1. stage > S60 /\ stage > S40
    BY Numbers DEF ChainInv, LoopInv
  <2> QED
    BY <2>1, AtTheGate DEF MediaInv, AssembledInv, DisclosedInv
<1> QED
  BY <1>1, Chained, MediaHolds, PTL

\* narration_conform keeps pictures and speech together for pictures of any
\* length, measured or not.
THEOREM SyncedToNarrationHolds == Spec => []SyncedToNarration
<1>1. ChainInv /\ MediaInv => SyncedToNarration
  BY AtTheGate DEF MediaInv, SyncedInv, SyncedToNarration, Of
<1> QED
  BY <1>1, Chained, MediaHolds, PTL
-----------------------------------------------------------------------------
(* Words *)

WordsInv ==
  raw \in Transcripts \cup {<<>>} /\ words \in Seq(Words) /\ WellTimed(words)

LEMMA StubWordsTyped == StubWords \in Seq(Words)
<1>1. /\ [start |-> 0,    end |-> 400] \in Words
      /\ [start |-> 500,  end |-> 800] \in Words
      /\ [start |-> 900,  end |-> 1400] \in Words
      /\ [start |-> 1500, end |-> 2100] \in Words
  BY DEF Words, Timestamps
<1> QED
  BY <1>1 DEF StubWords

LEMMA OnlyCaptionHears ==
  ASSUME [Next]_vars
  PROVE  Caption \/ UNCHANGED <<raw, words>>
BY DEF Next, vars, Intake, Script, Voice, SynthesisRaises, RenderAvatar, Sync,
       Assemble, Inspect, Decide, Disclose, Publish

LEMMA WordsStep ==
  ASSUME WordsInv, [Next]_vars
  PROVE  WordsInv'
<1>1. CASE UNCHANGED <<raw, words>>
  BY <1>1 DEF WordsInv
<1>2. CASE Caption
  <2>1. PICK heard \in IF config.captions = "stub" THEN {<<>>} ELSE Transcripts,
             broken \in SUBSET {"expected"} :
          LET captions == IF config.captions = "stub" THEN StubWords
                          ELSE Repair(heard)
              type     == CaptionVerdict(captions, broken)
          IN  /\ raw' = heard
              /\ words' = IF type = "passed" THEN captions ELSE <<>>
    BY <1>2 DEF Caption
  <2> DEFINE captions == IF config.captions = "stub" THEN StubWords
                         ELSE Repair(heard)
  <2>2. captions \in Seq(Words)
    <3>1. CASE config.captions = "stub"
      BY <3>1, StubWordsTyped
    <3>2. CASE config.captions # "stub"
      <4>1. heard \in Seq(Words)
        BY <3>2, TranscriptAssumption
      <4> QED
        BY <3>2, <4>1, RepairedWords
    <3> QED
      BY <3>1, <3>2
  <2>3. CaptionVerdict(captions, broken) = "passed" => WellTimed(captions)
    BY DEF CaptionVerdict, ValidCaptions
  <2>4. <<>> \in Seq(Words) /\ WellTimed(<<>>)
    <3>1. <<>> \in Seq(Words) /\ 1..Len(<<>>) = {}
      OBVIOUS
    <3> QED
      BY <3>1 DEF WellTimed
  <2> HIDE DEF captions
  <2>5. words' = captions \/ words' = <<>>
    BY <2>1 DEF captions
  <2>6. words' \in Seq(Words) /\ WellTimed(words')
    <3>1. CASE CaptionVerdict(captions, broken) = "passed"
      BY <2>2, <2>3, <2>4, <2>5, <3>1
    <3>2. CASE CaptionVerdict(captions, broken) # "passed"
      <4>1. words' = <<>>
        BY <2>1, <3>2 DEF captions
      <4> QED
        BY <2>4, <4>1
    <3> QED
      BY <3>1, <3>2
  <2>7. raw' \in Transcripts \cup {<<>>}
    BY <2>1
  <2> QED
    BY <2>6, <2>7 DEF WordsInv
<1> QED
  BY <1>1, <1>2, OnlyCaptionHears

LEMMA WordsHold == Spec => []WordsInv
<1>1. Init => WordsInv
  <2>1. <<>> \in Seq(Words) /\ 1..Len(<<>>) = {}
    OBVIOUS
  <2> QED
    BY <2>1 DEF Init, WordsInv, WellTimed
<1> QED
  BY <1>1, WordsStep, PTL DEF Spec

\* A subtitle cut from words that passed lasts, unless they are out of order.
THEOREM CuesAreShownHolds == Spec => []CuesAreShown
<1>1. WordsInv => CuesAreShown
  BY CuesLast DEF WordsInv, CuesAreShown
<1> QED
  BY <1>1, WordsHold, PTL

\* Whatever whisper-1 heard: if it is in order and S50 refuses it for its timing
\* all the same, then for its rate and not for the words that were repaired.
THEOREM RepairSparesRetriesHolds == Spec => []RepairSparesRetries
<1>1. Init => RepairSparesRetries
  BY DEF Init, RepairSparesRetries
<1>2. ChainInv /\ ChainInv' /\ RepairSparesRetries /\ [Next]_vars
        => RepairSparesRetries'
  <2> SUFFICES ASSUME ChainInv, ChainInv', RepairSparesRetries, [Next]_vars,
                      (/\ verdict = "caption_timing_invalid"
                       /\ ~flawed /\ raw # <<>> /\ Orderly(raw))'
               PROVE  ~ PlausibleRate(raw, VoiceRef.length)'
    BY DEF RepairSparesRetries
  <2>1. stage' = S50
    <3>1. stage' \in Stages /\ verdict' \in FailureTypes(stage')
      BY DEF ChainInv, LoopInv
    <3> QED
      BY <3>1, Numbers DEF FailureTypes, Stages
  <2>2. CASE UNCHANGED vars
    <3>1. /\ verdict' = verdict /\ flawed' = flawed /\ raw' = raw
          /\ upstream' = upstream
      BY <2>2 DEF vars
    <3> QED
      BY <3>1 DEF RepairSparesRetries, VoiceRef
  <2>3. CASE ~ UNCHANGED vars
    <3>1. stage' = stage
      BY Left
    <3>2. ~failed /\ stage \in Stages
      BY <2>3, EveryMove DEF Moves
    <3>3. Caption
      BY <2>1, <2>3, <3>1, <3>2, Working
    <3>4. PICK heard \in IF config.captions = "stub" THEN {<<>>} ELSE Transcripts,
               broken \in SUBSET {"expected"} :
            LET captions == IF config.captions = "stub" THEN StubWords
                            ELSE Repair(heard)
                type     == CaptionVerdict(captions, broken)
            IN  /\ Runs(S50, broken)
                /\ Reports(type, Artifact("captions", 0, FALSE, 0, FALSE))
                /\ raw' = heard
      BY <3>3 DEF Caption
    <3>5. broken = {} /\ config.captions # "stub" /\ heard \in Seq(Words)
      BY <3>4, TranscriptAssumption DEF Runs
    <3>6. CaptionVerdict(Repair(heard), broken) # "passed" /\ upstream' = upstream
      <4> DEFINE type == CaptionVerdict(Repair(heard), broken)
                 out  == Artifact("captions", 0, FALSE, 0, FALSE)
      <4>1. Reports(type, out)
        BY <3>4, <3>5
      <4> HIDE DEF type, out
      <4>2. ~ Passes(out)
        <5>1. Passes(out) => stage' = stage + 1
          BY DEF Passes, HandsOn
        <5> QED
          BY <2>1, <3>1, <5>1, Numbers
      <4>3. stage # S30
        <5>1. stage = S50
          BY <2>1, <3>1
        <5> QED
          BY <5>1, Numbers
      <4>4. type # "passed" /\ upstream' = upstream
        BY <4>1, <4>2, <4>3 DEF Reports, Retries, GivesUp
      <4> QED
        BY <4>4 DEF type
    <3>7. UpstreamAudio("expected" \notin broken) = VoiceRef.length
      BY <3>5 DEF UpstreamAudio, MeasuredDuration, NoRef, Artifact
    <3>8. ~ ValidCaptions(Repair(heard), VoiceRef.length)
      BY <3>6, <3>7 DEF CaptionVerdict
    <3>9. /\ WellTimed(Repair(heard)) /\ Apart(Repair(heard))
          /\ Len(Repair(heard)) = Len(heard) /\ Len(heard) > 0
      <4>1. heard # <<>> /\ Orderly(heard)
        BY <3>4
      <4>2. Len(heard) > 0
        BY <3>5, <4>1, EmptySeq
      <4> QED
        BY <3>5, <4>1, <4>2, RepairPassesTiming, RepairedWords
    <3>10. ~ PlausibleRate(heard, VoiceRef.length)
      BY <3>8, <3>9 DEF ValidCaptions, PlausibleRate
    <3>11. VoiceRef' = VoiceRef
      BY <3>6 DEF VoiceRef
    <3> QED
      BY <3>4, <3>10, <3>11
  <2> QED
    BY <2>2, <2>3
<1> QED
  BY <1>1, <1>2, Chained, PTL DEF Spec

\* Every variable keeps its type, for any transcript and any length.
THEOREM TypeOKHolds == Spec => []TypeOK
<1>1. Init => flawed \in BOOLEAN
  BY DEF Init
<1>2. flawed \in BOOLEAN /\ [Next]_vars => (flawed \in BOOLEAN)'
  <2>1. \A s, broken : Runs(s, broken) => flawed' \in BOOLEAN
    BY DEF Runs
  <2> QED
    BY <2>1 DEF Next, vars, Intake, Script, Voice, SynthesisRaises, RenderAvatar,
                Sync, Caption, Assemble, Inspect, Decide, Disclose, Publish
<1>3. ChainInv /\ WordsInv /\ flawed \in BOOLEAN => TypeOK
  BY LenProperties DEF ChainInv, LoopInv, RefsInv, IdentityInv, WordsInv, Unique,
                       TypeOK
<1> QED
  BY <1>1, <1>2, <1>3, Chained, WordsHold, PTL DEF Spec
-----------------------------------------------------------------------------
(* A faceless run whose tools work *)

Smooth == ~config.identity /\ ~flawed

Fits(kind) == Of(kind).length = Of("voice").length /\ Of(kind).spec

\* Every video is as long as the narration, and behind S40 it has it for a sound
\* track.
SmoothInv ==
  Smooth => /\ stage > S30 => Fits("avatar")
            /\ stage > S40 => Fits("sync") /\ Of("sync").sound
            /\ stage > S60 => Fits("master") /\ Of("master").sound

LEMMA Faceless ==
  ASSUME ChainInv, ~config.identity
  PROVE  /\ config.render = "faceless_mixed_media"
         /\ config.sync = "narration_conform"
         /\ upstream = refs /\ VoiceRef = Of("voice")
         /\ IdentityUsed = NoRef
<1>1. config \in Configs
  BY DEF ChainInv, LoopInv
<1>2. upstream = refs
  BY Envelope
<1>3. ~ Has(refs, {"identity"})
  BY DEF ChainInv, RefsInv, Kinds
<1> QED
  BY <1>1, <1>2, <1>3, FirstMissing DEF Configs, VoiceRef, IdentityUsed, Of

\* What the lookups of a stage behind S20 find.
LEMMA Behind ==
  ASSUME ChainInv, SpokenInv, stage > S20
  PROVE  /\ Of("voice") \in Artifacts /\ Of("voice") # NoRef
         /\ Of("voice").length \in Int /\ Of("voice").length > 0
         /\ \A k \in {"avatar", "sync", "master"} :
              Maker(k) < stage =>
                /\ Of(k) \in Artifacts /\ Of(k) # NoRef
                /\ Of(k).length \in Int /\ Of(k).spec \in BOOLEAN
                /\ Of(k).sound \in BOOLEAN
<1>1. NoRef.kind = "none"
  BY DEF NoRef, Artifact
<1>2. \A k \in {"voice", "avatar", "sync", "master"} :
        Maker(k) < stage => Of(k) \in Artifacts /\ Of(k) # NoRef
  <2> SUFFICES ASSUME NEW k \in {"voice", "avatar", "sync", "master"},
                      Maker(k) < stage
               PROVE  Of(k) \in Artifacts /\ Of(k) # NoRef
    OBVIOUS
  <2>1. Has(refs, {k})
    BY DEF ChainInv, RefsInv, Kinds
  <2>2. Of(k) \in Artifacts /\ Of(k).kind = k
    BY <2>1, FirstTyped DEF Of, ChainInv, RefsInv
  <2> QED
    BY <1>1, <2>2
<1>3. Of("voice") \in Artifacts /\ Of("voice") # NoRef
  BY <1>2, Makers
<1> QED
  BY <1>2, <1>3 DEF Artifacts, SpokenInv

\* A length that is right is within any tolerance.
LEMMA RightLength ==
  ASSUME NEW tolerance \in Nat, NEW length \in Int
  PROVE  Within(tolerance, length, length)
BY DEF Within, Distance

LEMMA SmoothRender ==
  ASSUME ChainInv, SpokenInv, stage = S30, ~config.identity,
         NEW out \in Rendered({}), NEW alike
  PROVE  /\ out.length = Of("voice").length /\ out.spec
         /\ RenderVerdict(out, alike, {}) = "passed"
<1> DEFINE voice == Of("voice")
<1>1. /\ VoiceRef = voice /\ voice # NoRef
      /\ voice.length \in Int /\ voice.length > 0
      /\ IdentityUsed = NoRef /\ config.render = "faceless_mixed_media"
  BY Faceless, Behind, Numbers
<1> HIDE DEF voice
<1>2. out = Artifact("avatar",
                     FacelessLength(StreamDuration(VoiceRef, "narration" \notin {})),
                     FALSE, attempt, TRUE)
  BY <1>1 DEF Rendered
<1>3. FacelessLength(StreamDuration(VoiceRef, "narration" \notin {})) = voice.length
  <2>1. StreamDuration(VoiceRef, "narration" \notin {}) = voice.length
    BY <1>1 DEF StreamDuration
  <2>2. ASSUME NEW length \in Int, length > 0
        PROVE  FacelessLength(length) = length
    BY <2>2 DEF FacelessLength
  <2> QED
    BY <1>1, <2>1, <2>2
<1>4. out.length = voice.length /\ out.spec
  BY <1>2, <1>3 DEF Artifact
<1>5. StreamDuration(out, "streams" \notin {}) > 0
  BY <1>1, <1>4 DEF StreamDuration
<1>6. UpstreamAudio("expected" \notin {}) = voice.length
  BY <1>1 DEF UpstreamAudio, MeasuredDuration
<1>7. Within(RenderTolerance, voice.length, voice.length)
  BY <1>1, RightLength DEF RenderTolerance
<1>8. ValidRender(out, {})
  BY <1>4, <1>5, <1>6, <1>7 DEF ValidRender
<1> QED
  BY <1>1, <1>4, <1>8 DEF RenderVerdict, voice

LEMMA SmoothSync ==
  ASSUME ChainInv, SpokenInv, RenderedInv, stage = S40, ~config.identity,
         Fits("avatar")
  PROVE  /\ Synced({}).length = Of("voice").length
         /\ Synced({}).spec /\ Synced({}).sound
         /\ SyncVerdict(Synced({}), {}) = "passed"
<1> DEFINE voice == Of("voice")
           out   == Synced({})
<1>1. /\ VoiceRef = voice /\ voice # NoRef
      /\ voice.length \in Int /\ voice.length > 0
      /\ config.sync = "narration_conform"
  BY Faceless, Behind, Numbers
<1>2. VideoRef.length = voice.length /\ VideoRef.spec
  BY Faceless, Numbers DEF VideoRef, RenderedInv, Fits
<1> HIDE DEF voice
<1>3. out = Artifact("sync",
                     Conformed(VideoRef.length, VoiceRef.length,
                               StreamDuration(VideoRef, "video" \notin {})),
                     TRUE, VideoRef.shows, VideoRef.spec)
  BY <1>1 DEF Synced
<1>4. Conformed(VideoRef.length, VoiceRef.length,
                StreamDuration(VideoRef, "video" \notin {})) = voice.length
  <2>1. StreamDuration(VideoRef, "video" \notin {}) = voice.length
    BY <1>2 DEF StreamDuration
  <2>2. ASSUME NEW length \in Int
        PROVE  Conformed(length, length, length) = length
    BY DEF Conformed, Smaller, ConformSlack
  <2> QED
    BY <1>1, <1>2, <2>1, <2>2
<1> HIDE DEF out
<1>5. out.length = voice.length /\ out.spec /\ out.sound
  BY <1>2, <1>3, <1>4 DEF Artifact
<1>6. StreamDuration(out, "output" \notin {}) # 0
  BY <1>1, <1>5 DEF StreamDuration
<1>7. UpstreamAudio("expected" \notin {}) = voice.length
  BY <1>1 DEF UpstreamAudio, MeasuredDuration
<1>8. Within(SyncTolerance, voice.length, voice.length)
  BY <1>1, RightLength DEF SyncTolerance
<1>9. SyncVerdict(out, {}) = "passed"
  BY <1>5, <1>6, <1>7, <1>8 DEF SyncVerdict
<1> QED
  BY <1>5, <1>9 DEF out, voice

LEMMA SmoothAssemble ==
  ASSUME ChainInv, SpokenInv, stage = S60, ~config.identity,
         Fits("sync"), Of("sync").sound
  PROVE  /\ Assembled({}).length = Of("voice").length
         /\ Assembled({}).spec /\ Assembled({}).sound
         /\ AssemblyVerdict(Assembled({}), {}) = "passed"
<1> DEFINE voice == Of("voice")
           sync  == Of("sync")
           out   == Assembled({})
<1>1. /\ VoiceRef = voice /\ voice # NoRef /\ voice.length \in Int
      /\ upstream = refs
  BY Faceless, Behind, Numbers
<1>2. sync \in Artifacts /\ sync # NoRef
  <2>1. Maker("sync") < stage
    BY Makers, Numbers
  <2> QED
    BY <2>1, Behind, Numbers
<1>3. sync.length = voice.length /\ sync.spec /\ sync.sound
  BY DEF Fits
<1> HIDE DEF voice
<1>4. AssemblySource = sync
  BY <1>1, <1>2 DEF AssemblySource, Of
<1> HIDE DEF sync
<1>5. out = [sync EXCEPT !.kind = "master"]
  BY <1>2, <1>3, <1>4 DEF Assembled
<1> HIDE DEF out
<1>6. out.length = voice.length /\ out.spec /\ out.sound
  BY <1>2, <1>3, <1>5 DEF Artifacts
<1>7. UpstreamAudio("expected" \notin {}) = voice.length
  BY <1>1 DEF UpstreamAudio, MeasuredDuration
<1>8. MeasuredDuration(out, "length" \notin {}) = voice.length
  BY <1>6 DEF MeasuredDuration
<1>9. Within(MasterTolerance, voice.length, voice.length)
  BY <1>1, RightLength DEF MasterTolerance
<1>10. AssemblyFailures(out, {}) = {}
  BY <1>6, <1>7, <1>8, <1>9 DEF AssemblyFailures
<1>11. AssemblyVerdict(out, {}) = "passed"
  BY <1>10 DEF AssemblyVerdict
<1> QED
  BY <1>6, <1>11 DEF out, voice

LEMMA SmoothInspect ==
  ASSUME ChainInv, SpokenInv, stage = S70, ~config.identity,
         Fits("master"), Of("master").sound
  PROVE  QCPassed({})
<1>1. /\ VoiceRef = Of("voice") /\ MasterRef = Of("master")
      /\ VoiceRef.length \in Int /\ VoiceRef.length > 0
  BY Faceless, Behind, Numbers DEF MasterRef, Of
<1>2. /\ StreamDuration(VoiceRef, "narration" \notin {}) = VoiceRef.length
      /\ StreamDuration(MasterRef, "video" \notin {}) = VoiceRef.length
  BY <1>1 DEF StreamDuration, Fits
<1>3. Distance(VoiceRef.length, VoiceRef.length) <= QCTolerance
  BY <1>1 DEF Distance, QCTolerance
<1>4. MasterRef.sound /\ MasterRef.spec
  BY <1>1 DEF Fits
<1> QED
  BY <1>1, <1>2, <1>3, <1>4 DEF QCPassed

\* A tool that has not failed by now did not fail before, nor just now.
LEMMA NoFlaw ==
  ASSUME [Next]_vars, ~flawed'
  PROVE  /\ ~flawed
         /\ \A s, broken : Runs(s, broken) => broken = {}
<1>1. \A s, broken : Runs(s, broken) => ~flawed /\ broken = {}
  BY DEF Runs
<1> QED
  <2>1. CASE \E s, broken : Runs(s, broken)
    BY <1>1, <2>1
  <2>2. CASE ~ \E s, broken : Runs(s, broken)
    <3>1. UNCHANGED vars
      BY <2>2 DEF Next, Intake, Script, Voice, SynthesisRaises, RenderAvatar,
                  Sync, Caption, Assemble, Inspect, Decide, Disclose, Publish
    <3>2. flawed' = flawed
      BY <3>1 DEF vars
    <3> QED
      BY <1>1, <3>2
  <2> QED
    BY <2>1, <2>2

LEMMA SmoothStep ==
  ASSUME ChainInv, SpokenInv, RenderedInv, SmoothInv, [Next]_vars
  PROVE  SmoothInv'
<1> SUFFICES ASSUME Smooth'
             PROVE  (/\ stage > S30 => Fits("avatar")
                     /\ stage > S40 => Fits("sync") /\ Of("sync").sound
                     /\ stage > S60 => Fits("master") /\ Of("master").sound)'
  BY DEF SmoothInv
<1>1. /\ ~config.identity /\ Smooth
      /\ \A s, broken : Runs(s, broken) => broken = {}
  BY EveryConfig, NoFlaw DEF Smooth
<1>2. /\ stage > S30 => Fits("avatar")
      /\ stage > S40 => Fits("sync") /\ Of("sync").sound
      /\ stage > S60 => Fits("master") /\ Of("master").sound
  BY <1>1 DEF SmoothInv
<1>3. stage \in Nat
  BY Numbers DEF ChainInv, LoopInv
<1>4. \A k \in Makings : Maker(k) < stage => Of(k)' = Of(k)
  BY OfKept
<1>5. stage > S20 => Of("voice")' = Of("voice")
  BY <1>3, <1>4, Makers, MakingKinds, Numbers
<1>6. (stage > S30 => Fits("avatar"))'
  <2>1. CASE stage > S30
    <3>1. Of("avatar")' = Of("avatar")
      BY <1>4, <2>1, Makers, MakingKinds
    <3> QED
      BY <1>2, <1>3, <1>5, <2>1, <3>1, Numbers DEF Fits
  <2>2. CASE stage = S30 /\ stage' # stage
    <3>1. RenderAvatar
      BY <2>2, Left, Working
    <3>2. PICK broken : /\ Runs(S30, broken)
                        /\ \E out \in Rendered(broken), alike \in BOOLEAN :
                             Reports(RenderVerdict(out, alike, broken), out)
      BY <3>1 DEF RenderAvatar
    <3>3. PICK out \in Rendered(broken), alike \in BOOLEAN :
            Reports(RenderVerdict(out, alike, broken), out)
      BY <3>2
    <3>4. broken = {}
      BY <1>1, <3>2
    <3>5. out \in Artifacts /\ out.kind = "avatar"
      BY RenderedTyped DEF ChainInv
    <3>6. Of("avatar")' = out
      BY <2>2, <3>3, <3>5, Makers, MakingKinds, Joined
    <3>7. out.length = Of("voice").length /\ out.spec
      BY <1>1, <2>2, <3>4, SmoothRender
    <3> QED
      BY <1>5, <2>2, <3>6, <3>7, Numbers DEF Fits
  <2> QED
    BY <2>1, <2>2, Where, Numbers DEF Stages
<1>7. (stage > S40 => Fits("sync") /\ Of("sync").sound)'
  <2>1. CASE stage > S40
    <3>1. Of("sync")' = Of("sync")
      BY <1>4, <2>1, Makers, MakingKinds
    <3> QED
      BY <1>2, <1>3, <1>5, <2>1, <3>1, Numbers DEF Fits
  <2>2. CASE stage = S40 /\ stage' # stage
    <3>1. Sync
      BY <2>2, Left, Working
    <3>2. PICK broken : /\ Runs(S40, broken)
                        /\ Reports(SyncVerdict(Synced(broken), broken),
                                   Synced(broken))
      BY <3>1 DEF Sync
    <3>3. broken = {}
      BY <1>1, <3>2
    <3>4. Synced({}) \in Artifacts /\ Synced({}).kind = "sync"
      BY SyncedTyped DEF ChainInv
    <3>5. Of("sync")' = Synced({})
      BY <2>2, <3>2, <3>3, <3>4, Makers, MakingKinds, Joined
    <3>6. Fits("avatar")
      BY <1>2, <2>2, Numbers
    <3>7. /\ Synced({}).length = Of("voice").length
          /\ Synced({}).spec /\ Synced({}).sound
      BY <1>1, <2>2, <3>6, SmoothSync
    <3> QED
      BY <1>5, <2>2, <3>5, <3>7, Numbers DEF Fits
  <2> QED
    BY <2>1, <2>2, Where, Numbers DEF Stages
<1>8. (stage > S60 => Fits("master") /\ Of("master").sound)'
  <2>1. CASE stage > S60
    <3>1. Of("master")' = Of("master")
      BY <1>4, <2>1, Makers, MakingKinds
    <3> QED
      BY <1>2, <1>3, <1>5, <2>1, <3>1, Numbers DEF Fits
  <2>2. CASE stage = S60 /\ stage' # stage
    <3>1. Assemble
      BY <2>2, Left, Working
    <3>2. PICK broken : /\ Runs(S60, broken)
                        /\ Reports(AssemblyVerdict(Assembled(broken), broken),
                                   Assembled(broken))
      BY <3>1 DEF Assemble
    <3>3. broken = {}
      BY <1>1, <3>2
    <3>4. Assembled({}) \in Artifacts /\ Assembled({}).kind = "master"
      BY AssembledTyped DEF ChainInv
    <3>5. Of("master")' = Assembled({})
      BY <2>2, <3>2, <3>3, <3>4, Makers, MakingKinds, Joined
    <3>6. Fits("sync") /\ Of("sync").sound
      BY <1>2, <2>2, Numbers
    <3>7. /\ Assembled({}).length = Of("voice").length
          /\ Assembled({}).spec /\ Assembled({}).sound
      BY <1>1, <2>2, <3>6, SmoothAssemble
    <3> QED
      BY <1>5, <2>2, <3>5, <3>7, Numbers DEF Fits
  <2> QED
    BY <2>1, <2>2, Where, Numbers DEF Stages
<1> QED
  BY <1>6, <1>7, <1>8

FacelessRefusals ==
  {"intake_mismatch", "malformed_script", "voice_invalid",
   "speaker_similarity_low", "caption_timing_invalid",
   "subjective_quality_check_failed", "approval_rejected", "no_approval"}

\* What a faceless run fails of when its tools work: stage by stage, a refusal
\* of the media would contradict what the stages before have made of them.
LEMMA FacelessFailure ==
  ASSUME ChainInv, ChainInv', MediaInv, SmoothInv, [Next]_vars,
         ~failed, failed', Smooth'
  PROVE  verdict' \in FacelessRefusals
<1>1. /\ ~config.identity /\ Smooth
      /\ \A s, broken : Runs(s, broken) => broken = {}
  BY EveryConfig, NoFlaw DEF Smooth
<1>2. /\ stage > S30 => Fits("avatar")
      /\ stage > S40 => Fits("sync") /\ Of("sync").sound
      /\ stage > S60 => Fits("master") /\ Of("master").sound
  BY <1>1 DEF SmoothInv
<1>3. stage \in Stages /\ stage' = stage /\ ~ UNCHANGED vars
  <2>1. Moves /\ ~ UNCHANGED vars
    BY EveryMove DEF vars
  <2> QED
    BY <2>1 DEF Moves
<1>4. SpokenInv /\ RenderedInv
  BY DEF MediaInv
<1>5. ASSUME NEW type, NEW out, Reports(type, out)
      PROVE  type # "passed" /\ verdict' = type
  <2>1. ~ Passes(out)
    BY DEF Passes, HandsOn
  <2> QED
    BY <1>5, <2>1 DEF Reports, Retries, GivesUp
<1>6. CASE stage = S00
  <2>1. Intake
    BY <1>3, <1>6, Working
  <2> QED
    BY <2>1 DEF Intake, HandsOn, Retries, GivesUp, FacelessRefusals
<1>7. CASE stage = S10
  <2>1. Script
    BY <1>3, <1>7, Working
  <2>2. PICK out, broken : /\ Runs(S10, broken)
                           /\ Reports(ScriptVerdict(out, broken), out)
    BY <2>1 DEF Script
  <2>3. broken = {} /\ verdict' = ScriptVerdict(out, broken) /\ verdict' # "passed"
    BY <1>1, <1>5, <2>2
  <2> QED
    BY <2>3 DEF ScriptVerdict, FacelessRefusals
<1>8. CASE stage = S20
  <2>1. Voice
    BY <1>3, <1>8, Working
  <2>2. PICK out, alike, broken : Reports(VoiceVerdict(out, alike, broken), out)
    BY <2>1 DEF Voice
  <2>3. verdict' = VoiceVerdict(out, alike, broken) /\ verdict' # "passed"
    BY <1>5, <2>2
  <2> QED
    BY <2>3 DEF VoiceVerdict, FacelessRefusals
<1>9. CASE stage = S30
  <2>1. RenderAvatar
    BY <1>3, <1>9, Working
  <2>2. PICK broken : /\ Runs(S30, broken)
                      /\ \E out \in Rendered(broken), alike \in BOOLEAN :
                           Reports(RenderVerdict(out, alike, broken), out)
    BY <2>1 DEF RenderAvatar
  <2>3. PICK out \in Rendered({}), alike \in BOOLEAN :
          Reports(RenderVerdict(out, alike, {}), out)
    BY <1>1, <2>2
  <2>4. RenderVerdict(out, alike, {}) # "passed"
    BY <1>5, <2>3
  <2> QED
    BY <1>1, <1>4, <1>9, <2>4, SmoothRender
<1>10. CASE stage = S40
  <2>1. Sync
    BY <1>3, <1>10, Working
  <2>2. PICK broken : /\ Runs(S40, broken)
                      /\ Reports(SyncVerdict(Synced(broken), broken),
                                 Synced(broken))
    BY <2>1 DEF Sync
  <2>3. SyncVerdict(Synced({}), {}) # "passed"
    BY <1>1, <1>5, <2>2
  <2>4. Fits("avatar")
    BY <1>2, <1>10, Numbers
  <2> QED
    BY <1>1, <1>4, <1>10, <2>3, <2>4, SmoothSync
<1>11. CASE stage = S50
  <2>1. stage' = S50 /\ verdict' # "passed"
    <3>1. Caption
      BY <1>3, <1>11, Working
    <3>2. PICK type, out : Reports(type, out)
      BY <3>1 DEF Caption
    <3> QED
      BY <1>3, <1>5, <1>11, <3>2
  <2>2. stage' # G80
    BY <2>1, Numbers
  <2>3. verdict' \in FailureTypes(stage')
    BY <2>1, <2>2 DEF ChainInv, LoopInv
  <2> QED
    BY <2>1, <2>3, Numbers DEF FailureTypes, FacelessRefusals
<1>12. CASE stage = S60
  <2>1. Assemble
    BY <1>3, <1>12, Working
  <2>2. PICK broken : /\ Runs(S60, broken)
                      /\ Reports(AssemblyVerdict(Assembled(broken), broken),
                                 Assembled(broken))
    BY <2>1 DEF Assemble
  <2>3. AssemblyVerdict(Assembled({}), {}) # "passed"
    BY <1>1, <1>5, <2>2
  <2>4. Fits("sync") /\ Of("sync").sound
    BY <1>2, <1>12, Numbers
  <2> QED
    BY <1>1, <1>4, <1>12, <2>3, <2>4, SmoothAssemble
<1>13. CASE stage = S70
  <2>1. Inspect
    BY <1>3, <1>13, Working
  <2>2. PICK judgment, broken :
          /\ Runs(S70, broken)
          /\ Reports(QCVerdict(judgment, broken),
                     Artifact("qc_report", 0, FALSE, 0, FALSE))
    BY <2>1 DEF Inspect
  <2>3. verdict' = QCVerdict(judgment, {}) /\ verdict' # "passed"
    BY <1>1, <1>5, <2>2
  <2>4. Fits("master") /\ Of("master").sound
    BY <1>2, <1>13, Numbers
  <2>5. QCPassed({})
    BY <1>1, <1>4, <1>13, <2>4, SmoothInspect
  <2> QED
    BY <2>3, <2>5 DEF QCVerdict, FacelessRefusals
<1>14. CASE stage = G80
  <2>1. Decide
    BY <1>3, <1>14, Working
  <2> QED
    BY <2>1 DEF Decide, HandsOn, FacelessRefusals
<1>15. CASE stage = G90
  <2>1. Disclose
    BY <1>3, <1>15, Working
  <2>2. PICK out : Reports(DisclosureFailure(StubFlag), out)
    BY <2>1 DEF Disclose
  <2>3. DisclosureFailure(StubFlag) = "passed"
    BY DEF DisclosureFailure, StubFlag
  <2> QED
    BY <1>5, <2>2, <2>3
<1>16. CASE stage = S100
  <2>1. Publish
    BY <1>3, <1>16, Working
  <2> DEFINE there == FirstOfKinds(upstream, {"disclosure"}) # NoRef
  <2>2. StubPublishes(Signed)
    BY <2>1 DEF Publish
  <2>3. PublishFailure(StubPrivacy, Signed, "master", "none") = "passed"
    BY <2>2, SentIsNeverRefused DEF Signed, StubFlag
  <2>4. HandsOn(<<>>)
    BY <2>1, <2>3 DEF Publish
  <2> QED
    BY <2>4 DEF HandsOn
<1> QED
  BY <1>3, <1>6, <1>7, <1>8, <1>9, <1>10, <1>11, <1>12, <1>13, <1>14, <1>15,
     <1>16, Numbers DEF Stages

\* Whatever the script and the speech: a faceless run whose tools work is never
\* refused for what S30, S40 and S60 made of them, nor for what S70 measures, nor
\* by G90 or S100.
THEOREM FacelessRendersHoldAlways == Spec => []FacelessRendersHold
<1> DEFINE Held == failed /\ Smooth => verdict \in FacelessRefusals
<1>1. Init => SmoothInv /\ Held
  BY Numbers DEF Init, SmoothInv
<1>2. ChainInv /\ MediaInv /\ SmoothInv /\ [Next]_vars => SmoothInv'
  BY SmoothStep DEF MediaInv
<1>3. ChainInv /\ ChainInv' /\ MediaInv /\ SmoothInv /\ Held /\ [Next]_vars
        => Held'
  <2> SUFFICES ASSUME ChainInv, ChainInv', MediaInv, SmoothInv, Held, [Next]_vars,
                      failed', Smooth'
               PROVE  verdict' \in FacelessRefusals
    OBVIOUS
  <2>1. CASE ~failed
    BY <2>1, FacelessFailure
  <2>2. CASE failed
    <3>1. UNCHANGED vars
      BY <2>2, EveryMove DEF Moves
    <3> QED
      BY <2>2, <3>1 DEF vars, Smooth
  <2> QED
    BY <2>1, <2>2
<1>4. Held => FacelessRendersHold
  BY DEF FacelessRendersHold, Smooth, FacelessRefusals
<1> QED
  BY <1>1, <1>2, <1>3, <1>4, Chained, MediaHolds, PTL DEF Spec
=============================================================================
