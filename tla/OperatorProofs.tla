--------------------------- MODULE OperatorProofs ---------------------------
(***************************************************************************)
(* Theorems about the three modules that are operators only, for every     *)
(* input: the word timestamps of CaptionTiming, the checks of              *)
(* PublishChecks and the schema changes of ContractDrift.                  *)
(***************************************************************************)
EXTENDS CaptionTiming, PublishChecks, ContractDrift, TLAPS

(* CaptionTiming.  The comment above the repair says that repairing a      *)
(* collapsed word "is more reliable than hoping a retry gets lucky".       *)
(* RepairPassesTiming is what that comes to: an orderly transcription,     *)
(* once repaired, has no timing fault left for the validator to find.      *)

\* Sequences of the same length with the same members are equal.
LEMMA SameMembers ==
  ASSUME NEW S, NEW s \in Seq(S), NEW t \in Seq(S), Len(s) = Len(t),
         \A i \in 1..Len(s) : s[i] = t[i]
  PROVE  s = t
  OBVIOUS

\* A repaired word lasts at least a millisecond: "the one thing this repair
\* must never sacrifice", whatever the next word's timestamp is.
LEMMA RepairedEndIsLater ==
  ASSUME NEW s \in Nat, NEW n \in Timestamps
  PROVE  RepairedEnd(s, n) \in Nat /\ s < RepairedEnd(s, n)
  BY DEF RepairedEnd, Greater, Smaller, Timestamps, Missing, MinWordDuration,
         SafetyMargin, Epsilon

\* The clamp keeps a repaired word within the overlap tolerance of the next
\* one, unless the next one starts earlier by that tolerance or more.
LEMMA RepairedEndIsApart ==
  ASSUME NEW s \in Nat, NEW n \in Nat, s < n + OverlapTolerance
  PROVE  RepairedEnd(s, n) <= n + OverlapTolerance
  BY DEF RepairedEnd, Greater, Smaller, Missing, MinWordDuration, SafetyMargin,
         Epsilon, OverlapTolerance

\* The repair keeps every start, and every end that came after its start.
LEMMA RepairedWords ==
  ASSUME NEW words \in Seq(Words)
  PROVE  /\ Repair(words) \in Seq(Words)
         /\ Len(Repair(words)) = Len(words)
         /\ \A i \in 1..Len(words) :
              /\ Repair(words)[i].start = words[i].start
              /\ ~Degenerate(words[i]) => Repair(words)[i] = words[i]
              /\ Degenerate(words[i])
                   => Repair(words)[i].end = RepairedEnd(words[i].start,
                                                         NextStart(words, i))
<1> DEFINE R(i) == IF Degenerate(words[i])
                   THEN [words[i] EXCEPT !.end = RepairedEnd(words[i].start,
                                                             NextStart(words, i))]
                   ELSE words[i]
<1>1. Repair(words) = [i \in 1..Len(words) |-> R(i)]
  BY DEF Repair
<1>2. ASSUME NEW i \in 1..Len(words)
      PROVE  /\ words[i] \in Words
             /\ NextStart(words, i) \in Timestamps
  <2>1. words[i] \in Words
    OBVIOUS
  <2>2. CASE i < Len(words)
    <3>1. i + 1 \in 1..Len(words)
      BY <2>2
    <3>2. words[i + 1] \in Words
      BY <3>1
    <3> QED BY <2>1, <2>2, <3>2 DEF NextStart, Words
  <2>3. CASE ~(i < Len(words))
    BY <2>1, <2>3 DEF NextStart, Timestamps
  <2> QED BY <2>2, <2>3
<1>3. ASSUME NEW i \in 1..Len(words)
      PROVE  R(i) \in Words
  <2>1. CASE Degenerate(words[i])
    <3>1. words[i].start \in Nat
      BY <1>2, <2>1 DEF Degenerate, Complete, Words, Timestamps
    <3>2. RepairedEnd(words[i].start, NextStart(words, i)) \in Timestamps
      BY <1>2, <3>1, RepairedEndIsLater DEF Timestamps
    <3> QED BY <1>2, <2>1, <3>2 DEF Words
  <2>2. CASE ~Degenerate(words[i])
    BY <1>2, <2>2
  <2> QED BY <2>1, <2>2
<1>4. Repair(words) \in [1..Len(words) -> Words]
  BY <1>1, <1>3
<1>5. Len(words) \in Nat
  OBVIOUS
<1>6. Repair(words) \in Seq(Words) /\ Len(Repair(words)) = Len(words)
  BY <1>4, <1>5
<1>7. ASSUME NEW i \in 1..Len(words)
      PROVE  /\ Repair(words)[i].start = words[i].start
             /\ ~Degenerate(words[i]) => Repair(words)[i] = words[i]
             /\ Degenerate(words[i])
                  => Repair(words)[i].end = RepairedEnd(words[i].start,
                                                        NextStart(words, i))
  <2>1. Repair(words)[i] = R(i)
    BY <1>1
  <2> QED BY <2>1, <1>2 DEF Words
<1> QED BY <1>6, <1>7

\* No word is left collapsed or turned round, whatever was transcribed.
THEOREM RepairLeavesNoneDegenerate ==
  ASSUME NEW words \in Seq(Words), NEW i \in 1..Len(words)
  PROVE  ~Degenerate(Repair(words)[i])
<1>1. words[i] \in Words
  OBVIOUS
<1>2. CASE Degenerate(words[i])
  <2>1. words[i].start \in Nat
    BY <1>1, <1>2 DEF Degenerate, Complete, Words, Timestamps
  <2>2. NextStart(words, i) \in Timestamps
    <3>1. CASE i < Len(words)
      <4>1. i + 1 \in 1..Len(words)
        BY <3>1
      <4>2. words[i + 1] \in Words
        BY <4>1
      <4> QED BY <3>1, <4>2 DEF NextStart, Words
    <3>2. CASE ~(i < Len(words))
      BY <3>2 DEF NextStart, Timestamps
    <3> QED BY <3>1, <3>2
  <2>3. Repair(words)[i].start = words[i].start
    BY RepairedWords
  <2>4. Repair(words)[i].end = RepairedEnd(words[i].start, NextStart(words, i))
    BY <1>2, RepairedWords
  <2> QED BY <2>1, <2>2, <2>3, <2>4, RepairedEndIsLater DEF Degenerate
<1>3. CASE ~Degenerate(words[i])
  BY <1>3, RepairedWords
<1> QED BY <1>2, <1>3

\* A transcription in order has no timing fault left once it is repaired: each
\* word has both timestamps and a length, and none runs into the next by more
\* than the tolerance.
THEOREM RepairPassesTiming ==
  ASSUME NEW words \in Seq(Words), Orderly(words)
  PROVE  WellTimed(Repair(words)) /\ Apart(Repair(words))
<1> DEFINE fixed == Repair(words)
<1>1. /\ fixed \in Seq(Words)
      /\ Len(fixed) = Len(words)
      /\ \A i \in 1..Len(words) : fixed[i].start = words[i].start
  BY RepairedWords
<1>2. \A i \in 1..Len(words) : /\ words[i] \in Words
                              /\ words[i].start \in Nat
                              /\ words[i].end \in Nat
  <2> SUFFICES ASSUME NEW i \in 1..Len(words)
               PROVE  /\ words[i] \in Words
                      /\ words[i].start \in Nat
                      /\ words[i].end \in Nat
    OBVIOUS
  <2>1. words[i] \in Words
    OBVIOUS
  <2>2. Complete(words[i])
    BY DEF Orderly
  <2> QED BY <2>1, <2>2 DEF Complete, Words, Timestamps
<1>3. \A i \in 1..Len(words) : fixed[i].end \in Nat
  <2> SUFFICES ASSUME NEW i \in 1..Len(words)
               PROVE  fixed[i].end \in Nat
    OBVIOUS
  <2>1. CASE Degenerate(words[i])
    <3>1. NextStart(words, i) \in Timestamps
      BY <1>2 DEF NextStart, Timestamps
    <3>2. fixed[i].end = RepairedEnd(words[i].start, NextStart(words, i))
      BY <2>1, RepairedWords
    <3> QED BY <1>2, <3>1, <3>2, RepairedEndIsLater
  <2>2. CASE ~Degenerate(words[i])
    BY <1>2, <2>2, RepairedWords
  <2> QED BY <2>1, <2>2
<1>4. WellTimed(fixed)
  <2> SUFFICES ASSUME NEW i \in 1..Len(words)
               PROVE  Complete(fixed[i]) /\ fixed[i].start < fixed[i].end
    BY <1>1 DEF WellTimed
  <2>1. Complete(fixed[i])
    BY <1>1, <1>2, <1>3 DEF Complete, Missing
  <2>2. ~Degenerate(fixed[i])
    BY RepairLeavesNoneDegenerate
  <2> QED BY <1>1, <1>2, <1>3, <2>1, <2>2 DEF Degenerate
<1>5. Apart(fixed)
  <2> SUFFICES ASSUME NEW i \in 1..(Len(words) - 1)
               PROVE  fixed[i].end <= fixed[i + 1].start + OverlapTolerance
    BY <1>1 DEF Apart
  <2>1. i \in 1..Len(words) /\ i + 1 \in 1..Len(words) /\ i < Len(words)
    OBVIOUS
  <2>2. NextStart(words, i) = words[i + 1].start
    BY <2>1 DEF NextStart
  <2>3. CASE Degenerate(words[i])
    <3>1. fixed[i].end = RepairedEnd(words[i].start, words[i + 1].start)
      BY <2>1, <2>2, <2>3, RepairedWords
    <3>2. words[i].start < words[i + 1].start + OverlapTolerance
      BY DEF Orderly
    <3> QED BY <1>1, <1>2, <2>1, <3>1, <3>2, RepairedEndIsApart
  <2>4. CASE ~Degenerate(words[i])
    <3>1. fixed[i] = words[i]
      BY <2>1, <2>4, RepairedWords
    <3>2. words[i].end <= words[i + 1].start + OverlapTolerance
      BY <2>4 DEF Orderly
    <3> QED BY <1>1, <2>1, <3>1, <3>2
  <2> QED BY <2>3, <2>4
<1> QED BY <1>4, <1>5

\* Repairing twice is repairing once: captions read back and repaired again
\* would be the same.
THEOREM RepairIsStable ==
  ASSUME NEW words \in Seq(Words)
  PROVE  Repair(Repair(words)) = Repair(words)
<1>1. Repair(words) \in Seq(Words)
  BY RepairedWords
<1>2. Len(Repair(words)) = Len(words) /\ Len(words) \in Nat
  BY RepairedWords
<1>3. \A i \in 1..Len(Repair(words)) :
        Repair(Repair(words))[i] = Repair(words)[i]
  BY <1>1, <1>2, RepairLeavesNoneDegenerate, RepairedWords
<1>4. /\ Repair(Repair(words)) \in Seq(Words)
      /\ Len(Repair(Repair(words))) = Len(Repair(words))
  BY <1>1, RepairedWords
<1> QED BY <1>1, <1>3, <1>4, SameMembers

\* Every subtitle of captions that passed is on screen for a while, as long as
\* the words start in order.
THEOREM CuesLast ==
  ASSUME NEW words \in Seq(Words), WellTimed(words), Ordered(words),
         NEW k \in 1..CueCount(words)
  PROVE  Cue(words, k).from < Cue(words, k).to
<1> DEFINE n == Len(words)
           a == FirstOf(k)
           b == LastOf(words, k)
<1>1. n \in Nat
  OBVIOUS
<1>2. CueSize * (k - 1) + 1 <= n
  BY <1>1 DEF CueCount, CueSize
<1>3. a \in 1..n /\ b \in 1..n /\ a <= b
  BY <1>1, <1>2 DEF FirstOf, LastOf, Smaller, CueSize
<1>4. words[a].start <= words[b].start
  BY <1>3 DEF Ordered
<1>5. words[b].start < words[b].end /\ Complete(words[b])
  BY <1>3 DEF WellTimed
<1>6. words[a] \in Words /\ words[b] \in Words
  BY <1>3
<1>7. words[a].start \in Int /\ words[b].start \in Int /\ words[b].end \in Int
  BY <1>6 DEF Words, Timestamps, Missing
<1>8. words[a].start < words[b].end
  BY <1>4, <1>5, <1>7
<1> QED BY <1>8 DEF Cue
-----------------------------------------------------------------------------
(* PublishChecks: the check of S100, made by dropping complaints with a    *)
(* word in them, is the evaluator's own; the two gates agree; and what a   *)
(* publisher sends, the validator accepts.                                 *)

\* Which complaints the validator of S100 drops, and which it keeps.
LEMMA DroppedAreApproval ==
  \A c \in Complaints :
    IsDropped(c) <=> c \in {"no approval", "not approved", "stale approval"}
  BY DEF Complaints, IsDropped, WordsOf

\* The evaluator's complaints that S100 gets to see are the two about the
\* disclosure decision.
LEMMA SurfacedComplaints ==
  ASSUME NEW privacy, NEW d \in [there : BOOLEAN, flag : Flags],
         NEW current, NEW noHash
  PROVE  Surfaced(privacy, d, current, noHash) =
           Public(privacy)
             \cup {c \in {"no disclosure", "not synthetic"} :
                     IF c = "no disclosure" THEN ~d.there
                     ELSE d.there /\ d.flag # "True"}
<1>1. \A c \in Complaints :
        c \in Evaluate(NoDecision(noHash), d, current, noHash) /\ ~IsDropped(c)
          <=> \/ c = "no disclosure" /\ ~d.there
              \/ c = "not synthetic" /\ d.there /\ d.flag # "True"
  BY DroppedAreApproval DEF Evaluate, Complaints, Approval, NoDecision
<1>2. Evaluate(NoDecision(noHash), d, current, noHash) \subseteq Complaints
  BY DEF Evaluate
<1>3. {"no disclosure", "not synthetic"} \subseteq Complaints
  BY DEF Complaints
<1> QED
  BY <1>1, <1>2, <1>3 DEF Surfaced

\* The validator's own check never has anything to add: the evaluator has said
\* the word first.
THEOREM BackstopIsIdle ==
  ASSUME NEW privacy, NEW d \in [there : BOOLEAN, flag : Flags],
         NEW current, NEW noHash
  PROVE  PublishComplaints(privacy, d, current, noHash)
           = Surfaced(privacy, d, current, noHash)
<1> DEFINE surfaced == Surfaced(privacy, d, current, noHash)
<1>1. surfaced =
        Public(privacy)
          \cup {c \in {"no disclosure", "not synthetic"} :
                  IF c = "no disclosure" THEN ~d.there
                  ELSE d.there /\ d.flag # "True"}
  BY SurfacedComplaints
<1>2. ~d.there => "no disclosure" \in surfaced
  BY <1>1
<1>3. d.there /\ d.flag # "True" => "not synthetic" \in surfaced
  BY <1>1
<1> HIDE DEF surfaced
<1>4. /\ "disclosure" \in WordsOf("no disclosure")
      /\ "contains_synthetic_media" \in WordsOf("not synthetic")
  BY DEF WordsOf
<1>5. Backstop(d, surfaced) = {}
  BY <1>2, <1>3, <1>4 DEF Backstop
<1> QED
  BY <1>5 DEF PublishComplaints, surfaced

\* S100 passes just when the privacy is one of the two and the whole evaluator,
\* given an approval of the current master, would have passed: nothing about the
\* disclosure is lost with the complaints that are dropped for their wording.
THEOREM PublishIsThePrecondition ==
  ASSUME NEW privacy, NEW d \in [there : BOOLEAN, flag : Flags],
         NEW current, NEW noHash
  PROVE  PublishFailure(privacy, d, current, noHash) = "passed"
           <=> /\ privacy \in PrivatePrivacy
               /\ Evaluate(Approval("approved", current), d, current, noHash) = {}
<1>1. Evaluate(Approval("approved", current), d, current, noHash) = {}
        <=> d.there /\ d.flag = "True"
  BY DEF Evaluate, Complaints, Approval
<1> DEFINE kept == {c \in {"no disclosure", "not synthetic"} :
                      IF c = "no disclosure" THEN ~d.there
                      ELSE d.there /\ d.flag # "True"}
<1>2. Surfaced(privacy, d, current, noHash) = Public(privacy) \cup kept
  BY SurfacedComplaints
<1>3. Public(privacy) = {} <=> privacy \in PrivatePrivacy
  BY DEF Public
<1>4. kept = {} <=> d.there /\ d.flag = "True"
  <2>1. /\ "no disclosure" \in kept <=> ~d.there
        /\ "not synthetic" \in kept <=> d.there /\ d.flag # "True"
    OBVIOUS
  <2>2. kept \subseteq {"no disclosure", "not synthetic"}
    OBVIOUS
  <2> HIDE DEF kept
  <2> QED
    BY <2>1, <2>2
<1> HIDE DEF kept
<1>5. Surfaced(privacy, d, current, noHash) = {}
        <=> privacy \in PrivatePrivacy /\ d.there /\ d.flag = "True"
  BY <1>2, <1>3, <1>4
<1> QED
  BY <1>1, <1>5, BackstopIsIdle DEF PublishFailure

\* The evaluator lets nothing pass but an approval, of the current master if
\* there is one, together with a disclosure of synthetic media.
THEOREM EvaluatorIsStrict ==
  ASSUME NEW a, NEW d, NEW current, NEW noHash,
         Evaluate(a, d, current, noHash) = {}
  PROVE  /\ a.decision = "approved"
         /\ current # noHash => a.hash = current
         /\ d.there /\ d.flag = "True"
  BY DEF Evaluate, Complaints

\* The two gates agree: a disclosure that G90 let pass is one that S100 accepts,
\* and S100 accepts no other.
THEOREM GatesAgree ==
  ASSUME NEW privacy \in PrivatePrivacy, NEW flag \in Flags,
         NEW current, NEW noHash
  PROVE  DisclosureFailure(flag) = "passed"
           <=> PublishFailure(privacy, Disclosure(TRUE, flag), current, noHash)
                 = "passed"
<1>1. Disclosure(TRUE, flag) \in [there : BOOLEAN, flag : Flags]
  BY DEF Disclosure
<1>2. PublishFailure(privacy, Disclosure(TRUE, flag), current, noHash) = "passed"
        <=> Evaluate(Approval("approved", current), Disclosure(TRUE, flag),
                     current, noHash) = {}
  BY <1>1, PublishIsThePrecondition
<1>3. Evaluate(Approval("approved", current), Disclosure(TRUE, flag), current,
               noHash) = {}
        <=> flag = "True"
  BY DEF Evaluate, Complaints, Approval, Disclosure
<1> QED
  BY <1>2, <1>3 DEF DisclosureFailure, Flags

\* S100 is validated when the publisher has already acted.  For a flag that is a
\* Boolean, as pydantic makes it, neither publisher acts on what the validator
\* then refuses: no video is sent first and found wrong afterwards.
THEOREM SentIsNeverRefused ==
  ASSUME NEW privacy, NEW flag \in {"True", "falsy"}, NEW there \in BOOLEAN,
         NEW current, NEW noHash
  PROVE  LET d == Disclosure(there, flag)
         IN  /\ StubPublishes(d)
                  => PublishFailure(StubPrivacy, d, current, noHash) = "passed"
             /\ there /\ Uploads(privacy, flag)
                  => PublishFailure(privacy, d, current, noHash) = "passed"
<1> DEFINE d == Disclosure(there, flag)
<1>1. d \in [there : BOOLEAN, flag : Flags]
  BY DEF Flags, Disclosure
<1>2. ASSUME d.there, d.flag = "True", NEW p \in PrivatePrivacy
      PROVE  PublishFailure(p, d, current, noHash) = "passed"
  <2>1. Evaluate(Approval("approved", current), d, current, noHash) = {}
    BY <1>2 DEF Evaluate, Complaints, Approval
  <2> QED
    BY <1>1, <2>1, PublishIsThePrecondition
<1>3. StubPublishes(d) => d.there /\ d.flag = "True"
  BY DEF StubPublishes, Disclosure
<1>4. StubPrivacy \in PrivatePrivacy
  BY DEF StubPrivacy, PrivatePrivacy
<1>5. there /\ Uploads(privacy, flag)
        => d.there /\ d.flag = "True" /\ privacy \in PrivatePrivacy
  BY DEF Uploads, Disclosure
<1> QED
  BY <1>2, <1>3, <1>4, <1>5
-----------------------------------------------------------------------------
(* ContractDrift: what the verdict ADDITIVE_ONLY is worth *)

\* classify_contract_drift.py:241 concludes that "v1 readers of M0-era documents
\* still validate": a document that the old schema accepts is accepted by the
\* new one, provided no property that said nothing of its type or its values
\* has begun to.
THEOREM AdditiveKeepsDocuments ==
  ASSUME NEW Names, NEW Types, NEW Values, NEW old, NEW new, NEW doc,
         IsSchema(old, Names, Types, Values),
         IsSchema(new, Names, Types, Values),
         AdditiveOnly(old, new), NoNewConstraint(old, new),
         Accepts(old, doc)
  PROVE  Accepts(new, doc)
<1>1. /\ Removed(old, new) = {} /\ NewlyRequired(old, new) = {}
      /\ TypeNarrowed(old, new) = {} /\ EnumRemoved(old, new) = {}
  BY DEF AdditiveOnly, Breaking
<1>2. new.req \subseteq DOMAIN doc
  BY <1>1 DEF NewlyRequired, Accepts
<1>3. DOMAIN doc \subseteq new.props
  BY <1>1 DEF Removed, Accepts
<1>4. ASSUME NEW n \in DOMAIN doc
      PROVE  /\ new.types[n] # {} => doc[n].type \in new.types[n]
             /\ new.enum[n] # {} => doc[n].value \in new.enum[n]
  <2>1. n \in Surviving(old, new)
    BY <1>3 DEF Surviving, Accepts
  <2>2. old.types[n] = {} => new.types[n] = {}
    BY <2>1 DEF NoNewConstraint
  <2>3. old.enum[n] = {} => new.enum[n] = {}
    BY <2>1 DEF NoNewConstraint
  <2>4. old.types[n] # {} /\ new.types[n] # {} =>
          old.types[n] \subseteq new.types[n]
    BY <1>1, <2>1 DEF TypeNarrowed
  <2>5. old.enum[n] \subseteq new.enum[n]
    BY <1>1, <2>1 DEF EnumRemoved
  <2>6. /\ old.types[n] # {} => doc[n].type \in old.types[n]
        /\ old.enum[n] # {} => doc[n].value \in old.enum[n]
    BY DEF Accepts
  <2> QED
    BY <2>2, <2>3, <2>4, <2>5, <2>6
<1> QED
  BY <1>2, <1>3, <1>4 DEF Accepts

\* Without that proviso the conclusion is wrong: a free string that becomes an
\* enum is reported as "enum values added", an additive change, and a document
\* of the old version is refused.
THEOREM NewEnumGoesUnnoticed ==
  ASSUME NEW n, NEW t, NEW a, NEW b, a # b
  PROVE  \E old, new, doc :
           /\ IsSchema(old, {n}, {t}, {a, b}) /\ IsSchema(new, {n}, {t}, {a, b})
           /\ AdditiveOnly(old, new)
           /\ Accepts(old, doc) /\ ~ Accepts(new, doc)
<1> DEFINE old == [props |-> {n}, req |-> {}, types |-> [x \in {n} |-> {t}],
                   enum |-> [x \in {n} |-> {}]]
           new == [props |-> {n}, req |-> {}, types |-> [x \in {n} |-> {t}],
                   enum |-> [x \in {n} |-> {a}]]
           doc == [x \in {n} |-> [type |-> t, value |-> b]]
<1>1. IsSchema(old, {n}, {t}, {a, b}) /\ IsSchema(new, {n}, {t}, {a, b})
  BY DEF IsSchema
<1>2. AdditiveOnly(old, new)
  BY DEF AdditiveOnly, Breaking, Removed, NewlyRequired, AddedRequired,
         TypeNarrowed, EnumRemoved, Surviving
<1>3. Accepts(old, doc)
  BY DEF Accepts
<1>4. ~ Accepts(new, doc)
  BY DEF Accepts
<1> QED
  BY <1>1, <1>2, <1>3, <1>4
=============================================================================
