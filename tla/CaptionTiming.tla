---------------------------- MODULE CaptionTiming ----------------------------
(***************************************************************************)
(* Word timestamps of stage S50: the repair that the Whisper provider      *)
(* makes before it stores them, the exit validator that judges them, and   *)
(* the subtitle cues that assembly (S60) cuts out of them.                 *)
(*                                                                         *)
(* Times are whole milliseconds; the code computes in seconds.             *)
(***************************************************************************)
EXTENDS Integers, Sequences

Missing == -1                     \* None
Timestamps == Nat \cup {Missing}
Words == [start : Timestamps, end : Timestamps]

MinWordDuration  == 50            \* MIN_WORD_DURATION_SECONDS
SafetyMargin     == 10            \* SAFETY_MARGIN_SECONDS
Epsilon          == 1             \* MIN_NONDEGENERATE_EPSILON
OverlapTolerance == 50            \* OVERLAP_TOLERANCE_SECONDS
CueSize          == 6             \* chunk_size

Smaller(a, b) == IF a < b THEN a ELSE b
Greater(a, b) == IF a < b THEN b ELSE a
-----------------------------------------------------------------------------
(* OpenAIWhisperCaptionsProvider.run *)

Complete(w) == w.start # Missing /\ w.end # Missing

\* Forced alignment has collapsed the word, or turned it round.
Degenerate(w) == Complete(w) /\ w.end <= w.start

\* Faulty variant: the clamp to the next word is the last word.
RepairedEndClamped(start, next) ==
  IF next = Missing THEN start + MinWordDuration
  ELSE Smaller(start + MinWordDuration, next - SafetyMargin)

\* The end a degenerate word gets: a short word, pulled in front of the next
\* one, but never so far that nothing is left of it.
RepairedEnd(start, next) ==
  LET wanted == start + MinWordDuration
      room   == IF next = Missing THEN wanted
                ELSE Smaller(wanted, next - SafetyMargin)
  IN  Greater(room, start + Epsilon)

\* raw_words[i + 1].start, None behind the last word.
NextStart(words, i) ==
  IF i < Len(words) THEN words[i + 1].start ELSE Missing

Repair(words) ==
  [i \in 1..Len(words) |->
     IF Degenerate(words[i])
     THEN [words[i] EXCEPT !.end = RepairedEnd(words[i].start,
                                               NextStart(words, i))]
     ELSE words[i]]
-----------------------------------------------------------------------------
(* validate_captions *)

WellTimed(words) ==
  \A i \in 1..Len(words) :
    Complete(words[i]) /\ words[i].start < words[i].end

Apart(words) ==
  \A i \in 1..(Len(words) - 1) :
    words[i].end # Missing /\ words[i + 1].start # Missing
      => words[i].end <= words[i + 1].start + OverlapTolerance

\* Between 0.3 and 6 words a second; not looked at without an audio duration.
PlausibleRate(words, audio) ==
  audio > 0 => /\ 10000 * Len(words) >= 3 * audio
               /\ 1000 * Len(words) <= 6 * audio

ValidCaptions(words, audio) ==
  /\ Len(words) > 0
  /\ WellTimed(words)
  /\ Apart(words)
  /\ PlausibleRate(words, audio)
-----------------------------------------------------------------------------
(* _words_to_srt *)

CueCount(words) == (Len(words) + CueSize - 1) \div CueSize

FirstOf(k) == CueSize * (k - 1) + 1
LastOf(words, k) == Smaller(CueSize * k, Len(words))

\* Faulty variant: the cue ends where its last word starts.
CueWithoutLastWord(words, k) == [from |-> words[FirstOf(k)].start,
                                 to   |-> words[LastOf(words, k)].start]

\* A subtitle line of up to six words: shown from the first to the last.
Cue(words, k) == [from |-> words[FirstOf(k)].start,
                  to   |-> words[LastOf(words, k)].end]
-----------------------------------------------------------------------------
(* What the repair is for *)

\* The transcription's starts do not run backwards by as much as the overlap
\* tolerance, and words that have a duration of their own do not overlap.
Orderly(words) ==
  /\ \A i \in 1..Len(words) : Complete(words[i])
  /\ \A i \in 1..(Len(words) - 1) :
       /\ words[i].start < words[i + 1].start + OverlapTolerance
       /\ ~Degenerate(words[i])
            => words[i].end <= words[i + 1].start + OverlapTolerance

Ordered(words) ==
  \A i, j \in 1..Len(words) : i <= j => words[i].start <= words[j].start
=============================================================================
