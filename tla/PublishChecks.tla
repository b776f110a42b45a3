----------------------------- MODULE PublishChecks -----------------------------
(***************************************************************************)
(* The checks around publishing, as operators: the precondition evaluator  *)
(* of orchestrator/publish_precondition.py, the exit validators of S00,    *)
(* G90 and S100 in orchestrator/stage_executor.py, and what the two        *)
(* publishers themselves refuse.                                           *)
(*                                                                         *)
(* The exit validator of S100 has no approval at hand.  It asks the        *)
(* evaluator all the same and drops each complaint whose wording contains  *)
(* "approval", so the words of a complaint are part of the model.          *)
(***************************************************************************)

\* What contains_synthetic_media may be in a payload: the constant True,
\* something Python takes for true, something it takes for false, no such key.
Flags == {"True", "truthy", "falsy", "absent"}

\* An approval, as an artifact or an object; decision "none" is None.
Approval(decision, hash) == [decision |-> decision, hash |-> hash]
NoDecision(hash) == Approval("none", hash)

\* A disclosure decision; there is FALSE for None.
Disclosure(there, flag) == [there |-> there, flag |-> flag]

Complaints == {"no approval", "not approved", "stale approval", "no disclosure",
               "not synthetic", "privacy", "disclosure not found",
               "disclosed as not synthetic"}

\* Words of a complaint that some check searches for.
WordsOf(complaint) ==
  CASE complaint \in {"no approval", "not approved", "stale approval"}
                                                    -> {"approval"}
    [] complaint \in {"no disclosure", "disclosure not found"}
                                                    -> {"disclosure"}
    [] complaint = "not synthetic"                  -> {"contains_synthetic_media"}
    [] complaint = "disclosed as not synthetic"     -> {"disclosure",
                                                        "contains_synthetic_media"}
    [] OTHER                                        -> {}

\* The complaints of evaluate_publish_preconditions; current is None or "",
\* which is noHash here, or the hash of the master.
Evaluate(approval, disclosure, current, noHash) ==
  {c \in Complaints :
     \/ c = "no approval"    /\ approval.decision = "none"
     \/ c = "not approved"   /\ approval.decision \notin {"none", "approved"}
     \/ c = "stale approval" /\ approval.decision # "none" /\ current # noHash
                             /\ approval.hash # current
     \/ c = "no disclosure"  /\ ~disclosure.there
     \/ c = "not synthetic"  /\ disclosure.there /\ disclosure.flag # "True"}
-----------------------------------------------------------------------------
(* The exit validators *)

\* _validate_s00_intake: the payload is a valid IdeaRequestV1 with a topic.
ValidIntake(wellFormed, topic) == wellFormed /\ topic # "blank"

\* _validate_disclosure_stage: no modality is exempt.
DisclosureFailure(flag) ==
  IF flag = "absent"    THEN "disclosure_missing_synthetic_flag"
  ELSE IF flag # "True" THEN "disclosure_synthetic_flag_false"
  ELSE "passed"

PrivatePrivacy == {"unlisted", "private"}

Public(privacy) ==
  IF privacy \in PrivatePrivacy THEN {} ELSE {"privacy"}

\* "approval" in f.lower()
IsDropped(c) == "approval" \in WordsOf(c)

Surfaced(privacy, disclosure, current, noHash) ==
  Public(privacy)
    \cup {c \in Evaluate(NoDecision(noHash), disclosure, current, noHash) :
            ~IsDropped(c)}

\* The validator's own check after the evaluator's, each complaint only if no
\* other has said the word.
Backstop(disclosure, surfaced) ==
  {c \in Complaints :
     \/ /\ c = "disclosure not found" /\ ~disclosure.there
        /\ \A f \in surfaced : "disclosure" \notin WordsOf(f)
     \/ /\ c = "disclosed as not synthetic"
        /\ disclosure.there /\ disclosure.flag \in {"falsy", "absent"}
        /\ \A f \in surfaced : "contains_synthetic_media" \notin WordsOf(f)}

\* _validate_publish_stage
PublishComplaints(privacy, disclosure, current, noHash) ==
  LET surfaced == Surfaced(privacy, disclosure, current, noHash)
  IN  surfaced \cup Backstop(disclosure, surfaced)

PublishFailure(privacy, disclosure, current, noHash) ==
  IF PublishComplaints(privacy, disclosure, current, noHash) = {}
  THEN "passed" ELSE "publish_precondition_failed"
-----------------------------------------------------------------------------
(* The publishers, which act before their stage is validated *)

\* StubPublishProvider.run gets as far as a receipt.
StubPublishes(disclosure) ==
  disclosure.there /\ disclosure.flag \in {"True", "truthy"}

StubPrivacy == "unlisted"

\* upload_video: the third test can no longer fail.
Uploads(privacy, flag) ==
  /\ flag \in {"True", "truthy"}
  /\ privacy \in PrivatePrivacy
  /\ privacy # "public"
=============================================================================
