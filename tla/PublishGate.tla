----------------------------- MODULE PublishGate -----------------------------
(***************************************************************************)
(* What the approval gate promises, without stages, retries or signals:    *)
(* one master video is assembled, one verdict is recorded about a run that *)
(* has a master, and only a master with an approved verdict is released.   *)
(* Neither the master nor the verdict changes afterwards.                  *)
(***************************************************************************)
CONSTANTS Hashes, NoHash

VARIABLES
  master,      \* hash of the assembled video
  verdict,     \* "open", "approved" or "refused"
  released     \* hash of the video that was published

vars == <<master, verdict, released>>

Init ==
  /\ master = NoHash
  /\ verdict = "open"
  /\ released = NoHash

Assemble ==
  /\ master = NoHash
  /\ verdict = "open"
  /\ \E h \in Hashes : master' = h
  /\ UNCHANGED <<verdict, released>>

Decide ==
  /\ master # NoHash
  /\ verdict = "open"
  /\ verdict' \in {"approved", "refused"}
  /\ UNCHANGED <<master, released>>

Release ==
  /\ verdict = "approved"
  /\ released = NoHash
  /\ released' = master
  /\ UNCHANGED <<master, verdict>>

Next == Assemble \/ Decide \/ Release

Spec == Init /\ [][Next]_vars
=============================================================================
