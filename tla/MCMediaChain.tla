----------------------------- MODULE MCMediaChain -----------------------------
(***************************************************************************)
(* MediaChain on small instances.                                          *)
(***************************************************************************)
EXTENDS MediaChain

\* Scripts that leave room for the blanks, fill the cap, and exceed it.
MCScriptLengths == {1498, 1500, 1501}

\* Speech near the fixture's length, near the unfitted title cards' length
\* from either side, and beyond the cap.
MCNarrations == {5600, 14200, 15900, 60000}

\* Faithful, within QC, within the stages' tolerance only, and beyond it.
MCRenderDrifts == {-2600, -600, 0, 1800}

\* Seven words, a full subtitle and one more.
Regular == [i \in 1..7 |-> [start |-> 400 * i, end |-> 400 * i + 300]]

\* Two neighbours squeezed, collapsed, turned round or out of order; words
\* without timestamps; the last word collapsed; too few words; none.
MCTranscripts ==
  {[Regular EXCEPT ![3] = [start |-> s, end |-> e],
                   ![4] = [start |-> t, end |-> 1900]] :
     s \in {1200, 1205}, e \in {1200, 1300}, t \in {1160, 1205, 1260}}
  \cup {[Regular EXCEPT ![7].end = 2800], [Regular EXCEPT ![2].end = Missing],
        SubSeq(Regular, 1, 1), <<>>}
=============================================================================
