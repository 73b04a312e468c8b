--------------------------- MODULE MCTranscripts ---------------------------
(* Transcripts on small instances. *)
EXTENDS Transcripts, TLC

\* Flush ids are uuids: whichever is unused stands for any other.
FirstUnused == claim' \in {NULL, claim} \/ claim' = CHOOSE k \in Fresh : TRUE

Interchangeable == Permutations(Flushers) \cup Permutations(Claims)
=============================================================================
