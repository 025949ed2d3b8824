------------------------- MODULE ArtifactIngestionMC -------------------------
(* Instances of ArtifactIngestion for TLC. *)
EXTENDS ArtifactIngestion, TLC

CONSTANTS a1, a2, r1, r2, w1, w2

\* Requests are interchangeable, and so are workers and files; no run that
\* uses this symmetry checks a liveness property.
ProcessSymmetry ==
  Permutations(Requests) \cup Permutations(Workers) \cup Permutations(Artifacts)
=============================================================================
