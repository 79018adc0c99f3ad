------------------------- MODULE MCRecordingSession -------------------------
(* Instances of RecordingSession for TLC. Session identifiers are model     *)
(* values and interchangeable; consumers are numbered as they are created.  *)
EXTENDS RecordingSession, TLC

CONSTANTS MaxConsumers, s1, s2

MCSessions == {s1, s2}
OneSession == {s1}
MCConsumers == 1..MaxConsumers
SessionSymmetry == Permutations(MCSessions)
============================================================================
