-------------------------- MODULE MCRecordingLibrary --------------------------
(* RecordingLibrary with recordings, and lectures of the server, that can  *)
(* be exchanged.                                                           *)
EXTENDS RecordingLibrary, TLC

LibrarySymmetry == Permutations(Recordings) \cup Permutations(Lectures)
=============================================================================
