--------------------------- MODULE LibraryConstants ---------------------------
(* What the artifact pipeline and the upload queue of core-api share.      *)
CONSTANTS
  Recordings,   \* identifiers of recordings
  Streams,      \* stream keys of a recording
  NoRecording   \* what an executor without work works on

ASSUME NoRecordingAssumption == NoRecording \notin Recordings
=============================================================================
