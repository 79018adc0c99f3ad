---------------------------- MODULE MCPmEventStream ----------------------------
(* PmEventStream, with the events, restarts and breaks the configuration   *)
(* allows.                                                                 *)
EXTENDS PmEventStream
=============================================================================
