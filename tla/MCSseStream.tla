---------------------------- MODULE MCSseStream ----------------------------
(* Reads of one or two frames; a channel for two events. *)
EXTENDS SseStream

MCChunks ==
    { <<"data">>, <<"data", "data">>, <<"skip", "data">>, <<"bad">>,
      <<"data", "bad">>, <<"done">>, <<"data", "done">> }
=============================================================================
