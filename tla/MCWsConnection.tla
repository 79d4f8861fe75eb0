--------------------------- MODULE MCWsConnection ---------------------------
(* Reads of one or two frames; two client frames, so two turns, or a turn and *)
(* a frame that interrupts it.                                              *)
EXTENDS WsConnection

MCChunks ==
    { <<"data">>, <<"skip", "data">>, <<"bad", "data">>, <<"data", "done">> }
=============================================================================
