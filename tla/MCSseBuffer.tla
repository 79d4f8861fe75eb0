---------------------------- MODULE MCSseBuffer ----------------------------
(* Up to three frames: with and without a payload, one and two data lines,  *)
(* characters of two bytes at their ends, more empty lines than needed, and *)
(* a last one with or without an end.                                       *)
EXTENDS SseBuffer

X == <<"x1", "x2">>
End1 == <<"nl", "nl">>

Shapes ==
    { <<"data:", "a">> \o X,
      <<"data:">> \o X \o <<"a">>,
      <<"event:", "a", "nl", "data:">> \o X \o X,
      <<"event:", "a">>,
      <<"nl", "data:", "a", "nl", "data:">> \o X,
      <<"data:", "a", "data:", "a">> }

MCBodies ==
    {f \o End1 \o g : f \in Shapes, g \in Shapes} \cup
    {f \o End1 \o g \o <<"nl">> : f \in Shapes, g \in Shapes} \cup
    {f \o End1 \o g \o End1 \o h \o End1 : f \in Shapes, g \in Shapes, h \in Shapes}
=============================================================================
