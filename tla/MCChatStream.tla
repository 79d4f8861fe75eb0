---------------------------- MODULE MCChatStream ----------------------------
(* Chunk shapes and bounds for the runs of ChatStream. *)
EXTENDS ChatStream

Base == [choices |-> TRUE, reasoning |-> FALSE, text |-> FALSE, refusal |-> FALSE,
         has_tools |-> FALSE, tools |-> <<>>, finish |-> "none", usage |-> FALSE]

Start(k, args)  == [index |-> k, id |-> "given", args |-> args]
More(k, args)   == [index |-> k, id |-> "none", args |-> args]

Tools(tools) == [Base EXCEPT !.has_tools = TRUE, !.tools = tools]

MCChunks ==
    { [Base EXCEPT !.reasoning = TRUE],
      [Base EXCEPT !.text = TRUE],
      [Base EXCEPT !.refusal = TRUE],
      [Base EXCEPT !.reasoning = TRUE, !.text = TRUE],
      [Base EXCEPT !.finish = "length"],
      [Base EXCEPT !.choices = FALSE, !.usage = TRUE],
      Tools(<<>>),
      Tools(<<Start(0, "none")>>),
      Tools(<<Start(0, "part")>>),
      Tools(<<Start(1, "end")>>),
      Tools(<<More(0, "part")>>),
      Tools(<<More(1, "end"), More(0, "end")>>),
      Tools(<<Start(0, "part"), Start(1, "part")>>),
      [Tools(<<Start(0, "end")>>) EXCEPT !.text = TRUE],
      [Tools(<<Start(1, "part")>>) EXCEPT !.reasoning = TRUE] }
=============================================================================
