----------------------------- MODULE MCCodeMode -----------------------------
(***************************************************************************)
(* CodeMode with the tools of a code-mode client, of a classic one, and    *)
(* with hosted tools only.                                                 *)
(***************************************************************************)
EXTENDS CodeMode

Tool(type, name) == [type |-> type, name |-> name]
Namespace(name, members) == [type |-> "namespace", name |-> name, tools |-> members]

CodeModeTools ==
    [tools |-> <<>>,
     additional |-> <<Tool("custom", "exec"), Tool("unknown", "hosted"),
                      Namespace("collaboration", <<Tool("function", "spawn_agent")>>),
                      Namespace("mcp", <<Tool("function", "lookup"), Tool("custom", "wait_agent"),
                                         Tool("custom", "query")>>)>>]
ClassicTools ==
    [tools |-> <<Tool("function", "shell"), Tool("apply_patch", ""), Tool("web_search", ""),
                 Tool("custom", "note")>>,
     additional |-> <<>>]
HostedTools == [tools |-> <<Tool("web_search", "")>>, additional |-> <<>>]
\* The same name as a function.
FunctionExec == [tools |-> <<Tool("function", "exec")>>, additional |-> <<>>]

MCDeclarations == {CodeModeTools, ClassicTools, HostedTools, FunctionExec}
MCToolChoices == {[string |-> "auto"], [type |-> "function", name |-> "exec"], [type |-> "apply_patch"],
                  [type |-> "mcp", server_label |-> "mcp", name |-> "lookup"]}
MCSettings ==
    {[allowed |-> {"function"}, max_tools |-> 0], [allowed |-> {"function", "custom"}, max_tools |-> 2],
     [allowed |-> {"custom"}, max_tools |-> 0]}
=============================================================================
