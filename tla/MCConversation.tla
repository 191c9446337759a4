--------------------------- MODULE MCConversation ---------------------------
(***************************************************************************)
(* Instances of Conversation for TLC.                                      *)
(***************************************************************************)
EXTENDS MCNormalizer, Conversation

\* The upstream leaves the identifier of two of its calls to the plugin.
MCCallOf ==
  "c" :> [id |-> "", name |-> "look"] @@ "d" :> [id |-> "", name |-> "bash_output"]
  @@ "e" :> [id |-> "e", name |-> "find"]

MCAliases == "bash_output" :> "shell_output" @@ "tool_search" :> "search_tools"

Tool(name) == [type |-> "function", name |-> name]
Choice(type, name) == [type |-> type, name |-> name]

\* A request with everything, one with little, and one with markers and a picture.
MCOpenings ==
  { [system |-> << Text(<<"be brief">>, FALSE) >>, ask |-> << Text(<<"ask">>, FALSE) >>,
     max_tokens |-> 300000, tools |-> << Tool("find"), Tool("bash_output") >>,
     tool_choice |-> Choice("function", "find"), effort |-> "high", cacheKey |-> TRUE],
    [system |-> << >>, ask |-> << Text(<<"ask">>, FALSE) >>, max_tokens |-> 0, tools |-> << >>,
     tool_choice |-> Choice("", ""), effort |-> "", cacheKey |-> TRUE],
    [system |-> << Text(<<"be brief">>, TRUE), Text(<<"be kind">>, FALSE) >>,
     ask |-> << Text(<<"what is">>, TRUE), Part("image", <<"picture">>, FALSE, NoId, "") >>,
     max_tokens |-> 1, tools |-> << Tool("look") >>,
     tool_choice |-> Choice("required", ""), effort |-> "low", cacheKey |-> FALSE] }

End == Line("finish", "", "stop", U(2), 0)

\* Later responses: a text and two calls, one with its own identifier; reasoning alone.
MCFollowUps ==
  { << Line("text-delta", "u", "", << >>, 0), Line("tool-call", "d", "", << >>, 0),
       Line("tool-call", "e", "", << >>, 0), End >>,
    << Line("reasoning-delta", "r", "", << >>, 0), End >> }

=============================================================================
