---------------------------- MODULE MCAgentFiles ----------------------------
(***************************************************************************)
(* Requests on agent x, on a second one of that name and on agent y.       *)
(***************************************************************************)
EXTENDS AgentFiles

x1 == <<"x", 1>>
y1 == <<"y", 1>>
MCNames == {"x", "y"}
MCAsks ==
  [kind: {"create"}, name: {"x"}]
  \cup [kind: {"save"}, id: {x1, y1}, fields: {{"user"}, {"password"}}]
  \cup [kind: {"toggle"}, id: {x1}, on: {FALSE}]
  \cup [kind: {"rename"}, id: {x1}, name: {"y"}]
  \cup [kind: {"delete"}, id: {x1}]
  \cup [kind: {"reset"}]
=============================================================================
