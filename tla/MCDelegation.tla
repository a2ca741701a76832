---------------------------- MODULE MCDelegation ----------------------------
EXTENDS Delegation

\* A chain of three agents.
MCChildren == [a \in {"main", "helper", "expert"} |->
  CASE a = "main" -> {"helper"} [] a = "helper" -> {"expert"} [] OTHER -> {}]
Do(name) == [name |-> name, to |-> "main"]
AskAgent(agent) == [name |-> "call_agent", to |-> agent]
MCBatches == {<<>>, << Do("bash"), Do("bash") >>, << Do("run_code"), Do("read") >>,
              << AskAgent("helper"), AskAgent("expert") >>}
=============================================================================
