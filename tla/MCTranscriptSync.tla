-------------------------- MODULE MCTranscriptSync --------------------------
(* Three runs of which one is tracked, the first with a question left open; *)
(* a tool called with a text, and a question asked without one.            *)
EXTENDS TranscriptSync

MCArchive == <<[role |-> "user", id |-> 1, call |-> "none", text |-> TRUE],
               [role |-> "agent", id |-> 2, call |-> "quest", text |-> FALSE]>>
MCCalls == {[tool |-> "call", text |-> TRUE], [tool |-> "quest", text |-> FALSE]}
=============================================================================
