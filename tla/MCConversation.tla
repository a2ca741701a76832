--------------------------- MODULE MCConversation ---------------------------
(* A conversation of a few short turns: a batch with a question in it, and *)
(* one the loop gives up on.                                               *)
EXTENDS Conversation

MCBatches == {<<"plain", "ask">>, <<"malformed">>}

(* Two questions at once, for a look at what `displaced` excepts: one may  *)
(* be answered while the other is open, and expire behind later messages.  *)
MCTwoQuestions == {<<"ask", "ask">>}

(* Smaller batches, for runs of more turns.                                *)
MCShortBatches == {<<"ask">>, <<"malformed">>}
=============================================================================
