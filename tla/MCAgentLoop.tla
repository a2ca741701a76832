---------------------------- MODULE MCAgentLoop ----------------------------
(* One agent run on a handful of batches: alone, parallel with and without *)
(* a question, serial because of call_agent or run_code, malformed.        *)
EXTENDS LoopThread

MCBatches ==
    {<<"plain">>, <<"plain", "ask", "plain">>, <<"serial", "ask", "plain">>,
     <<"plain", "malformed">>, <<"serial", "malformed">>}
=============================================================================
