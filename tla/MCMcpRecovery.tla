---------------------------- MODULE MCMcpRecovery ----------------------------
EXTENDS McpRecovery

\* A tool of the servers and a built-in tool: a server that offers both is
\* refused.
MCNames == {"search", "ping"}
MCBuiltin == {"ping"}
MCOffers == {{"search"}, {"ping"}}
=============================================================================
