----------------------------- MODULE MCMcpTools -----------------------------
EXTENDS McpTools

\* A tool of the servers, two shells they may take over, and a built-in
\* tool whose name collides with what they may offer.
MCNames == {"search", "bash", "termux_bash", "ping"}
MCBash == {"bash", "termux_bash"}
MCBuiltin == {"ping"}
MCOffers == {{}, {"search"}, {"search", "termux_bash"}, {"bash", "termux_bash"},
             {"search", "termux_bash", "ping"}}
=============================================================================
