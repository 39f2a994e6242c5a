------------------------------- MODULE MCMcp -------------------------------
\* A stdio and an HTTP server, each with a tool of its own, and one that both
\* and the built-in registry have.
EXTENDS Mcp, TLC

CONSTANTS piped, web, own, common

Lists == piped :> {own, common} @@ web :> {common}
=============================================================================
