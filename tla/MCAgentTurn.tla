---------------------------- MODULE MCAgentTurn ----------------------------
\* Small instances of AgentTurn; each cfg says which modes, entry points and
\* commands it takes.
EXTENDS AgentTurn

\* All tool results succeed; only one-shot runs, which count errors, tell more.
AllOk == [m \in Modes |-> {"ok"}]
TellErrors ==
    [m \in Modes |-> IF m = "headless" THEN {"ok", "error", "denied"} ELSE {"ok"}]
=============================================================================
