----------------------------- MODULE MCAgentTurn ----------------------------
(* Instances of AgentTurn for TLC. *)
EXTENDS AgentTurn

CONSTANTS click

MCBrowser == {"open", "snapshot", click}

(* Nothing, or all there is. *)
MCFindings == {{}, MCBrowser}
=============================================================================
