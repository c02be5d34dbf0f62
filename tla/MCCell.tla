------------------------------- MODULE MCCell -------------------------------
EXTENDS Cell, TLC
CONSTANT p1
MCPaths == {p1}
MCModes == {"STANDARD", "CAUTIOUS", "PLAN_ONLY"}
MCApprovers == {"native", "injected"}
=============================================================================
