----------------------------- MODULE MCPipeline -----------------------------
(* Pipeline for TLC: which simple commands are typed and what may fail.    *)
EXTENDS Pipeline

Mixed == {"ext", "builtin", "usage"}

InOut == {"in", "out"}
AllRedirections == {"in", "out", "both_forked"}

NoFaults == {}
CallFaults == {"open", "pipe", "fork"}
=============================================================================
