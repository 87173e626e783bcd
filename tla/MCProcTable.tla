----------------------------- MODULE MCProcTable -----------------------------
(* Instances of ProcTable: values a configuration file cannot write.       *)
EXTENDS ProcTable

\* A refused argument and the default.
MCTicketArgs == {-1, 0}
=============================================================================
