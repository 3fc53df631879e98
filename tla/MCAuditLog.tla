----------------------------- MODULE MCAuditLog -----------------------------
(* AuditLog for a process with two threads and one with a single thread: an *)
(* append can meet another one in its own process and in another.           *)
EXTENDS AuditLog, TLC

CONSTANTS cli, dashboard, t1, t2, t3

MCProcs == {cli, dashboard}
MCThreads == {t1, t2, t3}
MCProcOf == t1 :> cli @@ t2 :> cli @@ t3 :> dashboard

NoFaults == {}
=============================================================================
