----------------------------- MODULE MCProcesses -----------------------------
(* The heap of 16 pages holds three processes of five pages each (PCB, user *)
(* stack, kernel stack) and one page more, the remainder 4096 pages leave.  *)
EXTENDS Processes

MCSysCalls == {"create", "yield", "fork", "wait", "exit", "leave"}
MCSchedule == MCSysCalls \cup {"schedule"}
=============================================================================
