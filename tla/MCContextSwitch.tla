-------------------------- MODULE MCContextSwitch --------------------------
(* Programs of the kind process_test.c and syscall_test.c have.            *)
EXTENDS ContextSwitch

MCYielding == {"yield", "exit"}
MCForking == {"yield", "fork", "wait", "exit"}
=============================================================================
