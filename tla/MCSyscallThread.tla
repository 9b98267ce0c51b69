-------------------------- MODULE MCSyscallThread --------------------------
(* Constants for the runs of SyscallThread. *)
EXTENDS SyscallThread

\* Kinds whose handlers follow the begin_syscall()/end_syscall() protocol
ProtocolKinds == AllKinds \ {"blocking_splice"}
=============================================================================
