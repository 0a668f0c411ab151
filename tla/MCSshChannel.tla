---------------------------- MODULE MCSshChannel ----------------------------
(* Instances of SshChannel for TLC. *)
EXTENDS SshChannel
=============================================================================
