---------------------------- MODULE MailboxSyncMC ----------------------------
(***************************************************************************)
(* The instance of MailboxSync for TLC: two processes and two keys over    *)
(* one message make the leases, the locks and the cursors of generations   *)
(* meet.  The processes differ only in name, but the fairness of each is   *)
(* stated on its own, so no symmetry is declared.                          *)
(***************************************************************************)
EXTENDS MailboxSync

=============================================================================
