---------------------------- MODULE MCJournalLog ----------------------------
(* The journal file for TLC: two processes and the model values of its bytes. *)
EXTENDS JournalLog
=============================================================================
