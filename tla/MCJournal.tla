------------------------------ MODULE MCJournal ------------------------------
(* Constants of the run of Journal: two events, files of up to four lines. *)
EXTENDS Journal
=============================================================================
