------------------------------ MODULE MCImapMailer ------------------------------
(* A small instance of ImapMailer for TLC. *)
EXTENDS ImapMailer

CONSTANT c1
=============================================================================
