----------------------------- MODULE MCMailQueue -----------------------------
(* MailQueue with two mails, each retried on the board at most once. *)
EXTENDS MailQueue, TLC
=============================================================================
