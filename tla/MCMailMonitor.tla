--------------------------- MODULE MCMailMonitor ---------------------------
(* A small instance of MailMonitor for TLC.                                *)
EXTENDS MailMonitor
=============================================================================
