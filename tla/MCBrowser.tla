----------------------------- MODULE MCBrowser -----------------------------
(***************************************************************************)
(* Browser on its own for TLC: one tab and one session are enough to send  *)
(* a tab round the pages without the user.                                 *)
(***************************************************************************)
EXTENDS Browser

=============================================================================
