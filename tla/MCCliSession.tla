---------------------------- MODULE MCCliSession -----------------------------
(* Small instances of CliSession for TLC: every constant is given in the    *)
(* cfg.                                                                     *)
EXTENDS CliSession

=============================================================================
