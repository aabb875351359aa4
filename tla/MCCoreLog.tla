------------------------------ MODULE MCCoreLog ------------------------------
(* Small instances of CoreLog for TLC: every constant is given in the cfg.  *)
EXTENDS CoreLog

=============================================================================
