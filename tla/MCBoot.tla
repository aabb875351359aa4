------------------------------- MODULE MCBoot --------------------------------
(* Small instances of Boot for TLC.                                         *)
EXTENDS Boot

(* ESP32 and STM32, with and without JES_DISABLE_CLI.                       *)
AllBuilds == [cli : BOOLEAN, esp32 : BOOLEAN]

=============================================================================
