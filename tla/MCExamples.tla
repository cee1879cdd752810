------------------------------ MODULE MCExamples ------------------------------
(***************************************************************************)
(* The examples for TLC.                                                   *)
(***************************************************************************)
EXTENDS Examples

BothPrograms == {"unix", "esp32"}

=============================================================================
