----------------------------- MODULE MCFlashPart -----------------------------
(* A chip of four blocks of two bytes: firmware, "flash", "exflash".        *)
EXTENDS FlashPart, TLC

MCAreaStart == ("flash" :> 10) @@ ("exflash" :> 14)
MCAreaLen   == ("flash" :> 4) @@ ("exflash" :> 2)

=============================================================================
