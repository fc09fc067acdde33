------------------------------- MODULE Nothing -------------------------------
(* The value None of the modules of the management client.                    *)
CONSTANT None
=============================================================================
