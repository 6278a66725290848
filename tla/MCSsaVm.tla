-------------------------------- MODULE MCSsaVm -------------------------------
(***************************************************************************)
(* Model-checking instance of SsaVm.  Two names, so that a later statement *)
(* can read an earlier one and one variable can be assigned twice; two     *)
(* literals, one of which overflows when added or multiplied.  The VM's    *)
(* int32 arithmetic is checked at 8 bits: the lowering never looks at the  *)
(* width, and 8-bit products stay inside TLC's integers.                  *)
(***************************************************************************)
EXTENDS SsaVm

MCNames == {"a", "b"}
MCNums == {3, 100}
=============================================================================
