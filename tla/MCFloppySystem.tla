--------------------------- MODULE MCFloppySystem ---------------------------
(***************************************************************************)
(* The instance of FloppySystem that TLC checks: registers of two base-3   *)
(* digits over nine memory cells, two drives of two two-byte sectors, the  *)
(* second one protected.  Data are distinct numbers, so every byte tells   *)
(* where it came from.                                                     *)
(***************************************************************************)
EXTENDS FloppySystem

MCImages == [d \in Drives |-> [o \in 0 .. DiskSize - 1 |-> 10 * (d + 1) + o]]
MCMemory == [a \in Word |-> 30 + a]
MCProtected == {1}
=============================================================================
