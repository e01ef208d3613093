------------------------------ MODULE Bitfields ------------------------------
(***************************************************************************)
(* What a store into a C++ bit-field of w bits does to an int.  The        *)
(* attribute structures of the library declare their fields as plain       *)
(* "int f : w" (and as enums whose underlying type is int), which GCC and  *)
(* Clang treat as signed: the value read back is the one in                *)
(* -2^(w-1) .. 2^(w-1)-1 congruent to the value stored.                    *)
(***************************************************************************)
EXTENDS Integers

SignedField(w, v) ==
    LET m == v % 2^w
    IN  IF m >= 2^(w - 1) THEN m - 2^w ELSE m

=============================================================================
