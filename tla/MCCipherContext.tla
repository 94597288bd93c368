-------------------------- MODULE MCCipherContext --------------------------
(***************************************************************************)
(* CipherContext for TLC: the values of the constants that are not plain   *)
(* sets of model values.                                                   *)
(***************************************************************************)
EXTENDS CipherContext

\* The spellings cipher_number is asked about that are not lower case.
MCUpperCaseOf == [n \in {"3DES", "Blowfish"} |-> IF n = "3DES" THEN "3des" ELSE "blowfish"]

\* The first counter value and the last one before the counter wraps.
MCIVs == {0, CtrModulus - 1}
=============================================================================
