-------------------------- MODULE MCCipherChannel --------------------------
(***************************************************************************)
(* Values of the constants of CipherChannel for TLC.                       *)
(***************************************************************************)
EXTENDS CipherChannel

\* No name of these runs is spelled in upper case.
MCUpperCaseOf == << >>

\* The first and the last value of a counter.
MCIVs == {0, CtrModulus - 1}
=============================================================================
