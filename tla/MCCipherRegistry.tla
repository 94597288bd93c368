-------------------------- MODULE MCCipherRegistry --------------------------
(***************************************************************************)
(* Values of the constants of CipherRegistry for TLC.                      *)
(***************************************************************************)
EXTENDS CipherRegistry

\* Spellings of the protocol 1 names that only strcasecmp folds.
MCUpperCaseOf == ("DES" :> "des") @@ ("3DES" :> "3des") @@ ("Blowfish" :> "blowfish")
=============================================================================
