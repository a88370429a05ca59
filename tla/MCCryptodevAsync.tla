-------------------------- MODULE MCCryptodevAsync --------------------------
(* Model checking of CryptodevAsync; the instance is in the .cfg file.     *)
EXTENDS CryptodevAsync, TLC
=============================================================================
