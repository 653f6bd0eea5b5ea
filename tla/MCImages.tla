------------------------------ MODULE MCImages ------------------------------
(* Small instances of Images, with the settings its requests read.           *)
EXTENDS Images, TLC

CONSTANTS p, q,      \* threads that serve requests
          i1, i2     \* images
=============================================================================
