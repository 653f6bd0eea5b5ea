----------------------------- MODULE MCEnvPatch -----------------------------
(* Small instances of EnvPatch.                                              *)
EXTENDS EnvPatch, TLC

CONSTANTS a, b,      \* names
          x,         \* a value
          r          \* a request

\* The second item undoes what the first did, name by name.  One value is
\* enough: unset and set are two.
TwoItems  == <<(a :> x) @@ (b :> None), (a :> None) @@ (b :> x)>>
OneDirect == (r :> (a :> x))
=============================================================================
