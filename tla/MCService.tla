------------------------------- MODULE MCService -------------------------------
(* Small instances of Service for TLC. *)
EXTENDS Service, TLC

\* Three migrations, of three statements, one and two; only the first.
MCSize == (1 :> 3) @@ (2 :> 1) @@ (3 :> 2)
OneSize == 1 :> 3

===============================================================================
