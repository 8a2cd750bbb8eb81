----------------------------- MODULE MCSnprintf -----------------------------
(***************************************************************************)
(* Instances of Snprintf: negative arguments and strings cannot be written *)
(* in a configuration.                                                     *)
(***************************************************************************)
EXTENDS Snprintf

\* As unsigned numbers of 5 bits: 26 (a hexadecimal letter), 16 (the smallest
\* long long, whose magnitude is not a long long) and 0.
MCIntArgs == {-6}
MCLongArgs == {-16, 0}
MCStrings == {<<>>, <<"s", "s">>}
=============================================================================
