-------------------------------- MODULE MCVu --------------------------------
(* Lanes of three bits; numbers of either sign, near each other and apart.   *)
EXTENDS Vu

MCRows ==
  {<<[l \in Lane |-> (8 * l + a) - 32], [l \in Lane |-> (8 * l + b) - 32 + c]>> :
     a \in {0, 5}, b \in {2, 5}, c \in {0, 8}}
=============================================================================
