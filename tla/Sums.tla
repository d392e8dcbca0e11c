-------------------------------- MODULE Sums --------------------------------
(***************************************************************************)
(* The sum of the values of a function, which is how the modules add up    *)
(* what the code adds up in a loop: the items of an order, a merchant's    *)
(* share of it, the units that several orders hold.                        *)
(***************************************************************************)
EXTENDS Integers, FiniteSetsExt

SumOf(f) == MapThenSumSet(LAMBDA x : f[x], DOMAIN f)

=============================================================================
