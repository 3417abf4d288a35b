------------------------------- MODULE MCApi -------------------------------
EXTENDS ApiProperties, TLC

CONSTANTS alice, bob, hers, his

\* Every account but his is alice's; bob asks for alice's too.
AliceOwns == [a \in Accounts |-> IF a = his THEN bob ELSE alice]

Symmetry == Permutations(Handlers) \cup Permutations(Keys)
=============================================================================
