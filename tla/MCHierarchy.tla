---------------------------- MODULE MCHierarchy -----------------------------
(* Constants of the model-checking runs of Hierarchy.                      *)
EXTENDS Hierarchy

(* One set per level, so that every line has words of its own: an L1 of    *)
(* two blocks of two words over an L2 of two blocks of four words.         *)
TwoLevels ==
  <<[size |-> 32, associativity |-> 2, block_size |-> 16],
    [size |-> 64, associativity |-> 2, block_size |-> 32]>>

TwoTimes == <<1, 10, 100>>

Policies == [write_through : BOOLEAN, write_allocate : BOOLEAN]

(* Every write policy at the first level over the deployed one at the      *)
(* second, and write through with allocation at both.                      *)
MixedPolicies ==
  {c \in [Levels -> Policies] :
     c[2].write_allocate /\ (c[2].write_through => c[1] = c[2])}

(* cc of both programs, at either level.                                   *)
DeployedPolicies ==
  [Levels -> [write_through : {FALSE}, write_allocate : {TRUE}]]

ASSUME InstanceIsSound == AddressesSound

=============================================================================
