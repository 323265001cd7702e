---------------------------- MODULE MCCoherence -----------------------------
(* The instance of Cache on which its coherence is checked: one that meets *)
(* the assumptions of the coherence theorems and of StaysInArray.          *)
EXTENDS MCCache

ASSUME InstanceIsSound ==
  AddressesSound /\ AddressesInArray /\ WriteBackAllocate

=============================================================================
