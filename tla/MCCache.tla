------------------------------ MODULE MCCache -------------------------------
(* Constants of the model-checking runs of Cache.                          *)
EXTENDS Cache

(* Every combination of the write policies, with the LRU replacement.      *)
LRUConfigs ==
  [write_through : BOOLEAN, write_allocate : BOOLEAN, r_policy : {"LRU"}]

(* cc of both programs: write back, write allocate, LRU.                   *)
DeployedConfig ==
  [write_through : {FALSE}, write_allocate : {TRUE}, r_policy : {"LRU"}]

(* The same with a replacement policy that get_replacementID does not know. *)
FifoConfig ==
  [write_through : {FALSE}, write_allocate : {TRUE}, r_policy : {"FIFO"}]

(* Everything the constructor accepts of LRU, and one other policy.        *)
MixedConfigs == LRUConfigs \cup FifoConfig

=============================================================================
