----------------------------- MODULE FlatStore ------------------------------
(***************************************************************************)
(* What class Storage (CSimulator/include/storage.h) promises a client of  *)
(* handle_request: a flat array of 8-byte cells, where a read returns what *)
(* the latest write to the cell stored.  A cache in front of a memory is   *)
(* correct when it implements this specification.                          *)
(***************************************************************************)
EXTENDS Naturals

CONSTANTS
  Cells,      \* the 8-byte words that clients address
  Values,     \* the values of a cell
  Zero,       \* the value of a cell nobody wrote
  NoRequest   \* no request in progress

VARIABLES
  store,      \* the cells
  phase,      \* "idle", "pending" or "served"
  request,    \* the request in progress
  content     \* the client's in/out argument

vars == <<store, phase, request, content>>

Requests == [cell : Cells, read : BOOLEAN, words : {0, 1}]

Init ==
  /\ store = [c \in Cells |-> Zero]
  /\ phase = "idle"
  /\ request = NoRequest
  /\ content = Zero

Issue(r, v) ==
  /\ phase = "idle"
  /\ phase' = "pending"
  /\ request' = r
  /\ content' = v
  /\ UNCHANGED store

ServeRead ==
  /\ phase = "pending"
  /\ request.read
  /\ phase' = "served"
  /\ content' = store[request.cell]
  /\ UNCHANGED <<store, request>>

ServeWrite ==
  /\ phase = "pending"
  /\ ~ request.read
  /\ phase' = "served"
  /\ store' = IF request.words = 0 THEN store
                                   ELSE [store EXCEPT ![request.cell] = content]
  /\ UNCHANGED <<request, content>>

Return ==
  /\ phase = "served"
  /\ phase' = "idle"
  /\ request' = NoRequest
  /\ UNCHANGED <<store, content>>

Next ==
  \/ \E r \in Requests, v \in Values : Issue(r, v)
  \/ ServeRead
  \/ ServeWrite
  \/ Return

Spec == Init /\ [][Next]_vars

=============================================================================
