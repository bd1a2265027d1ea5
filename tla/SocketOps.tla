------------------------------ MODULE SocketOps ------------------------------
(***************************************************************************)
(* What nanoev.h promises about the operations of TCP and UDP events: an   *)
(* operation that was started is answered by one call of its callback,     *)
(* there is at most one pending operation per direction, and an event that *)
(* the application has freed is never called again.                        *)
(***************************************************************************)
CONSTANTS
  Events,   \* socket events
  Inbound,  \* operations that read: "read", "accept"
  Outbound  \* operations that write: "write", "connect"

VARIABLES
  pending,  \* the operations of each event that wait for their callback
  freed,    \* events passed to nanoev_event_free()
  called    \* the callback made by the last step: {} or {<<event, operation>>}

vars == <<pending, freed, called>>

Init ==
  /\ pending = [e \in Events |-> {}]
  /\ freed = {}
  /\ called = {}

\* An operation is accepted; the other direction is independent of it.
Start(e, dir) ==
  /\ e \notin freed
  /\ pending[e] \cap dir = {}
  /\ \E op \in dir : pending' = [pending EXCEPT ![e] = @ \cup {op}]
  /\ called' = {}
  /\ UNCHANGED freed

\* A pending operation is answered.
Callback(e, op) ==
  /\ e \notin freed
  /\ op \in pending[e]
  /\ pending' = [pending EXCEPT ![e] = @ \ {op}]
  /\ called' = {<<e, op>>}
  /\ UNCHANGED freed

\* The application frees an event, whatever is pending on it.
Free(e) ==
  /\ e \notin freed
  /\ freed' = freed \cup {e}
  /\ called' = {}
  /\ UNCHANGED pending

\* An operation of a freed event ends without a callback.
Drop(e, op) ==
  /\ e \in freed
  /\ op \in pending[e]
  /\ pending' = [pending EXCEPT ![e] = @ \ {op}]
  /\ called' = {}
  /\ UNCHANGED freed

\* Anything else that the library does.
Quiet ==
  /\ called' = {}
  /\ UNCHANGED <<pending, freed>>

Next ==
  \/ \E e \in Events : Start(e, Inbound) \/ Start(e, Outbound) \/ Free(e)
  \/ \E e \in Events, op \in Inbound \cup Outbound : Callback(e, op) \/ Drop(e, op)
  \/ Quiet

Spec == Init /\ [][Next]_vars
=============================================================================
