------------------------------ MODULE UdpFlows ------------------------------
(***************************************************************************)
(* What UDP connections promise, whatever objects carry them: a flow (a    *)
(* peer of a listener, or a dialled remote) is a FIFO mailbox.  Datagrams  *)
(* enter it in the order of their arrival, the application takes them out  *)
(* in that order, and only ending the flow discards any.                   *)
(***************************************************************************)
EXTENDS Integers, Sequences

CONSTANT Flows

VARIABLES
  arrived,    \* how many datagrams of the flow the device has received
  inbox,      \* those the application can still read
  delivered   \* those it has read

vars == <<arrived, inbox, delivered>>

Datagram(f, n) == [flow |-> f, num |-> n]

Init ==
  /\ arrived = [f \in Flows |-> 0]
  /\ inbox = [f \in Flows |-> <<>>]
  /\ delivered = [f \in Flows |-> <<>>]

Arrive(f) ==
  /\ arrived' = [arrived EXCEPT ![f] = @ + 1]
  /\ inbox' = [inbox EXCEPT ![f] = Append(@, Datagram(f, arrived[f] + 1))]
  /\ UNCHANGED delivered

Take(f) ==
  /\ inbox[f] # <<>>
  /\ inbox' = [inbox EXCEPT ![f] = Tail(@)]
  /\ delivered' = [delivered EXCEPT ![f] = Append(@, Head(inbox[f]))]
  /\ UNCHANGED arrived

\* Closing a connection, or a listener with the flows nobody has accepted yet.
End(F) ==
  /\ inbox' = [f \in Flows |-> IF f \in F THEN <<>> ELSE inbox[f]]
  /\ UNCHANGED <<arrived, delivered>>

Next ==
  \/ \E f \in Flows : Arrive(f) \/ Take(f)
  \/ \E F \in SUBSET Flows : End(F)

Spec == Init /\ [][Next]_vars
=============================================================================
