---------------------------- MODULE MqttSession ----------------------------
(***************************************************************************)
(* What MqttClient promises its application of the messages the broker     *)
(* publishes: while a session lasts, next_message returns them one by one  *)
(* in their order.  What is left when a session ends is never returned,    *)
(* and the next session starts with what is published then.                *)
(***************************************************************************)
EXTENDS Naturals

VARIABLES
  open,       \* there is a session
  published,  \* messages the broker has published
  taken       \* the last message next_message has returned, or an earlier session's

vars == <<open, published, taken>>

Init == open = FALSE /\ published = 0 /\ taken = 0

Open == ~open /\ open' = TRUE /\ taken' = published /\ UNCHANGED published

Publish == open /\ published' = published + 1 /\ UNCHANGED <<open, taken>>

Take == open /\ taken < published /\ taken' = taken + 1 /\ UNCHANGED <<open, published>>

End == open' = FALSE /\ UNCHANGED <<published, taken>>

Next == Open \/ Publish \/ Take \/ End

Spec == Init /\ [][Next]_vars
=============================================================================
