------------------------------ MODULE TcpDial ------------------------------
(***************************************************************************)
(* Network::dial_tcp (pico_net/src/network.cpp) and the connections it     *)
(* makes.  The dial loop polls lwIP and sleeps until the connected         *)
(* callback has run or the timeout has passed; the pcb has no err callback *)
(* while it waits.  Dials need a network that is_ready(), which is not     *)
(* modelled here.                                                          *)
(***************************************************************************)
EXTENDS TcpConnection

VARIABLE
  done        \* TcpDialState of the dial in progress: the callback has run

vars == <<connVars, done>>

Init == ConnInit /\ done = FALSE

Dialing(c) == call.op = "dial" /\ call.conn = c

\* tcp_new, tcp_arg and tcp_connect.
DialBegin(c) ==
  /\ call = Idle /\ tcp[c] = "none" /\ Cardinality(InUse) < PoolSize
  /\ tcp' = [tcp EXCEPT ![c] = "syn_sent"]
  /\ call' = [op |-> "dial", conn |-> c, wait |-> TRUE]
  /\ done' = FALSE
  /\ UNCHANGED <<cb, fin, sent, lost, queued, unacked, fields, got, outcome,
                 reported, misuse>>

\* tcp_connect fails at once and the pcb is cleaned up.  Without a pcb from
\* tcp_new nothing happens at all.
DialRefused(c) ==
  /\ call = Idle /\ tcp[c] = "none" /\ Cardinality(InUse) < PoolSize
  /\ "tcp_connect" \in Failing
  /\ tcp' = [tcp EXCEPT ![c] = "freed"]
  /\ UNCHANGED <<cb, fin, sent, lost, queued, unacked, fields, app, misuse, done>>

\* tcp_dial_connected_callback; lwIP only ever passes it ERR_OK.
Connected(c) ==
  /\ Dialing(c) /\ tcp[c] = "syn_sent"
  /\ tcp' = [tcp EXCEPT ![c] = "open"]
  /\ done' = TRUE
  /\ UNCHANGED <<cb, fin, sent, lost, queued, unacked, fields, app, misuse>>

\* The loop has seen done before the timeout: the connection is handed over.
DialDone(c) ==
  /\ Dialing(c) /\ done /\ tcp[c] = "open"
  /\ AttachedTo(c)
  /\ call' = Idle
  /\ UNCHANGED <<misuse, done>>

DialDoneDeadPcb(c) ==
  /\ Dialing(c) /\ done /\ tcp[c] # "open"
  /\ Misuse("attach") /\ UNCHANGED done

\* The timeout passed, maybe in the round in which done was set: cleanup closes
\* the pcb, and aborts it should tcp_close fail.
DialTimeout(c) ==
  /\ Dialing(c) /\ tcp[c] \in {"syn_sent", "open"}
  /\ tcp' = [tcp EXCEPT ![c] = IF @ = "syn_sent" THEN "freed" ELSE "closing"]
  /\ call' = Idle
  /\ UNCHANGED <<cb, fin, sent, lost, queued, unacked, fields, got, outcome,
                 reported, misuse, done>>

DialTimeoutDeadPcb(c) ==
  /\ Dialing(c) /\ tcp[c] \in {"closing", "freed"}
  /\ Misuse("cleanup") /\ UNCHANGED done

Step ==
  \/ \E c \in Conns : ConnNext(c) /\ UNCHANGED done
  \/ (AppPoll \/ PollEnd) /\ UNCHANGED done
  \/ \E c \in Conns :
       \/ DialBegin(c) \/ DialRefused(c) \/ Connected(c)
       \/ DialDone(c) \/ DialDoneDeadPcb(c)
       \/ DialTimeout(c) \/ DialTimeoutDeadPcb(c)

\* The model ends where lwIP's behaviour becomes undefined.
Next == misuse = "none" /\ Step

Spec == Init /\ [][Next]_vars

----------------------------------------------------------------------------
(* Properties.                                                             *)

TypeOK == ConnTypeOK /\ done \in BOOLEAN

\* Once a read has reported an error or the end, no later read returns data.
ErrorIsFinal == [][ErrorIsFinalStep]_vars

\* dial_tcp always ends by touching a pcb that lwIP still has: a connection the
\* peer refuses or resets comes back as an error.
DialFailureIsError == misuse \notin {"attach", "cleanup"}
============================================================================
