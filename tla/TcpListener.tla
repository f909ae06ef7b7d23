---------------------------- MODULE TcpListener ----------------------------
(***************************************************************************)
(* TcpListener (pico_net/src/tcp_listener.cpp) and the connections it      *)
(* accepts: lwIP pushes accepted connections on a queue from a callback,   *)
(* the application takes them off with accept() or accept_nonblocking(),   *)
(* and only then are the connection's own callbacks attached.              *)
(***************************************************************************)
EXTENDS TcpConnection, SequencesExt

VARIABLES
  l_closed,   \* is_closed, which is set exactly when pcb becomes nullptr
  l_error,    \* has_error
  pending,    \* pending_connections
  arrived,    \* history: the connections queued, in order
  handed      \* history: the connections handed to the application, in order

listener == <<l_closed, l_error, pending, arrived, handed>>
vars == <<connVars, listener>>

Init ==
  /\ ConnInit
  /\ l_closed = FALSE
  /\ l_error = FALSE
  /\ pending = <<>>
  /\ arrived = <<>>
  /\ handed = <<>>

\* handle_tcp_accept: the new pcb is wrapped and queued, its callbacks are not
\* attached.  tcp_close of the listening pcb ends these callbacks.
AcceptCallback(c) ==
  /\ Polling /\ ~l_closed
  /\ tcp[c] = "none" /\ Cardinality(InUse) < PoolSize
  /\ tcp' = [tcp EXCEPT ![c] = "open"]
  /\ obj' = [obj EXCEPT ![c] = "pending"]
  /\ pcb' = [pcb EXCEPT ![c] = TRUE]
  /\ pending' = Append(pending, c)
  /\ arrived' = Append(arrived, c)
  /\ UNCHANGED <<cb, fin, sent, lost, queued, unacked, is_closed, has_error,
                 rx_buffer, deadline, app, misuse, l_closed, l_error, handed>>

\* handle_tcp_accept without a pcb: lwIP has none left.  The error stays.
AcceptFail ==
  /\ Polling /\ ~l_closed /\ Cardinality(InUse) >= PoolSize
  /\ l_error' = TRUE
  /\ UNCHANGED <<connVars, l_closed, pending, arrived, handed>>

\* accept and accept_nonblocking up to the poll.  A closed listener, or one with
\* an error, answers at once.
AcceptBegin ==
  /\ call = Idle /\ ~l_closed /\ ~l_error
  /\ \E w \in Waits : call' = [op |-> "accept", conn |-> NoConn, wait |-> w]
  /\ UNCHANGED <<lwip, fields, got, outcome, reported, misuse, listener>>

AcceptReturns == call.op = "accept" /\ call' = Idle

\* Mutants of AcceptConn: the newest pending connection is taken; the oldest
\* stays queued.
AcceptLast ==
  /\ AcceptReturns /\ pending # <<>>
  /\ tcp[Last(pending)] = "open"
  /\ AttachedTo(Last(pending))
  /\ pending' = Front(pending)
  /\ handed' = Append(handed, Last(pending))
  /\ UNCHANGED <<misuse, l_closed, l_error, arrived>>

AcceptWithoutPop ==
  /\ AcceptReturns /\ pending # <<>>
  /\ tcp[Head(pending)] = "open"
  /\ AttachedTo(Head(pending))
  /\ handed' = Append(handed, Head(pending))
  /\ UNCHANGED <<misuse, l_closed, l_error, pending, arrived>>

\* After the poll: the oldest pending connection is attached and handed over,
\* unless lwIP has closed or freed its pcb while it was waiting.
AcceptConn ==
  /\ AcceptReturns /\ pending # <<>>
  /\ tcp[Head(pending)] = "open"
  /\ AttachedTo(Head(pending))
  /\ pending' = Tail(pending)
  /\ handed' = Append(handed, Head(pending))
  /\ UNCHANGED <<misuse, l_closed, l_error, arrived>>

AcceptDeadConn ==
  /\ call.op = "accept" /\ pending # <<>>
  /\ tcp[Head(pending)] # "open"
  /\ Misuse("attach") /\ UNCHANGED listener

AcceptNone ==
  /\ AcceptReturns /\ pending = <<>> /\ ~call.wait
  /\ UNCHANGED <<lwip, fields, got, outcome, reported, misuse, listener>>

\* The blocking accept sleeps and repeats the checks of accept_nonblocking: an
\* error raised by the poll before ends it.
AcceptError ==
  /\ AcceptReturns /\ pending = <<>> /\ call.wait /\ l_error
  /\ UNCHANGED <<lwip, fields, got, outcome, reported, misuse, listener>>

\* Mutant of ListenerClose: only the listening pcb is closed.
ListenerCloseAlone ==
  /\ call = Idle /\ ~l_closed
  /\ l_closed' = TRUE
  /\ UNCHANGED <<connVars, l_error, pending, arrived, handed>>

\* close, and the destructor: pending connections are closed and deleted.
\* tcp_close of a listening pcb does not fail.
ListenerClose ==
  /\ call = Idle /\ ~l_closed
  /\ \A c \in ToSet(pending) : ~PcbDead(c)
  /\ \E bad \in SUBSET ToSet(pending) : CloseConns(ToSet(pending), bad)
  /\ obj' = [c \in Conns |-> IF c \in ToSet(pending) THEN "gone" ELSE obj[c]]
  /\ pending' = <<>>
  /\ l_closed' = TRUE
  /\ UNCHANGED <<app, misuse, l_error, arrived, handed>>

ListenerCloseDeadConn ==
  /\ call = Idle /\ ~l_closed
  /\ \E c \in ToSet(pending) : PcbDead(c)
  /\ Misuse("pending") /\ UNCHANGED listener

Step ==
  \/ \E c \in Conns : ConnNext(c) /\ UNCHANGED listener
  \/ (AppPoll \/ PollEnd) /\ UNCHANGED listener
  \/ \E c \in Conns : AcceptCallback(c)
  \/ AcceptFail
  \/ AcceptBegin \/ AcceptConn \/ AcceptDeadConn \/ AcceptNone \/ AcceptError
  \/ ListenerClose \/ ListenerCloseDeadConn

\* The model ends where lwIP's behaviour becomes undefined.
Next == misuse = "none" /\ Step

Spec == Init /\ [][Next]_vars

AcceptEnd == AcceptConn \/ AcceptDeadConn \/ AcceptNone \/ AcceptError

\* Every call checks its condition again after each poll, and the application
\* comes back to accept whatever else it does in its loop (README, Example 3).
Fairness ==
  /\ WF_vars(misuse = "none" /\ PollEnd /\ UNCHANGED listener)
  /\ \A c \in Conns : WF_vars(misuse = "none" /\ Read(c) /\ UNCHANGED listener)
  /\ WF_vars(misuse = "none" /\ AcceptEnd)
  /\ SF_vars(misuse = "none" /\ AcceptBegin)

FairSpec == Spec /\ Fairness

----------------------------------------------------------------------------
(* Properties.                                                             *)

TypeOK ==
  /\ ConnTypeOK
  /\ l_closed \in BOOLEAN /\ l_error \in BOOLEAN
  /\ pending \in Seq(Conns) /\ arrived \in Seq(Conns) /\ handed \in Seq(Conns)

\* Connections are handed out in the order of their arrival, each exactly once,
\* and what has not been handed out waits in the queue or was closed with the
\* listener.
HandoverFifo ==
  /\ IsPrefix(handed \o pending, arrived)
  /\ ~l_closed => handed \o pending = arrived
  /\ IsInjective(arrived)

\* The queue holds exactly the objects the application has not seen, none of
\* them with callbacks attached.
PendingUnattached ==
  ToSet(pending) = {c \in Conns : obj[c] = "pending"}
    /\ \A c \in ToSet(pending) : ~cb[c] /\ pcb[c]

\* Once a read has reported an error or the end, no later read returns data.
ErrorIsFinal == [][ErrorIsFinalStep]_vars

\* A connection that lwIP has accepted reaches the application, as long as that
\* does not block for ever elsewhere, unless the listener is closed or has failed
\* for good before.
HandedOut ==
  []<>(call = Idle) =>
    \A c \in Conns : obj[c] = "pending" ~> obj[c] # "pending" \/ l_error \/ misuse # "none"

\* A blocking read returns once lwIP has delivered a byte that was not read, has ended
\* the connection or reported an error, or once the deadline has passed, whatever goes
\* on in its polls (handle_tcp_recv, handle_tcp_err, read).
ReadEnds ==
  \A c \in Conns :
    /\ call.op = "read" /\ call.conn = c
    /\ \/ lost[c] + Len(got[c]) < sent[c]
       \/ tcp[c] # "open" \/ has_error[c] \/ deadline[c]
    ~> call.op # "read" \/ misuse # "none"

\* A connection accept() hands out is one: its pcb is still lwIP's to serve.
AcceptedIsAlive == misuse # "attach"
============================================================================
