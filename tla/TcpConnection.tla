--------------------------- MODULE TcpConnection ---------------------------
(***************************************************************************)
(* TcpConnection (pico_net/src/tcp_connection.cpp): a connection object    *)
(* over one lwIP pcb.  This module holds the state of every connection and *)
(* one action per callback and per method; TcpListener and TcpDial extend  *)
(* it with the two ways a connection comes into being and build the        *)
(* specifications.                                                         *)
(*                                                                         *)
(* The library is single threaded and linked with                          *)
(* pico_cyw43_arch_lwip_poll: lwIP runs its callbacks only inside          *)
(* cyw43_arch_poll(), that is while the application is inside a read,      *)
(* accept or dial of ANY connection, or polls by itself.  A connection id  *)
(* stands for one incarnation of a pcb and is used once.                   *)
(***************************************************************************)
EXTENDS Integers, Sequences, FiniteSets

CONSTANTS
  Conns,      \* pcb incarnations
  PoolSize,   \* lwIP's MEMP_NUM_TCP_PCB: pcbs alive at one time
  MaxBytes,   \* bound: bytes a peer sends, and bytes the application writes
  SndBuf,     \* lwIP's TCP_SND_BUF
  Failing,    \* the lwIP calls that may return an error
  Waits,      \* TRUE: the application uses the blocking calls, FALSE: the others
  NoConn      \* stands for nullptr

LwipCalls == {"tcp_connect", "tcp_recv", "tcp_output", "tcp_close"}

ASSUME ConstantsAssumption ==
  /\ NoConn \notin Conns
  /\ PoolSize \in Nat \ {0}
  /\ MaxBytes \in Nat
  /\ SndBuf \in Nat
  /\ Failing \subseteq LwipCalls
  /\ Waits \subseteq BOOLEAN

VARIABLES
  \* the lwIP side of connection c
  tcp,        \* state of the pcb
  cb,         \* the pcb's arg and callbacks point to the TcpConnection object
  fin,        \* the peer's FIN has arrived
  sent,       \* bytes of the peer that reached the stack
  lost,       \* how many of them lwIP discarded for want of a recv callback
  queued,     \* bytes tcp_write has accepted
  unacked,    \* how many of them the peer has not acknowledged
  \* the fields of the TcpConnection object (pcb: the field is not nullptr)
  obj, pcb, is_closed, has_error, rx_buffer, deadline,
  \* the application
  call,       \* the call into the library it is inside of
  got,        \* bytes its reads returned
  outcome,    \* how its last read ended
  reported,   \* bytes its writes were told to be written
  misuse      \* the first use of a pcb that lwIP has closed or freed

lwip   == <<tcp, cb, fin, sent, lost, queued, unacked>>
fields == <<obj, pcb, is_closed, has_error, rx_buffer, deadline>>
app    == <<call, got, outcome, reported>>
connVars == <<lwip, fields, app, misuse>>

Idle == [op |-> "idle", conn |-> NoConn, wait |-> FALSE]
Bytes(from, to) == [i \in 1..(to - from) |-> from + i]

\* The pcbs tcp_alloc cannot take back: it reclaims those it is closing itself.
InUse == {c \in Conns : tcp[c] \in {"syn_sent", "open", "close_wait"}}

\* lwIP runs only while the application polls it.
Polling == call.op # "idle"

ConnInit ==
  /\ tcp = [c \in Conns |-> "none"]
  /\ obj = [c \in Conns |-> "none"]
  /\ cb = [c \in Conns |-> FALSE]
  /\ fin = [c \in Conns |-> FALSE]
  /\ pcb = [c \in Conns |-> FALSE]
  /\ is_closed = [c \in Conns |-> FALSE]
  /\ has_error = [c \in Conns |-> FALSE]
  /\ deadline = [c \in Conns |-> FALSE]
  /\ sent = [c \in Conns |-> 0]
  /\ lost = [c \in Conns |-> 0]
  /\ queued = [c \in Conns |-> 0]
  /\ unacked = [c \in Conns |-> 0]
  /\ reported = [c \in Conns |-> 0]
  /\ rx_buffer = [c \in Conns |-> <<>>]
  /\ got = [c \in Conns |-> <<>>]
  /\ outcome = [c \in Conns |-> "none"]
  /\ call = Idle
  /\ misuse = "none"

\* A call that lwIP is no longer entitled to serve: what follows is undefined.
Misuse(how) == misuse' = how /\ UNCHANGED <<lwip, fields, app>>

----------------------------------------------------------------------------
(* lwIP's events on a pcb whose callbacks are attached.                    *)

Attached(c) == Polling /\ cb[c] /\ obj[c] # "gone"

\* Mutant of Recv: only the first pbuf of the chain is copied.
RecvFirstPbuf(c) ==
  /\ Attached(c) /\ tcp[c] = "open"
  /\ \E k \in 1..(MaxBytes - sent[c]) :
       /\ sent' = [sent EXCEPT ![c] = @ + k]
       /\ rx_buffer' = [rx_buffer EXCEPT ![c] = Append(@, sent[c] + 1)]
  /\ UNCHANGED <<tcp, cb, fin, lost, queued, unacked, obj, pcb, is_closed,
                 has_error, deadline, app, misuse>>

\* handle_tcp_recv with a pbuf of k bytes.
Recv(c) ==
  /\ Attached(c) /\ tcp[c] = "open"
  /\ \E k \in 1..(MaxBytes - sent[c]) :
       /\ sent' = [sent EXCEPT ![c] = @ + k]
       /\ rx_buffer' = [rx_buffer EXCEPT ![c] = @ \o Bytes(sent[c], sent[c] + k)]
  /\ UNCHANGED <<tcp, cb, fin, lost, queued, unacked, obj, pcb, is_closed,
                 has_error, deadline, app, misuse>>

\* Mutant of Fin: the pcb is remembered after the peer's FIN.
FinKeepingPcb(c) ==
  /\ Attached(c) /\ tcp[c] = "open"
  /\ tcp' = [tcp EXCEPT ![c] = "close_wait"]
  /\ fin' = [fin EXCEPT ![c] = TRUE]
  /\ is_closed' = [is_closed EXCEPT ![c] = TRUE]
  /\ UNCHANGED <<cb, sent, lost, queued, unacked, obj, pcb, has_error, rx_buffer,
                 deadline, app, misuse>>

\* handle_tcp_recv with a null pbuf.  It forgets the pcb without closing it and
\* leaves the callbacks in place: the pcb stays in CLOSE_WAIT.
Fin(c) ==
  /\ Attached(c) /\ tcp[c] = "open"
  /\ tcp' = [tcp EXCEPT ![c] = "close_wait"]
  /\ fin' = [fin EXCEPT ![c] = TRUE]
  /\ is_closed' = [is_closed EXCEPT ![c] = TRUE]
  /\ pcb' = [pcb EXCEPT ![c] = FALSE]
  /\ UNCHANGED <<cb, sent, lost, queued, unacked, obj, has_error, rx_buffer,
                 deadline, app, misuse>>

\* handle_tcp_recv with an error: the pbuf is thrown away, the pcb is kept.
RecvError(c) ==
  /\ Attached(c) /\ tcp[c] = "open" /\ "tcp_recv" \in Failing
  /\ has_error' = [has_error EXCEPT ![c] = TRUE]
  /\ UNCHANGED <<lwip, obj, pcb, is_closed, rx_buffer, deadline, app, misuse>>

\* handle_tcp_err: a reset, an abort or a retransmission timeout freed the pcb.
Err(c) ==
  /\ Attached(c) /\ tcp[c] \in {"open", "close_wait"}
  /\ tcp' = [tcp EXCEPT ![c] = "freed"]
  /\ pcb' = [pcb EXCEPT ![c] = FALSE]
  /\ has_error' = [has_error EXCEPT ![c] = TRUE]
  /\ is_closed' = [is_closed EXCEPT ![c] = TRUE]
  /\ UNCHANGED <<cb, fin, sent, lost, queued, unacked, obj, rx_buffer, deadline,
                 app, misuse>>

\* The same callback through the arg of an object that has been deleted.
CallbackOnDestroyed(c) ==
  /\ Polling /\ cb[c] /\ obj[c] = "gone" /\ tcp[c] \in {"open", "close_wait"}
  /\ Misuse("callback")

----------------------------------------------------------------------------
(* lwIP's default treatment of a pcb without callbacks.                    *)

Unattached(c) == Polling /\ ~cb[c] /\ tcp[c] = "open" /\ obj[c] \in {"none", "pending"}

\* tcp_recv_null acknowledges the data and frees it.
Drop(c) ==
  /\ Unattached(c)
  /\ \E k \in 1..(MaxBytes - sent[c]) :
       /\ sent' = [sent EXCEPT ![c] = @ + k]
       /\ lost' = [lost EXCEPT ![c] = sent[c] + k]
  /\ UNCHANGED <<tcp, cb, fin, queued, unacked, fields, app, misuse>>

\* tcp_recv_null answers a FIN with tcp_close.
UnattachedFin(c) ==
  /\ Unattached(c)
  /\ fin' = [fin EXCEPT ![c] = TRUE]
  /\ tcp' = [tcp EXCEPT ![c] = "closing"]
  /\ UNCHANGED <<cb, sent, lost, queued, unacked, fields, app, misuse>>

\* Without an err callback lwIP frees the pcb and tells nobody: a reset, a
\* refused connect, or the end of the closing handshake.
Release(c) ==
  /\ Polling /\ ~cb[c] /\ tcp[c] \in {"syn_sent", "open", "closing"}
  /\ tcp' = [tcp EXCEPT ![c] = "freed"]
  /\ UNCHANGED <<cb, fin, sent, lost, queued, unacked, fields, app, misuse>>

\* The peer acknowledges a byte.
Acked(c) ==
  /\ Polling /\ tcp[c] \in {"open", "close_wait"} /\ unacked[c] > 0
  /\ unacked' = [unacked EXCEPT ![c] = @ - 1]
  /\ UNCHANGED <<tcp, cb, fin, sent, lost, queued, fields, app, misuse>>

----------------------------------------------------------------------------
(* The application's calls.  A call with a null buffer or of size 0, a     *)
(* write to a connection without a pcb, a write that tcp_write refuses or  *)
(* that finds no room, change nothing.                                     *)

Owned(c) == call = Idle /\ obj[c] = "owned"

\* cyw43_arch_poll() from the application's own loop.
AppPoll ==
  /\ call = Idle
  /\ call' = [Idle EXCEPT !.op = "poll"]
  /\ UNCHANGED <<lwip, fields, got, outcome, reported, misuse>>

PollEnd ==
  /\ call.op = "poll"
  /\ call' = Idle
  /\ UNCHANGED <<lwip, fields, got, outcome, reported, misuse>>

\* set_deadline, set_read_deadline; only the blocking read looks at it.
SetDeadline(c) ==
  /\ Owned(c) /\ TRUE \in Waits
  /\ deadline' = [deadline EXCEPT ![c] = TRUE]
  /\ UNCHANGED <<lwip, obj, pcb, is_closed, has_error, rx_buffer, app, misuse>>

ReadBegin(c) ==
  /\ Owned(c)
  /\ \E w \in Waits : call' = [op |-> "read", conn |-> c, wait |-> w]
  /\ UNCHANGED <<lwip, fields, got, outcome, reported, misuse>>

ReadReturns(c, how) ==
  /\ call.op = "read" /\ call.conn = c
  /\ call' = Idle
  /\ outcome' = [outcome EXCEPT ![c] = how]
  /\ UNCHANGED <<lwip, obj, pcb, is_closed, has_error, deadline, reported, misuse>>

\* The checks of read_nonblocking after its poll, in their order.
ReadError(c) ==
  /\ has_error[c]
  /\ ReadReturns(c, "error") /\ UNCHANGED <<rx_buffer, got>>

\* Mutant of ReadClosed: is_closed is looked at before the buffer.
ReadClosedFirst(c) ==
  /\ ~has_error[c] /\ (is_closed[c] \/ ~pcb[c])
  /\ ReadReturns(c, IF is_closed[c] THEN "closed by peer" ELSE "closed")
  /\ UNCHANGED <<rx_buffer, got>>

ReadClosed(c) ==
  /\ ~has_error[c] /\ rx_buffer[c] = <<>> /\ (is_closed[c] \/ ~pcb[c])
  /\ ReadReturns(c, IF is_closed[c] THEN "closed by peer" ELSE "closed")
  /\ UNCHANGED <<rx_buffer, got>>

\* Mutant of ReadNothing: the blocking read never looks at its deadline.
ReadNothingForever(c) ==
  /\ ~has_error[c] /\ rx_buffer[c] = <<>> /\ ~is_closed[c] /\ pcb[c]
  /\ ~call.wait
  /\ ReadReturns(c, "nothing")
  /\ UNCHANGED <<rx_buffer, got>>

\* Nothing yet: the non-blocking read returns {0, nullopt}, the blocking one
\* sleeps and returns "read timeout" once its deadline has passed, or loops.
ReadNothing(c) ==
  /\ ~has_error[c] /\ rx_buffer[c] = <<>> /\ ~is_closed[c] /\ pcb[c]
  /\ call.wait => deadline[c]
  /\ ReadReturns(c, IF call.wait THEN "timeout" ELSE "nothing")
  /\ UNCHANGED <<rx_buffer, got>>

\* Mutants of ReadData: the whole buffer is dropped after a partial read; a
\* connection in error goes on delivering.
ReadDataDroppingRest(c) ==
  /\ ~has_error[c]
  /\ \E size \in 1..Len(rx_buffer[c]) :
       got' = [got EXCEPT ![c] = @ \o SubSeq(rx_buffer[c], 1, size)]
  /\ rx_buffer' = [rx_buffer EXCEPT ![c] = <<>>]
  /\ ReadReturns(c, "data")

ReadDataAfterError(c) ==
  /\ \E size \in 1..Len(rx_buffer[c]) :
       /\ got' = [got EXCEPT ![c] = @ \o SubSeq(rx_buffer[c], 1, size)]
       /\ rx_buffer' = [rx_buffer EXCEPT ![c] = SubSeq(@, size + 1, Len(@))]
  /\ ReadReturns(c, "data")

ReadData(c) ==
  /\ ~has_error[c]
  /\ \E size \in 1..Len(rx_buffer[c]) :  \* min(size, rx_buffer.size())
       /\ got' = [got EXCEPT ![c] = @ \o SubSeq(rx_buffer[c], 1, size)]
       /\ rx_buffer' = [rx_buffer EXCEPT ![c] = SubSeq(@, size + 1, Len(@))]
  /\ ReadReturns(c, "data")

Read(c) == ReadError(c) \/ ReadClosed(c) \/ ReadNothing(c) \/ ReadData(c)

\* Mutants of Queue: tcp_sndbuf is not asked; the size asked for is reported.
QueueUnbounded(c) ==
  /\ \E n \in 1..MaxBytes :
       /\ queued[c] + n <= MaxBytes
       /\ queued' = [queued EXCEPT ![c] = @ + n]
       /\ unacked' = [unacked EXCEPT ![c] = @ + n]
       /\ reported' = [reported EXCEPT ![c] = @ + n]
  /\ UNCHANGED <<tcp, cb, fin, sent, lost, fields, call, got, outcome, misuse>>

QueueReportingSize(c) ==
  /\ \E size \in 1..MaxBytes, n \in 1..(SndBuf - unacked[c]) :
       /\ n <= size /\ queued[c] + n <= MaxBytes
       /\ queued' = [queued EXCEPT ![c] = @ + n]
       /\ unacked' = [unacked EXCEPT ![c] = @ + n]
       /\ reported' = [reported EXCEPT ![c] = @ + size]
  /\ UNCHANGED <<tcp, cb, fin, sent, lost, fields, call, got, outcome, misuse>>

\* tcp_write and tcp_output: at most tcp_sndbuf bytes are queued.  When tcp_output
\* fails after tcp_write the caller is told 0 bytes and an error.
Queue(c) ==
  /\ \E n \in 1..(SndBuf - unacked[c]), ok \in {TRUE, "tcp_output" \notin Failing} :
       /\ queued[c] + n <= MaxBytes
       /\ queued' = [queued EXCEPT ![c] = @ + n]
       /\ unacked' = [unacked EXCEPT ![c] = @ + n]
       /\ reported' = [reported EXCEPT ![c] = @ + (IF ok THEN n ELSE 0)]
  /\ UNCHANGED <<tcp, cb, fin, sent, lost, fields, call, got, outcome, misuse>>

Write(c) ==
  /\ Owned(c) /\ pcb[c] /\ ~is_closed[c]
  /\ IF tcp[c] = "open" THEN Queue(c) ELSE Misuse("write")

\* Mutant of CloseConns: the pcb is forgotten without tcp_close.
CloseConnsForgetting(S, bad) ==
  /\ bad = {}
  /\ cb' = [c \in Conns |-> cb[c] /\ ~(c \in S /\ pcb[c])]
  /\ pcb' = [c \in Conns |-> pcb[c] /\ c \notin S]
  /\ is_closed' = [c \in Conns |-> is_closed[c] \/ c \in S]
  /\ UNCHANGED <<tcp, fin, sent, lost, queued, unacked, has_error, rx_buffer, deadline>>

\* TcpConnection::close on the connections of S; tcp_close fails on those of
\* bad.  Whether it fails or not the callbacks and the pcb are given up.
CloseConns(S, bad) ==
  LET live == {c \in S : pcb[c]} IN
  /\ bad \subseteq live /\ (bad # {} => "tcp_close" \in Failing)
  /\ cb' = [c \in Conns |-> cb[c] /\ c \notin live]
  /\ tcp' = [c \in Conns |-> IF c \in live \ bad THEN "closing" ELSE tcp[c]]
  /\ pcb' = [c \in Conns |-> pcb[c] /\ c \notin S]
  /\ is_closed' = [c \in Conns |-> is_closed[c] \/ c \in S]
  /\ UNCHANGED <<fin, sent, lost, queued, unacked, has_error, rx_buffer, deadline>>

PcbDead(c) == pcb[c] /\ tcp[c] # "open"

\* close, and the destructor: after a failed close the field it hands to
\* tcp_abort is already null, so the abort reaches no pcb.
Close(c, after) ==
  /\ Owned(c)
  /\ IF PcbDead(c)
     THEN Misuse("close")
     ELSE /\ \E bad \in SUBSET {c} : CloseConns({c}, bad)
          /\ obj' = [obj EXCEPT ![c] = after]
          /\ UNCHANGED <<app, misuse>>

\* Mutant of AttachedTo: attach_callbacks is not called.
AttachedToNothing(c) ==
  /\ obj' = [obj EXCEPT ![c] = "owned"]
  /\ pcb' = [pcb EXCEPT ![c] = TRUE]
  /\ UNCHANGED <<tcp, cb, fin, sent, lost, queued, unacked, is_closed, has_error,
                 rx_buffer, deadline, got, outcome, reported>>

\* A TcpConnection on a pcb in lwIP's open state, callbacks attached, handed
\* to the application.
AttachedTo(c) ==
  /\ obj' = [obj EXCEPT ![c] = "owned"]
  /\ cb' = [cb EXCEPT ![c] = TRUE]
  /\ pcb' = [pcb EXCEPT ![c] = TRUE]
  /\ UNCHANGED <<tcp, fin, sent, lost, queued, unacked, is_closed, has_error,
                 rx_buffer, deadline, got, outcome, reported>>

ConnNext(c) ==
  \/ Recv(c) \/ Fin(c) \/ RecvError(c) \/ Err(c) \/ CallbackOnDestroyed(c)
  \/ Drop(c) \/ UnattachedFin(c) \/ Release(c) \/ Acked(c)
  \/ SetDeadline(c) \/ ReadBegin(c) \/ Read(c)
  \/ Write(c) \/ Close(c, "owned") \/ Close(c, "gone")

----------------------------------------------------------------------------
(* Properties.                                                             *)

TcpStates == {"none", "syn_sent", "open", "close_wait", "closing", "freed"}
Calls == [op : {"idle", "poll", "read", "accept", "dial"},
          conn : Conns \cup {NoConn}, wait : BOOLEAN]
Outcomes == {"none", "data", "nothing", "timeout", "closed by peer", "closed", "error"}

\* Every variable of the connections has its type, and write never queues more
\* than tcp_sndbuf has room for.
ConnTypeOK ==
  /\ tcp \in [Conns -> TcpStates]
  /\ obj \in [Conns -> {"none", "pending", "owned", "gone"}]
  /\ cb \in [Conns -> BOOLEAN] /\ fin \in [Conns -> BOOLEAN] /\ pcb \in [Conns -> BOOLEAN]
  /\ is_closed \in [Conns -> BOOLEAN] /\ has_error \in [Conns -> BOOLEAN]
  /\ deadline \in [Conns -> BOOLEAN]
  /\ sent \in [Conns -> Nat] /\ lost \in [Conns -> Nat] /\ queued \in [Conns -> Nat]
  /\ unacked \in [Conns -> 0..SndBuf] /\ reported \in [Conns -> Nat]
  /\ rx_buffer \in [Conns -> Seq(Nat)] /\ got \in [Conns -> Seq(Nat)]
  /\ outcome \in [Conns -> Outcomes]
  /\ call \in Calls
  /\ misuse \in {"none", "attach", "pending", "cleanup", "callback", "write", "close"}

\* The bytes the application has read, followed by those buffered for it, are
\* exactly the peer's bytes from the moment the callbacks were attached on: none
\* missing, doubled or reordered, whatever reads, callbacks, closes and errors
\* of any connection interleave (handle_tcp_recv against read_nonblocking).
StreamIntact ==
  \A c \in Conns : got[c] \o rx_buffer[c] = Bytes(lost[c], sent[c])

\* A read that reports the end of the stream has returned every byte of it: the
\* data that arrived in the same poll as the FIN is not cut off.
EofAfterData ==
  \A c \in Conns : outcome[c] = "closed by peer" => got[c] = Bytes(lost[c], sent[c])

\* A connection the application holds has a pcb only while lwIP has it open and
\* its callbacks lead back to this object; so no write and no close of the
\* application ever reaches a pcb that lwIP has freed or is closing, as long as it
\* was handed none (misuse "attach", where the model ends).
PcbPointerValid ==
  /\ \A c \in Conns : obj[c] = "owned" /\ pcb[c] => tcp[c] = "open" /\ cb[c]
  /\ misuse \notin {"write", "close"}

\* An object without a pcb is marked closed, by whichever of the callbacks or
\* close() took the pcb away; so no read answers "connection is closed".
NoPcbMeansClosed ==
  \A c \in Conns : (obj[c] = "owned" /\ ~pcb[c] => is_closed[c]) /\ outcome[c] # "closed"

\* Every open pcb is within reach of somebody who can still close it: the
\* application, the listener's queue, or the dial in progress.
OpenHasOwner ==
  \A c \in Conns : tcp[c] = "open" =>
    \/ obj[c] \in {"pending", "owned"} /\ pcb[c]
    \/ call.op = "dial" /\ call.conn = c

\* Once a read has reported an error or the end of the stream, no later read of
\* that connection returns data.
ErrorIsFinalStep ==
  \A c \in Conns : outcome[c] \in {"error", "closed by peer"} => got'[c] = got[c]

\* write never reports more bytes than lwIP has queued for the peer.  (It may
\* report fewer: after a failed tcp_output the queued bytes count as not written.)
WriteCount == \A c \in Conns : reported[c] <= queued[c]

\* Deleting a connection gives up its pcb: lwIP holds none that is still open to
\* the peer and calls back into the deleted object.
DeletedReleasesPcb ==
  \A c \in Conns : obj[c] = "gone" => tcp[c] \in {"closing", "freed"}
============================================================================
