------------------------------ MODULE SendQueue ------------------------------
(***************************************************************************)
(* The send queue of one connection, byte by byte: xmpp_send_raw, the      *)
(* write loop of xmpp_run_once, and what is below them, a socket or a TLS  *)
(* back end.  An item is the run of bytes first .. first+len-1, numbered   *)
(* in the order in which xmpp_send_raw copied them; wire is what the peer  *)
(* has received.  The Schannel back end keeps one encrypted record it      *)
(* could not send, and reports its bytes as written.                       *)
(***************************************************************************)
EXTENDS Integers, Sequences

CONSTANTS
    Backends,      \* the TLS back ends a stream may be secured with
    MaxLen,        \* bound on the length of an item
    HeaderLen,     \* length of the stream header
    MaxMessage,    \* cbMaximumMessage: the bytes of one Schannel record
    MaxAccepted,   \* bound on the bytes accepted when the user adds some
    MaxQueue,      \* bound on the items queued when the user adds one
    MaxAttempts    \* bound on the connections made

ASSUME SendQueueAssumption ==
    /\ Backends \subseteq {"openssl", "schannel"}
    /\ MaxLen \in Nat /\ HeaderLen \in Nat \ {0} /\ MaxMessage \in Nat \ {0}
    /\ MaxAccepted \in Nat /\ MaxQueue \in Nat /\ MaxAttempts \in Nat

VARIABLES
    state,             \* conn->state; CONNECTING is over at once here
    tls,               \* conn->tls: none or a back end
    error,             \* conn->error # 0
    send_queue,        \* the items from send_queue_head on
    send_queue_tail,   \* what that pointer points to
    sendbuffer,        \* Schannel: the run of bytes in the unsent record
    pc,                \* idle, in the write loop, or after a break in it
    accepted, wire, header, failed, attempts   \* history

net  == <<state, tls, error, header, failed, attempts>>
vars == <<net, send_queue, send_queue_tail, sendbuffer, pc, accepted, wire>>

Run(from, to) == [i \in 1 .. to - from + 1 |-> from + i - 1]

Empty == [from |-> 1, to |-> 0]

Record(from, n) == IF n = 0 THEN Empty ELSE [from |-> from, to |-> from + n - 1]

Pending == sendbuffer.to - sendbuffer.from + 1

Item == [first : Nat \ {0}, len : Nat, written : Nat]

Init ==
    /\ state = "DISCONNECTED" /\ tls = "none" /\ error = FALSE
    /\ send_queue = <<>> /\ send_queue_tail = "NULL" /\ sendbuffer = Empty
    /\ pc = "idle" /\ accepted = 0 /\ wire = <<>>
    /\ header = 0 /\ failed = FALSE /\ attempts = 0

-----------------------------------------------------------------------------
(* Queueing and connecting, by the user or in a callback. *)

\* xmpp_send_raw when connected and with memory: an item behind a freed tail is lost.
SendRaw(len) ==
    LET item == [first |-> accepted + 1, len |-> len, written |-> 0]
    IN /\ accepted' = accepted + len
       /\ \/ send_queue_tail = "NULL"  /\ send_queue' = <<item>>
          \/ send_queue_tail = "last"  /\ send_queue' = Append(send_queue, item)
          \/ send_queue_tail = "freed" /\ send_queue' = send_queue
       /\ send_queue_tail' = IF send_queue_tail = "freed" THEN "freed" ELSE "last"

xmpp_send_raw ==
    /\ pc = "idle" /\ state = "CONNECTED"
    /\ Len(send_queue) < MaxQueue
    /\ \E len \in 0 .. MaxLen : accepted + len <= MaxAccepted /\ SendRaw(len)
    /\ UNCHANGED <<net, sendbuffer, pc, wire>>

\* A new connection is complete and conn_open_stream queues its header behind
\* whatever an earlier connection left.
connect ==
    /\ pc = "idle" /\ state = "DISCONNECTED" /\ attempts < MaxAttempts
    /\ state' = "CONNECTED" /\ attempts' = attempts + 1 /\ failed' = FALSE
    /\ wire' = <<>> /\ header' = accepted + 1
    /\ SendRaw(HeaderLen)
    /\ UNCHANGED <<tls, error, sendbuffer, pc>>

\* conn_disconnect: the TLS session goes with the record it kept.
Disconnect == state' = "DISCONNECTED" /\ tls' = "none" /\ sendbuffer' = Empty

\* ... for any other reason than a failed write, between two write loops: a failed
\* read sets conn->error too, the end of the stream does not.
conn_disconnect ==
    /\ pc = "idle" /\ state = "CONNECTED"
    /\ Disconnect /\ error' \in {error, TRUE}
    /\ UNCHANGED <<send_queue, send_queue_tail, pc, accepted, wire, header, failed,
                   attempts>>

tls_start ==
    /\ pc = "idle" /\ state = "CONNECTED" /\ tls = "none"
    /\ tls' \in Backends
    /\ UNCHANGED <<state, error, send_queue, send_queue_tail, sendbuffer, pc,
                   accepted, wire, header, failed, attempts>>

-----------------------------------------------------------------------------
(* The write loop of xmpp_run_once. *)

\* Mutant of run_once_begin: only a queued item makes it send the record.
run_once_begin_lazy ==
    /\ pc = "idle" /\ state = "CONNECTED" /\ pc' = "write"
    /\ UNCHANGED <<net, send_queue, send_queue_tail, sendbuffer, accepted, wire>>

\* tls_clear_pending_write: nothing to do, sent, kept for later, or a failure, after
\* which the loop is entered all the same.
run_once_begin ==
    /\ pc = "idle" /\ state = "CONNECTED" /\ pc' = "write"
    /\ \/ wire' = wire \o Run(sendbuffer.from, sendbuffer.to)
          /\ sendbuffer' = Empty /\ UNCHANGED net
       \/ Pending > 0 /\ UNCHANGED <<net, sendbuffer, wire>>
       \/ Pending > 0 /\ Disconnect /\ error' = TRUE /\ failed' = TRUE
          /\ UNCHANGED <<wire, header, attempts>>
    /\ UNCHANGED <<send_queue, send_queue_tail, accepted>>

First   == send_queue[1].first + send_queue[1].written
ToWrite == send_queue[1].len - send_queue[1].written

\* Mutant of Reported: the tail is not cleared with the queue.
Reported_keeps_tail(n) ==
    /\ IF n = ToWrite
       THEN /\ send_queue' = Tail(send_queue)
            /\ send_queue_tail' = IF Len(send_queue) = 1 THEN "freed" ELSE send_queue_tail
            /\ pc' = "write"
       ELSE /\ send_queue' = [send_queue EXCEPT ![1].written = @ + n]
            /\ UNCHANGED send_queue_tail
            /\ pc' = "wrote"
    /\ UNCHANGED <<net, accepted>>

\* The write returned n: the item is popped, or the loop ends in the middle of it.
Reported(n) ==
    /\ IF n = ToWrite
       THEN /\ send_queue' = Tail(send_queue)
            /\ send_queue_tail' = IF Len(send_queue) = 1 THEN "NULL" ELSE send_queue_tail
            /\ pc' = "write"
       ELSE /\ send_queue' = [send_queue EXCEPT ![1].written = @ + n]
            /\ UNCHANGED send_queue_tail
            /\ pc' = "wrote"
    /\ UNCHANGED <<net, accepted>>

\* The write would have blocked, or was interrupted.
Again ==
    /\ pc' = "wrote"
    /\ UNCHANGED <<net, send_queue, send_queue_tail, sendbuffer, accepted, wire>>

\* An error that is not recoverable.
Fails ==
    /\ pc' = "wrote" /\ error' = TRUE /\ failed' = TRUE
    /\ UNCHANGED <<state, tls, header, attempts, send_queue, send_queue_tail, accepted>>

\* sock_write, or tls_write of OpenSSL; on a socket already closed it fails.
write_direct ==
    /\ pc = "write" /\ send_queue # <<>> /\ tls # "schannel"
    /\ \/ /\ state = "CONNECTED"
          /\ \E n \in 0 .. ToWrite :
                Reported(n) /\ wire' = wire \o Run(First, First + n - 1)
          /\ UNCHANGED sendbuffer
       \/ state = "CONNECTED" /\ Again
       \/ Fails /\ UNCHANGED <<sendbuffer, wire>>

\* tls_write of Schannel cannot send the record it kept.
write_blocked ==
    /\ pc = "write" /\ send_queue # <<>> /\ tls = "schannel" /\ Pending > 0
    /\ \/ Again
       \/ Reported(0) /\ UNCHANGED <<sendbuffer, wire>>
       \/ Fails /\ UNCHANGED <<sendbuffer, wire>>

\* Mutant of write_records: the record kept is replaced by the next one.
write_records_overwrites ==
    /\ pc = "write" /\ send_queue # <<>> /\ tls = "schannel"
    /\ \E n \in 0 .. ToWrite :
          /\ n % MaxMessage = 0 \/ n = ToWrite
          /\ LET more == IF n + MaxMessage < ToWrite THEN MaxMessage ELSE ToWrite - n
             IN /\ wire' = wire \o Run(First, First + n - 1)
                /\ sendbuffer' = Record(First + n, more)
                /\ Reported(n + more)

\* It sends that record, then n bytes in whole records, and then is done, keeps the
\* next record and reports it as sent, or fails.
write_records ==
    /\ pc = "write" /\ send_queue # <<>> /\ tls = "schannel"
    /\ \E n \in 0 .. ToWrite :
          /\ n % MaxMessage = 0 \/ n = ToWrite
          /\ wire' = wire \o Run(sendbuffer.from, sendbuffer.to) \o Run(First, First + n - 1)
          /\ LET more == IF n + MaxMessage < ToWrite THEN MaxMessage ELSE ToWrite - n
             IN \/ /\ sendbuffer' = Record(First + n, more)
                   /\ Reported(n + more)
                \/ n < ToWrite /\ sendbuffer' = Empty /\ Fails

\* The loop is over; an error, even one of an earlier connection, ends this one.
run_once_end ==
    /\ pc = "wrote" \/ (pc = "write" /\ send_queue = <<>>)
    /\ pc' = "idle"
    /\ IF error THEN Disconnect ELSE UNCHANGED <<state, tls, sendbuffer>>
    /\ UNCHANGED <<error, header, failed, attempts, send_queue, send_queue_tail,
                   accepted, wire>>

-----------------------------------------------------------------------------
Loop == run_once_begin \/ write_direct \/ write_blocked \/ write_records \/ run_once_end

Next == xmpp_send_raw \/ connect \/ conn_disconnect \/ tls_start \/ Loop

Spec == Init /\ [][Next]_vars

\* xmpp_run never stops; a peer that keeps reading lets a kept record go and a whole
\* item be written again and again.
ClearAll == run_once_begin /\ sendbuffer' = Empty
WriteAll == (write_direct \/ write_records) /\ Len(send_queue') < Len(send_queue)

FairSpec == Spec /\ WF_vars(Loop) /\ SF_vars(ClearAll) /\ SF_vars(WriteAll)

-----------------------------------------------------------------------------
TypeOK ==
    /\ state \in {"DISCONNECTED", "CONNECTED"}
    /\ tls \in {"none", "openssl", "schannel"}
    /\ error \in BOOLEAN /\ failed \in BOOLEAN
    /\ send_queue \in Seq(Item)
    /\ send_queue_tail \in {"NULL", "last", "freed"}
    /\ sendbuffer \in [from : Nat \ {0}, to : Nat]
    /\ pc \in {"idle", "write", "wrote"}
    /\ accepted \in Nat /\ header \in Nat /\ attempts \in Nat
    /\ wire \in Seq(Nat \ {0})

\* The byte that is taken from the queue next.
NextByte == IF send_queue = <<>> THEN accepted + 1 ELSE First

\* The items are consecutive runs that end with the last byte accepted, and only the
\* first has been begun.
Queued ==
    /\ \A i \in 1 .. Len(send_queue) :
          /\ send_queue[i].written <= send_queue[i].len
          /\ send_queue[i].first + send_queue[i].len <= accepted + 1
    /\ \A i \in 1 .. Len(send_queue) - 1 :
          /\ send_queue[i + 1].first = send_queue[i].first + send_queue[i].len
          /\ send_queue[i + 1].written = 0
    /\ send_queue # <<>> =>
          send_queue[Len(send_queue)].first + send_queue[Len(send_queue)].len = accepted + 1

\* What has been taken from the queue is on the wire or in the record that is kept.
Taken ==
    /\ \A i \in 1 .. Len(wire) - 1 : wire[i + 1] = wire[i] + 1
    /\ wire # <<>> => wire[Len(wire)] <= accepted
    /\ state = "CONNECTED" /\ ~failed =>
          /\ wire # <<>> => wire[Len(wire)] = NextByte - 1 - Pending
          /\ Pending > 0 => sendbuffer.to = NextByte - 1

\* send_queue_tail is NULL or the last item (conn.c:613-620, event.c:154-156), the queue
\* and the record kept hold exactly what has been accepted and not sent, and a
\* failure is remembered until the connection has ended.
QueueInv ==
    /\ TypeOK
    /\ send_queue_tail = IF send_queue = <<>> THEN "NULL" ELSE "last"
    /\ Queued
    /\ Taken
    /\ Pending >= 0 /\ (Pending > 0 => tls = "schannel")
    /\ state = "DISCONNECTED" => tls = "none"
    /\ failed => error /\ (pc = "wrote" \/ state = "DISCONNECTED")

\* The queue with everything below it is a byte stream: partial writes, records kept
\* by Schannel, writes cut off by errors and appends between them neither lose,
\* repeat nor reorder a byte of a connection (event.c:115-157, conn.c:613-620,
\* tls_schannel.c:558-658).
Stream == INSTANCE ByteStream
StreamSpec == Stream!Spec

\* What is accepted while connected reaches the peer, or the connection ends: not even
\* the last record, which the queue has forgotten, stays behind (event.c:100-104).
Delivered ==
    \A n \in 1 .. MaxAccepted + HeaderLen * MaxAttempts :
        (state = "CONNECTED" /\ accepted >= n) ~>
            (state = "DISCONNECTED" \/ (wire # <<>> /\ wire[Len(wire)] >= n))

\* The first byte of a connection is that of its stream header (conn.c:649-651).
HeaderFirst == wire # <<>> => wire[1] = header
=============================================================================
