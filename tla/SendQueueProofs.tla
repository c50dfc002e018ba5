-------------------------- MODULE SendQueueProofs --------------------------
(***************************************************************************)
(* Theorems about SendQueue, for every value of its constants: QueueInv is *)
(* an invariant, and the queue implements ByteStream.                      *)
(***************************************************************************)
EXTENDS SendQueue, TLAPS, SequenceTheorems

Byte == Nat \ {0}

\* What Taken says of the wire alone.
Unbroken(w) == \A i \in 1 .. Len(w) - 1 : w[i + 1] = w[i] + 1

-----------------------------------------------------------------------------
(* Runs of bytes. *)

\* A run of n bytes is a sequence of n bytes, and its last is the one it ends with.
LEMMA RunType ==
    ASSUME NEW from \in Byte, NEW n \in Nat
    PROVE  /\ Run(from, from + n - 1) \in Seq(Byte)
           /\ Len(Run(from, from + n - 1)) = n
           /\ \A i \in 1 .. n : Run(from, from + n - 1)[i] = from + i - 1
<1>1. (from + n - 1) - from + 1 = n BY DEF Byte
<1>2. Run(from, from + n - 1) = [i \in 1 .. n |-> from + i - 1] BY <1>1 DEF Run
<1>3. \A i \in 1 .. n : from + i - 1 \in Byte BY DEF Byte
<1>4. [i \in 1 .. n |-> from + i - 1] \in [1 .. n -> Byte] BY <1>3
<1> QED BY <1>2, <1>4, SeqDef, LenProperties

\* An unbroken wire is continued, not broken, by a run that begins where it ends.
LEMMA Extend ==
    ASSUME NEW w \in Seq(Byte), Unbroken(w), NEW from \in Byte, NEW n \in Nat,
           n > 0 /\ w # <<>> => w[Len(w)] = from - 1
    PROVE  LET v == w \o Run(from, from + n - 1)
           IN /\ v \in Seq(Byte) /\ Unbroken(v)
              /\ Len(v) = Len(w) + n
              /\ \A i \in 1 .. Len(w) : v[i] = w[i]
              /\ n = 0 => v = w
              /\ n > 0 => v[Len(v)] = from + n - 1
<1> DEFINE r == Run(from, from + n - 1)
           v == w \o r
<1>1. /\ r \in Seq(Byte) /\ Len(r) = n
      /\ \A i \in 1 .. n : r[i] = from + i - 1
  BY RunType
<1> HIDE DEF r
<1>2. v \in Seq(Byte) /\ Len(v) = Len(w) + n BY <1>1
<1>3. \A i \in 1 .. Len(w) : v[i] = w[i] BY <1>1
<1>4. \A i \in 1 .. n : v[Len(w) + i] = from + i - 1 BY <1>1
<1>5. Unbroken(v)
  <2> SUFFICES ASSUME NEW i \in 1 .. Len(v) - 1 PROVE v[i + 1] = v[i] + 1
    BY DEF Unbroken
  <2>1. Len(w) \in Nat /\ i \in Nat /\ i >= 1 /\ i <= Len(w) + n - 1 BY <1>2
  <2>2. CASE i < Len(w)
    <3>1. v[i] = w[i] /\ v[i + 1] = w[i + 1] BY <1>3, <2>1, <2>2
    <3>2. i \in 1 .. Len(w) - 1 BY <2>1, <2>2
    <3> QED BY <3>1, <3>2 DEF Unbroken
  <2>3. CASE i = Len(w)
    <3>1. w # <<>> /\ v[i] = w[Len(w)] BY <1>3, <2>1, <2>3
    <3>2. n > 0 /\ 1 \in 1 .. n BY <2>1, <2>3
    <3>3. v[i + 1] = from + 1 - 1 BY <1>4, <2>3, <3>2
    <3> QED BY <3>1, <3>2, <3>3 DEF Byte
  <2>4. CASE i > Len(w)
    <3> DEFINE j == i - Len(w)
    <3>1. j \in 1 .. n /\ j + 1 \in 1 .. n BY <2>1, <2>4
    <3>2. i = Len(w) + j /\ i + 1 = Len(w) + (j + 1) BY <2>1
    <3>3. v[i] = from + j - 1 /\ v[i + 1] = from + (j + 1) - 1 BY <1>4, <3>1, <3>2
    <3> QED BY <3>1, <3>3 DEF Byte
  <2> QED BY <2>1, <2>2, <2>3, <2>4
<1>6. n = 0 => v = w
  <2> SUFFICES ASSUME n = 0 PROVE v = w OBVIOUS
  <2>1. Len(v) = Len(w) BY <1>2
  <2> QED BY <1>2, <1>3, <2>1, SeqEqual
<1>7. n > 0 => v[Len(v)] = from + n - 1
  <2> SUFFICES ASSUME n > 0 PROVE v[Len(v)] = from + n - 1 OBVIOUS
  <2>1. n \in 1 .. n /\ Len(v) = Len(w) + n BY <1>2
  <2> QED BY <1>4, <2>1
<1> QED BY <1>2, <1>3, <1>5, <1>6, <1>7 DEF r

\* A sequence that agrees with w where w is defined has w as a prefix.
LEMMA PrefixOf ==
    ASSUME NEW w \in Seq(Byte), NEW v \in Seq(Byte), Len(v) >= Len(w),
           \A i \in 1 .. Len(w) : v[i] = w[i]
    PROVE  SubSeq(v, 1, Len(w)) = w
<1>1. Len(w) \in Nat /\ Len(v) \in Nat OBVIOUS
<1>2. SubSeq(v, 1, Len(w)) \in Seq(Byte) /\ Len(SubSeq(v, 1, Len(w))) = Len(w)
  BY <1>1
<1>3. \A i \in 1 .. Len(w) : SubSeq(v, 1, Len(w))[i] = w[i] BY <1>1
<1> QED BY <1>2, <1>3, SeqEqual

-----------------------------------------------------------------------------
(* The two operations on the queue. *)

\* xmpp_send_raw puts the accepted bytes behind all others.
LEMMA SendRawInv ==
    ASSUME QueueInv, NEW len \in Nat, SendRaw(len)
    PROVE  /\ accepted' \in Nat /\ accepted' = accepted + len
           /\ send_queue' \in Seq(Item)
           /\ send_queue_tail' = "last" /\ send_queue' # <<>>
           /\ Queued'
           /\ NextByte' = NextByte
<1> DEFINE item == [first |-> accepted + 1, len |-> len, written |-> 0]
           q == send_queue
<1>1. /\ accepted \in Nat /\ q \in Seq(Item) /\ Queued
      /\ send_queue_tail = IF q = <<>> THEN "NULL" ELSE "last"
  BY DEF QueueInv, TypeOK
<1>2. item \in Item BY <1>1 DEF Item
<1>3. accepted' = accepted + len BY DEF SendRaw
<1>4. CASE q = <<>>
  <2>1. send_queue' = <<item>> /\ send_queue_tail' = "last" BY <1>1, <1>4 DEF SendRaw
  <2>2. send_queue' \in Seq(Item) BY <1>2, <2>1
  <2>3. NextByte' = NextByte BY <1>1, <1>4, <2>1 DEF NextByte, First
  <2>4. item.first = accepted + 1 /\ item.len = len /\ item.written = 0 OBVIOUS
  <2> HIDE DEF item
  <2>5. Len(send_queue') = 1 /\ send_queue'[1] = item BY <2>1
  <2>6. Queued'
    <3>1. (accepted + 1) + len = accepted' + 1 /\ 0 <= len BY <1>1, <1>3
    <3>2. \A i \in 1 .. Len(send_queue') :
             /\ send_queue'[i].written <= send_queue'[i].len
             /\ send_queue'[i].first + send_queue'[i].len <= accepted' + 1
      BY <1>1, <1>3, <2>4, <2>5, <3>1
    <3>3. 1 .. Len(send_queue') - 1 = {} BY <2>5
    <3>4. send_queue'[Len(send_queue')].first + send_queue'[Len(send_queue')].len
             = accepted' + 1
      BY <2>4, <2>5, <3>1
    <3> QED BY <3>2, <3>3, <3>4 DEF Queued
  <2> QED BY <1>1, <1>3, <2>1, <2>2, <2>3, <2>6
<1>5. CASE q # <<>>
  <2>1. send_queue' = Append(q, item) /\ send_queue_tail' = "last"
    BY <1>1, <1>5 DEF SendRaw
  <2> HIDE DEF item
  <2>2. /\ send_queue' \in Seq(Item) /\ Len(send_queue') = Len(q) + 1
        /\ Len(q) \in Nat /\ Len(q) > 0
        /\ \A i \in 1 .. Len(q) : send_queue'[i] = q[i]
        /\ send_queue'[Len(q) + 1] = item
    BY <1>1, <1>2, <1>5, <2>1
  <2>3. item.first = accepted + 1 /\ item.len = len /\ item.written = 0 BY DEF item
  <2>4. \A i \in 1 .. Len(q) : q[i] \in Item BY <1>1
  <2>5. \A i \in 1 .. Len(q) : q[i].first \in Nat /\ q[i].len \in Nat /\ q[i].written \in Nat
    BY <2>4 DEF Item
  <2>6. ASSUME NEW i \in 1 .. Len(send_queue')
        PROVE  /\ send_queue'[i].written <= send_queue'[i].len
               /\ send_queue'[i].first + send_queue'[i].len <= accepted' + 1
    <3>1. CASE i \in 1 .. Len(q)
      <4>1. q[i].written <= q[i].len /\ q[i].first + q[i].len <= accepted + 1
        BY <1>1, <3>1 DEF Queued
      <4> QED BY <1>1, <1>3, <2>2, <2>5, <3>1, <4>1
    <3>2. CASE i = Len(q) + 1 BY <1>1, <1>3, <2>2, <2>3, <3>2
    <3> QED BY <2>2, <3>1, <3>2
  <2>7. ASSUME NEW i \in 1 .. Len(send_queue') - 1
        PROVE  /\ send_queue'[i + 1].first = send_queue'[i].first + send_queue'[i].len
               /\ send_queue'[i + 1].written = 0
    <3>1. CASE i < Len(q)
      <4>1. i \in 1 .. Len(q) - 1 /\ i \in 1 .. Len(q) /\ i + 1 \in 1 .. Len(q)
        BY <2>2, <3>1
      <4> QED BY <1>1, <2>2, <4>1 DEF Queued
    <3>2. CASE i = Len(q)
      <4>1. q[Len(q)].first + q[Len(q)].len = accepted + 1 BY <1>1, <1>5 DEF Queued
      <4>2. i \in 1 .. Len(q) BY <2>2, <3>2
      <4> QED BY <2>2, <2>3, <3>2, <4>1, <4>2
    <3> QED BY <2>2, <3>1, <3>2
  <2>8. send_queue'[Len(send_queue')].first + send_queue'[Len(send_queue')].len = accepted' + 1
    BY <1>1, <1>3, <2>2, <2>3
  <2>9. Queued' BY <2>6, <2>7, <2>8 DEF Queued
  <2>10. NextByte' = NextByte
    <3>1. send_queue' # <<>> /\ send_queue'[1] = q[1] BY <2>2
    <3> QED BY <1>5, <3>1 DEF NextByte, First
  <2> QED BY <1>1, <1>3, <2>1, <2>2, <2>9, <2>10
<1> QED BY <1>4, <1>5

\* What is next and how much is left of it, when something is queued.
LEMMA NextType ==
    ASSUME QueueInv
    PROVE  /\ NextByte \in Byte /\ NextByte <= accepted + 1
           /\ send_queue # <<>> =>
                 /\ First = NextByte /\ ToWrite \in Nat
                 /\ First + ToWrite <= accepted + 1
                 /\ First + ToWrite = send_queue[1].first + send_queue[1].len
<1>1. accepted \in Nat /\ send_queue \in Seq(Item) /\ Queued BY DEF QueueInv, TypeOK
<1>2. CASE send_queue = <<>> BY <1>1, <1>2 DEF NextByte, Byte
<1>3. CASE send_queue # <<>>
  <2>1. 1 \in 1 .. Len(send_queue) /\ send_queue[1] \in Item BY <1>1, <1>3
  <2>2. /\ send_queue[1].first \in Byte /\ send_queue[1].len \in Nat
        /\ send_queue[1].written \in Nat
    BY <2>1 DEF Item, Byte
  <2>3. /\ send_queue[1].written <= send_queue[1].len
        /\ send_queue[1].first + send_queue[1].len <= accepted + 1
    BY <1>1, <2>1 DEF Queued
  <2> QED BY <1>1, <1>3, <2>2, <2>3 DEF NextByte, First, ToWrite, Byte
<1> QED BY <1>2, <1>3

\* A write that reports n bytes takes the next n bytes from the queue.
LEMMA ReportedInv ==
    ASSUME QueueInv, send_queue # <<>>, NEW n \in 0 .. ToWrite, Reported(n)
    PROVE  /\ send_queue' \in Seq(Item)
           /\ send_queue_tail' = IF send_queue' = <<>> THEN "NULL" ELSE "last"
           /\ pc' \in {"write", "wrote"}
           /\ UNCHANGED <<net, accepted>>
           /\ Queued'
           /\ NextByte' = NextByte + n
<1> DEFINE q == send_queue
<1>1. /\ accepted \in Nat /\ q \in Seq(Item) /\ Queued
      /\ send_queue_tail = IF q = <<>> THEN "NULL" ELSE "last"
  BY DEF QueueInv, TypeOK
<1>2. /\ First = NextByte /\ ToWrite \in Nat /\ First \in Byte /\ n \in Nat
      /\ First + ToWrite = q[1].first + q[1].len
  BY NextType
<1>3. UNCHANGED <<net, accepted>> /\ pc' \in {"write", "wrote"} BY DEF Reported
<1>4. \A i \in 1 .. Len(q) :
         /\ q[i] \in Item /\ q[i].first \in Byte /\ q[i].len \in Nat
         /\ q[i].written \in Nat
  <2> SUFFICES ASSUME NEW i \in 1 .. Len(q)
               PROVE  /\ q[i] \in Item /\ q[i].first \in Byte /\ q[i].len \in Nat
                      /\ q[i].written \in Nat
    OBVIOUS
  <2>1. q[i] \in Item BY <1>1
  <2> QED BY <2>1 DEF Item, Byte
<1>5. Len(q) \in Nat /\ Len(q) > 0 BY <1>1
<1>6. CASE n = ToWrite
  <2>1. /\ send_queue' = Tail(q)
        /\ send_queue_tail' = IF Len(q) = 1 THEN "NULL" ELSE send_queue_tail
    BY <1>6 DEF Reported
  <2>2. /\ send_queue' \in Seq(Item) /\ Len(send_queue') = Len(q) - 1
        /\ \A i \in 1 .. Len(q) - 1 : send_queue'[i] = q[i + 1]
    BY <1>1, <1>5, <2>1
  <2>3. send_queue' = <<>> <=> Len(q) = 1 BY <2>2, <1>5
  <2>4. ASSUME NEW i \in 1 .. Len(q) - 1
        PROVE  /\ send_queue'[i].written <= send_queue'[i].len
               /\ send_queue'[i].first + send_queue'[i].len <= accepted + 1
    <3>1. i + 1 \in 1 .. Len(q) BY <1>5
    <3> QED BY <1>1, <2>2, <3>1 DEF Queued
  <2>5. ASSUME NEW i \in 1 .. Len(q) - 2
        PROVE  /\ send_queue'[i + 1].first = send_queue'[i].first + send_queue'[i].len
               /\ send_queue'[i + 1].written = 0
    <3>1. i \in 1 .. Len(q) - 1 /\ i + 1 \in 1 .. Len(q) - 1 BY <1>5
    <3>2. send_queue'[i] = q[i + 1] /\ send_queue'[i + 1] = q[(i + 1) + 1]
      BY <2>2, <3>1
    <3> QED BY <1>1, <3>1, <3>2 DEF Queued
  <2>6. ASSUME Len(q) # 1
        PROVE  /\ Len(q) - 1 \in 1 .. Len(q) - 1
               /\ send_queue'[Len(q) - 1] = q[Len(q)]
    <3>0. \A k \in Nat : k > 0 /\ k # 1 => k - 1 \in 1 .. k - 1 /\ (k - 1) + 1 = k
      OBVIOUS
    <3>1. Len(q) - 1 \in 1 .. Len(q) - 1 /\ (Len(q) - 1) + 1 = Len(q)
      BY <1>5, <2>6, <3>0
    <3> QED BY <2>2, <3>1
  <2>7. q[Len(q)].first + q[Len(q)].len = accepted + 1 BY <1>1 DEF Queued
  <2>8. Len(send_queue') - 1 = Len(q) - 2 BY <1>5, <2>2
  <2>9. Queued' BY <1>3, <2>2, <2>3, <2>4, <2>5, <2>6, <2>7, <2>8 DEF Queued
  <2>10. NextByte' = NextByte + n
    <3>1. CASE Len(q) = 1
      <4>1. send_queue' = <<>> /\ NextByte' = accepted + 1
        BY <1>3, <2>3, <3>1 DEF NextByte
      <4>2. q[1].first + q[1].len = accepted + 1 BY <2>7, <3>1
      <4> QED BY <1>2, <1>6, <4>1, <4>2 DEF Byte
    <3>2. CASE Len(q) # 1
      <4>0. \A k \in Nat : k > 0 /\ k # 1 =>
               1 \in 1 .. k - 1 /\ 1 \in 1 .. k /\ 1 + 1 \in 1 .. k
        OBVIOUS
      <4>1. 1 \in 1 .. Len(q) - 1 /\ 1 \in 1 .. Len(q) /\ 1 + 1 \in 1 .. Len(q)
        BY <1>5, <3>2, <4>0
      <4>2. send_queue'[1] = q[1 + 1] BY <2>2, <4>1
      <4>3. q[1 + 1].first = q[1].first + q[1].len /\ q[1 + 1].written = 0
        BY <1>1, <4>1 DEF Queued
      <4>4. NextByte' = send_queue'[1].first + send_queue'[1].written
        BY <2>3, <3>2 DEF NextByte, First
      <4> QED BY <1>2, <1>4, <1>6, <4>1, <4>2, <4>3, <4>4 DEF Byte
    <3> QED BY <3>1, <3>2
  <2> QED BY <1>1, <1>3, <2>1, <2>2, <2>3, <2>9, <2>10
<1>7. CASE n # ToWrite
  <2> DEFINE it == [q[1] EXCEPT !.written = q[1].written + n]
  <2>1. send_queue' = [q EXCEPT ![1] = it] /\ send_queue_tail' = send_queue_tail
    BY <1>7 DEF Reported
  <2>2. /\ it \in Item /\ it.first = q[1].first /\ it.len = q[1].len
        /\ it.written = q[1].written + n
    BY <1>2, <1>4, <1>5 DEF Item
  <2>3. it.written <= it.len BY <1>2, <1>4, <1>5, <2>2 DEF ToWrite
  <2> HIDE DEF it
  <2>4. /\ send_queue' \in Seq(Item) /\ Len(send_queue') = Len(q)
        /\ send_queue'[1] = it /\ send_queue' # <<>>
        /\ \A i \in 2 .. Len(q) : send_queue'[i] = q[i]
    BY <1>1, <1>5, <2>1, <2>2
  <2>5. \A i \in 1 .. Len(q) :
           /\ send_queue'[i].first = q[i].first /\ send_queue'[i].len = q[i].len
           /\ i # 1 => send_queue'[i].written = q[i].written
    <3>1. \A i \in 1 .. Len(q) : i = 1 \/ i \in 2 .. Len(q) BY <1>5
    <3> QED BY <2>2, <2>4, <3>1
  <2>6. ASSUME NEW i \in 1 .. Len(q)
        PROVE  /\ send_queue'[i].written <= send_queue'[i].len
               /\ send_queue'[i].first + send_queue'[i].len <= accepted + 1
    <3>1. q[i].written <= q[i].len /\ q[i].first + q[i].len <= accepted + 1
      BY <1>1 DEF Queued
    <3> QED BY <2>3, <2>4, <2>5, <3>1
  <2>7. ASSUME NEW i \in 1 .. Len(q) - 1
        PROVE  /\ send_queue'[i + 1].first = send_queue'[i].first + send_queue'[i].len
               /\ send_queue'[i + 1].written = 0
    <3>1. i \in 1 .. Len(q) /\ i + 1 \in 1 .. Len(q) /\ i + 1 # 1 BY <1>5
    <3> QED BY <1>1, <2>5, <3>1 DEF Queued
  <2>8. send_queue'[Len(q)].first + send_queue'[Len(q)].len = accepted + 1
    BY <1>1, <1>5, <2>5 DEF Queued
  <2>9. Queued' BY <1>3, <2>4, <2>6, <2>7, <2>8 DEF Queued
  <2>10. NextByte' = NextByte + n
    <3>1. NextByte' = send_queue'[1].first + send_queue'[1].written
      BY <2>4 DEF NextByte, First
    <3>2. NextByte = q[1].first + q[1].written BY <1>2 DEF First
    <3>3. q[1].first \in Nat /\ q[1].written \in Nat BY <1>4, <1>5 DEF Byte
    <3> QED BY <1>2, <2>2, <2>4, <3>1, <3>2, <3>3
  <2> QED BY <1>1, <1>3, <2>1, <2>4, <2>9, <2>10
<1> QED BY <1>6, <1>7

-----------------------------------------------------------------------------
(* The wire. *)

\* A wire that only grows, without a gap and up to what has been accepted, is what a
\* ByteStream delivers.
LEMMA Delivers ==
    ASSUME QueueInv, accepted' = accepted,
           wire' \in Seq(Byte), Len(wire') >= Len(wire), Unbroken(wire'),
           \A i \in 1 .. Len(wire) : wire'[i] = wire[i],
           Len(wire') = Len(wire) => wire' = wire,
           wire' # <<>> => wire'[Len(wire')] <= accepted
    PROVE  [Stream!Next]_<<accepted, wire>>
<1>1. wire \in Seq(Byte) BY DEF QueueInv, TypeOK, Byte
<1>2. CASE Len(wire') = Len(wire) BY <1>2
<1>3. CASE Len(wire') # Len(wire)
  <2>1. Len(wire') > Len(wire) /\ Len(wire') \in Nat /\ Len(wire) \in Nat BY <1>1, <1>3
  <2>2. SubSeq(wire', 1, Len(wire)) = wire BY <1>1, PrefixOf
  <2>3. wire' # <<>> /\ 1 \in 1 .. Len(wire') BY <2>1
  <2>4. wire'[1] \in Byte BY <2>3
  <2>5. Stream!Deliver
    BY <2>1, <2>2, <2>3, <2>4 DEF Stream!Deliver, Stream!Consecutive, Unbroken, Byte
  <2> QED BY <2>5 DEF Stream!Next
<1> QED BY <1>2, <1>3

\* Where the wire ends, on a connection that has not failed.
LEMMA WireEnd ==
    ASSUME QueueInv, state = "CONNECTED", ~failed
    PROVE  /\ wire \in Seq(Byte) /\ Unbroken(wire) /\ accepted \in Nat
           /\ sendbuffer.from \in Byte /\ Pending \in Nat
           /\ wire # <<>> => wire[Len(wire)] = NextByte - 1 - Pending
           /\ Pending > 0 => sendbuffer.from + Pending = NextByte
           /\ Run(sendbuffer.from, sendbuffer.to)
                = Run(sendbuffer.from, sendbuffer.from + Pending - 1)
<1>1. /\ wire \in Seq(Byte) /\ sendbuffer.from \in Byte /\ sendbuffer.to \in Nat
      /\ accepted \in Nat
  BY DEF QueueInv, TypeOK, Byte
<1>2. Pending \in Nat BY <1>1 DEF QueueInv, Pending, Byte
<1>3. sendbuffer.to = sendbuffer.from + Pending - 1 BY <1>1 DEF Pending, Byte
<1>4. Unbroken(wire) BY DEF QueueInv, Taken, Unbroken
<1>5. /\ wire # <<>> => wire[Len(wire)] = NextByte - 1 - Pending
      /\ Pending > 0 => sendbuffer.to = NextByte - 1
  BY DEF QueueInv, Taken
<1>6. NextByte \in Byte BY NextType
<1> QED BY <1>1, <1>2, <1>3, <1>4, <1>5, <1>6 DEF Byte

\* The wire after the record that was kept has been sent.
LEMMA RecordSent ==
    ASSUME QueueInv, state = "CONNECTED", ~failed
    PROVE  LET v == wire \o Run(sendbuffer.from, sendbuffer.to)
           IN /\ v \in Seq(Byte) /\ Unbroken(v)
              /\ Len(v) = Len(wire) + Pending
              /\ \A i \in 1 .. Len(wire) : v[i] = wire[i]
              /\ Pending = 0 => v = wire
              /\ v # <<>> => v[Len(v)] = NextByte - 1
<1> DEFINE v == wire \o Run(sendbuffer.from, sendbuffer.to)
<1>1. /\ wire \in Seq(Byte) /\ Unbroken(wire)
      /\ sendbuffer.from \in Byte /\ Pending \in Nat
      /\ wire # <<>> => wire[Len(wire)] = NextByte - 1 - Pending
      /\ Pending > 0 => sendbuffer.from + Pending = NextByte
      /\ v = wire \o Run(sendbuffer.from, sendbuffer.from + Pending - 1)
  BY WireEnd
<1>2. NextByte \in Byte BY NextType
<1>3. Pending > 0 /\ wire # <<>> => wire[Len(wire)] = sendbuffer.from - 1
  BY <1>1, <1>2 DEF Byte
<1> HIDE DEF v
<1>4. /\ v \in Seq(Byte) /\ Unbroken(v)
      /\ Len(v) = Len(wire) + Pending
      /\ \A i \in 1 .. Len(wire) : v[i] = wire[i]
      /\ Pending = 0 => v = wire
      /\ Pending > 0 => v[Len(v)] = sendbuffer.from + Pending - 1
  BY <1>1, <1>3, Extend
<1>5. v # <<>> => v[Len(v)] = NextByte - 1
  <2>1. CASE Pending = 0
    <3>0. NextByte - 1 - Pending = NextByte - 1 BY <1>2, <2>1 DEF Byte
    <3>1. wire # <<>> => wire[Len(wire)] = NextByte - 1 BY <1>1, <3>0
    <3>2. v = wire BY <1>4, <2>1
    <3> QED BY <3>1, <3>2
  <2>2. CASE Pending # 0
    <3>1. Pending > 0 BY <1>1, <2>2
    <3>2. sendbuffer.from + Pending = NextByte BY <1>1, <3>1
    <3>3. sendbuffer.from \in Int /\ Pending \in Int /\ NextByte \in Int
      BY <1>1, <1>2 DEF Byte
    <3>4. sendbuffer.from + Pending - 1 = NextByte - 1 BY <3>2, <3>3
    <3> QED BY <1>4, <3>1, <3>4
  <2> QED BY <2>1, <2>2
<1> QED BY <1>4, <1>5 DEF v

\* The wire after that record and the next n bytes of the queue have been sent.
LEMMA BytesSent ==
    ASSUME QueueInv, state = "CONNECTED", ~failed, send_queue # <<>>,
           NEW n \in 0 .. ToWrite
    PROVE  LET v == wire \o Run(sendbuffer.from, sendbuffer.to)
                         \o Run(First, First + n - 1)
           IN /\ v \in Seq(Byte) /\ Unbroken(v)
              /\ Len(v) >= Len(wire)
              /\ \A i \in 1 .. Len(wire) : v[i] = wire[i]
              /\ Len(v) = Len(wire) => v = wire
              /\ v # <<>> => v[Len(v)] = NextByte + n - 1 /\ v[Len(v)] <= accepted
              /\ Pending = 0 => v = wire \o Run(First, First + n - 1)
<1> DEFINE u == wire \o Run(sendbuffer.from, sendbuffer.to)
           v == u \o Run(First, First + n - 1)
<1>1. /\ u \in Seq(Byte) /\ Unbroken(u)
      /\ Len(u) = Len(wire) + Pending
      /\ \A i \in 1 .. Len(wire) : u[i] = wire[i]
      /\ Pending = 0 => u = wire
      /\ u # <<>> => u[Len(u)] = NextByte - 1
  BY RecordSent
<1>2. /\ First = NextByte /\ First \in Byte /\ n \in Nat /\ ToWrite \in Nat
      /\ First + ToWrite <= accepted + 1
  BY NextType
<1>3. wire \in Seq(Byte) /\ Pending \in Nat /\ accepted \in Nat BY WireEnd
<1> HIDE DEF u
<1>4. /\ v \in Seq(Byte) /\ Unbroken(v)
      /\ Len(v) = Len(u) + n
      /\ \A i \in 1 .. Len(u) : v[i] = u[i]
      /\ n = 0 => v = u
      /\ n > 0 => v[Len(v)] = First + n - 1
  BY <1>1, <1>2, Extend
<1> HIDE DEF v
<1>5. Len(v) = Len(wire) + Pending + n /\ Len(wire) \in Nat BY <1>1, <1>2, <1>3, <1>4
<1>6. \A i \in 1 .. Len(wire) : v[i] = wire[i]
  <2> TAKE i \in 1 .. Len(wire)
  <2>1. i \in 1 .. Len(u) BY <1>1, <1>3, <1>5
  <2> QED BY <1>1, <1>4, <2>1
<1>7. Len(v) = Len(wire) => v = wire BY <1>1, <1>2, <1>3, <1>4, <1>5
<1>8. v # <<>> => v[Len(v)] = NextByte + n - 1
  <2>1. CASE n = 0
    <3>1. v = u BY <1>4, <2>1
    <3>2. NextByte + n - 1 = NextByte - 1 BY <1>2, <2>1 DEF Byte
    <3> QED BY <1>1, <3>1, <3>2
  <2>2. CASE n # 0
    <3>1. n > 0 BY <1>2, <2>2
    <3> QED BY <1>2, <1>4, <3>1
  <2> QED BY <2>1, <2>2
<1>9. NextByte + n - 1 <= accepted BY <1>2, <1>3 DEF Byte
<1>10. Pending = 0 => v = wire \o Run(First, First + n - 1) BY <1>1 DEF v
<1>11. Len(v) >= Len(wire) BY <1>2, <1>3, <1>5
<1>12. /\ v \in Seq(Byte) /\ Unbroken(v)
       /\ Len(v) >= Len(wire)
       /\ \A i \in 1 .. Len(wire) : v[i] = wire[i]
       /\ Len(v) = Len(wire) => v = wire
       /\ v # <<>> => v[Len(v)] = NextByte + n - 1 /\ v[Len(v)] <= accepted
       /\ Pending = 0 => v = wire \o Run(First, First + n - 1)
  BY <1>4, <1>6, <1>7, <1>8, <1>9, <1>10, <1>11
<1> QED BY <1>12 DEF v, u

-----------------------------------------------------------------------------
(* The steps. *)

LEMMA InitInv == Init => QueueInv /\ Stream!Init
<1> SUFFICES ASSUME Init PROVE QueueInv /\ Stream!Init
  OBVIOUS
<1>0. /\ send_queue \in Seq(Item) /\ wire \in Seq(Nat \ {0})
      /\ sendbuffer \in [from : Nat \ {0}, to : Nat]
  BY DEF Init, Empty
<1>1. TypeOK BY <1>0 DEF Init, TypeOK
<1>2. Len(send_queue) = 0 /\ Len(wire) = 0 BY DEF Init
<1>3. Queued BY <1>2 DEF Init, Queued
<1>4. Pending = 0 BY DEF Init, Empty, Pending
<1>5. Taken BY <1>2, <1>4 DEF Init, Taken
<1>6. QueueInv BY <1>1, <1>3, <1>4, <1>5 DEF Init, QueueInv
<1> QED BY <1>6 DEF Init, Stream!Init

\* Appending to the queue, on the connection there is.
LEMMA SendStep == QueueInv /\ xmpp_send_raw => QueueInv' /\ [Stream!Next]_<<accepted, wire>>
<1> SUFFICES ASSUME QueueInv, xmpp_send_raw
             PROVE  QueueInv' /\ [Stream!Next]_<<accepted, wire>>
  OBVIOUS
<1>1. PICK len \in 0 .. MaxLen : SendRaw(len) BY DEF xmpp_send_raw
<1>2. len \in Nat BY SendQueueAssumption
<1>3. /\ accepted' \in Nat /\ accepted' = accepted + len
      /\ send_queue' \in Seq(Item)
      /\ send_queue_tail' = "last" /\ send_queue' # <<>>
      /\ Queued' /\ NextByte' = NextByte
  BY <1>1, <1>2, SendRawInv
<1>4. accepted \in Nat /\ wire \in Seq(Byte) BY DEF QueueInv, TypeOK, Byte
<1>5. UNCHANGED <<net, sendbuffer, pc, wire>> BY DEF xmpp_send_raw
<1>6. TypeOK' BY <1>3, <1>5 DEF QueueInv, TypeOK, net
<1>7. Pending' = Pending BY <1>5 DEF Pending
<1>8. wire # <<>> => wire[Len(wire)] <= accepted'
  <2> SUFFICES ASSUME wire # <<>> PROVE wire[Len(wire)] <= accepted' OBVIOUS
  <2>1. wire[Len(wire)] \in Nat BY <1>4 DEF Byte
  <2>2. wire[Len(wire)] <= accepted BY DEF QueueInv, Taken
  <2> QED BY <1>2, <1>3, <1>4, <2>1, <2>2
<1>9. Taken' BY <1>3, <1>5, <1>7, <1>8 DEF QueueInv, Taken, net
<1>10. QueueInv' BY <1>3, <1>5, <1>6, <1>7, <1>9 DEF QueueInv, net
<1>11. Stream!Accept \/ accepted' = accepted
  BY <1>2, <1>3, <1>4, <1>5 DEF Stream!Accept
<1> QED BY <1>5, <1>10, <1>11 DEF Stream!Next

LEMMA ConnectStep == QueueInv /\ connect => QueueInv' /\ [Stream!Next]_<<accepted, wire>>
<1> SUFFICES ASSUME QueueInv, connect
             PROVE  QueueInv' /\ [Stream!Next]_<<accepted, wire>>
  OBVIOUS
<1>1. SendRaw(HeaderLen) /\ HeaderLen \in Nat BY SendQueueAssumption DEF connect
<1>2. /\ accepted' \in Nat /\ accepted' = accepted + HeaderLen
      /\ send_queue' \in Seq(Item)
      /\ send_queue_tail' = "last" /\ send_queue' # <<>>
      /\ Queued' /\ NextByte' = NextByte
  BY <1>1, SendRawInv
<1>3. /\ state' = "CONNECTED" /\ failed' = FALSE /\ wire' = <<>>
      /\ UNCHANGED <<tls, error, sendbuffer, pc>>
      /\ header' = accepted + 1 /\ attempts' = attempts + 1
      /\ state = "DISCONNECTED"
  BY DEF connect
<1>4. accepted \in Nat /\ attempts \in Nat BY DEF QueueInv, TypeOK
<1>5. TypeOK'
  <2>1. wire' \in Seq(Nat \ {0}) /\ header' \in Nat /\ attempts' \in Nat
    BY <1>3, <1>4
  <2> QED BY <1>2, <1>3, <2>1 DEF QueueInv, TypeOK
<1>6. Pending' = Pending BY <1>3 DEF Pending
<1>7. Pending = 0
  <2>1. tls = "none" BY <1>3 DEF QueueInv
  <2>2. Pending >= 0 /\ ~(Pending > 0) BY <2>1 DEF QueueInv
  <2>3. Pending \in Int BY DEF QueueInv, TypeOK, Pending
  <2> QED BY <2>2, <2>3
<1>8. Len(wire') = 0 BY <1>3
<1>9. Taken' BY <1>3, <1>6, <1>7, <1>8 DEF Taken
<1>10. QueueInv' BY <1>2, <1>3, <1>5, <1>6, <1>7, <1>9 DEF QueueInv
<1>11. Stream!Connect BY <1>1, <1>2, <1>3, <1>4 DEF Stream!Connect
<1> QED BY <1>10, <1>11 DEF Stream!Next

\* What disconnecting does, whatever it is for, keeps the invariant.
LEMMA DisconnectInv ==
    ASSUME QueueInv, Disconnect,
           UNCHANGED <<send_queue, send_queue_tail, accepted, wire, header, attempts>>,
           error' \in BOOLEAN, failed' \in BOOLEAN, failed' => error',
           pc' \in {"idle", "write", "wrote"}
    PROVE  QueueInv'
<1>1. state' = "DISCONNECTED" /\ tls' = "none" /\ sendbuffer' = Empty BY DEF Disconnect
<1>2. Pending' = 0 BY <1>1 DEF Empty, Pending
<1>3. TypeOK' BY <1>1 DEF QueueInv, TypeOK, Empty
<1>4. Queued' BY DEF QueueInv, Queued
<1>5. Taken' BY <1>1 DEF QueueInv, Taken
<1> QED BY <1>1, <1>2, <1>3, <1>4, <1>5 DEF QueueInv

LEMMA CallStep ==
    QueueInv /\ (conn_disconnect \/ tls_start) =>
        QueueInv' /\ [Stream!Next]_<<accepted, wire>>
<1> SUFFICES ASSUME QueueInv, conn_disconnect \/ tls_start
             PROVE  QueueInv' /\ [Stream!Next]_<<accepted, wire>>
  OBVIOUS
<1>1. CASE conn_disconnect
  <2>1. /\ Disconnect /\ error' \in {error, TRUE}
        /\ UNCHANGED <<send_queue, send_queue_tail, pc, accepted, wire, header, failed,
                       attempts>>
    BY <1>1 DEF conn_disconnect
  <2>2. /\ error \in BOOLEAN /\ failed \in BOOLEAN /\ (failed => error)
        /\ pc \in {"idle", "write", "wrote"}
    BY DEF QueueInv, TypeOK
  <2>3. QueueInv' BY <2>1, <2>2, DisconnectInv
  <2> QED BY <2>1, <2>3
<1>2. CASE tls_start
  <2>1. /\ tls' \in {"openssl", "schannel"} /\ state = "CONNECTED" /\ tls = "none"
        /\ UNCHANGED <<state, error, send_queue, send_queue_tail, sendbuffer, pc,
                       accepted, wire, header, failed, attempts>>
    BY <1>2, SendQueueAssumption DEF tls_start
  <2>2. Pending' = Pending /\ NextByte' = NextByte
    BY <2>1 DEF Pending, NextByte, First
  <2>3. ~(Pending > 0) BY <2>1 DEF QueueInv
  <2>4. TypeOK' BY <2>1 DEF QueueInv, TypeOK
  <2>5. Queued' BY <2>1 DEF QueueInv, Queued
  <2>6. Taken' BY <2>1, <2>2 DEF QueueInv, Taken
  <2>7. QueueInv' BY <2>1, <2>2, <2>3, <2>4, <2>5, <2>6 DEF QueueInv
  <2> QED BY <2>1, <2>7
<1> QED BY <1>1, <1>2

LEMMA BeginStep ==
    QueueInv /\ run_once_begin => QueueInv' /\ [Stream!Next]_<<accepted, wire>>
<1> SUFFICES ASSUME QueueInv, run_once_begin
             PROVE  QueueInv' /\ [Stream!Next]_<<accepted, wire>>
  OBVIOUS
<1>1. /\ pc = "idle" /\ state = "CONNECTED" /\ pc' = "write"
      /\ UNCHANGED <<send_queue, send_queue_tail, accepted>>
  BY DEF run_once_begin
<1>2. ~failed BY <1>1 DEF QueueInv
<1>3. NextByte' = NextByte /\ (Queued => Queued')
  BY <1>1 DEF NextByte, First, Queued
<1>4. CASE /\ wire' = wire \o Run(sendbuffer.from, sendbuffer.to)
           /\ sendbuffer' = Empty /\ UNCHANGED net
  <2>1. /\ wire' \in Seq(Byte) /\ Unbroken(wire')
        /\ Len(wire') = Len(wire) + Pending
        /\ \A i \in 1 .. Len(wire) : wire'[i] = wire[i]
        /\ Pending = 0 => wire' = wire
        /\ wire' # <<>> => wire'[Len(wire')] = NextByte - 1
    BY <1>1, <1>2, <1>4, RecordSent
  <2>2. /\ Pending \in Nat /\ accepted \in Nat /\ wire \in Seq(Byte)
        /\ NextByte \in Byte /\ NextByte <= accepted + 1
    BY <1>1, <1>2, WireEnd, NextType
  <2>3. Pending' = 0 BY <1>4 DEF Empty, Pending
  <2>4. NextByte - 1 <= accepted /\ NextByte - 1 - 0 = NextByte - 1 BY <2>2 DEF Byte
  <2>5. TypeOK' BY <1>1, <1>4, <2>1 DEF QueueInv, TypeOK, net, Empty, Byte
  <2>6. Taken' BY <1>1, <1>3, <2>1, <2>3, <2>4 DEF Taken, Unbroken
  <2>7. QueueInv' BY <1>1, <1>2, <1>3, <1>4, <2>3, <2>5, <2>6 DEF QueueInv, net
  <2>8. Len(wire') = Len(wire) => wire' = wire BY <2>1, <2>2
  <2>9. Len(wire') >= Len(wire) BY <2>1, <2>2
  <2>10. [Stream!Next]_<<accepted, wire>>
    BY <1>1, <2>1, <2>4, <2>8, <2>9, Delivers
  <2> QED BY <2>7, <2>10
<1>5. CASE UNCHANGED <<net, sendbuffer, wire>>
  <2>1. Pending' = Pending BY <1>5 DEF Pending
  <2>2. TypeOK' BY <1>1, <1>5 DEF QueueInv, TypeOK, net
  <2>3. Taken' BY <1>1, <1>3, <1>5, <2>1 DEF QueueInv, Taken, net
  <2>4. QueueInv' BY <1>1, <1>2, <1>3, <1>5, <2>1, <2>2, <2>3 DEF QueueInv, net
  <2> QED BY <1>1, <1>5, <2>4
<1>6. CASE /\ Disconnect /\ error' = TRUE /\ failed' = TRUE
           /\ UNCHANGED <<wire, header, attempts>>
  <2>1. QueueInv' BY <1>1, <1>6, DisconnectInv
  <2> QED BY <1>1, <1>6, <2>1
<1> QED BY <1>4, <1>5, <1>6 DEF run_once_begin

\* What keeps the invariant when a write is over: the queue, the wire and the record
\* agree again.
LEMMA WrittenInv ==
    ASSUME QueueInv, state = "CONNECTED", ~failed, UNCHANGED <<net, accepted>>,
           pc' \in {"write", "wrote"},
           send_queue' \in Seq(Item), Queued',
           send_queue_tail' = IF send_queue' = <<>> THEN "NULL" ELSE "last",
           wire' \in Seq(Byte), Unbroken(wire'),
           wire' # <<>> => wire'[Len(wire')] <= accepted,
           sendbuffer' \in [from : Byte, to : Nat],
           Pending' >= 0, Pending' > 0 => tls = "schannel",
           wire' # <<>> => wire'[Len(wire')] = NextByte' - 1 - Pending',
           Pending' > 0 => sendbuffer'.to = NextByte' - 1
    PROVE  QueueInv'
<1>1. TypeOK' BY DEF QueueInv, TypeOK, Byte, net
<1>2. Taken' BY DEF Taken, Unbroken, net
<1> QED BY <1>1, <1>2 DEF QueueInv, net

\* Or a failure has been noted, and nothing more is promised of this connection.
LEMMA FailedInv ==
    ASSUME QueueInv, Fails,
           wire' \in Seq(Byte), Unbroken(wire'),
           wire' # <<>> => wire'[Len(wire')] <= accepted,
           sendbuffer' \in [from : Byte, to : Nat],
           Pending' >= 0, Pending' > 0 => tls = "schannel"
    PROVE  QueueInv' /\ accepted' = accepted
<1>1. /\ pc' = "wrote" /\ error' = TRUE /\ failed' = TRUE
      /\ UNCHANGED <<state, tls, header, attempts, send_queue, send_queue_tail, accepted>>
  BY DEF Fails
<1>2. TypeOK' BY <1>1 DEF QueueInv, TypeOK, Byte
<1>3. Taken' BY <1>1 DEF Taken, Unbroken
<1>4. Queued' BY <1>1 DEF QueueInv, Queued
<1> QED BY <1>1, <1>2, <1>3, <1>4 DEF QueueInv

\* A write that would block leaves everything as it is.
LEMMA AgainStep ==
    QueueInv /\ pc = "write" /\ Again => QueueInv' /\ [Stream!Next]_<<accepted, wire>>
<1> SUFFICES ASSUME QueueInv, pc = "write", Again
             PROVE  QueueInv' /\ [Stream!Next]_<<accepted, wire>>
  OBVIOUS
<1>1. /\ pc' = "wrote"
      /\ UNCHANGED <<net, send_queue, send_queue_tail, sendbuffer, accepted, wire>>
  BY DEF Again
<1>2. Pending' = Pending /\ NextByte' = NextByte
  BY <1>1 DEF Pending, NextByte, First
<1>3. Queued' /\ TypeOK' /\ Taken'
  BY <1>1, <1>2 DEF QueueInv, Queued, TypeOK, Taken, net
<1>4. failed => state = "DISCONNECTED" BY DEF QueueInv
<1> QED BY <1>1, <1>2, <1>3, <1>4 DEF QueueInv, net

\* What the invariant says of the wire, the queue and the record, for the steps below.
LEMMA Parts ==
    ASSUME QueueInv
    PROVE  /\ accepted \in Nat /\ wire \in Seq(Byte) /\ Unbroken(wire)
           /\ wire # <<>> => wire[Len(wire)] <= accepted
           /\ sendbuffer \in [from : Byte, to : Nat] /\ Pending \in Nat
           /\ send_queue \in Seq(Item)
           /\ pc = "write" /\ state = "CONNECTED" => ~failed
           /\ Pending > 0 => tls = "schannel"
           /\ state = "DISCONNECTED" => tls = "none"
           /\ state \in {"DISCONNECTED", "CONNECTED"}
<1>1. TypeOK /\ Taken BY DEF QueueInv
<1>2. sendbuffer \in [from : Byte, to : Nat] BY <1>1 DEF TypeOK, Byte
<1>3. Pending \in Nat BY <1>2 DEF QueueInv, Pending, Byte
<1> QED BY <1>1, <1>2, <1>3 DEF QueueInv, TypeOK, Taken, Unbroken, Byte

\* A write that fails with the record as it was.
LEMMA FailStep ==
    QueueInv /\ Fails /\ UNCHANGED <<sendbuffer, wire>> =>
        QueueInv' /\ [Stream!Next]_<<accepted, wire>>
<1> SUFFICES ASSUME QueueInv, Fails, UNCHANGED <<sendbuffer, wire>>
             PROVE  QueueInv' /\ accepted' = accepted
  OBVIOUS
<1>1. Pending' = Pending BY DEF Pending
<1>2. /\ wire' \in Seq(Byte) /\ Unbroken(wire')
      /\ wire' # <<>> => wire'[Len(wire')] <= accepted
      /\ sendbuffer' \in [from : Byte, to : Nat]
      /\ Pending' >= 0 /\ (Pending' > 0 => tls = "schannel")
  BY <1>1, Parts
<1> QED BY <1>2, FailedInv

LEMMA DirectStep ==
    QueueInv /\ write_direct => QueueInv' /\ [Stream!Next]_<<accepted, wire>>
<1> SUFFICES ASSUME QueueInv, write_direct
             PROVE  QueueInv' /\ [Stream!Next]_<<accepted, wire>>
  OBVIOUS
<1>1. pc = "write" /\ send_queue # <<>> /\ tls # "schannel" BY DEF write_direct
<1>2. Pending = 0 /\ (state = "CONNECTED" => ~failed) BY <1>1, Parts
<1>3. ASSUME state = "CONNECTED", NEW n \in 0 .. ToWrite,
             Reported(n), wire' = wire \o Run(First, First + n - 1),
             UNCHANGED sendbuffer
      PROVE  QueueInv' /\ [Stream!Next]_<<accepted, wire>>
  <2>1. LET v == wire \o Run(sendbuffer.from, sendbuffer.to)
                      \o Run(First, First + n - 1)
        IN /\ v \in Seq(Byte) /\ Unbroken(v)
           /\ Len(v) >= Len(wire)
           /\ \A i \in 1 .. Len(wire) : v[i] = wire[i]
           /\ Len(v) = Len(wire) => v = wire
           /\ v # <<>> => v[Len(v)] = NextByte + n - 1 /\ v[Len(v)] <= accepted
           /\ Pending = 0 => v = wire \o Run(First, First + n - 1)
    BY <1>1, <1>2, <1>3, BytesSent
  <2>2. /\ wire' \in Seq(Byte) /\ Unbroken(wire')
        /\ Len(wire') >= Len(wire)
        /\ \A i \in 1 .. Len(wire) : wire'[i] = wire[i]
        /\ Len(wire') = Len(wire) => wire' = wire
        /\ wire' # <<>> => /\ wire'[Len(wire')] = NextByte + n - 1
                           /\ wire'[Len(wire')] <= accepted
    BY <1>2, <1>3, <2>1
  <2>3. /\ send_queue' \in Seq(Item)
        /\ send_queue_tail' = IF send_queue' = <<>> THEN "NULL" ELSE "last"
        /\ pc' \in {"write", "wrote"}
        /\ UNCHANGED <<net, accepted>>
        /\ Queued'
        /\ NextByte' = NextByte + n
    BY <1>1, <1>3, ReportedInv
  <2>4. Pending' = 0 BY <1>2, <1>3 DEF Pending
  <2>5. NextByte \in Int /\ n \in Int BY <1>1, NextType DEF Byte
  <2>6. NextByte' - 1 - Pending' = NextByte + n - 1 BY <2>3, <2>4, <2>5
  <2>7. sendbuffer' \in [from : Byte, to : Nat] BY <1>3, Parts
  <2>8. wire' # <<>> => wire'[Len(wire')] = NextByte' - 1 - Pending' BY <2>2, <2>6
  <2>9. Pending' >= 0 /\ ~(Pending' > 0) BY <2>4
  <2>10. QueueInv' BY <1>2, <1>3, <2>2, <2>3, <2>7, <2>8, <2>9, WrittenInv
  <2>11. [Stream!Next]_<<accepted, wire>> BY <2>2, <2>3, Delivers
  <2> QED BY <2>10, <2>11
<1> QED BY <1>1, <1>3, AgainStep, FailStep DEF write_direct

LEMMA BlockedStep ==
    QueueInv /\ write_blocked => QueueInv' /\ [Stream!Next]_<<accepted, wire>>
<1> SUFFICES ASSUME QueueInv, write_blocked
             PROVE  QueueInv' /\ [Stream!Next]_<<accepted, wire>>
  OBVIOUS
<1>1. pc = "write" /\ send_queue # <<>> /\ tls = "schannel" /\ Pending > 0
  BY DEF write_blocked
<1>2. state = "CONNECTED" /\ ~failed BY <1>1, Parts
<1>3. ASSUME Reported(0), UNCHANGED <<sendbuffer, wire>>
      PROVE  QueueInv' /\ [Stream!Next]_<<accepted, wire>>
  <2>1. ToWrite \in Nat /\ NextByte \in Byte BY <1>1, NextType
  <2>2. 0 \in 0 .. ToWrite BY <2>1
  <2>3. /\ send_queue' \in Seq(Item)
        /\ send_queue_tail' = IF send_queue' = <<>> THEN "NULL" ELSE "last"
        /\ pc' \in {"write", "wrote"}
        /\ UNCHANGED <<net, accepted>>
        /\ Queued'
        /\ NextByte' = NextByte + 0
    BY <1>1, <1>3, <2>2, ReportedInv
  <2>4. NextByte' = NextByte BY <2>1, <2>3 DEF Byte
  <2>5. Pending' = Pending BY <1>3 DEF Pending
  <2>6. Taken BY DEF QueueInv
  <2>7. /\ wire' # <<>> => wire'[Len(wire')] = NextByte' - 1 - Pending'
        /\ Pending' > 0 => sendbuffer'.to = NextByte' - 1
    BY <1>2, <1>3, <2>4, <2>5, <2>6 DEF Taken
  <2>8. /\ wire' \in Seq(Byte) /\ Unbroken(wire')
        /\ wire' # <<>> => wire'[Len(wire')] <= accepted
        /\ sendbuffer' \in [from : Byte, to : Nat]
        /\ Pending' >= 0 /\ (Pending' > 0 => tls = "schannel")
    BY <1>3, <2>5, Parts
  <2>9. QueueInv' BY <1>2, <2>3, <2>7, <2>8, WrittenInv
  <2> QED BY <1>3, <2>3, <2>9
<1> QED BY <1>1, <1>3, AgainStep, FailStep DEF write_blocked

\* A record of m bytes from the byte f on, or none.
LEMMA RecordOf ==
    ASSUME NEW f \in Byte, NEW m \in Nat, sendbuffer' = Record(f, m)
    PROVE  /\ sendbuffer' \in [from : Byte, to : Nat] /\ Pending' = m
           /\ m > 0 => sendbuffer'.to = f + m - 1
<1>1. CASE m = 0 BY <1>1 DEF Record, Empty, Pending, Byte
<1>2. CASE m # 0
  <2>1. sendbuffer' = [from |-> f, to |-> f + m - 1] BY <1>2 DEF Record
  <2>2. f \in Int /\ m \in Int /\ f + m - 1 \in Nat BY DEF Byte
  <2>3. sendbuffer'.from = f /\ sendbuffer'.to = f + m - 1 BY <2>1
  <2>4. (f + m - 1) - f + 1 = m BY <2>2
  <2> QED BY <2>1, <2>2, <2>3, <2>4 DEF Pending
<1> QED BY <1>1, <1>2

LEMMA RecordsStep ==
    QueueInv /\ write_records => QueueInv' /\ [Stream!Next]_<<accepted, wire>>
<1> SUFFICES ASSUME QueueInv, write_records
             PROVE  QueueInv' /\ [Stream!Next]_<<accepted, wire>>
  OBVIOUS
<1>1. pc = "write" /\ send_queue # <<>> /\ tls = "schannel" BY DEF write_records
<1>2. state = "CONNECTED" /\ ~failed BY <1>1, Parts
<1> DEFINE more(n) == IF n + MaxMessage < ToWrite THEN MaxMessage ELSE ToWrite - n
<1>3. PICK n \in 0 .. ToWrite :
         /\ wire' = wire \o Run(sendbuffer.from, sendbuffer.to) \o Run(First, First + n - 1)
         /\ \/ sendbuffer' = Record(First + n, more(n)) /\ Reported(n + more(n))
            \/ sendbuffer' = Empty /\ Fails
  BY DEF write_records
<1>4. /\ ToWrite \in Nat /\ n \in Nat /\ First = NextByte /\ NextByte \in Byte
      /\ MaxMessage \in Nat
  BY <1>1, NextType, SendQueueAssumption
<1>5. more(n) \in Nat /\ n + more(n) \in 0 .. ToWrite BY <1>4
<1> HIDE DEF more
<1>6. LET v == wire \o Run(sendbuffer.from, sendbuffer.to)
                    \o Run(First, First + n - 1)
      IN /\ v \in Seq(Byte) /\ Unbroken(v)
         /\ Len(v) >= Len(wire)
         /\ \A i \in 1 .. Len(wire) : v[i] = wire[i]
         /\ Len(v) = Len(wire) => v = wire
         /\ v # <<>> => v[Len(v)] = NextByte + n - 1 /\ v[Len(v)] <= accepted
         /\ Pending = 0 => v = wire \o Run(First, First + n - 1)
  BY <1>1, <1>2, BytesSent
<1>7. /\ wire' \in Seq(Byte) /\ Unbroken(wire')
      /\ Len(wire') >= Len(wire)
      /\ \A i \in 1 .. Len(wire) : wire'[i] = wire[i]
      /\ Len(wire') = Len(wire) => wire' = wire
      /\ wire' # <<>> => wire'[Len(wire')] = NextByte + n - 1
      /\ wire' # <<>> => wire'[Len(wire')] <= accepted
  BY <1>3, <1>6
<1>8. ASSUME sendbuffer' = Record(First + n, more(n)), Reported(n + more(n))
      PROVE  QueueInv' /\ accepted' = accepted
  <2>1. /\ send_queue' \in Seq(Item)
        /\ send_queue_tail' = IF send_queue' = <<>> THEN "NULL" ELSE "last"
        /\ pc' \in {"write", "wrote"}
        /\ UNCHANGED <<net, accepted>>
        /\ Queued'
        /\ NextByte' = NextByte + (n + more(n))
    BY <1>1, <1>5, <1>8, ReportedInv
  <2>2. First + n \in Byte BY <1>4 DEF Byte
  <2>3. /\ sendbuffer' \in [from : Byte, to : Nat] /\ Pending' = more(n)
        /\ more(n) > 0 => sendbuffer'.to = (First + n) + more(n) - 1
    BY <1>5, <1>8, <2>2, RecordOf
  <2>4. \A b, k, m \in Int : /\ (b + (k + m)) - 1 - m = b + k - 1
                             /\ (b + k) + m - 1 = (b + (k + m)) - 1
    OBVIOUS
  <2>5. NextByte \in Int /\ n \in Int /\ more(n) \in Int BY <1>4, <1>5 DEF Byte
  <2>6. /\ NextByte' - 1 - Pending' = NextByte + n - 1
        /\ Pending' > 0 => sendbuffer'.to = NextByte' - 1
    BY <1>4, <2>1, <2>3, <2>4, <2>5
  <2>7. wire' # <<>> => wire'[Len(wire')] = NextByte' - 1 - Pending' BY <1>7, <2>6
  <2>8. Pending' >= 0 BY <1>5, <2>3
  <2>9. QueueInv' BY <1>1, <1>2, <1>7, <2>1, <2>3, <2>6, <2>7, <2>8, WrittenInv
  <2> QED BY <2>1, <2>9
<1>9. ASSUME sendbuffer' = Empty, Fails
      PROVE  QueueInv' /\ accepted' = accepted
  <2>1. sendbuffer' \in [from : Byte, to : Nat] /\ Pending' = 0
    BY <1>9 DEF Empty, Pending, Byte
  <2>2. Pending' >= 0 /\ ~(Pending' > 0) BY <2>1
  <2> QED BY <1>7, <1>9, <2>1, <2>2, FailedInv
<1>10. QueueInv' /\ accepted' = accepted BY <1>3, <1>8, <1>9
<1> QED BY <1>7, <1>10, Delivers

LEMMA EndStep ==
    QueueInv /\ run_once_end => QueueInv' /\ [Stream!Next]_<<accepted, wire>>
<1> SUFFICES ASSUME QueueInv, run_once_end
             PROVE  QueueInv' /\ [Stream!Next]_<<accepted, wire>>
  OBVIOUS
<1>1. /\ pc' = "idle"
      /\ IF error THEN Disconnect ELSE UNCHANGED <<state, tls, sendbuffer>>
      /\ UNCHANGED <<error, header, failed, attempts, send_queue, send_queue_tail,
                     accepted, wire>>
  BY DEF run_once_end
<1>2. error \in BOOLEAN /\ failed \in BOOLEAN /\ (failed => error)
  BY DEF QueueInv, TypeOK
<1>3. CASE error
  <2>1. Disconnect BY <1>1, <1>3
  <2>2. QueueInv' BY <1>1, <1>2, <2>1, DisconnectInv
  <2> QED BY <1>1, <2>2
<1>4. CASE ~error
  <2>1. UNCHANGED <<state, tls, sendbuffer>> /\ ~failed BY <1>1, <1>2, <1>4
  <2>2. Pending' = Pending /\ NextByte' = NextByte
    BY <1>1, <2>1 DEF Pending, NextByte, First
  <2>3. Queued' /\ TypeOK' /\ Taken'
    BY <1>1, <2>1, <2>2 DEF QueueInv, Queued, TypeOK, Taken
  <2>4. QueueInv' BY <1>1, <2>1, <2>2, <2>3 DEF QueueInv
  <2> QED BY <1>1, <2>4
<1> QED BY <1>2, <1>3, <1>4

\* Every step keeps the invariant and is a step of the ByteStream or changes nothing
\* of it.
LEMMA Step == QueueInv /\ [Next]_vars => QueueInv' /\ [Stream!Next]_<<accepted, wire>>
<1>1. QueueInv /\ Next => QueueInv' /\ [Stream!Next]_<<accepted, wire>>
  BY SendStep, ConnectStep, CallStep, BeginStep, DirectStep, BlockedStep, RecordsStep,
     EndStep DEF Next, Loop
<1>2. ASSUME QueueInv, UNCHANGED vars
      PROVE  QueueInv' /\ [Stream!Next]_<<accepted, wire>>
  <2>1. UNCHANGED <<net, send_queue, send_queue_tail, sendbuffer, pc, accepted, wire>>
    BY <1>2 DEF vars
  <2>2. UNCHANGED <<state, tls, error, header, failed, attempts>> BY <2>1 DEF net
  <2>3. Pending' = Pending /\ NextByte' = NextByte
    BY <2>1 DEF Pending, NextByte, First
  <2>4. Queued' /\ TypeOK' /\ Taken'
    BY <1>2, <2>1, <2>2, <2>3 DEF QueueInv, Queued, TypeOK, Taken
  <2>5. QueueInv' BY <1>2, <2>1, <2>2, <2>3, <2>4 DEF QueueInv
  <2> QED BY <2>1, <2>5
<1> QED BY <1>1, <1>2

-----------------------------------------------------------------------------
\* The tail pointer of the queue is NULL or the last item, the items are consecutive
\* with only the first begun, and queue, kept record and wire fit together, whatever
\* the lengths, the back ends and the order of calls (conn.c:602-621, event.c:98-166).
THEOREM QueueIsSound == Spec => []QueueInv
<1>1. Init => QueueInv BY InitInv
<1>2. QueueInv /\ [Next]_vars => QueueInv' BY Step
<1> QED BY <1>1, <1>2, PTL DEF Spec

\* The queue implements the ByteStream: no byte of a connection is lost, repeated or
\* reordered, whatever each write takes and whatever Schannel keeps back
\* (event.c:115-157, tls_schannel.c:558-658).
THEOREM QueueIsStream == Spec => StreamSpec
<1>1. Init => Stream!Init BY InitInv
<1>2. QueueInv /\ [Next]_vars => [Stream!Next]_<<accepted, wire>> BY Step
<1>3. Spec => []QueueInv BY QueueIsSound
<1> QED BY <1>1, <1>2, <1>3, PTL DEF Spec, StreamSpec, Stream!Spec
=============================================================================
