----------------------------- MODULE ByteStream -----------------------------
(***************************************************************************)
(* What the send queue promises to its user and to the peer.  The bytes    *)
(* given to xmpp_send_raw are numbered in the order in which they were     *)
(* accepted.  On one connection the peer receives an unbroken run of       *)
(* accepted bytes: none is lost, repeated, reordered or made up.  Nothing  *)
(* is promised about where the run of a new connection begins.             *)
(***************************************************************************)
EXTENDS Naturals, Sequences

VARIABLES
    accepted,   \* how many bytes have been accepted
    wire        \* the bytes the peer has received on this connection

Consecutive(s) == \A i \in 1 .. Len(s) - 1 : s[i + 1] = s[i] + 1

Init == accepted = 0 /\ wire = <<>>

Accept == accepted' \in Nat /\ accepted' > accepted /\ UNCHANGED wire

Deliver ==
    /\ Len(wire') > Len(wire)
    /\ SubSeq(wire', 1, Len(wire)) = wire
    /\ Consecutive(wire')
    /\ wire'[1] >= 1 /\ wire'[Len(wire')] <= accepted
    /\ UNCHANGED accepted

\* A connection begins; the stream header is the first thing accepted for it.
Connect == wire' = <<>> /\ accepted' \in Nat /\ accepted' >= accepted

Next == Accept \/ Deliver \/ Connect

Spec == Init /\ [][Next]_<<accepted, wire>>
=============================================================================
