------------------------------- MODULE Base64 --------------------------------
(***************************************************************************)
(* The Base64 codec of sasl.c.  A byte is a number below 256.  A character *)
(* is its value in _base64_invcharmap, of which _base64_charmap is the     *)
(* inverse: below 64, 64 for the padding, 65 for any other.                *)
(***************************************************************************)
EXTENDS Integers, Sequences

CONSTANTS NULL, UNDEFINED   \* a failure, and behaviour the C language leaves open

PAD == 64

base64_encoded_len(len) == ((len + 2) \div 3) * 4

Word(q)     == q[1] * 262144 + q[2] * 4096 + q[3] * 64 + q[4]
Bytes(word) == <<word \div 65536, (word \div 256) % 256, word % 256>>

\* Four characters for three bytes.
Hextets(b) ==
    LET word == b[1] * 65536 + b[2] * 256 + b[3]
    IN <<word \div 262144, (word \div 4096) % 64, (word \div 64) % 64, word % 64>>

\* What one or two bytes left over become.
Leftover(b) ==
    CASE Len(b) = 0 -> <<>>
      [] Len(b) = 1 -> <<b[1] \div 4, (b[1] % 4) * 16, PAD, PAD>>
      [] Len(b) = 2 -> <<b[1] \div 4, (b[1] % 4) * 16 + b[2] \div 16, (b[2] % 16) * 4, PAD>>

RECURSIVE Encoded(_)
Encoded(b) ==
    IF Len(b) < 3 THEN Leftover(b) ELSE Hextets(b) \o Encoded(SubSeq(b, 4, Len(b)))

\* The bound len - 2 of the loop is unsigned, so that the loop does not end where it should
\* for less than two bytes.
base64_encode(buffer) == IF Len(buffer) < 2 THEN UNDEFINED ELSE Encoded(buffer)

\* Mutant of base64_decoded_len: the padding is not taken off.
base64_decoded_len_full(buffer) == 3 * (Len(buffer) \div 4)

\* From the last three characters; 0 for bad coding.
base64_decoded_len(buffer) ==
    LET len == Len(buffer)
        padding == IF buffer[len] < PAD THEN 0
                   ELSE IF buffer[len] = PAD /\ buffer[len - 1] < PAD THEN 1
                   ELSE IF buffer[len] = PAD /\ buffer[len - 1] = PAD /\ buffer[len - 2] < PAD
                        THEN 2 ELSE -1
    IN IF padding < 0 THEN 0 ELSE 3 * (len \div 4) - padding

\* The quartets in front of the first character that is no digit, and that character.
RECURSIVE Quartets(_)
Quartets(buffer) ==
    LET bad == {i \in 1 .. 4 : buffer[i] >= PAD}
    IN IF buffer = <<>> THEN [bytes |-> <<>>, stopped |-> 0]
       ELSE IF bad # {}
            THEN [bytes |-> <<>>, stopped |-> buffer[CHOOSE i \in bad : \A j \in bad : i <= j]]
       ELSE LET rest == Quartets(SubSeq(buffer, 5, Len(buffer)))
            IN [rest EXCEPT !.bytes = Bytes(Word(buffer)) \o @]

\* The last quartet once more.
Remainder(q, count) ==
    LET word == q[1] * 1024 + q[2] * 16 + q[3] \div 4
    IN CASE count = 0 -> <<>>
         [] count = 1 /\ q[1] < PAD /\ q[2] < PAD /\ q[3] = PAD /\ q[4] = PAD ->
              <<q[1] * 4 + q[2] \div 16>>
         [] count = 2 /\ q[1] < PAD /\ q[2] < PAD /\ q[3] < PAD /\ q[4] = PAD ->
              <<word \div 256, word % 256>>
         [] OTHER -> NULL

\* Padding further in front stops the loop, but is no error.  The buffer has room for
\* base64_decoded_len bytes.
base64_decode(buffer) ==
    LET len == Len(buffer)
    IN IF len % 4 # 0 THEN NULL
       ELSE IF len = 0 THEN UNDEFINED
       ELSE LET dlen == base64_decoded_len(buffer)
                loop == Quartets(buffer)
                rest == Remainder(SubSeq(buffer, len - 3, len), dlen % 3)
            IN IF Len(loop.bytes) > dlen THEN UNDEFINED
               ELSE IF loop.stopped > PAD \/ rest = NULL THEN NULL
               ELSE loop.bytes \o rest
=============================================================================
