----------------------------- MODULE BufServer -----------------------------
(***************************************************************************)
(* Lab10: randclient.c sends a message several times, in pieces of random  *)
(* size; bufserver.c reads whatever the connection delivers, and prints    *)
(* each line once it is complete.  The server takes one connection at a    *)
(* time; the connection is a byte stream that may cut and join the pieces  *)
(* in any way.                                                             *)
(*                                                                         *)
(* bytes and inuse are the server's buf and inbuf, and Buf stands before   *)
(* the names every specification has: the proofs extend this module and    *)
(* LineReader.                                                             *)
(***************************************************************************)
EXTENDS NetNewline, Sequences

CONSTANTS
    BUFSIZE,
    MESSAGE,        \* what randclient sends, a network newline at its end
    TIMES,          \* how often it sends it
    MINCHARS, MAXCHARS  \* sizes of the pieces it writes

ASSUME BufAssumption ==
    /\ MESSAGE \in Seq({MESSAGE[i] : i \in DOMAIN MESSAGE})
    /\ BUFSIZE \in Nat /\ Len(MESSAGE) \in 2 .. BUFSIZE /\ TIMES \in Nat
    /\ MINCHARS \in 1 .. MAXCHARS /\ MAXCHARS \in Nat
    /\ \A i \in 1 .. Len(MESSAGE) :
          /\ MESSAGE[i] = CR <=> i = Len(MESSAGE) - 1
          /\ MESSAGE[i] = LF <=> i = Len(MESSAGE)

VARIABLES
    current_byte,   \* randclient: bytes written so far; -1 before it connects
    hungup,         \* randclient has closed its socket
    pc,             \* bufserver: "accept", "read", "scan" or "crashed"
    taken,          \* bytes of this connection the server has read
    bytes, inuse,     \* bufserver's buffer
    printed         \* the messages printed for this connection

client == <<current_byte, hungup>>
server == <<pc, taken, bytes, inuse, printed>>
bufvars == <<client, server>>

total_bytes == TIMES * Len(MESSAGE)
\* Byte k (from 0) of what a connection carries.
StreamByte(k) == MESSAGE[(k % Len(MESSAGE)) + 1]
MessageBytes == {MESSAGE[i] : i \in DOMAIN MESSAGE} \cup {NUL}
EmptyBuf == [i \in 0 .. BUFSIZE - 1 |-> NUL]

BufTypeOK ==
    /\ current_byte \in -1 .. total_bytes /\ hungup \in BOOLEAN
    /\ pc \in {"accept", "read", "scan", "crashed"}
    /\ taken \in 0 .. total_bytes
    /\ bytes \in [0 .. BUFSIZE - 1 -> MessageBytes]
    /\ inuse \in 0 .. BUFSIZE
    /\ printed \in Seq(Seq(MessageBytes))

BufInit ==
    /\ current_byte = -1 /\ hungup = FALSE
    /\ pc = "accept" /\ taken = 0 /\ bytes = EmptyBuf /\ inuse = 0 /\ printed = << >>

-----------------------------------------------------------------------------
(* randclient *)

\* A fresh client connects once the connection before it is over.
connect_to_server ==
    /\ current_byte = -1
    /\ current_byte' = 0
    /\ UNCHANGED <<hungup, server>>

write_random_pieces ==
    /\ current_byte \in 0 .. total_bytes - 1
    /\ \E piece_size \in MINCHARS .. MAXCHARS :
         current_byte' = Min({current_byte + piece_size, total_bytes})
    /\ UNCHANGED <<hungup, server>>

close_client ==
    /\ current_byte = total_bytes /\ ~hungup
    /\ hungup' = TRUE
    /\ UNCHANGED <<current_byte, server>>

-----------------------------------------------------------------------------
(* bufserver *)

accept_connection ==
    /\ pc = "accept" /\ current_byte # -1
    /\ pc' = "read" /\ taken' = 0 /\ bytes' = EmptyBuf /\ inuse' = 0 /\ printed' = << >>
    /\ UNCHANGED client

\* (faulty variant) the whole buffer is offered to read every time.
whole_buffer == BUFSIZE

space == BUFSIZE - inuse

\* read returns at least one byte, at most room, of what has been written.
read ==
    LET avail == current_byte - taken
    IN  /\ pc = "read"
        /\ \E nbytes \in 1 .. Min({space, avail}) :
             /\ bytes' = [i \in DOMAIN bytes |->
                          IF i \in inuse .. inuse + nbytes - 1
                            THEN StreamByte(taken + i - inuse) ELSE bytes[i]]
             /\ inuse' = inuse + nbytes
             /\ taken' = taken + nbytes
        /\ pc' = "scan"
        /\ UNCHANGED <<client, printed>>

where == find_network_newline(bytes, inuse, BUFSIZE)

\* One round of the inner loop: print the line, move the rest to the front.
take_line ==
    /\ pc = "scan" /\ where # -1
    /\ printed' = Append(printed, LineText(bytes, where))
    /\ IF Overrun(where, inuse)
         THEN pc' = "crashed" /\ UNCHANGED <<bytes, inuse>>
         ELSE /\ inuse' = inuse - where
              /\ bytes' = Shift([bytes EXCEPT ![where - 2] = NUL], where, inuse - where)
              /\ UNCHANGED pc
    /\ UNCHANGED <<client, taken>>

no_line ==
    /\ pc = "scan" /\ where = -1
    /\ pc' = "read"
    /\ UNCHANGED <<client, taken, bytes, inuse, printed>>

\* (faulty variant) the end of the client's input is not noticed.
NoRoom == inuse = BUFSIZE

\* read returns 0: the client is gone, or the buffer has no room left.
ReadsNothing == (hungup /\ taken = current_byte) \/ inuse = BUFSIZE

end_connection ==
    /\ pc = "read" /\ ReadsNothing
    /\ pc' = "accept"
    /\ current_byte' = -1 /\ hungup' = FALSE
    /\ UNCHANGED <<taken, bytes, inuse, printed>>

ServerStep == accept_connection \/ read \/ take_line \/ no_line \/ end_connection
ClientStep == connect_to_server \/ write_random_pieces \/ close_client
BufNext == ServerStep \/ ClientStep

\* Both processes run; clients keep coming.
BufSpec == BufInit /\ [][BufNext]_bufvars /\ WF_bufvars(ServerStep) /\ WF_bufvars(ClientStep)

-----------------------------------------------------------------------------
(* Properties *)

\* No byte is lost, duplicated or reordered, however the stream is cut: every line
\* printed is the message without its newline, and what was read is the printed
\* lines followed by what the buffer holds.
StreamIsKept ==
    /\ \A k \in DOMAIN printed : printed[k] = SubSeq(MESSAGE, 1, Len(MESSAGE) - 2)
    /\ pc \in {"read", "scan"} =>
        /\ taken = Len(printed) * Len(MESSAGE) + inuse
        /\ \A i \in 0 .. inuse - 1 : bytes[i] = StreamByte(Len(printed) * Len(MESSAGE) + i)

\* The server always has room for more input: it hangs up on no client that
\* sends lines that fit, and only when all its lines were printed.
HangsUpOnlyAtTheEnd ==
    [][end_connection => hungup /\ Len(printed) = TIMES]_bufvars

\* Every connection is served to its end, so the next one gets its turn, unless
\* the server crashes.
EveryConnectionEnds == []<>(pc \in {"accept", "crashed"})

\* (refuted by a CR at the end of the input) a newline is found only inside the input ("search the first n characters").
NewlineInInput == pc = "scan" => where <= inuse
=============================================================================
