----------------------------- MODULE NetNewline -----------------------------
(***************************************************************************)
(* Lines that end in a network newline, taken out of a byte buffer: the    *)
(* code A4/hcq_server.c and Lab10/bufserver.c share.  A buffer is a        *)
(* function from its indices, from 0, to bytes.                            *)
(***************************************************************************)
EXTENDS Integers, FiniteSetsExt

CONSTANTS CR, LF, NUL

\* (faulty variant) the two bytes are looked for in the wrong order.
find_swapped(buf, n, limit) ==
    LET hits == {i \in 0 .. n - 1 :
                   buf[i] = LF /\ i + 1 \in DOMAIN buf /\ buf[i + 1] = CR}
    IN  IF n > limit \/ hits = {} THEN -1 ELSE Min(hits) + 2

\* One plus the index of the LF of the first network newline that starts in
\* the first n bytes, or -1.  The LF itself may be at index n, past the input.
find_network_newline(buf, n, limit) ==
    LET hits == {i \in 0 .. n - 1 :
                   buf[i] = CR /\ i + 1 \in DOMAIN buf /\ buf[i + 1] = LF}
    IN  IF n > limit \/ hits = {} THEN -1 ELSE Min(hits) + 2

\* (faulty variant) the carriage return stays in the text.
LineTextCr(buf, where) == [i \in 1 .. where - 1 |-> buf[i - 1]]

\* The text a line's handler sees: up to where - 2, which is set to NUL.
LineText(buf, where) == [i \in 1 .. where - 2 |-> buf[i - 1]]

\* (faulty variant) the line feed is moved along with what follows it.
ShiftShort(buf, where, left) ==
    [i \in DOMAIN buf |->
        CASE i < left -> buf[where - 1 + i]
          [] i >= left /\ i < where - 1 -> NUL
          [] OTHER -> buf[i]]

\* The memset of where - 1 bytes and the memmove of what follows the line.
\* Neither touches the LF at where - 1, unless the bytes moved reach it, nor
\* the old copies of the bytes moved.
Shift(buf, where, left) ==
    [i \in DOMAIN buf |->
        CASE i < left -> buf[where + i]
          [] i >= left /\ i < where - 1 -> NUL
          [] OTHER -> buf[i]]

\* (faulty variant) a newline that ends past the input is handled like any other.
NoOverrun(where, inbuf) == FALSE

\* memmove is passed a negative count, a huge size_t, when the newline found
\* ends past the input.
Overrun(where, inbuf) == where > inbuf
=============================================================================
