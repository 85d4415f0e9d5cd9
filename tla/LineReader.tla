----------------------------- MODULE LineReader -----------------------------
(***************************************************************************)
(* How hcq_server.c (A4) cuts one connection's input into commands: the    *)
(* buffer part of handle_client, for a user who sends arbitrary bytes.     *)
(* Unlike Lab10's server it handles at most one line for each read, reads  *)
(* once more when the buffer is nearly full, and drops the connection when *)
(* the buffer holds INPUT_BUFFER_SIZE bytes.                               *)
(***************************************************************************)
EXTENDS NetNewline, Sequences, FiniteSets

CONSTANTS
    INPUT_BUFFER_SIZE,
    Text,           \* bytes of ordinary text
    MaxBytes        \* bound on what the user sends

ASSUME ReaderAssumption ==
    /\ INPUT_BUFFER_SIZE \in Nat \ {0, 1, 2} /\ MaxBytes \in Nat
    /\ Text \cap {CR, LF, NUL} = {} /\ CR # LF /\ NUL \notin {CR, LF}

VARIABLES
    buf, inbuf,     \* client->buf and how much of it is in use
    room,           \* how much the next read may take
    eof,            \* the user has closed the connection
    alive,          \* "yes", "kicked" (remove_client) or "crashed"
    stream,         \* (history) every byte read
    commands        \* (history) the commands handled

vars == <<buf, inbuf, room, eof, alive, stream, commands>>

Size == INPUT_BUFFER_SIZE + 2
Bytes == Text \cup {CR, LF}

TypeOK ==
    /\ buf \in [0 .. Size - 1 -> Bytes \cup {NUL}]
    /\ inbuf \in 0 .. Size /\ room \in -2 .. Size /\ eof \in BOOLEAN
    /\ alive \in {"yes", "kicked", "crashed"}
    /\ stream \in Seq(Bytes) /\ commands \in Seq(Seq(Bytes))

\* add_client clears all but the last two bytes of the buffer.
Init ==
    /\ \E x, y \in Bytes \cup {NUL} :
         buf = [i \in 0 .. Size - 1 |->
                  IF i = Size - 2 THEN x ELSE IF i = Size - 1 THEN y ELSE NUL]
    /\ inbuf = 0 /\ room = Size
    /\ eof = FALSE /\ alive = "yes" /\ stream = << >> /\ commands = << >>

\* What read delivers: one byte or more, at most room.
Input == UNION {[1 .. k -> Bytes] : k \in 1 .. Min({room, MaxBytes - Len(stream)})}

\* What the next read may take.
Room(left) == INPUT_BUFFER_SIZE - left

\* The rest of handle_client, with m the buffer after the read, n bytes in use.
\* The command is handled before what follows it is moved to the front: when the
\* LF found lies behind the input, the server crashes having handled it.
handle_input(m, n) ==
    LET where == find_network_newline(m, n, INPUT_BUFFER_SIZE - 2)
        left == IF where = -1 THEN n ELSE n - where
    IN  \/ /\ where # -1 /\ Overrun(where, n)
           /\ commands' = Append(commands, LineText(m, where))
           /\ alive' = "crashed"
           /\ UNCHANGED <<buf, inbuf, room>>
        \/ /\ where = -1 \/ ~Overrun(where, n)
           /\ commands' = IF where = -1 THEN commands ELSE Append(commands, LineText(m, where))
           /\ buf' = IF where = -1 THEN m ELSE Shift([m EXCEPT ![where - 2] = NUL], where, left)
           /\ inbuf' = left
           /\ room' = Room(left)
           /\ UNCHANGED alive

\* The socket has data.
receive ==
    /\ alive = "yes" /\ ~eof /\ inbuf < INPUT_BUFFER_SIZE
    /\ \E s \in Input :
         /\ stream' = stream \o s
         /\ handle_input([i \in DOMAIN buf |->
                            IF i - inbuf + 1 \in DOMAIN s THEN s[i - inbuf + 1] ELSE buf[i]],
                         inbuf + Len(s))
    /\ UNCHANGED eof

\* The socket is at end of file: read returns 0 and the buffer is looked at again.
at_eof ==
    /\ alive = "yes" /\ eof /\ inbuf < INPUT_BUFFER_SIZE
    /\ UNCHANGED <<stream, eof>>
    /\ handle_input(buf, inbuf)

\* Kick the user if input > 30 characters.
kick ==
    /\ alive = "yes" /\ inbuf >= INPUT_BUFFER_SIZE
    /\ alive' = "kicked"
    /\ UNCHANGED <<buf, inbuf, room, eof, stream, commands>>

handle_client == receive \/ at_eof \/ kick

\* The user closes the connection, having sent what was read.
close ==
    /\ alive = "yes" /\ ~eof
    /\ eof' = TRUE
    /\ UNCHANGED <<buf, inbuf, room, alive, stream, commands>>

Next == handle_client \/ close

Spec == Init /\ [][Next]_vars

-----------------------------------------------------------------------------
(* Properties *)

\* Newlines, their ranks, and the line with the k-th newline, from behind the one before.
NewlinesIn(s) == {i \in 1 .. Len(s) - 1 : s[i] = CR /\ s[i + 1] = LF}
Rank(s, i) == Cardinality({j \in NewlinesIn(s) : j <= i})
LineIn(s, k) ==
    LET ends == {i \in NewlinesIn(s) : Rank(s, i) = k}
        starts == {i \in NewlinesIn(s) : Rank(s, i) = k - 1}
    IN  SubSeq(s, IF k = 1 THEN 1 ELSE Max(starts) + 2, Min(ends) - 1)

\* What the server takes for its input.  A CR that is the last byte read counts as
\* a newline if an old LF lies behind it in the buffer: its line is handled
\* although the user has not finished it, and the server crashes in that step.
Taken == IF alive = "crashed" THEN Append(stream, LF) ELSE stream

\* Commands are the lines of the stream, in order, each once, however the bytes
\* were cut into reads; only the last command before a crash may be a line that
\* lacks its LF.
CommandsAreLines ==
    /\ Len(commands) <= Cardinality(NewlinesIn(Taken))
    /\ \A k \in DOMAIN commands : commands[k] = LineIn(Taken, k)

\* What has not been handled is in the buffer, in order, and the next read fits
\* behind it and asks for something: a read of 0 bytes would look like the end
\* of the input.
RestIsBuffered ==
    alive = "yes" =>
        /\ inbuf <= Len(stream)
        /\ \A i \in 0 .. inbuf - 1 : buf[i] = stream[Len(stream) - inbuf + i + 1]
        /\ inbuf < INPUT_BUFFER_SIZE => room > 0 /\ inbuf + room <= Size

\* The stream is what was handled as lines, and what is still in the buffer, up to
\* the step in which the server crashes.
StreamIsSplit == CommandsAreLines /\ RestIsBuffered

\* (refuted by a CR read before its LF, in front of an old LF) "listen for complete
\* commands": no command is handled whose line has not ended.
CommandsAreComplete == Len(commands) <= Cardinality(NewlinesIn(stream))

\* (refuted by a line of the two longest lengths) find_network_newline: "-1 if no network newline is found".
FindsTheNewline ==
    (\E i \in 0 .. inbuf - 2 : buf[i] = CR /\ buf[i + 1] = LF)
        => find_network_newline(buf, inbuf, INPUT_BUFFER_SIZE - 2) # -1
=============================================================================
