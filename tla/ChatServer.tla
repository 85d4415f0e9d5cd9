----------------------------- MODULE ChatServer -----------------------------
(***************************************************************************)
(* Lab11: chat_server.c serves up to MAX_CONNECTIONS users with select;    *)
(* the first line of a user is the name, and every line is sent back to    *)
(* the user who typed it.  Each user runs chat_client.c, which sends one   *)
(* line and waits for what comes back before it reads the next.            *)
(*                                                                         *)
(* The server never closes a descriptor, so accept returns each number     *)
(* once, in ascending order: a connection is named by the number it gets,  *)
(* also while it waits to be accepted.  Lines are represented by their     *)
(* lengths, a name by its length and the connection it was typed on.       *)
(***************************************************************************)
EXTENDS Integers, FiniteSets, FiniteSetsExt

CONSTANTS
    MAX_CONNECTIONS, MAX_BACKLOG, BUF_SIZE,
    sock_fd,        \* the listening socket, the highest descriptor at the start
    LastFd,         \* the highest descriptor the process may open
    Wrapped,        \* the descriptor whose bit FD_SET(-1) sets (63 on x86-64)
    Lengths,        \* bytes the user's terminal may deliver in one read
    MaxUnread       \* bound on the bytes a user has not read when typing again

ASSUME ChatAssumption ==
    /\ MAX_CONNECTIONS \in Nat \ {0} /\ MAX_BACKLOG \in Nat \ {0}
    /\ BUF_SIZE \in Nat \ {0} /\ Lengths \subseteq 1 .. BUF_SIZE
    /\ sock_fd \in Nat \ {0} /\ LastFd \in Nat /\ LastFd > sock_fd
    /\ Wrapped \in Nat /\ Wrapped > sock_fd /\ MaxUnread \in Nat

Slots == 0 .. MAX_CONNECTIONS - 1
\* One connection more than there are descriptors.
Conns == sock_fd + 1 .. LastFd + 1

VARIABLES
    status,         \* "run", or how the process ended: "crashed", "sigpipe", "exit"
    usernames,      \* per slot: the descriptor, or -1, and the name
    all_fds,        \* the descriptors given to select
    listen_fds,     \* what is left of its answer in this pass
    max_fd,         \* the last descriptor accept returned
    started,        \* the last connection made
    client,         \* per connection: what chat_client is doing
    peer,           \* per connection: how the server's kernel sees the user
    up,             \* per connection: length of the line the server has not read, or 0
    down            \* per connection: bytes the user has not read

server == <<usernames, all_fds, listen_fds, max_fd>>
users == <<started, client, peer, up, down>>
vars == <<status, server, users>>

NoName == [of |-> 0, len |-> 0]
Names == [of : Conns, len : 0 .. BUF_SIZE - 1]

TypeOK ==
    /\ status \in {"run", "crashed", "sigpipe", "exit"}
    /\ usernames \in [Slots -> [sock_fd : Conns \cup {-1}, username : Names \cup {NoName}]]
    /\ all_fds \subseteq Conns \cup {sock_fd, Wrapped} /\ listen_fds \subseteq all_fds
    /\ max_fd \in sock_fd .. LastFd /\ started \in max_fd .. LastFd + 1
    /\ client \in [Conns -> {"none", "typing", "waiting", "left"}]
    /\ peer \in [Conns -> {"open", "closed", "aborted"}]
    /\ up \in [Conns -> 0 .. BUF_SIZE] /\ down \in [Conns -> Nat]

Init ==
    /\ status = "run"
    /\ usernames = [s \in Slots |-> [sock_fd |-> -1, username |-> NoName]]
    /\ all_fds = {sock_fd} /\ listen_fds = {} /\ max_fd = sock_fd /\ started = sock_fd
    /\ client = [c \in Conns |-> "none"] /\ peer = [c \in Conns |-> "open"]
    /\ up = [c \in Conns |-> 0] /\ down = [c \in Conns |-> 0]

-----------------------------------------------------------------------------
(* chat_server.c *)

Halt(how) == status' = how /\ UNCHANGED <<server, users>>

\* The slots whose turn is still to come in this pass.
Pending == {s \in Slots : usernames[s].sock_fd \in listen_fds}

\* Connections made that accept has not returned yet.
Queued == max_fd + 1 .. started
\* The user's line, the end of the input or an error can be read.
Readable(c) == c \in Conns /\ c <= max_fd /\ (up[c] > 0 \/ peer[c] # "open")

\* A new pass; descriptors above max_fd are not looked at.
Select ==
    /\ status = "run" /\ sock_fd \notin listen_fds /\ Pending = {}
    /\ listen_fds' = {f \in all_fds : (f = sock_fd /\ Queued # {}) \/ Readable(f)}
    /\ listen_fds' # {}
    /\ UNCHANGED <<status, usernames, all_fds, max_fd, users>>

FreeSlots == {s \in Slots : usernames[s].sock_fd = -1}

\* (faulty variants) a full table ends the server; a full table ends the pass.
TableFullExits == Halt("exit")
TableFullSkips ==
    /\ listen_fds' = {} /\ all_fds' = all_fds \cup {Wrapped}
    /\ UNCHANGED <<status, usernames, max_fd, users>>

\* The connection stays in the queue, and main passes -1 on to FD_SET.
TableFull ==
    /\ listen_fds' = listen_fds \ {sock_fd} /\ all_fds' = all_fds \cup {Wrapped}
    /\ UNCHANGED <<status, usernames, max_fd, users>>

\* (faulty variants) the name is not reset; the slot after the new one is cleared.
KeepsName(s, fd) == [usernames EXCEPT ![s].sock_fd = fd]
OneTooFar(s, fd) ==
    [t \in Slots \cup {s + 1} |-> IF t = s THEN [sock_fd |-> fd, username |-> NoName]
                                  ELSE IF t = s + 1 THEN [sock_fd |-> -1, username |-> NoName]
                                  ELSE usernames[t]]

NewUser(s, fd) == [usernames EXCEPT ![s] = [sock_fd |-> fd, username |-> NoName]]

accept_connection ==
    /\ status = "run" /\ sock_fd \in listen_fds
    /\ \/ FreeSlots = {} /\ TableFull
       \/ FreeSlots # {} /\ max_fd = LastFd /\ Halt("exit")
       \/ /\ FreeSlots # {} /\ max_fd < LastFd
          /\ usernames' = NewUser(Min(FreeSlots), max_fd + 1)
          /\ max_fd' = max_fd + 1
          /\ all_fds' = all_fds \cup {max_fd + 1}
          /\ listen_fds' = listen_fds \ {sock_fd}
          /\ UNCHANGED <<status, users>>

\* (faulty variant) the descriptor is still watched.
StillWatched(fd) == all_fds

Unwatched(fd) == all_fds \ {fd}

\* The slot is free again; the descriptor is never closed.
Drop(s, fd) ==
    /\ usernames' = [usernames EXCEPT ![s].sock_fd = -1]
    /\ all_fds' = Unwatched(fd)
    /\ listen_fds' = listen_fds \ {fd}
    /\ UNCHANGED <<status, max_fd>>

\* Reply with len bytes under the given name.  A user who closed gets nothing; the
\* write to one whose end was reset fails, and drops the user.
Reply(s, fd, name, len) ==
    /\ up' = [up EXCEPT ![fd] = 0]
    /\ UNCHANGED <<started, client, peer>>
    /\ \/ peer[fd] = "aborted" /\ Drop(s, fd) /\ UNCHANGED down
       \/ /\ peer[fd] # "aborted"
          /\ down' = IF peer[fd] = "open" THEN [down EXCEPT ![fd] = @ + len] ELSE down
          /\ usernames' = [usernames EXCEPT ![s].username = name]
          /\ listen_fds' = listen_fds \ {fd}
          /\ UNCHANGED <<status, all_fds, max_fd>>

\* The line without its last byte, behind the name and ": ".
Echo(name, n) == name.len + 2 + (n - 1)
\* user_buf has BUF_SIZE + 1 bytes, one of them for the NUL.
Overflows(name, n) == Echo(name, n) > BUF_SIZE

\* The first line is the name, and is sent back as it is.
read_name(s, fd) ==
    LET name == [of |-> fd, len |-> up[fd] - 1]
    IN  up[fd] > 0 /\ usernames[s].username = NoName /\ Reply(s, fd, name, name.len)

\* strcat may write behind user_buf, which does harm or not.
read_line(s, fd) ==
    LET name == usernames[s].username
    IN  /\ up[fd] > 0 /\ name # NoName
        /\ \/ Overflows(name, up[fd]) /\ Halt("crashed")
           \/ Reply(s, fd, name, Echo(name, up[fd]))

\* read returns 0.  A missing name is a null pointer.  A name is put before what
\* happens to be in buf, which may be too long; the result is not sent.
read_end(s, fd) ==
    /\ up[fd] = 0 /\ peer[fd] = "closed"
    /\ \/ Halt("crashed")
       \/ usernames[s].username # NoName /\ Drop(s, fd) /\ UNCHANGED users

\* read returns -1, which is not noticed: buf[-2] is written, and the reply to a
\* user who is gone ends the process.
read_error(s, fd) ==
    /\ up[fd] = 0 /\ peer[fd] = "aborted"
    /\ Halt("crashed") \/ (usernames[s].username # NoName /\ Halt("sigpipe"))

\* The loop over the slots calls this for the next ready one.
read_from(s) ==
    LET fd == usernames[s].sock_fd
    IN  read_name(s, fd) \/ read_line(s, fd) \/ read_end(s, fd) \/ read_error(s, fd)

Scan == status = "run" /\ sock_fd \notin listen_fds /\ Pending # {} /\ read_from(Min(Pending))

Server == Select \/ accept_connection \/ Scan

-----------------------------------------------------------------------------
(* chat_client.c, and the network on one machine *)

\* The connection is complete before the server accepts it.
Connect ==
    /\ started <= LastFd /\ Cardinality(Queued) < MAX_BACKLOG
    /\ started' = started + 1
    /\ client' = [client EXCEPT ![started + 1] = "typing"]
    /\ UNCHANGED <<peer, up, down>>

\* The user types a line, or the part of a longer one that fits, once the server
\* has taken the line before.
Type(c) ==
    /\ client[c] = "typing" /\ up[c] = 0 /\ down[c] <= MaxUnread
    /\ \E n \in Lengths : up' = [up EXCEPT ![c] = n]
    /\ client' = [client EXCEPT ![c] = "waiting"]
    /\ UNCHANGED <<started, peer, down>>

\* What comes back, or as much of it as fits.
Receive(c) ==
    /\ client[c] = "waiting" /\ down[c] > 0
    /\ down' = [down EXCEPT ![c] = @ - Min({@, BUF_SIZE})]
    /\ client' = [client EXCEPT ![c] = "typing"]
    /\ UNCHANGED <<started, peer, up>>

\* The user ends the input, or kills the client at any time.  Bytes it has not
\* read turn the end of the connection into a reset.
Leave(c) ==
    /\ client[c] \in {"typing", "waiting"}
    /\ client' = [client EXCEPT ![c] = "left"]
    /\ peer' = [peer EXCEPT ![c] = IF down[c] > 0 THEN "aborted" ELSE "closed"]
    /\ down' = [down EXCEPT ![c] = 0]
    /\ UNCHANGED <<started, up>>

User(c) == Type(c) \/ Receive(c) \/ Leave(c)
\* The user who would need the descriptor after the last only waits.
Users == /\ status = "run" /\ (Connect \/ \E c \in Conns \ {LastFd + 1} : User(c))
         /\ UNCHANGED <<status, server>>

Next == Server \/ Users

\* The server is one process that waits only in select.  Of the users nothing is
\* assumed but that chat_client, waiting in read, takes what has come.
Takes(c) == status = "run" /\ Receive(c) /\ UNCHANGED <<status, server>>
Spec ==
    /\ Init /\ [][Next]_vars
    /\ WF_vars(Server)
    /\ \A c \in Conns \ {LastFd + 1} : WF_vars(Takes(c))

-----------------------------------------------------------------------------
(* Safety *)

Held == {usernames[s].sock_fd : s \in Slots} \ {-1}
SlotOf(c) == CHOOSE s \in Slots : usernames[s].sock_fd = c

\* No two slots hold the same descriptor, and while the server runs select is
\* given the listening socket and exactly the descriptors in the table, but for
\* the bit that FD_SET(-1) may have set (main, after accept_connection).
OneSlotPerDescriptor ==
    /\ \A s, t \in Slots : s # t /\ usernames[s].sock_fd # -1
                              => usernames[s].sock_fd # usernames[t].sock_fd
    /\ all_fds \ {Wrapped} = (Held \cup {sock_fd}) \ {Wrapped}
    /\ Wrapped \in Held => Wrapped \in all_fds

\* The name that is put before the lines of a user was typed on the user's own
\* connection, also when the slot had another user before (accept_connection resets
\* it; the paths of read_from that free a slot leave the name there).
NamesAreOwn ==
    \A s \in Slots :
        usernames[s].sock_fd # -1 /\ usernames[s].username # NoName
            => usernames[s].username.of = usernames[s].sock_fd

\* Every slot of the table belongs to one connection, in each of its parts.
SlotsAreOwn == OneSlotPerDescriptor /\ NamesAreOwn

\* The server only ends because a user left, because a name and a line together
\* do not fit user_buf, or because the process has no descriptor left; a full
\* table of users does not end it (main, after accept_connection).
EndHasCause ==
    /\ status = "exit" => max_fd = LastFd
    /\ status = "sigpipe" => \E c \in Held : peer[c] = "aborted"
    /\ status = "crashed" => \E c \in Held : \/ client[c] = "left" /\ up[c] = 0
                                           \/ Overflows(usernames[SlotOf(c)].username, up[c])

(* Liveness *)

\* A user in the table whose answer is due, or who has left.  To an empty name the
\* answer has no bytes.
Due(c) == down[c] > 0 \/ up[c] > 1 \/ (up[c] = 1 /\ usernames[SlotOf(c)].username # NoName)
Unserved(c) == c \in Held /\ (client[c] = "left" \/ (client[c] = "waiting" /\ Due(c)))

\* While the server runs, every user whose answer is due gets it, and every one who
\* leaves makes room, whatever the others do and while a full table keeps select
\* from waiting.
EveryoneIsServed == \A c \in Conns \ {LastFd + 1} : Unserved(c) ~> ~Unserved(c) \/ status # "run"

(* Refuted *)

\* "Read a message from client_index and echo it back to them": not an empty name,
\* of which 0 bytes are written, and chat_client waits for ever (chat_server.c:53).
EveryLineIsEchoed ==
    \A c \in Conns : c \in Held /\ client[c] = "waiting" /\ up[c] > 0
                    ~> client[c] # "waiting" \/ status # "run"

\* "Return the fd if it has been closed": no descriptor is closed, and after the
\* last one the accept of one more user ends the server (chat_server.c:54).
OutlastsItsUsers == status # "exit"
=============================================================================
