-------------------------- MODULE ChatServer_proofs --------------------------
(***************************************************************************)
(* Proofs about the chat server (ChatServer), for every size of the table, *)
(* of the buffer, of the backlog and of the descriptor table.  Only Init   *)
(* and Next are used, not the fairness of Spec.                            *)
(***************************************************************************)
EXTENDS ChatServer, WellFoundedInduction, TLAPS

(* The smallest element of a set of numbers. *)

Less == {p \in Nat \X Nat : p[1] < p[2]}

LEMMA MinNat ==
    ASSUME NEW S \in SUBSET Nat, S # {}
    PROVE  Min(S) \in S /\ \A y \in S : Min(S) <= y
<1>1. Less = OpToRel(<, Nat)
  BY Zenon DEF OpToRel, Less
<1>2. PICK x \in S : \A y \in S : ~(<<y, x>> \in Less)
  BY NatLessThanWellFounded, WFMin, <1>1
<1>3. ASSUME NEW y \in S PROVE x <= y
  <2>1. x \in Nat /\ y \in Nat /\ <<y, x>> \notin Less
    BY <1>2
  <2>2. ~(y < x)
    BY <2>1, Zenon DEF Less
  <2> QED
    BY <2>1, <2>2
<1> QED
  BY <1>3 DEF Min

-----------------------------------------------------------------------------
(* The inductive invariant.  That a new descriptor is in no slot needs that *)
(* the table holds only descriptors accept has returned; that accept has a  *)
(* connection to return, that select has seen one; and what ends the server *)
(* when it reads from a user, that a connection is only over when its user  *)
(* has left.                                                                *)

\* Only what accept has returned is in the table.
HeldAccepted ==
    \A s \in Slots : usernames[s].sock_fd # -1 => usernames[s].sock_fd \in sock_fd + 1 .. max_fd

\* Once select has reported the listening socket, a connection waits for accept.
AcceptDue == sock_fd \in listen_fds => max_fd < started

\* Users who are still to come have done nothing yet.
NotStarted == \A c \in Conns : c > started => client[c] = "none"

PeerHasLeft == \A c \in Conns : peer[c] # "open" => client[c] = "left"

IInv ==
    /\ TypeOK
    /\ HeldAccepted
    /\ AcceptDue
    /\ NotStarted
    /\ PeerHasLeft
    /\ OneSlotPerDescriptor
    /\ NamesAreOwn
    /\ EndHasCause

-----------------------------------------------------------------------------
(* Lemmas about the table. *)

UserSlot == [sock_fd : Conns \cup {-1}, username : Names \cup {NoName}]

\* The loops over the table end at a slot they look for, if there is one.
LEMMA FirstSlot ==
    ASSUME NEW S \in SUBSET Slots, S # {}
    PROVE  Min(S) \in S /\ Min(S) \in Slots
<1>1. S \in SUBSET Nat
  BY DEF Slots
<1> QED
  BY <1>1, MinNat

LEMMA TableType ==
    ASSUME TypeOK
    PROVE  /\ usernames \in [Slots -> UserSlot] /\ DOMAIN usernames = Slots
           /\ \A s \in Slots : /\ usernames[s] \in UserSlot
                               /\ usernames[s].sock_fd \in Conns \cup {-1}
                               /\ usernames[s].username \in Names \cup {NoName}
  BY DEF TypeOK, UserSlot

LEMMA ConnsAreHigh ==
    \A c \in Conns : c \in Nat /\ c > sock_fd /\ c # -1 /\ c # 0 /\ c # sock_fd
  BY ChatAssumption DEF Conns

LEMMA HeldIs ==
    \A f : f \in Held <=> f # -1 /\ \E s \in Slots : usernames[s].sock_fd = f
  BY DEF Held

\* The slot of a descriptor is the one that holds it.
LEMMA SlotOfHeld ==
    ASSUME OneSlotPerDescriptor, NEW s \in Slots, usernames[s].sock_fd # -1
    PROVE  SlotOf(usernames[s].sock_fd) = s
  BY DEF OneSlotPerDescriptor, SlotOf

\* The slot whose turn it is holds a connection that is being served.
LEMMA PendingHeld ==
    ASSUME TypeOK, NEW s \in Pending, sock_fd \notin listen_fds
    PROVE  /\ s \in Slots /\ usernames[s].sock_fd \in Conns
           /\ usernames[s].sock_fd \in Held
<1>1. s \in Slots /\ usernames[s].sock_fd \in listen_fds
  BY DEF Pending
<1>2. usernames[s].sock_fd # -1
  BY <1>1, ChatAssumption, ConnsAreHigh DEF TypeOK
<1>3. usernames[s].sock_fd \in Conns
  BY <1>1, <1>2, TableType
<1> QED
  BY <1>1, <1>2, <1>3, HeldIs

-----------------------------------------------------------------------------
(* Each step keeps the invariant. *)

LEMMA InitHolds == Init => IInv
<1> SUFFICES ASSUME Init PROVE IInv
  OBVIOUS
<1>1. TypeOK
  BY ChatAssumption DEF Init, TypeOK, Conns
<1>2. HeldAccepted /\ AcceptDue /\ NotStarted /\ PeerHasLeft
  BY DEF Init, HeldAccepted, AcceptDue, NotStarted, PeerHasLeft
<1>3. OneSlotPerDescriptor
  <2>1. Held = {}
    BY DEF Init, Held
  <2> QED
    BY <2>1 DEF Init, OneSlotPerDescriptor
<1>4. NamesAreOwn /\ EndHasCause
  BY DEF Init, NamesAreOwn, EndHasCause
<1> QED
  BY <1>1, <1>2, <1>3, <1>4 DEF IInv

\* When the process stops, what holds of its state holds of how it stops.
LEMMA HaltKeeps ==
    ASSUME IInv, NEW how \in {"crashed", "sigpipe", "exit"}, Halt(how),
           how = "exit" => max_fd = LastFd,
           how = "sigpipe" => \E c \in Held : peer[c] = "aborted",
           how = "crashed" =>
              \E c \in Held : \/ client[c] = "left" /\ up[c] = 0
                             \/ Overflows(usernames[SlotOf(c)].username, up[c])
    PROVE  IInv'
<1>1. /\ usernames' = usernames /\ all_fds' = all_fds /\ listen_fds' = listen_fds
      /\ max_fd' = max_fd /\ started' = started /\ client' = client /\ peer' = peer
      /\ up' = up /\ down' = down /\ status' = how
  BY DEF Halt, server, users
<1>2. TypeOK'
  BY <1>1 DEF IInv, TypeOK
<1>3. HeldAccepted' /\ AcceptDue' /\ NotStarted' /\ PeerHasLeft' /\ OneSlotPerDescriptor' /\ NamesAreOwn'
  BY <1>1 DEF IInv, HeldAccepted, AcceptDue, NotStarted, PeerHasLeft, OneSlotPerDescriptor, NamesAreOwn, Held
<1>4. EndHasCause'
  BY <1>1 DEF EndHasCause, Held, SlotOf
<1> QED
  BY <1>2, <1>3, <1>4 DEF IInv

LEMMA RunningHasNoEnd == status' = "run" => EndHasCause'
  BY DEF EndHasCause

LEMMA SelectKeeps == IInv /\ Select => IInv'
<1> SUFFICES ASSUME IInv, Select PROVE IInv'
  OBVIOUS
<1>1. /\ usernames' = usernames /\ all_fds' = all_fds /\ max_fd' = max_fd
      /\ started' = started /\ client' = client /\ peer' = peer
      /\ up' = up /\ down' = down /\ status' = "run" /\ status = "run"
  BY DEF Select, users
<1>2. listen_fds' \subseteq all_fds /\ (sock_fd \in listen_fds' => Queued # {})
  BY ChatAssumption DEF Select, Readable, Conns
<1>3. TypeOK'
  BY <1>1, <1>2 DEF IInv, TypeOK
<1>4. AcceptDue'
  <2>1. max_fd \in Nat /\ started \in Nat
    BY ChatAssumption DEF IInv, TypeOK
  <2> QED
    BY <1>1, <1>2, <2>1 DEF AcceptDue, Queued
<1>5. HeldAccepted' /\ NotStarted' /\ PeerHasLeft' /\ OneSlotPerDescriptor' /\ NamesAreOwn'
  BY <1>1 DEF IInv, HeldAccepted, NotStarted, PeerHasLeft, OneSlotPerDescriptor, NamesAreOwn, Held
<1> QED
  BY <1>1, <1>3, <1>4, <1>5, RunningHasNoEnd DEF IInv

LEMMA AcceptKeeps == IInv /\ accept_connection => IInv'
<1> SUFFICES ASSUME IInv, accept_connection PROVE IInv'
  OBVIOUS
<1>1. status = "run" /\ sock_fd \in listen_fds
  BY DEF accept_connection
<1>2. CASE TableFull
  <2>1. TypeOK'
    BY <1>2 DEF IInv, TypeOK, TableFull, users
  <2>2. HeldAccepted' /\ AcceptDue' /\ NotStarted' /\ PeerHasLeft' /\ NamesAreOwn'
    BY <1>2 DEF IInv, HeldAccepted, AcceptDue, NotStarted, PeerHasLeft, NamesAreOwn, TableFull, users
  <2>3. OneSlotPerDescriptor'
    BY <1>2 DEF IInv, OneSlotPerDescriptor, Held, TableFull
  <2> QED
    BY <1>1, <1>2, <2>1, <2>2, <2>3, RunningHasNoEnd DEF IInv, TableFull
<1>3. CASE max_fd = LastFd /\ Halt("exit")
  BY <1>3, HaltKeeps
<1>4. CASE /\ FreeSlots # {} /\ max_fd < LastFd
           /\ usernames' = NewUser(Min(FreeSlots), max_fd + 1)
           /\ max_fd' = max_fd + 1
           /\ all_fds' = all_fds \cup {max_fd + 1}
           /\ listen_fds' = listen_fds \ {sock_fd}
           /\ UNCHANGED <<status, users>>
  <2> DEFINE new == Min(FreeSlots)
             fd == max_fd + 1
  <2>1. new \in Slots /\ usernames[new].sock_fd = -1
    BY <1>4, FirstSlot DEF FreeSlots
  <2>2. /\ fd \in Conns /\ fd # -1 /\ max_fd \in Nat /\ LastFd \in Nat /\ sock_fd \in Nat
        /\ started \in Nat /\ max_fd < started /\ sock_fd <= max_fd
        /\ sock_fd # fd
    BY <1>1, <1>4, ChatAssumption DEF IInv, TypeOK, AcceptDue, Conns
  <2> HIDE DEF new
  <2>3. /\ usernames' = [usernames EXCEPT ![new] = [sock_fd |-> fd, username |-> NoName]]
        /\ usernames'[new] = [sock_fd |-> fd, username |-> NoName]
        /\ \A s \in Slots : s # new => usernames'[s] = usernames[s]
    BY <1>4, <2>1, TableType DEF IInv, NewUser, new
  <2>4. \A s \in Slots : usernames[s].sock_fd # fd
    BY <2>2 DEF IInv, HeldAccepted
  <2>5. Held' = Held \cup {fd}
    BY <2>1, <2>2, <2>3 DEF Held
  <2>6. TypeOK'
    BY <1>4, <2>2, <2>3 DEF IInv, TypeOK, users
  <2>7. HeldAccepted' /\ AcceptDue' /\ NotStarted' /\ PeerHasLeft'
    BY <1>4, <2>2, <2>3 DEF IInv, HeldAccepted, AcceptDue, NotStarted, PeerHasLeft, users
  <2>8. OneSlotPerDescriptor'
    BY <1>4, <2>1, <2>2, <2>3, <2>4, <2>5 DEF IInv, OneSlotPerDescriptor
  <2>9. NamesAreOwn'
    BY <2>3 DEF IInv, NamesAreOwn
  <2> QED
    BY <1>1, <1>4, <2>6, <2>7, <2>8, <2>9, RunningHasNoEnd DEF IInv
<1> QED
  BY <1>1, <1>2, <1>3, <1>4 DEF accept_connection

\* A user who is dropped leaves the slot, and select no longer sees the descriptor.
LEMMA DropKeeps ==
    ASSUME IInv, status = "run", NEW s \in Slots, NEW fd, fd = usernames[s].sock_fd,
           fd \in Conns, Drop(s, fd), UNCHANGED <<started, client, peer, down>>,
           up' \in [Conns -> 0 .. BUF_SIZE]
    PROVE  IInv'
<1>1. /\ usernames' = [usernames EXCEPT ![s].sock_fd = -1]
      /\ usernames'[s].sock_fd = -1 /\ usernames'[s] \in UserSlot
      /\ \A t \in Slots : t # s => usernames'[t] = usernames[t]
      /\ all_fds' = all_fds \ {fd} /\ listen_fds' = listen_fds \ {fd}
      /\ max_fd' = max_fd /\ status' = "run"
  BY TableType DEF IInv, Drop, Unwatched, UserSlot
<1>2. TypeOK'
  <2>1. usernames' \in [Slots -> UserSlot]
    BY <1>1, TableType DEF IInv
  <2> QED
    BY <1>1, <2>1 DEF IInv, TypeOK, UserSlot
<1>3. HeldAccepted' /\ AcceptDue' /\ NotStarted' /\ PeerHasLeft' /\ NamesAreOwn'
  BY <1>1 DEF IInv, HeldAccepted, AcceptDue, NotStarted, PeerHasLeft, NamesAreOwn
<1>4. Held' = Held \ {fd}
  <2>1. \A t \in Slots : t # s => usernames[t].sock_fd # fd
    BY ConnsAreHigh DEF IInv, OneSlotPerDescriptor
  <2> QED
    BY <1>1, <2>1 DEF Held
<1>5. OneSlotPerDescriptor'
  BY <1>1, <1>4, ConnsAreHigh DEF IInv, OneSlotPerDescriptor
<1> QED
  BY <1>1, <1>2, <1>3, <1>5, RunningHasNoEnd DEF IInv

\* An answer changes nothing in the table but the name.
LEMMA ReplyKeeps ==
    ASSUME IInv, status = "run", NEW s \in Slots, NEW fd, fd = usernames[s].sock_fd,
           fd \in Conns, NEW name \in Names, name.of = fd, NEW len \in Nat,
           Reply(s, fd, name, len)
    PROVE  IInv'
<1>1. up' \in [Conns -> 0 .. BUF_SIZE] /\ UNCHANGED <<started, client, peer>>
  BY ChatAssumption DEF IInv, TypeOK, Reply
<1>2. CASE Drop(s, fd) /\ UNCHANGED down
  BY <1>1, <1>2, DropKeeps
<1>3. CASE /\ down' = IF peer[fd] = "open" THEN [down EXCEPT ![fd] = @ + len] ELSE down
           /\ usernames' = [usernames EXCEPT ![s].username = name]
           /\ listen_fds' = listen_fds \ {fd}
           /\ UNCHANGED <<status, all_fds, max_fd>>
  <2>1. /\ usernames'[s] = [usernames[s] EXCEPT !.username = name]
        /\ usernames'[s].sock_fd = fd /\ usernames'[s].username = name
        /\ usernames'[s] \in UserSlot
        /\ \A t \in Slots : t # s => usernames'[t] = usernames[t]
        /\ \A t \in Slots : usernames'[t].sock_fd = usernames[t].sock_fd
    BY <1>3, TableType DEF IInv, UserSlot
  <2>2. usernames' \in [Slots -> UserSlot]
    BY <1>3, <2>1, TableType DEF IInv
  <2>3. down' \in [Conns -> Nat]
    BY <1>3 DEF IInv, TypeOK
  <2>4. TypeOK'
    BY <1>1, <1>3, <2>2, <2>3 DEF IInv, TypeOK, UserSlot
  <2>5. HeldAccepted' /\ AcceptDue' /\ NotStarted' /\ PeerHasLeft'
    BY <1>1, <1>3, <2>1 DEF IInv, HeldAccepted, AcceptDue, NotStarted, PeerHasLeft
  <2>6. OneSlotPerDescriptor'
    BY <1>3, <2>1 DEF IInv, OneSlotPerDescriptor, Held
  <2>7. NamesAreOwn'
    BY <2>1 DEF IInv, NamesAreOwn
  <2> QED
    BY <1>3, <2>4, <2>5, <2>6, <2>7, RunningHasNoEnd DEF IInv
<1> QED
  BY <1>2, <1>3 DEF Reply

LEMMA ScanKeeps == IInv /\ Scan => IInv'
<1> SUFFICES ASSUME IInv, Scan PROVE IInv'
  OBVIOUS
<1> DEFINE s == Min(Pending)
           fd == usernames[s].sock_fd
<1>1. status = "run" /\ read_from(s)
  BY DEF Scan
<1>2. s \in Slots /\ fd \in Conns /\ fd \in Held /\ fd # -1
  <2>1. s \in Pending
    BY FirstSlot DEF Scan, Pending
  <2> QED
    BY <2>1, PendingHeld, ConnsAreHigh DEF IInv, Scan
<1> HIDE DEF s
<1>3. SlotOf(fd) = s
  BY <1>2, SlotOfHeld DEF IInv
<1>4. up[fd] \in 0 .. BUF_SIZE /\ BUF_SIZE \in Nat
  BY <1>2, ChatAssumption DEF IInv, TypeOK
<1>5. CASE read_name(s, fd)
  <2>1. [of |-> fd, len |-> up[fd] - 1] \in Names /\ up[fd] - 1 \in Nat
    BY <1>2, <1>4, <1>5 DEF read_name, Names
  <2> QED
    BY <1>1, <1>2, <1>5, <2>1, ReplyKeeps DEF read_name
<1>6. CASE read_line(s, fd)
  <2> DEFINE name == usernames[s].username
  <2>1. name \in Names /\ name.of = fd /\ name.len \in Nat
    <3>1. name # NoName /\ name \in Names \cup {NoName}
      BY <1>2, <1>6, TableType DEF IInv, read_line
    <3> QED
      BY <1>2, <1>4, <3>1 DEF IInv, NamesAreOwn, Names
  <2>2. CASE Overflows(name, up[fd]) /\ Halt("crashed")
    BY <1>1, <1>2, <1>3, <2>2, HaltKeeps
  <2>3. CASE Reply(s, fd, name, Echo(name, up[fd]))
    <3>1. Echo(name, up[fd]) \in Nat
      BY <1>4, <1>6, <2>1 DEF Echo, read_line
    <3> QED
      BY <1>1, <1>2, <2>1, <2>3, <3>1, ReplyKeeps
  <2> QED
    BY <1>6, <2>2, <2>3 DEF read_line
<1>7. CASE read_end(s, fd)
  <2>1. up[fd] = 0 /\ client[fd] = "left"
    BY <1>2, <1>7 DEF IInv, PeerHasLeft, read_end
  <2>2. CASE Halt("crashed")
    BY <1>2, <2>1, <2>2, HaltKeeps
  <2>3. CASE Drop(s, fd) /\ UNCHANGED users
    BY <1>1, <1>2, <2>3, DropKeeps DEF users, IInv, TypeOK
  <2> QED
    BY <1>7, <2>2, <2>3 DEF read_end
<1>8. CASE read_error(s, fd)
  <2>1. up[fd] = 0 /\ peer[fd] = "aborted" /\ client[fd] = "left"
    BY <1>2, <1>8 DEF IInv, PeerHasLeft, read_error
  <2>2. CASE Halt("crashed")
    BY <1>2, <2>1, <2>2, HaltKeeps
  <2>3. CASE Halt("sigpipe")
    BY <1>2, <2>1, <2>3, HaltKeeps
  <2> QED
    BY <1>8, <2>2, <2>3 DEF read_error
<1> QED
  BY <1>1, <1>5, <1>6, <1>7, <1>8 DEF read_from

\* Nothing a user does changes the server.
LEMMA UsersKeep == IInv /\ Users => IInv'
<1> SUFFICES ASSUME IInv, Users PROVE IInv'
  OBVIOUS
<1>1. /\ usernames' = usernames /\ all_fds' = all_fds /\ listen_fds' = listen_fds
      /\ max_fd' = max_fd /\ status' = "run"
  BY DEF Users, server
<1>2. HeldAccepted' /\ OneSlotPerDescriptor' /\ NamesAreOwn'
  BY <1>1 DEF IInv, HeldAccepted, OneSlotPerDescriptor, NamesAreOwn, Held
<1>3. EndHasCause'
  BY <1>1, RunningHasNoEnd
<1>4. /\ max_fd \in Nat /\ LastFd \in Nat /\ started \in Nat
      /\ max_fd <= started /\ sock_fd \in Nat /\ sock_fd <= max_fd
      /\ BUF_SIZE \in Nat /\ Lengths \subseteq 1 .. BUF_SIZE
  BY ChatAssumption DEF IInv, TypeOK
<1>5. ASSUME Connect PROVE TypeOK' /\ AcceptDue' /\ NotStarted' /\ PeerHasLeft'
  <2>1. started' \in max_fd .. LastFd + 1 /\ started' = started + 1 /\ peer' = peer
    BY <1>4, <1>5 DEF Connect
  <2>2. TypeOK'
    BY <1>1, <1>5, <2>1 DEF IInv, TypeOK, Connect
  <2>3. AcceptDue'
    BY <1>1, <1>4, <2>1 DEF AcceptDue, IInv
  <2>4. NotStarted' /\ PeerHasLeft'
    BY <1>4, <1>5, <2>1 DEF PeerHasLeft, IInv, Connect, NotStarted, TypeOK, Conns
  <2> QED
    BY <2>2, <2>3, <2>4
<1>6. ASSUME NEW c \in Conns, Type(c) PROVE TypeOK' /\ AcceptDue' /\ NotStarted' /\ PeerHasLeft'
  <2>1. up' \in [Conns -> 0 .. BUF_SIZE]
    BY <1>4, <1>6 DEF IInv, TypeOK, Type
  <2>2. TypeOK'
    BY <1>1, <1>6, <2>1 DEF IInv, TypeOK, Type
  <2> QED
    BY <1>1, <1>6, <2>2 DEF IInv, TypeOK, AcceptDue, NotStarted, PeerHasLeft, Type
<1>7. ASSUME NEW c \in Conns, Receive(c) PROVE TypeOK' /\ AcceptDue' /\ NotStarted' /\ PeerHasLeft'
  <2>1. down[c] \in Nat /\ Min({down[c], BUF_SIZE}) <= down[c]
        /\ Min({down[c], BUF_SIZE}) \in Nat
    <3>1. down[c] \in Nat
      BY <1>7 DEF IInv, TypeOK
    <3> QED
      BY <1>4, <3>1, MinNat
  <2>2. down' \in [Conns -> Nat]
    BY <1>7, <2>1 DEF IInv, TypeOK, Receive
  <2>3. TypeOK'
    BY <1>1, <1>7, <2>2 DEF IInv, TypeOK, Receive
  <2> QED
    BY <1>1, <1>7, <2>3 DEF IInv, TypeOK, AcceptDue, NotStarted, PeerHasLeft, Receive
<1>8. ASSUME NEW c \in Conns, Leave(c) PROVE TypeOK' /\ AcceptDue' /\ NotStarted' /\ PeerHasLeft'
  <2>1. TypeOK'
    BY <1>1, <1>8 DEF IInv, TypeOK, Leave
  <2> QED
    BY <1>1, <1>8, <2>1 DEF IInv, TypeOK, AcceptDue, NotStarted, PeerHasLeft, Leave
<1>9. TypeOK' /\ AcceptDue' /\ NotStarted' /\ PeerHasLeft'
  BY <1>5, <1>6, <1>7, <1>8 DEF Users, User
<1> QED
  BY <1>2, <1>3, <1>9 DEF IInv

LEMMA StutterKeeps == IInv /\ UNCHANGED vars => IInv'
<1> SUFFICES ASSUME IInv, UNCHANGED vars PROVE IInv'
  OBVIOUS
<1>1. /\ usernames' = usernames /\ all_fds' = all_fds /\ listen_fds' = listen_fds
      /\ max_fd' = max_fd /\ started' = started /\ client' = client /\ peer' = peer
      /\ up' = up /\ down' = down /\ status' = status
  BY DEF vars, server, users
<1>2. TypeOK'
  BY <1>1 DEF IInv, TypeOK
<1>3. HeldAccepted' /\ AcceptDue' /\ NotStarted' /\ PeerHasLeft' /\ OneSlotPerDescriptor' /\ NamesAreOwn'
  BY <1>1 DEF IInv, HeldAccepted, AcceptDue, NotStarted, PeerHasLeft, OneSlotPerDescriptor, NamesAreOwn, Held
<1>4. EndHasCause'
  BY <1>1 DEF IInv, EndHasCause, Held, SlotOf
<1> QED
  BY <1>2, <1>3, <1>4 DEF IInv

-----------------------------------------------------------------------------
(* The theorems. *)

THEOREM StepKeepsIInv == IInv /\ [Next]_vars => IInv'
  BY SelectKeeps, AcceptKeeps, ScanKeeps, UsersKeep, StutterKeeps DEF Next, Server

THEOREM InvariantHolds == Init /\ [][Next]_vars => []IInv
  BY InitHolds, StepKeepsIInv, PTL

LEMMA SpecSteps == Spec => Init /\ [][Next]_vars
  BY PTL DEF Spec

\* Every variable keeps its type, for every size of the tables (chat_server.c).
THEOREM TypeCorrect == Spec => []TypeOK
<1>1. IInv => TypeOK
  BY DEF IInv
<1> QED
  BY <1>1, InvariantHolds, SpecSteps, PTL

\* However users come, type and leave, and whatever is in the table when it is
\* full, every slot belongs to one connection, select is given exactly the
\* descriptors of the table, and every name was typed on the connection it is put
\* before (chat_server.c main, accept_connection, read_from).
THEOREM SlotsAreAlwaysOwn == Spec => []SlotsAreOwn
<1>1. IInv => SlotsAreOwn
  BY DEF IInv, SlotsAreOwn
<1> QED
  BY <1>1, InvariantHolds, SpecSteps, PTL

\* Users alone end the server: by leaving, by a name and a line too long together,
\* or by being more than there are descriptors (chat_server.c read_from, main).
THEOREM EndAlwaysHasCause == Spec => []EndHasCause
<1>1. IInv => EndHasCause
  BY DEF IInv
<1> QED
  BY <1>1, InvariantHolds, SpecSteps, PTL
=============================================================================
