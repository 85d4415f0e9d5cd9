----------------------------- MODULE HcqServer -----------------------------
(***************************************************************************)
(* The help-centre server, A4/hcq_server.c: one process that multiplexes   *)
(* its connections with select, keeps a linked list of client structs, and *)
(* drives the student queue and the TA list of A4/hcq.c (HcqLists).        *)
(*                                                                         *)
(* Client structs are modelled with their addresses and next pointers.     *)
(* free leaves the next field of a struct readable; what else it holds is  *)
(* not defined, so a walk that visits a freed struct either passes over it *)
(* or goes wrong in a way the model does not follow: the status "crashed". *)
(* The same goes for the name of a client that has not sent one, because   *)
(* add_client leaves that pointer uninitialised.                           *)
(*                                                                         *)
(* A step is one iteration of the loop over ready descriptors.  The bytes  *)
(* of a connection are abstracted to the complete lines that are buffered  *)
(* and to how full the buffer is (LineReader has the bytes); what a line   *)
(* says is chosen when the line is handled.                                *)
(***************************************************************************)
EXTENDS Integers, Sequences, FiniteSets, FiniteSetsExt

CONSTANTS
    ListenFd,   \* the listening socket, the lowest descriptor the server polls
    Fd,         \* descriptors accept may return: the process's descriptor limit
    Addr,       \* addresses malloc may return for a client struct
    SAddr, Names, Courses, BadCourse, NULL,     \* as in HcqLists
    MaxTas,         \* bound on the users who are TAs at the same time
    Departures,     \* how peers may leave: a subset of {"closed", "aborted"}
    MaxLines,       \* bound on the complete lines in one client's buffer
    MaxUnread,      \* bound on the reads left when a peer leaves, beyond one select reported
    Overlong,       \* TRUE: users may send more than the buffer takes
    MaxBacklog      \* bound on connections waiting for accept

ASSUME ServerAssumption ==
    /\ ListenFd \in Nat /\ Fd \subseteq {f \in Nat : f > ListenFd} /\ IsFiniteSet(Fd)
    /\ IsFiniteSet(Addr) /\ Cardinality(Addr) >= Cardinality(Fd)
    /\ Cardinality(SAddr) >= Cardinality(Fd) /\ MaxTas \in Nat
    /\ NULL \notin Addr \cup SAddr \cup Names \cup Courses /\ BadCourse \notin Courses
    /\ Addr \cap {"hung", "crashed"} = {}       \* what a walk can end with instead
    /\ Departures \subseteq {"closed", "aborted"}
    /\ Overlong \in BOOLEAN
    /\ MaxLines \in Nat \ {0} /\ MaxUnread \in Nat /\ MaxBacklog \in Nat \ {0}

VARIABLES
    status,     \* "run", or why the process stopped: "exited", "crashed", "hung"
    mem,        \* the client structs
    client_list,
    ready,      \* what is left of read_fd_set in this pass over the descriptors
    peer,       \* the remote end of each descriptor; "none": not an open descriptor
    unread,     \* reads the kernel can still satisfy after the peer left
    backlog,    \* connections waiting for accept
    student, stu_list, ta_list,     \* HcqLists
    owner       \* (history) the client struct that put a student struct in the queue

lists == <<student, stu_list, ta_list>>
net == <<peer, unread, backlog>>
vars == <<status, mem, client_list, ready, net, lists, owner>>

L == INSTANCE HcqLists WITH UniqueTas <- FALSE

States == {"NAME", "TYPE", "S_COURSE", "S_COMMAND", "T_COMMAND", "DISCONNECT"}
Levels == {"fits",      \* at most 28 bytes: find_network_newline looks at them
           "mute",      \* 29 bytes: no line is ever found, one more byte is read
           "over"}      \* 30 or more: kicked at the next event

Client == [live : {TRUE}, state : States, socket : Fd, name : Names \cup {NULL},
           type : {"N", "S", "T"}, lines : 0 .. MaxLines, level : Levels,
           next : Addr \cup {NULL}]
Dead(next) == [live |-> FALSE, next |-> next]

Live == {a \in Addr : mem[a].live}

TypeOK ==
    /\ status \in {"run", "exited", "crashed", "hung"}
    /\ mem \in [Addr -> Client \cup {Dead(x) : x \in Addr \cup {NULL}}]
    /\ client_list \in Addr \cup {NULL}
    /\ ready \subseteq Fd \cup {ListenFd}
    /\ peer \in [Fd -> {"none", "open", "closed", "poked", "reset", "aborted"}]
    /\ unread \in [Fd -> 0 .. 1 + MaxUnread]
    /\ backlog \in 0 .. MaxBacklog
    /\ L!TypeOK
    /\ owner \in [SAddr -> Addr \cup {NULL}]

Init ==
    /\ status = "run"
    /\ mem = [a \in Addr |-> Dead(NULL)]
    /\ client_list = NULL
    /\ ready = {}
    /\ peer = [f \in Fd |-> "none"]
    /\ unread = [f \in Fd |-> 0]
    /\ backlog = 0
    /\ L!Init
    /\ owner = [s \in SAddr |-> NULL]

-----------------------------------------------------------------------------
(* Steps shared by the handlers. *)

\* The process stops; nothing it held matters any more.
Halt(why) ==
    /\ status' = why
    /\ UNCHANGED <<mem, client_list, ready, net, lists, owner>>

Proceed(fd) == ready' = ready \ {fd} /\ status' = "run"

\* Keep the history variable in step with the student structs.
Track(a) ==
    owner' = [s \in SAddr |->
                IF student'[s] = L!Freed THEN NULL
                ELSE IF student[s] = L!Freed THEN a ELSE owner[s]]

NoListChange == UNCHANGED <<lists, owner>>

\* Write: the first write to a peer that has closed succeeds and provokes a
\* reset; once the reset is in, a write is fatal (SIGPIPE, or exit in Write).
Written(fd) == peer' = [peer EXCEPT ![fd] = IF @ = "closed" THEN "poked" ELSE @]
Write(fd, Effect) ==
    \/ peer[fd] \in {"open", "closed", "poked"} /\ Written(fd) /\ Effect /\ status' = "run"
    \/ peer[fd] \in {"reset", "aborted"} /\ Halt("exited")

\* The k-th struct a walk of the client list visits in memory m.
Visit(m, head) ==
    LET node[k \in 0 .. Cardinality(Addr)] ==
          IF k = 0 THEN head
          ELSE LET last == node[k - 1]
               IN  IF last = NULL THEN NULL ELSE m[last].next
    IN node
Endless(m, head) == Visit(m, head)[Cardinality(Addr)] # NULL
\* (faulty variant) a newcomer is linked behind the first client, not the last.
FirstIn(m, head) == head
LastIn(m, head) ==
    LET node == Visit(m, head)
    IN node[CHOOSE k \in DOMAIN node : node[k] # NULL /\ node[k + 1] = NULL]

\* What a walk from client_list to the first struct in hits can end with: that
\* struct, NULL at the end of the list, or a mishap.  Bad structs are those the
\* walk cannot visit safely.
Walk(hits, bad) ==
    LET node == Visit(mem, client_list)
        at(S) == {k \in 0 .. Cardinality(Addr) : node[k] \in S}
    IN  (IF at(hits) # {} THEN {node[Min(at(hits))]}
         ELSE IF Endless(mem, client_list) THEN {"hung"} ELSE {NULL})
        \cup {m \in {"crashed"} : \E k \in at(bad) : \A h \in at(hits) : k < h}
Mishap(result) == result \in {"hung", "crashed"} /\ Halt(result)

find_client(fd) == Walk({a \in Live : mem[a].socket = fd}, Addr \ Live)

\* (faulty variant) any waiting student is taken for the one looked for.
find_waiting(s) == Walk({a \in Live : mem[a].state = "S_COMMAND"}, Addr \ Live)

find_client_student(s) ==
    Walk({a \in Live : mem[a].name = student[s].name},
         Addr \ {a \in Live : mem[a].name # NULL})

-----------------------------------------------------------------------------
(* Connections come and go. *)

FreeFds == {f \in Fd : peer[f] = "none"}

\* (faulty variant) the client is not asked for its name.
NewClientUnnamed(fd) ==
    [live |-> TRUE, state |-> "TYPE", socket |-> fd, name |-> NULL, type |-> "N",
     lines |-> 0, level |-> "fits", next |-> NULL]

NewClient(fd) ==
    [live |-> TRUE, state |-> "NAME", socket |-> fd, name |-> NULL, type |-> "N",
     lines |-> 0, level |-> "fits", next |-> NULL]

\* add_client: fill in a struct, then walk to the end of the list and append.
\* The struct is filled in before the walk, so when malloc hands back a struct
\* that is still linked the walk sees its new next field.
add_client(fd, Then) ==
    \E a \in Addr \ Live :
        LET m == [mem EXCEPT ![a] = NewClient(fd)]
        IN  \/ /\ client_list = NULL
               /\ mem' = m /\ client_list' = a
               /\ Then
            \/ /\ client_list # NULL /\ ~Endless(m, client_list)
               /\ mem' = [m EXCEPT ![LastIn(m, client_list)].next = a]
               /\ UNCHANGED client_list
               /\ Then
            \/ client_list # NULL /\ Endless(m, client_list) /\ Halt("hung")
            \/ /\ \E k \in 0 .. Cardinality(Addr) :
                    LET x == Visit(m, client_list)[k] IN x # NULL /\ ~m[x].live
               /\ Halt("crashed")

\* The new connection is open, or its peer has already left again; in either
\* case the welcome message is written to it.
Accepted(fd) ==
    /\ Proceed(ListenFd)
    /\ backlog' = backlog - 1
    /\ \/ peer' = [peer EXCEPT ![fd] = "open"] /\ UNCHANGED unread
       \/ /\ "closed" \in Departures
          /\ peer' = [peer EXCEPT ![fd] = "poked"]
          /\ \E u \in 0 .. MaxUnread : unread' = [unread EXCEPT ![fd] = u]
    /\ NoListChange

\* accept returns the lowest free descriptor.  When there is none it fails,
\* the failure goes unnoticed (main tests fd, not new_fd) and the welcome
\* message is written to descriptor -1, which ends the process.
accept_connection ==
    \/ FreeFds # {} /\ LET fd == Min(FreeFds) IN add_client(fd, Accepted(fd))
    \/ FreeFds = {} /\ Halt("exited")

\* (faulty variants) the head of the queue leaves instead of the client; a TA
\* stays on the list; a student stays in the queue; a TA is unlinked without
\* releasing the student.
LeaveListsAtHead(c) ==
    IF mem[c].type = "S" /\ stu_list # << >>
      THEN L!give_up_waiting(student[stu_list[1]].name) ELSE UNCHANGED lists
LeaveQueueOnly(c) ==
    IF mem[c].type = "S" THEN L!give_up_waiting(mem[c].name) ELSE UNCHANGED lists
LeaveRosterOnly(c) ==
    IF mem[c].type = "T" THEN L!remove_ta(mem[c].name) ELSE UNCHANGED lists
LeaveUnreleased(c) ==
    \/ mem[c].type # "T" /\ UNCHANGED lists
    \/ /\ mem[c].type = "T" /\ UNCHANGED <<student, stu_list>>
       /\ \E i \in DOMAIN ta_list :
            L!IsFirstTa(i, mem[c].name) /\ ta_list' = L!RemoveAt(ta_list, i)

\* The lists are left before the client is unlinked.
LeaveLists(c) ==
    \/ mem[c].type = "S" /\ L!give_up_waiting(mem[c].name)
    \/ mem[c].type = "T" /\ L!remove_ta(mem[c].name)
    \/ mem[c].type = "N" /\ UNCHANGED lists

\* (faulty variant) the socket is not closed.
LeakSocket(fd) == UNCHANGED <<peer, unread>>

CloseSocket(fd) ==
    /\ peer' = [peer EXCEPT ![fd] = "none"]
    /\ unread' = [unread EXCEPT ![fd] = 0]

\* remove_client.  Only a client at the head of the list is unlinked: for any
\* other, the predecessor is looked up but its next field is left alone.
remove_client(c) ==
    LET fd == mem[c].socket
    IN  \/ /\ LeaveLists(c)
           /\ Track(c)
           /\ client_list' = IF c = client_list THEN mem[c].next ELSE client_list
           /\ mem' = [mem EXCEPT ![c] = Dead(mem[c].next)]
           /\ CloseSocket(fd)
           /\ Proceed(fd)
           /\ UNCHANGED backlog
        \/ mem[c].name = NULL /\ Halt("crashed")    \* free of an uninitialised name

-----------------------------------------------------------------------------
(* handle_client: one read, then at most one line. *)

\* What a read can leave in the buffer: complete lines, and how full it is.
\* Once the buffer is past 28 bytes its lines are never looked at again.
AfterRead(c) ==
    CASE mem[c].level = "mute" -> {<<0, "over">>}
      [] mem[c].level = "fits" ->
            ((mem[c].lines .. MaxLines) \X {"fits"})
            \cup (IF Overlong THEN {0} \X {"mute", "over"} ELSE {})

AtEof(fd) == peer[fd] # "open" /\ unread[fd] = 0

Consume(fd) ==
    unread' = [unread EXCEPT ![fd] = IF peer[fd] = "open" THEN 0 ELSE Max({@ - 1, 0})]

\* client c after its line is handled, in state st.
Handled(c, rest, st) == [mem[c] EXCEPT !.state = st, !.lines = rest, !.level = "fits"]

\* A reply to c that moves it to state st and leaves the lists alone.
Answer(c, rest, st) ==
    Write(mem[c].socket, mem' = [mem EXCEPT ![c] = Handled(c, rest, st)] /\ NoListChange)

take_name(c, rest) ==
    \E n \in Names :
        Write(mem[c].socket,
              /\ mem' = [mem EXCEPT ![c] = [Handled(c, rest, "TYPE") EXCEPT !.name = n]]
              /\ NoListChange)

take_type(c, rest) ==
    \/ Write(mem[c].socket,
             /\ mem' = [mem EXCEPT ![c] = [Handled(c, rest, "S_COURSE") EXCEPT !.type = "S"]]
             /\ NoListChange)
    \/ Len(ta_list) < MaxTas /\
       Write(mem[c].socket,
             /\ mem' = [mem EXCEPT ![c] = [Handled(c, rest, "T_COMMAND") EXCEPT !.type = "T"]]
             /\ L!add_ta(mem[c].name)
             /\ Track(c))
    \/ Answer(c, rest, "TYPE")

\* (faulty variant) a student with an invalid course goes on as if queued.
take_course_lax(c, rest) ==
    \/ \E course \in Courses :
        Write(mem[c].socket,
              /\ L!add_student(mem[c].name, course)
              /\ Track(c)
              /\ mem' = [mem EXCEPT ![c] = Handled(c, rest, "S_COMMAND")])
    \/ Answer(c, rest, "S_COMMAND")

\* The result of add_student is not looked at: a student whose name is already
\* in the queue is told to be entered all the same.
take_course(c, rest) ==
    \/ \E course \in Courses :
        Write(mem[c].socket,
              /\ L!add_student(mem[c].name, course)
              /\ Track(c)
              /\ mem' = [mem EXCEPT ![c] = Handled(c, rest, "S_COMMAND")])
    \/ Answer(c, rest, "DISCONNECT")        \* BadCourse

\* The student at the head of the queue is looked up among the clients by
\* name, told to come, and only then taken by the TA.
next(c, rest) ==
    \/ /\ stu_list # << >>
       /\ \E s \in find_client_student(stu_list[1]) :
            \/ Mishap(s)
            \/ s = NULL /\ Halt("crashed")
            \/ /\ s \in Addr
               /\ Write(mem[s].socket,
                        /\ mem' = [mem EXCEPT ![c] = Handled(c, rest, @.state),
                                              ![s].state = "DISCONNECT"]
                        /\ L!next_overall(mem[c].name)
                        /\ Track(c))
    \/ /\ stu_list = << >>
       /\ mem' = [mem EXCEPT ![c] = Handled(c, rest, @.state)]
       /\ L!next_overall(mem[c].name)
       /\ Track(c)
       /\ UNCHANGED <<peer, status>>

\* Complete line in the state the client is in; "rest" lines stay buffered.
command(c, rest) ==
    \/ mem[c].state = "NAME" /\ take_name(c, rest)
    \/ mem[c].state = "TYPE" /\ take_type(c, rest)
    \/ mem[c].state = "S_COURSE" /\ take_course(c, rest)
    \/ mem[c].state = "S_COMMAND" /\ Answer(c, rest, "S_COMMAND")   \* stats, bad syntax
    \/ mem[c].state = "T_COMMAND" /\ (next(c, rest) \/ Answer(c, rest, "T_COMMAND"))

TooLong(c) == mem[c].level = "over"

handle_client(c) ==
    LET fd == mem[c].socket
        ReadFails == peer[fd] = "aborted" /\ unread[fd] = 0
    IN  \/ TooLong(c) /\ remove_client(c)
        \/ ~TooLong(c) /\ ReadFails /\ Halt("exited")
        \/ /\ ~TooLong(c) /\ ~ReadFails
           /\ \E got \in IF AtEof(fd) THEN {<<mem[c].lines, mem[c].level>>} ELSE AfterRead(c) :
                IF got[1] > 0
                  THEN command(c, got[1] - 1)
                  ELSE /\ mem' = [mem EXCEPT ![c].lines = 0, ![c].level = got[2]]
                       /\ NoListChange /\ UNCHANGED <<peer, status>>
           /\ IF status' = "run"
                THEN Consume(fd) /\ Proceed(fd) /\ UNCHANGED <<client_list, backlog>>
                ELSE TRUE

-----------------------------------------------------------------------------
(* The main loop and the peers. *)

Departed(fd) == peer[fd] \in {"closed", "poked", "reset", "aborted"}

\* Descriptors select must report: a connection waits for accept, or a peer is
\* gone (end of file, which stays readable, or an error).
MustReport == (IF backlog > 0 THEN {ListenFd} ELSE {}) \cup {f \in Fd : Departed(f)}

\* select returns, with data from some of the open connections.
Select ==
    /\ status = "run" /\ ready = {}
    /\ \E typed \in SUBSET {f \in Fd : peer[f] = "open"} : ready' = MustReport \cup typed
    /\ ready' # {}
    /\ UNCHANGED <<status, mem, client_list, net, lists, owner>>

\* (faulty variant) a dismissed client is handled like any other.
DispatchAll(c) ==
    \/ c = NULL /\ Halt("crashed")
    \/ c \in Addr /\ handle_client(c)

\* The client that owns a ready descriptor is looked up and dereferenced.
Dispatch(c) ==
    \/ c = NULL /\ Halt("crashed")
    \/ c \in Addr /\ mem[c].state = "DISCONNECT" /\ remove_client(c)
    \/ c \in Addr /\ mem[c].state # "DISCONNECT" /\ handle_client(c)

\* One iteration of the loop over descriptors, in ascending order.
Scan ==
    /\ status = "run" /\ ready # {}
    /\ LET fd == Min(ready)
       IN  IF fd = ListenFd THEN accept_connection
           ELSE \E c \in find_client(fd) : Mishap(c) \/ Dispatch(c)

Connect ==
    /\ backlog < MaxBacklog
    /\ backlog' = backlog + 1
    /\ UNCHANGED <<peer, unread>>

\* The peer leaves: an orderly close, or a lost connection or killed peer
\* (a reset).  What it sent before can still be read, and a descriptor reported
\* as readable has something to read whatever happens after the report.
PeerLeaves(fd, how) ==
    /\ peer[fd] = "open"
    /\ peer' = [peer EXCEPT ![fd] = how]
    /\ \E more \in 0 .. MaxUnread :
         unread' = [unread EXCEPT ![fd] = IF fd \in ready THEN 1 + more ELSE more]
    /\ UNCHANGED backlog

\* The reset that answers a write to a closed connection arrives.
ResetArrives(fd) ==
    /\ peer[fd] = "poked"
    /\ peer' = [peer EXCEPT ![fd] = "reset"]
    /\ UNCHANGED <<unread, backlog>>

Peers ==
    /\ status = "run"
    /\ \/ Connect
       \/ \E fd \in Fd : ResetArrives(fd) \/ \E how \in Departures : PeerLeaves(fd, how)
    /\ UNCHANGED <<status, mem, client_list, ready, lists, owner>>

Next == Select \/ Scan \/ Peers

Spec == Init /\ [][Next]_vars

\* What every Scan does unless the process stops: one more descriptor is done.
ScanAdvances == status = "run" /\ ready # {} /\ ready' = ready \ {Min(ready)}

\* The server is one process that never waits except in select: it gets through
\* the loop over descriptors, and select returns when it has something to report.
\* Nothing is assumed of the users: neither that they type nor that they leave.
Fairness == WF_ready(ScanAdvances) /\ WF_vars(MustReport # {} /\ Select)

FairSpec == Spec /\ Fairness

-----------------------------------------------------------------------------
(* Properties *)

\* The server works on the queue and the TA list only through the operations
\* of hcq.c, so what HcqLists shows of them holds in the server.
ListsOnlyByOperations == L!Spec

\* Descriptors and client structs stay in step: every open connection has one
\* allocated client struct, every allocated one has an open connection, and a
\* descriptor select reported is still open when its turn comes, although clients
\* are removed and descriptors reused within one pass of the loop.  Whether a walk
\* of the client list comes to a struct is the next property's subject.
OneClientPerDescriptor ==
    /\ \A a, b \in Live : mem[a].socket = mem[b].socket => a = b
    /\ {mem[a].socket : a \in Live} = {f \in Fd : peer[f] # "none"}
    /\ ready \subseteq {mem[a].socket : a \in Live} \cup {ListenFd}

\* find_client never comes back empty-handed for an open connection (main uses what
\* it returns without a test), although removed structs stay in the list and malloc
\* hands them out again: whoever a walk does not come to is cut off by a cycle, in
\* which the walk hangs.
NobodyFallsOffTheList ==
    status = "run" /\ ~Endless(mem, client_list) =>
        \A a \in Live : \E k \in 0 .. Cardinality(Addr) : Visit(mem, client_list)[k] = a

\* The TA list holds one entry for each connected TA, also when TAs share a
\* name and remove_ta takes out the newest of them instead of the one who left.
RosterMatchesClients ==
    \A n \in Names :
        Cardinality({i \in DOMAIN ta_list : ta_list[i].name = n})
            = Cardinality({a \in Live : mem[a].type = "T" /\ mem[a].name = n})

\* Everybody in the queue is a connected student who waits under that name: no
\* departure, kick or summons leaves a queue entry without its client.
QueueEntriesHaveClients ==
    \A i \in DOMAIN stu_list :
        LET a == owner[stu_list[i]]
        IN  /\ a \in Live
            /\ mem[a].type = "S" /\ mem[a].state = "S_COMMAND"
            /\ mem[a].name = student[stu_list[i]].name

\* The lists name connected clients only, and all who belong there, whatever the
\* order in which clients arrive, leave, are kicked and are called.
ListsMatchClients == RosterMatchesClients /\ QueueEntriesHaveClients

\* The server finds people by name and asks nobody for a name of their own.
\* What follows is promised to a client only while no other has the same name.
OwnName(a) == \A b \in Live : mem[b].name = mem[a].name => b = a

\* A student who is told "You have been entered into the queue" is in the queue
\* from that step on, also when an earlier client of that name has come and gone.
Enters(a) ==
    /\ a \in Live /\ mem[a].state = "S_COURSE" /\ OwnName(a)
    /\ mem'[a].live /\ mem'[a].state = "S_COMMAND"
ToldIsQueued ==
    [][\A a \in Addr : Enters(a) => \E i \in DOMAIN stu_list' : owner'[stu_list'[i]] = a]_vars

\* Whoever is told that it is their turn is the student the TA takes in that
\* step: the lookup by name and the head of the queue agree.
Summoned(a) ==
    /\ a \in Live /\ mem[a].state \notin {"DISCONNECT", "S_COURSE"} /\ OwnName(a)
    /\ mem'[a].live /\ mem'[a].state = "DISCONNECT"
SummonedIsTaken ==
    [][\A a \in Addr : Summoned(a) =>
            \E s \in L!Queued : owner[s] = a /\ s \in L!Served']_vars

\* A student struct leaves the queue for a TA, or because its own client leaves:
\* the departure of one client never takes another out of the queue.
OnlyOwnGiveUp ==
    [][\A s \in L!Queued \ L!Queued' :
          OwnName(owner[s]) => s \in L!Served' \/ ~mem'[owner[s]].live]_vars

\* (refuted when names are shared) the message is true of every student who has
\* it: they are in the queue until they are called.
QueuedWhenTold ==
    \A a \in Live :
        mem[a].state = "S_COMMAND" => \E i \in DOMAIN stu_list : owner[stu_list[i]] = a

\* (refuted when a client that is not the first leaves) "Removes the client from
\* the client linked list": a walk of the list visits no struct that was removed.
RemovedIsUnlinked ==
    \A k \in 0 .. Cardinality(Addr) :
        LET a == Visit(mem, client_list)[k] IN a # NULL => mem[a].live

\* The connection is closed: by remove_client, or because the process has ended.
Gone(f) == peer[f] = "none" \/ status = "exited"
\* The server is lost: a walk of the client list never ends, or came to a struct that
\* was removed (RemovedIsUnlinked) or to a name that was never set, or such a name is freed.
Astray == status \in {"hung", "crashed"}
DepartedFrom(f, P(_)) == Departed(f) /\ \E a \in Live : mem[a].socket = f /\ P(a)

\* A client that was sent away, or that sent more than its buffer takes, and whose
\* peer has left is removed, however the other connections keep the loop busy, unless
\* the server is lost.  In particular it hangs, and the client stays for ever, when a
\* removed struct has been handed out again while it was linked.
DismissedAreRemoved ==
    \A f \in Fd :
        DepartedFrom(f, LAMBDA a : mem[a].state = "DISCONNECT" \/ mem[a].level = "over")
            ~> Gone(f) \/ Astray

\* (refuted: the end of the input is read for ever) a TA who leaves with Ctrl-C,
\* as the server's message invites, is off duty afterwards.
TasCanLeave ==
    \A f \in Fd : DepartedFrom(f, LAMBDA a : mem[a].type = "T") ~> Gone(f) \/ Astray
=============================================================================
