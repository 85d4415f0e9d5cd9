# A verification of the CSC209 programs

TLA+ models of the programs in this repository that keep state between steps or
talk to other processes: the help-centre queue and its server (A4, and its first
version A2), the word index and the processes that query it (A3), the
buffered line server (Lab10), the chat server (Lab11) and the password check in a
child process (Lab8). TLC checks the models on small instances; TLAPS
proves the safety properties the runs check, all but one, for all instances.

## The system

| component | state | operations | partners |
|---|---|---|---|
| Help-centre lists, `A4/hcq.c` | student queue, TA list, heap | `add_student`, `give_up_waiting`, `add_ta`, `remove_ta`, `take_student`, `next_overall` | called by `A4/helpcentre.c` (commands typed) and `A4/hcq_server.c` |
| Help-centre server, `A4/hcq_server.c` | list of client structs, one input buffer and one protocol state each, descriptor sets | accept, one read and at most one line for each ready descriptor, removal | users over TCP; the lists above |
| Help centre, version 1, `A2/` | overall queue and course queues threaded through the same structs, TA list, statistics | as above, and `take_next_course`, `stats_by_course` | commands typed |
| Word index, `A3/indexer.c`, `A3/freq_list.c` | sorted list of words with a count for each file, table of file names | `add_word`, `get_filenum`, `write_list`, `read_list` | two files on disk, read by the workers |
| Word query, `A3/query.c`, `A3/worker.c` | a master, a worker for each directory, two pipes for each worker, the record array | ask each worker in turn, collect, show, shut down | `fork`, `pipe`, `wait` |
| Line server, `Lab10/bufserver.c`, `randclient.c` | one buffer, one connection | read, take complete lines, shift | one client after the other over TCP |
| Chat, `Lab11/chat_server.c`, `chat_client.c` | table of users with their names, descriptor sets | accept, read the name, send a line back under the name, removal | users over TCP, each waiting for an answer before the next line |
| Password check, `Lab8/checkpasswd.c`, `validate.c` | one pipe, the password file, an exit status | write, fork, write again, wait; exec, read, look up, exit | `fork`, `pipe`, `exec`, `wait` |
| Forks, `Lab7/` | none beyond the loop counter | | `fork`, `wait` |
| A1, Lab1 to Lab6, Lab9 | none beyond one call | | |

What is hard to test in these programs:

* *Ownership.* A student struct passes from the queue to a TA and is freed in four
  places; in A2 it is on two lists at once, each operation entering by one of them.
* *Interleaving.* The server handles users in the order of their descriptors, and
  within one pass removes clients, accepts others and reuses descriptors. People
  are found by name, not by connection.
* *Streams.* A line arrives in pieces or together with others; the rest has to stay
  in a small buffer whose two ends are boundary cases.
* *Processes.* Every fork copies every pipe end. Who still holds one decides
  whether a read ends, a write kills, or everybody waits.
* *Departure.* Users close connections at any point; workers die; the indexer is stopped
  between its two files while a reader loads them; a child has answered before its
  parent has written everything.
* *Limits.* 30 bytes of input, `MAXRECORDS`, `MAXFILES`, `MAXWORD`, a full table of
  users, the last descriptor.

`PROJECT.json` lists these as hazards, each at the line where it bites.

## Modules

| module | models | depends on |
|---|---|---|
| `HelpDesk` | what a help desk promises (abstract) | |
| `HcqLists` | `A4/hcq.c`, `A4/helpcentre.c` | refines `HelpDesk` |
| `HcqServer` | `A4/hcq_server.c`: loop, clients, states, departures | instantiates `HcqLists` |
| `NetNewline` | finding a network newline and shifting a buffer: code the two servers share | |
| `LineReader` | the input buffer of one client of `A4/hcq_server.c`, byte by byte | extends `NetNewline` |
| `BufServer` | `Lab10/bufserver.c` and `randclient.c` | extends `NetNewline` |
| `HcqCourses` | `A2/hcq.c`, `A2/helpcentre.c` | |
| `QueryPool` | `A3/query.c` and the workers: processes and pipes | |
| `FreqRecords` | the record array of `A3/worker.c` and what `query.c` shows of it | |
| `WordIndex` | `A3/indexer.c`, `A3/freq_list.c`, the lookup of `A3/worker.c` | |
| `ChatServer` | `Lab11/chat_server.c`, `chat_client.c` | |
| `CheckPasswd` | `Lab8/checkpasswd.c`, `validate.c` | |
| `MC...` | model values, bounds, symmetry and views for TLC | one module each |
| `HcqLists_proofs` | theorems about `HcqLists`: its invariants, its refinement of `HelpDesk` | |
| `HcqServer_proofs` | theorems about `HcqServer` | instantiates `HcqLists_proofs` |
| `LineReader_proofs` | theorems about `LineReader` and `BufServer`, which share lemmas on finding and shifting | |
| `QueryPool_proofs` | theorems about `QueryPool` and `FreqRecords`, the two halves of the master | |
| `HcqCourses_proofs`, `WordIndex_proofs`, `ChatServer_proofs`, `CheckPasswd_proofs` | theorems about the module in the name | one module each |

Definitions have the names of the functions they model; `PROJECT.json` maps each to
its lines. Definitions marked *(faulty variant)* are wrong on purpose: each property
is seen to fail when the variant replaces the definition that follows it. `BufServer` and
`FreqRecords` put `Buf` and `Rec` before `Init`, `Next`, `Spec` and `TypeOK`, and `BufServer`
calls the server's `buf` and `inbuf` `bytes` and `inuse`, because a module with proofs extends
them together with another specification.

**HcqLists.** Structs have addresses, because they are freed and reused; a linked
list is the sequence of its nodes. One action per command. A TA struct lives and
dies inside the list operations, so the TA list holds TAs by value.

**HcqServer.** A step is one iteration of the loop over descriptors (`Scan`), the
return of `select` (`Select`), or something a user does (`Peers`). The client list is
modelled with addresses and `next` fields, because `remove_client` leaves freed
structs linked. Undefined behaviour (a walk over a freed struct, an uninitialised
name) is a choice between going on unharmed and the status `crashed`, where the model
stops. When a removed struct is handed out again while it is still linked, the list may
end in a cycle, and the next walk of it has the status `hung`. `OneClientPerDescriptor` is about the
structs that are allocated, `NobodyFallsOffTheList` about finding them from `client_list`: a
client is lost to the walks only by such a cycle. A connection carries complete lines, a fill level and, once its peer has left,
a number of reads that still succeed. A peer may close in order or be lost; the first
write to a closed connection succeeds, later ones end the server. The text of a line is
chosen when it is handled. `owner` is a history variable that says which client put
a student in the queue.

**LineReader** and **BufServer** have the bytes that `HcqServer` abstracts from.
A line feed left behind the input by an earlier line may be taken for the end of a line:
`LineReader` then handles that line, as the code does, and crashes in the same step, at
`memmove`. `HcqServer` has no such crash. In `LineReader` the bytes are arbitrary; in `BufServer` the client sends the message
of `randclient.c`, with its real length, into the real 30 bytes.

**HcqCourses** keeps the pointers `next_overall` and `next_course` and both ends of
the course queues. A TA pointer to a freed or reassigned struct is undefined
behaviour when it is used: the model stops there. `add_student` allocates a struct before it
finds that the name is in the queue already; that struct is in `leaked` and never freed. A student who
gives up stays queued, so that the statistics count them as waiting (and may count them as helped
later) while `gave_up` comes on top. `stats_by_course` dereferences NULL for an invalid course, which
is a status `crashed` too.

**QueryPool** has the set of processes that hold each pipe end, the contents of the
pipes, and the program counters of the master and the workers. How many records a
worker has for a word is chosen when it reads the word. `got` has what is handed to `insert`, which
drops some of it (`FreqRecords`): the properties of `QueryPool` are not about what is printed.

**FreqRecords** has the array with one cell behind its end and the value in front of it,
both of which the code touches. A record is compared with the last one in the array, which is
printed last but one: of 1, 6 and 5 occurrences, in this order, the 5 is left out and the 1 is
printed. `LeftOutExceedsOneOnly` says that it is never worse than that.

**WordIndex** numbers words in the order of `strcmp`;
`Cut` says what a node keeps of a word that is too long. `disk` has the two files as
`write_list` leaves them at each write; `Stop` ends the indexer anywhere, with its memory
but not the files gone, and `Rerun` starts it once more on files that may have changed, or for another
directory. `write_list` goes on when `fclose` fails, so each file may end up short; `whole` is
the run whose result is complete on disk, and 0 while a run writes. The reader is a worker of
`query`: `run_worker` counts the names, then `read_list` takes the nodes and the names, each in one
step. That changes nothing for a reader all of whose reads are of one complete run, the only ones of
which `LookupsAreRight` speaks. If the names have become more since they were counted, `read_list` writes
behind the array of `run_worker`, and the model stops (`overrun`). `run_worker` sends only records of
names that begin with `./` (`Dotted`): `indexer -d lib` makes an index without any answers,
and `LookupsAreRight` says so: a record for each file with the word and such a name, and no other.

**ChatServer.** The server never closes a descriptor, so a connection is named by the
number it will get. Lines are lengths; a name is a length and the connection it was
typed on, which is all that `NamesAreOwn` needs. A step is the return of `select`, the
acceptance of a connection, or the reading from one slot. Behaviour that is undefined (the
line built in front of or behind a buffer) is a choice between going on and the
status `crashed`. `FD_SET(-1)` sets the bit of descriptor 63 on x86-64 (`Wrapped`). A
user who is killed with unread bytes resets the connection: a write to it fails, which
drops the user, and a read of it ends the server. Bounds: `LastFd` (the limit on open
descriptors), `MAX_BACKLOG`, `MaxUnread`, and one line unread per connection.

**CheckPasswd.** A word stands for an id or a password, `Cut` for its first
`MAX_PASSWORD` bytes, and the pipe holds blocks of that many bytes. Who holds which end
decides whether a write kills the parent. `exec`, `fork` and the opening of the file
may fail. Lines of the file end in a newline, as those of `pass.txt` do.

## Runs

Runs that pass:

| run | instance | states | what it shows |
|---|---|---|---|
| `HcqLists` | 3 names, 5 structs, 2 TAs | 294 (symmetry) | Heap discipline, one question for each student, order of arrival, refinement of `HelpDesk`. |
| `HcqServer` | 2 descriptors, 2 client addresses, 2 names, any user may take any name, overlong input, closed and lost connections | 1.02M (symmetry, view) | Clients, queue and TA list stay in step; the lists are used only through their operations; a student with a name of their own is not thrown out by others. |
| `HcqServerCalls` | 3 descriptors, 3 client addresses, 2 names, at most one TA, nobody closes a connection | 1.15M (symmetry, view) | Descriptors and allocated client structs stay in step, and each of these is found in the list unless it has become endless; a student with a name of their own is queued when told so, and is the one called. |
| `HcqServerLive` | 2 descriptors, 1 name, at most one TA, closed connections, overlong input | 878k | Clients that were sent away or overran the buffer, and left, are removed, unless the server hangs or crashes over its client list or an unset name (`Astray`). |
| `LineReader` | buffer of 6 bytes, 9 bytes of input, three kinds of byte | 610k | Commands are the lines of the stream, however it is cut; only the last before a crash may lack its LF. |
| `BufServer` | 3 messages of 18 bytes, pieces of 3 to 7, buffer of 30 | 18k | No byte is lost, lines are printed as sent, connections end. |
| `HcqCourses` | 3 names, 2 courses, 4 structs, 2 TAs, one student gives up, one is refused | 55k (symmetry) | The two threadings agree; structs have one owner, but for those of refused students; waiting, helped and being helped add up to those let in; no one is overtaken within a course. |
| `QueryPool` | 3 workers, 2 records each, 2 words, pipes of 2 records, workers may die | 26k | What is handed to `insert` is complete, master and workers are in step, everybody exits. |
| `FreqRecords` | array of 4, 5 records, 5 frequencies | 1.66M | Output sorted, no file twice; while there is room, a record left out exceeds only one that is listed. |
| `WordIndex` | 4 files for 3 places, or one file of a directory without `./`, 3 words of which one is cut; a run of one occurrence and one of 3, either may be stopped | 256k (symmetry) | Sorted, each occurrence counted once, what a worker sends right if all it read is of one complete run. |
| `ChatServer` | 2 places, 3 descriptors for users and one user more, lines of 1 and 3 bytes in a buffer of 5 | 121k | Slots and descriptors in step, names their owner's, a full table harmless, everybody served. |
| `CheckPasswd` | 4 words of which one is cut, 4 files, one with two lines for a user | 3.8k | The message is what the file says. |

Why the bounds are enough. `HcqLists` has room for everybody to wait and for each TA
to serve (3 + 2 structs), so that malloc never fails and always has a choice;
the theorems remove the bounds. In `HcqServer` two connections are a TA and a student,
two students or two TAs, with or without the same name; connections come and
go without limit, so a third user is one who connects after another left. A student
leaves the queue by being kicked, for input that is too long, or by being called. To call
the wrong student a TA needs two of them at once, and to connect behind a client that was
removed but is still linked takes three structs: `HcqServerCalls` has both, and in exchange
nobody closes or overruns a connection; clients leave when they are sent away.
The 6 bytes of
`LineReader` keep all that the 30 have: room for two lines, the two lengths at which no
line is looked for, and the full buffer; nine bytes fill it, overrun it, and leave
lines behind. `HcqCourses` needs two students in one course and one in the other, and
a TA who already serves. In `QueryPool` three workers are the first that inherit
pipe ends of an earlier and a later one; pipes smaller than an answer make writers
wait. In `HcqCourses` one refusal leaves 3 structs for 3 names. In `FreqRecords` more records
arrive than fit. In `WordIndex` more files come than the table takes, the second run finds what the
first left at any point of its writing, and a worker may read before, during and after either;
three occurrences are a word twice in one file and once in another, or a cut one beside two others. `ChatServer` has a third user who waits while the table is full and gets
the place of one who left, and a fourth for whom no descriptor is left; an empty name, a
name with a line that fits and one with a line that does not. `CheckPasswd` has a user
with the right, a wrong and a shortened password, and one who is not in the file.

*Symmetry* permutes addresses, names, courses and files, which are only compared for
equality (in `HcqServer` client addresses and names); descriptors are not permuted (the server uses the lowest), nor words (they
are sorted), and no run with a liveness property uses it. *The view* of `HcqServer`
leaves out what a stopped process held and freed structs that no walk of the list can
reach, which `add_client` overwrites before use. It also replaces the addresses of
students by what the structs hold: `ListsOnlyByOperations` says that the server reaches
them only by the operations of `HcqLists`, and `HeapIsDisciplined` that under these no two
owners share one, so that the address makes no difference.
*Deadlock* is not checked where the program may stop: a server that crashed, a user who
types no more, a bound that is used up.

Further configurations reproduce what the code does otherwise than its comments or
messages say, and other defects met on the way; each is refuted by TLC within seconds
(`tlc -config X.cfg M`):

| configuration (module) | property | the code |
|---|---|---|
| `HcqServerUnlink` (`MCHcqServer`) | `RemovedIsUnlinked` | "Removes the client from the client linked list": `remove_client` (`A4/hcq_server.c:121`) assigns to the local `last` where it should assign to `last->next`: a client that is not first is freed and stays linked. |
| `HcqServerCtrlC` (`MCHcqServer`) | `TasCanLeave` | `handle_client` (`A4/hcq_server.c:172`) does not notice the end of the input: a TA who uses Ctrl-C, as invited, stays on duty for ever. |
| `HcqServerToldTwice` (`MCHcqServer`) | `QueuedWhenTold` | the result of `add_student` is ignored: the second of two students with one name is told to be queued and is not. |
| `HcqCoursesDangling` (`MCHcqCourses`) | `NoTaHoldsFreed` | `take_next_course` (`A2/hcq.c:298`) returns without clearing `current_student` when nobody waits. |
| `HcqCoursesGiveUp` (`MCHcqCourses`) | `GiveUpLeavesQueue` | `give_up_waiting` assigns each `next` field to itself; the student stays in both queues. |
| `BufServerNewline` (`MCBufServer`) | `NewlineInInput` | the line feed is looked for one byte behind the input, where an old one may be. |
| `LineReaderEarly` (`LineReader`) | `CommandsAreComplete` | "listen for complete commands" (`A4/hcq_server.c:179`): a CR that is the last byte read, before an old LF in the buffer, makes an unfinished line a command, and the server crash. |
| `LineReaderUnseen` (`LineReader`) | `FindsTheNewline` | a newline is not looked for with more than 28 bytes buffered. |
| `QueryPoolStuck` (`QueryPool`) | `AnyQueryIsAnswered` | when a worker dies while answering, the master takes its last record again for ever. |
| `FreqRecordsDropped` (`FreqRecords`) | `EveryFileIsListed` | a record below the last one is dropped while there is room. |
| `FreqRecordsOverflow` (`FreqRecords`) | `StaysInArray` | `insert` writes one record behind the array when it becomes full. |
| `WordIndexCut` (`MCWordIndex`) | `OneNodePerWord` | a word longer than a node keeps gets a new node each time. |
| `WordIndexFull` (`MCWordIndex`) | `IndexIsReadable` | a table of exactly `MAXFILES` names is written but refused when read. |
| `WordIndexStopped` (`MCWordIndex`) | `CountsHaveNames` | a run stopped between the two files leaves counts for files without names, which no reader notices. |
| `WordIndexMeanwhile` (`MCWordIndex`) | `ArrayOfTheCorrectSize` | "filenames must point to an array of the correct size" (`A3/freq_list.c:160`): an indexer that runs between `count_lines` and `read_list` makes the array of `run_worker` too short. |
| `ChatServerEmptyName` (`ChatServer`) | `EveryLineIsEchoed` | the answer to an empty name has 0 bytes, and the client waits for ever. |
| `ChatServerExit` (`ChatServer`) | `OutlastsItsUsers` | no descriptor is ever closed: after enough users `accept` fails and the server exits. |
| `CheckPasswdExec` (`MCCheckPasswd`) | `SuccessIsEarned` | a child that cannot run `validate` returns 0, and the password is verified. |
| `CheckPasswdKilled` (`MCCheckPasswd`) | `VerdictIsTold` | a child that ends before the parent's second write leaves it to `SIGPIPE`; the user is told nothing. |
| `CheckPasswdLong` (`MCCheckPasswd`) | `LongWordsToo` | users of more than 10 characters in `pass.txt` are never found. |

## Assumptions in the runs that pass

* `HcqLists`: TA names are unique (`UniqueTas`), which the comment of `add_ta` takes
  for granted. The refinement needs it; the other properties are proved without it.
* `HcqServer`: `DismissedAreRemoved` excepts a server that hangs or has crashed (`Astray`). Users may share names. `ToldIsQueued`, `SummonedIsTaken` and
  `OnlyOwnGiveUp` speak of clients whose name nobody else has at that moment.
* `HcqCourses`: TAs ask for a course only while somebody waits for it (`CarefulTas`);
  without that, `HcqCoursesDangling` applies. A TA is added only under a name no TA has, which
  `add_ta` takes for granted and `helpcentre.c` does not check.
* `QueryPool`: answers are complete and given unless a worker has died.
* `FreqRecords`: `array[-1].freq`, which is read for the first record, may be any number; those below 0
  and above `MaxFreq` compare as 0 and `MaxFreq` do.
* `WordIndex`: lookups are right as long as no word was cut, for a worker that counted the names and
  loaded both files of one complete run.
* `ChatServer`: `EveryoneIsServed` holds while the server runs; `EndHasCause` says what ends it.
* `CheckPasswd`: the message is right when `validate` could be run and could open its file.
  Of several lines for a user the first decides, as `validate` reads no further.

## Fairness

* `HcqServer`: the server is one process that waits only in `select`. So the loop over
  descriptors advances (weak fairness of `ScanAdvances`, which every `Scan` does unless
  the process stops; stated on `ready` alone, it costs TLC less than the whole of `Scan`),
  and `select` returns when a descriptor is ready for good: a connection
  waits, or a peer has left, which stays readable. Nothing is assumed of users: they
  need not type, read or leave.
* `BufServer`: both processes run, and the read of the server does not wait for ever
  because the client writes or closes.
* `QueryPool`: each process runs. That a user types is not assumed (`Prompt`), nor that
  a worker dies.
* `ChatServer`: the server is one process that waits only in `select`, and `chat_client`,
  waiting in `read`, takes what has come. That users type or leave is not assumed.
* `CheckPasswd`, `WordIndex` and the other modules have safety properties only.

## Proofs

Theorems hold for all values of the constants that satisfy the module's assumption; no
other hypothesis is used, except where the table says so. Each module has the same
argument: an invariant `IInv` (`BufInv`, `RecInv`) that implies the property, `Init => IInv`,
`StepKeepsIInv` (`IInv /\ [Next]_vars => IInv'`, a lemma for each operation or for each
conjunct) and `InvariantHolds` (`Spec => []IInv`). Each `IInv` was first checked by TLC as
an invariant of the run's instance.

| module | theorem | statement |
|---|---|---|
| `HcqLists_proofs` | `TypeCorrect` | `Spec => []TypeOK` |
| | `OneQuestionPerStudent` | `Spec => []OneQuestionEach` |
| | `HeapIsDisciplined` | `Spec => []HeapDiscipline` |
| | `QueueIsFair` | `Spec => ArrivalOrder` |
| | `ListsImplementDesk` | with unique TA names, `Spec => ImplementsDesk` |
| `HcqServer_proofs` | `TypeCorrect` | `Spec => []TypeOK` |
| | `OneClientEachDescriptor` | `Spec => []OneClientPerDescriptor` |
| | `ListsAlwaysMatch` | `Spec => []ListsMatchClients` |
| | `ServerImplementsLists` | `Spec => ListsOnlyByOperations`, the refinement of `HcqLists` |
| | `OthersNeverGiveUp` | `Spec => OnlyOwnGiveUp` |
| | `ToldAlwaysQueued` | `Spec => ToldIsQueued` |
| | `SummonedAlwaysTaken` | `Spec => SummonedIsTaken` |
| `LineReader_proofs` | `TypeCorrect` | `Spec => []TypeOK` |
| | `StreamIsAlwaysSplit` | `Spec => []StreamIsSplit` |
| | `BufTypeCorrect` | `BufSpec => []BufTypeOK` |
| | `StreamIsAlwaysKept` | `BufSpec => []StreamIsKept` |
| | `ServedToTheEnd` | `BufSpec => HangsUpOnlyAtTheEnd` |
| `HcqCourses_proofs` | `TypeCorrect` | `Spec => []TypeOK` |
| | `ThreadingsAgree` | `Spec => []CourseListsAgree` |
| | `NobodyIsLost` | with careful TAs, `Spec => []EveryoneAccountedFor` |
| | `CoursesAreFair` | `Spec => FirstOfCourse` |
| `QueryPool_proofs` | `TypeCorrect` | `Spec => []TypeOK` |
| | `AnswersAlwaysMatch` | `Spec => []AnswersMatch` |
| | `RecordsTypeCorrect` | `RecSpec => []RecTypeOK` |
| | `PrintedIsAlwaysRanked` | `RecSpec => []PrintedIsRanked` |
| | `LeftOutAlwaysExceedOneOnly` | `RecSpec => []LeftOutExceedsOneOnly` |
| `ChatServer_proofs` | `TypeCorrect` | `Spec => []TypeOK` |
| | `SlotsAreAlwaysOwn` | `Spec => []SlotsAreOwn` |
| | `EndAlwaysHasCause` | `Spec => []EndHasCause` |
| `CheckPasswd_proofs` | `TypeCorrect` | `Spec => []TypeOK` |
| | `VerdictIsAlwaysRight` | `Spec => []VerdictIsRight` |
| `WordIndex_proofs` | `TypeCorrect` | `Spec => []TypeOK` |
| | `AlwaysSorted` | `Spec => []Sorted` |
| | `AlwaysCountedOnce` | `Spec => []CountedOnce` |
| | `LookupsAreAlwaysRight` | `Spec => []LookupsAreRight` |

**What is assumed of constants.** That bounds are natural numbers, that `NULL`, the marks for
the outcome of a walk and the special bytes are not ordinary values, and what the
code makes true: backlogs and buffer sizes are positive; the message of `randclient.c` is a
sequence that ends in its only CR and LF and fits into the server's buffer (`BufAssumption`); descriptors of connections
come after the listening one, as `socket` is called first (`ServerAssumption`,
`ChatAssumption`); there is a
struct for every descriptor, so that `malloc` does not fail; the records of all workers
fit into the master's array (`PoolAssumption`; what happens when they do not is in
`FreqRecords`); cutting a word twice is cutting it once (`PasswdAssumption`), and, as a
prefix sorts before the word, it moves no word back and keeps the order of `strcmp`
(`IndexAssumption`).

**HcqLists.** None of the invariants is inductive alone. That no list points at a freed struct
survives a free only if the struct has one owner; that it has one owner survives an
allocation only if queued and served structs are allocated; that a name is in the queue
once survives an allocation only if the new struct is not one already queued.
`IInv` in `HcqLists_proofs` is their conjunction, stated by positions:
`QueuedAllocated`, `ServedAllocated`, `QueuedOnce`, `ServedOnce`, `Apart`, `Reachable`,
`NamedOnce` and `TypeOK`. One lemma for each operation (`AddStudentKeeps`,
`GiveUpKeeps`, `AddTaKeeps`, `RemoveTaKeeps`, `NextOverallKeeps`) shows that it keeps
`IInv`, with a step for each conjunct it can disturb; they rest on lemmas on taking a
node out of a sequence and putting one in front. `QueueIsFair` follows from `QueueSteps`:
an operation appends a struct that is not in the queue, takes one out, or does nothing.
For the refinement, `RInv` adds that TA names are unique. `WaitingIs` and `HelpingIs`
describe the mapped variables by positions, one lemma for each operation shows
that it maps to the abstract operation or a stutter, and `StepMaps` puts them together.

**HcqServer.** `IInv` has, besides the properties themselves, `StatesFit` (a client's
protocol state says which of its name and type are set), `AcceptDue` (the listening socket is
reported only while a connection waits) and `ListsKept`, which is `IInv` of
`HcqLists_proofs` used through an instance: when the server performs an operation of the lists,
the lemma about that operation is cited and not proved again. `RosterMatchesClients` counts
entries and clients of a name, because TAs who share a name cannot be told apart; its
steps rest on lemmas about cardinalities of sets that lose or gain one element. The
action properties are conjuncts of `Kept`, which `StepKept` proves of every step from
`IInv`: `IInv'`, the refinement step, and what the step does to those who are queued.

**LineReader.** The bytes handled are a prefix of the stream that is empty or ends in a
newline, with as many newlines as commands were handled (`HandledUpTo`); the buffer holds
the rest (`Holds`); and every command is the line of its number in any longer stream
(`LinesOf`). The rank of a newline is a cardinality, so that no recursion is needed;
`NextLine` shows that the first newline in the buffer is the next of the stream, which
needs that a newline cannot begin with the last byte handled.

**BufServer.** What is checked says how the bytes read are split into lines printed and bytes
buffered. `BufInv` adds who may be ahead of whom: the server has read no more than was
written, a client that hung up has written everything, and the server reads only when it
holds less than a message. The last needs that in a periodic stream the first CR of the
buffer is the one that ends the message (`LineIsMessage`): the line feed the server looks for
behind its input may be an old one, but the line it prints is the message all the same, and the
byte it has not read is why it may crash then.

**HcqCourses.** The queues exist only as pointers, so the properties speak of what a walk finds
(`Nodes`, a recursive function). `NodesOfThreaded` says that the walk along `next` fields which
thread a sequence finds that sequence: the function is built, and shown to be the only one,
for one length after the other, by the smallest length at which either would fail, as
the induction theorem of the library cannot be used. With it each operation is a change to
sequences: a node at the end, a node out of the middle, a head taken off. `CourseListsAgree` says by
positions that a course queue is the overall queue restricted to the course (`Restricts`), and
`Chains` that the pointers thread both. `Accounts` counts, for each course, the structs that are
allocated and not queued, and `Owners` says that these are the ones TAs hold. Only `Owners`
needs careful TAs; the structs of refused students are a third kind of owner (`Leaks`). The theorems on types, on the two threadings and on fairness hold also
when a TA is left with a struct that is then freed, since no operation follows that pointer before
the model stops.

**QueryPool.** `Exchange` says that only the worker the master collects from is at work: it has
its word, is in its answer, or has answered; all others are idle, or died with their word
unread. `Gathering` splits what each worker has sent into what is in the master's array, at
the place of its turn, and what is in its pipe. `EndsHeld` ties the ends of a worker's two pipes
to its life, which is why an end of file in the middle of an answer means that the worker
died. `AnswersAreComplete` gives the place of a worker's records by counting (`Upto`)
and not by concatenation, of which the provers know nothing.

**FreqRecords.** What makes the array sorted is not that it always is: between two records
its last two cells are in the opposite order (`AlmostRanked`), because `insert` only takes
what belongs before the last record; the exchange before printing sets them right. `LeftOut` bounds what was refused.

**ChatServer.** `SlotsAreOwn` needs that a descriptor in a slot has been accepted
(`HeldAccepted`), that `accept` is called only while a connection waits
(`AcceptDue`), and that users still to come have done nothing (`NotStarted`);
`EndHasCause`, that only a user who left closes a connection (`PeerHasLeft`).

**CheckPasswd.** `Blocks` says which blocks are in the pipe at each pair of program points,
`Progress` and `PassedOver` how far `validate` has come in the file and that no line before
that decides, `Answered` and `Told` what exit status and message follow.

**WordIndex.** A word is compared in full with words that were cut, so its node is put in front
of nodes that do not sort before the whole word, and what is kept of it may be smaller. That
this is still in order needs that no node has a word that would be cut again (`KeptUncut`):
a word before the place is smaller than the new one, hence, both cut, not larger.
The other properties rest on a second invariant, `CInv`. `Matching` relates a list, names and
counts: names are distinct, the column of a word and a file adds up to its occurrences, and if no
word was cut no word has two nodes. It holds of memory, together with the fact that no node
counts for a number not yet given out, so that a new file starts at zero; of what is on disk as
long as `whole` says that a run wrote it completely; and so of what a reader has loaded, if all it
read is of that run: its count of names is then the number of names it loads. That a reader's list is still the one on disk when it takes the names
needs that the number of a run that is being written is larger than any on disk or with a reader.
Sums over sets are defined by recursion; the lemmas on them (one more, one only, a
smaller set, values that moved to make room) each look at a smallest set for which they
would fail. The bound `TypeOK` puts on counts follows: no count is more than its column.

**Only model-checked**, and why:

* Liveness (`QueryIsAnswered`, `EverybodyExits`, `EveryConnectionEnds`, `EveryoneIsServed`,
  `DismissedAreRemoved`): the prover does not reason about `ENABLED`,
  hence not about fairness.
* `NobodyFallsOffTheList`: which structs a walk comes to depends on the whole history of removals
  and of reuse; an inductive invariant for any number of structs is left to do.

Every other invariant and every action property that a run checks is proved. `RecTypeOK` is
proved and in no run.

## Not modelled

The text of messages, the layout of files and output, times, parsing of commands and
of the course file; failing `malloc` and `pipe`, and
`fork` but for `CheckPasswd`; writes that block because a peer does not read; heap overflows by one byte, where a block of `strlen` bytes is made for a string and its end
(`A4/hcq_server.c:182`, `A2/hcq.c:72`, `Lab11/chat_server.c:65`), which the models take to go unharmed;
the mark behind the arrays of `get_word` and `run_worker`; printing of an index (`printindex`); the search for subdirectories.
A1, Lab1 to Lab6 and Lab9 are sequential programs without state between calls; the forks of
Lab7 keep no state but a loop counter.

## Plan

Done, in this order: lists and their abstract specification; the server on top of
them; the byte level of the two line servers; version 1 of the help centre; the query
processes, their records and their index; the theorems about the lists; the chat server,
the password check, and the index on disk under an indexer that is stopped and run again;
the theorems about the server and its refinement of the lists, the buffer of one client, the
query processes, the record array, the index, the chat server and the
password check; those about the server of Lab10 and about version 1 of the help centre.

Next:

1. `Forks` (Lab7): the number of processes and who waits for whom.
2. An abstract map from words and files to counts, which `WordIndex` refines; an abstract
   echo service for `ChatServer`.
3. `FreqRecords` under `QueryPool`: the records in the order they come from the workers.
4. A proof of `NobodyFallsOffTheList`: what `remove_client` and the reuse of a struct do to the
   chain of `next` fields.
