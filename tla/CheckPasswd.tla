----------------------------- MODULE CheckPasswd -----------------------------
(***************************************************************************)
(* Lab8: checkpasswd reads a user id and a password, writes both into a    *)
(* pipe, and forks; the child becomes validate, which reads them from the  *)
(* pipe, looks them up in a file, and answers with its exit status.  After *)
(* the fork the parent writes both once more.                              *)
(*                                                                         *)
(* Words stand for user ids and passwords; Cut[w] is what the first        *)
(* MAX_PASSWORD bytes of w read as.  A block of the pipe is one read of    *)
(* validate, MAX_PASSWORD bytes.                                           *)
(***************************************************************************)
EXTENDS Naturals, Sequences

CONSTANTS
    Words, Cut,
    Rest,           \* what a block behind the first of a line reads as
    Files           \* contents of the password file: sequences of lines

ASSUME PasswdAssumption ==
    /\ Cut \in [Words -> Words] /\ \A w \in Words : Cut[Cut[w]] = Cut[w]
    /\ Rest \notin Words
    /\ \A f \in Files : f \in Seq([user : Words, password : Words])

\* The messages to the user.
Outcomes == {"verified", "invalid", "no_such_user"}

VARIABLES
    user_id, password,  \* what the user types
    file,               \* the password file
    parent, child,      \* what either process does next
    image,              \* the program the child runs
    pipe,               \* the blocks in it
    readers, writers,   \* the processes that hold its ends
    given,              \* the blocks validate has read
    line,               \* the line of the file validate reads next
    result,             \* the exit status of the child
    said                \* what the user is told

typed == <<user_id, password, file>>
ends == <<readers, writers>>
validate == <<image, given, line, result>>
vars == <<typed, parent, child, pipe, ends, validate, said>>

TypeOK ==
    /\ user_id \in Words /\ password \in Words /\ file \in Files
    /\ parent \in {"write_user", "write_password", "fork", "close", "user_again",
                   "password_again", "wait", "done", "failed", "killed"}
    /\ child \in {"none", "exec", "read", "open", "scan", "ended"}
    /\ image \in {"checkpasswd", "validate"}
    /\ pipe \in Seq(Words \cup {Rest}) /\ given \in Seq(Words \cup {Rest}) /\ Len(given) <= 2
    /\ readers \subseteq {"parent", "child"} /\ writers \subseteq {"parent", "child"}
    /\ line \in 1 .. Len(file) + 1 /\ result \in 0 .. 3
    /\ said \in Outcomes \cup {"nothing"}

\* Both lines have been typed and the pipe has been made.
Init ==
    /\ user_id \in Words /\ password \in Words /\ file \in Files
    /\ parent = "write_user" /\ child = "none" /\ image = "checkpasswd"
    /\ pipe = <<>> /\ readers = {"parent"} /\ writers = {"parent"}
    /\ given = <<>> /\ line = 1 /\ result = 0 /\ said = "nothing"

-----------------------------------------------------------------------------
(* checkpasswd.c, the parent *)

\* (faulty variant) as many bytes as after the fork.
ThreeBlocks(w) == <<Cut[w], Rest, Rest>>

FirstBlocks(w) == <<Cut[w]>>

write_user ==
    /\ parent = "write_user" /\ parent' = "write_password"
    /\ pipe' = pipe \o FirstBlocks(user_id)
    /\ UNCHANGED <<typed, child, ends, validate, said>>

write_password ==
    /\ parent = "write_password" /\ parent' = "fork"
    /\ pipe' = pipe \o FirstBlocks(password)
    /\ UNCHANGED <<typed, child, ends, validate, said>>

fork ==
    /\ parent = "fork"
    /\ \/ /\ parent' = "failed" /\ UNCHANGED <<child, ends>>
       \/ /\ parent' = "close" /\ child' = "exec"
          /\ readers' = {"parent", "child"} /\ writers' = {"parent", "child"}
    /\ UNCHANGED <<typed, pipe, validate, said>>

close_read ==
    /\ parent = "close" /\ parent' = "user_again"
    /\ readers' = readers \ {"parent"}
    /\ UNCHANGED <<typed, child, pipe, writers, validate, said>>

\* A write into a pipe that nobody can read kills the writer.
Again(blocks, next) ==
    IF readers = {}
    THEN parent' = "killed" /\ writers' = writers \ {"parent"} /\ UNCHANGED pipe
    ELSE parent' = next /\ pipe' = pipe \o blocks /\ UNCHANGED writers

user_again ==
    /\ parent = "user_again"
    /\ Again(<<Cut[user_id], Rest, Rest>>, "password_again")
    /\ UNCHANGED <<typed, child, readers, validate, said>>

password_again ==
    /\ parent = "password_again"
    /\ Again(<<Cut[password]>>, "wait")
    /\ UNCHANGED <<typed, child, readers, validate, said>>

\* (faulty variant) an error is told too.
ErrorIsTold(r) == CASE r = 0 -> "verified" [] r = 2 -> "invalid"
                    [] r = 3 -> "no_such_user" [] OTHER -> "internal_error"

Message(r) == CASE r = 0 -> "verified" [] r = 2 -> "invalid"
                [] r = 3 -> "no_such_user" [] OTHER -> "nothing"

\* The write end is closed before the wait.
wait ==
    /\ parent = "wait"
    /\ \/ /\ "parent" \in writers /\ writers' = writers \ {"parent"}
          /\ UNCHANGED <<parent, said>>
       \/ /\ "parent" \notin writers /\ child = "ended"
          /\ parent' = "done" /\ said' = Message(result) /\ UNCHANGED writers
    /\ UNCHANGED <<typed, child, pipe, readers, validate>>

Parent == write_user \/ write_password \/ fork \/ close_read \/ user_again \/ password_again \/ wait

-----------------------------------------------------------------------------
(* the child: checkpasswd.c up to execl, then validate.c *)

exit(status) ==
    /\ child' = "ended" /\ result' = status
    /\ readers' = readers \ {"child"} /\ writers' = writers \ {"child"}

\* A child that cannot become validate returns 0 from main.
exec ==
    /\ child = "exec"
    /\ \/ exit(0) /\ UNCHANGED image
       \/ /\ child' = "read" /\ image' = "validate" /\ writers' = writers \ {"child"}
          /\ UNCHANGED <<result, readers>>
    /\ UNCHANGED <<typed, parent, pipe, given, line, said>>

\* The user id, then the password; read waits while somebody could still write.
read ==
    /\ child = "read"
    /\ \/ /\ pipe # <<>>
          /\ given' = Append(given, Head(pipe)) /\ pipe' = Tail(pipe)
          /\ child' = IF Len(given) = 0 THEN "read" ELSE "open"
          /\ UNCHANGED <<ends, result>>
       \/ pipe = <<>> /\ writers = {} /\ exit(1) /\ UNCHANGED <<pipe, given>>
    /\ UNCHANGED <<typed, parent, image, line, said>>

open ==
    /\ child = "open"
    /\ \/ exit(1)
       \/ child' = "scan" /\ UNCHANGED <<result, ends>>
    /\ UNCHANGED <<typed, parent, pipe, image, given, line, said>>

\* The id and the password as one string with the line, then the id alone.
scan ==
    /\ child = "scan"
    /\ LET id == given[1] pw == given[2]
       IN  \/ line > Len(file) /\ exit(3) /\ UNCHANGED line
           \/ /\ line <= Len(file) /\ file[line] = [user |-> id, password |-> pw]
              /\ exit(0) /\ UNCHANGED line
           \/ /\ line <= Len(file) /\ file[line].user = id /\ file[line].password # pw
              /\ exit(2) /\ UNCHANGED line
           \/ /\ line <= Len(file) /\ file[line].user # id
              /\ line' = line + 1 /\ UNCHANGED <<child, result, ends>>
    /\ UNCHANGED <<typed, parent, pipe, image, given, said>>

Child == exec \/ read \/ open \/ scan

Next == Parent \/ Child

Spec == Init /\ [][Next]_vars

-----------------------------------------------------------------------------
(* Safety *)

Lines == {file[i] : i \in 1 .. Len(file)}

\* What the file says of a user and a password: the first line of the user decides.
Verdict(id, pw) ==
    IF \E i \in 1 .. Len(file) : /\ file[i] = [user |-> id, password |-> pw]
                                 /\ \A j \in 1 .. i - 1 : file[j].user # id
    THEN "verified"
    ELSE IF \E i \in 1 .. Len(file) : file[i].user = id THEN "invalid"
    ELSE "no_such_user"

\* When validate has run and could read the file, the user is told what the file
\* says of the first bytes of the id and the password, whatever the order of the
\* parent's later writes and validate's reads; nothing is said before the child
\* has ended, and a parent that is killed, which only happens after the child has
\* gone, has said nothing (checkpasswd.c main, validate.c main).
VerdictIsRight ==
    /\ parent = "done" /\ image = "validate" =>
          said = IF result = 1 THEN "nothing" ELSE Verdict(Cut[user_id], Cut[password])
    /\ said # "nothing" => parent = "done" /\ child = "ended"
    /\ parent = "killed" => child = "ended" /\ said = "nothing"

(* Refuted *)

\* "0 if the user id and password match": a child that could not run validate also
\* answers 0, and the password is verified (checkpasswd.c:79).
SuccessIsEarned ==
    said = "verified" => [user |-> Cut[user_id], password |-> Cut[password]] \in Lines

\* Whoever types what stands in the file is told so: not when the child is faster
\* than the parent, whose second write then kills it (checkpasswd.c:58), nor when
\* the id or the password is longer than MAX_PASSWORD (checkpasswd.c:40).
VerdictIsTold == parent # "killed"
LongWordsToo ==
    parent = "done" /\ image = "validate" /\ result # 1 => said = Verdict(user_id, password)
=============================================================================
