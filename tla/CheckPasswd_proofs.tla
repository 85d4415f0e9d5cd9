------------------------- MODULE CheckPasswd_proofs -------------------------
(***************************************************************************)
(* Proofs about the password check (CheckPasswd), for every set of words,  *)
(* every way of cutting them and every password file.                      *)
(***************************************************************************)
EXTENDS CheckPasswd, SequenceTheorems, TLAPS

(* The inductive invariant.  VerdictIsRight speaks of the end; what makes   *)
(* it true is what the pipe holds, who can read it, and what the scan has   *)
(* passed over.                                                             *)

id == Cut[user_id]
pw == Cut[password]

\* Before the fork nobody reads, and the parent writes one block at a time.
BeforeFork ==
    /\ child = "none" => /\ parent \in {"write_user", "write_password", "fork", "failed"}
                         /\ given = <<>> /\ readers = {"parent"} /\ writers = {"parent"}
    /\ parent \in {"write_user", "write_password", "fork", "failed"} => child = "none"
    /\ parent = "write_user" => pipe = <<>>
    /\ parent = "write_password" => Len(pipe) = 1 /\ pipe[1] = id
    /\ parent = "fork" => Len(pipe) = 2 /\ pipe[1] = id /\ pipe[2] = pw

\* After it, what validate has read and the next it will read are the id and the
\* password, whatever the parent has written behind them.
Blocks ==
    child # "none" =>
        /\ Len(given) + Len(pipe) >= 2
        /\ IF Len(given) >= 1 THEN given[1] = id ELSE pipe[1] = id
        /\ IF Len(given) = 2 THEN given[2] = pw ELSE pipe[2 - Len(given)] = pw

\* How far the child has come.
Progress ==
    /\ child \in {"none", "exec"} => image = "checkpasswd"
    /\ child \in {"none", "exec", "read", "open"} => line = 1
    /\ child = "exec" => given = <<>>
    /\ child = "read" => Len(given) <= 1
    /\ child \in {"open", "scan"} => Len(given) = 2
    /\ child \in {"exec", "read", "open", "scan"} => "child" \in readers

PassedOver == \A i \in 1 .. line - 1 : file[i].user # id

Answered ==
    child = "ended" /\ image = "validate" =>
        Message(result) = IF result = 1 THEN "nothing" ELSE Verdict(id, pw)

Told ==
    /\ parent = "done" => child = "ended" /\ said = Message(result)
    /\ parent # "done" => said = "nothing"
    /\ parent = "killed" => child = "ended"

IInv ==
    /\ TypeOK
    /\ BeforeFork
    /\ Blocks
    /\ Progress
    /\ PassedOver
    /\ Answered
    /\ Told
-----------------------------------------------------------------------------
(* Lemmas about the pipe. *)

Block == Words \cup {Rest}

LEMMA CutsAreWords ==
    ASSUME TypeOK
    PROVE  id \in Words /\ pw \in Words /\ id \in Block /\ pw \in Block /\ Rest \in Block
  BY PasswdAssumption DEF TypeOK, id, pw, Block

\* What is written comes behind what the pipe holds.
LEMMA Written ==
    ASSUME NEW p \in Seq(Block), NEW b \in Seq(Block)
    PROVE  /\ p \o b \in Seq(Block)
           /\ Len(p \o b) = Len(p) + Len(b)
           /\ \A i \in 1 .. Len(p) : (p \o b)[i] = p[i]
           /\ \A i \in 1 .. Len(b) : (p \o b)[Len(p) + i] = b[i]
<1>1. /\ p \o b \in Seq(Block)
      /\ Len(p \o b) = Len(p) + Len(b)
      /\ \A i \in 1 .. Len(p) + Len(b) : (p \o b)[i] = IF i <= Len(p) THEN p[i] ELSE b[i - Len(p)]
  BY ConcatProperties
<1>2. Len(p) \in Nat /\ Len(b) \in Nat
  BY LenProperties
<1> QED
  BY <1>1, <1>2

LEMMA UpTo == ASSUME NEW n \in Nat, NEW m \in Nat, n <= m PROVE n \in 0 .. m
  OBVIOUS

LEMMA PipeAndGiven ==
    ASSUME TypeOK
    PROVE  /\ pipe \in Seq(Block) /\ Len(pipe) \in Nat
           /\ given \in Seq(Block) /\ Len(given) \in 0 .. 2
<1>1. pipe \in Seq(Block) /\ given \in Seq(Block)
  BY DEF TypeOK, Block
<1>2. Len(pipe) \in Nat
  BY <1>1, LenProperties
<1>3. Len(given) \in Nat
  BY <1>1, LenProperties
<1>4. Len(given) <= 2
  BY DEF TypeOK
<1>5. Len(given) \in 0 .. 2
  BY <1>3, <1>4, UpTo
<1> QED
  BY <1>1, <1>2, <1>5

\* So the blocks that validate reads stay the first.
LEMMA BlocksStay ==
    ASSUME TypeOK, Blocks, NEW b \in Seq(Block), pipe' = pipe \o b,
           UNCHANGED <<given, typed, child>>
    PROVE  pipe' \in Seq(Block) /\ Blocks'
<1>1. /\ pipe \in Seq(Block) /\ Len(pipe) \in Nat /\ Len(b) \in Nat
      /\ Len(given) \in 0 .. 2
  BY PipeAndGiven, LenProperties
<1>2. /\ pipe' \in Seq(Block) /\ Len(pipe') = Len(pipe) + Len(b)
      /\ \A i \in 1 .. Len(pipe) : pipe'[i] = pipe[i]
  BY <1>1, Written
<1>3. id' = id /\ pw' = pw
  BY DEF id, pw, typed
<1>4. CASE Len(given) = 0
  BY <1>1, <1>2, <1>3, <1>4 DEF Blocks
<1>5. CASE Len(given) = 1
  BY <1>1, <1>2, <1>3, <1>5 DEF Blocks
<1>6. CASE Len(given) = 2
  BY <1>1, <1>2, <1>3, <1>6 DEF Blocks
<1> QED
  BY <1>1, <1>4, <1>5, <1>6

-----------------------------------------------------------------------------
(* Each step keeps the invariant. *)

LEMMA InitHolds == Init => IInv
<1> SUFFICES ASSUME Init PROVE IInv
  OBVIOUS
<1>1. file \in Seq([user : Words, password : Words]) /\ Len(file) \in Nat
  BY PasswdAssumption, LenProperties DEF Init
<1>2. TypeOK
  BY <1>1, EmptySeq DEF Init, TypeOK
<1>3. BeforeFork /\ Blocks /\ Progress /\ PassedOver /\ Answered /\ Told
  BY DEF Init, BeforeFork, Blocks, Progress, PassedOver, Answered, Told
<1> QED
  BY <1>2, <1>3 DEF IInv

LEMMA WriteUserKeeps == IInv /\ write_user => IInv'
<1> SUFFICES ASSUME IInv, write_user PROVE IInv'
  OBVIOUS
<1>1. /\ pipe' \in Seq(Block) /\ Len(pipe') = 1 /\ pipe'[1] = id
      /\ child = "none" /\ id' = id /\ pw' = pw
  <2>1. /\ <<id>> \in Seq(Block) /\ Len(<<id>>) = 1 /\ <<id>>[1] = id
        /\ <<>> \in Seq(Block) /\ Len(<<>>) = 0
    BY CutsAreWords DEF IInv
  <2>2. pipe = <<>> /\ pipe' = pipe \o <<id>>
    BY DEF IInv, BeforeFork, write_user, FirstBlocks, id
  <2>3. pipe' \in Seq(Block) /\ Len(pipe') = 1 /\ pipe'[0 + 1] = id
    BY <2>1, <2>2, Written
  <2>4. child = "none"
    BY DEF IInv, BeforeFork, write_user
  <2>5. id' = id /\ pw' = pw
    BY DEF write_user, typed, id, pw
  <2> QED
    BY <2>3, <2>4, <2>5
<1>2. TypeOK'
  BY <1>1 DEF IInv, TypeOK, write_user, typed, ends, validate, Block
<1>3. BeforeFork' /\ Blocks' /\ Progress' /\ PassedOver'
  BY <1>1 DEF IInv, write_user, BeforeFork, Blocks, Progress, PassedOver, typed, ends, validate
<1>4. Answered' /\ Told'
  BY <1>1 DEF IInv, write_user, Answered, Told, typed, ends, validate
<1> QED
  BY <1>2, <1>3, <1>4 DEF IInv

LEMMA WritePasswordKeeps == IInv /\ write_password => IInv'
<1> SUFFICES ASSUME IInv, write_password PROVE IInv'
  OBVIOUS
<1>1. /\ pipe' \in Seq(Block) /\ Len(pipe') = 2 /\ pipe'[1] = id /\ pipe'[2] = pw
      /\ child = "none" /\ id' = id /\ pw' = pw
  <2>1. /\ <<pw>> \in Seq(Block) /\ Len(<<pw>>) = 1 /\ <<pw>>[1] = pw
        /\ pipe \in Seq(Block)
    BY CutsAreWords DEF IInv, TypeOK, Block
  <2>2. Len(pipe) = 1 /\ pipe[1] = id /\ pipe' = pipe \o <<pw>>
    BY DEF IInv, BeforeFork, write_password, FirstBlocks, pw
  <2>3. Len(pipe') = 2 /\ pipe'[1] = id /\ pipe'[1 + 1] = pw
    BY <2>1, <2>2, Written
  <2> QED
    BY <2>1, <2>2, <2>3, Written DEF IInv, BeforeFork, write_password, typed, id, pw
<1>2. TypeOK'
  BY <1>1 DEF IInv, TypeOK, write_password, typed, ends, validate, Block
<1>3. BeforeFork' /\ Blocks' /\ Progress' /\ PassedOver'
  BY <1>1 DEF IInv, write_password, BeforeFork, Blocks, Progress, PassedOver, typed, ends, validate
<1>4. Answered' /\ Told'
  BY <1>1 DEF IInv, write_password, Answered, Told, typed, ends, validate
<1> QED
  BY <1>2, <1>3, <1>4 DEF IInv

LEMMA ForkKeeps == IInv /\ fork => IInv'
<1> SUFFICES ASSUME IInv, fork PROVE IInv'
  OBVIOUS
<1>1. /\ Len(pipe) = 2 /\ pipe[1] = id /\ pipe[2] = pw
      /\ child = "none" /\ given = <<>> /\ Len(given) = 0 /\ id' = id /\ pw' = pw
  BY DEF IInv, BeforeFork, fork, typed, id, pw
<1>2. TypeOK'
  BY DEF IInv, TypeOK, fork, typed, ends, validate
<1>3. BeforeFork'
  BY <1>1 DEF IInv, fork, BeforeFork, typed, ends, validate
<1>4. Blocks'
  BY <1>1 DEF fork, Blocks, validate
<1>5. Progress' /\ PassedOver' /\ Answered' /\ Told'
  BY <1>1 DEF IInv, fork, Progress, PassedOver, Answered, Told, typed, ends, validate
<1> QED
  BY <1>2, <1>3, <1>4, <1>5 DEF IInv

\* Steps of the parent after the fork that write nothing, or behind the rest.
LEMMA CloseReadKeeps == IInv /\ close_read => IInv'
<1> SUFFICES ASSUME IInv, close_read PROVE IInv'
  OBVIOUS
<1>1. id' = id /\ pw' = pw /\ child # "none"
  BY DEF IInv, BeforeFork, close_read, typed, id, pw
<1>2. TypeOK'
  BY DEF IInv, TypeOK, close_read, typed, validate
<1>3. BeforeFork' /\ Blocks' /\ Progress' /\ PassedOver'
  BY <1>1 DEF IInv, close_read, BeforeFork, Blocks, Progress, PassedOver, typed, validate
<1>4. Answered' /\ Told'
  BY <1>1 DEF IInv, close_read, Answered, Verdict, Told, typed, validate
<1> QED
  BY <1>2, <1>3, <1>4 DEF IInv

\* Nobody who could read is left only when the child has ended.
LEMMA NobodyReads == IInv /\ child # "none" /\ readers = {} => child = "ended"
  BY DEF IInv, TypeOK, Progress

LEMMA AgainKeeps ==
    ASSUME IInv, NEW blocks \in Seq(Block),
           NEW next \in {"password_again", "wait"},
           parent \in {"user_again", "password_again"}, Again(blocks, next),
           UNCHANGED <<typed, child, readers, validate, said>>
    PROVE  IInv'
<1>1. id' = id /\ pw' = pw /\ child # "none"
  BY DEF IInv, BeforeFork, typed, id, pw
<1>2. pipe' \in Seq(Block) /\ Blocks'
  <2>1. CASE readers = {}
    BY <2>1, <1>1 DEF IInv, TypeOK, Blocks, Again, validate, Block
  <2>2. CASE readers # {}
    BY <2>2, BlocksStay DEF IInv, Again, validate
  <2> QED
    BY <2>1, <2>2
<1>3. /\ parent' \in {next, "killed"} /\ writers' \subseteq writers
      /\ parent' = "killed" => readers = {}
  BY DEF Again
<1>4. TypeOK'
  BY <1>2, <1>3 DEF IInv, TypeOK, typed, validate, Block
<1>5. BeforeFork' /\ Progress' /\ PassedOver'
  BY <1>1, <1>3 DEF IInv, BeforeFork, Progress, PassedOver, typed, validate
<1>6. Answered' /\ Told'
  BY <1>1, <1>3, NobodyReads DEF IInv, Answered, Verdict, Told, typed, validate
<1> QED
  BY <1>2, <1>4, <1>5, <1>6 DEF IInv

LEMMA WriteAgainKeeps == IInv /\ (user_again \/ password_again) => IInv'
<1>1. ASSUME IInv PROVE <<id, Rest, Rest>> \in Seq(Block) /\ <<pw>> \in Seq(Block)
  BY <1>1, CutsAreWords DEF IInv
<1>2. IInv /\ user_again => IInv'
  BY <1>1, AgainKeeps DEF user_again, id
<1>3. IInv /\ password_again => IInv'
  BY <1>1, AgainKeeps DEF password_again, pw
<1> QED
  BY <1>2, <1>3

LEMMA WaitKeeps == IInv /\ wait => IInv'
<1> SUFFICES ASSUME IInv, wait PROVE IInv'
  OBVIOUS
<1>1. id' = id /\ pw' = pw /\ child # "none"
  BY DEF IInv, BeforeFork, wait, typed, id, pw
<1>2. TypeOK'
  BY DEF IInv, TypeOK, wait, typed, validate, Message, Outcomes
<1>3. BeforeFork' /\ Blocks' /\ Progress' /\ PassedOver'
  BY <1>1 DEF IInv, wait, BeforeFork, Blocks, Progress, PassedOver, typed, validate
<1>4. Answered' /\ Told'
  BY <1>1 DEF IInv, wait, Answered, Verdict, Told, typed, validate
<1> QED
  BY <1>2, <1>3, <1>4 DEF IInv

\* The child ends: what it held is closed, and its answer counts when it is right.
LEMMA ExitKeeps ==
    ASSUME IInv, child \notin {"none", "ended"}, NEW status \in 0 .. 3, exit(status),
           image = "validate" => Message(status) = IF status = 1 THEN "nothing" ELSE Verdict(id, pw),
           UNCHANGED <<typed, parent, pipe, image, given, line, said>>
    PROVE  IInv'
<1>1. /\ id' = id /\ pw' = pw /\ child' = "ended" /\ result' = status
      /\ Verdict(id, pw)' = Verdict(id, pw)
  BY DEF typed, exit, id, pw, Verdict
<1>2. TypeOK'
  BY DEF IInv, TypeOK, exit, typed
<1>3. BeforeFork' /\ Blocks' /\ Progress' /\ PassedOver'
  BY <1>1 DEF IInv, exit, BeforeFork, Blocks, Progress, PassedOver, typed
<1>4. Answered' /\ Told'
  BY <1>1 DEF IInv, Answered, Told, Message
<1> QED
  BY <1>2, <1>3, <1>4 DEF IInv

LEMMA ExecKeeps == IInv /\ exec => IInv'
<1> SUFFICES ASSUME IInv, exec PROVE IInv'
  OBVIOUS
<1>1. image = "checkpasswd" /\ child = "exec" /\ id' = id /\ pw' = pw
  BY DEF IInv, Progress, exec, typed, id, pw
<1>2. CASE exit(0) /\ UNCHANGED image
  BY <1>1, <1>2, ExitKeeps DEF exec
<1>3. CASE child' = "read" /\ image' = "validate" /\ UNCHANGED <<result, readers>>
  <2>1. TypeOK'
    BY <1>3 DEF IInv, TypeOK, exec, typed, exit
  <2>2. BeforeFork' /\ PassedOver' /\ Answered' /\ Told'
    BY <1>1, <1>3 DEF IInv, exec, BeforeFork, PassedOver, Answered, Told, typed
  <2>3. Blocks'
    BY <1>1, <1>3 DEF IInv, exec, Blocks
  <2>4. Progress'
    <3>1. given = <<>> /\ Len(given) = 0
      BY <1>1, EmptySeq DEF IInv, Progress
    <3> QED
      BY <1>1, <1>3, <3>1 DEF IInv, exec, Progress
  <2> QED
    BY <2>1, <2>2, <2>3, <2>4 DEF IInv
<1> QED
  BY <1>2, <1>3 DEF exec

LEMMA OpenKeeps == IInv /\ open => IInv'
<1> SUFFICES ASSUME IInv, open PROVE IInv'
  OBVIOUS
<1>1. id' = id /\ pw' = pw /\ child = "open"
  BY DEF open, typed, id, pw
<1>2. CASE exit(1)
  BY <1>1, <1>2, ExitKeeps DEF open, Message
<1>3. CASE child' = "scan" /\ UNCHANGED <<result, ends>>
  <2>1. TypeOK'
    BY <1>3 DEF IInv, TypeOK, open, typed, ends
  <2>2. BeforeFork' /\ Blocks' /\ Progress'
    BY <1>1, <1>3 DEF IInv, open, BeforeFork, Blocks, Progress, typed, ends
  <2>3. PassedOver' /\ Answered' /\ Told'
    BY <1>1, <1>3 DEF IInv, open, PassedOver, Answered, Told, typed, ends
  <2> QED
    BY <2>1, <2>2, <2>3 DEF IInv
<1> QED
  BY <1>2, <1>3 DEF open

LEMMA ReadKeeps == IInv /\ read => IInv'
<1> SUFFICES ASSUME IInv, read PROVE IInv'
  OBVIOUS
<1>1. id' = id /\ pw' = pw /\ child = "read"
  BY DEF read, typed, id, pw
<1>2. CASE pipe = <<>> /\ writers = {} /\ exit(1) /\ UNCHANGED <<pipe, given>>
  BY <1>1, <1>2, ExitKeeps DEF read, Message
<1>3. CASE /\ pipe # <<>>
           /\ given' = Append(given, Head(pipe)) /\ pipe' = Tail(pipe)
           /\ child' = IF Len(given) = 0 THEN "read" ELSE "open"
           /\ UNCHANGED <<ends, result>>
  <2>1. pipe \in Seq(Block) /\ given \in Seq(Block) /\ Len(pipe) \in Nat /\ Len(given) \in 0 .. 1
    <3>1. Len(given) <= 1 /\ Len(given) \in Nat
      BY <1>1, PipeAndGiven DEF IInv, Progress
    <3>2. Len(given) \in 0 .. 1
      BY <3>1, UpTo
    <3> QED
      BY <3>2, PipeAndGiven DEF IInv
  <2>2. /\ pipe' \in Seq(Block) /\ Len(pipe') = Len(pipe) - 1
        /\ \A i \in 1 .. Len(pipe) - 1 : pipe'[i] = pipe[i + 1]
        /\ Head(pipe) \in Block /\ Head(pipe) = pipe[1]
    BY <1>3, <2>1, HeadTailProperties
  <2>3. /\ given' \in Seq(Block) /\ Len(given') = Len(given) + 1
        /\ \A i \in 1 .. Len(given) : given'[i] = given[i]
        /\ given'[Len(given) + 1] = pipe[1]
    BY <1>3, <2>1, <2>2, AppendProperties
  <2>4. TypeOK'
    <3>1. pipe' \in Seq(Words \cup {Rest}) /\ given' \in Seq(Words \cup {Rest})
      BY <2>2, <2>3 DEF Block
    <3>2. Len(given') <= 2
      BY <2>1, <2>3
    <3> QED
      BY <1>3, <3>1, <3>2 DEF IInv, TypeOK, read, typed, ends
  <2>5. Blocks'
    <3>1. CASE Len(given) = 0
      BY <1>1, <2>1, <2>2, <2>3, <3>1 DEF IInv, Blocks
    <3>2. CASE Len(given) = 1
      BY <1>1, <2>1, <2>2, <2>3, <3>2 DEF IInv, Blocks
    <3> QED
      BY <2>1, <3>1, <3>2
  <2>6. Progress'
    BY <1>1, <1>3, <2>1, <2>3 DEF IInv, read, Progress, ends
  <2>7. BeforeFork' /\ PassedOver' /\ Answered' /\ Told'
    BY <1>1, <1>3 DEF IInv, read, BeforeFork, PassedOver, Answered, Told, typed, ends
  <2> QED
    BY <2>4, <2>5, <2>6, <2>7 DEF IInv
<1> QED
  BY <1>2, <1>3 DEF read

\* The scan ends at the first line of the user, or behind the last line.
LEMMA ScanKeeps == IInv /\ scan => IInv'
<1> SUFFICES ASSUME IInv, scan PROVE IInv'
  OBVIOUS
<1>1. /\ given[1] = id /\ given[2] = pw /\ child = "scan" /\ image' = image
      /\ id' = id /\ pw' = pw
  BY DEF IInv, Blocks, Progress, scan, typed, id, pw
<1>2. /\ Len(file) \in Nat /\ line \in 1 .. Len(file) + 1
      /\ \A i \in 1 .. Len(file) : file[i] \in [user : Words, password : Words]
  <2>1. file \in Seq([user : Words, password : Words])
    BY PasswdAssumption DEF IInv, TypeOK
  <2> QED
    BY <2>1, LenProperties, ElementOfSeq DEF IInv, TypeOK
<1>3. CASE line > Len(file) /\ exit(3) /\ UNCHANGED line
  <2>1. ~\E i \in 1 .. Len(file) : file[i].user = id
    BY <1>2, <1>3 DEF IInv, PassedOver
  <2>2. Verdict(id, pw) = "no_such_user"
    BY <2>1 DEF Verdict
  <2> QED
    BY <1>1, <1>3, <2>2, ExitKeeps DEF scan, Message
<1>4. CASE /\ line <= Len(file) /\ file[line] = [user |-> id, password |-> pw]
           /\ exit(0) /\ UNCHANGED line
  <2>1. Verdict(id, pw) = "verified"
    BY <1>2, <1>4 DEF IInv, PassedOver, Verdict
  <2> QED
    BY <1>1, <1>4, <2>1, ExitKeeps DEF scan, Message
<1>5. CASE /\ line <= Len(file) /\ file[line].user = id /\ file[line].password # pw
           /\ exit(2) /\ UNCHANGED line
  <2>1. ASSUME NEW i \in 1 .. Len(file), file[i] = [user |-> id, password |-> pw],
               \A j \in 1 .. i - 1 : file[j].user # id
        PROVE  FALSE
    <3>1. i # line /\ file[i].user = id
      BY <1>5, <2>1
    <3>2. ~(i < line) /\ ~(line < i)
      BY <1>2, <1>5, <2>1, <3>1 DEF IInv, PassedOver
    <3> QED
      BY <1>2, <3>1, <3>2
  <2>2. Verdict(id, pw) = "invalid"
    BY <1>2, <1>5, <2>1 DEF Verdict
  <2> QED
    BY <1>1, <1>5, <2>2, ExitKeeps DEF scan, Message
<1>6. CASE /\ line <= Len(file) /\ file[line].user # id
           /\ line' = line + 1 /\ UNCHANGED <<child, result, ends>>
  <2>1. TypeOK'
    BY <1>2, <1>6 DEF IInv, TypeOK, scan, typed, ends
  <2>2. PassedOver'
    BY <1>1, <1>2, <1>6 DEF IInv, PassedOver, scan, typed
  <2>3. BeforeFork' /\ Blocks' /\ Progress'
    BY <1>1, <1>6 DEF IInv, scan, BeforeFork, Blocks, Progress, typed, ends
  <2>4. Answered' /\ Told'
    BY <1>1, <1>6 DEF IInv, scan, Answered, Told, typed, ends
  <2> QED
    BY <2>1, <2>2, <2>3, <2>4 DEF IInv
<1> QED
  BY <1>1, <1>3, <1>4, <1>5, <1>6 DEF scan

LEMMA StutterKeeps == IInv /\ UNCHANGED vars => IInv'
<1> SUFFICES ASSUME IInv, UNCHANGED vars PROVE IInv'
  OBVIOUS
<1>1. id' = id /\ pw' = pw /\ Verdict(id, pw)' = Verdict(id, pw)
  BY DEF vars, typed, id, pw, Verdict
<1>2. TypeOK' /\ BeforeFork' /\ Blocks'
  BY <1>1 DEF IInv, TypeOK, BeforeFork, Blocks, vars, typed, ends, validate
<1>3. Progress' /\ PassedOver' /\ Answered' /\ Told'
  BY <1>1 DEF IInv, Progress, PassedOver, Answered, Told, vars, typed, ends, validate
<1> QED
  BY <1>2, <1>3 DEF IInv

-----------------------------------------------------------------------------
(* The theorems. *)

THEOREM StepKeepsIInv == IInv /\ [Next]_vars => IInv'
<1> SUFFICES ASSUME IInv, [Next]_vars PROVE IInv'
  OBVIOUS
<1>1. CASE Parent
  BY <1>1, WriteUserKeeps, WritePasswordKeeps, ForkKeeps, CloseReadKeeps, WriteAgainKeeps,
     WaitKeeps DEF Parent
<1>2. CASE Child
  BY <1>2, ExecKeeps, ReadKeeps, OpenKeeps, ScanKeeps DEF Child
<1>3. CASE UNCHANGED vars
  BY <1>3, StutterKeeps
<1> QED
  BY <1>1, <1>2, <1>3 DEF Next

THEOREM InvariantHolds == Spec => []IInv
  BY InitHolds, StepKeepsIInv, PTL DEF Spec

\* Every variable keeps its type, whatever the words and the file
\* (checkpasswd.c main, validate.c main).
THEOREM TypeCorrect == Spec => []TypeOK
<1>1. IInv => TypeOK
  BY DEF IInv
<1> QED
  BY <1>1, InvariantHolds, PTL

\* A user is told what the file says of the first MAX_PASSWORD bytes of the id and
\* the password, in every order of the writes of checkpasswd.c and the reads of
\* validate.c, and a parent that is killed has lost its child and said nothing.
THEOREM VerdictIsAlwaysRight == Spec => []VerdictIsRight
<1>1. IInv => VerdictIsRight
  BY DEF IInv, Answered, Told, VerdictIsRight, Message, id, pw
<1> QED
  BY <1>1, InvariantHolds, PTL
=============================================================================
