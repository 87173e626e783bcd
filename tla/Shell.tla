------------------------------- MODULE Shell -------------------------------
(***************************************************************************)
(* The shell running command lines: main and runcmd of sh.c over the pipes *)
(* of Pipe.tla, with the descriptors, fork, exit, wait and kill they use.  *)
(* runcmd turns a parsed command into the system calls the process makes;  *)
(* what a forked child does next is part of its fork.                      *)
(*                                                                         *)
(* Programs write fixed bytes or copy their input; the console and a file  *)
(* collect what reaches them in out.  hist keeps, for the properties only, *)
(* what went into and came out of each pipe.                               *)
(***************************************************************************)
EXTENDS Pipe, ShellParser

CONSTANTS Procs,      \* process 1 is the shell
          Pipes,      \* pages there are for pipes
          Scenarios   \* what the shell is given to do: command lines, or a test instead

VARIABLES pipes, ofile,
          th,      \* registers and script of each process
          out, hist,
          sc       \* the scenario: what it should write, kills left, what failed

vars == <<pipes, ofile, th, out, hist, sc>>

Fds     == 0 .. 4
R       == 100                      \* the descriptors of the last pipe call: p[0]
W       == 101                      \* and p[1]
Free    == [t |-> "none", k |-> 0]
Console == [t |-> "con", k |-> 0]
OutFile == [t |-> "file", k |-> 0]
EmptyFile == [t |-> "empty", k |-> 0]
Directory == [t |-> "dir", k |-> 0]
End(t, k) == [t |-> t, k |-> k]

\* System calls, as the scripts have them.
Do(op, a)   == [op |-> op] @@ a
Close(fd)   == Do("close", [fd |-> fd])
Dup(fd)     == Do("dup", [fd |-> fd])
MkPipe      == Do("pipe", [n |-> 2])
Open(file, mode) == Do("open", [file |-> file, mode |-> mode])
Fork(child) == Do("fork", [child |-> child])
Wait        == Do("wait", [n |-> 1])
Kill(i)     == Do("kill", [i |-> i])     \* the i-th process after the caller
Spin        == Do("spin", [n |-> 0])
Exit        == Do("exit", [n |-> 0])
Write(fd, bytes)   == Do("write", [fd |-> fd, bytes |-> bytes])
Copy(fd, n, max)   == Do("copy", [fd |-> fd, n |-> n, max |-> max])  \* to 1, until end of file
ReadOnce(fd, n)    == Do("copy", [fd |-> fd, n |-> n, max |-> 0])    \* one read, then on

\* The programs of the image: exec finds them or fails.
Image == [put3 |-> <<Write(1, <<1, 2, 3>>)>>, put1 |-> <<Write(1, <<4>>)>>, cat |-> <<Copy(0, 2, 2)>>,
          first |-> <<ReadOnce(0, 2)>>]
exec(argv) == IF argv # <<>> /\ argv[1] \in DOMAIN Image THEN Image[argv[1]] ELSE <<>>

\* redircmd: "<" is for reading, and ">" writes and creates.
ModeOf(cmd) == IF cmd.fd = 0 THEN "r" ELSE "w"

RECURSIVE runcmd(_)
M_runcmd_KeepsWrite(cmd) ==
    CASE cmd.t = "exec"  -> exec(cmd.argv) \o <<Exit>>
      [] cmd.t = "redir" -> <<Close(cmd.fd), Open(cmd.file, ModeOf(cmd))>> \o runcmd(cmd.cmd)
      [] cmd.t = "list"  -> <<Fork(runcmd(cmd.left)), Wait>> \o runcmd(cmd.right)
      [] cmd.t = "pipe"  ->
           <<MkPipe, Fork(<<Close(1), Dup(W), Close(R), Close(W)>> \o runcmd(cmd.left)),
             Fork(<<Close(0), Dup(R), Close(R)>> \o runcmd(cmd.right)),
             Close(R), Close(W), Wait, Wait, Exit>>
      [] cmd.t = "back"  -> <<Fork(runcmd(cmd.cmd)), Exit>>
runcmd(cmd) ==
    CASE cmd.t = "exec"  -> exec(cmd.argv) \o <<Exit>>
      [] cmd.t = "redir" -> <<Close(cmd.fd), Open(cmd.file, ModeOf(cmd))>> \o runcmd(cmd.cmd)
      [] cmd.t = "list"  -> <<Fork(runcmd(cmd.left)), Wait>> \o runcmd(cmd.right)
      [] cmd.t = "pipe"  ->
           <<MkPipe, Fork(<<Close(1), Dup(W), Close(R), Close(W)>> \o runcmd(cmd.left)),
             Fork(<<Close(0), Dup(R), Close(R), Close(W)>> \o runcmd(cmd.right)),
             Close(R), Close(W), Wait, Wait, Exit>>
      [] cmd.t = "back"  -> <<Fork(runcmd(cmd.cmd)), Exit>>

\* main: each line in a child of its own, one after the other.
OfLine(p) == <<Fork(IF p.ok THEN runcmd(p.cmd) ELSE <<Exit>>), Wait>>
main(lines) == FlattenSeq([i \in DOMAIN lines |-> OfLine(parsecmd(lines[i]))]) \o <<Exit>>

(***************************************************************************)
(* Two tests of usertests.c, and what command lines should write.          *)
(***************************************************************************)
\* pipe1 with three writes of three bytes; the reader doubles its count.
pipe1 == <<MkPipe, Fork(<<Close(R), Write(W, <<1, 2, 3>>), Write(W, <<4, 5, 6>>),
                        Write(W, <<7, 8, 9>>), Exit>>),
           Close(W), Copy(R, 1, 4), Close(R), Wait, Exit>>
\* preempt with one of its two spinning children.
preempt == <<Fork(<<Spin>>), MkPipe, Fork(<<Close(R), Write(W, <<7>>), Close(W), Spin>>),
             Close(W), ReadOnce(R, 2), Close(R), Kill(1), Kill(2), Wait, Wait, Exit>>
Tests == [pipe1 |-> [script |-> pipe1, con |-> <<1, 2, 3, 4, 5, 6, 7, 8, 9>>],
          preempt |-> [script |-> preempt, con |-> <<7>>]]
RECURSIVE Meaning(_, _)
\* What a command writes to its output and to the file, given its input.
Meaning(cmd, in) ==
    LET Writes(c, f) == [con |-> c, file |-> f] IN
    CASE cmd.t = "exec" -> Writes(CASE cmd.argv = <<"put3">> -> <<1, 2, 3>> [] cmd.argv = <<"put1">> -> <<4>>
                               [] cmd.argv = <<"cat">> -> in [] OTHER -> <<>>, <<>>)
      [] cmd.t = "redir" ->
           LET m == Meaning(cmd.cmd, IF cmd.fd = 0 THEN <<>> ELSE in)
           IN IF cmd.file = "dir" /\ cmd.fd # 0 THEN Writes(<<>>, <<>>)
              ELSE IF cmd.fd = 0 THEN m ELSE Writes(<<>>, m.file \o m.con)
      [] cmd.t = "list" -> LET l == Meaning(cmd.left, in)
                               r == Meaning(cmd.right, in)
                           IN Writes(l.con \o r.con, l.file \o r.file)
      [] cmd.t = "pipe" -> LET l == Meaning(cmd.left, in)
                               r == Meaning(cmd.right, l.con)
                           IN Writes(r.con, l.file \o r.file)
      [] cmd.t = "back" -> Meaning(cmd.cmd, in)
      [] cmd.t = "bad"  -> Writes(<<>>, <<>>)
Both2(a, c) == [con |-> a.con \o c.con, file |-> a.file \o c.file]
Wanted(lines) == FoldLeft(Both2, [con |-> <<>>, file |-> <<>>],
                          [i \in DOMAIN lines |-> Meaning(RefLine(lines[i]), <<>>)])

Unborn == [pc |-> "unused", script |-> <<>>, i |-> 0, parent |-> 0, killed |-> FALSE,
           p |-> <<0, 0>>]

Init ==
    \E x \in Scenarios :
      /\ sc = [want |-> IF x.test = "" THEN Wanted(x.lines) ELSE [con |-> Tests[x.test].con, file |-> <<>>],
               exact |-> x.exact, kills |-> x.kills, killing |-> FALSE, failed |-> FALSE]
      /\ pipes = [q \in Pipes |-> NoPipe]
      /\ ofile = [p \in Procs |-> [fd \in Fds |-> IF p = 1 /\ fd < 3 THEN Console ELSE Free]]
      /\ th = [p \in Procs |->
                 IF p # 1 THEN Unborn
                 ELSE [Unborn EXCEPT !.pc = "user",
                         !.script = IF x.test = "" THEN main(x.lines) ELSE Tests[x.test].script]]
      /\ out = [con |-> <<>>, file |-> <<>>]
      /\ hist = [q \in Pipes |-> [sent |-> <<>>, rcvd |-> <<>>]]

(***************************************************************************)
(* Descriptors                                                             *)
(***************************************************************************)
\* The process is in user mode and about to make this call.
Calls(p, op) == /\ th[p].pc = "user" /\ ~th[p].killed /\ Head(th[p].script).op = op
Arg(p)       == Head(th[p].script)
Fd(p, fd)    == IF fd = R THEN th[p].p[1] ELSE IF fd = W THEN th[p].p[2] ELSE fd
Done(t)     == [t EXCEPT !.pc = "user", !.script = Tail(@), !.i = 0]
GivesUp(t)  == [t EXCEPT !.pc = "user", !.script = <<Exit>>, !.i = 0]
Lowest(p)    == {fd \in Fds : ofile[p][fd].t = "none" /\
                              \A g \in Fds : ofile[p][g].t = "none" => fd <= g}
IsEnd(f)     == f.t \in {"r", "w"}
Holders(of, f) == {<<p, fd>> \in Procs \X Fds : of[p][fd] = f}

\* wakeup on a pipe's nread (side "r": sleeping readers) or nwrite (side "w").
Asleep(t, side, k, p) == t[p].pc = "sleep" /\ ofile[p][Fd(p, Arg(p).fd)] = End(side, k)
wakeup(t, side, k) == [p \in Procs |-> IF Asleep(t, side, k, p) THEN [t[p] EXCEPT !.pc = "in"] ELSE t[p]]

\* fileclose has dropped the last reference to an end.
M_LastRef_Any(of, f) == IsEnd(f)
LastRef(of, f) == IsEnd(f) /\ Holders(of, f) = {}
\* fileclose of one descriptor: the pipe's end goes with its last holder.
fileclose(p, fd, t) ==
    LET f    == ofile[p][fd]
        gone == [ofile EXCEPT ![p][fd] = Free]
        last == LastRef(gone, f)
    IN /\ ofile' = gone
       /\ pipes' = IF last THEN [pipes EXCEPT ![f.k] = pipeclose(@, f.t = "w")] ELSE pipes
       /\ th' = IF last THEN wakeup(t, IF f.t = "w" THEN "r" ELSE "w", f.k) ELSE t

sys_close(p) ==
    /\ Calls(p, "close")
    /\ fileclose(p, Fd(p, Arg(p).fd), [th EXCEPT ![p] = Done(@)])
    /\ UNCHANGED <<out, hist, sc>>

sys_dup(p) ==
    /\ Calls(p, "dup")
    /\ \E fd \in Lowest(p) : ofile' = [ofile EXCEPT ![p][fd] = ofile[p][Fd(p, Arg(p).fd)]]
    /\ th' = [th EXCEPT ![p] = Done(@)]
    /\ UNCHANGED <<pipes, out, hist, sc>>

\* The files there are: a directory cannot be opened for writing, and the
\* command is given up; programs write f, read e, and read no directory.
Opened(file) == CASE file = "f" -> OutFile [] file = "dir" -> Directory [] OTHER -> EmptyFile
sys_open(p) ==
    /\ Calls(p, "open")
    /\ IF Arg(p).file = "dir" /\ Arg(p).mode # "r"
       THEN th' = [th EXCEPT ![p] = GivesUp(@)] /\ UNCHANGED ofile
       ELSE /\ \E fd \in Lowest(p) : ofile' = [ofile EXCEPT ![p][fd] = Opened(Arg(p).file)]
            /\ th' = [th EXCEPT ![p] = Done(@)]
    /\ UNCHANGED <<pipes, out, hist, sc>>

\* sys_pipe: a page and two descriptors, or the shell panics and the process exits.
sys_pipe(p) ==
    LET k   == {q \in Pipes : ~InUse(pipes[q])}
        fds == {fd \in Fds : ofile[p][fd].t = "none"}
    IN
    /\ Calls(p, "pipe")
    /\ IF k = {} \/ Cardinality(fds) < 2
       THEN th' = [th EXCEPT ![p] = GivesUp(@)] /\ sc' = [sc EXCEPT !.failed = TRUE]
            /\ UNCHANGED <<pipes, ofile, hist>>
       ELSE LET q  == CHOOSE x \in k : \A y \in k : x <= y
                r  == CHOOSE x \in fds : \A y \in fds : x <= y
                w  == CHOOSE x \in fds \ {r} : \A y \in fds \ {r} : x <= y
            IN /\ pipes' = [pipes EXCEPT ![q] = pipealloc]
               /\ hist' = [hist EXCEPT ![q] = [sent |-> <<>>, rcvd |-> <<>>]]
               /\ ofile' = [ofile EXCEPT ![p][r] = End("r", q), ![p][w] = End("w", q)]
               /\ th' = [th EXCEPT ![p] = [Done(@) EXCEPT !.p = <<r, w>>]]
               /\ UNCHANGED sc
    /\ UNCHANGED out

(***************************************************************************)
(* Reading and writing                                                     *)
(***************************************************************************)
\* trap checks killed, then the call goes on.
syscall(p) ==
    /\ Calls(p, "write") \/ Calls(p, "copy")
    /\ th' = [th EXCEPT ![p].pc = "in"]
    /\ UNCHANGED <<pipes, ofile, out, hist, sc>>

In(p, op)  == th[p].pc = "in" /\ Arg(p).op = op
FileOf(p)  == ofile[p][Fd(p, Arg(p).fd)]

filewrite(p) ==
    LET f == FileOf(p)
        a == Arg(p)
    IN
    /\ In(p, "write")
    /\ IF f.t \in {"con", "file"}
       THEN /\ out' = [out EXCEPT ![f.t] = @ \o a.bytes]
            /\ th' = [th EXCEPT ![p] = Done(@)]
            /\ UNCHANGED <<pipes, hist>>
       ELSE LET w == pipewrite(pipes[f.k], a.bytes, th[p].i, th[p].killed)
                me == IF w.sleeps THEN [th[p] EXCEPT !.pc = "sleep", !.i = w.i]
                      ELSE IF w.ret < 0 THEN GivesUp(th[p]) ELSE Done(th[p])
            IN /\ pipes' = [pipes EXCEPT ![f.k] = w.q]
               /\ hist' = [hist EXCEPT ![f.k].sent = @ \o SubSeq(a.bytes, th[p].i + 1, w.i)]
               /\ th' = [IF w.wakes THEN wakeup(th, "r", f.k) ELSE th EXCEPT ![p] = me]
               /\ UNCHANGED out
    /\ UNCHANGED <<ofile, sc>>

\* What a copying program does with the bytes it read.
GoesOn(t, n, bytes) ==
    LET a    == Head(t.script)
        next == [a EXCEPT !.n = Min2(2 * a.n, a.max)]
    IN IF n < 0 THEN GivesUp(t)
       ELSE IF n = 0 THEN Done(t)
       ELSE [t EXCEPT !.pc = "user",
               !.script = <<Write(1, bytes)>> \o (IF a.max = 0 THEN <<>> ELSE <<next>>) \o Tail(t.script)]

fileread(p) ==
    LET f == FileOf(p)
        r == piperead(pipes[f.k], Arg(p).n, th[p].killed)
    IN
    /\ In(p, "copy")
    /\ IF f.t = "empty"
       THEN th' = [th EXCEPT ![p] = GoesOn(@, 0, <<>>)] /\ UNCHANGED <<pipes, hist>>
       ELSE /\ pipes' = [pipes EXCEPT ![f.k] = r.q]
            /\ hist' = [hist EXCEPT ![f.k].rcvd = @ \o r.bytes]
            /\ th' = [IF r.wakes THEN wakeup(th, "w", f.k) ELSE th EXCEPT
                        ![p] = IF r.sleeps THEN [@ EXCEPT !.pc = "sleep"]
                               ELSE GoesOn(@, r.ret, r.bytes)]
    /\ UNCHANGED <<ofile, out, sc>>

(***************************************************************************)
(* Processes                                                               *)
(***************************************************************************)
\* fork1: without a free slot the shell panics and exits.
fork(p) ==
    LET free == {q \in Procs : th[q].pc = "unused"}
        q    == CHOOSE x \in free : \A y \in free : x <= y
    IN
    /\ Calls(p, "fork")
    /\ IF free = {}
       THEN /\ th' = [th EXCEPT ![p] = GivesUp(@)] /\ sc' = [sc EXCEPT !.failed = TRUE]
            /\ UNCHANGED ofile
       ELSE /\ th' = [th EXCEPT ![p] = Done(@),
                                ![q] = [Unborn EXCEPT !.pc = "user", !.parent = p, !.p = th[p].p,
                                                      !.script = Arg(p).child]]
            /\ ofile' = [ofile EXCEPT ![q] = ofile[p]]
            /\ UNCHANGED sc
    /\ UNCHANGED <<pipes, out, hist>>

\* Init, the parent of orphans, reaps them at once.
Reaped(t, q) == [t EXCEPT ![q] = Unborn]
wait(p) ==
    LET kids == {q \in Procs : th[q].parent = p /\ th[q].pc # "unused"}
        dead == {q \in kids : th[q].pc = "zombie"}
    IN
    /\ Calls(p, "wait")
    /\ \/ kids = {} /\ th' = [th EXCEPT ![p] = Done(@)]
       \/ \E q \in dead : th' = [Reaped(th, q) EXCEPT ![p] = Done(th[p])]
    /\ UNCHANGED <<pipes, ofile, out, hist, sc>>

\* A killed process leaves at its next trap; a loop or a wait does not keep it.
dies(p) ==
    /\ th[p].pc = "user" /\ th[p].killed /\ Arg(p).op # "exit"
    /\ th' = [th EXCEPT ![p].script = <<Exit>>]
    /\ UNCHANGED <<pipes, ofile, out, hist, sc>>

\* exit closes the descriptors from the lowest up, then gives its children to
\* init and becomes a zombie.
exit(p) ==
    LET ends == {fd \in Fds : IsEnd(ofile[p][fd])}
        fd   == CHOOSE x \in ends : \A y \in ends : x <= y
        adopt == [q \in Procs |->
                    IF th[q].parent # p THEN th[q]
                    ELSE IF th[q].pc = "zombie" THEN Unborn ELSE [th[q] EXCEPT !.parent = 0]]
    IN
    /\ th[p].pc = "user" /\ Arg(p).op = "exit"
    /\ IF ends # {}
       THEN fileclose(p, fd, th)
       ELSE /\ ofile' = [ofile EXCEPT ![p] = [g \in Fds |-> Free]]
            /\ th' = [adopt EXCEPT ![p] = IF th[p].parent = 0 /\ p # 1 THEN Unborn
                                          ELSE [th[p] EXCEPT !.pc = "zombie", !.script = <<>>]]
            /\ UNCHANGED pipes
    /\ UNCHANGED <<out, hist, sc>>

Killed(t, q) == [t EXCEPT ![q].killed = TRUE, ![q].pc = IF @ = "sleep" THEN "in" ELSE @]
\* kill, from another terminal's program, or by the parent in preempt.
kill(q) ==
    /\ sc.kills > 0 /\ q # 1 /\ th[q].pc \notin {"unused", "zombie"} /\ ~th[q].killed
    /\ th' = Killed(th, q)
    /\ sc' = [sc EXCEPT !.kills = @ - 1, !.killing = TRUE]
    /\ UNCHANGED <<pipes, ofile, out, hist>>
sys_kill(p) ==
    LET q == p + Arg(p).i IN
    /\ Calls(p, "kill")
    /\ th' = [IF th[q].pc \in {"unused", "zombie"} THEN th ELSE Killed(th, q) EXCEPT ![p] = Done(th[p])]
    /\ UNCHANGED <<pipes, ofile, out, hist, sc>>

Step(p) == \/ sys_close(p) \/ sys_dup(p) \/ sys_open(p) \/ sys_pipe(p) \/ syscall(p)
           \/ filewrite(p) \/ fileread(p) \/ fork(p) \/ wait(p) \/ dies(p) \/ exit(p) \/ sys_kill(p)
Next == \E p \in Procs : Step(p) \/ kill(p)
Spec == Init /\ [][Next]_vars /\ \A p \in Procs : WF_vars(Step(p))

----------------------------------------------------------------------------
\* Every component has its type.
TypeOK ==
    /\ \A k \in Pipes : /\ pipes[k].nread \in 0 .. WRAP - 1 /\ pipes[k].nwrite \in 0 .. WRAP - 1
                        /\ Filled(pipes[k]) <= PIPESIZE
    /\ \A p \in Procs : th[p].pc \in {"unused", "user", "in", "sleep", "zombie"}
    /\ \A p \in Procs, fd \in Fds : ofile[p][fd].t \in {"none", "con", "file", "empty", "dir", "r", "w"}

\* What has come out of a pipe, and then what is in it, is what was put in, in
\* that order: nothing is lost, repeated or reordered while writers sleep in
\* the middle of a write, several writers share an end and the counters wrap.
Fifo == \A k \in Pipes : hist[k].rcvd \o Queue(pipes[k]) = hist[k].sent

\* An end of a pipe is open exactly as long as a descriptor refers to it, so
\* the page is freed once, and never under a process that may still use it.
EndsMatchDescriptors ==
    \A k \in Pipes : /\ pipes[k].readopen = (Holders(ofile, End("r", k)) # {})
                     /\ pipes[k].writeopen = (Holders(ofile, End("w", k)) # {})

\* Nobody sleeps without a reason: a sleeping writer's pipe is full and has a
\* reader, a sleeping reader's is empty and has a writer, and neither has been
\* killed.  (A killed writer that fills the pipe returns without a wakeup, so
\* the reader's part is claimed for runs without kills.)
SleepersHaveReason ==
    \A p \in Procs : th[p].pc = "sleep" =>
      LET q == pipes[FileOf(p).k] IN
      /\ ~th[p].killed
      /\ FileOf(p).t = "w" => Room(q) = 0 /\ q.readopen
      /\ FileOf(p).t = "r" /\ ~sc.killing => Filled(q) = 0 /\ q.writeopen

\* What the processes of a command line write in the end is what the line
\* means by its tree alone, whichever way they ran; before the end it is the
\* beginning of that.
OutputAsMeant ==
    (sc.exact /\ ~sc.failed) =>
      /\ IsPrefix(out.con, sc.want.con) /\ IsPrefix(out.file, sc.want.file)
      /\ (th[1].pc = "zombie" /\ \A p \in Procs \ {1} : th[p].pc = "unused") => out = sc.want

\* The shell gets through its lines: every command ends, whatever is killed,
\* whichever end of a pipe goes first, and whether or not fork succeeds.
ShellReturns == <>(th[1].pc = "zombie")

\* A pipe is an exact channel between the descriptors that refer to it: its
\* bytes in order, its ends open as long as somebody holds them (pipe.c, file.c).
PipesExact == TypeOK /\ Fifo /\ EndsMatchDescriptors
============================================================================
