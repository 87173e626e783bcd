------------------------------ MODULE SysFile ------------------------------
(***************************************************************************)
(* The file system calls (sysfile.c) and the open-file table (file.c) over *)
(* FileSys.tla, with the parts of fork, exit and wait that touch files.    *)
(*                                                                         *)
(* Every process runs a script of calls.  A call is a sequence of actions, *)
(* cut where the code may have to wait for the sleep lock of an inode:     *)
(* everything between two acquisitions runs under locks that keep others   *)
(* away from what it touches.  A lock that is still held at a cut stays in *)
(* holder.  References a process is about to drop are queued in puts, and  *)
(* iput and deref take them one by one.                                    *)
(*                                                                         *)
(* A script may say what a call must return; the calls that returned       *)
(* something else are collected in bad.                                    *)
(***************************************************************************)
EXTENDS FileSys

CONSTANTS Procs,      \* processes; the first one starts
          NFILE,      \* entries of the open-file table
          NOFILE,     \* descriptors of a process
          MaxWrite,   \* cells filewrite puts in one transaction
          Scenarios,  \* groups of scripts that run side by side
          Image       \* the files mkfs puts in the root directory

ASSUME SysFileAssumption ==
    /\ NFILE \in Nat \ {0} /\ NOFILE \in Nat \ {0} /\ MaxWrite \in Nat \ {0}
    /\ \A k \in DOMAIN Scenarios : Len(Scenarios[k]) <= Cardinality(Procs)

VARIABLES fs,      \* the file system
          holder,  \* who holds the sleep lock of each inode-cache entry; 0: nobody
          ftable,  \* open files
          ofile,   \* ofile[p][fd]: the open file, or 0
          cwd,     \* current directories
          th,      \* registers and script of each process
          bad      \* calls that did not return what the script expects

vars == <<fs, holder, ftable, ofile, cwd, th, bad>>

Fds       == 0 .. NOFILE - 1
FileIds   == 1 .. NFILE
ClosedFile == [ref |-> 0, type |-> "none", ip |-> 0, off |-> 0, r |-> FALSE, w |-> FALSE]
Idle      == [pc |-> "unused", script |-> <<>>, call |-> [op |-> "none"], path |-> <<>>,
              par |-> FALSE, cur |-> 0, ip |-> 0, dp |-> 0, name |-> "", off |-> 0, puts |-> <<>>,
              ok |-> "ret", fail |-> "ret", then |-> "ret", ret |-> 0, cells |-> <<>>, done |-> 0,
              parent |-> 0]

With(p, r) == [th EXCEPT ![p] = r @@ th[p]]
At(p, l)   == th[p].pc = l /\ fs.panic = ""
Locks(s)   == holder[s] = 0
Hold(p, s) == [holder EXCEPT ![s] = p]
M_Release_Kept(s) == holder
Release(s) == [holder EXCEPT ![s] = 0]
\* Drop the references in ss, then go on at l.
PutThen(ss, l) == [puts |-> ss, then |-> l, pc |-> IF ss = <<>> THEN l ELSE "iput"]
Fails(ss)      == [ret |-> -1] @@ PutThen(ss, "ret")

Init ==
    \E k \in DOMAIN Scenarios :
      LET sc == Scenarios[k]
          n  == Len(sc)
          root == iget(Mkfs(Image), ROOTINO)
      IN /\ fs = [root.fs EXCEPT !.mem[root.s].ref = n]
         /\ holder = [s \in Slots |-> 0]
         /\ ftable = [f \in FileIds |-> ClosedFile]
         /\ ofile = [p \in Procs |-> [fd \in Fds |-> 0]]
         /\ cwd = [p \in Procs |-> IF p <= n THEN root.s ELSE 0]
         /\ th = [p \in Procs |-> IF p <= n THEN [Idle EXCEPT !.pc = "user", !.script = sc[p]]
                                            ELSE Idle]
         /\ bad = {}

(***************************************************************************)
(* Path names                                                              *)
(***************************************************************************)
\* Registers for namex on a path: its first reference, and the elements left.
Start(p, r, g, path, par, ok, fail) ==
    LET abs == path # <<>> /\ Head(path) = "/"
        a   == IF abs THEN iget(g, ROOTINO) ELSE [s |-> cwd[p], fs |-> idup(g, cwd[p])]
    IN /\ fs' = a.fs
       /\ th' = With(p, r @@ [pc |-> "walk", cur |-> a.s, par |-> par, ok |-> ok, fail |-> fail,
                              path |-> IF abs THEN Tail(path) ELSE path])

\* One turn of namex's loop, or its end.
M_WalkOn_NoPut(s, next, path) == [pc |-> "walk", cur |-> next, path |-> path]
WalkOn(s, next, path) == [pc |-> "iput", puts |-> <<s>>, cur |-> next, path |-> path]

walk(p) ==
    LET t == th[p]
        s == t.cur
        g == ReadInode(fs, s)
        lose == [ret |-> -1, cur |-> 0] @@ PutThen(<<s>>, t.fail)
    IN
    /\ At(p, "walk")
    /\ UNCHANGED <<holder, ftable, ofile, cwd, bad>>
    /\ \/ /\ t.path = <<>> /\ ~t.par
          /\ th' = With(p, [pc |-> t.ok, ip |-> s, cur |-> 0]) /\ UNCHANGED fs
       \/ /\ t.path = <<>> /\ t.par
          /\ th' = With(p, lose) /\ UNCHANGED fs
       \/ /\ t.path # <<>> /\ Locks(s)
          /\ LET name == Trunc(Head(t.path))
                 e    == dirlookup(g, s, name)
                 n    == iget(g, e.inum)
             IN IF g.mem[s].type # "dir" THEN th' = With(p, lose) /\ fs' = g
                ELSE IF t.par /\ Len(t.path) = 1
                THEN /\ th' = With(p, [pc |-> t.ok, dp |-> s, cur |-> 0, name |-> name])
                     /\ fs' = g
                ELSE IF e.inum = 0 THEN th' = With(p, lose) /\ fs' = g
                ELSE /\ th' = With(p, WalkOn(s, n.s, Tail(t.path)))
                     /\ fs' = n.fs

\* iput, up to the release of the inode's lock.
iput(p) ==
    LET s == Head(th[p].puts) IN
    /\ At(p, "iput") /\ Locks(s)
    /\ fs' = Reclaim(fs, s)
    /\ th' = With(p, [pc |-> "deref"])
    /\ UNCHANGED <<holder, ftable, ofile, cwd, bad>>

\* Its last lines, under icache.lock; then whatever the call was about to do.
deref(p) ==
    LET t == th[p] IN
    /\ At(p, "deref")
    /\ fs' = [fs EXCEPT !.mem[Head(t.puts)].ref = @ - 1]
    /\ th' = With(p, [puts |-> Tail(t.puts),
                      pc |-> IF Tail(t.puts) # <<>> THEN "iput"
                             ELSE IF t.cur # 0 THEN "walk" ELSE t.then])
    /\ UNCHANGED <<holder, ftable, ofile, cwd, bad>>

(***************************************************************************)
(* Files                                                                   *)
(***************************************************************************)
FreeFiles == {f \in FileIds : ftable[f].ref = 0}
FreeFds(p) == {fd \in Fds : ofile[p][fd] = 0}
Opened(s, mode) == [ref |-> 1, type |-> "inode", ip |-> s, off |-> 0,
                    r |-> "w" \notin mode, w |-> "w" \in mode \/ "rw" \in mode]

\* The end of sys_open, with the inode locked: a file, a descriptor, iunlock.
open_file(p) ==
    LET s == th[p].ip
        f == Least(FreeFiles)
        fd == Least(FreeFds(p))
    IN
    /\ At(p, "opened")
    /\ holder' = Release(s)
    /\ IF FreeFiles = {} \/ FreeFds(p) = {}
       THEN th' = With(p, [ip |-> 0] @@ Fails(<<s>>)) /\ UNCHANGED <<ftable, ofile>>
       ELSE /\ ftable' = [ftable EXCEPT ![f] = Opened(s, th[p].call.mode)]
            /\ ofile' = [ofile EXCEPT ![p][fd] = f]
            /\ th' = With(p, [pc |-> "ret", ret |-> fd, ip |-> 0])
    /\ UNCHANGED <<fs, cwd, bad>>

\* sys_open without O_CREATE, after namei.
sys_open(p) ==
    LET s == th[p].ip
        g == ReadInode(fs, s)
    IN
    /\ At(p, "open") /\ Locks(s)
    /\ fs' = g
    /\ IF g.mem[s].type = "dir" /\ th[p].call.mode # {}
       THEN th' = With(p, [ip |-> 0] @@ Fails(<<s>>)) /\ UNCHANGED holder
       ELSE th' = With(p, [pc |-> "opened"]) /\ holder' = Hold(p, s)
    /\ UNCHANGED <<ftable, ofile, cwd, bad>>

CreateType(p) == CASE th[p].call.op = "open"  -> "file"
                   [] th[p].call.op = "mkdir" -> "dir"
                   [] th[p].call.op = "mknod" -> "dev"

\* The new inode of create: one link, "." and ".." if it is a directory, and
\* its name in dp.
M_NewInode_NoDotDot(g, dp, s, type, name) ==
    LET a == Linked(ReadInode(g, s), s, 1)
        b == IF type # "dir" THEN a
             ELSE dirlink(dirlink(a, s, ".", a.mem[s].inum), s, "..", a.mem[dp].inum)
    IN dirlink(b, dp, name, b.mem[s].inum)
NewInode(g, dp, s, type, name) ==
    LET a == Linked(ReadInode(g, s), s, 1)
        b == IF type # "dir" THEN a
             ELSE dirlink(dirlink(Linked(a, dp, 1), s, ".", a.mem[s].inum),
                          s, "..", a.mem[dp].inum)
    IN dirlink(b, dp, name, b.mem[s].inum)

\* create, after nameiparent: the name is there, or a new inode is made, which
\* stays locked while the parent is unlocked and put.
create(p) ==
    LET t == th[p]
        g == ReadInode(fs, t.dp)
        e == dirlookup(g, t.dp, t.name)
        a == IF e.inum = 0 THEN ialloc(g, CreateType(p)) ELSE iget(g, e.inum)
    IN
    /\ At(p, "create") /\ Locks(t.dp)
    /\ e.inum = 0 => Locks(a.s)
    /\ IF e.inum = 0
       THEN /\ fs' = NewInode(a.fs, t.dp, a.s, CreateType(p), t.name)
            /\ holder' = Hold(p, a.s)
            /\ th' = With(p, [ip |-> a.s, dp |-> 0] @@ PutThen(<<t.dp>>, "created"))
       ELSE /\ fs' = a.fs
            /\ th' = With(p, [ip |-> a.s, dp |-> 0] @@ PutThen(<<t.dp>>, "exists"))
            /\ UNCHANGED holder
    /\ UNCHANGED <<ftable, ofile, cwd, bad>>

\* create when the name is there: only a file opened as a file will do.
create_exists(p) ==
    LET s == th[p].ip
        g == ReadInode(fs, s)
    IN
    /\ At(p, "exists") /\ Locks(s)
    /\ fs' = g
    /\ IF CreateType(p) = "file" /\ g.mem[s].type = "file"
       THEN th' = With(p, [pc |-> "opened"]) /\ holder' = Hold(p, s)
       ELSE th' = With(p, [ip |-> 0] @@ Fails(<<s>>)) /\ UNCHANGED holder
    /\ UNCHANGED <<ftable, ofile, cwd, bad>>

\* What the callers of create do with its inode.
created(p) ==
    LET s == th[p].ip IN
    /\ At(p, "created")
    /\ IF CreateType(p) = "file"
       THEN th' = With(p, [pc |-> "opened"]) /\ UNCHANGED holder
       ELSE /\ th' = With(p, [ret |-> 0, ip |-> 0] @@ PutThen(<<s>>, "ret"))
            /\ holder' = Release(s)
    /\ UNCHANGED <<fs, ftable, ofile, cwd, bad>>

(***************************************************************************)
(* unlink, link, chdir, exec                                               *)
(***************************************************************************)
\* sys_unlink with the parent locked.  If the name is found the parent stays
\* locked while the inode's lock is awaited.
sys_unlink(p) ==
    LET t == th[p]
        g == ReadInode(fs, t.dp)
        e == dirlookup(g, t.dp, t.name)
        a == iget(g, e.inum)
    IN
    /\ At(p, "unlink") /\ Locks(t.dp)
    /\ IF t.name \in {".", ".."} \/ e.inum = 0
       THEN /\ fs' = g
            /\ th' = With(p, [dp |-> 0] @@ Fails(<<t.dp>>))
            /\ UNCHANGED holder
       ELSE /\ fs' = a.fs
            /\ th' = With(p, [pc |-> "unlink_ip", ip |-> a.s, off |-> e.off])
            /\ holder' = Hold(p, t.dp)
    /\ UNCHANGED <<ftable, ofile, cwd, bad>>

Unnamed(g, dp, s, off) ==
    LET w == writei(g, dp, off, <<ZeroCell>>).fs
    IN IF g.mem[s].type = "dir" THEN Linked(w, dp, -1) ELSE w

\* The entry is cleared and the parent unlocked and put; the inode stays locked.
unlink_ip(p) ==
    LET t == th[p]
        g == ReadInode(fs, t.ip)
    IN
    /\ At(p, "unlink_ip") /\ Locks(t.ip)
    /\ IF g.mem[t.ip].nlink < 1
       THEN fs' = Panic(g, "unlink: nlink < 1") /\ UNCHANGED <<th, holder>>
       ELSE IF g.mem[t.ip].type = "dir" /\ ~isdirempty(g, t.ip)
       THEN /\ fs' = g
            /\ th' = With(p, [ip |-> 0] @@ PutThen(<<t.ip>>, "unlink_bad"))
            /\ UNCHANGED holder
       ELSE /\ fs' = Unnamed(g, t.dp, t.ip, t.off)
            /\ th' = With(p, [dp |-> 0] @@ PutThen(<<t.dp>>, "unlink_drop"))
            /\ holder' = [holder EXCEPT ![t.dp] = 0, ![t.ip] = p]
    /\ UNCHANGED <<ftable, ofile, cwd, bad>>

unlink_drop(p) ==
    LET s == th[p].ip IN
    /\ At(p, "unlink_drop")
    /\ fs' = Linked(fs, s, -1)
    /\ holder' = Release(s)
    /\ th' = With(p, [ip |-> 0, ret |-> 0] @@ PutThen(<<s>>, "ret"))
    /\ UNCHANGED <<ftable, ofile, cwd, bad>>

\* Mutant: goto bad forgets iunlockput(dp).
M_unlink_bad_KeepsLock(p) ==
    /\ At(p, "unlink_bad")
    /\ th' = With(p, [dp |-> 0] @@ Fails(<<>>))
    /\ UNCHANGED <<fs, holder, ftable, ofile, cwd, bad>>

unlink_bad(p) ==
    LET dp == th[p].dp IN
    /\ At(p, "unlink_bad")
    /\ holder' = Release(dp)
    /\ th' = With(p, [dp |-> 0] @@ Fails(<<dp>>))
    /\ UNCHANGED <<fs, ftable, ofile, cwd, bad>>

\* sys_link after namei(old): count the link, then look up the new parent.
sys_link(p) ==
    LET s == th[p].ip
        g == ReadInode(fs, s)
    IN
    /\ At(p, "link") /\ Locks(s)
    /\ IF g.mem[s].type = "dir"
       THEN fs' = g /\ th' = With(p, [ip |-> 0] @@ Fails(<<s>>))
       ELSE Start(p, [pc |-> "walk"], Linked(g, s, 1), th[p].call.path2, TRUE, "link_new", "link_bad")
    /\ UNCHANGED <<holder, ftable, ofile, cwd, bad>>

\* dirlink in the new parent.  If the name is there, its inode is put while
\* the parent is locked.
link_new(p) ==
    LET t == th[p]
        g == ReadInode(fs, t.dp)
        e == dirlookup(g, t.dp, t.name)
        a == iget(g, e.inum)
    IN
    /\ At(p, "link_new") /\ Locks(t.dp)
    /\ IF e.inum # 0
       THEN /\ fs' = a.fs
            /\ holder' = Hold(p, t.dp)
            /\ th' = With(p, PutThen(<<a.s>>, "link_exists"))
       ELSE /\ fs' = dirlink(g, t.dp, t.name, g.mem[t.ip].inum)
            /\ th' = With(p, [dp |-> 0, ip |-> 0, ret |-> 0] @@ PutThen(<<t.dp, t.ip>>, "ret"))
            /\ UNCHANGED holder
    /\ UNCHANGED <<ftable, ofile, cwd, bad>>

link_exists(p) ==
    LET dp == th[p].dp IN
    /\ At(p, "link_exists")
    /\ holder' = Release(dp)
    /\ th' = With(p, [dp |-> 0] @@ PutThen(<<dp>>, "link_bad"))
    /\ UNCHANGED <<fs, ftable, ofile, cwd, bad>>

M_Unlinked_Kept(g, s) == g
Unlinked(g, s) == Linked(g, s, -1)
link_bad(p) ==
    LET s == th[p].ip IN
    /\ At(p, "link_bad") /\ Locks(s)
    /\ fs' = Unlinked(ReadInode(fs, s), s)
    /\ th' = With(p, [ip |-> 0] @@ Fails(<<s>>))
    /\ UNCHANGED <<holder, ftable, ofile, cwd, bad>>

sys_chdir(p) ==
    LET s == th[p].ip
        g == ReadInode(fs, s)
    IN
    /\ At(p, "chdir") /\ Locks(s)
    /\ fs' = g
    /\ IF g.mem[s].type # "dir"
       THEN th' = With(p, [ip |-> 0] @@ Fails(<<s>>)) /\ UNCHANGED cwd
       ELSE /\ th' = With(p, [ip |-> 0, ret |-> 0] @@ PutThen(<<cwd[p]>>, "ret"))
            /\ cwd' = [cwd EXCEPT ![p] = s]
    /\ UNCHANGED <<holder, ftable, ofile, bad>>

\* exec's use of the inode: the first bytes must be an ELF header.
exec(p) ==
    LET s == th[p].ip
        g == ReadInode(fs, s)
        h == readi(g, s, 0, 1)
    IN
    /\ At(p, "exec") /\ Locks(s)
    /\ fs' = g
    /\ th' = With(p, [ip |-> 0, ret |-> IF h.ok /\ h.cells = <<Cell(0, "ELF")>> THEN 0 ELSE -1]
                      @@ PutThen(<<s>>, "ret"))
    /\ UNCHANGED <<holder, ftable, ofile, cwd, bad>>

(***************************************************************************)
(* Calls on descriptors                                                    *)
(***************************************************************************)
LastFd == 99                \* the descriptor the previous call returned
Fd(p)   == IF th[p].call.fd = LastFd THEN th[p].ret ELSE th[p].call.fd
File(p) == IF Fd(p) \in Fds THEN ofile[p][Fd(p)] ELSE 0
Returns(p, v) == th' = With(p, [pc |-> "ret", ret |-> v])

\* argfd fails, or the file is not open for what is asked.
BadFd(p) ==
    LET f == File(p) IN
    /\ At(p, th[p].call.op)
    /\ \/ th[p].call.op \in {"close", "read", "write", "fstat", "dup"} /\ f = 0
       \/ th[p].call.op = "read"  /\ f # 0 /\ (~ftable[f].r \/ th[p].call.n < 0)
       \/ th[p].call.op = "write" /\ f # 0 /\ ~ftable[f].w
    /\ Returns(p, -1)
    /\ UNCHANGED <<fs, holder, ftable, ofile, cwd, bad>>

\* fileclose: what is left of the table, and the inode to put.
Closed(f) == [ftable EXCEPT ![f] = IF @.ref > 1 THEN [@ EXCEPT !.ref = @ - 1] ELSE ClosedFile]
ToPut(f)  == IF ftable[f].ref = 1 /\ ftable[f].type = "inode" THEN <<ftable[f].ip>> ELSE <<>>

sys_close(p) ==
    LET f == File(p) IN
    /\ At(p, "close") /\ f # 0
    /\ ftable' = Closed(f)
    /\ ofile' = [ofile EXCEPT ![p][Fd(p)] = 0]
    /\ th' = With(p, [ret |-> 0] @@ PutThen(ToPut(f), "ret"))
    /\ UNCHANGED <<fs, holder, cwd, bad>>

fileread(p) ==
    LET f == File(p)
        s == ftable[f].ip
        g == ReadInode(fs, s)
        c == readi(g, s, ftable[f].off, th[p].call.n)
    IN
    /\ At(p, "read") /\ f # 0
    /\ ftable[f].r /\ ftable[f].type = "inode" /\ th[p].call.n >= 0 /\ Locks(s)
    /\ fs' = g
    /\ ftable' = [ftable EXCEPT ![f].off = @ + Len(c.cells)]
    /\ th' = With(p, [pc |-> "ret", cells |-> c.cells, ret |-> IF c.ok THEN Len(c.cells) ELSE -1])
    /\ UNCHANGED <<holder, ofile, cwd, bad>>

\* filewrite: one transaction of at most MaxWrite cells, the inode locked.
Advance(f, n) == [ftable EXCEPT ![f].off = @ + n]
filewrite(p) ==
    LET t == th[p]
        f == File(p)
        s == ftable[f].ip
        n == Len(t.call.cells)
        k == IF n - t.done > MaxWrite THEN MaxWrite ELSE n - t.done
        w == writei(ReadInode(fs, s), s, ftable[f].off, SubSeq(t.call.cells, t.done + 1, t.done + k))
    IN
    /\ At(p, "write") /\ f # 0 /\ ftable[f].w /\ ftable[f].type = "inode" /\ Locks(s)
    /\ IF w.ok
       THEN /\ ftable' = Advance(f, k)
            /\ th' = With(p, [done |-> t.done + k, ret |-> IF t.done + k = n THEN n ELSE t.ret,
                              pc |-> IF t.done + k = n THEN "ret" ELSE "write"])
       ELSE /\ Returns(p, -1) /\ UNCHANGED ftable
    /\ fs' = w.fs
    /\ UNCHANGED <<holder, ofile, cwd, bad>>

filestat(p) ==
    LET f == File(p)
        s == ftable[f].ip
        g == ReadInode(fs, s)
    IN
    /\ At(p, "fstat") /\ f # 0 /\ ftable[f].type = "inode" /\ Locks(s)
    /\ fs' = g
    /\ th' = With(p, [pc |-> "ret", ret |-> 0,
                      cells |-> <<Cell(g.mem[s].nlink, g.mem[s].type), Cell(g.mem[s].size, "")>>])
    /\ UNCHANGED <<holder, ftable, ofile, cwd, bad>>

sys_dup(p) ==
    LET f == File(p) IN
    /\ At(p, "dup") /\ f # 0
    /\ IF FreeFds(p) = {} THEN Returns(p, -1) /\ UNCHANGED <<ftable, ofile>>
       ELSE /\ ofile' = [ofile EXCEPT ![p][Least(FreeFds(p))] = f]
            /\ ftable' = [ftable EXCEPT ![f].ref = @ + 1]
            /\ Returns(p, Least(FreeFds(p)))
    /\ UNCHANGED <<fs, holder, cwd, bad>>

(***************************************************************************)
(* fork, exit and wait, as far as they touch files                         *)
(***************************************************************************)
fork(p) ==
    LET free == {q \in Procs : th[q].pc = "unused"}
        q    == Least(free)
    IN
    /\ At(p, "fork")
    /\ IF free = {} THEN Returns(p, -1) /\ UNCHANGED <<fs, ftable, ofile, cwd>>
       ELSE /\ ftable' = [f \in FileIds |-> [ftable[f] EXCEPT
                             !.ref = @ + Cardinality({fd \in Fds : ofile[p][fd] = f})]]
            /\ ofile' = [ofile EXCEPT ![q] = ofile[p]]
            /\ fs' = idup(fs, cwd[p])
            /\ cwd' = [cwd EXCEPT ![q] = cwd[p]]
            /\ th' = [With(p, [pc |-> "ret", ret |-> q]) EXCEPT
                         ![q] = [Idle EXCEPT !.pc = "user", !.script = th[p].call.child,
                                             !.parent = p]]
    /\ UNCHANGED <<holder, bad>>

\* exit: the descriptors one by one, then the directory.
exit(p) ==
    LET used == Fds \ FreeFds(p)
        fd   == Least(used)
        f    == ofile[p][fd]
    IN
    /\ At(p, "exit")
    /\ IF used # {}
       THEN /\ ftable' = Closed(f)
            /\ ofile' = [ofile EXCEPT ![p][fd] = 0]
            /\ th' = With(p, PutThen(ToPut(f), "exit"))
            /\ UNCHANGED cwd
       ELSE /\ cwd' = [cwd EXCEPT ![p] = 0]
            /\ th' = With(p, PutThen(<<cwd[p]>>, "zombie"))
            /\ UNCHANGED <<ftable, ofile>>
    /\ UNCHANGED <<fs, holder, bad>>

wait(p) ==
    LET kids == {q \in Procs : th[q].parent = p}
        dead == {q \in kids : th[q].pc = "zombie"}
    IN
    /\ At(p, "wait")
    /\ \/ /\ kids = {} /\ Returns(p, -1)
       \/ /\ dead # {}
          /\ th' = [With(p, [pc |-> "ret", ret |-> Least(dead)]) EXCEPT ![Least(dead)] = Idle]
    /\ UNCHANGED <<fs, holder, ftable, ofile, cwd, bad>>

(***************************************************************************)
(* Entering and leaving the kernel                                         *)
(***************************************************************************)
syscall(p) ==
    LET c == Head(th[p].script)
        r == [call |-> c, script |-> Tail(th[p].script), done |-> 0]
    IN
    /\ At(p, "user") /\ th[p].script # <<>>
    /\ CASE c.op \in {"chdir", "exec", "link"} -> Start(p, r, fs, c.path, FALSE, c.op, "ret")
         [] c.op = "open" /\ "create" \notin c.mode -> Start(p, r, fs, c.path, FALSE, "open", "ret")
         [] c.op \in {"open", "mkdir", "mknod"} -> Start(p, r, fs, c.path, TRUE, "create", "ret")
         [] c.op = "unlink" -> Start(p, r, fs, c.path, TRUE, "unlink", "ret")
         [] OTHER -> th' = With(p, r @@ [pc |-> c.op]) /\ UNCHANGED fs
    /\ UNCHANGED <<holder, ftable, ofile, cwd, bad>>

Count(cells, x) == Cardinality({i \in DOMAIN cells : cells[i] = x})
Names(cells, x) == Cardinality({i \in DOMAIN cells : cells[i].n # 0 /\ cells[i].s = x.s})
\* What a script may ask of a call.
Meets(t) ==
    CASE t.call.exp = "any"   -> TRUE
      [] t.call.exp = "ok"    -> t.ret >= 0
      [] t.call.exp = "fail"  -> t.ret = -1
      [] t.call.exp = "cells" -> t.ret >= 0 /\ t.cells = t.call.want
      [] t.call.exp = "bag"   -> /\ Len(t.cells) = Len(t.call.want)
                                 /\ \A x \in ToSet(t.call.want) : Count(t.cells, x) = Count(t.call.want, x)
      [] t.call.exp = "names" -> \A x \in ToSet(t.call.want) : Names(t.cells, x) = 1

sysret(p) ==
    /\ At(p, "ret")
    /\ bad' = IF Meets(th[p]) THEN bad ELSE bad \cup {<<p, th[p].call.op, Len(th[p].script)>>}
    /\ th' = With(p, [pc |-> "user", cells |-> <<>>])
    /\ UNCHANGED <<fs, holder, ftable, ofile, cwd>>

Step(p) ==
    \/ syscall(p) \/ sysret(p) \/ walk(p) \/ iput(p) \/ deref(p)
    \/ sys_open(p) \/ open_file(p) \/ create(p) \/ create_exists(p) \/ created(p)
    \/ sys_unlink(p) \/ unlink_ip(p) \/ unlink_drop(p) \/ unlink_bad(p)
    \/ sys_link(p) \/ link_new(p) \/ link_exists(p) \/ link_bad(p)
    \/ sys_chdir(p) \/ exec(p)
    \/ BadFd(p) \/ sys_close(p) \/ fileread(p) \/ filewrite(p) \/ filestat(p) \/ sys_dup(p)
    \/ fork(p) \/ exit(p) \/ wait(p)

\* The inode whose lock a process needs for its next step.
Wants(p) == LET t == th[p] IN
    CASE t.pc = "iput" -> Head(t.puts)
      [] t.pc = "walk" /\ t.path # <<>> -> t.cur
      [] t.pc \in {"open", "exists", "unlink_ip", "link", "link_bad", "chdir", "exec"} -> t.ip
      [] t.pc \in {"create", "unlink", "link_new"} -> t.dp
      [] t.pc \in {"read", "write", "fstat"} /\ File(p) # 0 -> ftable[File(p)].ip
      [] OTHER -> 0
WaitsFor(p, q) == Wants(p) # 0 /\ holder[Wants(p)] = q

\* Why a process may take no step: its script is over, or it waits for another,
\* to give back a lock or to exit.
Finished(p) == th[p].pc \in {"unused", "zombie"} \/ (th[p].pc = "user" /\ th[p].script = <<>>)
Child(p, q) == th[q].parent = p
Awaits(p, q) ==
    \/ WaitsFor(p, q)
    \/ th[p].pc = "wait" /\ Child(p, q) /\ \A r \in Procs : Child(p, r) => th[r].pc # "zombie"
CanGoOn == \E p \in Procs : ~Finished(p) /\ \A q \in Procs : ~Awaits(p, q)

\* The scheduler goes round with nobody to run.
Idling == ~CanGoOn /\ UNCHANGED vars

Next == (\E p \in Procs : Step(p)) \/ Idling
Spec == Init /\ [][Next]_vars
\* While a process can go on, one does: the machine does not stop.
FairSpec == Spec /\ ([]<>~CanGoOn \/ []<><<TRUE>>_vars)
----------------------------------------------------------------------------
(***************************************************************************)
(* Properties                                                              *)
(***************************************************************************)
\* Every component has its type.
TypeOK ==
    /\ \A i \in Inums : /\ fs.din[i].type \in Types /\ fs.din[i].nlink \in Nat
                        /\ fs.din[i].size \in 0 .. MAXFILE * BSIZE
                        /\ fs.din[i].addrs \in [0 .. NDIRECT -> 0 .. NBLOCKS]
    /\ fs.bmap \subseteq BlockNos
    /\ \A s \in Slots : fs.mem[s].ref \in Nat /\ fs.mem[s].valid \in BOOLEAN
    /\ holder \in [Slots -> Procs \cup {0}]
    /\ \A f \in FileIds : ftable[f].ref \in Nat /\ ftable[f].type \in {"none", "inode"}
    /\ ofile \in [Procs -> [Fds -> FileIds \cup {0}]]
    /\ cwd \in [Procs -> Slots \cup {0}]

Held(s) == {<<p, r>> \in Procs \X {"cur", "ip", "dp"} :
              th[p][r] = s}
Queued(s) == {<<p, i>> \in Procs \X (1 .. 3) : i \in DOMAIN th[p].puts /\ th[p].puts[i] = s}
FilesOn(s) == {f \in FileIds : ftable[f].ref > 0 /\ ftable[f].ip = s}
\* The reference count of a cached inode is the number of open files, current
\* directories and kernel variables that point at it, and the count of an open
\* file the number of descriptors: no error path of sysfile.c and no turn of
\* namex forgets a reference or drops one twice.
ReferencesExact ==
    /\ \A s \in Slots :
         fs.mem[s].ref = Cardinality({p \in Procs : cwd[p] = s}) + Cardinality(FilesOn(s))
                         + Cardinality(Held(s)) + Cardinality(Queued(s))
    /\ \A f \in FileIds :
         ftable[f].ref = Cardinality({<<p, fd>> \in Procs \X Fds : ofile[p][fd] = f})

\* An inode is cached once, and what the cache says of it is on the disk: the
\* inode cache is write-through, whoever changes an inode, under its lock.
CacheMatchesDisk ==
    \A s \in Slots : fs.mem[s].ref > 0 =>
      /\ \A t \in Slots \ {s} : fs.mem[t].ref > 0 => fs.mem[t].inum # fs.mem[s].inum
      /\ fs.mem[s].valid =>
           \A k \in {"type", "nlink", "size", "addrs"} : fs.din[fs.mem[s].inum][k] = fs.mem[s][k]

\* Every block marked in the bitmap belongs to exactly one place of one inode,
\* and every block of an inode is marked: no block leaks, none is shared.
BlocksOwnedOnce ==
    LET owned == [i \in Inums |-> Owned(fs, fs.din[i])]
        all   == UNION {{<<i, k>> : k \in DOMAIN owned[i]} : i \in Inums}
    IN /\ fs.bmap = {owned[x[1]][x[2]] : x \in all}
       /\ \A x, y \in all : owned[x[1]][x[2]] = owned[y[1]][y[2]] => x = y

Dirs       == {d \in Inums : fs.din[d].type = "dir"}
Entries(d) == LET c == Contents(fs, fs.din[d]) IN {<<d, c[k], k>> : k \in DOMAIN c}
NamesOf(E, i) == {e \in E : e[2].n = i /\ e[2].s \notin {".", ".."}}
\* Calls that have counted a link they have not yet made, or the reverse.
Pending(i) == {p \in Procs : /\ th[p].ip # 0 /\ fs.mem[th[p].ip].inum = i
                              /\ \/ th[p].call.op = "link" /\ th[p].pc # "link"
                                 \/ th[p].call.op = "unlink" /\ th[p].dp = 0}
\* The link count of an inode is the number of its names, of the ".." entries
\* of its named subdirectories, and of calls that are between the two updates;
\* so a named inode is never freed and no count is left too high by an error
\* path.  It is higher only where names vanished with a directory that was
\* removed before they were made in it.
LinksExact ==
    LET E == UNION {Entries(d) : d \in Dirs} IN
    \A i \in Inums :
      LET subs  == {e \in E : e[2].n = i /\ e[2].s = ".." /\ NamesOf(E, e[1]) # {}}
          count == Cardinality(NamesOf(E, i)) + Cardinality(subs)
                   + Cardinality(Pending(i)) + (IF i = ROOTINO THEN 1 ELSE 0)
      IN IF i \in fs.lost THEN fs.din[i].nlink > count ELSE fs.din[i].nlink = count

\* Nobody keeps an inode's lock beyond the call that took it: a process that
\* is back in user mode, has exited or waits for a child holds none, whichever
\* error path of create, unlink, link or open it left by.
LocksReleased ==
    \A s \in Slots : holder[s] # 0 =>
      th[holder[s]].pc \notin {"user", "ret", "wait", "exit", "zombie", "unused"}

\* No call returns anything but what the script of its test asks for, or keeps
\* an inode's lock, whichever way the processes of the test interleave and
\* whichever path it returns by; and nothing panics.
ResultsAsTested == bad = {} /\ fs.panic = "" /\ LocksReleased

\* Each process of S waits for the lock of an inode that another holds: none
\* of them will ever take a step.
Circle(S)      == S # {} /\ \A p \in S : \E q \in S : WaitsFor(p, q)
\* One of them is in iput, whose caller still holds another inode.
ThroughIput(S) == \E p \in S : th[p].pc = "iput" /\ \E s \in Slots : holder[s] = p

\* linkunlink of usertests.c is "another concurrent link/unlink/create test, to
\* look for deadlocks": processes never wait for each other's inode locks in a
\* circle.  The code does not keep this: create drops the parent with the child
\* locked, and iput locks the parent once more; an unlink that has taken the
\* parent in between waits for the child.
NoDeadlock == \A S \in SUBSET Procs : ~Circle(S)

\* The tests end: all processes come to the end of their scripts (and so, with
\* ResultsAsTested, the test passes), except those that wait, for locks and in
\* wait(), for a circle through iput.  There is no other way into a circle, as
\* create, unlink, link and namex lock parents before children and a child
\* only with its parent held; no path of the calls keeps a lock that somebody
\* needs, and no wait() misses its child.
TestsEnd ==
    <>\E S \in SUBSET Procs :
        /\ \A p \in Procs \ S : Finished(p)
        /\ \A p \in S : \E q \in S : Awaits(p, q)
        /\ S # {} => \E C \in SUBSET S : Circle(C) /\ ThroughIput(C)

\* Every count the file system decides by is exact: references, which decide
\* what is recycled, and links, which decide what is freed (iget, iput, create,
\* link, unlink).
CountsExact == TypeOK /\ ReferencesExact /\ LinksExact

\* The disk is consistent after every step: inodes as the cache has them, and
\* the bitmap as the inodes have it (iupdate, balloc, itrunc).
DiskConsistent == CacheMatchesDisk /\ BlocksOwnedOnce
============================================================================
