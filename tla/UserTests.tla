----------------------------- MODULE UserTests -----------------------------
(***************************************************************************)
(* The file system part of usertests.c as scripts for SysFile.tla: each    *)
(* definition is one test, with the results it insists on.  The loops are  *)
(* shorter and the files smaller, in proportion to the constants of the    *)
(* model; processes, names, order of the calls and checks are the test's.  *)
(***************************************************************************)
EXTENDS SysFile

b(s)        == Cell(0, s)                            \* a byte
Bytes(s, n) == [i \in 1 .. n |-> b(s)]
RDONLY == {}
RDWR   == {"rw"}
WRONLY == {"w"}
CREATE == {"create"}

Call(op, exp)       == [op |-> op, exp |-> exp]
Open(path, m, e)    == Call("open", e) @@ [path |-> path, mode |-> m]
Mkdir(path, e)      == Call("mkdir", e) @@ [path |-> path]
Mknod(path, e)      == Call("mknod", e) @@ [path |-> path]
Unlink(path, e)     == Call("unlink", e) @@ [path |-> path]
Link(old, new, e)   == Call("link", e) @@ [path |-> old, path2 |-> new]
Chdir(path, e)      == Call("chdir", e) @@ [path |-> path]
Exec(path, e)       == Call("exec", e) @@ [path |-> path]
Close(fd)           == Call("close", "any") @@ [fd |-> fd]
Dup(fd, e)          == Call("dup", e) @@ [fd |-> fd]
Write(fd, cells, e) == Call("write", e) @@ [fd |-> fd, cells |-> cells]
Read(fd, n, e, w)   == Call("read", e) @@ [fd |-> fd, n |-> n, want |-> w]
Fstat(fd, w)        == Call("fstat", "cells") @@ [fd |-> fd, want |-> w]
Fork(child)         == Call("fork", "ok") @@ [child |-> child]
Wait                == Call("wait", "ok")
Exit                == Call("exit", "any")
Repeat(n, script(_)) == FlattenSeq([i \in 1 .. n |-> script(i)])

iputtest ==
    <<Mkdir(<<"iputdir">>, "ok"), Chdir(<<"iputdir">>, "ok"),
      Unlink(<<"..", "iputdir">>, "ok"), Chdir(<<"/">>, "ok")>>

exitiputtest ==
    <<Fork(<<Mkdir(<<"iputdir">>, "ok"), Chdir(<<"iputdir">>, "ok"),
             Unlink(<<"..", "iputdir">>, "ok"), Exit>>), Wait>>

openiputtest ==
    <<Mkdir(<<"oidir">>, "ok"), Fork(<<Open(<<"oidir">>, RDWR, "fail"), Exit>>),
      Unlink(<<"oidir">>, "ok"), Wait>>

opentest ==
    <<Open(<<"echo">>, RDONLY, "ok"), Close(LastFd), Open(<<"doesnotexist">>, RDONLY, "fail")>>

writetest ==
    LET aabb == Bytes("a", 2) \o Bytes("b", 2) IN
    <<Open(<<"small">>, CREATE \cup RDWR, "ok")>>
    \o Repeat(2, LAMBDA i : <<Write(0, Bytes("a", 2), "ok"), Write(0, Bytes("b", 2), "ok")>>)
    \o <<Close(0), Open(<<"small">>, RDONLY, "ok"), Read(0, 8, "cells", aabb \o aabb),
         Close(0), Unlink(<<"small">>, "ok")>>

\* The largest file, one block at a time, each marked with its number.
writetest1 ==
    LET Block(i) == <<Cell(i, "")>> \o Bytes("", BSIZE - 1) IN
    <<Open(<<"big">>, CREATE \cup RDWR, "ok")>>
    \o Repeat(MAXFILE, LAMBDA i : <<Write(0, Block(i), "ok")>>)
    \o <<Close(0), Open(<<"big">>, RDONLY, "ok")>>
    \o Repeat(MAXFILE, LAMBDA i : <<Read(0, BSIZE, "cells", Block(i))>>)
    \o <<Read(0, BSIZE, "cells", <<>>), Close(0), Unlink(<<"big">>, "ok")>>

createtest ==
    LET name == <<"a0", "a1", "a2">> IN
    Repeat(3, LAMBDA i : <<Open(<<name[i]>>, CREATE \cup RDWR, "any"), Close(LastFd)>>)
    \o Repeat(3, LAMBDA i : <<Unlink(<<name[i]>>, "any")>>)

dirtest ==
    <<Mkdir(<<"dir0">>, "ok"), Chdir(<<"dir0">>, "ok"), Chdir(<<"..">>, "ok"),
      Unlink(<<"dir0">>, "ok")>>

exectest == <<Exec(<<"echo">>, "ok")>>

exitwait == Repeat(2, LAMBDA i : <<Fork(<<Exit>>), Wait>>)

\* Parent and child write through one open file; neither may lose a cell.
sharedfd ==
    LET Writes(s) == Repeat(2, LAMBDA i : <<Write(0, Bytes(s, 3), "ok")>>) IN
    <<Unlink(<<"sharedfd">>, "any"), Open(<<"sharedfd">>, CREATE \cup RDWR, "ok"),
      Fork(Writes("c") \o <<Exit>>)>>
    \o Writes("p")
    \o <<Wait, Close(0), Open(<<"sharedfd">>, RDONLY, "ok"),
         Read(0, 24, "bag", Bytes("c", 6) \o Bytes("p", 6)), Close(0),
         Unlink(<<"sharedfd">>, "any")>>

\* Two of the four writers; blocks are allocated side by side.
fourfiles ==
    LET f == <<"f0", "f1">> IN
    Repeat(2, LAMBDA i :
        <<Unlink(<<f[i]>>, "any"),
          Fork(<<Open(<<f[i]>>, CREATE \cup RDWR, "ok"), Write(0, Bytes(f[i], 3), "ok"),
                 Write(0, Bytes(f[i], 3), "ok"), Exit>>)>>)
    \o <<Wait, Wait>>
    \o Repeat(2, LAMBDA i :
        <<Open(<<f[i]>>, RDONLY, "any"), Read(0, 24, "cells", Bytes(f[i], 6)), Close(0),
          Unlink(<<f[i]>>, "any")>>)

\* Two of the four processes; three of the twenty files in one, one in the other.
createdelete ==
    LET name == <<<<"p0", "p1", "p2">>, <<"q0">>>>
        Make(pi, i) == <<Open(<<name[pi][i]>>, CREATE \cup RDWR, "ok"), Close(0)>>
        Check(pi, i, e) == <<Open(<<name[pi][i]>>, RDONLY, e), Close(LastFd)>>
    IN <<Fork(Make(1, 1) \o Make(1, 2) \o <<Unlink(<<"p1">>, "ok")>> \o Make(1, 3) \o <<Exit>>),
         Fork(Make(2, 1) \o <<Exit>>), Wait, Wait>>
       \o Check(1, 1, "ok") \o Check(2, 1, "ok") \o Check(1, 2, "fail") \o Check(1, 3, "ok")
       \o <<Unlink(<<"p0">>, "any"), Unlink(<<"p0">>, "any")>>

unlinkread ==
    <<Open(<<"unlinkread">>, CREATE \cup RDWR, "ok"), Write(0, Bytes("h", 5), "any"), Close(0),
      Open(<<"unlinkread">>, RDWR, "ok"), Unlink(<<"unlinkread">>, "ok"),
      Open(<<"unlinkread">>, CREATE \cup RDWR, "any"), Write(1, Bytes("y", 3), "any"), Close(1),
      Read(0, 24, "cells", Bytes("h", 5)), Write(0, Bytes("h", 10), "ok"), Close(0),
      Unlink(<<"unlinkread">>, "any")>>

linktest ==
    <<Unlink(<<"lf1">>, "any"), Unlink(<<"lf2">>, "any"), Open(<<"lf1">>, CREATE \cup RDWR, "ok"),
      Write(0, Bytes("h", 5), "ok"), Close(0), Link(<<"lf1">>, <<"lf2">>, "ok"),
      Unlink(<<"lf1">>, "any"), Open(<<"lf1">>, RDONLY, "fail"), Open(<<"lf2">>, RDONLY, "ok"),
      Read(0, 24, "cells", Bytes("h", 5)), Close(0), Link(<<"lf2">>, <<"lf2">>, "fail"),
      Unlink(<<"lf2">>, "any"), Link(<<"lf2">>, <<"lf1">>, "fail"), Link(<<".">>, <<"lf1">>, "fail")>>

\* Iterations 0, 1, 4 and 6 have the four ways parent and child share the work.
concreate ==
    LET C      == <<"C0", "C1", "C4", "C6">>
        Create(f) == <<Open(<<f>>, CREATE \cup RDWR, "ok"), Close(LastFd)>>
        ToC0(f) == <<Link(<<"C0">>, <<f>>, "any")>>
        Twice(s) == s \o s
        Opens(f)   == Twice(<<Open(<<f>>, RDONLY, "any"), Close(LastFd)>>)
        Unlinks(f) == Twice(<<Unlink(<<f>>, "any")>>)
        Both(f, child, par) == <<Fork(child \o <<Exit>>)>> \o par \o <<Wait>>
    IN Repeat(4, LAMBDA i : <<Unlink(<<C[i]>>, "any")>>
           \o Both(C[i], IF i \in {2, 4} THEN ToC0(C[i]) ELSE Create(C[i]),
                         IF i \in {2, 3} THEN ToC0(C[i]) ELSE Create(C[i])))
       \o <<Open(<<".">>, RDONLY, "any"), Read(0, 24, "names", [i \in 1 .. 4 |-> b(C[i])]), Close(0)>>
       \o Repeat(4, LAMBDA i :
           Both(C[i], IF i \in {1, 4} THEN Opens(C[i]) ELSE Unlinks(C[i]),
                      IF i \in {2, 3} THEN Opens(C[i]) ELSE Unlinks(C[i])))

\* The first calls the generator of the test picks for parent and child.
linkunlink ==
    LET Create == <<Open(<<"x">>, RDWR \cup CREATE, "any"), Close(LastFd)>>
        ToCat  == <<Link(<<"cat">>, <<"x">>, "any")>>
        Remove_x == <<Unlink(<<"x">>, "any")>>
    IN Remove_x \o <<Fork(Create \o ToCat \o <<Exit>>)>> \o Create \o Remove_x \o ToCat \o <<Wait>>

\* Enough links to make the root directory use its indirect block.
bigdir ==
    LET x == <<"x1", "x2", "x3", "x4", "x5">> IN
    <<Unlink(<<"bd">>, "any"), Open(<<"bd">>, CREATE, "ok"), Close(0)>>
    \o Repeat(5, LAMBDA i : <<Link(<<"bd">>, <<x[i]>>, "ok")>>)
    \o <<Unlink(<<"bd">>, "any")>>
    \o Repeat(5, LAMBDA i : <<Unlink(<<x[i]>>, "ok")>>)

dd == "dd"
ff == "ff"
xx == "xx"
SubdirTree ==
    LET CW == CREATE \cup RDWR IN
    <<Unlink(<<ff>>, "any"), Mkdir(<<dd>>, "ok"), Open(<<dd, ff>>, CW, "ok"),
      Write(0, Bytes("f", 2), "any"), Close(0), Unlink(<<dd>>, "fail"), Mkdir(<<"/", dd, dd>>, "ok"),
      Open(<<dd, dd, ff>>, CW, "ok"), Write(0, Bytes("F", 2), "any"), Close(0),
      Open(<<dd, dd, "..", ff>>, RDONLY, "ok"), Read(0, 24, "cells", Bytes("f", 2)), Close(0),
      Link(<<dd, dd, ff>>, <<dd, dd, "ffff">>, "ok"), Unlink(<<dd, dd, ff>>, "ok"),
      Open(<<dd, dd, ff>>, RDONLY, "fail"), Chdir(<<dd>>, "ok"), Chdir(<<dd, "..", "..", dd>>, "ok"),
      Chdir(<<dd, "..", "..", "..", dd>>, "ok"), Chdir(<<".", "..">>, "ok"),
      Open(<<dd, dd, "ffff">>, RDONLY, "ok"), Read(0, 24, "cells", Bytes("F", 2)), Close(0),
      Open(<<dd, dd, ff>>, RDONLY, "fail")>>

SubdirErrors ==
    LET CW == CREATE \cup RDWR IN
    <<Open(<<dd, ff, ff>>, CW, "fail"),
      Open(<<dd, xx, ff>>, CW, "fail"), Open(<<dd>>, CREATE, "fail"), Open(<<dd>>, RDWR, "fail"),
      Open(<<dd>>, WRONLY, "fail"), Link(<<dd, ff, ff>>, <<dd, dd, xx>>, "fail"),
      Link(<<dd, xx, ff>>, <<dd, dd, xx>>, "fail"), Link(<<dd, ff>>, <<dd, dd, "ffff">>, "fail"),
      Mkdir(<<dd, ff, ff>>, "fail"), Mkdir(<<dd, xx, ff>>, "fail"), Mkdir(<<dd, dd, "ffff">>, "fail"),
      Unlink(<<dd, xx, ff>>, "fail"), Unlink(<<dd, ff, ff>>, "fail"), Chdir(<<dd, ff>>, "fail"),
      Chdir(<<dd, xx>>, "fail"), Unlink(<<dd, dd, "ffff">>, "ok"), Unlink(<<dd, ff>>, "ok"),
      Unlink(<<dd>>, "fail"), Unlink(<<dd, dd>>, "ok"), Unlink(<<dd>>, "ok")>>

subdir == SubdirTree \o SubdirErrors

\* Sizes below and above what filewrite puts in one transaction.
bigwrite ==
    LET sz == <<3, 9, 12>> IN
    <<Unlink(<<"bigwrite">>, "any")>>
    \o Repeat(3, LAMBDA i :
         <<Open(<<"bigwrite">>, CREATE \cup RDWR, "ok"), Write(0, Bytes("w", sz[i]), "ok"),
           Write(0, Bytes("w", sz[i]), "ok"), Close(0), Unlink(<<"bigwrite">>, "any")>>)

bigfile ==
    LET Part(i, n) == [j \in 1 .. n |-> Cell(i, "")] IN
    <<Unlink(<<"bigfile">>, "any"), Open(<<"bigfile">>, CREATE \cup RDWR, "ok")>>
    \o Repeat(4, LAMBDA i : <<Write(0, Part(i, 6), "ok")>>)
    \o <<Close(0), Open(<<"bigfile">>, RDONLY, "ok")>>
    \o Repeat(8, LAMBDA i : <<Read(0, 3, "cells", Part((i + 1) \div 2, 3))>>)
    \o <<Read(0, 3, "cells", <<>>), Close(0), Unlink(<<"bigfile">>, "any")>>

fourteen ==
    LET n14 == "12345678901234" n15 == "123456789012345" IN
    <<Mkdir(<<n14>>, "ok"), Mkdir(<<n14, n15>>, "ok"), Open(<<n15, n15, n15>>, CREATE, "ok"), Close(0),
      Open(<<n14, n14, n14>>, RDONLY, "ok"), Close(0), Mkdir(<<n14, n14>>, "fail"),
      Mkdir(<<n15, n14>>, "fail")>>

rmdot ==
    <<Mkdir(<<"dots">>, "ok"), Chdir(<<"dots">>, "ok"), Unlink(<<".">>, "fail"),
      Unlink(<<"..">>, "fail"), Chdir(<<"/">>, "ok"), Unlink(<<"dots", ".">>, "fail"),
      Unlink(<<"dots", "..">>, "fail"), Unlink(<<"dots">>, "ok")>>

dirfile ==
    LET f == "dirfile" IN
    <<Open(<<f>>, CREATE, "ok"), Close(0), Chdir(<<f>>, "fail"), Open(<<f, xx>>, RDONLY, "fail"),
      Open(<<f, xx>>, CREATE, "fail"), Mkdir(<<f, xx>>, "fail"), Unlink(<<f, xx>>, "fail"),
      Link(<<"README">>, <<f, xx>>, "fail"), Unlink(<<f>>, "ok"), Open(<<".">>, RDWR, "fail"),
      Open(<<".">>, RDONLY, "any"), Write(0, Bytes("x", 1), "fail"), Close(0)>>

\* One directory deeper than the inode cache is long.
iref ==
    Repeat(NINODE + 1, LAMBDA i :
       <<Mkdir(<<"irefd">>, "ok"), Chdir(<<"irefd">>, "ok"), Mkdir(<<>>, "any"),
         Link(<<"/", "README">>, <<>>, "any"), Open(<<>>, CREATE, "any"), Close(LastFd),
         Open(<<"xx">>, CREATE, "any"), Close(LastFd), Unlink(<<"xx">>, "any")>>)
    \o <<Chdir(<<"/">>, "any")>>

forktest ==
    <<Fork(<<Exit>>), Fork(<<Exit>>), [Fork(<<Exit>>) EXCEPT !.exp = "fail"],
      Wait, Wait, Call("wait", "fail")>>

argptest == <<Open(<<"init">>, RDONLY, "ok"), Read(0, -1, "any", <<>>), Close(0)>>

(***************************************************************************)
(* Other programs of the image.                                            *)
(***************************************************************************)
init == <<Open(<<"console">>, RDWR, "fail"), Mknod(<<"console">>, "any"), Open(<<"console">>, RDWR, "ok"),
          Dup(0, "ok"), Dup(0, "ok"), Fork(<<Exec(<<"sh">>, "fail"), Exit>>), Wait>>

\* Two of its five processes.
stressfs ==
    LET Work(path, s) ==
          <<Open(<<path>>, CREATE \cup RDWR, "ok"), Write(0, Bytes(s, BSIZE), "ok"),
            Write(0, Bytes(s, BSIZE), "ok"), Close(0), Open(<<path>>, RDONLY, "ok"),
            Read(0, BSIZE, "cells", Bytes(s, BSIZE)), Read(0, BSIZE, "cells", Bytes(s, BSIZE)), Close(0)>>
    IN <<Fork(Work("stressfs1", "a") \o <<Call("wait", "fail"), Exit>>)>>
       \o Work("stressfs0", "b") \o <<Wait>>

cat == <<Open(<<"README">>, RDONLY, "ok"), Read(0, BSIZE, "cells", Bytes("r", 2)),
         Read(0, BSIZE, "cells", <<>>), Close(0)>>

ls ==
    LET Stat(path, nlink, type, size) ==
          <<Open(path, RDONLY, "ok"), Fstat(LastFd, <<Cell(nlink, type), Cell(size, "")>>)>>
    IN <<Open(<<".">>, RDONLY, "ok"), Fstat(0, <<Cell(1, "dir"), Cell(2 * BSIZE, "")>>),
         Read(0, 2 * BSIZE, "names", <<b("."), b(".."), b("README"), b("cat"), b("echo"), b("init")>>)>>
       \o Stat(<<".", "README">>, 1, "file", 2) \o <<Close(1)>>
       \o Stat(<<".", ".">>, 1, "dir", 2 * BSIZE) \o <<Close(1), Close(0)>>

mkdir_ln_rm == <<Mkdir(<<"m">>, "ok"), Link(<<"cat">>, <<"m", "c">>, "ok"), Unlink(<<"m", "c">>, "ok"),
                 Unlink(<<"m">>, "ok"), Unlink(<<"m">>, "fail")>>
============================================================================
