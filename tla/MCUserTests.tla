---------------------------- MODULE MCUserTests ----------------------------
(***************************************************************************)
(* The scenarios TLC runs: every test of UserTests.tla, and pairs of short *)
(* scripts that meet in one directory.                                     *)
(***************************************************************************)
EXTENDS UserTests

MCImage == [README |-> <<b("r"), b("r")>>, cat |-> <<b("ELF")>>, echo |-> <<b("ELF")>>,
            init |-> <<b("ELF")>>]
MCLongNames == [n \in {"123456789012345"} |-> "12345678901234"]

\* In the order of main.
Tests == <<<<argptest>>, <<createdelete>>, <<linkunlink>>, <<concreate>>, <<fourfiles>>, <<sharedfd>>,
           <<bigwrite>>, <<opentest>>, <<writetest>>, <<writetest1>>, <<createtest>>, <<dirtest>>, <<openiputtest>>,
           <<exitiputtest>>, <<iputtest>>, <<exitwait>>, <<rmdot>>, <<fourteen>>, <<bigfile>>, <<subdir>>,
           <<linktest>>, <<unlinkread>>, <<dirfile>>, <<iref>>, <<forktest>>, <<bigdir>>, <<exectest>>>>
Programs == <<<<init>>, <<stressfs>>, <<cat>>, <<ls>>, <<mkdir_ln_rm>>>>

\* Calls that meet on one name, one directory, or a directory being removed.
Short == <<<<Open(<<"x">>, CREATE \cup RDWR, "any"), Write(0, Bytes("w", 2), "any"), Close(0)>>,
           <<Link(<<"cat">>, <<"x">>, "any"), Unlink(<<"cat">>, "any")>>,
           <<Unlink(<<"x">>, "any"), Open(<<"x">>, RDONLY, "any")>>,
           <<Mkdir(<<"d">>, "any"), Unlink(<<"d">>, "any")>>,
           <<Mkdir(<<"d">>, "any"), Chdir(<<"d">>, "any"), Open(<<"x">>, CREATE, "any")>>,
           <<Mkdir(<<"d">>, "any"), Link(<<"cat">>, <<"d", "x">>, "any"), Unlink(<<"d", "x">>, "any")>>>>
Pairs == FlattenSeq([i \in DOMAIN Short |-> [j \in 1 .. i |-> <<Short[i], Short[j]>>]])

\* The test that looks for deadlocks, alone.
MCLinkUnlink == <<<<linkunlink>>>>

MCScenarios == Tests \o Programs \o Pairs
============================================================================
