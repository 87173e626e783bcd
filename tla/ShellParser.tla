---------------------------- MODULE ShellParser ----------------------------
(***************************************************************************)
(* The shell's parser (sh.c): recursive descent over a line that gettoken  *)
(* has cut into tokens: words, and the symbols | & ; < > ( ) and + for >>. *)
(* A parsing operator takes the tokens that are left and returns the       *)
(* command and the rest; a panic makes it return Syntax.                   *)
(***************************************************************************)
EXTENDS Integers, Sequences, FiniteSets, SequencesExt, TLC

CONSTANT MAXARGS

ASSUME MAXARGSAssumption == MAXARGS \in Nat \ {0}

Symbols == {"<", "|", ">", "&", ";", "(", ")", "+"}

execcmd(argv)        == [t |-> "exec", argv |-> argv]
redircmd(c, file, s) == [t |-> "redir", cmd |-> c, file |-> file,
                         fd |-> IF s = "<" THEN 0 ELSE 1, create |-> s # "<"]
backcmd(c)           == [t |-> "back", cmd |-> c]

Syntax       == [ok |-> FALSE]
Parsed(c, s) == [ok |-> TRUE, cmd |-> c, s |-> s]
peek(s, T)   == s # <<>> /\ Head(s) \in T
IsWord(s)    == s # <<>> /\ Head(s) \notin Symbols

RECURSIVE parseline(_), parsepipe(_), Backs(_, _), parseredirs(_, _), args(_, _, _)

\* The loop of parseredirs: cmd wrapped in the redirections that follow.
parseredirs(cmd, s) ==
    IF ~peek(s, {"<", ">", "+"}) THEN Parsed(cmd, s)
    ELSE IF ~IsWord(Tail(s)) THEN Syntax
    ELSE parseredirs(redircmd(cmd, s[2], s[1]), SubSeq(s, 3, Len(s)))

Closed(p) == IF p.ok /\ peek(p.s, {")"}) THEN parseredirs(p.cmd, Tail(p.s)) ELSE Syntax
parseblock(s) == Closed(parseline(Tail(s)))

\* The loop of parseexec.  redirs are the redirections met so far, as a
\* function on commands would be: they are put around the command at the end.
args(argv, redirs, s) ==
    LET Wrapped == FoldLeft(LAMBDA c, r : redircmd(c, r[2], r[1]), execcmd(argv), redirs) IN
    IF peek(s, {"<", ">", "+"})
    THEN IF IsWord(Tail(s)) THEN args(argv, Append(redirs, <<s[1], s[2]>>), SubSeq(s, 3, Len(s)))
                            ELSE Syntax
    ELSE IF s = <<>> \/ peek(s, {"|", ")", "&", ";"}) THEN Parsed(Wrapped, s)
    ELSE IF ~IsWord(s) \/ Len(argv) + 1 >= MAXARGS THEN Syntax
    ELSE args(Append(argv, Head(s)), redirs, Tail(s))

parseexec(s) == IF peek(s, {"("}) THEN parseblock(s) ELSE args(<<>>, <<>>, s)

\* What follows l is put to its right.
Joined(t, l, r) == IF r.ok THEN Parsed([t |-> t, left |-> l, right |-> r.cmd], r.s) ELSE Syntax
PipedOnce(l) == IF l.ok /\ peek(l.s, {"|"}) THEN Joined("pipe", l.cmd, parseexec(Tail(l.s))) ELSE l
M_parsepipe_Left(s) == PipedOnce(parseexec(s))
Piped(l) == IF l.ok /\ peek(l.s, {"|"}) THEN Joined("pipe", l.cmd, parsepipe(Tail(l.s))) ELSE l
parsepipe(s) == Piped(parseexec(s))

Backs(cmd, s) == IF peek(s, {"&"}) THEN Backs(backcmd(cmd), Tail(s)) ELSE Parsed(cmd, s)
Listed(c) == IF peek(c.s, {";"}) THEN Joined("list", c.cmd, parseline(Tail(c.s))) ELSE c
OfPipe(p) == IF p.ok THEN Listed(Backs(p.cmd, p.s)) ELSE Syntax
parseline(s) == OfPipe(parsepipe(s))

\* parsecmd: nothing may be left over.
Whole(p) == IF p.ok /\ p.s = <<>> THEN p ELSE Syntax
parsecmd(line) == Whole(parseline(line))
----------------------------------------------------------------------------
(***************************************************************************)
(* The same language by splitting the line: at the first ; outside         *)
(* parentheses, then trailing &s, then at the first | , then words and     *)
(* redirections.                                                           *)
(***************************************************************************)
Depth(s, i)  == Cardinality({j \in 1 .. i : s[j] = "("}) - Cardinality({j \in 1 .. i : s[j] = ")"})
Tops(s, x)   == {i \in DOMAIN s : s[i] = x /\ Depth(s, i) = 0}
First(S)     == CHOOSE i \in S : \A j \in S : i <= j
Before(s, i) == SubSeq(s, 1, i - 1)
After(s, i)  == SubSeq(s, i + 1, Len(s))
Bad          == [t |-> "bad"]
Both(t, l, r) == IF Bad \in {l, r} THEN Bad ELSE [t |-> t, left |-> l, right |-> r]

\* The words of a simple command, or its redirections, by position.
Redirects(s) == {i \in DOMAIN s : s[i] \in {"<", ">", "+"}}
WordsOf(s)   == LET at == {i \in DOMAIN s : s[i] \notin Symbols /\ i - 1 \notin Redirects(s)}
                IN [k \in 1 .. Cardinality(at) |->
                      s[CHOOSE i \in at : Cardinality({j \in at : j <= i}) = k]]
Redirected(c, s) == FoldLeft(LAMBDA d, i : IF i \in Redirects(s) THEN redircmd(d, s[i + 1], s[i]) ELSE d,
                         c, [i \in DOMAIN s |-> i])
Simple(s)    == /\ \A i \in DOMAIN s : s[i] \notin Symbols \/ i \in Redirects(s)
                /\ \A i \in Redirects(s) : i + 1 \in DOMAIN s /\ s[i + 1] \notin Symbols

RECURSIVE RefLine(_), RefPipe(_), RefBack(_)
RefBlock(c, rest) == IF c = Bad \/ ~Simple(rest) \/ WordsOf(rest) # <<>> THEN Bad ELSE Redirected(c, rest)
RefGroup(s, close) == IF close = {} THEN Bad
                      ELSE RefBlock(RefLine(SubSeq(s, 2, First(close) - 1)), After(s, First(close)))
RefExec(s) ==
    IF s # <<>> /\ s[1] = "(" THEN RefGroup(s, {i \in DOMAIN s : Depth(s, i) = 0})
    ELSE IF Simple(s) /\ Len(WordsOf(s)) < MAXARGS THEN Redirected(execcmd(WordsOf(s)), s) ELSE Bad
RefPipe(s) ==
    IF Tops(s, "|") = {} THEN RefExec(s)
    ELSE LET i == First(Tops(s, "|")) IN Both("pipe", RefExec(Before(s, i)), RefPipe(After(s, i)))
InBack(c) == IF c = Bad THEN Bad ELSE backcmd(c)
RefBack(s) ==
    IF s # <<>> /\ Last(s) = "&" THEN InBack(RefBack(Front(s)))
    ELSE IF Tops(s, "&") = {} THEN RefPipe(s) ELSE Bad
RefLine(s) ==
    IF Tops(s, ";") = {} THEN RefBack(s)
    ELSE LET i == First(Tops(s, ";")) IN Both("list", RefBack(Before(s, i)), RefLine(After(s, i)))

\* parsecmd accepts exactly the lines of the grammar and builds their tree:
\* | binds tighter than & and ;, both chains lean to the right, redirections
\* belong to the command they stand in, and nothing is skipped or read twice.
Agrees(p, tree) == tree = IF p.ok THEN p.cmd ELSE Bad
ParserCorrect(line) == Agrees(parsecmd(line), RefLine(line))
============================================================================
