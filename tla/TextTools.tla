----------------------------- MODULE TextTools -----------------------------
(***************************************************************************)
(* The pure algorithms of the user programs and of the C library routines  *)
(* they and the kernel share: grep and its matcher, wc, memmove, the       *)
(* fixed-size names of directories, and the conversion of integers.  Each  *)
(* has a reference definition beside it.  Strings are sequences of         *)
(* characters without their terminator; "nl" is the newline.               *)
(***************************************************************************)
EXTENDS Integers, Sequences, FiniteSets, SequencesExt

At(s, i)   == IF i \in 1 .. Len(s) THEN s[i] ELSE "nul"
From(s, i) == SubSeq(s, i, Len(s))

(***************************************************************************)
(* grep.c                                                                  *)
(***************************************************************************)
RECURSIVE matchhere(_, _), matchstar(_, _, _)
M_matchstar_OneAtLeast(c, re, text) ==
    text # <<>> /\ c \in {".", Head(text)} /\ (matchhere(re, Tail(text)) \/ matchstar(c, re, Tail(text)))
matchstar(c, re, text) == \/ matchhere(re, text)
                          \/ text # <<>> /\ c \in {".", Head(text)} /\ matchstar(c, re, Tail(text))
matchhere(re, text) ==
    CASE re = <<>>                  -> TRUE
      [] At(re, 2) = "*"            -> matchstar(re[1], From(re, 3), text)
      [] re = <<"$">>               -> text = <<>>
      [] OTHER                      -> /\ text # <<>> /\ re[1] \in {".", text[1]}
                                       /\ matchhere(Tail(re), Tail(text))
match(re, text) == IF At(re, 1) = "^" THEN matchhere(Tail(re), text)
                   ELSE \E i \in 1 .. Len(text) + 1 : matchhere(re, From(text, i))

\* The reference: an expression is a sequence of items, and a text matches if
\* cut points exist between which each item finds what it stands for.
RECURSIVE Items(_)
Items(re) == IF re = <<>> THEN <<>>
             ELSE IF At(re, 2) = "*" THEN <<[kind |-> "star", c |-> re[1]]>> \o Items(From(re, 3))
             ELSE IF re = <<"$">> THEN <<[kind |-> "end", c |-> "$"]>>
             ELSE <<[kind |-> "one", c |-> re[1]]>> \o Items(Tail(re))
Stands(it, text, i, j) ==
    CASE it.kind = "star" -> i <= j /\ \A k \in i + 1 .. j : it.c \in {".", text[k]}
      [] it.kind = "end"  -> i = j /\ i = Len(text)
      [] OTHER            -> j = i + 1 /\ it.c \in {".", text[j]}
Matches(re, text) ==
    LET anchored == At(re, 1) = "^"
        items == Items(IF anchored THEN Tail(re) ELSE re)
    IN \E cut \in [1 .. Len(items) + 1 -> 0 .. Len(text)] :
          /\ anchored => cut[1] = 0
          /\ \A k \in DOMAIN items : Stands(items[k], text, cut[k], cut[k + 1])

Newlines(s) == SetToSortSeq({i \in DOMAIN s : s[i] = "nl"}, LAMBDA i, j : i < j)
Lines(s) == LET nl == Newlines(s)
            IN [k \in DOMAIN nl |-> SubSeq(s, (IF k = 1 THEN 0 ELSE nl[k - 1]) + 1, nl[k] - 1)]
\* What stays in the buffer: the text after the last newline, or nothing if
\* there was no newline.
M_Kept_None(s) == <<>>
Kept(s) == IF Newlines(s) = <<>> THEN <<>> ELSE From(s, Last(Newlines(s)) + 1)

\* The loop of grep over a file, with room for size - 1 characters: the lines
\* it prints.
RECURSIVE grep(_, _, _, _)
grep(re, buf, rest, size) ==
    LET n == IF Len(rest) < size - 1 - Len(buf) THEN Len(rest) ELSE size - 1 - Len(buf)
        s == buf \o SubSeq(rest, 1, n)
    IN IF n = 0 THEN <<>>
       ELSE SelectSeq(Lines(s), LAMBDA l : match(re, l)) \o grep(re, Kept(s), From(rest, n + 1), size)

\* The matcher finds a text exactly if the expression stands for a part of it:
\* backtracking over stars misses nothing.
MatcherCorrect(re, text) == match(re, text) <=> Matches(re, text)
\* grep prints exactly the matching lines of a file, in order, whatever the
\* places where its reads cut the lines, if no line is longer than its buffer.
GrepCorrect(re, file, size) ==
    (\A k \in DOMAIN Lines(file) : Len(Lines(file)[k]) + 1 < size)
      => grep(re, <<>>, file, size) = SelectSeq(Lines(file), LAMBDA l : Matches(re, l))

(***************************************************************************)
(* wc.c                                                                    *)
(***************************************************************************)
Space(c) == c \in {" ", "nl"}
M_Counted_Newlines(t, c) ==
    IF c = "nl" THEN [l |-> t.l + 1, w |-> t.w, c |-> t.c + 1, in |-> t.in]
    ELSE [l |-> t.l, w |-> IF Space(c) \/ t.in THEN t.w ELSE t.w + 1, c |-> t.c + 1, in |-> ~Space(c)]
Counted(t, c) == [l |-> IF c = "nl" THEN t.l + 1 ELSE t.l,
                  w |-> IF Space(c) \/ t.in THEN t.w ELSE t.w + 1,
                  c |-> t.c + 1, in |-> ~Space(c)]
wc(s) == FoldLeft(Counted, [l |-> 0, w |-> 0, c |-> 0, in |-> FALSE], s)
\* wc counts newlines, maximal runs of other characters, and characters.
WcCorrect(s) ==
    LET t == wc(s) IN
    /\ t.l = Len(Lines(s)) /\ t.c = Len(s)
    /\ t.w = Cardinality({i \in DOMAIN s : ~Space(s[i]) /\ (i = 1 \/ Space(s[i - 1]))})

(***************************************************************************)
(* string.c and ulib.c                                                     *)
(***************************************************************************)
Copy(b, d, s, order) == FoldLeft(LAMBDA x, k : [x EXCEPT ![d + k] = x[s + k]], b, order)
Up(n)   == [k \in 1 .. n |-> k - 1]
Down(n) == [k \in 1 .. n |-> n - k]
M_memmove_Forward(b, d, s, n) == Copy(b, d, s, Up(n))
memmove(b, d, s, n) == Copy(b, d, s, IF s < d /\ s + n > d THEN Down(n) ELSE Up(n))
memmove_user(b, d, s, n) == Copy(b, d, s, Up(n))
\* Overlapping regions are copied as if through a second buffer: by the kernel
\* always, by the user library downwards, the way grep uses it.
MoveCorrect(b, d, s, n) ==
    LET moved == [i \in DOMAIN b |-> IF i \in d .. d + n - 1 THEN b[i - d + s] ELSE b[i]]
    IN memmove(b, d, s, n) = moved /\ (d <= s => memmove_user(b, d, s, n) = moved)

M_strncpy_Ends(t, n) == [i \in 1 .. n |-> IF i = n THEN "nul" ELSE At(t, i)]
strncpy(t, n) == [i \in 1 .. n |-> At(t, i)]
\* strncmp(p, q, n) = 0: the loop passes equal characters up to the terminator.
strncmp0(p, q, n) == LET stop == {k \in 1 .. n : At(p, k) = "nul" \/ At(p, k) # At(q, k)}
                     IN \A k \in stop : (\A j \in stop : k <= j) => At(p, k) = At(q, k)
\* A directory entry, which has no room for a terminator, is found by exactly
\* the names that agree with it in the first n characters.
NamesCorrect(x, y, n) == strncmp0(y, strncpy(x, n), n) <=> \A i \in 1 .. n : At(x, i) = At(y, i)

(***************************************************************************)
(* printint (printf.c, console.c) and atoi (ulib.c), with w-bit integers   *)
(***************************************************************************)
RECURSIVE Digits(_, _)
Digits(x, base) == IF x < base THEN <<x>> ELSE Append(Digits(x \div base, base), x % base)
M_printint_Abs(xx, base, sgn, w) ==
    IF sgn /\ xx < 0 THEN [neg |-> TRUE, d |-> Digits((0 - xx) % 2^(w - 1), base)]
    ELSE [neg |-> FALSE, d |-> Digits(xx % 2^w, base)]
printint(xx, base, sgn, w) ==
    IF sgn /\ xx < 0 THEN [neg |-> TRUE, d |-> Digits((0 - xx) % 2^w, base)]
    ELSE [neg |-> FALSE, d |-> Digits(xx % 2^w, base)]
atoi(d, w) == FoldLeft(LAMBDA n, c : (n * 10 + c) % 2^w, 0, d)
\* Reading the printed digits back gives the number, the smallest one too; a
\* number printed unsigned is the same modulo the width.
IntsCorrect(xx, w) ==
    LET p == printint(xx, 10, TRUE, w) IN
    /\ (IF p.neg THEN 0 - atoi(p.d, w) ELSE atoi(p.d, w)) = xx
    /\ atoi(printint(xx, 10, FALSE, w).d, w) = xx % 2^w
    /\ FoldLeft(LAMBDA n, c : n * 16 + c, 0, printint(xx, 16, FALSE, w).d) = xx % 2^w
=============================================================================
