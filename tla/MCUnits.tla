------------------------------ MODULE MCUnits ------------------------------
(***************************************************************************)
(* The parts of the system that do not interact in the model, each checked *)
(* on its own: a behaviour is a behaviour of the unit chosen at its start. *)
(* The pure algorithms are evaluated on every input of a bounded set.      *)
(***************************************************************************)
EXTENDS LotteryTable, Console, Paging, Swap, TextTools

CONSTANTS TicketValues                  \* proc->ticket of the tables of the draw

VARIABLES unit, in,                     \* the unit, and the input of an algorithm
          shift, down, wire,            \* Keyboard
          hdr, freep, brk, live,        \* UMalloc
          free, mem, vproc, halted, view \* VirtualMemory

keyboardVars == <<shift, down, wire>>
mallocVars   == <<hdr, freep, brk, live>>
memoryVars   == <<free, mem, vproc, halted, view>>
others       == <<unit, in, state, ticket>>
all == <<others, consoleVars, keyboardVars, mallocVars, memoryVars, swapVars, vars>>
\* vars, Init and Next are those of Paging.

\* d, both Ctrl, both Shift and the right Alt keys, Caps Lock, and an arrow key.
K == INSTANCE Keyboard WITH Keys <- {32, 29, 157, 42, 54, 184, 58, 200}
H == INSTANCE UMalloc WITH MinCore <- 4, HeapEnd <- 15, Header <- 8, Sizes <- {8, 9, 32}
P == INSTANCE ShellParser WITH MAXARGS <- 3
V == INSTANCE VirtualMemory WITH
       Procs <- {"p1", "p2", "p3"}, Root <- "p1", NFrames <- 14, TabSize <- 2, KernPage <- 4,
       Deltas <- {1, 3, -2, -6}, StoreAt <- {3},
       Programs <- {[memsz |-> 2, filesz |-> 1], [memsz |-> 1, filesz |-> 2]},
       ArgLists <- {<<1>>, <<1, 1>>, <<5>>}, proc <- vproc, panicked <- halted

Strings(chars, n) == UNION {[1 .. k -> chars] : k \in 0 .. n}
Inputs == [kind : {"match"}, re : Strings({"a", ".", "*", "^", "$"}, 3) \cup Strings({"a", "*", "^", "$"}, 4),
           text : Strings({"a", "b"}, 2) \cup Strings({"a"}, 3)]
     \cup [kind : {"grep"}, re : {<<"a">>, <<"^", "b">>, <<"a", "*", "$">>}, text : Strings({"a", "b", "nl"}, 5)]
     \cup [kind : {"wc"}, text : Strings({"a", " ", "nl"}, 5)]
     \cup [kind : {"move"}, d : 1 .. 5, s : 1 .. 5, n : 0 .. 3]
     \cup [kind : {"names"}, x : Strings({"a", "b"}, 3), y : Strings({"a", "b"}, 3)]
     \cup [kind : {"parse"}, text : Strings({"a", "|", ";", "&", "<", "(", ")"}, 4) \cup Strings({"a", "|", ";"}, 6)]
     \cup [kind : {"int"}, x : -128 .. 127]

\* Of the units not chosen, the table of the draw has no process, the console,
\* paging and the swap files are as at the start, and the others are 0.
Chosen(u, unitInit, off) == IF unit = u THEN unitInit ELSE off
Start == /\ unit \in {"draw", "console", "keyboard", "malloc", "memory", "paging", "swap", "text"}
         /\ ConsoleInit /\ SwapInit /\ Init /\ (unit # "paging" => R_ALGO = 1)
         /\ Chosen("draw", state \in [Procs -> {"RUNNABLE", "SLEEPING"}] /\ ticket \in [Procs -> TicketValues],
                   state = [p \in Procs |-> "UNUSED"] /\ ticket = [p \in Procs |-> 0])
         /\ Chosen("keyboard", K!Init, shift = 0 /\ down = 0 /\ wire = 0)
         /\ Chosen("malloc", H!Init, hdr = 0 /\ freep = 0 /\ brk = 0 /\ live = 0)
         /\ Chosen("memory", V!Init, free = 0 /\ mem = 0 /\ vproc = 0 /\ halted = 0 /\ view = 0)
         /\ Chosen("text", in \in Inputs, in = 0)
Step == /\ UNCHANGED others
        /\ \/ /\ unit = "paging" /\ Next
              /\ UNCHANGED <<consoleVars, keyboardVars, mallocVars, memoryVars, swapVars>>
           \/ /\ UNCHANGED vars
              /\ \/ unit = "console" /\ ConsoleNext /\ UNCHANGED <<keyboardVars, mallocVars, memoryVars, swapVars>>
                 \/ unit = "keyboard" /\ K!Next /\ UNCHANGED <<consoleVars, mallocVars, memoryVars, swapVars>>
                 \/ unit = "malloc" /\ H!Next /\ UNCHANGED <<consoleVars, keyboardVars, memoryVars, swapVars>>
                 \/ unit = "memory" /\ V!Next /\ UNCHANGED <<consoleVars, keyboardVars, mallocVars, swapVars>>
                 \/ unit = "swap" /\ SwapNext /\ UNCHANGED <<consoleVars, keyboardVars, mallocVars, memoryVars>>
UnitsSpec == Start /\ [][Step]_all
----------------------------------------------------------------------------
In(kind) == unit = "text" /\ in.kind = kind
\* DrawIsFair, InputGoesOn, ConsoleIsLineEditor, SwapPrivate, BytesFound,
\* TablesAgree and FatalOnlyIfFull are checked as their modules state them;
\* they hold of units not chosen as well.

\* kbd.c: no modifier outlives its key.
NoStuckModifier == unit = "keyboard" => K!NoStuckModifier
\* umalloc.c: free and live blocks cover the heap without gap or overlap, and
\* no two free ones lie side by side.
HeapExact == unit = "malloc" => H!HeapPartitioned /\ H!FreeBlocksJoined
\* kalloc.c, vm.c, exec.c, syscall.c: every physical page is free or has one
\* use, whichever allocation failed; a process has the pages its size calls for,
\* finds its own bytes in them, and passes no other address to the kernel; what
\* sbrktest, bsstest and bigargtest of usertests.c expect holds in every state.
MemoryExact == unit = "memory" => /\ V!FramesExact /\ V!SizeMatchesPages /\ V!BytesPrivate
                                  /\ V!ArgumentsMapped /\ V!NoPanic /\ V!MemoryTestsPass
\* sh.c, grep.c, wc.c, string.c, ulib.c, printf.c: the parser, the matcher and
\* grep's buffer, wc, overlapping moves, names of full length and printed
\* numbers do what their reference definitions say.
ToolsAgree == /\ In("parse") => P!ParserCorrect(in.text)
              /\ In("match") => MatcherCorrect(in.re, in.text)
              /\ In("grep")  => GrepCorrect(in.re, in.text, 4)
              /\ In("wc")    => WcCorrect(in.text)
              /\ In("move")  => MoveCorrect([i \in 1 .. 8 |-> i], in.d, in.s, in.n)
              /\ In("names") => NamesCorrect(in.x, in.y, 2)
              /\ In("int")   => IntsCorrect(in.x, 8)
============================================================================
