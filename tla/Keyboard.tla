------------------------------ MODULE Keyboard -----------------------------
(***************************************************************************)
(* The keyboard driver's decoding (kbd.c, kbd.h): a make or break code per *)
(* interrupt, some behind an E0 prefix that is an interrupt of its own.    *)
(* Scan codes are the hardware's, in decimal; keys reached through E0 have *)
(* 128 added, as in the driver's tables.                                   *)
(***************************************************************************)
EXTENDS Integers, Sequences

CONSTANT Keys       \* keys of this keyboard, by their index in the tables

VARIABLES shift,    \* the static variable of kbdgetc, as a set of bits
          down,     \* keys physically held
          wire      \* codes the controller has not yet delivered

E0 == 224
shiftcode(d)  == CASE d \in {29, 157} -> {"CTL"} [] d \in {42, 54} -> {"SHIFT"}
                   [] d \in {56, 184} -> {"ALT"} [] OTHER -> {}
togglecode(d) == IF d = 58 THEN {"CAPSLOCK"} ELSE {}
\* The letter d (32) in the three maps; other keys of the model type nothing.
charcode(s, d) == IF d # 32 THEN "nul"
                  ELSE IF "CTL" \in s THEN "^D" ELSE IF "SHIFT" \in s THEN "D" ELSE "d"
Toggled(s, t)  == (s \ t) \cup (t \ s)
Capital(s, c)  == IF "CAPSLOCK" \notin s THEN c
                  ELSE CASE c = "d" -> "D" [] c = "D" -> "d" [] OTHER -> c

\* kbdgetc: the new shift state and the character.
M_kbdgetc_KeepsE0(s, data) ==
    IF data = E0 THEN [s |-> s \cup {"E0ESC"}, c |-> "nul"]
    ELSE IF data >= 128
    THEN LET d == IF "E0ESC" \in s THEN data ELSE data - 128
         IN [s |-> s \ shiftcode(d), c |-> "nul"]
    ELSE LET d == IF "E0ESC" \in s THEN data + 128 ELSE data
             t == Toggled((s \ {"E0ESC"}) \cup shiftcode(d), togglecode(d))
         IN [s |-> t, c |-> Capital(t, charcode(t, d))]
kbdgetc(s, data) ==
    IF data = E0 THEN [s |-> s \cup {"E0ESC"}, c |-> "nul"]
    ELSE IF data >= 128
    THEN LET d == IF "E0ESC" \in s THEN data ELSE data - 128
         IN [s |-> s \ (shiftcode(d) \cup {"E0ESC"}), c |-> "nul"]
    ELSE LET d == IF "E0ESC" \in s THEN data + 128 ELSE data
             t == Toggled((s \ {"E0ESC"}) \cup shiftcode(d), togglecode(d))
         IN [s |-> t, c |-> Capital(t, charcode(t, d))]

Prefix(k) == IF k >= 128 THEN <<E0>> ELSE <<>>
Init == shift = {} /\ down = {} /\ wire = <<>>

Press(k)   == /\ k \notin down /\ down' = down \cup {k}
              /\ wire' = wire \o Prefix(k) \o <<k % 128>>
Release(k) == /\ k \in down /\ down' = down \ {k}
              /\ wire' = wire \o Prefix(k) \o <<(k % 128) + 128>>
kbdintr    == /\ wire # <<>>
              /\ shift' = kbdgetc(shift, Head(wire)).s
              /\ wire' = Tail(wire) /\ UNCHANGED down
Next == (wire = <<>> /\ UNCHANGED shift /\ \E k \in Keys : Press(k) \/ Release(k)) \/ kbdintr
----------------------------------------------------------------------------
\* No modifier sticks: once the driver has seen every code, a modifier is on
\* only while a key of it is held, no E0 prefix is pending, and with all keys
\* up the letter key types a letter.
NoStuckModifier ==
    wire = <<>> => /\ "E0ESC" \notin shift
                   /\ down = {} => kbdgetc(shift, 32).c \in {"d", "D"}
                   /\ \A m \in {"CTL", "SHIFT", "ALT"} \cap shift : \E k \in down : m \in shiftcode(k)
===========================================================================
