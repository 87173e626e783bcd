------------------------------ MODULE MCShell ------------------------------
(***************************************************************************)
(* The command lines and tests TLC runs.                                   *)
(***************************************************************************)
EXTENDS Shell

Lines(lines, kills, exact) == [lines |-> lines, kills |-> kills, exact |-> exact, test |-> ""]
Test(name) == [lines |-> <<>>, kills |-> 0, exact |-> TRUE, test |-> name]

MCScenarios ==
    {Lines(<<<<"put3", "|", "cat">>, <<"put1", ";", ";", "|">>, <<"put1">>>>, 0, TRUE),
     Lines(<<<<"put3", "|", "cat", "|", "cat", ">", "f">>>>, 0, TRUE),
     Lines(<<<<"(", "put1", ";", "put3", ")", "|", "cat">>>>, 0, TRUE),
     Lines(<<<<"cat", "<", "e", ">", "f", ";", "put1", ">", "dir">>, <<"put1", "&">>>>, 0, TRUE),
     Lines(<<<<"put1", "<", "dir">>>>, 0, TRUE),
     Lines(<<<<"put3", "|", "nosuch">>, <<"|", "cat">>>>, 0, FALSE),
     Lines(<<<<"put3", "|", "first">>>>, 1, FALSE),
     Lines(<<<<"(", "put3", ";", "put1", ")", "|", "cat">>>>, 1, FALSE),
     Lines(<<<<"put1", "|", "put1", "|", "cat", ";", "put1">>>>, 0, TRUE),
     Lines(<<<<"put1", "|", "put1", "|", "put1", "|", "cat">>>>, 0, TRUE),
     Test("pipe1"), Test("preempt")}
============================================================================
