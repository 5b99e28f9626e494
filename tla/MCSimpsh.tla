------------------------------ MODULE MCSimpsh ------------------------------
(* Command lines for Simpsh: each begins with given options, and goes on   *)
(* with any of some others.                                                *)
EXTENDS Simpsh

Open1(name, acc) == [op |-> "open", name |-> name, acc |-> acc]
Cmd(i, o, e) == [op |-> "command", i |-> i, o |-> o, e |-> e]
Op(name) == [op |-> name]
ClosePlain(n) == [op |-> "close", n |-> n]
Sig(name, n) == [op |-> name, sig |-> n]
For(n) == [op |-> "wait for", n |-> n, text |-> FALSE]

(* Two pipes between two files, the commands in any order; the command     *)
(* line of test.sh:83 is one of these.                                     *)
Pipeline ==
  [first |-> <<Open1("a", 0), Op("pipe"), Op("pipe"), Open1("c", 1)>>,
   then  |-> {Cmd(i, o, 5) : i \in {0, 1, 3}, o \in {2, 4, 5}} \cup {Op("wait")},
   max   |-> 8, signals |-> FALSE, statuses |-> {0}]

(* Descriptors come and go: pipes and files between the commands.          *)
Mixed ==
  [first |-> <<Open1("a", 0), Op("pipe"), Open1("c", 1)>>,
   then  |-> {Cmd(0, 2, 3), Cmd(1, 3, 3), Cmd(1, 5, 3), Cmd(0, 2, 4), Cmd(4, 3, 3),
              Op("pipe"), Open1("b", 1), ClosePlain(2), Op("wait")},
   max   |-> 8, signals |-> FALSE, statuses |-> {0}]

(* What goes wrong, and the other options.                                 *)
Odd ==
  [first |-> <<>>,
   then  |-> {Open1("a", 0), Open1("c", 1), [op |-> "flag", flag |-> "append"],
              Cmd(0, 1, 1), ClosePlain(0), ClosePlain(7), Op("wait"), For(0),
              [op |-> "wait for", n |-> 0, text |-> TRUE]},
   max   |-> 6, signals |-> FALSE, statuses |-> {0, 2}]

Signalled ==
  [first |-> <<Open1("a", 0), Open1("c", 1)>>,
   then  |-> {Cmd(0, 1, 1), Op("abort"), Op("pause"), Op("wait"), Op("verbose"), Op("profile"),
              Op("command without name"), Op("command without numbers"), Op("number expected"),
              Op("unknown option"),
              Sig("catch", 11), Sig("ignore", 11), Sig("default", 11), Sig("catch", 2),
              Sig("ignore", 2), Sig("catch", 9), Sig("ignore", 9), For(0), For(1)},
   max   |-> 5, signals |-> TRUE, statuses |-> {0, 2, Killed}]

MCLines == {Pipeline, Mixed, Odd, Signalled}
=============================================================================
