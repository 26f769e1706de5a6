---------------------------- MODULE MCAcpSession ----------------------------
(* A small instance of AcpSession for TLC: prompts are told apart only by  *)
(* their kinds and their places.  A message, a command and a message meet  *)
(* in one line; every other two kinds meet as well.                        *)
EXTENDS AcpSession, TLC

Mix(messages, inputs, wakes, guarded) ==
    [console |-> messages, command |-> inputs, wake |-> wakes, internal |-> guarded]

Met == {Mix(2, 1, 0, 0), Mix(2, 0, 1, 0), Mix(1, 0, 0, 1), Mix(0, 0, 1, 1)}

Alike == Permutations(Prompt)
=============================================================================
