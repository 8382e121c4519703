-------------------------- MODULE RegisterCommands --------------------------
(***************************************************************************)
(* The commands of a device's register interface: a poke writes a value, a *)
(* peek reads one.                                                         *)
(***************************************************************************)

CONSTANTS
    Threads,        \* threads of the host program
    Regs,           \* registers of the device
    Values,         \* what a register holds
    Checked,        \* registers whose write the device may refuse (the LOs)
    Done, Refused,  \* the answers to a write
    Failed,         \* the result of a call that threw
    None

Pokes == [op : {"poke"}, reg : Regs, val : Values]
Peeks == [op : {"peek"}, reg : Regs, val : {None}]
Commands == Pokes \cup Peeks
Answers == Values \cup {Done, Refused}

\* What a command does to the registers rs, and the answer it gets.
Outcomes(c, rs) ==
    IF c.op = "peek" THEN {<<rs, rs[c.reg]>>}
    ELSE {<<[rs EXCEPT ![c.reg] = c.val], Done>>}
         \cup (IF c.reg \in Checked THEN {<<rs, Refused>>} ELSE {})
=============================================================================
