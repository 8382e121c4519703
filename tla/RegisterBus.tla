---------------------------- MODULE RegisterBus ----------------------------
(***************************************************************************)
(* What the control channel of a device promises its callers: each thread  *)
(* has at most one command pending; a command that returns took effect     *)
(* exactly once while it was pending, and returns the answer it had then;  *)
(* a command that fails may have taken effect, may do so later, or never.  *)
(* This is the contract that the setters of                                *)
(* src/driver/IQTAXI/iqtaxi_udp_impl.cpp rely on.                          *)
(***************************************************************************)

EXTENDS RegisterCommands

VARIABLES
    regs,       \* the device's registers
    pend,       \* per thread: its pending command, or None
    answer,     \* per thread: the answer of that command once it took effect
    result,     \* per thread: the result of its last call
    doubt       \* failed writes that may still take effect

busVars == <<regs, pend, answer, result, doubt>>

Init ==
    /\ regs \in [Regs -> Values]
    /\ pend = [t \in Threads |-> None]
    /\ answer = [t \in Threads |-> None]
    /\ result = [t \in Threads |-> None]
    /\ doubt = {}

Begin(t, c) ==
    /\ pend[t] = None
    /\ pend' = [pend EXCEPT ![t] = c]
    /\ answer' = [answer EXCEPT ![t] = None]
    /\ result' = [result EXCEPT ![t] = None]
    /\ UNCHANGED <<regs, doubt>>

Effect(t) ==
    /\ pend[t] # None /\ answer[t] = None
    /\ \E o \in Outcomes(pend[t], regs) :
          regs' = o[1] /\ answer' = [answer EXCEPT ![t] = o[2]]
    /\ UNCHANGED <<pend, result, doubt>>

Finish(t) ==
    /\ pend[t] # None /\ answer[t] # None
    /\ result' = [result EXCEPT ![t] = answer[t]]
    /\ pend' = [pend EXCEPT ![t] = None]
    /\ answer' = [answer EXCEPT ![t] = None]
    /\ UNCHANGED <<regs, doubt>>

\* A write that has not taken effect by now may do so later.
Abandon(t) ==
    /\ pend[t] # None
    /\ result' = [result EXCEPT ![t] = Failed]
    /\ pend' = [pend EXCEPT ![t] = None]
    /\ answer' = [answer EXCEPT ![t] = None]
    /\ \/ UNCHANGED doubt
       \/ /\ pend[t].op = "poke" /\ answer[t] = None
          /\ doubt' = doubt \cup {pend[t]}
    /\ UNCHANGED regs

LateEffect(c) ==
    /\ c \in doubt
    /\ \E o \in Outcomes(c, regs) : regs' = o[1]
    /\ doubt' \in {doubt, doubt \ {c}}
    /\ UNCHANGED <<pend, answer, result>>

Forget ==
    /\ doubt' \subseteq doubt
    /\ UNCHANGED <<regs, pend, answer, result>>

Next ==
    \/ \E t \in Threads :
          \/ \E c \in Commands : Begin(t, c)
          \/ Effect(t) \/ Finish(t) \/ Abandon(t)
    \/ \E c \in doubt : LateEffect(c)
    \/ Forget

Spec == Init /\ [][Next]_busVars
=============================================================================
