---------------------------- MODULE CtrlChannel ----------------------------
(***************************************************************************)
(* The control channel of a device: threads that poke and peek registers   *)
(* through one mutex, a UDP exchange matched by a 16-bit sequence number,  *)
(* and the device that executes the requests it gets.  Source:             *)
(* src/driver/transport/local_ctrl.cpp (local_ctrl), over the frames of    *)
(* src/core/udp_zero_copy.cpp.                                             *)
(*                                                                         *)
(* There is no retransmission: a lost datagram is a timeout, and what a    *)
(* timed-out command left in the network meets the commands after it.      *)
(***************************************************************************)
EXTENDS RegisterCommands, Naturals, FiniteSets

CONSTANTS
    NoThread,       \* nobody holds _ctrl_mutex
    SeqMod,         \* values of _tx_seq, a uint16_t
    Lifetime,       \* commands a datagram may outlive the one it belongs to
    Replies,        \* "ok", and "bad": wrong magic or length
    MaxCalls,       \* bound: calls
    MaxErrors       \* bound: recv(2) failures that throw

\* A datagram leaves the network before the sequence numbers come round.
ASSUME ChannelAssumption ==
    /\ SeqMod \in Nat \ {0}
    /\ Lifetime \in Nat /\ Lifetime < SeqMod
    /\ Checked \subseteq Regs
    /\ Replies \subseteq {"ok", "bad"}
    /\ MaxCalls \in Nat /\ MaxErrors \in Nat

ASSUME ChannelSentinels ==
    None \notin Commands \cup Answers /\ NoThread \notin Threads

VARIABLES
    regs,       \* the device's registers
    reqs,       \* requests in the network
    resps,      \* responses in the network and the socket buffer
    owner,      \* the thread that holds _ctrl_mutex
    txSeq,      \* _tx_seq
    pc,         \* per thread: "idle", "lock", or "wait" in wait_for_ack
    cmd,        \* per thread: its command
    result,     \* per thread: what its last call returned, or Failed
    sent,       \* history: number of the last command sent
    effect,     \* history: the answer of that command once it was executed
    errors      \* receive errors so far

netVars == <<reqs, resps>>
vars == <<regs, netVars, owner, txSeq, pc, cmd, result, sent, effect, errors>>

Requests == [id : Nat, seq : Nat, cmd : Commands]
Responses == [id : Nat, seq : Nat, kind : Replies, ans : Answers]

\* Mutant: the counter is wider than the field that carries it.
NoWrap == txSeq + 1
NextSeq == IF txSeq + 1 = SeqMod THEN 0 ELSE txSeq + 1
\* wait_for_ack: expected_seq is _tx_seq - 1.
Expected == IF txSeq = 0 THEN SeqMod - 1 ELSE txSeq - 1

\* What is still in the network when the next command is sent.
Alive(ms) == {m \in ms : sent + 1 <= m.id + Lifetime}

\* The command its caller still waits for.
Current(q) == owner # NoThread /\ q.id = sent

Init ==
    /\ regs \in [Regs -> Values]
    /\ reqs = {} /\ resps = {}
    /\ owner = NoThread /\ txSeq = 0
    /\ pc = [t \in Threads |-> "idle"]
    /\ cmd = [t \in Threads |-> None]
    /\ result = [t \in Threads |-> None]
    /\ sent = 0 /\ effect = None /\ errors = 0

-----------------------------------------------------------------------------
(* The callers: poke32, poke64, peek32, peek64 and their variants *)

Call(t, c) ==
    /\ pc[t] = "idle"
    /\ sent + Cardinality({u \in Threads : pc[u] = "lock"}) < MaxCalls
    /\ pc' = [pc EXCEPT ![t] = "lock"]
    /\ cmd' = [cmd EXCEPT ![t] = c]
    /\ result' = [result EXCEPT ![t] = None]
    /\ UNCHANGED <<regs, netVars, owner, txSeq, sent, effect, errors>>

\* Mutant: the mutex is not held.
AnyOwner == TRUE
MutexFree == owner = NoThread

\* _ctrl_mutex is taken and send_pkt64 sends.
Send(t) ==
    /\ pc[t] = "lock" /\ MutexFree
    /\ owner' = t
    /\ pc' = [pc EXCEPT ![t] = "wait"]
    /\ reqs' = Alive(reqs) \cup {[id |-> sent + 1, seq |-> txSeq, cmd |-> cmd[t]]}
    /\ resps' = Alive(resps)
    /\ sent' = sent + 1 /\ txSeq' = NextSeq
    /\ effect' = None
    /\ UNCHANGED <<regs, cmd, result, errors>>

\* The caller leaves with r, and the mutex is released.
Leave(t, r) ==
    /\ result' = [result EXCEPT ![t] = r]
    /\ pc' = [pc EXCEPT ![t] = "idle"]
    /\ owner' = NoThread
    /\ UNCHANGED <<regs, reqs, txSeq, cmd, sent, effect>>

\* The channel receives: until an error has taken its receive frame away.
Receiving(t) == pc[t] = "wait" /\ errors = 0

\* Mutant: any response will do.
AnyReply(r) == r.kind = "ok"
Accepts(r) == r.kind = "ok" /\ r.seq = Expected

\* wait_for_ack discards what does not answer this command.
Skip(t) ==
    /\ Receiving(t)
    /\ \E r \in resps : ~Accepts(r) /\ resps' = resps \ {r}
    /\ UNCHANGED <<regs, reqs, owner, txSeq, pc, cmd, result, sent, effect, errors>>

Accept(t) ==
    /\ Receiving(t)
    /\ \E r \in resps : Accepts(r) /\ resps' = resps \ {r} /\ Leave(t, r.ans)
    /\ UNCHANGED errors

\* throw_ctrl_timeout.
Timeout(t) ==
    /\ pc[t] = "wait"
    /\ Leave(t, Failed)
    /\ UNCHANGED <<resps, errors>>

\* recv(2) throws through wait_for_ack; the frame it was to receive into
\* stays claimed and is the only one tried ever after.
RecvError(t) ==
    /\ Receiving(t) /\ errors < MaxErrors
    /\ errors' = errors + 1
    /\ Leave(t, Failed)
    /\ UNCHANGED resps

-----------------------------------------------------------------------------
(* The device and the network *)

Handle(q) ==
    /\ reqs' = reqs \ {q}
    /\ \E o \in Outcomes(q.cmd, regs), kind \in Replies :
          /\ regs' = o[1]
          /\ resps' = resps \cup {[id |-> q.id, seq |-> q.seq, kind |-> kind, ans |-> o[2]]}
          /\ effect' = IF Current(q) THEN o[2] ELSE effect
    /\ UNCHANGED <<owner, txSeq, pc, cmd, result, sent, errors>>

LoseRequest(q) ==
    /\ reqs' = reqs \ {q}
    /\ UNCHANGED <<regs, resps, owner, txSeq, pc, cmd, result, sent, effect, errors>>

LoseResponse(r) ==
    /\ resps' = resps \ {r}
    /\ UNCHANGED <<regs, reqs, owner, txSeq, pc, cmd, result, sent, effect, errors>>

Caller(t) == Send(t) \/ Skip(t) \/ Accept(t) \/ Timeout(t) \/ RecvError(t)

Next ==
    \/ \E t \in Threads : Caller(t) \/ \E c \in Commands : Call(t, c)
    \/ \E q \in reqs : Handle(q) \/ LoseRequest(q)
    \/ \E r \in resps : LoseResponse(r)

Spec == Init /\ [][Next]_vars

-----------------------------------------------------------------------------
(* Properties *)

\* The type invariant.
TypeOK ==
    /\ regs \in [Regs -> Values]
    /\ reqs \in SUBSET Requests
    /\ resps \in SUBSET Responses
    /\ owner \in Threads \cup {NoThread}
    /\ txSeq \in 0..(SeqMod - 1)
    /\ pc \in [Threads -> {"idle", "lock", "wait"}]
    /\ cmd \in [Threads -> Commands \cup {None}]
    /\ \A t \in Threads : pc[t] # "idle" => cmd[t] # None
    /\ result \in [Threads -> Answers \cup {None, Failed}]
    /\ sent \in Nat /\ errors \in Nat
    /\ effect \in Answers \cup {None}

\* One command is under way at a time.
OneInFlight == \A t \in Threads : pc[t] = "wait" <=> owner = t

\* The sequence number of command id, counted back from that of the last.
SeqOf(id) ==
    LET back == sent - id
    IN  IF back <= Expected THEN Expected - back ELSE Expected + SeqMod - back

\* What is in the network is at most Lifetime commands old and carries the
\* sequence number of the command it belongs to.
InWindow ==
    \A m \in reqs \cup resps :
        m.id <= sent /\ sent <= m.id + Lifetime /\ m.seq = SeqOf(m.id)

\* A request is sent once: it is either waiting to be executed or was, and
\* its response carries the answer the device gave.
OneExecution ==
    owner # NoThread =>
        /\ \A q \in reqs : q.id = sent => effect = None /\ q.cmd = cmd[owner]
        /\ \A r \in resps : r.id = sent => effect = r.ans
        /\ \A p, q \in reqs : p.id = sent /\ q.id = sent => p = q

\* wait_for_ack never takes the answer of another command for its own,
\* although the sequence number is short and late answers stay around.
OwnAnswer ==
    \A r \in resps : owner # NoThread /\ Accepts(r) => effect = r.ans

\* The channel keeps the promise of RegisterBus: a write in doubt is one
\* that is still in the network after its caller gave up.
Bus == INSTANCE RegisterBus WITH
    pend <- [t \in Threads |-> IF pc[t] = "idle" THEN None ELSE cmd[t]],
    answer <- [t \in Threads |-> IF owner = t THEN effect ELSE None],
    doubt <- {q.cmd : q \in {p \in reqs : ~Current(p) /\ p.cmd.op = "poke"}}

ImplementsBus == Bus!Spec
=============================================================================
