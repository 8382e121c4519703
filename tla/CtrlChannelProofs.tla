------------------------- MODULE CtrlChannelProofs -------------------------
(***************************************************************************)
(* CtrlChannel keeps the promise of RegisterBus, for any threads,          *)
(* registers and values and any width of the sequence number, as long as   *)
(* a datagram leaves the network before the sequence numbers come round    *)
(* (ChannelAssumption).                                                    *)
(***************************************************************************)
EXTENDS CtrlChannel, TLAPS

(***************************************************************************)
(* The inductive invariant: the mutex admits one command at a time, what   *)
(* is in the network is recent and numbered accordingly, and the device's  *)
(* answer to the current command is the one on its way back.               *)
(***************************************************************************)
IInv == TypeOK /\ OneInFlight /\ InWindow /\ OneExecution

\* Within the window a sequence number stands for one command.
LEMMA SeqIdentifies ==
    ASSUME TypeOK, InWindow, NEW m \in reqs \cup resps, m.seq = Expected
    PROVE  m.id = sent
<1>1. m.id \in Nat /\ m.seq \in Nat
  BY DEF TypeOK, Requests, Responses
<1>2. m.id <= sent /\ sent <= m.id + Lifetime /\ m.seq = SeqOf(m.id)
  BY DEF InWindow
<1>3. sent \in Nat /\ Expected \in 0..(SeqMod - 1)
  BY ChannelAssumption DEF TypeOK, Expected
<1>4. QED
  BY <1>1, <1>2, <1>3, ChannelAssumption DEF SeqOf

\* OwnAnswer follows.
LEMMA OwnAnswerFollows == IInv => OwnAnswer
<1> SUFFICES ASSUME IInv, NEW r \in resps, owner # NoThread, Accepts(r)
             PROVE  effect = r.ans
  BY DEF OwnAnswer
<1>1. r.id = sent
  BY SeqIdentifies DEF IInv, Accepts
<1>2. QED
  BY <1>1 DEF IInv, OneExecution

\* A command's effect leaves the registers well-typed and has an answer.
LEMMA OutcomesType ==
    ASSUME NEW c \in Commands, NEW rs \in [Regs -> Values],
           NEW o \in Outcomes(c, rs)
    PROVE  o[1] \in [Regs -> Values] /\ o[2] \in Answers
<1>1. CASE c.op = "peek"
  <2>1. c.reg \in Regs
    BY DEF Commands, Pokes, Peeks
  <2>2. QED
    BY <1>1, <2>1 DEF Outcomes, Answers
<1>2. CASE c.op # "peek"
  <2>1. c.reg \in Regs /\ c.val \in Values
    BY <1>2 DEF Commands, Pokes, Peeks
  <2>2. QED
    BY <1>2, <2>1 DEF Outcomes, Answers
<1>3. QED
  BY <1>1, <1>2

LEMMA InitEstablishes == Init => IInv
<1> SUFFICES ASSUME Init PROVE IInv
  OBVIOUS
<1>1. TypeOK
  BY ChannelAssumption DEF Init, TypeOK
<1>2. OneInFlight
  BY ChannelSentinels DEF Init, OneInFlight
<1>3. InWindow /\ OneExecution
  BY DEF Init, InWindow, OneExecution
<1>4. QED
  BY <1>1, <1>2, <1>3 DEF IInv

-----------------------------------------------------------------------------
(* Every action preserves the invariant. *)

LEMMA CallStep ==
    ASSUME IInv, NEW t \in Threads, NEW c \in Commands, Call(t, c)
    PROVE  IInv'
<1>1. TypeOK'
  <2>1. pc' \in [Threads -> {"idle", "lock", "wait"}]
    BY DEF IInv, TypeOK, Call
  <2>2. cmd' \in [Threads -> Commands \cup {None}]
    BY DEF IInv, TypeOK, Call
  <2>3. \A u \in Threads : pc'[u] # "idle" => cmd'[u] # None
    BY ChannelSentinels DEF IInv, TypeOK, Call
  <2>4. result' \in [Threads -> Answers \cup {None, Failed}]
    BY DEF IInv, TypeOK, Call
  <2>5. QED
    BY <2>1, <2>2, <2>3, <2>4 DEF IInv, TypeOK, Call, netVars
<1>2. OneInFlight'
  BY DEF IInv, TypeOK, OneInFlight, Call
<1>3. InWindow'
  BY DEF IInv, InWindow, SeqOf, Expected, Call, netVars
<1>4. OneExecution'
  <2>1. owner # NoThread => owner # t
    BY DEF IInv, TypeOK, OneInFlight, Call
  <2>2. QED
    BY <2>1 DEF IInv, TypeOK, OneExecution, Call, netVars
<1>5. QED
  BY <1>1, <1>2, <1>3, <1>4 DEF IInv

\* Sending ages what is in the network by one command.
LEMMA SendStep ==
    ASSUME IInv, NEW t \in Threads, Send(t)
    PROVE  IInv'
<1> DEFINE new == [id |-> sent + 1, seq |-> txSeq, cmd |-> cmd[t]]
<1>1. cmd[t] \in Commands
  BY DEF IInv, TypeOK, Send
<1>2. new \in Requests
  BY <1>1, ChannelAssumption DEF IInv, TypeOK, Requests
<1>3. /\ reqs' = Alive(reqs) \cup {new} /\ resps' = Alive(resps)
      /\ sent' = sent + 1 /\ owner' = t /\ effect' = None
      /\ sent \in Nat /\ txSeq \in 0..(SeqMod - 1)
  BY DEF Send, IInv, TypeOK
<1>4. /\ txSeq' \in 0..(SeqMod - 1)
      /\ Expected' = txSeq
      /\ Expected \in 0..(SeqMod - 1)
  BY <1>3, ChannelAssumption DEF Send, NextSeq, Expected
<1>5. TypeOK'
  <2>1. reqs' \in SUBSET Requests /\ resps' \in SUBSET Responses
    BY <1>2, <1>3 DEF IInv, TypeOK, Alive
  <2>2. pc' \in [Threads -> {"idle", "lock", "wait"}]
    BY DEF IInv, TypeOK, Send
  <2>3. \A u \in Threads : pc'[u] # "idle" => cmd'[u] # None
    BY DEF IInv, TypeOK, Send
  <2>4. QED
    BY <1>3, <1>4, <2>1, <2>2, <2>3 DEF IInv, TypeOK, Send
<1>6. OneInFlight'
  BY <1>3, ChannelSentinels DEF IInv, TypeOK, OneInFlight, Send, MutexFree
<1>7. InWindow'
  <2> SUFFICES ASSUME NEW m \in (reqs \cup resps)'
               PROVE  /\ m.id <= sent' /\ sent' <= m.id + Lifetime
                      /\ m.seq = SeqOf(m.id)'
    BY DEF InWindow
  <2>1. CASE m = new
    BY <2>1, <1>3, <1>4, ChannelAssumption DEF SeqOf
  <2>2. CASE m # new
    <3>1. m \in reqs \cup resps /\ sent + 1 <= m.id + Lifetime
      BY <2>2, <1>3 DEF Alive
    <3>2. m.id \in Nat /\ m.id <= sent /\ m.seq = SeqOf(m.id)
      BY <3>1 DEF IInv, TypeOK, InWindow, Requests, Responses
    <3>3. SeqOf(m.id)' = SeqOf(m.id)
      <4>1. CASE txSeq = 0
        <5>1. Expected = SeqMod - 1
          BY <4>1 DEF Expected
        <5>2. QED
          BY <3>1, <3>2, <4>1, <5>1, <1>3, <1>4, ChannelAssumption DEF SeqOf
      <4>2. CASE txSeq # 0
        <5>1. Expected = txSeq - 1
          BY <4>2 DEF Expected
        <5>2. QED
          BY <3>1, <3>2, <4>2, <5>1, <1>3, <1>4, ChannelAssumption DEF SeqOf
      <4>3. QED
        BY <4>1, <4>2
    <3>4. QED
      BY <3>1, <3>2, <3>3, <1>3, ChannelAssumption
  <2>3. QED
    BY <2>1, <2>2
<1>8. OneExecution'
  <2>1. \A m \in reqs \cup resps : m.id # sent + 1
    BY <1>3 DEF IInv, TypeOK, InWindow, Requests, Responses
  <2>2. \A q \in reqs' : q.id = sent' => q = new
    BY <2>1, <1>3 DEF Alive
  <2>3. \A r \in resps' : r.id # sent'
    BY <2>1, <1>3 DEF Alive
  <2>4. cmd'[owner'] = cmd[t]
    BY <1>3 DEF Send
  <2>5. new.cmd = cmd[t]
    OBVIOUS
  <2>6. QED
    BY <2>2, <2>3, <2>4, <2>5, <1>3 DEF OneExecution
<1>9. QED
  BY <1>5, <1>6, <1>7, <1>8 DEF IInv

\* A caller that leaves, whatever it leaves in the network.
LEMMA LeaveStep ==
    ASSUME IInv, NEW t \in Threads, pc[t] = "wait",
           NEW r \in Answers \cup {Failed}, Leave(t, r),
           resps' \subseteq resps, errors' \in Nat
    PROVE  IInv'
<1>1. TypeOK'
  <2>1. pc' \in [Threads -> {"idle", "lock", "wait"}]
    BY DEF IInv, TypeOK, Leave
  <2>2. \A u \in Threads : pc'[u] # "idle" => cmd'[u] # None
    BY DEF IInv, TypeOK, Leave
  <2>3. result' \in [Threads -> Answers \cup {None, Failed}]
    BY DEF IInv, TypeOK, Leave
  <2>4. QED
    BY <2>1, <2>2, <2>3 DEF IInv, TypeOK, Leave
<1>2. OneInFlight'
  BY ChannelSentinels DEF IInv, TypeOK, OneInFlight, Leave
<1>3. InWindow'
  BY DEF IInv, InWindow, SeqOf, Expected, Leave
<1>4. OneExecution'
  BY DEF OneExecution, Leave
<1>5. QED
  BY <1>1, <1>2, <1>3, <1>4 DEF IInv

\* Datagrams that disappear.
LEMMA LossStep ==
    ASSUME IInv, reqs' \subseteq reqs, resps' \subseteq resps,
           UNCHANGED <<regs, owner, txSeq, pc, cmd, result, sent, effect, errors>>
    PROVE  IInv'
<1>1. TypeOK'
  BY DEF IInv, TypeOK
<1>2. OneInFlight'
  BY DEF IInv, OneInFlight
<1>3. InWindow'
  BY DEF IInv, InWindow, SeqOf, Expected
<1>4. OneExecution'
  BY DEF IInv, OneExecution
<1>5. QED
  BY <1>1, <1>2, <1>3, <1>4 DEF IInv

LEMMA HandleStep ==
    ASSUME IInv, NEW q \in reqs, Handle(q)
    PROVE  IInv'
<1> PICK o \in Outcomes(q.cmd, regs), kind \in Replies :
        /\ regs' = o[1]
        /\ resps' = resps \cup {[id |-> q.id, seq |-> q.seq, kind |-> kind, ans |-> o[2]]}
        /\ effect' = IF Current(q) THEN o[2] ELSE effect
  BY DEF Handle
<1> DEFINE resp == [id |-> q.id, seq |-> q.seq, kind |-> kind, ans |-> o[2]]
<1>1. q.id \in Nat /\ q.seq \in Nat /\ q.cmd \in Commands
  BY DEF IInv, TypeOK, Requests
<1>2. o[1] \in [Regs -> Values] /\ o[2] \in Answers
  BY <1>1, OutcomesType DEF IInv, TypeOK
<1>3. /\ reqs' = reqs \ {q}
      /\ UNCHANGED <<owner, txSeq, pc, cmd, result, sent, errors>>
  BY DEF Handle
<1>4. TypeOK'
  <2>1. resp \in Responses
    BY <1>1, <1>2 DEF Responses
  <2>2. resps' \in SUBSET Responses
    BY <2>1 DEF IInv, TypeOK
  <2>3. effect' \in Answers \cup {None}
    BY <1>2 DEF IInv, TypeOK
  <2>4. QED
    BY <1>2, <1>3, <2>2, <2>3 DEF IInv, TypeOK
<1>5. OneInFlight'
  BY <1>3 DEF IInv, OneInFlight
<1>6. InWindow'
  <2>1. q.id <= sent /\ sent <= q.id + Lifetime /\ q.seq = SeqOf(q.id)
    BY DEF IInv, InWindow
  <2>2. \A n : SeqOf(n)' = SeqOf(n)
    BY <1>3 DEF SeqOf, Expected
  <2>3. resp.id = q.id /\ resp.seq = q.seq
    OBVIOUS
  <2>4. \A m \in (reqs \cup resps)' : m \in reqs \cup resps \/ m = resp
    BY <1>3
  <2>5. QED
    BY <2>1, <2>2, <2>3, <2>4, <1>3 DEF IInv, InWindow
<1>7. OneExecution'
  <2> SUFFICES ASSUME owner # NoThread
               PROVE  /\ \A p \in reqs' : p.id = sent => effect' = None /\ p.cmd = cmd[owner]
                      /\ \A r \in resps' : r.id = sent => effect' = r.ans
                      /\ \A p, p2 \in reqs' : p.id = sent /\ p2.id = sent => p = p2
    BY <1>3 DEF OneExecution
  <2>1. CASE q.id = sent
    <3>1. Current(q) /\ effect' = o[2]
      BY <2>1 DEF Current
    <3>2. \A p \in reqs' : p.id # sent
      BY <2>1, <1>3 DEF IInv, OneExecution
    <3>3. effect = None
      BY <2>1 DEF IInv, OneExecution
    <3>4. \A r \in resps : r.id # sent
      <4>1. \A r \in resps : r.ans # None
        BY ChannelSentinels DEF IInv, TypeOK, Responses
      <4>2. QED
        BY <3>3, <4>1 DEF IInv, OneExecution
    <3>5. resp.ans = o[2]
      OBVIOUS
    <3>6. QED
      BY <3>1, <3>2, <3>4, <3>5
  <2>2. CASE q.id # sent
    <3>1. effect' = effect
      BY <2>2 DEF Current
    <3>2. resp.id # sent
      BY <2>2
    <3>3. \A r \in resps' : r \in resps \/ r = resp
      OBVIOUS
    <3>4. QED
      BY <3>1, <3>2, <3>3, <1>3 DEF IInv, OneExecution
  <2>3. QED
    BY <2>1, <2>2
<1>8. QED
  BY <1>4, <1>5, <1>6, <1>7 DEF IInv

\* The strengthening behind OwnAnswer and the refinement is inductive.
THEOREM InductiveInvariant == Spec => []IInv
<1>1. Init => IInv
  BY InitEstablishes
<1>2. IInv /\ [Next]_vars => IInv'
  <2> SUFFICES ASSUME IInv, [Next]_vars PROVE IInv'
    OBVIOUS
  <2>1. CASE UNCHANGED vars
    BY <2>1, LossStep DEF vars, netVars
  <2>2. ASSUME NEW t \in Threads, NEW c \in Commands, Call(t, c) PROVE IInv'
    BY <2>2, CallStep
  <2>3. ASSUME NEW t \in Threads, Send(t) PROVE IInv'
    BY <2>3, SendStep
  <2>4. ASSUME NEW t \in Threads, Skip(t) PROVE IInv'
    BY <2>4, LossStep DEF Skip
  <2>5. ASSUME NEW t \in Threads, Accept(t) PROVE IInv'
    <3>1. PICK r \in resps : Accepts(r) /\ resps' = resps \ {r} /\ Leave(t, r.ans)
      BY <2>5 DEF Accept
    <3>2. r.ans \in Answers
      BY DEF IInv, TypeOK, Responses
    <3>3. pc[t] = "wait" /\ errors' \in Nat
      BY <2>5 DEF Accept, Receiving, IInv, TypeOK
    <3>4. QED
      BY <3>1, <3>2, <3>3, LeaveStep
  <2>6. ASSUME NEW t \in Threads, Timeout(t) PROVE IInv'
    <3>1. pc[t] = "wait" /\ errors' \in Nat /\ Leave(t, Failed) /\ resps' = resps
      BY <2>6 DEF Timeout, IInv, TypeOK
    <3>2. QED
      BY <3>1, LeaveStep
  <2>7. ASSUME NEW t \in Threads, RecvError(t) PROVE IInv'
    <3>1. pc[t] = "wait" /\ errors' \in Nat /\ Leave(t, Failed) /\ resps' = resps
      BY <2>7 DEF RecvError, Receiving, IInv, TypeOK
    <3>2. QED
      BY <3>1, LeaveStep
  <2>8. ASSUME NEW q \in reqs, Handle(q) PROVE IInv'
    BY <2>8, HandleStep
  <2>9. ASSUME NEW q \in reqs, LoseRequest(q) PROVE IInv'
    BY <2>9, LossStep DEF LoseRequest
  <2>10. ASSUME NEW r \in resps, LoseResponse(r) PROVE IInv'
    BY <2>10, LossStep DEF LoseResponse
  <2>11. QED
    BY <2>1, <2>2, <2>3, <2>4, <2>5, <2>6, <2>7, <2>8, <2>9, <2>10 DEF Next, Caller
<1>3. QED
  BY <1>1, <1>2, PTL DEF Spec

\* Every variable of the control channel keeps its type.
THEOREM TypeCorrect == Spec => []TypeOK
<1>1. IInv => TypeOK
  BY DEF IInv
<1>2. QED
  BY <1>1, InductiveInvariant, PTL

\* wait_for_ack takes no other command's answer for its own.
THEOREM AcceptedAnswerIsOwn == Spec => []OwnAnswer
<1>1. QED
  BY OwnAnswerFollows, InductiveInvariant, PTL

-----------------------------------------------------------------------------
(* The refinement: every step of the channel is one of the bus, or none. *)

\* The state of the bus that a state of the channel stands for.
pendBar == [t \in Threads |-> IF pc[t] = "idle" THEN None ELSE cmd[t]]
answerBar == [t \in Threads |-> IF owner = t THEN effect ELSE None]
doubtBar == {q.cmd : q \in {p \in reqs : ~Current(p) /\ p.cmd.op = "poke"}}
busBar == <<regs, pendBar, answerBar, result, doubtBar>>

LEMMA InitRefines == Init => Bus!Init
<1> SUFFICES ASSUME Init PROVE Bus!Init
  OBVIOUS
<1>1. pendBar = [t \in Threads |-> None]
  BY DEF Init, pendBar
<1>2. answerBar = [t \in Threads |-> None]
  BY ChannelSentinels DEF Init, answerBar
<1>3. doubtBar = {}
  BY DEF Init, doubtBar
<1>4. QED
  BY <1>1, <1>2, <1>3 DEF Init, Bus!Init, pendBar, answerBar, doubtBar

LEMMA CallRefines ==
    ASSUME IInv, NEW t \in Threads, NEW c \in Commands, Call(t, c)
    PROVE  Bus!Begin(t, c)
<1>1. owner # t
  BY DEF IInv, TypeOK, OneInFlight, Call
<1>2. pendBar[t] = None
  BY DEF pendBar, Call
<1>3. pendBar' = [pendBar EXCEPT ![t] = c]
  BY ChannelSentinels DEF pendBar, Call, IInv, TypeOK
<1>4. answerBar' = [answerBar EXCEPT ![t] = None]
  BY <1>1 DEF answerBar, Call
<1>5. doubtBar' = doubtBar
  BY DEF doubtBar, Current, Call, netVars
<1>6. result' = [result EXCEPT ![t] = None] /\ regs' = regs
  BY DEF Call
<1>7. QED
  BY <1>2, <1>3, <1>4, <1>5, <1>6 DEF Bus!Begin, pendBar, answerBar, doubtBar

\* Nothing but the set of doubtful writes changes, and that shrinks.
LEMMA ForgetRefines ==
    ASSUME pendBar' = pendBar, answerBar' = answerBar,
           UNCHANGED <<regs, result>>, doubtBar' \subseteq doubtBar
    PROVE  Bus!Forget
BY DEF Bus!Forget, pendBar, answerBar, doubtBar

LEMMA SendRefines ==
    ASSUME IInv, NEW t \in Threads, Send(t)
    PROVE  Bus!Forget
<1>1. pendBar' = pendBar
  BY DEF pendBar, Send, IInv, TypeOK
<1>2. answerBar' = answerBar
  BY ChannelSentinels DEF answerBar, Send, MutexFree, IInv, TypeOK
<1>3. doubtBar' \subseteq doubtBar
  <2>1. \A p \in reqs' : ~Current(p)' => p \in reqs
    BY ChannelSentinels DEF Send, Alive, Current
  <2>2. \A p \in reqs : ~Current(p)
    BY DEF Send, MutexFree, Current
  <2>3. QED
    BY <2>1, <2>2 DEF doubtBar
<1>4. QED
  BY <1>1, <1>2, <1>3, ForgetRefines DEF Send

LEMMA LossRefines ==
    ASSUME reqs' \subseteq reqs,
           UNCHANGED <<regs, owner, pc, cmd, result, sent, effect>>
    PROVE  Bus!Forget
<1>1. pendBar' = pendBar /\ answerBar' = answerBar
  BY DEF pendBar, answerBar
<1>2. doubtBar' \subseteq doubtBar
  BY DEF doubtBar, Current
<1>3. QED
  BY <1>1, <1>2, ForgetRefines

LEMMA LeaveMaps ==
    ASSUME IInv, NEW t \in Threads, NEW r, pc[t] = "wait", Leave(t, r)
    PROVE  /\ pendBar[t] = cmd[t] /\ cmd[t] \in Commands /\ cmd[t] # None
           /\ answerBar[t] = effect
           /\ pendBar' = [pendBar EXCEPT ![t] = None]
           /\ answerBar' = [answerBar EXCEPT ![t] = None]
           /\ result' = [result EXCEPT ![t] = r] /\ regs' = regs
           /\ owner = t /\ owner' = NoThread /\ reqs' = reqs
<1>1. owner = t /\ owner' = NoThread /\ reqs' = reqs
  BY DEF IInv, OneInFlight, Leave
<1>2. cmd[t] \in Commands /\ cmd[t] # None
  BY DEF IInv, TypeOK
<1>3. pendBar[t] = cmd[t] /\ answerBar[t] = effect
  BY <1>1 DEF pendBar, answerBar
<1>4. pendBar' = [pendBar EXCEPT ![t] = None]
  BY DEF pendBar, Leave, IInv, TypeOK
<1>5. answerBar' = [answerBar EXCEPT ![t] = None]
  BY <1>1, ChannelSentinels DEF answerBar
<1>6. QED
  BY <1>1, <1>2, <1>3, <1>4, <1>5 DEF Leave

LEMMA AcceptRefines ==
    ASSUME IInv, NEW t \in Threads, Accept(t)
    PROVE  Bus!Finish(t)
<1>1. PICK r \in resps : Accepts(r) /\ Leave(t, r.ans)
  BY DEF Accept
<1>2. pc[t] = "wait"
  BY DEF Accept, Receiving
<1>3. owner = t /\ t # NoThread
  BY <1>2, ChannelSentinels DEF IInv, OneInFlight
<1>4. effect = r.ans /\ r.ans # None
  BY <1>1, <1>3, OwnAnswerFollows, ChannelSentinels DEF OwnAnswer, IInv, TypeOK, Responses
<1>5. r.id = sent
  BY <1>1, SeqIdentifies DEF IInv, Accepts
<1>6. doubtBar' = doubtBar
  <2>1. \A p \in reqs : p.id # sent
    BY <1>3, <1>4 DEF IInv, OneExecution
  <2>2. reqs' = reqs /\ sent' = sent
    BY <1>1 DEF Leave
  <2>3. QED
    BY <2>1, <2>2 DEF doubtBar, Current
<1>7. QED
  BY <1>1, <1>2, <1>4, <1>6, LeaveMaps DEF Bus!Finish, pendBar, answerBar, doubtBar

\* The request of a command given up may still be in the network.
LEMMA AbandonRefines ==
    ASSUME IInv, NEW t \in Threads, pc[t] = "wait", Leave(t, Failed)
    PROVE  Bus!Abandon(t)
<1>1. /\ pendBar[t] = cmd[t] /\ cmd[t] \in Commands /\ cmd[t] # None
      /\ answerBar[t] = effect
      /\ pendBar' = [pendBar EXCEPT ![t] = None]
      /\ answerBar' = [answerBar EXCEPT ![t] = None]
      /\ result' = [result EXCEPT ![t] = Failed] /\ regs' = regs
      /\ owner = t /\ owner' = NoThread /\ reqs' = reqs /\ t # NoThread
  BY LeaveMaps, ChannelSentinels
<1>2. \A p \in reqs : Current(p) => p.cmd = cmd[t] /\ effect = None
  BY <1>1 DEF IInv, OneExecution, Current
<1>3. CASE \E p \in reqs : Current(p) /\ p.cmd.op = "poke"
  <2>1. cmd[t].op = "poke" /\ effect = None
    BY <1>2, <1>3
  <2>2. doubtBar' = doubtBar \cup {cmd[t]}
    BY <1>1, <1>2, <1>3 DEF doubtBar, Current
  <2>3. QED
    BY <1>1, <2>1, <2>2 DEF Bus!Abandon, pendBar, answerBar, doubtBar
<1>4. CASE ~ \E p \in reqs : Current(p) /\ p.cmd.op = "poke"
  <2>1. doubtBar' = doubtBar
    BY <1>1, <1>4 DEF doubtBar, Current
  <2>2. QED
    BY <1>1, <2>1 DEF Bus!Abandon, pendBar, answerBar, doubtBar
<1>5. QED
  BY <1>3, <1>4

LEMMA HandleRefines ==
    ASSUME IInv, NEW q \in reqs, Handle(q)
    PROVE  Bus!Next \/ UNCHANGED busBar
<1> PICK o \in Outcomes(q.cmd, regs) :
        regs' = o[1] /\ effect' = IF Current(q) THEN o[2] ELSE effect
  BY DEF Handle
<1>1. /\ reqs' = reqs \ {q}
      /\ UNCHANGED <<owner, pc, cmd, result, sent>>
  BY DEF Handle
<1>2. pendBar' = pendBar
  BY <1>1 DEF pendBar
<1>3. \A p : Current(p)' <=> Current(p)
  BY <1>1 DEF Current
<1>4. CASE Current(q)
  <2>1. PICK t \in Threads : t = owner /\ t # NoThread /\ q.id = sent
    BY <1>4 DEF Current, IInv, TypeOK
  <2>2. q.cmd = cmd[t] /\ effect = None
    BY <2>1 DEF IInv, OneExecution
  <2>3. pc[t] = "wait" /\ cmd[t] # None
    BY <2>1 DEF IInv, OneInFlight, TypeOK
  <2>4. pendBar[t] = q.cmd /\ pendBar[t] # None /\ answerBar[t] = None
    BY <2>1, <2>2, <2>3 DEF pendBar, answerBar
  <2>5. answerBar' = [answerBar EXCEPT ![t] = o[2]]
    BY <1>1, <1>4, <2>1 DEF answerBar
  <2>6. doubtBar' = doubtBar
    BY <1>1, <1>3, <1>4 DEF doubtBar
  <2>7. o \in Bus!Outcomes(pendBar[t], regs)
    BY <2>4 DEF Outcomes, Bus!Outcomes
  <2>8. Bus!Effect(t)
    BY <1>1, <1>2, <2>4, <2>5, <2>6, <2>7 DEF Bus!Effect, pendBar, answerBar, doubtBar
  <2>9. QED
    BY <2>1, <2>8 DEF Bus!Next
<1>5. CASE ~Current(q)
  <2>1. answerBar' = answerBar
    BY <1>1, <1>5 DEF answerBar
  <2>2. CASE q.cmd.op = "poke"
    <3>1. q.cmd \in doubtBar
      BY <1>5, <2>2 DEF doubtBar
    <3>2. doubtBar' = doubtBar \/ doubtBar' = doubtBar \ {q.cmd}
      <4>1. doubtBar \ {q.cmd} \subseteq doubtBar'
        BY <1>1, <1>3 DEF doubtBar
      <4>2. doubtBar' \subseteq doubtBar
        BY <1>1, <1>3 DEF doubtBar
      <4>3. QED
        BY <4>1, <4>2
    <3>3. o \in Bus!Outcomes(q.cmd, regs)
      BY DEF Outcomes, Bus!Outcomes
    <3>4. Bus!LateEffect(q.cmd)
      BY <1>1, <1>2, <2>1, <3>1, <3>2, <3>3 DEF Bus!LateEffect, pendBar, answerBar, doubtBar
    <3>5. QED
      BY <3>1, <3>4 DEF Bus!Next, doubtBar
  <2>3. CASE q.cmd.op # "poke"
    <3>1. q.cmd.op = "peek"
      BY <2>3 DEF IInv, TypeOK, Requests, Commands, Pokes, Peeks
    <3>2. regs' = regs
      BY <3>1 DEF Outcomes
    <3>3. doubtBar' = doubtBar
      BY <1>1, <1>3, <2>3 DEF doubtBar
    <3>4. QED
      BY <1>1, <1>2, <2>1, <3>2, <3>3 DEF busBar
  <2>4. QED
    BY <2>2, <2>3
<1>6. QED
  BY <1>4, <1>5

\* The control channel implements the register bus: a command that returns
\* took effect once, while it was pending, with the answer it returns.
THEOREM ChannelImplementsBus == Spec => ImplementsBus
<1>1. Init => Bus!Init
  BY InitRefines
<1>2. IInv /\ [Next]_vars => [Bus!Next]_busBar
  <2> SUFFICES ASSUME IInv, [Next]_vars PROVE Bus!Next \/ UNCHANGED busBar
    OBVIOUS
  <2>1. CASE UNCHANGED vars
    BY <2>1 DEF vars, netVars, busBar, pendBar, answerBar, doubtBar, Current
  <2>2. ASSUME NEW t \in Threads, NEW c \in Commands, Call(t, c) PROVE Bus!Next
    <3>1. c \in Bus!Commands /\ Bus!Begin(t, c)
      BY <2>2, CallRefines
      DEF Commands, Pokes, Peeks, Bus!Commands, Bus!Pokes, Bus!Peeks
    <3>2. QED
      BY <3>1 DEF Bus!Next
  <2>3. ASSUME NEW t \in Threads, Send(t) PROVE Bus!Next
    BY <2>3, SendRefines DEF Bus!Next
  <2>4. ASSUME NEW t \in Threads, Skip(t) PROVE Bus!Next
    BY <2>4, LossRefines DEF Bus!Next, Skip
  <2>5. ASSUME NEW t \in Threads, Accept(t) PROVE Bus!Next
    BY <2>5, AcceptRefines DEF Bus!Next
  <2>6. ASSUME NEW t \in Threads, Timeout(t) PROVE Bus!Next
    BY <2>6, AbandonRefines DEF Bus!Next, Timeout
  <2>7. ASSUME NEW t \in Threads, RecvError(t) PROVE Bus!Next
    BY <2>7, AbandonRefines DEF Bus!Next, RecvError, Receiving
  <2>8. ASSUME NEW q \in reqs, Handle(q) PROVE Bus!Next \/ UNCHANGED busBar
    BY <2>8, HandleRefines
  <2>9. ASSUME NEW q \in reqs, LoseRequest(q) PROVE Bus!Next
    BY <2>9, LossRefines DEF Bus!Next, LoseRequest
  <2>10. ASSUME NEW r \in resps, LoseResponse(r) PROVE Bus!Next
    BY <2>10, LossRefines DEF Bus!Next, LoseResponse
  <2>11. QED
    BY <2>1, <2>2, <2>3, <2>4, <2>5, <2>6, <2>7, <2>8, <2>9, <2>10 DEF Next, Caller
<1>3. IInv /\ [Next]_vars => [Bus!Next]_(Bus!busVars)
  BY <1>2 DEF Bus!busVars, busBar, pendBar, answerBar, doubtBar
<1>4. QED
  BY <1>1, <1>3, InductiveInvariant, PTL DEF Spec, ImplementsBus, Bus!Spec
=============================================================================
