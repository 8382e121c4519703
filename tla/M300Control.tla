---------------------------- MODULE M300Control ----------------------------
(***************************************************************************)
(* The control channel of one M300 and the processes that use it: the      *)
(* access lease, the discovery probe, the commands.  Sources:              *)
(* src/driver/device.cpp (acquire_device_access, makeDevice),              *)
(* src/driver/M300/m300_xdma_discovery.cpp (probe_m300_xdma),              *)
(* src/driver/M300/m300_xdma_impl.cpp (constructor),                       *)
(* src/driver/M300/m300_xdma_ctrl.cpp (send_command, wait_for_response).   *)
(*                                                                         *)
(* The device executes requests in order and answers in order; an answer   *)
(* is matched by its sequence number only, and the answers wait in the     *)
(* kernel for whoever reads first, in whatever process.                    *)
(***************************************************************************)
EXTENDS Naturals, Sequences

CONSTANTS
    Procs,          \* the host processes
    Nobody,         \* no process
    SeqValues,      \* values of _seq (2^16)
    MaxRequests,    \* bound: requests sent
    MaxLost         \* bound: requests lost or refused, processes that die

ASSUME ControlAssumption ==
    /\ Nobody \notin Procs /\ SeqValues \in Nat \ {0}
    /\ MaxRequests \in Nat /\ MaxLost \in Nat

VARIABLES
    ppc,        \* where each process is: "out", "probing", "probed", "opening",
                \* "idle", "waiting"
    lease,      \* the owner of the device's lock file
    seq,        \* _seq of each process
    mine,       \* the request each process waits for
    log,        \* every request: its process, session, number; and the request
                \* whose answer it returned, zero if it did not return
    requests,   \* requests on their way to the device
    answers,    \* answers that wait in the kernel
    sessions,   \* leases granted so far
    stolen,     \* an answer of the lease's owner was read by another process
    lost        \* bound: lost and refused requests, dead processes

controlVars == <<ppc, lease, seq, mine, log, requests, answers, sessions, stolen, lost>>

ControlInit ==
    /\ ppc = [p \in Procs |-> "out"] /\ lease = Nobody
    /\ seq = [p \in Procs |-> 0] /\ mine = [p \in Procs |-> 0]
    /\ log = <<>> /\ requests = <<>> /\ answers = <<>>
    /\ sessions = 0 /\ stolen = FALSE /\ lost = 0

Move(p, place) == ppc' = [ppc EXCEPT ![p] = place]
Returns(p, d) == log' = [log EXCEPT ![mine[p]].answer = d]

\* A request is written to h2c_0; a failed write is not noticed.
SendRequest(p, kind, s) ==
    LET n == Len(log) + 1 IN
    /\ n <= MaxRequests
    /\ log' = Append(log, [by |-> p, kind |-> kind, seq |-> s,
                           session |-> sessions, answer |-> 0])
    /\ mine' = [mine EXCEPT ![p] = n]
    /\ \/ requests' = Append(requests, n) /\ UNCHANGED lost
       \/ lost < MaxLost /\ lost' = lost + 1 /\ UNCHANGED requests

-----------------------------------------------------------------------------
(* makeDevice: the probe, then the constructor with the lease *)

\* probe_m300_xdma opens the channels and sends DISCOVER, without the lease.
Probe(p) ==
    /\ ppc[p] = "out" /\ SendRequest(p, "discover", 0) /\ Move(p, "probing")
    /\ UNCHANGED <<lease, seq, answers, sessions, stolen>>

\* It reads one answer, whosever it is; only its own will do.
ProbeRead(p) ==
    /\ ppc[p] = "probing" /\ answers # <<>>
    /\ LET a == Head(answers) IN
       /\ answers' = Tail(answers)
       /\ Move(p, IF a.of = mine[p] /\ a.ok THEN "probed" ELSE "out")
       /\ stolen' = (stolen \/ (lease # Nobody /\ lease # p /\ log[a.of].by = lease))
    /\ UNCHANGED <<lease, seq, mine, log, requests, sessions, lost>>

ProbeTimeout(p) ==
    /\ ppc[p] = "probing" /\ Move(p, "out")
    /\ UNCHANGED <<lease, seq, mine, log, requests, answers, sessions, stolen, lost>>

\* Mutant: the lock file is opened but not locked.
NotLocked(p) == TRUE
\* flock(LOCK_EX | LOCK_NB) on the device's lock file succeeds.
LeaseFree(p) == lease = Nobody

\* M300XdmaImpl: the lease first, then the channels; _seq begins at zero.  What
\* the constructor asks the device decides whether the device is returned.
Construct(p) ==
    /\ ppc[p] = "probed" /\ LeaseFree(p)
    /\ lease' = p /\ seq' = [seq EXCEPT ![p] = 0]
    /\ sessions' = sessions + 1 /\ Move(p, "opening")
    /\ UNCHANGED <<mine, log, requests, answers, stolen, lost>>

\* The lock is taken: the constructor throws.
Rejected(p) ==
    /\ ppc[p] = "probed" /\ ~LeaseFree(p) /\ Move(p, "out")
    /\ UNCHANGED <<lease, seq, mine, log, requests, answers, sessions, stolen, lost>>

Freed(p) == lease' = IF lease = p THEN Nobody ELSE lease

\* The device object is destroyed, or its process dies: the kernel drops the
\* lock in both cases.  Requests and answers under way are left behind.
Close(p) ==
    /\ ppc[p] \in {"opening", "idle"} /\ Freed(p) /\ Move(p, "out")
    /\ UNCHANGED <<seq, mine, log, requests, answers, sessions, stolen, lost>>
Die(p) ==
    /\ ppc[p] # "out" /\ lost < MaxLost /\ lost' = lost + 1
    /\ Freed(p) /\ Move(p, "out")
    /\ UNCHANGED <<seq, mine, log, requests, answers, sessions, stolen>>

-----------------------------------------------------------------------------
(* send_command, under _command_mutex *)

SendCommand(p) ==
    /\ ppc[p] \in {"opening", "idle"}
    /\ SendRequest(p, IF ppc[p] = "opening" THEN "version" ELSE "command", seq[p])
    /\ Move(p, "waiting")
    /\ UNCHANGED <<lease, seq, answers, sessions, stolen>>

\* Mutant: any response packet will do.
AnyAnswer(p, a) == log[a.of].kind # "discover"
\* wait_for_response compares the sequence number and the stream id.
Matches(p, a) == log[a.of].kind # "discover" /\ log[a.of].seq = seq[p]

\* Mutant: the number of a command is used again.
SameSeq(p) == UNCHANGED seq
\* Only a command that returns advances the number.
NextSeq(p) == seq' = [seq EXCEPT ![p] = (@ + 1) % SeqValues]

\* A command that throws: get_version ends the construction, the other ones
\* are up to the caller.
Throws(p) ==
    /\ UNCHANGED <<seq, log>>
    /\ IF log[mine[p]].kind = "version" THEN Move(p, "out") /\ Freed(p)
       ELSE Move(p, "idle") /\ UNCHANGED lease

\* The next answer: another one is dropped, an error is thrown.
TakeAnswer(p) ==
    /\ ppc[p] = "waiting" /\ answers # <<>>
    /\ answers' = Tail(answers)
    /\ LET a == Head(answers) IN
       \/ ~Matches(p, a) /\ UNCHANGED <<ppc, lease, seq, log>>
       \/ Matches(p, a) /\ ~a.ok /\ Throws(p)
       \/ /\ Matches(p, a) /\ a.ok
          /\ Returns(p, a.of) /\ NextSeq(p)
          /\ Move(p, "idle") /\ UNCHANGED lease
    /\ UNCHANGED <<mine, requests, sessions, stolen, lost>>

\* One second is over.
CommandTimeout(p) ==
    /\ ppc[p] = "waiting" /\ Throws(p)
    /\ UNCHANGED <<mine, requests, answers, sessions, stolen, lost>>

-----------------------------------------------------------------------------
(* the device *)

Answer ==
    /\ requests # <<>> /\ requests' = Tail(requests)
    /\ \E ok \in BOOLEAN:
          /\ answers' = Append(answers, [of |-> Head(requests), ok |-> ok])
          /\ IF ok THEN UNCHANGED lost ELSE lost < MaxLost /\ lost' = lost + 1
    /\ UNCHANGED <<ppc, lease, seq, mine, log, sessions, stolen>>

ControlStep(p) ==
    \/ Probe(p) \/ ProbeRead(p) \/ ProbeTimeout(p) \/ Construct(p) \/ Rejected(p)
    \/ Close(p) \/ Die(p) \/ SendCommand(p) \/ TakeAnswer(p) \/ CommandTimeout(p)

ControlNext == Answer \/ \E p \in Procs: ControlStep(p)

ControlSpec == ControlInit /\ [][ControlNext]_controlVars

-----------------------------------------------------------------------------
(* properties *)

Inside == {"opening", "idle", "waiting"}

ControlTypeOK ==
    /\ ppc \in [Procs -> Inside \cup {"out", "probing", "probed"}]
    /\ lease \in Procs \cup {Nobody}
    /\ seq \in [Procs -> 0..(SeqValues - 1)]
    /\ mine \in [Procs -> 0..Len(log)]
    /\ \A i \in 1..Len(requests): requests[i] \in 1..Len(log)
    /\ \A i \in 1..Len(answers): answers[i].of \in 1..Len(log)
    /\ \A i \in 1..Len(log): log[i].answer \in 0..Len(log)
    /\ stolen \in BOOLEAN /\ lost \in 0..MaxLost

\* The lease of device.cpp: at any time at most one process has the device
\* open, and it is the one that holds the lock, whoever died before.
OneOwner == \A p \in Procs: ppc[p] \in Inside <=> lease = p

Returned(c) == log[c].answer # 0

\* A command may return the answer of an earlier one, because a command that
\* timed out leaves its number to the next.  But then that earlier command was
\* reported as failed, and no command between the two returned: one wrong
\* answer never shifts all the later ones.  Or it was an earlier owner's, and
\* this owner has had no answer of its own yet.
StaleAnswerBounded ==
    \A c \in 1..Len(log):
        LET d == log[c].answer
            Before == {e \in 1..(c - 1): Returned(e) /\ log[e].session = log[c].session}
        IN  Returned(c) /\ d # c =>
              /\ d < c
              /\ log[d].session = log[c].session => ~Returned(d) /\ \A e \in Before: e < d
              /\ log[d].session # log[c].session =>
                    \A e \in Before: log[log[e].answer].session # log[c].session

\* The comment of acquire_device_access: the lock comes before any command, so
\* a process that is rejected cannot disturb the owner of the device.
RejectedIsHarmless == ~stolen
=============================================================================
