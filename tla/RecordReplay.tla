---------------------------- MODULE RecordReplay ----------------------------
(***************************************************************************)
(* Reading a recording out of an E-series device and uploading a waveform  *)
(* to it, chunk by chunk: a command over the control bus, data over the    *)
(* record port.  Sources: src/driver/E200/e200_impl.cpp and, for the       *)
(* protocol with commands and data on the record port,                     *)
(* src/driver/E100/e100_impl.cpp.  A unit stands for a packet's payload.   *)
(*                                                                         *)
(* The device answers READ_NEXT with the size of the next chunk and sends  *)
(* it; it answers WRITE_NEXT when it has received as much as it was told.  *)
(* Datagrams may be lost or come late, but not overtake each other.        *)
(***************************************************************************)
EXTENDS Naturals, Sequences

CONSTANTS
    Total,          \* units of a recording or waveform
    Block,          \* units of a chunk
    MaxJobs,        \* bound: calls of the program
    MaxLosses       \* bound: datagrams lost, answers given up

ASSUME TransferAssumption ==
    /\ Total \in Nat \ {0} /\ Block \in Nat \ {0}
    /\ MaxJobs \in Nat /\ MaxLosses \in Nat

VARIABLES
    job,        \* the call: "idle", "request", "ack", "data" of a read,
                \* "offset", "send", "commit", "await" of an upload; what it has so
                \* far and wants of this chunk, and the answer it waits for
    inbox,      \* datagrams on their way to the record port's socket
    acks,       \* answers on their way to the control bus's socket
    lastSeq,    \* number of the last command on the control bus, _tx_seq - 1
    box,        \* the device: whether it is an E100, whose commands and data share
                \* the record port; its recording and offsets, the upload it awaits
    memory,     \* the device's waveform memory
    outcome,    \* the last call that returned: what, whether exactly, and excuse
    excuse,     \* history: datagrams of an earlier call, or another thread's
                \* command, met this one
    spent       \* bounds

transferVars == <<job, inbox, acks, lastSeq, box, memory, outcome, excuse, spent>>

NoJob == [at |-> "idle", have |-> <<>>, want |-> 0, size |-> 0, place |-> 0, seq |-> 0]
Joined == box.onePort
NothingYet == [call |-> "none", exact |-> TRUE, met |-> FALSE]

TransferInit ==
    /\ job = NoJob /\ inbox = <<>> /\ acks = <<>> /\ lastSeq = 0
    /\ \E onePort \in BOOLEAN:
        box = [onePort |-> onePort, take |-> 0, readAt |-> 0, writeAt |-> 0, upload |-> 0,
               got |-> 0, seq |-> 0]
    /\ memory = [i \in 1..Total |-> 0]
    /\ outcome = NothingYet /\ excuse = FALSE /\ spent = [jobs |-> 0, faults |-> 0]

Trouble == spent.faults < MaxLosses /\ spent' = [spent EXCEPT !.faults = @ + 1]
Lesser(a, b) == IF a < b THEN a ELSE b
\* A call ends with an exception: the datagrams it waited for stay behind.
Throw == job' = NoJob /\ UNCHANGED outcome
Go(to) == job' = [job EXCEPT !.at = to]

\* A command with the next number on the bus the protocol uses for it.
Answer(seq, value) == [kind |-> "ack", seq |-> seq, value |-> value]
ToHost(ack, data) ==
    IF Joined THEN inbox' = inbox \o <<ack>> \o data /\ UNCHANGED acks
    ELSE inbox' = inbox \o data /\ acks' = Append(acks, ack)

-----------------------------------------------------------------------------
(* read_iq_record_all, read_iq_record_chunk *)

\* start_iq_record: the device records anew and rewinds its offset.
StartRecord ==
    /\ job.at = "idle" /\ spent.jobs < MaxJobs
    /\ spent' = [spent EXCEPT !.jobs = @ + 1]
    /\ box' = [box EXCEPT !.take = @ + 1, !.readAt = 0]
    /\ UNCHANGED <<job, inbox, acks, lastSeq, memory, outcome, excuse>>

ReadAll ==
    /\ job.at = "idle" /\ box.take > 0 /\ spent.jobs < MaxJobs
    /\ spent' = [spent EXCEPT !.jobs = @ + 1]
    /\ job' = [NoJob EXCEPT !.at = "request"]
    /\ excuse' = (inbox # <<>>)
    /\ UNCHANGED <<inbox, acks, lastSeq, box, memory, outcome>>

\* READ_NEXT: the device answers with the chunk's size and sends the chunk, or
\* the request is lost.
ReadNext ==
    LET n == Lesser(Block, Total - box.readAt)
        data == [i \in 1..n |-> [kind |-> "iq", take |-> box.take, unit |-> box.readAt + i]]
    IN  /\ job.at = "request"
        /\ job' = [job EXCEPT !.at = "ack", !.seq = lastSeq + 1]
        /\ lastSeq' = lastSeq + 1
        /\ \/ /\ ToHost(Answer(lastSeq + 1, n), data)
              /\ box' = [box EXCEPT !.readAt = @ + n] /\ UNCHANGED spent
           \/ Trouble /\ UNCHANGED <<inbox, acks, box>>
        /\ UNCHANGED <<memory, outcome, excuse>>

\* wait_for_ack takes the next datagram of its bus and drops what is not the
\* answer it waits for; on the record port that may be data.
Received == IF Joined THEN inbox ELSE acks
Receive ==
    IF Joined THEN inbox' = Tail(inbox) /\ UNCHANGED acks
    ELSE acks' = Tail(acks) /\ UNCHANGED inbox
\* Mutant: the number of the answer is not compared.
AnyAnswer(d) == d.kind = "ack"
IsAnswer(d) == d.kind = "ack" /\ d.seq = job.seq

\* A chunk of no data ends the recording too early; one that is larger than
\* the destination is refused.
ReadAnswer ==
    /\ job.at = "ack" /\ Received # <<>> /\ Receive
    /\ LET d == Head(Received) IN
       IF ~IsAnswer(d) THEN UNCHANGED job
       ELSE IF d.value = 0 \/ Len(job.have) + d.value > Total THEN job' = NoJob
       ELSE job' = [job EXCEPT !.at = "data", !.want = Len(job.have) + d.value]
    /\ UNCHANGED <<lastSeq, box, memory, outcome, excuse, spent>>

\* The chunk is there: the next one, or read_iq_record_all returns.
Copied(have) ==
    IF Len(have) < job.want THEN job' = [job EXCEPT !.have = have] /\ UNCHANGED outcome
    ELSE IF Len(have) < Total
    THEN job' = [job EXCEPT !.have = have, !.at = "request"] /\ UNCHANGED outcome
    ELSE /\ job' = NoJob
         /\ outcome' = [call |-> "read", met |-> excuse,
                        exact |-> \A i \in 1..Total: have[i] = <<box.take, i>>]

\* Neither the packet's number nor its time stamp is looked at.
ReadData ==
    /\ job.at = "data" /\ inbox # <<>> /\ inbox' = Tail(inbox)
    /\ LET d == Head(inbox) IN
       IF d.kind = "iq" THEN Copied(Append(job.have, <<d.take, d.unit>>))
       ELSE UNCHANGED <<job, outcome>>
    /\ UNCHANGED <<acks, lastSeq, box, memory, excuse, spent>>

\* No answer, or a chunk that stays incomplete: the call throws.
GiveUpRead ==
    /\ job.at \in {"ack", "data"} /\ Throw
    /\ \/ (IF job.at = "ack" THEN Received ELSE inbox) = <<>> /\ UNCHANGED spent
       \/ Trouble
    /\ UNCHANGED <<inbox, acks, lastSeq, box, memory, excuse>>

-----------------------------------------------------------------------------
(* write_iq_replay_all, write_iq_replay_chunk *)

\* With the configure_iq_replay that the programs call before each upload: it rewinds
\* the device's offset, as stop_iq_replay does.  write_iq_replay_all itself does not.
WriteAll ==
    /\ job.at = "idle" /\ spent.jobs < MaxJobs
    /\ spent' = [spent EXCEPT !.jobs = @ + 1]
    /\ box' = [box EXCEPT !.writeAt = 0, !.upload = 0]
    /\ job' = [NoJob EXCEPT !.at = "offset"]
    /\ excuse' = FALSE
    /\ UNCHANGED <<inbox, acks, lastSeq, memory, outcome>>

\* The device's offset is read, then WRITE_NEXT is sent without the bus's mutex
\* and without a wait.
WriteNext ==
    LET n == Lesser(Block, Total - Len(job.have)) IN
    /\ job.at = "offset"
    /\ lastSeq' = lastSeq + 1
    /\ job' = [job EXCEPT !.at = "send", !.want = Len(job.have) + n, !.size = n,
                          !.place = box.writeAt]
    /\ \/ /\ box' = [box EXCEPT !.upload = n, !.got = 0, !.seq = lastSeq + 1]
          /\ UNCHANGED spent
       \/ Trouble /\ UNCHANGED box
    /\ UNCHANGED <<inbox, acks, memory, outcome, excuse>>

\* The device stores a unit at the place the packet carries, and answers when
\* it has as many as it was told to expect.
Store(place, unit) ==
    LET got == box.got + 1 IN
    /\ memory' = [memory EXCEPT ![place] = unit]
    /\ IF got = box.upload
       THEN /\ box' = [box EXCEPT !.writeAt = @ + got, !.upload = 0, !.got = 0]
            /\ ToHost(Answer(box.seq, got), <<>>)
       ELSE box' = [box EXCEPT !.got = got] /\ UNCHANGED <<inbox, acks>>

SendUnit ==
    LET unit == Len(job.have) + 1 IN
    /\ job.at = "send"
    /\ job' = [job EXCEPT !.have = Append(@, unit), !.place = @ + 1,
                          !.at = IF unit = job.want THEN "commit" ELSE "send"]
    /\ \/ box.upload > 0 /\ Store(job.place + 1, unit) /\ UNCHANGED spent
       \/ box.upload = 0 /\ UNCHANGED <<memory, box, inbox, acks, spent>>
       \/ Trouble /\ UNCHANGED <<memory, box, inbox, acks>>
    /\ UNCHANGED <<lastSeq, outcome, excuse>>

\* wait_for_ack waits for the last number sent on its bus, whoever sent it.
Commit ==
    /\ job.at = "commit" /\ job' = [job EXCEPT !.at = "await", !.seq = lastSeq]
    /\ UNCHANGED <<inbox, acks, lastSeq, box, memory, outcome, excuse, spent>>

WriteAnswer ==
    /\ job.at = "await" /\ Received # <<>> /\ Receive
    /\ LET d == Head(Received) IN
       IF ~IsAnswer(d) THEN UNCHANGED <<job, outcome>>
       ELSE IF d.value # job.size THEN Throw
       ELSE IF Len(job.have) < Total THEN Go("offset") /\ UNCHANGED outcome
       ELSE /\ job' = NoJob
            /\ outcome' = [call |-> "write", met |-> excuse,
                           exact |-> memory = [i \in 1..Total |-> i]]
    /\ UNCHANGED <<lastSeq, box, memory, excuse, spent>>

GiveUpWrite ==
    /\ job.at = "await" /\ Throw
    /\ (Received = <<>> /\ UNCHANGED spent) \/ Trouble
    /\ UNCHANGED <<inbox, acks, lastSeq, box, memory, excuse>>

-----------------------------------------------------------------------------
(* the other thread and the network *)

\* A thread polls the device over the control bus during an upload; the value
\* it gets may be any.
OtherCommand ==
    /\ ~Joined /\ job.at \in {"send", "commit", "await"} /\ Trouble
    /\ lastSeq' = lastSeq + 1
    /\ \E value \in {0, Block}: acks' = Append(acks, Answer(lastSeq + 1, value))
    /\ excuse' = TRUE
    /\ UNCHANGED <<job, inbox, box, memory, outcome>>

LoseDatagram ==
    /\ Trouble
    /\ \/ inbox # <<>> /\ inbox' = Tail(inbox) /\ UNCHANGED acks
       \/ acks # <<>> /\ acks' = Tail(acks) /\ UNCHANGED inbox
    /\ UNCHANGED <<job, lastSeq, box, memory, outcome, excuse>>

TransferNext ==
    \/ StartRecord \/ ReadAll \/ ReadNext \/ ReadAnswer \/ ReadData \/ GiveUpRead
    \/ WriteAll \/ WriteNext \/ SendUnit \/ Commit \/ WriteAnswer \/ GiveUpWrite
    \/ OtherCommand \/ LoseDatagram

TransferSpec == TransferInit /\ [][TransferNext]_transferVars

-----------------------------------------------------------------------------
(* properties *)

TransferTypeOK ==
    /\ job.at \in {"idle", "request", "ack", "data", "offset", "send", "commit", "await"}
    /\ Len(job.have) <= Total /\ job.want \in 0..Total
    /\ box.readAt <= Total /\ box.writeAt <= Total /\ box.got <= Block
    /\ memory \in [1..Total -> 0..Total]
    /\ excuse \in BOOLEAN /\ box.onePort \in BOOLEAN
    /\ spent.jobs <= MaxJobs /\ spent.faults <= MaxLosses

\* A recording that was read is the device's, unit for unit, and a waveform that
\* was uploaded is in the device's memory, whatever was lost on the way: a loss
\* becomes an exception.  Over the split protocol the call must not have met
\* data of an earlier one that gave up, nor another thread's command; over the
\* record port the wait for the answer drops such data.
TransferExact ==
    outcome.exact \/ (~Joined /\ outcome.met)
=============================================================================
