---------------------------- MODULE DeviceProofs ----------------------------
(* Proofs about an E-series device.  DeviceSettings: its type invariant, and  *)
(* that the cached value of a setting is the device's unless the history says *)
(* why not, for every set of registers and values and every number of faults. *)
(* RecordReplay: its type invariant, and that what was read or uploaded is    *)
(* exact, for every size of recording and chunk and every number of losses.   *)
EXTENDS DeviceSettings, RecordReplay, TLAPS

Calls ==
    [at: {"prepare", "command", "readback", "finish"}, reg: Registers, value: Values,
     restart: BOOLEAN, err: BOOLEAN]

ValueTypes ==
    /\ cache \in [Registers -> Values \cup {NoValue}] /\ dev \in [Registers -> Values]
    /\ late \in SUBSET [reg: Registers, value: Values]
    /\ doubt \in [Registers -> BOOLEAN] /\ unmet \in [Registers -> Values \cup {NoValue}]
CallTypes == setter \in SetterStates
RestTypes == hasStream \in BOOLEAN /\ faults \in 0..MaxFaults

LEMMA TypeParts == SettingsTypeOK <=> ValueTypes /\ CallTypes /\ RestTypes
BY DEF SettingsTypeOK, ValueTypes, CallTypes, RestTypes

LEMMA InitTypes == SettingsInit => SettingsTypeOK
<1>1. SettingsInit => ValueTypes BY DEF SettingsInit, ValueTypes
<1>2. SettingsInit => CallTypes BY DEF SettingsInit, CallTypes, SetterStates, NoCall
<1>3. SettingsInit => RestTypes
  <2>1. SettingsInit => hasStream = FALSE /\ faults = 0 BY DEF SettingsInit
  <2>2. 0 \in 0..MaxFaults BY SettingsAssumption
  <2> QED BY <2>1, <2>2 DEF RestTypes
<1> QED BY <1>1, <1>2, <1>3, TypeParts

LEMMA UnderWay ==
    ASSUME CallTypes, setter.at # "idle"
    PROVE  setter \in Calls
BY DEF CallTypes, SetterStates, Calls

LEMMA ReturnTyped ==
    ASSUME NEW err \in BOOLEAN, Return(err)
    PROVE  CallTypes'
BY DEF Return, NoCall, CallTypes, SetterStates

LEMMA StepTyped ==
    ASSUME CallTypes, setter.at # "idle",
           NEW to \in {"command", "readback"}, Step(to)
    PROVE  CallTypes'
BY UnderWay DEF Step, CallTypes, SetterStates, Calls

LEMMA AfterTyped ==
    ASSUME CallTypes, setter.at # "idle", NEW err \in BOOLEAN, After(err)
    PROVE  CallTypes'
<1>1. CASE setter.restart BY <1>1, UnderWay DEF After, CallTypes, SetterStates, Calls
<1>2. CASE ~setter.restart BY <1>2, ReturnTyped DEF After
<1> QED BY <1>1, <1>2

LEMMA CallTypesKept ==
    ASSUME CallTypes, SettingsNext
    PROVE  CallTypes'
<1>1. ASSUME NEW r \in Registers, NEW v \in Values, CallSetter(r, v) PROVE CallTypes'
  <2>1. (r \in EpochRegisters /\ hasStream) \in BOOLEAN OBVIOUS
  <2>2. CASE r \in EpochRegisters /\ hasStream
    BY <1>1, <2>2 DEF CallSetter, CallTypes, SetterStates
  <2>3. CASE ~(r \in EpochRegisters /\ hasStream)
    BY <1>1, <2>3 DEF CallSetter, CallTypes, SetterStates
  <2> QED BY <2>2, <2>3
<1>2. CASE Prepare BY <1>2, StepTyped, ReturnTyped DEF Prepare
<1>3. CASE CommandDone BY <1>3, AfterTyped DEF CommandDone
<1>4. CASE CommandTimeout BY <1>4, AfterTyped, StepTyped DEF CommandTimeout
<1>5. CASE CommandRefused BY <1>5, AfterTyped DEF CommandRefused
<1>6. CASE Readback BY <1>6, ReturnTyped DEF Readback
<1>7. CASE Finish
  <2>1. setter.err \in BOOLEAN BY <1>7, UnderWay DEF Finish, Calls
  <2> QED BY <1>7, <2>1, ReturnTyped DEF Finish
<1>8. CASE GetRxStream \/ LateExecution \/ \E v \in Values: StreamWrites(v)
  BY <1>8 DEF GetRxStream, LateExecution, StreamWrites, CallTypes
<1> QED BY <1>1, <1>2, <1>3, <1>4, <1>5, <1>6, <1>7, <1>8 DEF SettingsNext

LEMMA ValueTypesKept ==
    ASSUME ValueTypes, CallTypes, SettingsNext
    PROVE  ValueTypes'
<1>1. CASE \E r \in Registers, v \in Values: CallSetter(r, v)
  BY <1>1 DEF CallSetter, CacheKept, ValueTypes
<1>2. CASE Prepare \/ Finish \/ GetRxStream
  BY <1>2 DEF Prepare, Finish, GetRxStream, ValueTypes
<1>3. CASE CommandDone
  BY <1>3, UnderWay DEF CommandDone, Learn, GivenUp, Calls, ValueTypes
<1>4. CASE CommandTimeout
  BY <1>4, UnderWay DEF CommandTimeout, Unmet, Calls, ValueTypes
<1>5. CASE CommandRefused
  BY <1>5, UnderWay DEF CommandRefused, Unmet, Calls, ValueTypes
<1>6. CASE Readback
  BY <1>6, UnderWay DEF Readback, Learn, GivenUp, Calls, ValueTypes
<1>7. CASE LateExecution BY <1>7 DEF LateExecution, ValueTypes
<1>8. CASE \E v \in Values: StreamWrites(v) BY <1>8 DEF StreamWrites, ValueTypes
<1> QED BY <1>1, <1>2, <1>3, <1>4, <1>5, <1>6, <1>7, <1>8 DEF SettingsNext

LEMMA RestTypesKept ==
    ASSUME RestTypes, SettingsNext
    PROVE  RestTypes'
<1>1. ASSUME Fault PROVE faults' \in 0..MaxFaults
  BY <1>1, SettingsAssumption DEF Fault, RestTypes
<1> QED
  BY <1>1 DEF SettingsNext, CallSetter, Prepare, CommandDone, CommandTimeout, CommandRefused,
     Readback, Finish, GetRxStream, LateExecution, StreamWrites, RestTypes

LEMMA TypesKept == SettingsTypeOK /\ [SettingsNext]_settingsVars => SettingsTypeOK'
<1>1. ASSUME SettingsTypeOK, SettingsNext PROVE SettingsTypeOK'
  BY <1>1, TypeParts, ValueTypesKept, CallTypesKept, RestTypesKept
     DEF SettingsTypeOK, ValueTypes, CallTypes, RestTypes
<1>2. ASSUME SettingsTypeOK, UNCHANGED settingsVars PROVE SettingsTypeOK'
  BY <1>2 DEF SettingsTypeOK, settingsVars
<1> QED BY <1>1, <1>2

\* Every variable keeps its type.
THEOREM SettingsTypeCorrect == SettingsSpec => []SettingsTypeOK
BY InitTypes, TypesKept, PTL DEF SettingsSpec

-----------------------------------------------------------------------------
(* CacheHonest is not inductive: it needs that a command the device may still *)
(* execute leaves its setting in doubt, that a call under way asks for        *)
(* another value than the cached one, and that only the rate is read back.    *)

LateDoubted == \A w \in late: doubt[w.reg]
AskedAnew == setter.at \in {"prepare", "command"} => cache[setter.reg] # setter.value
OnlyRateReadBack == setter.at = "readback" => setter.reg = RateRegister
SettingsInv ==
    SettingsTypeOK /\ LateDoubted /\ AskedAnew /\ OnlyRateReadBack /\ CacheHonest

LEMMA InitInv == SettingsInit => SettingsInv
BY InitTypes, SettingsAssumption
   DEF SettingsInit, SettingsInv, LateDoubted, AskedAnew, OnlyRateReadBack, CacheHonest, NoCall

\* A call that returns, or goes to the stream, asks for nothing.
LEMMA AfterAsksNothing ==
    ASSUME CallTypes, setter.at # "idle", NEW err, After(err) \/ Return(err)
    PROVE  AskedAnew' /\ OnlyRateReadBack'
<1>1. CASE setter' = [setter EXCEPT !.at = "finish", !.err = err]
  <2>1. setter'.at = "finish" BY <1>1, UnderWay DEF Calls
  <2> QED BY <2>1 DEF AskedAnew, OnlyRateReadBack
<1>2. CASE Return(err)
  <2>1. setter'.at = "idle" BY <1>2 DEF Return, NoCall
  <2> QED BY <2>1 DEF AskedAnew, OnlyRateReadBack
<1> QED BY <1>1, <1>2 DEF After

\* A setting that the device confirmed.
LEMMA LearnKeeps ==
    ASSUME SettingsInv, NEW r \in Registers, NEW v \in Values, Learn(r, v),
           dev' = [dev EXCEPT ![r] = v], UNCHANGED late
    PROVE  LateDoubted' /\ CacheHonest'
BY SettingsAssumption
   DEF Learn, GivenUp, SettingsInv, SettingsTypeOK, LateDoubted, CacheHonest

\* A command that failed: its setting is in doubt, and not the cached one.
LEMMA UnmetKeeps ==
    ASSUME SettingsInv, setter.at = "command", setter \in Calls, Unmet(setter.reg),
           UNCHANGED cache,
           \A d \in Registers: d # setter.reg => dev'[d] = dev[d],
           \A w \in late': w \in late \/ w.reg = setter.reg
    PROVE  LateDoubted' /\ CacheHonest'
BY DEF Unmet, Calls, SettingsInv, SettingsTypeOK, LateDoubted, AskedAnew, CacheHonest

LEMMA InvKept ==
    ASSUME SettingsInv, SettingsNext
    PROVE  LateDoubted' /\ AskedAnew' /\ OnlyRateReadBack' /\ CacheHonest'
<1>0. CallTypes BY TypeParts DEF SettingsInv
<1>1. ASSUME NEW r \in Registers, NEW v \in Values, CallSetter(r, v)
      PROVE  LateDoubted' /\ AskedAnew' /\ OnlyRateReadBack' /\ CacheHonest'
  BY <1>1 DEF CallSetter, CacheKept, SettingsInv, LateDoubted, AskedAnew, OnlyRateReadBack,
     CacheHonest
<1>2. CASE Prepare
  <2>1. LateDoubted' /\ CacheHonest' BY <1>2 DEF Prepare, SettingsInv, LateDoubted, CacheHonest
  <2>2. CASE Step("command")
    BY <1>2, <2>1, <2>2, <1>0, UnderWay
       DEF Prepare, Step, Calls, SettingsInv, AskedAnew, OnlyRateReadBack
  <2>3. CASE Return(TRUE) BY <1>0, <1>2, <2>1, <2>3, AfterAsksNothing DEF Prepare
  <2> QED BY <1>2, <2>2, <2>3 DEF Prepare
<1>3. CASE CommandDone
  <2>1. setter.reg \in Registers /\ setter.value \in Values
    BY <1>0, <1>3, UnderWay DEF CommandDone, Calls
  <2>2. LateDoubted' /\ CacheHonest' BY <1>3, <2>1, LearnKeeps DEF CommandDone
  <2> QED BY <1>0, <1>3, <2>2, AfterAsksNothing DEF CommandDone
<1>4. CASE CommandTimeout
  <2>1. setter \in Calls BY <1>0, <1>4, UnderWay DEF CommandTimeout
  <2>2. \A d \in Registers: d # setter.reg => dev'[d] = dev[d]
    BY <1>4, <2>1 DEF CommandTimeout, SettingsInv, SettingsTypeOK, Calls
  <2>3. \A w \in late': w \in late \/ w.reg = setter.reg BY <1>4, <2>1 DEF CommandTimeout
  <2>4. LateDoubted' /\ CacheHonest'
    BY <1>4, <2>1, <2>2, <2>3, UnmetKeeps DEF CommandTimeout
  <2>5. CASE setter.reg = RateRegister
    BY <1>4, <2>1, <2>4, <2>5 DEF CommandTimeout, Step, Calls, AskedAnew, OnlyRateReadBack
  <2>6. CASE setter.reg # RateRegister
    BY <1>0, <1>4, <2>4, <2>6, AfterAsksNothing DEF CommandTimeout
  <2> QED BY <2>5, <2>6
<1>5. CASE CommandRefused
  <2>1. setter \in Calls BY <1>0, <1>5, UnderWay DEF CommandRefused
  <2>2. \A d \in Registers: d # setter.reg => dev'[d] = dev[d]
    BY <1>5, <2>1 DEF CommandRefused, SettingsInv, SettingsTypeOK, Calls
  <2>3. LateDoubted' /\ CacheHonest' BY <1>5, <2>1, <2>2, UnmetKeeps DEF CommandRefused
  <2> QED BY <1>0, <1>5, <2>3, AfterAsksNothing DEF CommandRefused
<1>6. CASE Readback
  <2>1. AskedAnew' /\ OnlyRateReadBack' BY <1>0, <1>6, AfterAsksNothing DEF Readback
  <2>2. CASE SameRate(setter.value) /\ Learn(RateRegister, setter.value)
    <3>1. setter.reg = RateRegister /\ setter.reg \in Registers /\ setter.value \in Values
      BY <1>0, <1>6, UnderWay DEF Readback, Calls, SettingsInv, OnlyRateReadBack
    <3>2. dev' = [dev EXCEPT ![RateRegister] = setter.value]
      BY <1>6, <2>2, <3>1 DEF Readback, SameRate, SettingsInv, SettingsTypeOK
    <3> QED BY <1>6, <2>1, <2>2, <3>1, <3>2, LearnKeeps DEF Readback
  <2>3. CASE UNCHANGED <<cache, doubt, unmet>>
    BY <1>6, <2>1, <2>3 DEF Readback, SettingsInv, LateDoubted, CacheHonest
  <2> QED BY <1>6, <2>2, <2>3 DEF Readback
<1>7. CASE Finish
  <2>1. LateDoubted' /\ CacheHonest' BY <1>7 DEF Finish, SettingsInv, LateDoubted, CacheHonest
  <2> QED BY <1>0, <1>7, <2>1, AfterAsksNothing DEF Finish
<1>8. CASE GetRxStream
  BY <1>8 DEF GetRxStream, SettingsInv, LateDoubted, AskedAnew, OnlyRateReadBack, CacheHonest
<1>9. CASE LateExecution
  BY <1>9 DEF LateExecution, SettingsInv, SettingsTypeOK, LateDoubted, AskedAnew,
     OnlyRateReadBack, CacheHonest
<1>10. CASE \E v \in Values: StreamWrites(v)
  BY <1>10 DEF StreamWrites, SettingsInv, SettingsTypeOK, LateDoubted, AskedAnew,
     OnlyRateReadBack, CacheHonest
<1> QED BY <1>1, <1>2, <1>3, <1>4, <1>5, <1>6, <1>7, <1>8, <1>9, <1>10 DEF SettingsNext

\* What a setter skips because the cache has it already is what the device has,
\* and what failed is not skipped when it is asked for again (the setters of
\* IqtaxiUdpImpl and with_rx_epoch_restart).
THEOREM CacheIsHonest == SettingsSpec => []CacheHonest
<1>1. SettingsInv /\ [SettingsNext]_settingsVars => SettingsInv'
  <2>1. ASSUME SettingsInv, SettingsNext PROVE SettingsInv'
    BY <2>1, InvKept, TypesKept DEF SettingsInv
  <2>2. ASSUME SettingsInv, UNCHANGED settingsVars PROVE SettingsInv'
    BY <2>2, TypesKept DEF SettingsInv, settingsVars, LateDoubted, AskedAnew, OnlyRateReadBack,
       CacheHonest
  <2> QED BY <2>1, <2>2
<1>2. SettingsInv => CacheHonest BY DEF SettingsInv
<1> QED BY InitInv, <1>1, <1>2, PTL DEF SettingsSpec

-----------------------------------------------------------------------------
(* RecordReplay: its types, and the bounds of a transfer.                      *)

Sample == Nat \cup (Nat \X Nat)
Acks == [kind: {"ack"}, seq: Nat, value: Nat]
Units == [kind: {"iq"}, take: Nat, unit: Nat]
Datagrams == Acks \cup Units
TransferPhases == {"idle", "request", "ack", "data", "offset", "send", "commit", "await"}
Jobs ==
    [at: TransferPhases, have: Seq(Sample), want: Nat, size: Nat, place: Nat, seq: Nat]
Boxes ==
    [onePort: BOOLEAN, take: Nat, readAt: Nat, writeAt: Nat, upload: Nat, got: Nat, seq: Nat]

JobTypes == job \in Jobs
QueueTypes ==
    inbox \in Seq(Datagrams) /\ acks \in Seq(Datagrams) /\ lastSeq \in Nat
BoxTypes == box \in Boxes /\ memory \in [1..Total -> 0..Total]
HistoryTypes ==
    /\ excuse \in BOOLEAN /\ outcome.exact \in BOOLEAN /\ outcome.met \in BOOLEAN
    /\ spent \in [jobs: 0..MaxJobs, faults: 0..MaxLosses]

\* A job never has more than the whole, and wants no more than that.
JobBounds ==
    /\ Len(job.have) <= Total /\ job.want <= Total
    /\ job.at \in {"request", "ack", "offset"} => Len(job.have) < Total
    /\ job.at \in {"data", "send"} => Len(job.have) < job.want
    /\ job.at \in {"commit", "await"} => Len(job.have) = job.want
\* The device's offsets stay within it; of an upload it got what the host sent.
BoxBounds ==
    /\ box.readAt <= Total /\ box.writeAt <= Total /\ box.got <= Block
    /\ box.upload > 0 => box.got < box.upload /\ box.upload <= Block
    /\ job.at \in {"offset", "send", "commit", "await"} =>
        /\ box.writeAt <= Len(job.have)
        /\ box.upload > 0 => box.writeAt + box.got <= Len(job.have)
TransferTypes ==
    JobTypes /\ QueueTypes /\ BoxTypes /\ HistoryTypes /\ JobBounds /\ BoxBounds

LEMMA TransferInitTypes == TransferInit => TransferTypes
<1> SUFFICES ASSUME TransferInit PROVE TransferTypes OBVIOUS
<1>1. JobTypes /\ Len(job.have) = 0 /\ job.want = 0 /\ job.at = "idle"
  <2>1. <<>> \in Seq(Sample) /\ Len(<<>>) = 0 OBVIOUS
  <2> QED BY <2>1 DEF TransferInit, NoJob, JobTypes, Jobs, TransferPhases
<1>2. QueueTypes BY DEF TransferInit, QueueTypes
<1>3. BoxTypes /\ box.readAt = 0 /\ box.writeAt = 0 /\ box.got = 0 /\ box.upload = 0
  <2>1. \A i \in 1..Total: 0 \in 0..Total BY TransferAssumption
  <2> QED BY <2>1 DEF TransferInit, BoxTypes, Boxes
<1>4. HistoryTypes
  <2>1. 0 \in 0..MaxJobs /\ 0 \in 0..MaxLosses BY TransferAssumption
  <2>2. spent = [jobs |-> 0, faults |-> 0] /\ excuse = FALSE /\ outcome = NothingYet
    BY DEF TransferInit
  <2> QED BY <2>1, <2>2 DEF NothingYet, HistoryTypes
<1> QED BY <1>1, <1>2, <1>3, <1>4, TransferAssumption DEF TransferTypes, JobBounds, BoxBounds

\* The part of a chunk that is still there.
LEMMA LesserTyped ==
    ASSUME NEW a \in Nat, NEW b \in Nat
    PROVE  Lesser(a, b) \in Nat /\ Lesser(a, b) <= a /\ Lesser(a, b) <= b
BY DEF Lesser

LEMMA BelongsToSeq ==
    ASSUME NEW S, NEW q \in Seq(S), q # <<>>
    PROVE  Head(q) \in S /\ Tail(q) \in Seq(S) /\ Len(Tail(q)) = Len(q) - 1 /\ Len(q) \in Nat \ {0}
OBVIOUS

LEMMA ReceivedTyped ==
    ASSUME QueueTypes
    PROVE  Received \in Seq(Datagrams)
BY DEF QueueTypes, Received

LEMMA ReceiveTyped ==
    ASSUME QueueTypes, Received # <<>>, Receive, UNCHANGED lastSeq
    PROVE  QueueTypes' /\ Head(Received) \in Datagrams
<1>1. CASE Joined BY <1>1, BelongsToSeq DEF QueueTypes, Received, Receive
<1>2. CASE ~Joined BY <1>2, BelongsToSeq DEF QueueTypes, Received, Receive
<1> QED BY <1>1, <1>2

LEMMA AnswerTyped ==
    ASSUME NEW seq \in Nat, NEW value \in Nat
    PROVE  Answer(seq, value) \in Datagrams
BY DEF Answer, Datagrams, Acks

LEMMA AckIsAck ==
    ASSUME NEW d \in Datagrams, d.kind = "ack"
    PROVE  d \in Acks /\ d.seq \in Nat /\ d.value \in Nat
<1>1. d \in Acks BY DEF Datagrams, Acks, Units
<1> QED BY <1>1 DEF Acks

LEMMA UnitIsUnit ==
    ASSUME NEW d \in Datagrams, d.kind = "iq"
    PROVE  d \in Units /\ d.take \in Nat /\ d.unit \in Nat /\ <<d.take, d.unit>> \in Sample
<1>1. d \in Units BY DEF Datagrams, Acks, Units
<1> QED BY <1>1 DEF Units, Sample

LEMMA ToHostTyped ==
    ASSUME QueueTypes, NEW ack \in Datagrams, NEW data \in Seq(Datagrams), ToHost(ack, data)
    PROVE  inbox' \in Seq(Datagrams) /\ acks' \in Seq(Datagrams)
<1>1. inbox \in Seq(Datagrams) /\ acks \in Seq(Datagrams) BY DEF QueueTypes
<1>2. <<ack>> \in Seq(Datagrams) OBVIOUS
<1>3. inbox \o <<ack>> \in Seq(Datagrams) BY <1>1, <1>2
<1>4. inbox \o <<ack>> \o data \in Seq(Datagrams) BY <1>3
<1>5. inbox \o data \in Seq(Datagrams) BY <1>1
<1>6. Append(acks, ack) \in Seq(Datagrams) BY <1>1
<1> QED BY <1>1, <1>4, <1>5, <1>6 DEF ToHost

LEMMA NoJobTyped ==
    NoJob \in Jobs /\ NoJob.have = <<>> /\ Len(NoJob.have) = 0 /\ NoJob.want = 0
    /\ NoJob.at = "idle"
<1>1. <<>> \in Seq(Sample) /\ Len(<<>>) = 0 OBVIOUS
<1> QED BY <1>1 DEF NoJob, Jobs, TransferPhases

\* A job, field by field.
LEMMA JobFields ==
    ASSUME JobTypes
    PROVE  /\ job = [at |-> job.at, have |-> job.have, want |-> job.want, size |-> job.size,
                     place |-> job.place, seq |-> job.seq]
           /\ job.at \in TransferPhases /\ job.have \in Seq(Sample) /\ job.want \in Nat
           /\ job.size \in Nat /\ job.place \in Nat /\ job.seq \in Nat
           /\ Len(job.have) \in Nat
<1>1. job \in Jobs BY DEF JobTypes
<1>2. job = [at |-> job.at, have |-> job.have, want |-> job.want, size |-> job.size,
             place |-> job.place, seq |-> job.seq]
  BY <1>1 DEF Jobs
<1>3. /\ job.at \in TransferPhases /\ job.have \in Seq(Sample) /\ job.want \in Nat
      /\ job.size \in Nat /\ job.place \in Nat /\ job.seq \in Nat
  BY <1>1 DEF Jobs
<1> QED BY <1>2, <1>3

LEMMA JobMade ==
    ASSUME NEW at \in TransferPhases, NEW have \in Seq(Sample), NEW want \in Nat,
           NEW size \in Nat, NEW place \in Nat, NEW seq \in Nat
    PROVE  [at |-> at, have |-> have, want |-> want, size |-> size, place |-> place,
            seq |-> seq] \in Jobs
BY DEF Jobs

\* The job and its queues keep their types in every step.
LEMMA JobTypesKept ==
    ASSUME TransferTypes, TransferNext
    PROVE  JobTypes' /\ JobBounds'
<1>0. job \in Jobs /\ job.have \in Seq(Sample) /\ Len(job.have) \in Nat /\ job.want \in Nat
      /\ job.place \in Nat /\ Total \in Nat \ {0} /\ Block \in Nat \ {0} /\ lastSeq \in Nat
  BY TransferAssumption, JobFields DEF TransferTypes, JobTypes, QueueTypes
<1>. JobTypes BY DEF TransferTypes
<1>1. ASSUME job' = NoJob PROVE JobTypes' /\ JobBounds'
  BY <1>1, <1>0, NoJobTyped DEF JobTypes, JobBounds
<1>2. ASSUME NEW at \in {"request", "offset"}, job' = [NoJob EXCEPT !.at = at]
      PROVE  JobTypes' /\ JobBounds'
  <2>1. job' \in Jobs /\ job'.at = at /\ job'.have = <<>> /\ job'.want = 0
    BY <1>2, NoJobTyped DEF NoJob, Jobs, TransferPhases
  <2>2. Len(job'.have) = 0 BY <2>1
  <2> QED BY <2>1, <2>2, <1>0 DEF JobTypes, JobBounds
<1>3. ASSUME UNCHANGED job PROVE JobTypes' /\ JobBounds'
  BY <1>3 DEF TransferTypes, JobTypes, JobBounds
<1>4. CASE ReadNext
  <2>1. job' = [job EXCEPT !.at = "ack", !.seq = lastSeq + 1] /\ job.at = "request"
    BY <1>4 DEF ReadNext
  <2>2. job' = [at |-> "ack", have |-> job.have, want |-> job.want, size |-> job.size,
                place |-> job.place, seq |-> lastSeq + 1]
    BY <2>1, JobFields
  <2>3. "ack" \in TransferPhases /\ lastSeq + 1 \in Nat BY <1>0 DEF TransferPhases
  <2>4. job' \in Jobs BY <2>2, <2>3, JobFields, JobMade
  <2> QED BY <2>1, <2>2, <2>4 DEF TransferTypes, JobTypes, JobBounds
<1>5. CASE ReadAnswer
  <2>1. CASE ~IsAnswer(Head(Received)) BY <2>1, <1>5, <1>3 DEF ReadAnswer
  <2>2. CASE IsAnswer(Head(Received))
    <3> DEFINE v == Head(Received).value
    <3>1. v \in Nat
      BY <1>5, <2>2, ReceivedTyped, BelongsToSeq, AckIsAck
         DEF ReadAnswer, IsAnswer, TransferTypes
    <3>2. CASE v = 0 \/ Len(job.have) + v > Total BY <3>2, <2>2, <1>5, <1>1 DEF ReadAnswer
    <3>3. CASE ~(v = 0 \/ Len(job.have) + v > Total)
      <4>1. job' = [job EXCEPT !.at = "data", !.want = Len(job.have) + v] /\ job.at = "ack"
        BY <3>3, <2>2, <1>5 DEF ReadAnswer
      <4> HIDE DEF v
      <4>2. job' = [at |-> "data", have |-> job.have, want |-> Len(job.have) + v,
                    size |-> job.size, place |-> job.place, seq |-> job.seq]
        BY <4>1, JobFields
      <4>3. "data" \in TransferPhases /\ Len(job.have) + v \in Nat
        BY <3>1, <1>0 DEF TransferPhases
      <4>4. job' \in Jobs BY <4>2, <4>3, JobFields, JobMade
      <4> QED BY <4>2, <4>4, <3>1, <3>3, <1>0 DEF JobTypes, JobBounds
    <3> QED BY <3>2, <3>3
  <2> QED BY <2>1, <2>2
<1>6. CASE ReadData
  <2>1. CASE Head(inbox).kind # "iq" BY <2>1, <1>6, <1>3 DEF ReadData
  <2>2. CASE Head(inbox).kind = "iq"
    <3> DEFINE x == <<Head(inbox).take, Head(inbox).unit>>
               have == Append(job.have, x)
    <3>1. x \in Sample
      BY <1>6, <2>2, BelongsToSeq, UnitIsUnit DEF ReadData, TransferTypes, QueueTypes
    <3>2. Copied(have) /\ job.at = "data" BY <1>6, <2>2 DEF ReadData
    <3> HIDE DEF x
    <3>3. have \in Seq(Sample) /\ Len(have) = Len(job.have) + 1 BY <3>1, <1>0
    <3> HIDE DEF have
    <3>4. Len(job.have) < job.want /\ job.want <= Total BY <3>2 DEF TransferTypes, JobBounds
    <3>5. CASE Len(have) < job.want
      <4>1. job' = [job EXCEPT !.have = have] BY <3>2, <3>5 DEF Copied
      <4>2. job' \in Jobs /\ job'.at = "data" /\ job'.have = have /\ job'.want = job.want
        BY <4>1, <3>2, <3>3, <1>0 DEF Jobs, TransferPhases
      <4> QED BY <4>2, <3>3, <3>4, <3>5, <1>0 DEF JobTypes, JobBounds
    <3>6. CASE ~(Len(have) < job.want) /\ Len(have) < Total
      <4>1. job' = [job EXCEPT !.have = have, !.at = "request"] BY <3>2, <3>6 DEF Copied
      <4>2. job' \in Jobs /\ job'.at = "request" /\ job'.have = have /\ job'.want = job.want
        BY <4>1, <3>2, <3>3, <1>0 DEF Jobs, TransferPhases
      <4> QED BY <4>2, <3>3, <3>4, <3>6, <1>0 DEF JobTypes, JobBounds
    <3>7. CASE ~(Len(have) < job.want) /\ ~(Len(have) < Total)
      BY <3>2, <3>7, <1>1 DEF Copied
    <3> QED BY <3>5, <3>6, <3>7
  <2> QED BY <2>1, <2>2
<1>7. CASE WriteNext
  <2> DEFINE n == Lesser(Block, Total - Len(job.have))
  <2>1. job.at = "offset" /\ Len(job.have) < Total BY <1>7 DEF WriteNext, TransferTypes, JobBounds
  <2>2. n \in Nat /\ n > 0 /\ Len(job.have) + n <= Total
    <3>1. Total - Len(job.have) \in Nat /\ Total - Len(job.have) > 0 BY <2>1, <1>0
    <3>2. n = Block \/ n = Total - Len(job.have) BY DEF Lesser
    <3>3. n <= Total - Len(job.have) BY <3>1, <1>0, LesserTyped
    <3> QED BY <3>1, <3>2, <3>3, <1>0
  <2>3. job' = [job EXCEPT !.at = "send", !.want = Len(job.have) + n, !.size = n,
                           !.place = box.writeAt]
    BY <1>7 DEF WriteNext
  <2>4. box.writeAt \in Nat BY DEF TransferTypes, BoxTypes, Boxes
  <2> HIDE DEF n
  <2>5. job' = [at |-> "send", have |-> job.have, want |-> Len(job.have) + n, size |-> n,
                place |-> box.writeAt, seq |-> job.seq]
    BY <2>3, JobFields
  <2>6. "send" \in TransferPhases /\ Len(job.have) + n \in Nat
    BY <2>2, <1>0 DEF TransferPhases
  <2>7. job' \in Jobs BY <2>2, <2>4, <2>5, <2>6, JobFields, JobMade
  <2> QED BY <2>5, <2>7, <2>2, <1>0 DEF JobTypes, JobBounds
<1>8. CASE SendUnit
  <2> DEFINE unit == Len(job.have) + 1
             have == Append(job.have, unit)
             to == IF unit = job.want THEN "commit" ELSE "send"
  <2>1. job.at = "send" /\ job' = [job EXCEPT !.have = have, !.place = @ + 1, !.at = to]
    BY <1>8 DEF SendUnit
  <2>2. unit \in Sample BY <1>0 DEF Sample
  <2>3. have \in Seq(Sample) /\ Len(have) = Len(job.have) + 1 BY <2>2, <1>0
  <2>4. Len(job.have) < job.want /\ job.want <= Total BY <2>1 DEF TransferTypes, JobBounds
  <2>5. to \in TransferPhases /\ to \in {"commit", "send"} BY DEF TransferPhases
  <2>6. to = "commit" <=> unit = job.want OBVIOUS
  <2> HIDE DEF have, to
  <2>7. job' = [at |-> to, have |-> have, want |-> job.want, size |-> job.size,
                place |-> job.place + 1, seq |-> job.seq]
    BY <2>1, JobFields
  <2>8. job.place + 1 \in Nat /\ job.size \in Nat /\ job.seq \in Nat BY JobFields
  <2>9. job' \in Jobs BY <2>3, <2>5, <2>7, <2>8, JobMade, <1>0
  <2> QED BY <2>3, <2>4, <2>5, <2>6, <2>7, <2>9, <1>0 DEF JobTypes, JobBounds
<1>9. CASE Commit
  <2>1. job' = [job EXCEPT !.at = "await", !.seq = lastSeq] /\ job.at = "commit"
    BY <1>9 DEF Commit
  <2>2. job' \in Jobs /\ job'.at = "await" /\ job'.have = job.have /\ job'.want = job.want
    BY <2>1, <1>0 DEF Jobs, TransferPhases
  <2> QED BY <2>1, <2>2 DEF TransferTypes, JobTypes, JobBounds
<1>10. CASE WriteAnswer
  <2>1. CASE UNCHANGED job BY <2>1, <1>3
  <2>2. CASE job' = NoJob BY <2>2, <1>1
  <2>3. CASE Len(job.have) < Total /\ Go("offset")
    <3>1. job' = [job EXCEPT !.at = "offset"] /\ job.at = "await"
      BY <1>10, <2>3 DEF WriteAnswer, Go
    <3>2. job' \in Jobs /\ job'.at = "offset" /\ job'.have = job.have /\ job'.want = job.want
      BY <3>1, <1>0 DEF Jobs, TransferPhases
    <3> QED BY <2>3, <3>2 DEF TransferTypes, JobTypes, JobBounds
  <2> QED BY <1>10, <2>1, <2>2, <2>3 DEF WriteAnswer, Throw
<1>11. CASE StartRecord \/ OtherCommand \/ LoseDatagram
  BY <1>11, <1>3 DEF StartRecord, OtherCommand, LoseDatagram
<1>12. CASE ReadAll BY <1>12, <1>2 DEF ReadAll
<1>13. CASE WriteAll BY <1>13, <1>2 DEF WriteAll
<1>14. CASE GiveUpRead \/ GiveUpWrite BY <1>14, <1>1 DEF GiveUpRead, GiveUpWrite, Throw
<1> QED
  BY <1>4, <1>5, <1>6, <1>7, <1>8, <1>9, <1>10, <1>11, <1>12, <1>13, <1>14 DEF TransferNext

LEMMA QueueTypesKept ==
    ASSUME TransferTypes, TransferNext
    PROVE  QueueTypes'
<1>0. QueueTypes /\ inbox \in Seq(Datagrams) /\ acks \in Seq(Datagrams) /\ lastSeq \in Nat
      /\ lastSeq + 1 \in Nat
  BY DEF TransferTypes, QueueTypes
<1>1. ASSUME UNCHANGED <<inbox, acks>>, lastSeq' \in {lastSeq, lastSeq + 1} PROVE QueueTypes'
  BY <1>0, <1>1 DEF QueueTypes
<1>2. CASE ReadNext
  <2> DEFINE n == Lesser(Block, Total - box.readAt)
             data == [i \in 1..n |-> [kind |-> "iq", take |-> box.take, unit |-> box.readAt + i]]
  <2>1. lastSeq' = lastSeq + 1 BY <1>2 DEF ReadNext
  <2>2. CASE ToHost(Answer(lastSeq + 1, n), data)
    <3>1. box.readAt \in Nat /\ box.take \in Nat /\ box.readAt <= Total
      BY DEF TransferTypes, BoxTypes, Boxes, BoxBounds
    <3>2. n \in Nat
      <4>1. Total - box.readAt \in Nat /\ Block \in Nat BY <3>1, TransferAssumption
      <4> QED BY <4>1, LesserTyped
    <3> HIDE DEF n
    <3>3. \A i \in 1..n: [kind |-> "iq", take |-> box.take, unit |-> box.readAt + i] \in Datagrams
      BY <3>1, <3>2 DEF Datagrams, Units
    <3>4. data \in Seq(Datagrams) BY <3>2, <3>3
    <3> HIDE DEF data
    <3>5. Answer(lastSeq + 1, n) \in Datagrams BY <1>0, <3>2, AnswerTyped
    <3> QED BY <1>0, <2>1, <2>2, <3>4, <3>5, ToHostTyped DEF QueueTypes
  <2> QED BY <1>2, <2>2, <1>1 DEF ReadNext
<1>3. CASE SendUnit
  <2>1. lastSeq' = lastSeq BY <1>3 DEF SendUnit
  <2>2. CASE Store(job.place + 1, Len(job.have) + 1)
    <3>1. CASE box.got + 1 = box.upload
      <4>1. ToHost(Answer(box.seq, box.got + 1), <<>>) BY <2>2, <3>1 DEF Store
      <4>2. box.seq \in Nat /\ box.got + 1 \in Nat BY DEF TransferTypes, BoxTypes, Boxes
      <4>3. Answer(box.seq, box.got + 1) \in Datagrams BY <4>2, AnswerTyped
      <4>4. <<>> \in Seq(Datagrams) OBVIOUS
      <4> QED BY <1>0, <2>1, <4>1, <4>3, <4>4, ToHostTyped DEF QueueTypes
    <3>2. CASE box.got + 1 # box.upload BY <2>1, <2>2, <3>2, <1>1 DEF Store
    <3> QED BY <3>1, <3>2
  <2> QED BY <1>3, <2>1, <2>2, <1>1 DEF SendUnit
<1>4. CASE ReadAnswer BY <1>4, <1>0, ReceiveTyped DEF ReadAnswer
<1>5. CASE WriteAnswer BY <1>5, <1>0, ReceiveTyped DEF WriteAnswer
<1>6. CASE ReadData BY <1>6, <1>0, BelongsToSeq DEF ReadData, QueueTypes
<1>7. CASE LoseDatagram BY <1>7, <1>0, BelongsToSeq DEF LoseDatagram, QueueTypes
<1>8. CASE OtherCommand
  <2>1. Block \in Nat /\ 0 \in Nat BY TransferAssumption
  <2>2. PICK value \in {0, Block}: acks' = Append(acks, Answer(lastSeq + 1, value))
    BY <1>8 DEF OtherCommand
  <2>3. Answer(lastSeq + 1, value) \in Datagrams BY <1>0, <2>1, AnswerTyped
  <2> QED BY <1>8, <1>0, <2>2, <2>3 DEF OtherCommand, QueueTypes
<1>9. CASE StartRecord \/ ReadAll \/ GiveUpRead \/ WriteAll \/ WriteNext \/ Commit \/ GiveUpWrite
  BY <1>9, <1>1 DEF StartRecord, ReadAll, GiveUpRead, WriteAll, WriteNext, Commit, GiveUpWrite
<1> QED
  BY <1>2, <1>3, <1>4, <1>5, <1>6, <1>7, <1>8, <1>9 DEF TransferNext

LEMMA TroubleTyped ==
    ASSUME HistoryTypes, Trouble \/ UNCHANGED spent
    PROVE  spent' \in [jobs: 0..MaxJobs, faults: 0..MaxLosses]
<1>1. CASE Trouble BY <1>1, TransferAssumption DEF Trouble, HistoryTypes
<1> QED BY <1>1 DEF HistoryTypes

LEMMA HistoryTypesKept ==
    ASSUME TransferTypes, TransferNext
    PROVE  HistoryTypes'
<1>0. HistoryTypes BY DEF TransferTypes
<1>1. ASSUME spent' = [spent EXCEPT !.jobs = @ + 1], spent.jobs < MaxJobs
      PROVE  spent' \in [jobs: 0..MaxJobs, faults: 0..MaxLosses]
  BY <1>1, <1>0, TransferAssumption DEF HistoryTypes
<1>2. spent' \in [jobs: 0..MaxJobs, faults: 0..MaxLosses]
  <2>1. CASE StartRecord \/ ReadAll \/ WriteAll
    BY <2>1, <1>1 DEF StartRecord, ReadAll, WriteAll
  <2>2. CASE ReadNext \/ ReadAnswer \/ ReadData \/ GiveUpRead
    BY <2>2, <1>0, TroubleTyped DEF ReadNext, ReadAnswer, ReadData, GiveUpRead
  <2>3. CASE WriteNext \/ SendUnit \/ Commit \/ WriteAnswer \/ GiveUpWrite
    BY <2>3, <1>0, TroubleTyped DEF WriteNext, SendUnit, Commit, WriteAnswer, GiveUpWrite
  <2>4. CASE OtherCommand \/ LoseDatagram
    BY <2>4, <1>0, TroubleTyped DEF OtherCommand, LoseDatagram
  <2> QED BY <2>1, <2>2, <2>3, <2>4 DEF TransferNext
<1>3. excuse' \in BOOLEAN
  <2>1. CASE StartRecord \/ ReadAll \/ ReadNext \/ ReadAnswer \/ ReadData \/ GiveUpRead
    BY <2>1, <1>0 DEF StartRecord, ReadAll, ReadNext, ReadAnswer, ReadData, GiveUpRead, HistoryTypes
  <2>2. CASE WriteAll \/ WriteNext \/ SendUnit \/ Commit \/ WriteAnswer \/ GiveUpWrite
             \/ OtherCommand \/ LoseDatagram
    BY <2>2, <1>0 DEF WriteAll, WriteNext, SendUnit, Commit, WriteAnswer, GiveUpWrite,
       OtherCommand, LoseDatagram, HistoryTypes
  <2> QED BY <2>1, <2>2 DEF TransferNext
<1>4. outcome'.exact \in BOOLEAN /\ outcome'.met \in BOOLEAN
  <2>1. ASSUME UNCHANGED outcome PROVE outcome'.exact \in BOOLEAN /\ outcome'.met \in BOOLEAN
    BY <2>1, <1>0 DEF HistoryTypes
  <2>2. CASE ReadData
    <3>1. CASE UNCHANGED outcome BY <3>1, <2>1
    <3>2. ASSUME NEW have,
                 outcome' = [call |-> "read", met |-> excuse,
                             exact |-> \A i \in 1..Total: have[i] = <<box.take, i>>]
          PROVE  outcome'.exact \in BOOLEAN /\ outcome'.met \in BOOLEAN
      BY <3>2, <1>0 DEF HistoryTypes
    <3> QED BY <2>2, <3>1, <3>2 DEF ReadData, Copied
  <2>3. CASE WriteAnswer
    <3>1. CASE UNCHANGED outcome BY <3>1, <2>1
    <3>2. CASE outcome' = [call |-> "write", met |-> excuse,
                           exact |-> memory = [i \in 1..Total |-> i]]
      BY <3>2, <1>0 DEF HistoryTypes
    <3> QED BY <2>3, <3>1, <3>2 DEF WriteAnswer, Throw
  <2>4. CASE StartRecord \/ ReadAll \/ ReadNext \/ ReadAnswer \/ GiveUpRead
    BY <2>4, <2>1 DEF StartRecord, ReadAll, ReadNext, ReadAnswer, GiveUpRead, Throw
  <2>5. CASE WriteAll \/ WriteNext \/ SendUnit \/ Commit \/ GiveUpWrite
             \/ OtherCommand \/ LoseDatagram
    BY <2>5, <2>1 DEF WriteAll, WriteNext, SendUnit, Commit, GiveUpWrite,
       OtherCommand, LoseDatagram, Throw
  <2> QED BY <2>2, <2>3, <2>4, <2>5 DEF TransferNext
<1> QED BY <1>2, <1>3, <1>4 DEF HistoryTypes

\* The device, field by field.
LEMMA BoxFields ==
    ASSUME BoxTypes
    PROVE  /\ box = [onePort |-> box.onePort, take |-> box.take, readAt |-> box.readAt,
                     writeAt |-> box.writeAt, upload |-> box.upload, got |-> box.got,
                     seq |-> box.seq]
           /\ box.onePort \in BOOLEAN /\ box.take \in Nat /\ box.readAt \in Nat
           /\ box.writeAt \in Nat /\ box.upload \in Nat /\ box.got \in Nat /\ box.seq \in Nat
<1>1. box \in Boxes BY DEF BoxTypes
<1> QED BY <1>1 DEF Boxes

\* How a step leaves the job.
LEMMA ReadAnswerJob ==
    ASSUME TransferTypes, ReadAnswer
    PROVE  \/ ~IsAnswer(Head(Received)) /\ job' = job
           \/ job'.at = "idle"
           \/ /\ IsAnswer(Head(Received)) /\ Head(Received).value # 0
              /\ job'.at = "data" /\ job'.have = job.have
              /\ job'.want = Len(job.have) + Head(Received).value
<1>. DEFINE d == Head(Received)
<1>1. CASE ~IsAnswer(d) BY <1>1 DEF ReadAnswer
<1>2. CASE IsAnswer(d) /\ (d.value = 0 \/ Len(job.have) + d.value > Total)
  BY <1>2 DEF ReadAnswer, NoJob
<1>3. CASE IsAnswer(d) /\ ~(d.value = 0 \/ Len(job.have) + d.value > Total)
  <2>1. job' = [job EXCEPT !.at = "data", !.want = Len(job.have) + d.value]
    BY <1>3 DEF ReadAnswer
  <2> HIDE DEF d
  <2>2. job' = [at |-> "data", have |-> job.have, want |-> Len(job.have) + d.value,
                size |-> job.size, place |-> job.place, seq |-> job.seq]
    BY <2>1, JobFields DEF TransferTypes
  <2> QED BY <1>3, <2>2 DEF d
<1> QED BY <1>1, <1>2, <1>3

LEMMA CopiedJob ==
    ASSUME TransferTypes, job.at = "data", NEW have, Copied(have)
    PROVE  \/ /\ Len(have) < job.want /\ UNCHANGED outcome
              /\ job'.at = "data" /\ job'.have = have /\ job'.want = job.want
           \/ /\ ~(Len(have) < job.want) /\ UNCHANGED outcome
              /\ job'.at = "request" /\ job'.have = have
           \/ /\ ~(Len(have) < job.want) /\ ~(Len(have) < Total) /\ job'.at = "idle"
              /\ outcome' = [call |-> "read", met |-> excuse,
                             exact |-> \A i \in 1..Total: have[i] = <<box.take, i>>]
<1>1. CASE Len(have) < job.want
  <2>1. job' = [job EXCEPT !.have = have] /\ UNCHANGED outcome BY <1>1 DEF Copied
  <2>2. job' = [at |-> job.at, have |-> have, want |-> job.want, size |-> job.size,
                place |-> job.place, seq |-> job.seq]
    BY <2>1, JobFields DEF TransferTypes
  <2> QED BY <1>1, <2>1, <2>2
<1>2. CASE ~(Len(have) < job.want) /\ Len(have) < Total
  <2>1. job' = [job EXCEPT !.have = have, !.at = "request"] /\ UNCHANGED outcome
    BY <1>2 DEF Copied
  <2>2. job' = [at |-> "request", have |-> have, want |-> job.want, size |-> job.size,
                place |-> job.place, seq |-> job.seq]
    BY <2>1, JobFields DEF TransferTypes
  <2> QED BY <1>2, <2>1, <2>2
<1>3. CASE ~(Len(have) < job.want) /\ ~(Len(have) < Total)
  BY <1>3 DEF Copied, NoJob
<1> QED BY <1>1, <1>2, <1>3

LEMMA WriteNextJob ==
    ASSUME TransferTypes, WriteNext
    PROVE  LET n == Lesser(Block, Total - Len(job.have)) IN
           /\ job.at = "offset" /\ job'.at = "send" /\ job'.have = job.have
           /\ job'.want = Len(job.have) + n /\ job'.size = n /\ job'.place = box.writeAt
<1>. DEFINE n == Lesser(Block, Total - Len(job.have))
<1>1. job.at = "offset"
      /\ job' = [job EXCEPT !.at = "send", !.want = Len(job.have) + n, !.size = n,
                            !.place = box.writeAt]
  BY DEF WriteNext
<1>. HIDE DEF n
<1>2. job' = [at |-> "send", have |-> job.have, want |-> Len(job.have) + n, size |-> n,
              place |-> box.writeAt, seq |-> job.seq]
  BY <1>1, JobFields DEF TransferTypes
<1> QED BY <1>1, <1>2 DEF n

LEMMA SendUnitJob ==
    ASSUME TransferTypes, SendUnit
    PROVE  /\ job.at = "send" /\ job'.have = Append(job.have, Len(job.have) + 1)
           /\ Len(job'.have) = Len(job.have) + 1
           /\ job'.at = IF Len(job.have) + 1 = job.want THEN "commit" ELSE "send"
           /\ job'.want = job.want /\ job'.size = job.size /\ job'.place = job.place + 1
<1>. DEFINE have == Append(job.have, Len(job.have) + 1)
            to == IF Len(job.have) + 1 = job.want THEN "commit" ELSE "send"
<1>1. job.at = "send" /\ job' = [job EXCEPT !.have = have, !.place = @ + 1, !.at = to]
  BY DEF SendUnit
<1>2. Len(have) = Len(job.have) + 1 BY JobFields DEF TransferTypes, Sample
<1>. HIDE DEF have, to
<1>3. job' = [at |-> to, have |-> have, want |-> job.want, size |-> job.size,
              place |-> job.place + 1, seq |-> job.seq]
  BY <1>1, JobFields DEF TransferTypes
<1> QED BY <1>1, <1>2, <1>3 DEF have, to

LEMMA CommitJob ==
    ASSUME TransferTypes, Commit
    PROVE  /\ job.at = "commit" /\ job'.at = "await" /\ job'.have = job.have
           /\ job'.want = job.want /\ job'.size = job.size /\ job'.seq = lastSeq
<1>1. job.at = "commit" /\ job' = [job EXCEPT !.at = "await", !.seq = lastSeq] BY DEF Commit
<1>2. job' = [at |-> "await", have |-> job.have, want |-> job.want, size |-> job.size,
              place |-> job.place, seq |-> lastSeq]
  BY <1>1, JobFields DEF TransferTypes
<1> QED BY <1>1, <1>2

LEMMA WriteAnswerJob ==
    ASSUME TransferTypes, WriteAnswer
    PROVE  \/ ~IsAnswer(Head(Received)) /\ job' = job /\ UNCHANGED outcome
           \/ job'.at = "idle" /\ UNCHANGED outcome
           \/ /\ IsAnswer(Head(Received)) /\ Len(job.have) < Total /\ UNCHANGED outcome
              /\ job'.at = "offset" /\ job'.have = job.have
           \/ /\ IsAnswer(Head(Received)) /\ ~(Len(job.have) < Total) /\ job'.at = "idle"
              /\ outcome' = [call |-> "write", met |-> excuse,
                             exact |-> memory = [i \in 1..Total |-> i]]
<1>1. ASSUME Go("offset") PROVE job'.at = "offset" /\ job'.have = job.have
  <2>1. job' = [at |-> "offset", have |-> job.have, want |-> job.want, size |-> job.size,
                place |-> job.place, seq |-> job.seq]
    BY <1>1, JobFields DEF Go, TransferTypes
  <2> QED BY <2>1
<1> QED BY <1>1 DEF WriteAnswer, Throw, NoJob

LEMMA BoxTypesKept ==
    ASSUME TransferTypes, TransferNext
    PROVE  BoxTypes' /\ BoxBounds'
<1>0. /\ BoxTypes /\ BoxBounds /\ JobBounds /\ job.have \in Seq(Sample)
      /\ Len(job.have) \in Nat /\ job.want \in Nat /\ job.place \in Nat /\ lastSeq \in Nat
      /\ Total \in Nat \ {0} /\ Block \in Nat \ {0}
  BY TransferAssumption, JobFields DEF TransferTypes, QueueTypes
<1>. DEFINE Uploading == {"offset", "send", "commit", "await"}
<1>1. ASSUME UNCHANGED <<box, memory>>,
             job'.at \in Uploading => job.at \in Uploading /\ Len(job'.have) = Len(job.have)
      PROVE  BoxTypes' /\ BoxBounds'
  BY <1>0, <1>1 DEF BoxTypes, BoxBounds
<1>2. CASE StartRecord
  <2>1. box' = [onePort |-> box.onePort, take |-> box.take + 1, readAt |-> 0,
                writeAt |-> box.writeAt, upload |-> box.upload, got |-> box.got,
                seq |-> box.seq]
    BY <1>0, <1>2, BoxFields DEF StartRecord
  <2>2. box' \in Boxes BY <2>1, <1>0, BoxFields DEF Boxes
  <2>3. job' = job /\ job.at = "idle" /\ memory' = memory BY <1>2 DEF StartRecord
  <2> QED BY <1>0, <2>1, <2>2, <2>3 DEF BoxTypes, BoxBounds
<1>3. CASE ReadNext
  <2>1. CASE UNCHANGED box
    <3>1. job'.at = "ack" /\ memory' = memory BY <1>0, <1>3, JobFields DEF ReadNext, TransferTypes
    <3> QED BY <1>1, <2>1, <3>1
  <2>2. ASSUME NEW n, n = Lesser(Block, Total - box.readAt),
               box' = [box EXCEPT !.readAt = @ + n]
        PROVE  BoxTypes' /\ BoxBounds'
    <3>1. box.readAt \in Nat /\ box.readAt <= Total BY <1>0, BoxFields DEF BoxBounds
    <3>2. Total - box.readAt \in Nat BY <1>0, <3>1
    <3>3. n \in Nat /\ n <= Total - box.readAt BY <1>0, <2>2, <3>2, LesserTyped
    <3>4. box.readAt + n \in Nat /\ box.readAt + n <= Total BY <1>0, <3>1, <3>3
    <3>5. box' = [onePort |-> box.onePort, take |-> box.take, readAt |-> box.readAt + n,
                  writeAt |-> box.writeAt, upload |-> box.upload, got |-> box.got,
                  seq |-> box.seq]
      BY <1>0, <2>2, BoxFields
    <3>6. box' \in Boxes BY <3>4, <3>5, <1>0, BoxFields DEF Boxes
    <3>7. job'.at = "ack" /\ memory' = memory BY <1>0, <1>3, JobFields DEF ReadNext, TransferTypes
    <3> QED BY <1>0, <3>4, <3>5, <3>6, <3>7 DEF BoxTypes, BoxBounds
  <2> QED BY <1>3, <2>1, <2>2 DEF ReadNext
<1>4. CASE WriteAll
  <2>1. box' = [onePort |-> box.onePort, take |-> box.take, readAt |-> box.readAt,
                writeAt |-> 0, upload |-> 0, got |-> box.got, seq |-> box.seq]
    BY <1>0, <1>4, BoxFields DEF WriteAll
  <2>2. box' \in Boxes BY <2>1, <1>0, BoxFields DEF Boxes
  <2>3. job'.have = <<>> /\ memory' = memory BY <1>4 DEF WriteAll, NoJob
  <2>4. Len(job'.have) = 0 BY <2>3
  <2> QED BY <1>0, <2>1, <2>2, <2>3, <2>4 DEF BoxTypes, BoxBounds
<1>5. CASE WriteNext
  <2>1. job.at = "offset" /\ job'.have = job.have /\ memory' = memory
    BY <1>0, <1>5, JobFields DEF WriteNext, TransferTypes
  <2>2. CASE UNCHANGED box BY <1>1, <2>1, <2>2
  <2>3. ASSUME NEW n, n = Lesser(Block, Total - Len(job.have)),
               box' = [box EXCEPT !.upload = n, !.got = 0, !.seq = lastSeq + 1]
        PROVE  BoxTypes' /\ BoxBounds'
    <3>1. Total - Len(job.have) \in Nat BY <1>0 DEF JobBounds
    <3>2. n \in Nat /\ n <= Block BY <1>0, <2>3, <3>1, LesserTyped
    <3>3. box' = [onePort |-> box.onePort, take |-> box.take, readAt |-> box.readAt,
                  writeAt |-> box.writeAt, upload |-> n, got |-> 0, seq |-> lastSeq + 1]
      BY <1>0, <2>3, BoxFields
    <3>4. box' \in Boxes BY <3>2, <3>3, <1>0, BoxFields DEF Boxes
    <3> QED BY <1>0, <2>1, <3>2, <3>3, <3>4, BoxFields DEF BoxTypes, BoxBounds
  <2> QED BY <1>5, <2>2, <2>3 DEF WriteNext
<1>6. CASE SendUnit
  <2> DEFINE unit == Len(job.have) + 1
  <2>1. job.at = "send" /\ job'.have = Append(job.have, unit) /\ unit <= Total /\ unit \in Nat
    <3>1. job.at = "send" /\ job'.have = Append(job.have, unit) BY <1>6, SendUnitJob
    <3> QED BY <3>1, <1>0 DEF JobBounds
  <2>2. Len(job'.have) = unit BY <1>6, SendUnitJob
  <2> HIDE DEF unit
  <2>3. Len(job'.have) = Len(job.have) + 1 BY <2>2 DEF unit
  <2>4. CASE UNCHANGED <<box, memory>>
    <3>1. BoxTypes' BY <1>0, <2>4 DEF BoxTypes
    <3>2. box.writeAt <= Len(job'.have) BY <1>0, <2>1, <2>3, BoxFields DEF BoxBounds
    <3>3. box.upload > 0 => box.writeAt + box.got <= Len(job'.have)
      BY <1>0, <2>1, <2>3, BoxFields DEF BoxBounds
    <3> QED BY <1>0, <2>4, <3>1, <3>2, <3>3 DEF BoxBounds
  <2>5. CASE box.upload > 0 /\ Store(job.place + 1, unit)
    <3>1. memory' = [memory EXCEPT ![job.place + 1] = unit] BY <2>5 DEF Store
    <3>2. memory' \in [1..Total -> 0..Total]
      <4>1. unit \in 0..Total BY <1>0, <2>1
      <4>2. memory \in [1..Total -> 0..Total] BY <1>0 DEF BoxTypes
      <4> QED BY <3>1, <4>1, <4>2
    <3>3. /\ box.got < box.upload /\ box.upload <= Block /\ box.writeAt <= Len(job.have)
          /\ box.writeAt + box.got <= Len(job.have)
      BY <1>0, <2>1, <2>5 DEF BoxBounds
    <3>4. CASE box.got + 1 = box.upload
      <4>1. box' = [onePort |-> box.onePort, take |-> box.take, readAt |-> box.readAt,
                    writeAt |-> box.writeAt + (box.got + 1), upload |-> 0, got |-> 0,
                    seq |-> box.seq]
        BY <1>0, <2>5, <3>4, BoxFields DEF Store
      <4>2. box.writeAt + (box.got + 1) \in Nat BY <1>0, BoxFields
      <4>3. box' \in Boxes BY <4>1, <4>2, <1>0, BoxFields DEF Boxes
      <4>4. box.writeAt + (box.got + 1) <= Len(job.have) + 1 BY <1>0, <3>3, BoxFields
      <4>5. box.writeAt + (box.got + 1) <= Total
        BY <1>0, <2>1, <4>2, <4>4, BoxFields DEF unit
      <4> QED BY <1>0, <2>3, <3>2, <4>1, <4>3, <4>4, <4>5 DEF BoxTypes, BoxBounds
    <3>5. CASE box.got + 1 # box.upload
      <4>1. box' = [onePort |-> box.onePort, take |-> box.take, readAt |-> box.readAt,
                    writeAt |-> box.writeAt, upload |-> box.upload, got |-> box.got + 1,
                    seq |-> box.seq]
        BY <1>0, <2>5, <3>5, BoxFields DEF Store
      <4>2. box' \in Boxes BY <4>1, <1>0, BoxFields DEF Boxes
      <4>3. box.got + 1 < box.upload /\ box.got + 1 <= Block BY <1>0, <3>3, <3>5, BoxFields
      <4>4. box.writeAt + (box.got + 1) <= Len(job'.have) /\ box.writeAt <= Len(job'.have)
        BY <1>0, <2>3, <3>3, BoxFields
      <4> QED BY <1>0, <3>2, <3>3, <4>1, <4>2, <4>3, <4>4 DEF BoxTypes, BoxBounds
    <3> QED BY <3>4, <3>5
  <2> QED BY <1>6, <2>4, <2>5 DEF SendUnit, unit
<1>7. CASE ReadAll
  <2>1. job'.at = "request" BY <1>7 DEF ReadAll, NoJob
  <2> QED BY <1>1, <1>7, <2>1 DEF ReadAll
<1>8. CASE ReadAnswer \/ ReadData \/ GiveUpRead \/ GiveUpWrite
  <2>1. job.at \in {"ack", "data", "await"} /\ UNCHANGED <<box, memory>>
    BY <1>8 DEF ReadAnswer, ReadData, GiveUpRead, GiveUpWrite
  <2>2. job' = job \/ job'.at \in {"idle", "data", "request"}
    <3>1. CASE ReadAnswer
      BY <3>1, ReadAnswerJob
    <3>2. CASE ReadData
      <4>1. CASE UNCHANGED job BY <4>1
      <4>2. ASSUME NEW have, Copied(have) PROVE job'.at \in {"idle", "data", "request"}
        BY <3>2, <4>2, CopiedJob DEF ReadData
      <4> QED BY <3>2, <4>1, <4>2 DEF ReadData
    <3>3. CASE GiveUpRead \/ GiveUpWrite BY <3>3 DEF GiveUpRead, GiveUpWrite, Throw, NoJob
    <3> QED BY <1>8, <3>1, <3>2, <3>3
  <2> QED BY <1>1, <2>1, <2>2
<1>9. CASE Commit \/ WriteAnswer
  <2>1. job.at \in Uploading /\ UNCHANGED <<box, memory>> BY <1>9 DEF Commit, WriteAnswer
  <2>2. job'.have = job.have \/ job'.at = "idle"
    BY <1>9, CommitJob, WriteAnswerJob
  <2>3. CASE job'.have = job.have BY <1>1, <2>1, <2>3
  <2>4. CASE job'.at = "idle" BY <1>1, <2>1, <2>4
  <2> QED BY <2>2, <2>3, <2>4
<1>10. CASE OtherCommand \/ LoseDatagram
  BY <1>1, <1>10 DEF OtherCommand, LoseDatagram
<1> QED
  BY <1>2, <1>3, <1>4, <1>5, <1>6, <1>7, <1>8, <1>9, <1>10 DEF TransferNext

LEMMA TransferTypesKept == TransferTypes /\ [TransferNext]_transferVars => TransferTypes'
<1>1. ASSUME TransferTypes, TransferNext PROVE TransferTypes'
  BY <1>1, JobTypesKept, QueueTypesKept, BoxTypesKept, HistoryTypesKept DEF TransferTypes
<1>2. ASSUME TransferTypes, UNCHANGED transferVars PROVE TransferTypes'
  BY <1>2 DEF TransferTypes, transferVars, JobTypes, QueueTypes, BoxTypes, HistoryTypes,
     JobBounds, BoxBounds
<1> QED BY <1>1, <1>2

\* Every variable keeps its type: no transfer takes more than the device recorded
\* or the buffer holds, and no upload leaves the device's memory.
THEOREM TransferTypeCorrect == TransferSpec => []TransferTypeOK
<1>1. TransferTypes => TransferTypeOK
  <2> SUFFICES ASSUME TransferTypes PROVE TransferTypeOK OBVIOUS
  <2>1. job.at \in TransferPhases /\ job.want \in Nat BY JobFields DEF TransferTypes
  <2>2. Len(job.have) <= Total /\ job.want \in 0..Total
    BY <2>1, TransferAssumption DEF TransferTypes, JobBounds
  <2>3. spent.jobs <= MaxJobs /\ spent.faults <= MaxLosses
    BY TransferAssumption DEF TransferTypes, HistoryTypes
  <2>4. box.onePort \in BOOLEAN /\ memory \in [1..Total -> 0..Total] /\ excuse \in BOOLEAN
    BY BoxFields DEF TransferTypes, BoxTypes, HistoryTypes
  <2>5. box.readAt <= Total /\ box.writeAt <= Total /\ box.got <= Block
    BY DEF TransferTypes, BoxBounds
  <2> QED BY <2>1, <2>2, <2>3, <2>4, <2>5 DEF TransferTypeOK, TransferPhases
<1> QED BY <1>1, TransferInitTypes, TransferTypesKept, PTL DEF TransferSpec

-----------------------------------------------------------------------------
(* A chunk in the queue.                                                       *)

\* What the host has are the units of the take before the one numbered end.
Taken(have, take, end) == \A i \in 1..Len(have): have[i] = <<take, (end - Len(have)) + i>>
\* The due units after the p-th datagram are those after number from.
Coming(q, p, take, from, due) ==
    \A j \in 1..due: q[p + j] = [kind |-> "iq", take |-> take, unit |-> from + j]
\* Of a chunk the device sent, with which it came to the offset at, due units are
\* outstanding: no more than those are in the queue after its p-th datagram, and if they
\* all are then they are the chunk's, and nothing before them was lost.
Chunk(q, p, due, have, take, at) ==
    /\ Len(q) - p <= due /\ Len(have) + due <= at
    /\ Len(q) - p = due => Taken(have, take, at - due) /\ Coming(q, p, take, at - due, due)

\* Every answer in the queue has a smaller number than n; one has the number n.
Before(q, n) == \A p \in 1..Len(q): q[p].kind = "ack" => q[p].seq < n
Answered(q, n) == \E p \in 1..Len(q): q[p].kind = "ack" /\ q[p].seq = n

LEMMA TailAt ==
    ASSUME NEW S, NEW q \in Seq(S), q # <<>>
    PROVE  /\ Len(Tail(q)) = Len(q) - 1 /\ Len(q) \in Nat \ {0} /\ Head(q) = q[1]
           /\ \A p \in 1..Len(Tail(q)): Tail(q)[p] = q[p + 1] /\ p + 1 \in 1..Len(q)
OBVIOUS

LEMMA BeforeTail ==
    ASSUME NEW q \in Seq(Datagrams), q # <<>>, NEW n, Before(q, n)
    PROVE  Before(Tail(q), n)
BY TailAt DEF Before

LEMMA BeforeLess ==
    ASSUME NEW q \in Seq(Datagrams), NEW n \in Nat, Before(q, n)
    PROVE  Before(q, n + 1) /\ ~Answered(q, n)
<1>1. ASSUME NEW p \in 1..Len(q), q[p].kind = "ack" PROVE q[p].seq < n /\ q[p].seq \in Nat
  <2>1. q[p] \in Datagrams OBVIOUS
  <2> QED BY <1>1, <2>1, AckIsAck DEF Before
<1> QED BY <1>1 DEF Before, Answered

LEMMA AnsweredTail ==
    ASSUME NEW q \in Seq(Datagrams), q # <<>>, NEW n, Answered(Tail(q), n)
    PROVE  Answered(q, n)
BY TailAt DEF Answered

\* A datagram and data behind a queue: the place p is one of the queue's m, the
\* datagram's, or one of the n data.
Place(p, m, n) == p \in 1..m \/ p = m + 1 \/ \E j \in 1..n: p = m + 1 + j

LEMMA JoinedAt ==
    ASSUME NEW q \in Seq(Datagrams), NEW d \in Datagrams, NEW data \in Seq(Datagrams),
           NEW r, r = q \o <<d>> \o data
    PROVE  /\ Len(r) = Len(q) + 1 + Len(data) /\ Len(q) \in Nat /\ Len(data) \in Nat
           /\ \A p \in 1..Len(q): r[p] = q[p]
           /\ r[Len(q) + 1] = d
           /\ \A j \in 1..Len(data): r[Len(q) + 1 + j] = data[j]
           /\ \A p \in 1..Len(r): Place(p, Len(q), Len(data))
<1>. DEFINE s == q \o <<d>>
<1>1. s \in Seq(Datagrams) /\ Len(s) = Len(q) + 1 /\ s[Len(q) + 1] = d
      /\ \A p \in 1..Len(q): s[p] = q[p]
  OBVIOUS
<1>0. Len(q) \in Nat /\ Len(data) \in Nat OBVIOUS
<1>10. r = s \o data OBVIOUS
<1>. HIDE DEF s
<1>2. Len(r) = Len(s) + Len(data) BY <1>1, <1>10
<1>3. \A p \in 1..Len(s): r[p] = s[p] BY <1>1, <1>10
<1>4. \A j \in 1..Len(data): r[Len(s) + j] = data[j] BY <1>1, <1>10
<1>5. ASSUME NEW p \in 1..Len(r), p \notin 1..Len(q), p # Len(q) + 1
      PROVE  \E j \in 1..Len(data): p = Len(q) + 1 + j
  <2>1. p - (Len(q) + 1) \in 1..Len(data) BY <1>0, <1>1, <1>2, <1>5
  <2>2. p = Len(q) + 1 + (p - (Len(q) + 1)) BY <1>0
  <2> QED BY <2>1, <2>2
<1>11. \A p \in 1..Len(r): Place(p, Len(q), Len(data)) BY <1>5 DEF Place
<1>6. Len(r) = Len(q) + 1 + Len(data) BY <1>0, <1>1, <1>2
<1>7. \A p \in 1..Len(q): r[p] = q[p] BY <1>0, <1>1, <1>3
<1>8. r[Len(q) + 1] = d BY <1>0, <1>1, <1>3
<1>9. \A j \in 1..Len(data): r[Len(q) + 1 + j] = data[j] BY <1>1, <1>4
<1> QED BY <1>0, <1>6, <1>7, <1>8, <1>9, <1>11

LEMMA AppendAt ==
    ASSUME NEW S, NEW q \in Seq(S), NEW d \in S
    PROVE  /\ Len(Append(q, d)) = Len(q) + 1 /\ Len(q) \in Nat /\ Append(q, d)[Len(q) + 1] = d
           /\ \A p \in 1..Len(q): Append(q, d)[p] = q[p]
           /\ \A p \in 1..Len(Append(q, d)): p \in 1..Len(q) \/ p = Len(q) + 1
OBVIOUS

LEMMA BeforeAppend ==
    ASSUME NEW q \in Seq(Datagrams), NEW d \in Datagrams, NEW n \in Nat, Before(q, n), d.seq < n
    PROVE  Before(Append(q, d), n)
BY AppendAt DEF Before

LEMMA BeforeJoined ==
    ASSUME NEW q \in Seq(Datagrams), NEW d \in Datagrams, NEW data \in Seq(Datagrams),
           NEW n \in Nat, Before(q, n), d.seq < n, \A j \in 1..Len(data): data[j].kind = "iq"
    PROVE  Before(q \o <<d>> \o data, n)
<1>. DEFINE r == q \o <<d>> \o data
<1> SUFFICES ASSUME NEW p \in 1..Len(r), r[p].kind = "ack" PROVE r[p].seq < n BY DEF Before
<1>1. Place(p, Len(q), Len(data)) BY JoinedAt
<1>2. \A j \in 1..Len(data): r[Len(q) + 1 + j].kind = "iq" BY JoinedAt
<1>3. CASE p \in 1..Len(q) BY <1>3, JoinedAt DEF Before
<1>4. CASE p = Len(q) + 1 BY <1>4, JoinedAt
<1> QED BY <1>1, <1>2, <1>3, <1>4 DEF Place

-----------------------------------------------------------------------------
(* What happens to a chunk.                                                    *)

LEMMA TakenSame ==
    ASSUME NEW have, NEW take, NEW e1, NEW e2, e1 = e2, Taken(have, take, e1)
    PROVE  Taken(have, take, e2)
OBVIOUS

\* The datagram before it leaves the queue.
LEMMA ChunkMovesUp ==
    ASSUME NEW q \in Seq(Datagrams), q # <<>>, NEW p \in Nat, NEW due \in Nat, NEW have,
           NEW take, NEW at \in Nat, Chunk(q, p + 1, due, have, take, at)
    PROVE  Chunk(Tail(q), p, due, have, take, at)
<1>1. Len(Tail(q)) = Len(q) - 1 /\ Len(q) \in Nat BY TailAt
<1>2. Len(Tail(q)) - p = Len(q) - (p + 1) BY <1>1
<1>3. ASSUME Len(Tail(q)) - p = due, NEW j \in 1..due, Coming(q, p + 1, take, at - due, due)
      PROVE  Tail(q)[p + j] = [kind |-> "iq", take |-> take, unit |-> (at - due) + j]
  <2>1. p + j \in 1..Len(Tail(q)) BY <1>1, <1>3
  <2>2. Tail(q)[p + j] = q[(p + j) + 1] BY <2>1, TailAt
  <2>3. (p + j) + 1 = (p + 1) + j OBVIOUS
  <2> QED BY <1>3, <2>2, <2>3 DEF Coming
<1> QED BY <1>2, <1>3 DEF Chunk, Coming

\* One of its units is lost, or taken for something else.
LEMMA ChunkLosesOne ==
    ASSUME NEW q \in Seq(Datagrams), q # <<>>, NEW due \in Nat, NEW have,
           NEW take, NEW at \in Nat, Chunk(q, 0, due, have, take, at)
    PROVE  Chunk(Tail(q), 0, due, have, take, at)
<1>1. Len(Tail(q)) = Len(q) - 1 /\ Len(q) \in Nat BY TailAt
<1>2. Len(q) - 0 <= due /\ Len(have) + due <= at BY DEF Chunk
<1>3. Len(Tail(q)) - 0 <= due /\ Len(Tail(q)) - 0 # due
  <2> DEFINE m == Len(q)
  <2>1. m \in Nat /\ m - 0 <= due BY <1>1, <1>2
  <2>2. Len(Tail(q)) = m - 1 BY <1>1
  <2> HIDE DEF m
  <2> QED BY <2>1, <2>2
<1> QED BY <1>2, <1>3 DEF Chunk

\* One is received.
LEMMA ChunkTakesOne ==
    ASSUME NEW q \in Seq(Datagrams), q # <<>>, NEW due \in Nat \ {0}, NEW have \in Seq(Sample),
           NEW take, NEW at \in Nat, Chunk(q, 0, due, have, take, at),
           NEW x \in Sample, x = <<Head(q).take, Head(q).unit>>
    PROVE  Chunk(Tail(q), 0, due - 1, Append(have, x), take, at)
<1>1. Len(Tail(q)) = Len(q) - 1 /\ Len(q) \in Nat \ {0} /\ Head(q) = q[1] BY TailAt
<1>0. Len(q) - 0 <= due /\ Len(have) + due <= at BY DEF Chunk
<1>2. Len(q) <= due /\ Len(have) + due <= at /\ Len(have) \in Nat
  <2> DEFINE m == Len(q)
             k == Len(have)
  <2>1. m \in Nat /\ m - 0 <= due /\ k + due <= at /\ k \in Nat BY <1>0, <1>1
  <2> HIDE DEF m, k
  <2>2. m <= due BY <2>1
  <2> QED BY <2>1, <2>2 DEF m, k
<1>3. Len(Append(have, x)) = Len(have) + 1 /\ Append(have, x)[Len(have) + 1] = x
      /\ \A i \in 1..Len(have): Append(have, x)[i] = have[i]
  BY AppendAt
<1>4. Len(Tail(q)) - 0 <= due - 1 /\ Len(Append(have, x)) + (due - 1) <= at
  BY <1>1, <1>2, <1>3
<1>5. ASSUME Len(Tail(q)) - 0 = due - 1
      PROVE  /\ Taken(Append(have, x), take, at - (due - 1))
             /\ Coming(Tail(q), 0, take, at - (due - 1), due - 1)
  <2>1. Len(q) - 0 = due
    <3> DEFINE m == Len(q)
               t == Len(Tail(q))
    <3>1. m \in Nat /\ t = m - 1 /\ t - 0 = due - 1 BY <1>1, <1>5
    <3> HIDE DEF m, t
    <3>2. m - 0 = due BY <3>1
    <3> QED BY <3>2 DEF m
  <2>2. Taken(have, take, at - due) /\ Coming(q, 0, take, at - due, due) BY <2>1 DEF Chunk
  <2>3. q[0 + 1] = [kind |-> "iq", take |-> take, unit |-> (at - due) + 1]
    BY <2>2 DEF Coming
  <2>4. x = <<take, (at - due) + 1>> BY <1>1, <2>3
  <2>5. (at - (due - 1)) - Len(Append(have, x)) = (at - due) - Len(have) BY <1>2, <1>3
  <2>6. ((at - due) - Len(have)) + (Len(have) + 1) = (at - due) + 1 BY <1>2
  <2>7. ASSUME NEW i \in 1..Len(Append(have, x))
        PROVE  Append(have, x)[i] = <<take, ((at - due) - Len(have)) + i>>
    <3>1. CASE i \in 1..Len(have) BY <3>1, <1>3, <2>2 DEF Taken
    <3>2. CASE i = Len(have) + 1 BY <3>2, <1>3, <2>4, <2>6
    <3> QED BY <1>2, <1>3, <3>1, <3>2
  <2>8. Taken(Append(have, x), take, at - (due - 1)) BY <2>5, <2>7 DEF Taken
  <2>9. ASSUME NEW j \in 1..(due - 1)
        PROVE  Tail(q)[0 + j] = [kind |-> "iq", take |-> take, unit |-> (at - (due - 1)) + j]
    <3>1. j \in 1..Len(Tail(q))
      <4> DEFINE t == Len(Tail(q))
      <4>1. t - 0 = due - 1 BY <1>5
      <4>2. Tail(q) \in Seq(Datagrams) /\ t \in Nat BY BelongsToSeq
      <4> HIDE DEF t
      <4>3. j \in 1..t BY <4>1, <4>2
      <4> QED BY <4>3 DEF t
    <3>2. Tail(q)[j] = q[j + 1] BY <3>1, TailAt
    <3>3. j + 1 \in 1..due OBVIOUS
    <3>4. q[0 + (j + 1)] = [kind |-> "iq", take |-> take, unit |-> (at - due) + (j + 1)]
      BY <2>2, <3>3 DEF Coming
    <3>5. (at - due) + (j + 1) = (at - (due - 1)) + j OBVIOUS
    <3>6. 0 + (j + 1) = j + 1 /\ 0 + j = j OBVIOUS
    <3> QED BY <3>2, <3>4, <3>5, <3>6
  <2> QED BY <2>8, <2>9 DEF Coming
<1> QED BY <1>4, <1>5 DEF Chunk

\* The device sends the next one behind the queue.
LEMMA ChunkSent ==
    ASSUME NEW q \in Seq(Datagrams), NEW p \in Nat, NEW n \in Nat, NEW have \in Seq(Sample),
           NEW take, NEW at \in Nat,
           Len(have) <= at, Taken(have, take, at),
           Len(q) = p + n, \A j \in 1..n: q[p + j] = [kind |-> "iq", take |-> take, unit |-> at + j]
    PROVE  Chunk(q, p, n, have, take, at + n)
<1>1. (at + n) - n = at /\ Len(q) - p = n /\ Len(have) \in Nat /\ n <= n OBVIOUS
<1>2. Len(have) + n <= at + n BY <1>1
<1>3. Coming(q, p, take, at, n) BY DEF Coming
<1> QED BY <1>1, <1>2, <1>3 DEF Chunk

\* None is outstanding.
LEMMA ChunkDone ==
    ASSUME NEW q \in Seq(Datagrams), NEW have \in Seq(Sample), NEW take, NEW at \in Nat,
           Chunk(q, 0, 0, have, take, at)
    PROVE  Len(q) = 0 /\ q = <<>> /\ Len(have) <= at /\ Taken(have, take, at)
<1>1. Len(q) \in Nat /\ Len(have) \in Nat OBVIOUS
<1>2. Len(q) = 0 /\ Len(have) <= at BY <1>1 DEF Chunk
<1>3. Taken(have, take, at - 0) BY <1>1, <1>2 DEF Chunk
<1>4. at - 0 = at OBVIOUS
<1>5. q = <<>> BY <1>2
<1> QED BY <1>2, <1>3, <1>4, <1>5

\* The whole take, of a device that recorded no more than that.
LEMMA WholeTaken ==
    ASSUME NEW have \in Seq(Sample), NEW take, NEW at \in Nat, Taken(have, take, at),
           Len(have) <= at, at <= Total, ~(Len(have) < Total)
    PROVE  \A i \in 1..Total: have[i] = <<take, i>>
<1>1. Len(have) \in Nat /\ Total \in Nat BY TransferAssumption
<1>2. Len(have) = Total /\ at = Total BY <1>1
<1>3. \A i \in 1..Total: (at - Len(have)) + i = i BY <1>1, <1>2
<1> QED BY <1>2, <1>3 DEF Taken

-----------------------------------------------------------------------------
(* TransferExact is not inductive.  It needs where a chunk's datagrams are     *)
(* while it is read, and what the device has stored when the answer to an      *)
(* upload is on its way.  Over the split protocol the call must have met       *)
(* nothing of an earlier one.                                                  *)

Clean == Joined \/ ~excuse
\* The place in the record port's queue behind the datagram at p of the queue the host
\* waits on.
Behind(p) == IF Joined THEN p ELSE 0
Outstanding(p, due) == Chunk(inbox, p, due, job.have, box.take, box.readAt)
AtRequest == job.at = "request" => Outstanding(Behind(Len(inbox)), 0)
AtAck ==
    job.at = "ack" =>
        \A p \in 1..Len(Received):
            IsAnswer(Received[p]) => Outstanding(Behind(p), Received[p].value)
AtData == job.at = "data" => Outstanding(0, job.want - Len(job.have))

\* The device's memory holds the first n units of the waveform.
StoredTo(n) == \A i \in 1..Total: i <= n => memory[i] = i
\* The upload to which the device has answered.
ChunkStored == StoredTo(Len(job.have)) /\ box.writeAt = Len(job.have) /\ box.upload = 0
\* The device got n units of the chunk that begins after base.
ChunkUnderWay(base) ==
    /\ box.upload = job.size /\ box.seq = lastSeq /\ box.writeAt = base
    /\ base + box.got <= Len(job.have)
    /\ base + box.got = Len(job.have) => StoredTo(Len(job.have))
AtOffset == job.at = "offset" => ChunkStored
AtSend ==
    job.at = "send" =>
        /\ job.size <= job.want /\ job.want - job.size <= Len(job.have)
        /\ job.place = Len(job.have) /\ Before(Received, lastSeq)
        /\ box.upload > 0 => ChunkUnderWay(job.want - job.size)
AtCommit == job.at = "commit" => (Answered(Received, lastSeq) => ChunkStored)
AtAwait == job.at = "await" => (Answered(Received, job.seq) => ChunkStored)

Numbered == box.seq <= lastSeq /\ Before(Received, lastSeq + 1)
Reading == Clean => AtRequest /\ AtAck /\ AtData
Writing == Clean => AtOffset /\ AtSend /\ AtCommit /\ AtAwait
TransferInv == TransferTypes /\ Numbered /\ Reading /\ Writing /\ TransferExact

LEMMA TransferInitInv == TransferInit => TransferInv
<1> SUFFICES ASSUME TransferInit PROVE TransferInv OBVIOUS
<1>1. job.at = "idle" /\ inbox = <<>> /\ acks = <<>> /\ lastSeq = 0 /\ box.seq = 0
      /\ outcome.exact
  BY DEF TransferInit, NoJob, NothingYet
<1>2. Received = <<>> BY <1>1 DEF Received
<1>3. Numbered BY <1>1, <1>2 DEF Numbered, Before
<1>4. Reading BY <1>1 DEF Reading, AtRequest, AtAck, AtData
<1>5. Writing BY <1>1 DEF Writing, AtOffset, AtSend, AtCommit, AtAwait
<1>6. TransferExact BY <1>1 DEF TransferExact
<1> QED BY <1>3, <1>4, <1>5, <1>6, TransferInitTypes DEF TransferInv

\* A device is of one kind.
LEMMA PortKept ==
    ASSUME TransferTypes, TransferNext
    PROVE  (Joined' <=> Joined) /\ box'.onePort = box.onePort
<1>0. BoxTypes BY DEF TransferTypes
<1>1. CASE UNCHANGED box BY <1>1 DEF Joined
<1>2. CASE StartRecord BY <1>0, <1>2, BoxFields DEF StartRecord, Joined
<1>3. CASE WriteAll BY <1>0, <1>3, BoxFields DEF WriteAll, Joined
<1>4. CASE ReadNext
  <2>1. ASSUME NEW n, box' = [box EXCEPT !.readAt = n] PROVE box'.onePort = box.onePort
    BY <1>0, <2>1, BoxFields
  <2> QED BY <1>1, <1>4, <2>1 DEF ReadNext, Joined
<1>5. CASE WriteNext
  <2>1. ASSUME NEW n, box' = [box EXCEPT !.upload = n, !.got = 0, !.seq = lastSeq + 1]
        PROVE box'.onePort = box.onePort
    BY <1>0, <2>1, BoxFields
  <2> QED BY <1>1, <1>5, <2>1 DEF WriteNext, Joined
<1>6. CASE SendUnit
  <2>1. ASSUME NEW place, NEW unit, Store(place, unit) PROVE box'.onePort = box.onePort
    BY <1>0, <2>1, BoxFields DEF Store
  <2> QED BY <1>1, <1>6, <2>1 DEF SendUnit, Joined
<1>7. CASE ReadAll \/ ReadAnswer \/ ReadData \/ GiveUpRead \/ Commit \/ WriteAnswer
           \/ GiveUpWrite \/ OtherCommand \/ LoseDatagram
  BY <1>1, <1>7 DEF ReadAll, ReadAnswer, ReadData, GiveUpRead, Commit, WriteAnswer,
     GiveUpWrite, OtherCommand, LoseDatagram
<1> QED BY <1>2, <1>3, <1>4, <1>5, <1>6, <1>7 DEF TransferNext

LEMMA ReceivedSame ==
    ASSUME UNCHANGED <<inbox, acks>>, Joined' <=> Joined
    PROVE  Received' = Received
BY DEF Received

\* Of the queue the host waits on the first datagram leaves, or none does.
LEMMA ReceivedAfter ==
    ASSUME Joined' <=> Joined,
           \/ Receive
           \/ inbox' = Tail(inbox) /\ UNCHANGED acks
           \/ acks' = Tail(acks) /\ UNCHANGED inbox
    PROVE  Received' = Tail(Received) \/ Received' = Received
BY DEF Received, Receive

LEMMA ReceiveIsTail ==
    ASSUME Joined' <=> Joined, Receive
    PROVE  Received' = Tail(Received)
BY DEF Received, Receive

\* The device's datagrams for the host go behind the others.
LEMMA ReceivedMore ==
    ASSUME QueueTypes, Joined' <=> Joined, NEW ack \in Datagrams,
           NEW data \in Seq(Datagrams), ToHost(ack, data)
    PROVE  /\ Received' = IF Joined THEN inbox \o <<ack>> \o data ELSE Append(acks, ack)
           /\ inbox' = IF Joined THEN inbox \o <<ack>> \o data ELSE inbox \o data
BY DEF Received, ToHost

LEMMA NumberedMore ==
    ASSUME QueueTypes, Joined' <=> Joined, NEW ack \in Datagrams,
           NEW data \in Seq(Datagrams), ToHost(ack, data), NEW n \in Nat,
           Before(Received, n), ack.seq < n, \A j \in 1..Len(data): data[j].kind = "iq"
    PROVE  Before(Received', n)
<1>0. inbox \in Seq(Datagrams) /\ acks \in Seq(Datagrams) BY DEF QueueTypes
<1>1. CASE Joined
  <2>1. Before(inbox, n) BY <1>1 DEF Received
  <2>2. Before(inbox \o <<ack>> \o data, n) BY <1>0, <2>1, BeforeJoined
  <2> QED BY <1>1, <2>2, ReceivedMore
<1>2. CASE ~Joined
  <2>1. Before(acks, n) BY <1>2 DEF Received
  <2>2. Before(Append(acks, ack), n) BY <1>0, <2>1, BeforeAppend
  <2> QED BY <1>2, <2>2, ReceivedMore
<1> QED BY <1>1, <1>2

\* What the device sends after READ_NEXT.
ChunkData(n) ==
    [i \in 1..n |-> [kind |-> "iq", take |-> box.take, unit |-> box.readAt + i]]

LEMMA ChunkDataTyped ==
    ASSUME BoxTypes, NEW n \in Nat
    PROVE  /\ ChunkData(n) \in Seq(Datagrams) /\ Len(ChunkData(n)) = n
           /\ \A j \in 1..n: ChunkData(n)[j].kind = "iq"
           /\ \A j \in 1..n: ChunkData(n)[j]
                                = [kind |-> "iq", take |-> box.take, unit |-> box.readAt + j]
<1>1. box.take \in Nat /\ box.readAt \in Nat BY BoxFields
<1>2. \A i \in 1..n: [kind |-> "iq", take |-> box.take, unit |-> box.readAt + i] \in Datagrams
  BY <1>1 DEF Datagrams, Units
<1>3. ChunkData(n) \in Seq(Datagrams) BY <1>2 DEF ChunkData
<1>4. Len(ChunkData(n)) = n BY DEF ChunkData
<1> QED BY <1>3, <1>4 DEF ChunkData

\* READ_NEXT arrives at the device, or is lost.
LEMMA ReadNextCases ==
    ASSUME TransferTypes, ReadNext
    PROVE  LET n == Lesser(Block, Total - box.readAt) IN
           /\ n \in Nat /\ lastSeq' = lastSeq + 1 /\ job.at = "request"
           /\ job'.at = "ack" /\ job'.have = job.have /\ job'.seq = lastSeq + 1
           /\ \/ /\ ToHost(Answer(lastSeq + 1, n), ChunkData(n))
                 /\ box'.readAt = box.readAt + n /\ box'.take = box.take /\ box'.seq = box.seq
              \/ UNCHANGED <<inbox, acks, box>>
<1>. DEFINE n == Lesser(Block, Total - box.readAt)
<1>0. JobTypes /\ BoxTypes /\ box.readAt \in Nat /\ box.readAt <= Total
  BY BoxFields DEF TransferTypes, BoxBounds
<1>1. Total - box.readAt \in Nat /\ Block \in Nat BY <1>0, TransferAssumption
<1>2. n \in Nat BY <1>1, LesserTyped
<1>3. job' = [job EXCEPT !.at = "ack", !.seq = lastSeq + 1] /\ job.at = "request"
      /\ lastSeq' = lastSeq + 1
  BY DEF ReadNext
<1>4. job' = [at |-> "ack", have |-> job.have, want |-> job.want, size |-> job.size,
              place |-> job.place, seq |-> lastSeq + 1]
  BY <1>0, <1>3, JobFields
<1>5. \/ ToHost(Answer(lastSeq + 1, n), ChunkData(n)) /\ box' = [box EXCEPT !.readAt = @ + n]
      \/ UNCHANGED <<inbox, acks, box>>
  BY DEF ReadNext, ChunkData
<1> HIDE DEF n
<1>6. ASSUME box' = [box EXCEPT !.readAt = @ + n]
      PROVE  box'.readAt = box.readAt + n /\ box'.take = box.take /\ box'.seq = box.seq
  BY <1>0, <1>6, BoxFields
<1> QED BY <1>2, <1>3, <1>4, <1>5, <1>6 DEF n

\* A unit reaches the device: it is the last of the upload, or not.
LEMMA StoreCases ==
    ASSUME TransferTypes, NEW place, NEW unit, Store(place, unit)
    PROVE  /\ memory' = [memory EXCEPT ![place] = unit]
           /\ \/ /\ box.got + 1 = box.upload /\ ToHost(Answer(box.seq, box.got + 1), <<>>)
                 /\ box'.writeAt = box.writeAt + (box.got + 1) /\ box'.upload = 0
                 /\ box'.seq = box.seq
              \/ /\ box.got + 1 # box.upload /\ UNCHANGED <<inbox, acks>>
                 /\ box'.writeAt = box.writeAt /\ box'.upload = box.upload
                 /\ box'.got = box.got + 1 /\ box'.seq = box.seq
<1>0. BoxTypes BY DEF TransferTypes
<1>1. memory' = [memory EXCEPT ![place] = unit] BY DEF Store
<1>2. CASE box.got + 1 = box.upload
  <2>1. box' = [box EXCEPT !.writeAt = @ + (box.got + 1), !.upload = 0, !.got = 0]
        /\ ToHost(Answer(box.seq, box.got + 1), <<>>)
    BY <1>2 DEF Store
  <2>2. box' = [onePort |-> box.onePort, take |-> box.take, readAt |-> box.readAt,
                writeAt |-> box.writeAt + (box.got + 1), upload |-> 0, got |-> 0,
                seq |-> box.seq]
    BY <1>0, <2>1, BoxFields
  <2> QED BY <1>1, <1>2, <2>1, <2>2
<1>3. CASE box.got + 1 # box.upload
  <2>1. box' = [box EXCEPT !.got = box.got + 1] /\ UNCHANGED <<inbox, acks>> BY <1>3 DEF Store
  <2>2. box' = [onePort |-> box.onePort, take |-> box.take, readAt |-> box.readAt,
                writeAt |-> box.writeAt, upload |-> box.upload, got |-> box.got + 1,
                seq |-> box.seq]
    BY <1>0, <2>1, BoxFields
  <2> QED BY <1>1, <1>3, <2>1, <2>2
<1> QED BY <1>2, <1>3

LEMMA NumberedKept ==
    ASSUME TransferTypes, Numbered, TransferNext
    PROVE  Numbered'
<1>0. /\ lastSeq \in Nat /\ lastSeq + 1 \in Nat /\ box.seq \in Nat /\ box.seq <= lastSeq
      /\ QueueTypes /\ BoxTypes /\ Received \in Seq(Datagrams) /\ Before(Received, lastSeq + 1)
      /\ (Joined' <=> Joined)
  BY BoxFields, ReceivedTyped, PortKept DEF TransferTypes, QueueTypes, Numbered
<1>1. Before(Received, (lastSeq + 1) + 1) BY <1>0, BeforeLess
<1>2. ASSUME UNCHANGED <<inbox, acks>>, lastSeq' \in {lastSeq, lastSeq + 1},
             box'.seq \in {box.seq, lastSeq'}
      PROVE  Numbered'
  BY <1>0, <1>1, <1>2, ReceivedSame DEF Numbered
<1>3. ASSUME Received' = Received \/ (Received # <<>> /\ Received' = Tail(Received)),
             UNCHANGED <<lastSeq, box>>
      PROVE  Numbered'
  BY <1>0, <1>3, BeforeTail DEF Numbered
<1>4. CASE ReadNext
  <2> DEFINE n == Lesser(Block, Total - box.readAt)
  <2>1. n \in Nat /\ lastSeq' = lastSeq + 1 BY <1>4, ReadNextCases
  <2>2. CASE UNCHANGED <<inbox, acks, box>> BY <1>2, <2>1, <2>2
  <2>3. CASE ToHost(Answer(lastSeq + 1, n), ChunkData(n)) /\ box'.seq = box.seq
    <3> HIDE DEF n
    <3>1. Answer(lastSeq + 1, n) \in Datagrams /\ Answer(lastSeq + 1, n).seq < (lastSeq + 1) + 1
      BY <1>0, <2>1, AnswerTyped DEF Answer
    <3>2. /\ ChunkData(n) \in Seq(Datagrams)
          /\ \A j \in 1..Len(ChunkData(n)): ChunkData(n)[j].kind = "iq"
      BY <1>0, <2>1, ChunkDataTyped
    <3>3. Before(Received', (lastSeq + 1) + 1)
      BY <1>0, <1>1, <2>3, <3>1, <3>2, NumberedMore
    <3> QED BY <1>0, <2>1, <2>3, <3>3 DEF Numbered
  <2> QED BY <1>4, <2>2, <2>3, ReadNextCases
<1>5. CASE SendUnit
  <2>1. lastSeq' = lastSeq BY <1>5 DEF SendUnit
  <2>2. CASE UNCHANGED <<inbox, acks, box>> BY <1>2, <2>1, <2>2
  <2>3. CASE Store(job.place + 1, Len(job.have) + 1)
    <3>1. box'.seq = box.seq BY <2>3, StoreCases
    <3>2. CASE UNCHANGED <<inbox, acks>> BY <1>2, <2>1, <3>1, <3>2
    <3>3. CASE ToHost(Answer(box.seq, box.got + 1), <<>>)
      <4>1. box.got + 1 \in Nat BY <1>0, BoxFields
      <4>2. Answer(box.seq, box.got + 1) \in Datagrams
            /\ Answer(box.seq, box.got + 1).seq < lastSeq + 1
        BY <1>0, <4>1, AnswerTyped DEF Answer
      <4>3. <<>> \in Seq(Datagrams) /\ \A j \in 1..Len(<<>>): <<>>[j].kind = "iq" OBVIOUS
      <4>4. Before(Received', lastSeq + 1) BY <1>0, <3>3, <4>2, <4>3, NumberedMore
      <4> QED BY <1>0, <2>1, <3>1, <4>4 DEF Numbered
    <3> QED BY <2>3, <3>2, <3>3, StoreCases
  <2> QED BY <1>5, <2>2, <2>3 DEF SendUnit
<1>6. CASE ReadAnswer BY <1>0, <1>3, <1>6, ReceiveIsTail DEF ReadAnswer
<1>7. CASE WriteAnswer BY <1>0, <1>3, <1>7, ReceiveIsTail DEF WriteAnswer
<1>8. CASE ReadData BY <1>0, <1>3, <1>8 DEF ReadData, Received
<1>9. CASE LoseDatagram BY <1>0, <1>3, <1>9 DEF LoseDatagram, Received
<1>10. CASE OtherCommand
  <2>1. PICK value \in {0, Block}: acks' = Append(acks, Answer(lastSeq + 1, value))
    BY <1>10 DEF OtherCommand
  <2>2. value \in Nat BY TransferAssumption
  <2>3. /\ Answer(lastSeq + 1, value) \in Datagrams
        /\ Answer(lastSeq + 1, value).seq < (lastSeq + 1) + 1
    BY <1>0, <2>2, AnswerTyped DEF Answer
  <2>4. ~Joined /\ lastSeq' = lastSeq + 1 /\ box' = box BY <1>10 DEF OtherCommand
  <2>5. Received = acks /\ Received' = Append(acks, Answer(lastSeq + 1, value))
    BY <1>0, <2>1, <2>4 DEF Received
  <2>6. Before(Received', (lastSeq + 1) + 1) BY <1>0, <1>1, <2>3, <2>5, BeforeAppend
  <2> QED BY <1>0, <2>4, <2>6 DEF Numbered
<1>11. CASE WriteNext
  <2>1. ASSUME NEW n, box' = [box EXCEPT !.upload = n, !.got = 0, !.seq = lastSeq + 1]
        PROVE  box'.seq = lastSeq + 1
    BY <1>0, <2>1, BoxFields
  <2> QED BY <1>2, <1>11, <2>1 DEF WriteNext
<1>12. CASE StartRecord \/ WriteAll
  <2>1. box'.seq = box.seq BY <1>0, <1>12, BoxFields DEF StartRecord, WriteAll
  <2> QED BY <1>2, <1>12, <2>1 DEF StartRecord, WriteAll
<1>13. CASE ReadAll \/ GiveUpRead \/ Commit \/ GiveUpWrite
  BY <1>2, <1>13 DEF ReadAll, GiveUpRead, Commit, GiveUpWrite
<1> QED
  BY <1>4, <1>5, <1>6, <1>7, <1>8, <1>9, <1>10, <1>11, <1>12, <1>13 DEF TransferNext

-----------------------------------------------------------------------------
(* Reading.                                                                    *)

\* A step that leaves the chunk where it is.
LEMMA OutstandingSame ==
    ASSUME UNCHANGED <<inbox, box>>, job'.have = job.have, NEW p, NEW due, Outstanding(p, due)
    PROVE  Outstanding(p, due)'
BY DEF Outstanding

LEMMA ReadNextReads ==
    ASSUME TransferTypes, Numbered, Reading, ReadNext
    PROVE  Reading'
<1> SUFFICES ASSUME Clean' PROVE (AtRequest /\ AtAck /\ AtData)' BY DEF Reading
<1>. DEFINE n == Lesser(Block, Total - box.readAt)
<1>0. /\ lastSeq \in Nat /\ QueueTypes /\ BoxTypes /\ Received \in Seq(Datagrams)
      /\ (Joined' <=> Joined) /\ inbox \in Seq(Datagrams) /\ acks \in Seq(Datagrams)
      /\ job.have \in Seq(Sample) /\ Before(Received, lastSeq + 1) /\ excuse' = excuse
      /\ box.readAt \in Nat
  BY JobFields, BoxFields, ReceivedTyped, PortKept
     DEF TransferTypes, QueueTypes, Numbered, ReadNext, TransferNext
<1>1. /\ n \in Nat /\ job.at = "request" /\ job'.at = "ack" /\ job'.have = job.have
      /\ job'.seq = lastSeq + 1
  BY ReadNextCases
<1>. HIDE DEF n
<1>2. Clean BY <1>0 DEF Clean
<1>3. Chunk(inbox, Behind(Len(inbox)), 0, job.have, box.take, box.readAt)
  BY <1>1, <1>2 DEF Reading, AtRequest, Outstanding
\* In both protocols what the host has are the units before the device's offset, and over
\* the record port alone nothing is left in it.
<1>4. /\ Len(job.have) <= box.readAt /\ Taken(job.have, box.take, box.readAt)
      /\ ~Joined => inbox = <<>>
  <2>1. CASE Joined
    <3>1. Behind(Len(inbox)) = Len(inbox) /\ Len(inbox) \in Nat BY <1>0, <2>1 DEF Behind
    <3>2. Len(inbox) - Len(inbox) = 0 /\ box.readAt - 0 = box.readAt BY <1>0, <3>1
    <3>3. Taken(job.have, box.take, box.readAt - 0) /\ Len(job.have) + 0 <= box.readAt
      BY <1>3, <3>1, <3>2 DEF Chunk
    <3> QED BY <1>0, <2>1, <3>2, <3>3
  <2>2. CASE ~Joined
    <3>1. Chunk(inbox, 0, 0, job.have, box.take, box.readAt) BY <1>3, <2>2 DEF Behind
    <3> QED BY <1>0, <2>2, <3>1, ChunkDone
  <2> QED BY <2>1, <2>2
<1>6. CASE UNCHANGED <<inbox, acks, box>>
  <2>1. Received' = Received BY <1>0, <1>6, ReceivedSame
  <2>2. AtAck' BY <1>0, <1>1, <2>1 DEF AtAck, IsAnswer, Before
  <2> QED BY <1>1, <2>2 DEF AtRequest, AtData
<1>7. CASE /\ ToHost(Answer(lastSeq + 1, n), ChunkData(n))
           /\ box'.readAt = box.readAt + n /\ box'.take = box.take
  <2> DEFINE ack == Answer(lastSeq + 1, n)
             data == ChunkData(n)
  <2>0. ack \in Datagrams /\ ack.value = n /\ ack.seq = lastSeq + 1
    BY <1>0, <1>1, AnswerTyped DEF Answer
  <2>1. /\ data \in Seq(Datagrams) /\ Len(data) = n
        /\ \A j \in 1..n: data[j].kind = "iq"
        /\ \A j \in 1..n: data[j] = [kind |-> "iq", take |-> box.take, unit |-> box.readAt + j]
    BY <1>0, <1>1, ChunkDataTyped
  <2> HIDE DEF ack, data
  <2>2. ToHost(ack, data) BY <1>7 DEF ack, data
  <2>3. CASE Joined
    <3>1. Received = inbox /\ Received' = inbox \o <<ack>> \o data /\ inbox' = Received'
      BY <1>0, <2>0, <2>1, <2>2, <2>3, ReceivedMore DEF Received
    <3>2. /\ Len(Received') = Len(inbox) + 1 + n /\ Len(inbox) \in Nat
          /\ \A p \in 1..Len(inbox): Received'[p] = inbox[p]
          /\ Received'[Len(inbox) + 1] = ack
          /\ \A j \in 1..n: Received'[Len(inbox) + 1 + j] = data[j]
          /\ \A p \in 1..Len(Received'): Place(p, Len(inbox), n)
      <4>1. inbox \in Seq(Datagrams) /\ ack \in Datagrams /\ data \in Seq(Datagrams)
        BY <1>0, <2>0, <2>1
      <4>2. inbox' = inbox \o <<ack>> \o data BY <3>1
      <4>3. Len(inbox') = Len(inbox) + 1 + Len(data) /\ Len(inbox) \in Nat
        BY <4>1, <4>2, JoinedAt
      <4>4. /\ \A p \in 1..Len(inbox): inbox'[p] = inbox[p]
            /\ inbox'[Len(inbox) + 1] = ack
            /\ \A j \in 1..Len(data): inbox'[Len(inbox) + 1 + j] = data[j]
        BY <4>1, <4>2, JoinedAt
      <4>5. \A p \in 1..Len(inbox'): Place(p, Len(inbox), Len(data)) BY <4>1, <4>2, JoinedAt
      <4> QED BY <2>1, <3>1, <4>3, <4>4, <4>5
    <3>3. inbox' \in Seq(Datagrams) BY <1>0, <2>0, <2>1, <2>2, ToHostTyped
    <3>4. Chunk(inbox', Len(inbox) + 1, n, job.have, box.take, box.readAt + n)
      <4>1. Len(inbox) + 1 \in Nat /\ Len(inbox') = (Len(inbox) + 1) + n BY <3>1, <3>2
      <4>2. \A j \in 1..n: inbox'[(Len(inbox) + 1) + j]
                              = [kind |-> "iq", take |-> box.take, unit |-> box.readAt + j]
        BY <2>0, <2>1, <3>1, <3>2
      <4> QED BY <1>0, <1>1, <1>4, <3>3, <4>1, <4>2, ChunkSent
    <3>5. ASSUME NEW p \in 1..Len(Received'), IsAnswer(Received[p])'
          PROVE  Outstanding(Behind(p), Received[p].value)'
      <4>1. Received'[p].kind = "ack" /\ Received'[p].seq = lastSeq + 1
        BY <1>1, <3>5 DEF IsAnswer
      <4>2. p \notin 1..Len(inbox)
        <5> SUFFICES ASSUME p \in 1..Len(inbox) PROVE FALSE OBVIOUS
        <5>1. inbox[p].seq < lastSeq + 1 BY <1>0, <3>1, <3>2, <4>1 DEF Before
        <5> QED BY <1>0, <3>2, <4>1, <5>1
      <4>3. ~ \E j \in 1..n: p = Len(inbox) + 1 + j
        <5> SUFFICES ASSUME NEW j \in 1..n, p = Len(inbox) + 1 + j PROVE FALSE OBVIOUS
        <5> QED BY <2>0, <2>1, <3>2, <4>1
      <4>4. p = Len(inbox) + 1 BY <3>2, <4>2, <4>3 DEF Place
      <4>5. Received'[p].value = n BY <2>0, <2>1, <3>2, <4>4
      <4>6. Behind(p)' = Len(inbox) + 1 BY <1>0, <2>3, <4>4 DEF Behind
      <4> QED BY <1>1, <1>7, <3>4, <4>5, <4>6 DEF Outstanding
    <3> QED BY <1>1, <3>5 DEF AtRequest, AtData, AtAck
  <2>4. CASE ~Joined
    <3>1. Received = acks /\ Received' = Append(acks, ack) /\ inbox' = inbox \o data
      BY <1>0, <2>0, <2>1, <2>2, <2>4, ReceivedMore DEF Received
    <3>2. inbox' = data
      <4>1. inbox = <<>> BY <1>4, <2>4
      <4> QED BY <2>0, <2>1, <3>1, <4>1
    <3>3. Chunk(inbox', 0, n, job.have, box.take, box.readAt + n)
      <4>1. Len(data) = 0 + n /\ 0 \in Nat BY <1>1, <2>0, <2>1
      <4>2. \A j \in 1..n: data[0 + j]
                              = [kind |-> "iq", take |-> box.take, unit |-> box.readAt + j]
        BY <2>0, <2>1
      <4>3. Chunk(data, 0, n, job.have, box.take, box.readAt + n)
        BY <1>0, <1>1, <1>4, <2>0, <2>1, <4>1, <4>2, ChunkSent
      <4> QED BY <3>2, <4>3
    <3>4. ASSUME NEW p \in 1..Len(Received'), IsAnswer(Received[p])'
          PROVE  Outstanding(Behind(p), Received[p].value)'
      <4>1. Received'[p].kind = "ack" /\ Received'[p].seq = lastSeq + 1
        BY <1>1, <3>4 DEF IsAnswer
      <4>2. /\ p \in 1..Len(acks) \/ p = Len(acks) + 1
            /\ Received'[Len(acks) + 1] = ack
            /\ \A i \in 1..Len(acks): Received'[i] = acks[i]
        BY <1>0, <2>0, <2>1, <3>1, AppendAt
      <4>3. p \notin 1..Len(acks)
        <5> SUFFICES ASSUME p \in 1..Len(acks) PROVE FALSE OBVIOUS
        <5>1. acks[p].seq < lastSeq + 1 BY <1>0, <3>1, <4>1, <4>2 DEF Before
        <5> QED BY <1>0, <4>1, <4>2, <5>1
      <4>4. Received'[p].value = n BY <2>0, <2>1, <4>2, <4>3
      <4>5. Behind(p)' = 0 BY <1>0, <2>4 DEF Behind
      <4> QED BY <1>1, <1>7, <3>3, <4>4, <4>5 DEF Outstanding
    <3> QED BY <1>1, <3>4 DEF AtRequest, AtData, AtAck
  <2> QED BY <2>3, <2>4
<1> QED BY <1>6, <1>7, ReadNextCases DEF n

\* What the proofs about a step know of the state before it.
LEMMA StateTyped ==
    ASSUME TransferTypes
    PROVE  /\ JobTypes /\ QueueTypes /\ BoxTypes
           /\ inbox \in Seq(Datagrams) /\ acks \in Seq(Datagrams) /\ Received \in Seq(Datagrams)
           /\ lastSeq \in Nat /\ job.have \in Seq(Sample) /\ Len(job.have) \in Nat
           /\ job.want \in Nat /\ job.size \in Nat /\ job.place \in Nat
           /\ box.readAt \in Nat /\ box.readAt <= Total /\ box.writeAt \in Nat
           /\ box.upload \in Nat /\ box.got \in Nat /\ box.seq \in Nat
BY JobFields, BoxFields, ReceivedTyped DEF TransferTypes, QueueTypes, BoxBounds

LEMMA NotReading ==
    ASSUME job'.at \notin {"request", "ack", "data"}
    PROVE  Reading'
BY DEF Reading, AtRequest, AtAck, AtData

\* Whoever waits behind the whole queue waits for nothing.
LEMMA BehindAll ==
    ASSUME NEW q \in Seq(Datagrams), NEW have \in Seq(Sample), NEW take, NEW at \in Nat
    PROVE  Chunk(q, Len(q), 0, have, take, at) <=> Len(have) <= at /\ Taken(have, take, at)
<1>1. Len(q) \in Nat /\ Len(q) - Len(q) = 0 /\ Len(have) \in Nat /\ at - 0 = at
      /\ Len(have) + 0 = Len(have)
  OBVIOUS
<1>2. Coming(q, Len(q), take, at, 0) BY DEF Coming
<1>3. 0 <= 0 OBVIOUS
<1> QED BY <1>1, <1>2, <1>3 DEF Chunk

LEMMA ReadAllReads ==
    ASSUME TransferTypes, ReadAll
    PROVE  Reading'
<1>0. /\ job' = [NoJob EXCEPT !.at = "request"] /\ excuse' = (inbox # <<>>)
      /\ UNCHANGED <<inbox, box>>
  BY DEF ReadAll
<1>1. job'.at = "request" /\ job'.have = <<>> BY <1>0 DEF NoJob
<1>2. inbox \in Seq(Datagrams) /\ box.readAt \in Nat BY StateTyped
<1>3. <<>> \in Seq(Sample) /\ Len(<<>>) = 0 OBVIOUS
<1>4. 0 <= box.readAt /\ Taken(<<>>, box.take, box.readAt) BY <1>2, <1>3 DEF Taken
<1>5. Chunk(inbox, Len(inbox), 0, <<>>, box.take, box.readAt)
  BY <1>2, <1>3, <1>4, BehindAll
<1>6. ASSUME Clean' PROVE Behind(Len(inbox))' = Len(inbox)
  <2>1. CASE Joined' BY <2>1, <1>0 DEF Behind
  <2>2. CASE ~Joined'
    <3>1. inbox = <<>> BY <1>0, <1>6, <2>2 DEF Clean
    <3>2. Len(inbox) = 0 BY <3>1
    <3> QED BY <2>2, <3>2 DEF Behind
  <2> QED BY <2>1, <2>2
<1>7. ASSUME Clean' PROVE AtRequest'
  BY <1>0, <1>1, <1>5, <1>6, <1>7 DEF AtRequest, Outstanding
<1> QED BY <1>1, <1>7 DEF Reading, AtAck, AtData

\* The first datagram of the queue the host waits on leaves it.
LEMMA QueueMovesUp ==
    ASSUME TransferTypes, NEW p \in Nat, NEW due \in Nat, Received # <<>>, Receive,
           Joined' <=> Joined, UNCHANGED box, job'.have = job.have,
           Outstanding(Behind(p + 1), due)
    PROVE  Outstanding(Behind(p), due)'
<1>0. inbox \in Seq(Datagrams) /\ box.readAt \in Nat BY StateTyped
<1>1. CASE Joined
  <2>1. inbox' = Tail(inbox) /\ inbox # <<>> BY <1>1 DEF Receive, Received
  <2>2. Behind(p + 1) = p + 1 /\ Behind(p)' = p BY <1>1 DEF Behind
  <2>3. Chunk(inbox, p + 1, due, job.have, box.take, box.readAt)
    BY <2>2 DEF Outstanding
  <2>4. Chunk(Tail(inbox), p, due, job.have, box.take, box.readAt)
    BY <1>0, <2>1, <2>3, ChunkMovesUp
  <2> QED BY <2>1, <2>2, <2>4 DEF Outstanding
<1>2. CASE ~Joined
  <2>1. UNCHANGED inbox BY <1>2 DEF Receive
  <2>2. Behind(p + 1) = 0 /\ Behind(p)' = 0 BY <1>2 DEF Behind
  <2> QED BY <2>1, <2>2 DEF Outstanding
<1> QED BY <1>1, <1>2

\* No matter which datagram leaves, the answers that remain are still followed by their
\* chunks.
LEMMA AnswersMoveUp ==
    ASSUME TransferTypes, AtAck, job.at = "ack", UNCHANGED <<box, job>>,
           Joined' <=> Joined, Received # <<>>, Receive
    PROVE  AtAck'
<1> SUFFICES ASSUME NEW p \in 1..Len(Received'), IsAnswer(Received[p])'
             PROVE  Outstanding(Behind(p), Received[p].value)'
  BY DEF AtAck
<1>1. Received' = Tail(Received) /\ Received \in Seq(Datagrams) BY ReceiveIsTail, StateTyped
<1>2. Received'[p] = Received[p + 1] /\ p + 1 \in 1..Len(Received) BY <1>1, TailAt
<1>3. IsAnswer(Received[p + 1]) BY <1>2 DEF IsAnswer
<1>4. Outstanding(Behind(p + 1), Received[p + 1].value) BY <1>2, <1>3 DEF AtAck
<1>5. Received[p + 1] \in Datagrams BY <1>1, <1>2
<1>6. Received[p + 1].value \in Nat BY <1>3, <1>5, AckIsAck DEF IsAnswer
<1>7. ASSUME NEW due \in Nat, Outstanding(Behind(p + 1), due)
      PROVE  Outstanding(Behind(p), due)'
  BY <1>7, QueueMovesUp
<1>8. PICK due \in Nat: due = Received[p + 1].value BY <1>6
<1>9. Outstanding(Behind(p), due)' BY <1>4, <1>7, <1>8
<1>10. Received'[p].value = due BY <1>2, <1>8
<1> QED BY <1>9, <1>10 DEF Outstanding

LEMMA ReadAnswerReads ==
    ASSUME TransferTypes, Reading, ReadAnswer
    PROVE  Reading'
<1> SUFFICES ASSUME Clean' PROVE (AtRequest /\ AtAck /\ AtData)' BY DEF Reading
<1>0. /\ job.at = "ack" /\ Received # <<>> /\ Receive /\ UNCHANGED <<box, excuse>>
      /\ (Joined' <=> Joined)
  BY DEF ReadAnswer, Joined
<1>1. Clean /\ AtAck BY <1>0 DEF Clean, Reading
<1>2. CASE job' = job
  <2>1. AtAck' BY <1>0, <1>1, <1>2, AnswersMoveUp
  <2> QED BY <1>0, <1>2, <2>1 DEF AtRequest, AtData
<1>3. CASE job'.at = "idle" BY <1>3 DEF AtRequest, AtAck, AtData
<1>4. CASE /\ IsAnswer(Head(Received)) /\ job'.at = "data" /\ job'.have = job.have
           /\ job'.want = Len(job.have) + Head(Received).value
  <2>1. Received \in Seq(Datagrams) /\ Len(job.have) \in Nat BY StateTyped
  <2>2. Head(Received) = Received[1] /\ 1 \in 1..Len(Received) BY <1>0, <2>1, TailAt
  <2>3. Received[1] \in Datagrams BY <2>1, <2>2
  <2>4. PICK due \in Nat: due = Received[1].value
    BY <1>4, <2>2, <2>3, AckIsAck DEF IsAnswer
  <2>5. Outstanding(Behind(1), due) BY <1>0, <1>1, <1>4, <2>2, <2>4 DEF AtAck
  <2>6. Outstanding(Behind(0 + 1), due) BY <2>5
  <2>7. Outstanding(Behind(0), due)' BY <1>0, <1>4, <2>6, QueueMovesUp
  <2>8. Behind(0)' = 0 BY DEF Behind
  <2>9. job'.want - Len(job'.have) = due BY <1>4, <2>1, <2>2, <2>4
  <2>10. AtData' BY <2>7, <2>8, <2>9 DEF AtData, Outstanding
  <2> QED BY <1>4, <2>10 DEF AtRequest, AtAck
<1> QED BY <1>2, <1>3, <1>4, ReadAnswerJob

\* The datagram is one of the chunk, or anything else.
LEMMA ReadDataReads ==
    ASSUME TransferTypes, Reading, TransferExact, ReadData
    PROVE  Reading' /\ TransferExact'
<1>0. /\ job.at = "data" /\ inbox # <<>> /\ inbox' = Tail(inbox) /\ UNCHANGED <<box, excuse>>
      /\ (Joined' <=> Joined)
  BY DEF ReadData, Joined
<1>1. /\ inbox \in Seq(Datagrams) /\ job.have \in Seq(Sample) /\ Len(job.have) \in Nat
      /\ job.want \in Nat /\ box.readAt \in Nat /\ box.readAt <= Total
      /\ Len(job.have) < job.want
  BY <1>0, StateTyped DEF TransferTypes, JobBounds
<1>. DEFINE due == job.want - Len(job.have)
<1>2. due \in Nat \ {0} BY <1>1
<1>3. ASSUME Clean PROVE Chunk(inbox, 0, due, job.have, box.take, box.readAt)
  BY <1>0, <1>3 DEF Reading, AtData, Outstanding
<1>4. Clean' <=> Clean BY <1>0 DEF Clean
<1>5. ASSUME UNCHANGED outcome PROVE TransferExact'
  BY <1>0, <1>5 DEF TransferExact
<1>. HIDE DEF due
<1>6. CASE Head(inbox).kind # "iq"
  <2>1. UNCHANGED <<job, outcome>> BY <1>6 DEF ReadData
  <2>2. ASSUME Clean PROVE AtData'
    <3>1. Chunk(inbox', 0, due, job.have, box.take, box.readAt)
      BY <1>0, <1>1, <1>2, <1>3, <2>2, ChunkLosesOne
    <3> QED BY <1>0, <2>1, <3>1 DEF AtData, Outstanding, due
  <2> QED BY <1>0, <1>4, <1>5, <2>1, <2>2 DEF Reading, AtRequest, AtAck
<1>7. CASE Head(inbox).kind = "iq"
  <2>1. Head(inbox) \in Datagrams BY <1>0, <1>1, BelongsToSeq
  <2>2. PICK x \in Sample: x = <<Head(inbox).take, Head(inbox).unit>>
    BY <1>7, <2>1, UnitIsUnit
  <2> DEFINE have == Append(job.have, x)
  <2>3. Copied(have) BY <1>7, <2>2 DEF ReadData
  <2>4. have \in Seq(Sample) /\ Len(have) = Len(job.have) + 1 BY <1>1, <2>2
  <2>5. ASSUME Clean PROVE Chunk(inbox', 0, due - 1, have, box.take, box.readAt)
    BY <1>0, <1>1, <1>2, <1>3, <2>2, <2>5, ChunkTakesOne
  <2>6. inbox' \in Seq(Datagrams) BY <1>0, <1>1, BelongsToSeq
  <2> HIDE DEF have
  <2>7. CASE /\ Len(have) < job.want /\ UNCHANGED outcome
             /\ job'.at = "data" /\ job'.have = have /\ job'.want = job.want
    <3>1. job'.want - Len(job'.have) = due - 1 BY <1>1, <2>4, <2>7 DEF due
    <3>2. ASSUME Clean PROVE AtData'
      BY <1>0, <2>5, <2>7, <3>1, <3>2 DEF AtData, Outstanding
    <3> QED BY <1>4, <1>5, <2>7, <3>2 DEF Reading, AtRequest, AtAck
  <2>8. ASSUME Clean, ~(Len(have) < job.want)
        PROVE  /\ inbox' = <<>> /\ Len(inbox') = 0
               /\ Len(have) <= box.readAt /\ Taken(have, box.take, box.readAt)
               /\ Chunk(inbox', 0, 0, have, box.take, box.readAt)
    <3>1. due - 1 = 0 BY <1>1, <1>2, <2>4, <2>8 DEF due
    <3>2. Chunk(inbox', 0, 0, have, box.take, box.readAt) BY <2>5, <2>8, <3>1
    <3> QED BY <1>1, <2>4, <2>6, <3>2, ChunkDone
  <2>9. CASE /\ ~(Len(have) < job.want) /\ UNCHANGED outcome
             /\ job'.at = "request" /\ job'.have = have
    <3>1. ASSUME Clean PROVE AtRequest'
      <4>1. Behind(Len(inbox))' = 0 BY <2>8, <2>9, <3>1 DEF Behind
      <4> QED BY <1>0, <2>8, <2>9, <3>1, <4>1 DEF AtRequest, Outstanding
    <3> QED BY <1>4, <1>5, <2>9, <3>1 DEF Reading, AtAck, AtData
  <2>10. CASE /\ ~(Len(have) < job.want) /\ ~(Len(have) < Total) /\ job'.at = "idle"
              /\ outcome' = [call |-> "read", met |-> excuse,
                             exact |-> \A i \in 1..Total: have[i] = <<box.take, i>>]
    <3>1. Reading' BY <2>10, NotReading
    <3>2. CASE Clean
      <4>1. \A i \in 1..Total: have[i] = <<box.take, i>>
        BY <1>1, <2>4, <2>8, <2>10, <3>2, WholeTaken
      <4>2. outcome'.exact BY <2>10, <4>1
      <4> QED BY <3>1, <4>2 DEF TransferExact
    <3>3. CASE ~Clean
      <4>1. ~Joined' /\ outcome'.met BY <1>0, <2>10, <3>3 DEF Clean
      <4> QED BY <3>1, <4>1 DEF TransferExact
    <3> QED BY <3>2, <3>3
  <2> QED BY <1>0, <2>3, <2>7, <2>9, <2>10, CopiedJob
<1> QED BY <1>6, <1>7

LEMMA LoseReads ==
    ASSUME TransferTypes, Reading, LoseDatagram
    PROVE  Reading'
<1> SUFFICES ASSUME Clean' PROVE (AtRequest /\ AtAck /\ AtData)' BY DEF Reading
<1>0. UNCHANGED <<job, box, excuse, lastSeq>> /\ (Joined' <=> Joined)
  BY DEF LoseDatagram, Joined
<1>1. AtRequest /\ AtAck /\ AtData /\ Clean BY <1>0 DEF Clean, Reading
<1>2. /\ inbox \in Seq(Datagrams) /\ acks \in Seq(Datagrams) /\ Received \in Seq(Datagrams)
      /\ job.have \in Seq(Sample) /\ Len(job.have) \in Nat /\ job.want \in Nat
      /\ box.readAt \in Nat
  BY StateTyped
<1>3. CASE inbox # <<>> /\ inbox' = Tail(inbox) /\ UNCHANGED acks
  <2>1. inbox' \in Seq(Datagrams) BY <1>2, <1>3, BelongsToSeq
  <2>2. AtRequest'
    <3> SUFFICES ASSUME job.at = "request"
                 PROVE  Chunk(inbox', Behind(Len(inbox))', 0, job.have, box.take, box.readAt)
      BY <1>0 DEF AtRequest, Outstanding
    <3>1. Chunk(inbox, Behind(Len(inbox)), 0, job.have, box.take, box.readAt)
      BY <1>1 DEF AtRequest, Outstanding
    <3>2. Joined
      <4> SUFFICES ASSUME ~Joined PROVE FALSE OBVIOUS
      <4>1. Chunk(inbox, 0, 0, job.have, box.take, box.readAt) BY <3>1 DEF Behind
      <4> QED BY <1>2, <1>3, <4>1, ChunkDone
    <3>3. Behind(Len(inbox)) = Len(inbox) /\ Behind(Len(inbox))' = Len(inbox')
      BY <1>0, <3>2 DEF Behind
    <3>4. Len(job.have) <= box.readAt /\ Taken(job.have, box.take, box.readAt)
      BY <1>2, <3>1, <3>3, BehindAll
    <3> QED BY <1>2, <2>1, <3>3, <3>4, BehindAll
  <2>3. AtAck'
    <3> SUFFICES ASSUME job.at = "ack" PROVE AtAck' BY <1>0 DEF AtAck
    <3>1. CASE Joined
      <4>1. Received # <<>> /\ Receive BY <1>3, <3>1 DEF Received, Receive
      <4> QED BY <1>0, <1>1, <4>1, AnswersMoveUp
    <3>2. CASE ~Joined
      <4>1. Received' = Received BY <1>0, <1>3, <3>2 DEF Received
      <4>2. ASSUME NEW p \in 1..Len(Received), IsAnswer(Received[p])
            PROVE  Chunk(inbox', 0, Received[p].value, job.have, box.take, box.readAt)
        <5>1. Chunk(inbox, 0, Received[p].value, job.have, box.take, box.readAt)
          BY <1>1, <3>2, <4>2 DEF AtAck, Outstanding, Behind
        <5>2. Received[p].value \in Nat BY <1>2, <4>2, AckIsAck DEF IsAnswer
        <5> QED BY <1>2, <1>3, <5>1, <5>2, ChunkLosesOne
      <4> QED BY <1>0, <3>2, <4>1, <4>2 DEF AtAck, Outstanding, Behind, IsAnswer
    <3> QED BY <3>1, <3>2
  <2>4. AtData'
    <3> SUFFICES ASSUME job.at = "data"
                 PROVE  Chunk(inbox', 0, job.want - Len(job.have), job.have, box.take, box.readAt)
      BY <1>0 DEF AtData, Outstanding
    <3>1. job.want - Len(job.have) \in Nat BY <1>2 DEF TransferTypes, JobBounds
    <3>2. Chunk(inbox, 0, job.want - Len(job.have), job.have, box.take, box.readAt)
      BY <1>1 DEF AtData, Outstanding
    <3> QED BY <1>2, <1>3, <3>1, <3>2, ChunkLosesOne
  <2> QED BY <2>2, <2>3, <2>4
<1>4. CASE acks # <<>> /\ acks' = Tail(acks) /\ UNCHANGED inbox
  <2>1. AtRequest' /\ AtData' BY <1>0, <1>1, <1>4 DEF AtRequest, AtData, Outstanding, Behind
  <2>2. AtAck'
    <3> SUFFICES ASSUME job.at = "ack" PROVE AtAck' BY <1>0 DEF AtAck
    <3>1. CASE Joined
      <4>1. Received' = Received BY <1>0, <1>4, <3>1 DEF Received
      <4> QED BY <1>0, <1>1, <1>4, <4>1 DEF AtAck, Outstanding, Behind, IsAnswer
    <3>2. CASE ~Joined
      <4>1. Received # <<>> /\ Receive BY <1>4, <3>2 DEF Received, Receive
      <4> QED BY <1>0, <1>1, <4>1, AnswersMoveUp
    <3> QED BY <3>1, <3>2
  <2> QED BY <2>1, <2>2
<1> QED BY <1>3, <1>4 DEF LoseDatagram

LEMMA ReadingKept ==
    ASSUME TransferTypes, Numbered, Reading, TransferExact, TransferNext
    PROVE  Reading'
<1>1. CASE ReadAll BY <1>1, ReadAllReads
<1>2. CASE ReadNext BY <1>2, ReadNextReads
<1>3. CASE ReadAnswer BY <1>3, ReadAnswerReads
<1>4. CASE ReadData BY <1>4, ReadDataReads
<1>5. CASE LoseDatagram BY <1>5, LoseReads
<1>6. CASE StartRecord \/ GiveUpRead \/ WriteAll \/ GiveUpWrite
  <2>1. job'.at \in {"idle", "offset"}
    BY <1>6 DEF StartRecord, GiveUpRead, WriteAll, GiveUpWrite, Throw, NoJob
  <2> QED BY <2>1, NotReading
<1>7. CASE WriteNext \/ SendUnit \/ Commit
  <2>1. job'.at \in {"send", "commit", "await"}
    BY <1>7, WriteNextJob, SendUnitJob, CommitJob
  <2> QED BY <2>1, NotReading
<1>8. CASE WriteAnswer
  <2>1. job.at = "await" BY <1>8 DEF WriteAnswer
  <2>2. job'.at \in {"await", "idle", "offset"} BY <1>8, <2>1, WriteAnswerJob
  <2> QED BY <2>2, NotReading
<1>9. CASE OtherCommand
  <2>1. job' = job /\ job.at \in {"send", "commit", "await"} BY <1>9 DEF OtherCommand
  <2> QED BY <2>1, NotReading
<1> QED
  BY <1>1, <1>2, <1>3, <1>4, <1>5, <1>6, <1>7, <1>8, <1>9 DEF TransferNext

-----------------------------------------------------------------------------
(* Writing.                                                                    *)

LEMMA NotWriting ==
    ASSUME job'.at \notin {"offset", "send", "commit", "await"}
    PROVE  Writing'
BY DEF Writing, AtOffset, AtSend, AtCommit, AtAwait

LEMMA WriteAllWrites ==
    ASSUME TransferTypes, WriteAll
    PROVE  Writing'
<1>1. job'.at = "offset" /\ job'.have = <<>> BY DEF WriteAll, NoJob
<1>2. Len(job'.have) = 0 BY <1>1
<1>3. box'.writeAt = 0 /\ box'.upload = 0
  BY BoxFields DEF WriteAll, TransferTypes
<1>4. StoredTo(0)' BY DEF StoredTo
<1> QED BY <1>1, <1>2, <1>3, <1>4 DEF Writing, AtOffset, AtSend, AtCommit, AtAwait, ChunkStored

LEMMA WriteNextWrites ==
    ASSUME TransferTypes, Numbered, Writing, WriteNext
    PROVE  Writing'
<1> SUFFICES ASSUME Clean' PROVE (AtOffset /\ AtSend /\ AtCommit /\ AtAwait)' BY DEF Writing
<1>. DEFINE n == Lesser(Block, Total - Len(job.have))
<1>0. /\ UNCHANGED <<inbox, acks, memory, excuse>> /\ lastSeq' = lastSeq + 1
      /\ (Joined' <=> Joined) /\ Received' = Received
  BY PortKept, ReceivedSame DEF WriteNext, TransferNext
<1>1. /\ job.at = "offset" /\ job'.at = "send" /\ job'.have = job.have
      /\ job'.want = Len(job.have) + n /\ job'.size = n /\ job'.place = box.writeAt
  BY WriteNextJob
<1>2. n \in Nat /\ Len(job.have) \in Nat /\ BoxTypes
  <2>1. Len(job.have) \in Nat /\ Total \in Nat /\ Block \in Nat /\ BoxTypes
    BY StateTyped, TransferAssumption
  <2>2. Total - Len(job.have) \in Nat BY <1>1, <2>1 DEF TransferTypes, JobBounds
  <2> QED BY <2>1, <2>2, LesserTyped
<1>3. ChunkStored BY <1>0, <1>1 DEF Clean, Writing, AtOffset
<1>4. Before(Received', lastSeq') BY <1>0 DEF Numbered
<1>5. \/ box' = [box EXCEPT !.upload = n, !.got = 0, !.seq = lastSeq + 1]
      \/ UNCHANGED box
  BY DEF WriteNext
<1>. HIDE DEF n
<1>6. (job'.want - job'.size) = Len(job.have) /\ job'.size <= job'.want BY <1>1, <1>2
<1>7. ASSUME box'.upload > 0 PROVE ChunkUnderWay(job.want - job.size)'
  <2>1. CASE UNCHANGED box BY <1>7, <1>3, <2>1 DEF ChunkStored
  <2>2. CASE box' = [box EXCEPT !.upload = n, !.got = 0, !.seq = lastSeq + 1]
    <3>1. box'.upload = n /\ box'.got = 0 /\ box'.seq = lastSeq + 1 /\ box'.writeAt = box.writeAt
      BY <1>2, <2>2, BoxFields
    <3>2. StoredTo(Len(job.have))' BY <1>0, <1>1, <1>3 DEF ChunkStored, StoredTo
    <3>3. Len(job.have) + 0 = Len(job.have) BY <1>2
    <3> QED BY <1>0, <1>1, <1>2, <1>3, <1>6, <3>1, <3>2, <3>3 DEF ChunkUnderWay, ChunkStored
  <2> QED BY <1>5, <2>1, <2>2
<1>8. job'.place = Len(job'.have) BY <1>1, <1>3 DEF ChunkStored
<1>9. job'.want - job'.size <= Len(job'.have) BY <1>1, <1>2, <1>6
<1> QED BY <1>1, <1>4, <1>6, <1>7, <1>8, <1>9 DEF AtOffset, AtSend, AtCommit, AtAwait

LEMMA SendUnitWrites ==
    ASSUME TransferTypes, Writing, SendUnit
    PROVE  Writing'
<1> SUFFICES ASSUME Clean' PROVE (AtOffset /\ AtSend /\ AtCommit /\ AtAwait)' BY DEF Writing
<1>. DEFINE k == Len(job.have)
            base == job.want - job.size
<1>0. /\ job.at = "send" /\ Len(job'.have) = k + 1 /\ UNCHANGED <<lastSeq, excuse>>
      /\ job'.at = IF k + 1 = job.want THEN "commit" ELSE "send"
      /\ job'.want = job.want /\ job'.size = job.size /\ job'.place = job.place + 1
      /\ (Joined' <=> Joined)
  BY SendUnitJob, PortKept DEF SendUnit, TransferNext
<1>1. /\ k \in Nat /\ job.want \in Nat /\ job.size \in Nat /\ lastSeq \in Nat
      /\ Received \in Seq(Datagrams) /\ QueueTypes /\ k < job.want /\ job.want <= Total
      /\ box.got \in Nat /\ box.upload \in Nat /\ box.writeAt \in Nat
  BY <1>0, StateTyped DEF TransferTypes, JobBounds
<1>2. /\ AtSend /\ job.size <= job.want /\ base <= k /\ job.place = k
      /\ Before(Received, lastSeq)
  BY <1>0 DEF Clean, Writing, AtSend
<1>3. base \in Nat BY <1>1, <1>2
<1>4. box.upload > 0 =>
        /\ box.upload = job.size /\ box.seq = lastSeq /\ box.writeAt = base
        /\ base + box.got <= k
        /\ base + box.got = k => StoredTo(k)
  BY <1>0, <1>2 DEF AtSend, ChunkUnderWay
<1>. HIDE DEF k, base
\* Unless the answer is sent, the queue is the same and nothing in it is the answer.
<1>5. ASSUME UNCHANGED <<inbox, acks>>,
             box'.upload > 0 => ChunkUnderWay(job.want - job.size)'
      PROVE  (AtOffset /\ AtSend /\ AtCommit /\ AtAwait)'
  <2>1. Received' = Received BY <1>0, <1>5, ReceivedSame
  <2>2. Before(Received', lastSeq') BY <1>0, <1>2, <2>1
  <2>3. ~Answered(Received, lastSeq) BY <1>1, <1>2, BeforeLess
  <2>4. ~Answered(Received', lastSeq') BY <1>0, <2>1, <2>3
  <2>5. job'.want - job'.size <= k + 1 /\ job'.size <= job'.want /\ job'.place = k + 1
    BY <1>0, <1>1, <1>2, <1>3 DEF base
  <2>6. AtSend' BY <1>0, <1>5, <2>2, <2>5 DEF AtSend
  <2> QED BY <1>0, <2>4, <2>6 DEF AtOffset, AtCommit, AtAwait
<1>6. CASE UNCHANGED <<memory, box, inbox, acks>>
  <2>1. ASSUME box'.upload > 0 PROVE ChunkUnderWay(job.want - job.size)'
    <3>1. base + box.got <= k + 1 /\ base + box.got # k + 1
      BY <1>1, <1>3, <1>4, <1>6, <2>1
    <3> QED BY <1>0, <1>4, <1>6, <2>1, <3>1 DEF ChunkUnderWay, base
  <2> QED BY <1>5, <1>6, <2>1
<1>7. CASE box.upload > 0 /\ Store(job.place + 1, Len(job.have) + 1)
  <2>1. Store(k + 1, k + 1) BY <1>2, <1>7 DEF k
  <2>2. memory' = [memory EXCEPT ![k + 1] = k + 1] BY <2>1, StoreCases
  <2>3. memory \in [1..Total -> 0..Total] BY DEF TransferTypes, BoxTypes
  <2>4. ASSUME base + box.got = k PROVE StoredTo(Len(job.have))'
    <3>1. StoredTo(k) BY <1>4, <1>7, <2>4
    <3>2. ASSUME NEW i \in 1..Total, i <= k + 1 PROVE memory'[i] = i
      <4>1. CASE i = k + 1 BY <2>2, <2>3, <4>1
      <4>2. CASE i # k + 1
        <5>1. i <= k BY <1>1, <3>2, <4>2
        <5>2. memory[i] = i BY <3>1, <5>1 DEF StoredTo
        <5> QED BY <2>2, <2>3, <4>2, <5>2
      <4> QED BY <4>1, <4>2
    <3> QED BY <1>0, <3>2 DEF StoredTo
  <2>5. CASE box.got + 1 = box.upload /\ box'.writeAt = box.writeAt + (box.got + 1)
             /\ box'.upload = 0
    \* The device has the whole chunk only if the host has sent the last unit of it.
    <3>1. base + box.got = k /\ k + 1 = job.want /\ base + (box.got + 1) = k + 1
      <4>1. box.upload = job.size /\ base + box.got <= k BY <1>4, <1>7
      <4>2. base + job.size = job.want BY <1>1 DEF base
      <4>3. base + (box.got + 1) = job.want BY <2>5, <4>1, <4>2
      <4>4. base + (box.got + 1) = (base + box.got) + 1 BY <1>1, <1>3
      <4> QED BY <1>1, <1>3, <4>1, <4>3, <4>4
    <3>2. StoredTo(Len(job.have))' /\ job'.at = "commit" BY <1>0, <2>4, <3>1
    <3>3. box'.writeAt = k + 1 BY <1>4, <1>7, <2>5, <3>1
    <3>4. ChunkStored' BY <1>0, <2>5, <3>2, <3>3 DEF ChunkStored
    <3> QED BY <3>2, <3>4 DEF AtOffset, AtSend, AtCommit, AtAwait
  <2>6. CASE /\ box.got + 1 # box.upload /\ UNCHANGED <<inbox, acks>>
             /\ box'.writeAt = box.writeAt /\ box'.upload = box.upload
             /\ box'.got = box.got + 1 /\ box'.seq = box.seq
    <3>1. base + (box.got + 1) <= k + 1 BY <1>1, <1>3, <1>4, <1>7
    <3>2. base + (box.got + 1) = k + 1 => StoredTo(Len(job.have))'
      <4>1. base + (box.got + 1) = k + 1 => base + box.got = k BY <1>1, <1>3
      <4> QED BY <2>4, <4>1
    <3>3. ChunkUnderWay(job.want - job.size)'
      BY <1>0, <1>4, <1>7, <2>6, <3>1, <3>2 DEF ChunkUnderWay, base
    <3> QED BY <1>5, <2>6, <3>3
  <2> QED BY <2>1, <2>5, <2>6, StoreCases
<1> QED BY <1>6, <1>7 DEF SendUnit

LEMMA CommitWrites ==
    ASSUME TransferTypes, Writing, Commit
    PROVE  Writing'
<1> SUFFICES ASSUME Clean' PROVE (AtOffset /\ AtSend /\ AtCommit /\ AtAwait)' BY DEF Writing
<1>0. UNCHANGED <<inbox, acks, lastSeq, box, memory, excuse>> BY DEF Commit
<1>1. job.at = "commit" /\ job'.at = "await" /\ job'.have = job.have /\ job'.seq = lastSeq
  BY CommitJob
<1>2. (Joined' <=> Joined) /\ Received' = Received BY <1>0 DEF Joined, Received
<1>3. Answered(Received, lastSeq) => ChunkStored
  BY <1>0, <1>1, <1>2 DEF Clean, Writing, AtCommit
<1> QED BY <1>0, <1>1, <1>2, <1>3
        DEF AtOffset, AtSend, AtCommit, AtAwait, ChunkStored, StoredTo

LEMMA WriteAnswerWrites ==
    ASSUME TransferTypes, Writing, TransferExact, WriteAnswer
    PROVE  Writing' /\ TransferExact'
<1>0. /\ job.at = "await" /\ Received # <<>> /\ Receive
      /\ UNCHANGED <<lastSeq, box, memory, excuse>> /\ (Joined' <=> Joined)
  BY DEF WriteAnswer, Joined
<1>1. Received \in Seq(Datagrams) /\ Received' = Tail(Received) /\ Len(job.have) \in Nat
  BY <1>0, StateTyped, ReceiveIsTail
<1>2. Clean' <=> Clean BY <1>0 DEF Clean
<1>3. ASSUME Clean PROVE Answered(Received, job.seq) => ChunkStored
  BY <1>0, <1>3 DEF Writing, AtAwait
<1>4. ASSUME IsAnswer(Head(Received)) PROVE Answered(Received, job.seq)
  <2>1. Head(Received) = Received[1] /\ 1 \in 1..Len(Received) BY <1>0, <1>1, TailAt
  <2> QED BY <1>4, <2>1 DEF IsAnswer, Answered
<1>5. ASSUME UNCHANGED outcome PROVE TransferExact' BY <1>0, <1>5 DEF TransferExact
<1>6. CASE job' = job /\ UNCHANGED outcome
  <2>1. ASSUME Clean, Answered(Received', job.seq) PROVE ChunkStored'
    <3>1. ChunkStored BY <1>0, <1>1, <1>3, <2>1, AnsweredTail
    <3> QED BY <1>0, <1>6, <3>1 DEF ChunkStored, StoredTo
  <2> QED BY <1>0, <1>2, <1>5, <1>6, <2>1 DEF Writing, AtOffset, AtSend, AtCommit, AtAwait
<1>7. CASE job'.at = "idle" /\ UNCHANGED outcome BY <1>5, <1>7, NotWriting
<1>8. CASE IsAnswer(Head(Received)) /\ job'.at = "offset" /\ job'.have = job.have
           /\ UNCHANGED outcome
  <2>1. ASSUME Clean PROVE ChunkStored'
    BY <1>0, <1>3, <1>4, <1>8, <2>1 DEF ChunkStored, StoredTo
  <2> QED BY <1>2, <1>5, <1>8, <2>1 DEF Writing, AtOffset, AtSend, AtCommit, AtAwait
<1>9. CASE /\ IsAnswer(Head(Received)) /\ ~(Len(job.have) < Total) /\ job'.at = "idle"
           /\ outcome' = [call |-> "write", met |-> excuse,
                          exact |-> memory = [i \in 1..Total |-> i]]
  <2>1. Writing' BY <1>9, NotWriting
  <2>2. CASE Clean
    <3>1. StoredTo(Len(job.have)) BY <1>3, <1>4, <1>9, <2>2 DEF ChunkStored
    <3>2. \A i \in 1..Total: memory[i] = i
      BY <1>1, <1>9, <3>1, TransferAssumption DEF StoredTo
    <3>3. memory \in [1..Total -> 0..Total] BY DEF TransferTypes, BoxTypes
    <3>4. memory = [i \in 1..Total |-> i] BY <3>2, <3>3
    <3>5. outcome'.exact BY <1>9, <3>4
    <3> QED BY <2>1, <3>5 DEF TransferExact
  <2>3. CASE ~Clean
    <3>1. ~Joined' /\ outcome'.met BY <1>0, <1>9, <2>3 DEF Clean
    <3> QED BY <2>1, <3>1 DEF TransferExact
  <2> QED BY <2>2, <2>3
<1> QED BY <1>6, <1>7, <1>8, <1>9, WriteAnswerJob

LEMMA LoseWrites ==
    ASSUME TransferTypes, Writing, LoseDatagram
    PROVE  Writing'
<1> SUFFICES ASSUME Clean' PROVE (AtOffset /\ AtSend /\ AtCommit /\ AtAwait)' BY DEF Writing
<1>0. UNCHANGED <<job, lastSeq, box, memory, excuse>> /\ (Joined' <=> Joined)
  BY DEF LoseDatagram, Joined
<1>1. AtOffset /\ AtSend /\ AtCommit /\ AtAwait BY <1>0 DEF Clean, Writing
<1>2. Received \in Seq(Datagrams) BY StateTyped
<1>3. Received' = Received \/ (Received # <<>> /\ Received' = Tail(Received))
  BY <1>0 DEF LoseDatagram, Received
<1>4. \A n: Answered(Received', n) => Answered(Received, n) BY <1>2, <1>3, AnsweredTail
<1>5. \A n: Before(Received, n) => Before(Received', n) BY <1>2, <1>3, BeforeTail
<1>6. ChunkStored => ChunkStored' BY <1>0 DEF ChunkStored, StoredTo
<1>7. \A base: ChunkUnderWay(base) => ChunkUnderWay(base)' BY <1>0 DEF ChunkUnderWay, StoredTo
<1>8. AtOffset' BY <1>0, <1>1, <1>6 DEF AtOffset
<1>9. AtSend'
  <2>1. CASE job.at = "send"
    <3>1. Before(Received', lastSeq') BY <1>0, <1>1, <1>5, <2>1 DEF AtSend
    <3>2. box.upload > 0 => ChunkUnderWay(job.want - job.size)'
      <4>1. box.upload > 0 => ChunkUnderWay(job.want - job.size) BY <1>1, <2>1 DEF AtSend
      <4> QED BY <1>0, <4>1 DEF ChunkUnderWay, StoredTo
    <3> QED BY <1>0, <1>1, <3>1, <3>2 DEF AtSend
  <2> QED BY <1>0, <2>1 DEF AtSend
<1>10. AtCommit' /\ AtAwait' BY <1>0, <1>1, <1>4, <1>6 DEF AtCommit, AtAwait
<1> QED BY <1>8, <1>9, <1>10

LEMMA WritingKept ==
    ASSUME TransferTypes, Numbered, Writing, TransferExact, TransferNext
    PROVE  Writing'
<1>1. CASE WriteAll BY <1>1, WriteAllWrites
<1>2. CASE WriteNext BY <1>2, WriteNextWrites
<1>3. CASE SendUnit BY <1>3, SendUnitWrites
<1>4. CASE Commit BY <1>4, CommitWrites
<1>5. CASE WriteAnswer BY <1>5, WriteAnswerWrites
<1>6. CASE LoseDatagram BY <1>6, LoseWrites
<1>7. CASE OtherCommand
  <2>1. ~Clean' BY <1>7 DEF OtherCommand, Clean, Joined
  <2> QED BY <2>1 DEF Writing
<1>8. CASE StartRecord \/ ReadAll \/ GiveUpRead \/ GiveUpWrite
  <2>1. job'.at \in {"idle", "request"}
    BY <1>8 DEF StartRecord, ReadAll, GiveUpRead, GiveUpWrite, Throw, NoJob
  <2> QED BY <2>1, NotWriting
<1>9. CASE ReadNext
  <2>1. job'.at = "ack" BY <1>9, ReadNextCases
  <2> QED BY <2>1, NotWriting
<1>10. CASE ReadAnswer
  <2>1. job.at = "ack" BY <1>10 DEF ReadAnswer
  <2>2. job'.at \in {"ack", "idle", "data"} BY <1>10, <2>1, ReadAnswerJob
  <2> QED BY <2>2, NotWriting
<1>11. CASE ReadData
  <2>1. job.at = "data" BY <1>11 DEF ReadData
  <2>2. ASSUME NEW have, Copied(have) PROVE job'.at \in {"idle", "data", "request"}
    BY <2>1, <2>2, CopiedJob
  <2>3. job'.at \in {"idle", "data", "request"} BY <1>11, <2>1, <2>2 DEF ReadData
  <2> QED BY <2>3, NotWriting
<1> QED
  BY <1>1, <1>2, <1>3, <1>4, <1>5, <1>6, <1>7, <1>8, <1>9, <1>10, <1>11 DEF TransferNext

LEMMA ExactKept ==
    ASSUME TransferTypes, Numbered, Reading, Writing, TransferExact, TransferNext
    PROVE  TransferExact'
<1>1. CASE ReadData BY <1>1, ReadDataReads
<1>2. CASE WriteAnswer BY <1>2, WriteAnswerWrites
<1>3. ASSUME UNCHANGED outcome PROVE TransferExact'
  BY <1>3, PortKept DEF TransferExact
<1>4. CASE StartRecord \/ ReadAll \/ ReadNext \/ ReadAnswer \/ GiveUpRead
  BY <1>3, <1>4 DEF StartRecord, ReadAll, ReadNext, ReadAnswer, GiveUpRead, Throw
<1>5. CASE WriteAll \/ WriteNext \/ SendUnit \/ Commit \/ GiveUpWrite
           \/ OtherCommand \/ LoseDatagram
  BY <1>3, <1>5 DEF WriteAll, WriteNext, SendUnit, Commit, GiveUpWrite, OtherCommand,
     LoseDatagram, Throw
<1> QED BY <1>1, <1>2, <1>4, <1>5 DEF TransferNext

\* A recording that was read is the device's, unit for unit, and a waveform that was
\* uploaded is in the device's memory, for recordings, chunks and numbers of losses of any
\* size, unless the call met what an earlier one or another thread left on the buses of an
\* E200 or E206 (read_iq_record_all and write_iq_replay_all of E100Impl and E200Impl).
THEOREM TransferIsExact == TransferSpec => []TransferExact
<1>1. TransferInv /\ [TransferNext]_transferVars => TransferInv'
  <2>1. ASSUME TransferInv, TransferNext PROVE TransferInv'
    BY <2>1, TransferTypesKept, NumberedKept, ReadingKept, WritingKept, ExactKept
       DEF TransferInv
  <2>2. ASSUME TransferInv, UNCHANGED transferVars PROVE TransferInv'
    <3>1. TransferTypes' BY <2>2, TransferTypesKept DEF TransferInv
    <3>2. UNCHANGED <<job, inbox, acks, lastSeq, box, memory, outcome, excuse>>
      BY <2>2 DEF transferVars
    <3>3. (Joined' <=> Joined) /\ Received' = Received BY <3>2 DEF Joined, Received
    <3>4. Numbered' /\ TransferExact' BY <2>2, <3>2, <3>3 DEF TransferInv, Numbered, TransferExact
    <3>5. Reading'
      BY <2>2, <3>2, <3>3 DEF TransferInv, Reading, Clean, AtRequest, AtAck, AtData, IsAnswer,
         Outstanding, Behind
    <3>6. Writing'
      BY <2>2, <3>2, <3>3 DEF TransferInv, Writing, Clean, AtOffset, AtSend, AtCommit, AtAwait,
         ChunkStored, ChunkUnderWay, StoredTo
    <3> QED BY <3>1, <3>4, <3>5, <3>6 DEF TransferInv
  <2> QED BY <2>1, <2>2
<1>2. TransferInv => TransferExact BY DEF TransferInv
<1> QED BY TransferInitInv, <1>1, <1>2, PTL DEF TransferSpec
=============================================================================
