----------------------------- MODULE SdrppSource -----------------------------
(***************************************************************************)
(* The SDR++ source: start and stop of the GUI thread, the worker that     *)
(* fills SDR++'s stream, and its reader.                                   *)
(* Source: src/sdr++/main.cpp.  SDR++'s stream is external: swap() waits   *)
(* until the reader has taken the buffer before, or for stopWriter().      *)
(*                                                                         *)
(* A device call that fails throws and may have been executed.             *)
(***************************************************************************)
EXTENDS Naturals, Sequences

CONSTANTS
    MaxClicks,  \* bound: calls of SDR++
    MaxErrors   \* bound: device and stream calls that throw

SdrppParameters == MaxClicks \in Nat /\ MaxErrors \in Nat

VARIABLES
    module,     \* running, freq, the call under way: what it has still to do
    thread,     \* workerThread
    held,       \* the device object and the stream are there
    rx,         \* the device: whether it streams, its frequency
    pipe,       \* SDR++'s stream: a buffer nobody has taken, stopWriter was called
    spent       \* history and bounds

sdrppVars == <<module, thread, held, rx, pipe, spent>>

SdrppInit ==
    /\ module = [running |-> FALSE, freq |-> 0, todo |-> <<>>]
    /\ thread = "none" /\ held = FALSE /\ rx = [on |-> FALSE, freq |-> 0]
    /\ pipe = [full |-> FALSE, stopped |-> FALSE]
    /\ spent = [clicks |-> 0, errors |-> 0, untuned |-> FALSE, unstopped |-> FALSE,
                overwritten |-> FALSE]

Click == spent.clicks < MaxClicks /\ spent' = [spent EXCEPT !.clicks = @ + 1]
Error(h) == spent.errors < MaxErrors /\ spent' = [h EXCEPT !.errors = @ + 1]
Doing(step) == module.todo # <<>> /\ Head(module.todo) = step
Done == module' = [module EXCEPT !.todo = Tail(@)]

-----------------------------------------------------------------------------
(* the GUI thread *)

Start ==
    /\ module.todo = <<>> /\ Click
    /\ module' = [module EXCEPT !.todo = IF module.running THEN <<>> ELSE <<"open", "run">>]
    /\ UNCHANGED <<thread, held, rx, pipe>>

\* Mutant: the worker is waited for before it is woken.
JoinFirst == <<"join", "stop_writer", "clear", "stop_rx", "cleanup">>
\* Mutant: the stream stays stopped for its writer.
NotCleared == <<"stop_writer", "join", "stop_rx", "cleanup">>
StopSteps == <<"stop_writer", "join", "clear", "stop_rx", "cleanup">>

\* The flag is exchanged: it was set, or there is nothing to do.
Stop ==
    /\ module.todo = <<>> /\ Click
    /\ module' = [module EXCEPT !.running = FALSE,
                        !.todo = IF module.running THEN StopSteps ELSE <<>>]
    /\ UNCHANGED <<thread, held, rx, pipe>>

\* tune; the frequency is kept for the next start.
Tune(f) ==
    /\ module.todo = <<>> /\ Click /\ f # module.freq /\ module' = [module EXCEPT !.freq = f,
                !.todo = IF module.running THEN <<"tune">> ELSE <<>>]
    /\ UNCHANGED <<thread, held, rx, pipe>>

SetFreq ==
    /\ Doing("tune") /\ Done /\ UNCHANGED <<thread, held, pipe>>
    /\ \/ /\ rx' = [rx EXCEPT !.freq = module.freq]
          /\ spent' = [spent EXCEPT !.untuned = FALSE]
       \/ /\ rx' \in {rx, [rx EXCEPT !.freq = module.freq]}
          /\ Error([spent EXCEPT !.untuned = TRUE])

\* Everything up to the START is done on a device of the call's own, which is
\* gone when it throws; only then the worker can see it.
Open ==
    /\ Doing("open") /\ UNCHANGED <<thread, pipe>>
    /\ \/ /\ Done /\ held' = TRUE /\ rx' = [on |-> TRUE, freq |-> module.freq]
          /\ spent' = [spent EXCEPT !.untuned = FALSE]
       \/ /\ module' = [module EXCEPT !.todo = <<>>] /\ UNCHANGED held
          /\ rx' \in {rx, [rx EXCEPT !.freq = module.freq], [on |-> TRUE, freq |-> module.freq]}
          /\ Error([spent EXCEPT !.unstopped = @ \/ rx'.on])

Run ==
    /\ Doing("run") /\ module' = [module EXCEPT !.todo = <<>>, !.running = TRUE]
    /\ thread' = "loop" /\ spent' = [spent EXCEPT !.overwritten = @ \/ thread # "none"]
    /\ UNCHANGED <<held, rx, pipe>>

StopWriter ==
    /\ Doing("stop_writer") /\ Done /\ pipe' = [pipe EXCEPT !.stopped = TRUE]
    /\ UNCHANGED <<thread, held, rx, spent>>

Join ==
    /\ Doing("join") /\ thread = "ended" /\ Done /\ thread' = "none"
    /\ UNCHANGED <<held, rx, pipe, spent>>

ClearWriteStop ==
    /\ Doing("clear") /\ Done /\ pipe' = [pipe EXCEPT !.stopped = FALSE]
    /\ UNCHANGED <<thread, held, rx, spent>>

StopRx ==
    /\ Doing("stop_rx") /\ Done /\ UNCHANGED <<thread, held, pipe>>
    /\ \/ rx' = [rx EXCEPT !.on = FALSE] /\ UNCHANGED spent
       \/ rx' \in {rx, [rx EXCEPT !.on = FALSE]} /\ Error([spent EXCEPT !.unstopped = TRUE])

Cleanup ==
    /\ Doing("cleanup") /\ Done /\ held' = FALSE /\ UNCHANGED <<thread, rx, pipe, spent>>

-----------------------------------------------------------------------------
(* worker, and the reader of the stream *)

Loop ==
    /\ thread = "loop" /\ thread' = IF module.running /\ held THEN "recv" ELSE "ended"
    /\ UNCHANGED <<module, held, rx, pipe, spent>>

Receive ==
    /\ thread = "recv" /\ UNCHANGED <<module, held, rx, pipe>>
    /\ \/ thread' \in {"loop", "swap"} /\ UNCHANGED spent
       \/ thread' = "ended" /\ Error(spent)

\* A stopped writer leaves without its samples.
Swap ==
    /\ thread = "swap" /\ (pipe.stopped \/ ~pipe.full)
    /\ thread' = IF pipe.stopped THEN "ended" ELSE "loop"
    /\ pipe' = [pipe EXCEPT !.full = @ \/ ~pipe.stopped]
    /\ UNCHANGED <<module, held, rx, spent>>

\* The reader may also have stopped for good.
Read == pipe.full /\ pipe' = [pipe EXCEPT !.full = FALSE]
        /\ UNCHANGED <<module, thread, held, rx, spent>>

SdrppNext ==
    \/ Start \/ Stop \/ \E f \in {0, 1}: Tune(f)
    \/ SetFreq \/ Open \/ Run \/ StopWriter \/ Join \/ ClearWriteStop \/ StopRx \/ Cleanup
    \/ Loop \/ Receive \/ Swap \/ Read

SdrppSpec == SdrppInit /\ [][SdrppNext]_sdrppVars

-----------------------------------------------------------------------------
(* properties *)

SdrppTypeOK ==
    /\ module \in [running: BOOLEAN, freq: {0, 1},
                   todo: Seq({"open", "run", "tune", "stop_writer", "join", "clear", "stop_rx", "cleanup"})]
    /\ thread \in {"none", "loop", "recv", "swap", "ended"} /\ held \in BOOLEAN
    /\ rx \in [on: BOOLEAN, freq: {0, 1}] /\ pipe \in [full: BOOLEAN, stopped: BOOLEAN]
    /\ spent \in [clicks: Nat, errors: Nat, untuned: BOOLEAN, unstopped: BOOLEAN, overwritten: BOOLEAN]

\* The join of stop ends also when nobody reads the stream any more: the worker is not
\* left waiting for room in it.
JoinEnds == Doing("join") => (thread = "swap" => pipe.stopped)

\* A thread is joined before the next begins; a stopped source has no thread, holds no
\* device and can be started again, and the device is quiet unless a command failed.
SourceStopped ==
    /\ ~spent.overwritten
    /\ (module.todo = <<>> /\ ~module.running) =>
            thread = "none" /\ ~held /\ ~pipe.stopped /\ (rx.on => spent.unstopped)

\* A running source is tuned to the frequency SDR++ shows, whenever that was chosen,
\* unless the last command failed.
Tuned == (module.todo = <<>> /\ module.running /\ ~spent.untuned) => rx.freq = module.freq
=============================================================================
