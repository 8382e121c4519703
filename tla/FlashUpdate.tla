----------------------------- MODULE FlashUpdate -----------------------------
(***************************************************************************)
(* The tool that replaces the M300's boot image: erase the blocks, program *)
(* chunk by chunk, read everything back, compare.                          *)
(* Source: src/example/m300/m300_flash_update.cpp, with the flash commands *)
(* of src/driver/M300/m300_xdma_ctrl.cpp.  The flash controller of the     *)
(* FPGA is external: modelled from the status bits the tool waits for and  *)
(* from the comments at them.                                              *)
(*                                                                         *)
(* A content of the flash is the chunk that belongs there, Erased or Junk. *)
(* A read of a status register changes nothing: the tool polls, so a wait  *)
(* is a step with the awaited status as its guard.                         *)
(***************************************************************************)
EXTENDS Naturals, Sequences

CONSTANTS
    NumChunks,  \* 4 KiB chunks of the image
    PerBlock,   \* chunks of an erase block (16)
    MaxRuns,    \* bound: runs of the tool
    MaxFaults   \* bound: commands, transfers, waits and cells that fail

FlashParameters ==
    NumChunks \in Nat \ {0} /\ PerBlock \in Nat \ {0} /\ MaxRuns \in Nat /\ MaxFaults \in Nat

VARIABLES
    tool,       \* where run_program is, its flags, the block or chunk it is at
    got,        \* data: the chunks read back
    chip,       \* the flash controller
    flash,      \* the content of each chunk
    fifo,       \* data on its way to the controller
    pipe,       \* the driver's ring of c2h_1
    luck        \* bounds, and history: a command met a busy controller

flashVars == <<tool, got, chip, flash, fifo, pipe, luck>>

Chunks == 1..NumChunks
Blocks == 1..((NumChunks + PerBlock - 1) \div PerBlock)
InBlock(b) == {c \in Chunks: (c - 1) \div PerBlock = b - 1}
Erased == 0
Junk == NumChunks + 1

Places == {"off", "mode", "settle", "erase", "erase_busy", "erase_done", "program", "send",
           "programmed", "ack", "drain", "stop", "final", "ring", "read", "packet",
           "read_done", "verify", "leave", "success", "undo_program", "undo_mode"}

FlashInit ==
    /\ tool = [at |-> "off", only |-> FALSE, updateMode |-> FALSE, programming |-> FALSE, n |-> 0]
    /\ got = <<>> /\ flash = [c \in Chunks |-> Junk] /\ fifo = <<>>
    /\ chip = [mode |-> FALSE, op |-> "idle", begun |-> FALSE, arg |-> 0, stop |-> FALSE,
               eraseDone |-> FALSE, chunkDone |-> FALSE, readDone |-> FALSE]
    /\ pipe = [on |-> FALSE, q |-> <<>>]
    /\ luck = [faults |-> 0, runs |-> 0, clash |-> FALSE]

Lucky == UNCHANGED luck
Unlucky == luck.faults < MaxFaults /\ luck' = [luck EXCEPT !.faults = @ + 1]
\* BUSY of the status register rises when the controller has begun.
Busy == chip.op # "idle" /\ chip.begun

-----------------------------------------------------------------------------
(* run_program *)

Goto(place, n) == tool' = [tool EXCEPT !.at = place, !.n = n]
\* The handler: what was begun is stopped, with errors ignored, and rethrown.
\* readback_flash has stopped its ring before.
Throw == /\ tool' = [tool EXCEPT !.at = IF tool.programming THEN "undo_program"
                                        ELSE IF tool.updateMode THEN "undo_mode" ELSE "off"]
         /\ pipe' = [on |-> FALSE, q |-> <<>>]

\* A command that fails throws; it may have been executed.
Command(executed, goes) ==
    \/ executed /\ goes /\ Lucky /\ UNCHANGED pipe
    \/ (executed \/ UNCHANGED chip) /\ Throw /\ Unlucky
\* ERASE, PROGRAM and READ are for an idle controller.
Operation(op, arg) ==
    chip' = IF chip.op = "idle"
            THEN [chip EXCEPT !.op = op, !.arg = arg, !.begun = FALSE, !.stop = FALSE]
            ELSE chip
StartOperation(op, arg, goes) ==
    \/ /\ Operation(op, arg) /\ goes /\ UNCHANGED pipe
       /\ luck' = [luck EXCEPT !.clash = @ \/ chip.op # "idle"]
    \/ /\ Operation(op, arg) \/ UNCHANGED chip
       /\ Throw /\ luck.faults < MaxFaults
       /\ luck' = [luck EXCEPT !.faults = @ + 1, !.clash = @ \/ chip.op # "idle"]

\* A run of the tool, in a process of its own; the controller has begun what an
\* earlier run asked for by then.
RunTool(only) ==
    /\ tool.at = "off" /\ luck.runs < MaxRuns /\ (chip.op # "idle" => chip.begun)
    /\ luck' = [luck EXCEPT !.runs = @ + 1]
    /\ tool' = [at |-> "mode", only |-> only, updateMode |-> FALSE, programming |-> FALSE, n |-> 0]
    /\ got' = <<>> /\ pipe' = [on |-> FALSE, q |-> <<>>]
    /\ UNCHANGED <<chip, flash, fifo>>

EnterMode ==
    /\ tool.at = "mode"
    /\ Command(chip' = [chip EXCEPT !.mode = TRUE],
               tool' = [tool EXCEPT !.at = "settle", !.updateMode = TRUE])
    /\ UNCHANGED <<got, flash, fifo>>

\* Mutant: an operation an earlier run has left is not waited for.
NotAwaited == TRUE
Settled == ~Busy

Settle ==
    /\ tool.at = "settle" /\ Settled
    /\ IF tool.only THEN Goto("ring", 1) ELSE Goto("erase", 1)
    /\ UNCHANGED <<got, chip, flash, fifo, pipe, luck>>

EraseBlock ==
    /\ tool.at = "erase"
    /\ StartOperation("erase", tool.n, Goto("erase_busy", tool.n))
    /\ UNCHANGED <<got, flash, fifo>>

\* Mutant: the done bit is believed at once, which may be that of the block before.
DoneIsEnough == TRUE
\* The new command has left IDLE ...
BusySeen == Busy

EraseStarted ==
    /\ tool.at = "erase_busy" /\ BusySeen /\ Goto("erase_done", tool.n)
    /\ UNCHANGED <<got, chip, flash, fifo, pipe, luck>>

\* ... so that the done bit is its own.
EraseFinished ==
    /\ tool.at = "erase_done" /\ chip.eraseDone /\ ~Busy
    /\ IF tool.n + 1 \in Blocks THEN Goto("erase", tool.n + 1) ELSE Goto("program", 1)
    /\ UNCHANGED <<got, chip, flash, fifo, pipe, luck>>

StartProgram ==
    /\ tool.at = "program"
    /\ StartOperation("program", 1, tool' = [tool EXCEPT !.at = "send", !.programming = TRUE])
    /\ UNCHANGED <<got, flash, fifo>>

SendChunk ==
    /\ tool.at = "send"
    /\ \/ fifo' = Append(fifo, tool.n) /\ Goto("programmed", tool.n) /\ Lucky /\ UNCHANGED pipe
       \/ UNCHANGED fifo /\ Throw /\ Unlucky
    /\ UNCHANGED <<got, chip, flash>>

ChunkProgrammed ==
    /\ tool.at = "programmed" /\ chip.chunkDone /\ Goto("ack", tool.n)
    /\ UNCHANGED <<got, chip, flash, fifo, pipe, luck>>

AckChunk ==
    /\ tool.at = "ack"
    /\ Command(chip' = [chip EXCEPT !.chunkDone = FALSE],
               IF tool.n < NumChunks THEN Goto("send", tool.n + 1) ELSE Goto("drain", 0))
    /\ UNCHANGED <<got, flash, fifo>>

Drained ==
    /\ tool.at = "drain" /\ fifo = <<>> /\ Goto("stop", 0)
    /\ UNCHANGED <<got, chip, flash, fifo, pipe, luck>>

\* STOP lets the controller finish what it has.
StopProgram ==
    /\ tool.at = "stop" /\ Command(chip' = [chip EXCEPT !.stop = TRUE], Goto("final", 0))
    /\ UNCHANGED <<got, flash, fifo>>

ProgramFinished ==
    /\ tool.at = "final" /\ ~Busy
    /\ tool' = [tool EXCEPT !.at = "ring", !.programming = FALSE, !.n = 1]
    /\ UNCHANGED <<got, chip, flash, fifo, pipe, luck>>

-----------------------------------------------------------------------------
(* readback_flash, verify_readback *)

StartRing ==
    /\ tool.at = "ring"
    /\ \/ pipe' = [on |-> TRUE, q |-> <<>>] /\ Goto("read", tool.n) /\ Lucky
       \/ Throw /\ Unlucky
    /\ UNCHANGED <<got, chip, flash, fifo>>

ReadChunk ==
    /\ tool.at = "read" /\ StartOperation("read", tool.n, Goto("packet", tool.n))
    /\ UNCHANGED <<got, flash, fifo>>

\* The packet must carry the address that was asked for.
ReceivePacket ==
    /\ tool.at = "packet" /\ pipe.q # <<>>
    /\ IF Head(pipe.q).address = tool.n
       THEN /\ got' = Append(got, Head(pipe.q).data) /\ Goto("read_done", tool.n)
            /\ pipe' = [pipe EXCEPT !.q = Tail(@)]
       ELSE Throw /\ UNCHANGED got
    /\ UNCHANGED <<chip, flash, fifo, luck>>

ReadFinished ==
    /\ tool.at = "read_done" /\ chip.readDone /\ ~Busy
    /\ IF tool.n < NumChunks THEN Goto("read", tool.n + 1) /\ UNCHANGED pipe
       ELSE Goto("verify", 0) /\ pipe' = [on |-> FALSE, q |-> <<>>]
    /\ UNCHANGED <<got, chip, flash, fifo, luck>>

\* Mutant: only the sizes are compared.
SameSize == Len(got) = NumChunks
SameBytes == Len(got) = NumChunks /\ \A c \in Chunks: got[c] = c

Verify ==
    /\ tool.at = "verify"
    /\ IF SameBytes THEN Goto("leave", 0) /\ UNCHANGED pipe ELSE Throw
    /\ UNCHANGED <<got, chip, flash, fifo, luck>>

LeaveMode ==
    /\ tool.at = "leave"
    /\ Command(chip' = [chip EXCEPT !.mode = FALSE],
               tool' = [tool EXCEPT !.at = "success", !.updateMode = FALSE])
    /\ UNCHANGED <<got, flash, fifo>>

\* A wait whose status does not come in time throws.  An erase may be over before
\* its BUSY was seen, and a program nobody stopped does not end: no fault is needed.
WaitTimeout ==
    /\ \/ tool.at \in {"erase_busy", "settle"} /\ Lucky
       \/ tool.at \in {"erase_done", "programmed", "drain", "final", "packet", "read_done"} /\ Unlucky
    /\ Throw /\ UNCHANGED <<got, chip, flash, fifo>>

UndoProgram ==
    /\ tool.at = "undo_program" /\ Goto("undo_mode", 0)
    /\ (chip' = [chip EXCEPT !.stop = TRUE] /\ Lucky) \/ (UNCHANGED chip /\ Unlucky)
    /\ UNCHANGED <<got, flash, fifo, pipe>>

UndoMode ==
    /\ tool.at = "undo_mode" /\ Goto("off", 0)
    /\ (chip' = [chip EXCEPT !.mode = FALSE] /\ Lucky) \/ (UNCHANGED chip /\ Unlucky)
    /\ UNCHANGED <<got, flash, fifo, pipe>>

\* The process ends anywhere, or is started again after its success.
ToolEnds ==
    /\ tool.at # "off" /\ Goto("off", 0) /\ pipe' = [on |-> FALSE, q |-> <<>>]
    /\ IF tool.at = "success" THEN Lucky ELSE Unlucky
    /\ UNCHANGED <<got, chip, flash, fifo>>

-----------------------------------------------------------------------------
(* the flash controller *)

\* PROGRAM may keep or drop what an earlier one has left in the FIFO and its bit.
ChipBegins ==
    /\ chip.op # "idle" /\ ~chip.begun
    /\ \E fresh \in BOOLEAN:
        /\ chip' = [chip EXCEPT !.begun = TRUE,
                        !.eraseDone = @ /\ chip.op # "erase", !.readDone = @ /\ chip.op # "read",
                        !.chunkDone = @ /\ ~(fresh /\ chip.op = "program")]
        /\ fifo' = IF fresh /\ chip.op = "program" THEN <<>> ELSE fifo
    /\ UNCHANGED <<tool, got, flash, pipe, luck>>

ChipErases ==
    /\ chip.op = "erase" /\ chip.begun
    /\ chip' = [chip EXCEPT !.op = "idle", !.eraseDone = TRUE]
    /\ flash' = [c \in Chunks |-> IF c \in InBlock(chip.arg) THEN Erased ELSE flash[c]]
    /\ UNCHANGED <<tool, got, fifo, pipe, luck>>

\* A chunk goes into its place, if that is erased and its cells are sound.
ChipPrograms ==
    /\ chip.op = "program" /\ chip.begun /\ fifo # <<>>
    /\ fifo' = Tail(fifo) /\ chip' = [chip EXCEPT !.chunkDone = TRUE, !.arg = @ + 1]
    /\ LET into(x) == flash' = [c \in Chunks |-> IF c = chip.arg THEN x ELSE flash[c]]
           data == IF flash[chip.arg] = Erased /\ Head(fifo) = chip.arg THEN chip.arg ELSE Junk
       IN IF chip.arg \in Chunks THEN (into(data) /\ Lucky) \/ (into(Junk) /\ Unlucky)
          ELSE UNCHANGED <<flash, luck>>
    /\ UNCHANGED <<tool, got, pipe>>

\* It ends on STOP, with the last data in the flash, or when the mode is left.
ChipEndsProgram ==
    /\ chip.op = "program" /\ chip.begun /\ ((chip.stop /\ fifo = <<>>) \/ ~chip.mode)
    /\ chip' = [chip EXCEPT !.op = "idle"]
    /\ UNCHANGED <<tool, got, flash, fifo, pipe, luck>>

ChipReads ==
    /\ chip.op = "read" /\ chip.begun
    /\ chip' = [chip EXCEPT !.op = "idle", !.readDone = TRUE]
    /\ \/ pipe' = [pipe EXCEPT !.q = IF pipe.on
                       THEN Append(@, [address |-> chip.arg, data |-> flash[chip.arg]]) ELSE @]
          /\ Lucky
       \/ UNCHANGED pipe /\ Unlucky
    /\ UNCHANGED <<tool, got, flash, fifo>>

FlashNext ==
    \/ \E only \in BOOLEAN: RunTool(only)
    \/ EnterMode \/ Settle \/ EraseBlock \/ EraseStarted \/ EraseFinished \/ StartProgram
    \/ SendChunk \/ ChunkProgrammed \/ AckChunk \/ Drained \/ StopProgram \/ ProgramFinished
    \/ StartRing \/ ReadChunk \/ ReceivePacket \/ ReadFinished \/ Verify \/ LeaveMode
    \/ WaitTimeout \/ UndoProgram \/ UndoMode \/ ToolEnds
    \/ ChipBegins \/ ChipErases \/ ChipPrograms \/ ChipEndsProgram \/ ChipReads

FlashSpec == FlashInit /\ [][FlashNext]_flashVars

-----------------------------------------------------------------------------
(* properties *)

FlashTypeOK ==
    /\ tool \in [at: Places, only: BOOLEAN, updateMode: BOOLEAN, programming: BOOLEAN,
                 n: 0..NumChunks]
    /\ got \in Seq(0..Junk) /\ flash \in [Chunks -> 0..Junk] /\ fifo \in Seq(Chunks)
    /\ chip \in [mode: BOOLEAN, op: {"idle", "erase", "program", "read"}, begun: BOOLEAN,
                 arg: Nat, stop: BOOLEAN, eraseDone: BOOLEAN, chunkDone: BOOLEAN,
                 readDone: BOOLEAN]
    /\ pipe \in [on: BOOLEAN, q: Seq([address: Chunks, data: 0..Junk])]

\* The tool reports success, and reboots into the image, only if the flash holds
\* the image, whatever failed in this run and in those before it.
FlashVerified == tool.at = "success" => \A c \in Chunks: flash[c] = c

\* No erase, program or read meets a controller that is busy, with what an
\* earlier command, an earlier block or a run that was killed has left to do.
CommandsMeetIdleChip == ~luck.clash
=============================================================================
