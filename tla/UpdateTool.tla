------------------------------ MODULE UpdateTool ------------------------------
(***************************************************************************)
(* The firmware update program of the E-series: a window, a worker thread  *)
(* that talks to the board's update service, and closing the window while  *)
(* the worker waits for it.                                                *)
(* Source: src/example/tools/iqtaxi_firmware_update_gui.cpp.  The service  *)
(* of the board is external: it answers a command with one payload, and an *)
(* update with progress and log lines until DONE, FAIL or ERR.             *)
(***************************************************************************)
EXTENDS Naturals, Sequences

CONSTANTS
    NumBlocks,  \* blocks of 64 KiB of the package
    MaxTasks,   \* bound: buttons pressed
    MaxLines,   \* bound: lines of a service that has not ended
    MaxBreaks   \* bound: connections that break, sends and waits that fail

UpdateParameters ==
    NumBlocks \in Nat \ {0} /\ MaxTasks \in Nat /\ MaxLines \in Nat /\ MaxBreaks \in Nat

VARIABLES
    ui,         \* the window: where it is, cancel_requested, active_socket, the status shown
    task,       \* the worker: kind of request, where it is, blocks sent, the script reported
    socket,     \* "none", "open", "shut" by the window, "lost" to the board
    lines,      \* lines from the board not yet read
    service,    \* the board: blocks received, whether it has ended, how
    trouble     \* bounds

updateVars == <<ui, task, socket, lines, service, trouble>>

Idle == [kind |-> "none", at |-> "none", sent |-> 0, reported |-> FALSE]
NoSession == [got |-> 0, said |-> 0, over |-> FALSE, complete |-> FALSE]

UpdateInit ==
    /\ ui = [at |-> "open", cancel |-> FALSE, active |-> FALSE, status |-> "idle"]
    /\ task = Idle /\ socket = "none" /\ lines = <<>> /\ service = NoSession
    /\ trouble = [tasks |-> 0, breaks |-> 0]

Smooth == UNCHANGED trouble
Breaks == trouble.breaks < MaxBreaks /\ trouble' = [trouble EXCEPT !.breaks = @ + 1]
At(place) == task' = [task EXCEPT !.at = place]

-----------------------------------------------------------------------------
(* the window: start_worker, request_cancel, and the end of main *)

\* Buttons are off while a worker is busy; one that has ended is joined.
StartWorker(kind) ==
    /\ ui.at = "open" /\ task.at \in {"none", "ended"} /\ trouble.tasks < MaxTasks
    /\ ui' = [ui EXCEPT !.cancel = FALSE, !.active = FALSE, !.status = "connecting"]
    /\ task' = [Idle EXCEPT !.kind = kind, !.at = "connect"]
    /\ trouble' = [trouble EXCEPT !.tasks = @ + 1]
    /\ UNCHANGED <<socket, lines, service>>

\* The flag first, then the socket.
CloseWindow ==
    /\ ui.at = "open"
    /\ ui' = [ui EXCEPT !.at = IF task.at = "none" THEN "gone" ELSE "look",
                        !.cancel = @ \/ task.at # "none"]
    /\ UNCHANGED <<task, socket, lines, service, trouble>>

ShutSocket ==
    /\ ui.at = "look" /\ ui' = [ui EXCEPT !.at = "join"]
    /\ socket' = IF ui.active /\ socket = "open" THEN "shut" ELSE socket
    /\ UNCHANGED <<task, lines, service, trouble>>

JoinWorker ==
    /\ ui.at = "join" /\ task.at = "ended" /\ task' = Idle
    /\ ui' = [ui EXCEPT !.at = "gone"] /\ UNCHANGED <<socket, lines, service, trouble>>

-----------------------------------------------------------------------------
(* the worker: send_status_request, send_uoe_netcfg_request, send_update_request *)

\* The handler: a cancelled task is no error; the destructors forget the socket and
\* close it.
Ends(status) ==
    /\ At("ended") /\ socket' = "none"
    /\ ui' = [ui EXCEPT !.status = status, !.active = FALSE]
Fails == Ends(IF ui.cancel THEN "canceled" ELSE "error")

Connect ==
    /\ task.at = "connect"
    /\ \/ /\ At("announce") /\ socket' = "open" /\ lines' = <<>> /\ Smooth
          /\ service' = NoSession /\ UNCHANGED ui
       \/ Fails /\ Breaks /\ UNCHANGED <<lines, service>>

\* Mutant: a task does not tell the window its socket.
NotAnnounced == FALSE
\* active_socket is stored before the flag is looked at: a close that came too early
\* to see the socket is seen here.
SocketKnown == TRUE

Announce ==
    /\ task.at = "announce" /\ At("check") /\ ui' = [ui EXCEPT !.active = SocketKnown]
    /\ UNCHANGED <<socket, lines, service, trouble>>

\* throw_if_cancelled, before the command, before each block and before each line.
Check ==
    /\ task.at = "check"
    /\ IF ui.cancel THEN Fails
       ELSE /\ At(IF task.kind = "update" /\ task.sent = NumBlocks THEN "recv" ELSE "send")
            /\ UNCHANGED <<ui, socket>>
    /\ UNCHANGED <<lines, service, trouble>>

\* A command is one send, an update a header and its blocks.  A send without a
\* connection is an error, or the end of the program: no flag and no handler keeps
\* SIGPIPE away.
SendBlock ==
    /\ task.at = "send" /\ UNCHANGED lines
    /\ \/ /\ socket = "open" /\ Smooth /\ UNCHANGED <<ui, socket>>
          /\ task' = IF task.kind = "update" THEN [task EXCEPT !.at = "check", !.sent = @ + 1]
                     ELSE [task EXCEPT !.at = "recv"]
          /\ service' = [service EXCEPT !.got = @ + 1]
       \/ Fails /\ UNCHANGED service /\ IF socket = "open" THEN Breaks ELSE Smooth
       \/ /\ socket # "open" /\ ui' = [ui EXCEPT !.at = "gone"] /\ task' = Idle
          /\ socket' = "none" /\ Smooth /\ UNCHANGED service

\* Mutant: a connection that ends is a success, whatever was reported.
EndIsSuccess == TRUE
\* The script has said in its log that it is complete.
Reported == task.reported

\* A wait that ends without a line: shut by the window, closed by the board, broken,
\* or 30 seconds over.
NoLine ==
    /\ task.at = "recv" /\ (lines = <<>> \/ socket = "shut") /\ UNCHANGED <<lines, service>>
    /\ IF task.kind = "update" /\ Reported THEN Ends("complete") ELSE Fails
    /\ IF socket = "open" THEN Breaks ELSE Smooth

\* Lines of an update: ERR and FAIL throw, DONE ends it, a LOG may hold the report,
\* PROGRESS of 100 ends it once that was seen.  Any other task ends with its answer.
TakeLine ==
    /\ task.at = "recv" /\ lines # <<>> /\ lines' = Tail(lines)
    /\ LET line == Head(lines) IN
       IF task.kind = "request" THEN IF line = "OK" THEN Ends("ready") ELSE Fails
       ELSE IF line \in {"ERR", "FAIL"} THEN Fails
       ELSE IF line = "DONE" \/ (line = "PROGRESS 100" /\ Reported) THEN Ends("complete")
       ELSE /\ task' = [task EXCEPT !.at = "check", !.reported = @ \/ line = "LOG complete"]
            /\ UNCHANGED <<ui, socket>>
    /\ UNCHANGED <<service, trouble>>

-----------------------------------------------------------------------------
(* the board's service *)

Whole == service.got = IF task.kind = "update" THEN NumBlocks ELSE 1
Says(line) == lines' = IF socket = "open" THEN Append(lines, line) ELSE lines
Connected == task.at \notin {"none", "connect", "ended"} /\ ~service.over

ServiceWorks ==
    /\ Connected /\ task.kind = "update" /\ service.said < MaxLines
    /\ service' = [service EXCEPT !.said = @ + 1]
    /\ \E line \in {"PROGRESS", "LOG"} \cup (IF Whole THEN {"PROGRESS 100"} ELSE {}): Says(line)
    /\ UNCHANGED <<ui, task, socket, trouble>>

ServiceCompletes ==
    /\ Connected /\ Whole /\ ~service.complete /\ service' = [service EXCEPT !.complete = TRUE]
    /\ Says(IF task.kind = "update" THEN "LOG complete" ELSE "OK")
    /\ UNCHANGED <<ui, task, socket, trouble>>

\* It ends with DONE, with an error, or the board restarts and the connection is lost.
ServiceEnds ==
    /\ Connected /\ service' = [service EXCEPT !.over = TRUE] /\ UNCHANGED <<ui, task>>
    /\ \/ service.complete /\ Says("DONE") /\ UNCHANGED socket /\ Smooth
       \/ ~service.complete /\ \E line \in {"ERR", "FAIL"}: Says(line) /\ UNCHANGED socket /\ Breaks
       \/ socket' = (IF socket = "open" THEN "lost" ELSE socket) /\ UNCHANGED lines /\ Breaks

UpdateNext ==
    \/ \E kind \in {"request", "update"}: StartWorker(kind)
    \/ CloseWindow \/ ShutSocket \/ JoinWorker
    \/ Connect \/ Announce \/ Check \/ SendBlock \/ NoLine \/ TakeLine
    \/ ServiceWorks \/ ServiceCompletes \/ ServiceEnds

UpdateSpec == UpdateInit /\ [][UpdateNext]_updateVars

-----------------------------------------------------------------------------
(* properties *)

UpdateTypeOK ==
    /\ ui \in [at: {"open", "look", "join", "gone"}, cancel: BOOLEAN, active: BOOLEAN,
               status: {"idle", "connecting", "ready", "complete", "canceled", "error"}]
    /\ task \in [kind: {"none", "request", "update"}, sent: 0..NumBlocks, reported: BOOLEAN,
                 at: {"none", "connect", "announce", "check", "send", "recv", "ended"}]
    /\ socket \in {"none", "open", "shut", "lost"} /\ lines \in Seq(STRING)
    /\ service \in [got: Nat, said: Nat, over: BOOLEAN, complete: BOOLEAN]
    /\ trouble \in [tasks: Nat, breaks: Nat]

\* Closing the window never waits for the board: whenever the join is reached, a worker
\* that sends or waits for a line has lost its socket.
CloseIsPrompt == (ui.at = "join" /\ task.at \in {"send", "recv"}) => socket # "open"

\* An update is shown as complete only if the board has said that it is: a connection
\* that ends early, a progress of 100 or a cancelled task are not that.
CompleteIsTrue ==
    (task.kind = "update" /\ task.at = "ended" /\ ui.status = "complete") => service.complete
=============================================================================
