------------------------------ MODULE UpdateForm ------------------------------
(***************************************************************************)
(* The form of the E-series update program: its fields, the buttons, the   *)
(* search for a board, and what a worker leaves for the next frame.        *)
(* Source: src/example/tools/iqtaxi_firmware_update_gui.cpp.  The worker's *)
(* conversation with a board, and closing the window, are UpdateTool's.    *)
(*                                                                         *)
(* The window draws frame after frame; a worker runs beside it.  The       *)
(* address is typed without the mutex the worker reads it under, so the    *)
(* worker may see the text half changed.                                   *)
(***************************************************************************)
EXTENDS Naturals, Sequences, SequencesExt

CONSTANTS
    Places,         \* the addresses of the subnet
    MaxPresses,     \* bound: buttons pressed
    MaxEvents       \* bound: fields the operator changes, probes and answers lost

FormParameters == MaxPresses \in Nat /\ MaxEvents \in Nat

VARIABLES
    form,           \* the fields: address, device, UOE address and MAC
    frame,          \* where the frame is, and the address being typed
    helper,         \* the worker: its task and what it captured, found and has to do
    posted,         \* what a worker left for the next frame
    network,        \* per address: the board there, if any, and its persistent settings
    notes,          \* how the last search ended; whether commands were sent as pressed
    formSpent       \* bounds

formVars == <<form, frame, helper, posted, network, notes, formSpent>>

\* A field's text, in the form or on its way there; a worker leaves none as "".
Values == {"v1", "v2"}
Torn == "torn"          \* text that is no address of the subnet
Empty == [host |-> "", ip |-> "", mac |-> ""]
NoTask == [kind |-> "none", at |-> "ended", host |-> "", value |-> "", device |-> "",
           seed |-> "", found |-> <<>>, heard |-> {}]
FirstPlace == CHOOSE p \in Places: TRUE

FormInit ==
    /\ form = [host |-> FirstPlace, device |-> "E206", ip |-> "v1", mac |-> "v1"]
    /\ frame = [at |-> "apply", typed |-> ""]
    /\ helper = NoTask /\ posted = Empty
    \* A board may be off, its service not started, or older than the discovery, and a
    \* service may report an address without a MAC.
    /\ \E udp, tcp \in SUBSET Places, both \in {{}, Places}:
         /\ both = {} => udp = {} /\ tcp = Places
         /\ network = [p \in Places |-> [udp |-> p \in udp, tcp |-> p \in tcp, ip |-> "v2",
                                         mac |-> "v2", both |-> p \in both]]
    /\ notes = [search |-> "none", lost |-> FALSE, seed |-> "", asPressed |-> TRUE]
    /\ formSpent = [presses |-> 0, events |-> 0]

Busy == helper.at # "ended"
Event == formSpent.events < MaxEvents /\ formSpent' = [formSpent EXCEPT !.events = @ + 1]
Frame(place) == frame' = [frame EXCEPT !.at = place]

-----------------------------------------------------------------------------
(* the window: render_gui, one pass for a frame *)

\* Mutant: an absent value is taken too.
AsPosted(field, text) == text
\* A value the board did not report leaves its field as it was.
Taken(field, text) == IF text = "" THEN field ELSE text
ApplyPosted ==
    /\ frame.at = "apply" /\ Frame("find")
    /\ form' = [form EXCEPT !.host = Taken(@, posted.host), !.ip = Taken(@, posted.ip),
                            !.mac = Taken(@, posted.mac)]
    /\ posted' = Empty /\ UNCHANGED <<helper, network, notes, formSpent>>

ChooseDevice ==
    /\ frame.at = "find" /\ Event
    /\ form' = [form EXCEPT !.device = IF @ = "E206" THEN "E200" ELSE "E206"]
    /\ UNCHANGED <<frame, helper, posted, network, notes>>
\* Typing the address: begun, and done.
TypeHost ==
    /\ frame.at = "find" /\ Event
    /\ \E p \in Places \ {form.host}: frame' = [at |-> "typing", typed |-> p]
    /\ UNCHANGED <<form, helper, posted, network, notes>>
HostTyped ==
    /\ frame.at = "typing" /\ frame' = [at |-> "find", typed |-> ""]
    /\ form' = [form EXCEPT !.host = frame.typed]
    /\ UNCHANGED <<helper, posted, network, notes, formSpent>>
TypeUoe ==
    /\ frame.at = "buttons" /\ Event
    /\ \E v \in Values: \/ form' = [form EXCEPT !.ip = v]
                        \/ form' = [form EXCEPT !.mac = v]
    /\ UNCHANGED <<frame, helper, posted, network, notes>>

\* start_worker: an earlier worker has ended, so its join does not wait.
Press(kind, value, device) ==
    /\ formSpent.presses < MaxPresses /\ formSpent' = [formSpent EXCEPT !.presses = @ + 1]
    /\ helper' = [NoTask EXCEPT !.kind = kind, !.host = form.host, !.value = value, !.device = device,
                                !.at = IF kind = "find" THEN "seed" ELSE "talk"]
    /\ UNCHANGED <<form, posted, network>>
\* A button drawn while the worker was busy does nothing.
PressFind ==
    /\ frame.at = "find" /\ ~Busy /\ Press("find", "", form.device) /\ Frame("buttons")
    /\ UNCHANGED notes
SkipFind == frame.at = "find" /\ Frame("buttons") /\ UNCHANGED <<form, helper, posted, network, notes, formSpent>>

\* What a button captures beside the address.
Captured(kind) == CASE kind = "saveIp" -> form.ip [] kind = "saveMac" -> form.mac [] OTHER -> ""
Allowed(kind) == kind = "qspi" => form.device # "E200"
PressCommand ==
    \E kind \in {"status", "qspi", "sd", "netcfg", "saveIp", "saveMac"}:
        /\ frame.at = "buttons" /\ ~Busy /\ Allowed(kind)
        /\ Press(kind, Captured(kind), form.device) /\ Frame("apply") /\ UNCHANGED notes
EndFrame == frame.at = "buttons" /\ Frame("apply") /\ UNCHANGED <<form, helper, posted, network, notes, formSpent>>

-----------------------------------------------------------------------------
(* the worker's search: send_discover_request *)

Works(place) == helper' = [helper EXCEPT !.at = place]
Helps == UNCHANGED <<form, frame, posted, network>>

\* The address as the form has it now; beside a frame that is typing, the old one, the
\* new one or neither.
ReadSeed ==
    /\ helper.at = "seed" /\ Helps /\ UNCHANGED formSpent
    /\ \E s \in IF frame.at = "typing" THEN {form.host, frame.typed, Torn} ELSE {form.host}:
         /\ helper' = [helper EXCEPT !.at = "probe", !.seed = s]
         /\ notes' = [notes EXCEPT !.search = "none", !.lost = FALSE, !.seed = s]

\* Mutant: the boards that answer come first.
ProbedLast(found, seed) == found
Before(found, seed) == <<seed>> \o found
\* tcp_port_open_ipv4: the service at the address the form has; a text that is no
\* address has none.
Opens(p) == p \in Places /\ network[p].tcp
ProbeSeed ==
    /\ helper.at = "probe" /\ Helps
    /\ \/ /\ helper' = [helper EXCEPT !.at = "ask",
                                      !.found = IF Opens(helper.seed) THEN Before(@, helper.seed) ELSE @]
          /\ UNCHANGED <<notes, formSpent>>
       \/ /\ Opens(helper.seed) /\ Event /\ Works("ask") /\ notes' = [notes EXCEPT !.lost = TRUE]

\* Three times to the whole network, to the address and to its subnet: one request
\* that arrives is enough, so a board is missed only when all are lost.
Hearing == {p \in Places: network[p].udp}
AskBoards ==
    /\ helper.at = "ask" /\ Helps
    /\ \/ helper' = [helper EXCEPT !.at = "listen", !.heard = Hearing] /\ UNCHANGED <<notes, formSpent>>
       \/ /\ Event /\ notes' = [notes EXCEPT !.lost = TRUE]
          /\ \E p \in Hearing: helper' = [helper EXCEPT !.at = "listen", !.heard = Hearing \ {p}]

\* Mutant: a board is listed for every answer.
Always(found, p) == Append(found, p)
\* A board answers every request; it is listed once.
Listed(found, p) == IF Contains(found, p) THEN found ELSE Append(found, p)
HearBoard ==
    /\ helper.at = "listen" /\ Helps /\ UNCHANGED <<notes, formSpent>>
    /\ \E p \in helper.heard: helper' = [helper EXCEPT !.found = Listed(@, p)]
\* Mutant: without an answer the search is over.
NoScan == FALSE
\* No answer at all, and an address to start from.
WorthScanning == helper.found = <<>> /\ helper.seed \in Places
\* 1.5 seconds are over: answers not there yet are late.
ListenEnds ==
    /\ helper.at = "listen" /\ Helps
    /\ Works(IF WorthScanning THEN "scan" ELSE "post")
    /\ IF helper.heard \subseteq ToSet(helper.found) THEN UNCHANGED <<notes, formSpent>>
       ELSE Event /\ notes' = [notes EXCEPT !.lost = TRUE]

\* scan_ipv4_subnet_for_port: every address of the subnet, in the order they answer.
Scan ==
    /\ helper.at = "scan" /\ Helps
    /\ LET open == {p \in Places: Opens(p)} IN
       \/ \E order \in SetToSeqs(open): helper' = [helper EXCEPT !.at = "post", !.found = order]
          /\ UNCHANGED <<notes, formSpent>>
       \/ /\ Event /\ notes' = [notes EXCEPT !.lost = TRUE]
          /\ \E p \in open: \E order \in SetToSeqs(open \ {p}):
               helper' = [helper EXCEPT !.at = "post", !.found = order]

\* The first of those found, for the next frame.
PostHost ==
    /\ helper.at = "post" /\ Works("done") /\ UNCHANGED <<form, frame, network, formSpent>>
    /\ posted' = [posted EXCEPT !.host = IF helper.found = <<>> THEN @ ELSE Head(helper.found)]
    /\ notes' = [notes EXCEPT !.search = IF helper.found = <<>> THEN "nothing" ELSE Head(helper.found)]

-----------------------------------------------------------------------------
(* the worker's commands: send_status_request, send_uoe_netcfg_request,
   send_update_request *)

\* Mutant: the field as it is when the command is sent.
FromForm(task) == CASE task.kind = "saveIp" -> form.ip [] task.kind = "saveMac" -> form.mac [] OTHER -> ""
Sent(task) == task.value

\* An update of QSPI is refused for an E200, whatever the button did; then the board
\* does it and, to the UOE commands, reports what it has stored now; or it all fails.
Talk ==
    /\ helper.at = "talk" /\ Works("done") /\ UNCHANGED <<form, frame>>
    /\ LET task == helper
           refused == task.kind = "qspi" /\ task.device = "E200"
           board == network[task.host]
           after == CASE task.kind = "saveIp" -> [board EXCEPT !.ip = Sent(task)]
                      [] task.kind = "saveMac" -> [board EXCEPT !.mac = Sent(task)]
                      [] OTHER -> board
       IN  \/ /\ ~refused /\ Opens(task.host) /\ UNCHANGED formSpent
              /\ network' = [network EXCEPT ![task.host] = after]
              /\ posted' = IF task.kind \in {"netcfg", "saveIp", "saveMac"}
                           THEN [posted EXCEPT !.ip = after.ip, !.mac = IF board.both THEN after.mac ELSE ""]
                           ELSE posted
              /\ notes' = [notes EXCEPT !.asPressed = Sent(task) = task.value]
           \/ /\ IF refused \/ ~Opens(task.host) THEN UNCHANGED formSpent ELSE Event
              /\ UNCHANGED <<network, posted, notes>>

\* busy.store(false), after the task.
TaskEnds ==
    /\ helper.at = "done" /\ helper' = NoTask /\ Helps /\ UNCHANGED <<notes, formSpent>>

FormNext ==
    \/ ApplyPosted \/ ChooseDevice \/ TypeHost \/ HostTyped \/ TypeUoe
    \/ PressFind \/ SkipFind \/ PressCommand \/ EndFrame
    \/ ReadSeed \/ ProbeSeed \/ AskBoards \/ HearBoard \/ ListenEnds \/ Scan \/ PostHost
    \/ Talk \/ TaskEnds

-----------------------------------------------------------------------------
(* properties *)

FormTypeOK ==
    /\ form.host \in Places /\ form.device \in {"E206", "E200"}
    /\ frame.at \in {"apply", "typing", "find", "buttons"}
    /\ helper.at \in {"ended", "seed", "probe", "ask", "listen", "scan", "post", "talk", "done"}
    /\ DOMAIN network = Places

\* A search that finds nothing met no board it could have found: none that answers it
\* and, if the form had an address, none with a service; only lost packets excuse it
\* (iqtaxi_firmware_update_gui.cpp:706).
NothingMeansNone ==
    notes.search = "nothing" /\ ~notes.lost =>
        /\ Hearing = {}
        /\ notes.seed \in Places => \A p \in Places: ~network[p].tcp
\* What a search puts in the form is a board; and an address whose service works is not
\* exchanged for another board's (iqtaxi_firmware_update_gui.cpp:600).
FoundIsBoard ==
    notes.search \notin {"none", "nothing"} =>
        /\ network[notes.search].tcp \/ network[notes.search].udp
        /\ Opens(notes.seed) /\ ~notes.lost => notes.search = notes.seed
\* No board is listed twice.
ListedOnce == IsInjective(helper.found)
\* A command goes out with the values the form showed when its button was pressed,
\* whatever is typed or found meanwhile; and a value the board does not report does not
\* empty its field (iqtaxi_firmware_update_gui.cpp:978, 1134).
SentAsPressed == notes.asPressed /\ "" \notin {form.ip, form.mac}
FormRight == NothingMeansNone /\ FoundIsBoard /\ ListedOnce /\ SentAsPressed
=============================================================================
