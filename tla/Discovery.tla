----------------------------- MODULE Discovery -----------------------------
(***************************************************************************)
(* How a host finds the E-series boards of its network.  Sources:          *)
(* src/driver/IQTAXI/iqtaxi_udp_discover.cpp and src/plugin/ANTSDRUtil.cpp *)
(* (the plain search), src/soapysdr/IQTAXI/Registration.cpp (the search    *)
(* of the SoapySDR module, with the same loop and a filter) and            *)
(* src/UHD/IQTAXI/iqtaxi_impl.cpp (iqtaxi_find).                           *)
(*                                                                         *)
(* A search broadcasts requests.  Each answer makes it ask that board once *)
(* more, and it lists what answers the second time.  The plain searches do *)
(* all that on one socket, so the second answer may be anyone's; UHD opens *)
(* a connected socket for it.                                              *)
(***************************************************************************)
EXTENDS Naturals, Sequences, FiniteSets, SequencesExt

CONSTANTS
    Boards,     \* the boards, by their product names
    Self,       \* the host, whose own broadcast comes back to it
    MaxCopies,  \* bound: requests of the broadcast that reach one board
    MaxLate     \* bound: answers that come after the wait for them is over

Products == {"E100", "E200", "E206"}

DiscoveryParameters ==
    /\ Boards \subseteq Products /\ Self \notin Boards
    /\ MaxCopies \in Nat \ {0} /\ MaxLate \in Nat

-----------------------------------------------------------------------------
(* The arguments of a search.  "-" is a key that is not there; product is    *)
(* treated as device is, iface as transport is.                              *)

KwargsSet == [device: Products \cup {"-", "M300"},
              driver: {"-", "IQTAXI", "E206_UDP", "M300_XDMA"},
              transport: {"-", "udp", "pcie"}, addr: BOOLEAN]
NoKwargs == [device |-> "-", driver |-> "-", transport |-> "-", addr |-> FALSE]

\* kwargs_match_device: what is said of the device fits this one.
KwargsMatch(args, name) ==
    /\ args.device \in {"-", name}
    /\ args.driver \in {"-", "IQTAXI", name \o "_UDP"}

\* Mutant: the driver says nothing of the bus.
DriverIgnored(args) == args.device = "M300" \/ args.transport = "pcie"
\* is_m300_request
IsM300Request(args) ==
    args.driver = "M300_XDMA" \/ args.device = "M300" \/ args.transport = "pcie"

\* make_device_info; the factory that found the device stamps its name on it.
DeviceInfo(name, factory) ==
    [device |-> name, driver |-> factory, transport |-> "udp", addr |-> TRUE]

\* findUdpSDR with an address: the names it lists without asking anyone.
FindDirect(args) ==
    {n \in Products: ~IsM300Request(args) /\ args.addr /\ KwargsMatch(args, n)}

\* findUdpSDR, and findE206SDR, which leaves an empty request to it.
UdpLooks(args) == ~IsM300Request(args)
E206Looks(args) == args # NoKwargs /\ UdpLooks(args)

\* findM300SDR probes XDMA candidates.
M300Looks(args) ==
    /\ args.device \notin Products /\ args.transport # "udp"
    /\ args.driver \notin {"IQTAXI", "E206_UDP"}
    /\ args = NoKwargs \/ IsM300Request(args)

-----------------------------------------------------------------------------
(* The hints of UHD: a name is a product and its band.                       *)

Bands == {"", "-6G"}
Serials == {[i \in 1..n |-> IF i = 1 THEN first ELSE other]:
              n \in 0..8, first, other \in {48, 57, 97, 102}}

\* hint_accepts_antsdr_device
HintAccepts(hint, name) ==
    /\ hint.type \in {"-", "iqtaxi", name}
    /\ hint.product \in {"-", name}

\* get_explicit_product_from_hint: the first key that names a product.
ExplicitProduct(hint) ==
    LET said == SelectSeq(<<hint.type, hint.product, hint.name.product>>,
                          LAMBDA x: x \in Products)
    IN  IF said = <<>> THEN "-" ELSE said[1]

Decimal(byte) == IF byte < 100 THEN <<byte \div 10, byte % 10>>
                 ELSE <<byte \div 100, (byte \div 10) % 10, byte % 10>>

\* Mutant: the serial number as the board writes it.
RawSerial(s) == [i \in 1..Len(s) |-> IF s[i] >= 97 THEN s[i] - 87 ELSE s[i] - 48]
\* uhd_safe_discovery_serial: the bytes in decimal, eight digits.
SafeSerial(s) ==
    LET digits == FlattenSeq([i \in 1..Len(s) |-> Decimal(s[i])])
    IN  SubSeq(digits, 1, IF Len(digits) > 8 THEN 8 ELSE Len(digits))

\* uhd_serial_fits_stoi_hex: not empty, and less than 2^31 when read in base 16.
FitsStoi(digits) == Len(digits) \in 1..7 \/ (Len(digits) = 8 /\ digits[1] < 8)

\* What iqtaxi_find tells of a board.
Discovered(product, band, s) ==
    [type |-> "iqtaxi", product |-> product,
     name |-> [product |-> product, band |-> band], serial |-> SafeSerial(s)]

\* Mutant: the name is made from the product.
PlainName(hint) == [product |-> ExplicitProduct(hint), band |-> ""]
\* make_explicit_device_addr keeps the hint's name, and its serial when it fits.
KeptName(hint) == IF hint.name.product = "-" THEN PlainName(hint) ELSE hint.name

MakeExplicit(hint) ==
    [type |-> hint.type, product |-> hint.product, name |-> KeptName(hint),
     serial |-> IF FitsStoi(hint.serial) THEN hint.serial ELSE <<>>]

\* iqtaxi_find with a board's own address and its product: nobody is asked.
FindAgain(hint) ==
    IF ExplicitProduct(hint) = "-" THEN {} ELSE {MakeExplicit(hint)}

-----------------------------------------------------------------------------
(* The search.                                                               *)

VARIABLES
    finder,     \* the search: whose it is, the device it is for, where it is
    pending,    \* answers under way to its socket, by sender
    inbox,      \* answers that wait in its socket
    copies,     \* requests of the broadcast that reach each board
    listed,     \* the result: the boards in the order they were found
    asked,      \* second requests sent
    missed      \* answers lost, late ones

discoveryVars == <<finder, pending, inbox, copies, listed, asked, missed>>

Wanted(b) == finder.device \in {"-", b}

\* The board that is asked a second time: UHD's connected socket hears only it.
Direct == finder.who = "uhd"

\* The requests go to every interface's broadcast address, to
\* 255.255.255.255 and to 192.168.1.10: a board may get several.  The socket
\* of a plain search is bound to the port it broadcasts to.
DiscoveryInit ==
    /\ finder \in [who: {"plain", "soapy", "uhd"}, device: Boards \cup {"-"},
                   at: {"wait"}, of: {Self}]
    /\ finder.who = "plain" => finder.device = "-"
    /\ copies \in [Boards -> 0..MaxCopies]
    /\ pending = [b \in Boards \cup {Self} |->
                    IF b \in Boards THEN copies[b] ELSE IF Direct THEN 0 ELSE 1]
    /\ inbox = <<>> /\ listed = <<>> /\ asked = 0
    /\ missed = [lost |-> {}, late |-> 0]

At(place, b) == finder' = [finder EXCEPT !.at = place, !.of = b]

\* The network.
Arrive(b) ==
    /\ pending[b] > 0 /\ pending' = [pending EXCEPT ![b] = @ - 1]
    /\ inbox' = Append(inbox, b)
    /\ UNCHANGED <<finder, copies, listed, asked, missed>>
Lose(b) ==
    /\ b # Self /\ pending[b] > 0 /\ pending' = [pending EXCEPT ![b] = @ - 1]
    /\ missed' = [missed EXCEPT !.lost = @ \cup {b}]
    /\ UNCHANGED <<finder, inbox, copies, listed, asked>>

\* Mutant: UHD asks again through the socket of its broadcast.
SameSocket(b) == [pending EXCEPT ![b] = @ + 1]
\* Where the second answer will go.
AskAgain(b) == IF Direct THEN pending ELSE [pending EXCEPT ![b] = @ + 1]

\* What the first answer is worth: not the host's own request, and for the
\* searches that filter, a board that is asked for.
Considered(b) == b # Self /\ Wanted(b)

ReadAnswer ==
    /\ finder.at = "wait" /\ inbox # <<>> /\ inbox' = Tail(inbox)
    /\ LET b == Head(inbox) IN
       IF Considered(b)
       THEN /\ At("confirm", b) /\ asked' = asked + 1 /\ pending' = AskAgain(b)
       ELSE UNCHANGED <<finder, asked, pending>>
    /\ UNCHANGED <<copies, listed, missed>>

\* Nothing more within the time-out; the plain searches also end after ten
\* time-outs whatever is left.
SearchEnds ==
    /\ finder.at = "wait" /\ At("done", Self)
    /\ inbox = <<>> \/ ~Direct
    /\ UNCHANGED <<pending, inbox, copies, listed, asked, missed>>

\* Mutants: an answer counts whoever was listed; only the board that was asked.
NeverSeen(b) == b # Self
SameBoard(b) == b = finder.of /\ ~Contains(listed, b)
\* seen.insert(address:name)
NewBoard(b) == b # Self /\ ~Contains(listed, b)

\* The plain searches take the next answer of any board as the confirmation.
Confirm ==
    /\ finder.at = "confirm" /\ ~Direct /\ inbox # <<>> /\ inbox' = Tail(inbox)
    /\ listed' = IF NewBoard(Head(inbox)) THEN Append(listed, Head(inbox)) ELSE listed
    /\ At("wait", Self)
    /\ UNCHANGED <<pending, copies, asked, missed>>
ConfirmLate ==
    /\ finder.at = "confirm" /\ ~Direct /\ inbox = <<>>
    /\ IF \A b \in Boards \cup {Self}: pending[b] = 0 THEN UNCHANGED missed
       ELSE missed.late < MaxLate /\ missed' = [missed EXCEPT !.late = @ + 1]
    /\ At("wait", Self)
    /\ UNCHANGED <<pending, inbox, copies, listed, asked>>

\* UHD's connected socket; a late answer meets a closed socket.  It remembers
\* no board it has listed.
ConfirmDirect ==
    /\ finder.at = "confirm" /\ Direct
    /\ \/ listed' = Append(listed, finder.of) /\ UNCHANGED missed
       \/ missed' = [missed EXCEPT !.lost = @ \cup {finder.of}] /\ UNCHANGED listed
    /\ At("wait", Self)
    /\ UNCHANGED <<pending, inbox, copies, asked>>

DiscoveryNext ==
    \/ \E b \in Boards \cup {Self}: Arrive(b) \/ Lose(b)
    \/ ReadAnswer \/ SearchEnds \/ Confirm \/ ConfirmLate \/ ConfirmDirect

DiscoverySpec == DiscoveryInit /\ [][DiscoveryNext]_discoveryVars

-----------------------------------------------------------------------------
(* properties *)

DiscoveryTypeOK ==
    /\ finder.at \in {"wait", "confirm", "done"}
    /\ finder.of \in Boards \cup {Self}
    /\ pending \in [Boards \cup {Self} -> 0..(2 * MaxCopies + MaxLate + 1)]
    /\ inbox \in Seq(Boards \cup {Self}) /\ listed \in Seq(Boards)
    /\ missed.lost \subseteq Boards /\ missed.late \in 0..MaxLate

\* A search misses no board it was made for, unless an answer of that board
\* was lost or had not come when the search was over: although any answer may
\* confirm any other, each first answer of a board brings one more of it.
SearchComplete ==
    finder.at = "done" =>
        \A b \in Boards:
            Wanted(b) /\ copies[b] > 0 =>
                \/ Contains(listed, b) \/ b \in missed.lost
                \/ pending[b] > 0 \/ Contains(inbox, b)

\* The list names no board twice (for UHD no more often than it was asked),
\* and UHD's no board that was not asked for.
ListIsSound ==
    \A b \in Boards:
        LET n == Len(SelectSeq(listed, LAMBDA x: x = b)) IN
        /\ n <= IF Direct THEN copies[b] ELSE 1
        /\ Direct /\ n > 0 => Wanted(b)

\* The search feeds itself with its second requests, and still ends: there
\* are no more of them than answers to the broadcast, the host's own request
\* that comes back, and late answers (the comment at iqtaxi_impl.cpp:546).
SearchBounded ==
    asked <= FoldSet(LAMBDA b, n: n + copies[b], 0, Boards)
             + missed.late + (IF Direct THEN 0 ELSE 1)

\* A device that was listed is found again, alone and as it was, when it is
\* opened with what the list says of it: by SoapySDR (the comment at
\* Registration.cpp:125) under the factory's name, with no M300 probed, and by
\* UHD, which compares type, product, name and serial (iqtaxi_impl.cpp:364).
FoundAgain ==
    /\ \A n \in Products: FindDirect(DeviceInfo(n, "IQTAXI")) = {n}
    /\ \A p \in Products, band \in Bands, s \in Serials:
          LET d == Discovered(p, band, s) IN
          /\ HintAccepts(d, p)
          /\ FitsStoi(d.serial) => FindAgain(d) = {d}

\* The serial number UHD is told passes its filter whenever it begins with a
\* decimal digit, as the comment at iqtaxi_impl.cpp:335 wants of all.
SerialPasses == \A s \in Serials: s # <<>> /\ s[1] < 58 => FitsStoi(SafeSerial(s))

\* A request that says anything goes to one bus: the PCIe devices are not
\* probed for a board of the network, nor the network for an M300.
OneBus ==
    \A args \in KwargsSet \ {NoKwargs}:
        /\ ~(M300Looks(args) /\ (UdpLooks(args) \/ E206Looks(args)))
        /\ args.driver = "M300_XDMA" => ~UdpLooks(args)
=============================================================================
