------------------------------ MODULE XdmaRing ------------------------------
(***************************************************************************)
(* The C2H ring of one XDMA channel and the transports that start and stop *)
(* it.  Source: src/core/xdma_zero_copy.cpp (start_recv, stop_recv,        *)
(* get_recv_buff, recv_payload_burst, the destructor); the ring itself is  *)
(* the kernel driver's, modelled from the ioctls.                          *)
(*                                                                         *)
(* The driver has a single ring per channel.  A transport holds an         *)
(* advisory lock from START to STOP; the lock dies with its process, the   *)
(* ring does not, and a STOP may fail.                                     *)
(***************************************************************************)
EXTENDS Naturals

CONSTANTS
    Clients,        \* the transports opened on the channel
    None,           \* no client
    MaxCrashes,     \* bound: processes that die
    MaxFailures     \* bound: ioctls that fail for another reason than EBUSY

ASSUME RingAssumption ==
    None \notin Clients /\ MaxCrashes \in Nat /\ MaxFailures \in Nat

VARIABLES
    at,         \* where each client is: "off", in start_recv ("first", "busy",
                \* "retry"), "on", or in stop_recv ("unlock")
    flock,      \* who holds the advisory lock
    held,       \* _driver_ring_lock_held
    started,    \* _driver_ring_started
    ring,       \* the driver's ring: "idle", "active", "draining"
    user,       \* the client whose START made the ring active
    taken,      \* who asked the ring for a packet last, and whose ring it was
    trouble     \* bounds: crashes, failures

ringVars == <<at, flock, held, started, ring, user, taken, trouble>>

Calm == [crashes |-> 0, failures |-> 0]
Untaken == [by |-> None, of |-> None, call |-> "none"]

RingInit ==
    /\ at = [c \in Clients |-> "off"] /\ flock = None
    /\ held = [c \in Clients |-> FALSE] /\ started = [c \in Clients |-> FALSE]
    /\ ring = "idle" /\ user = None
    /\ taken = Untaken /\ trouble = Calm

Fail ==
    /\ trouble.failures < MaxFailures
    /\ trouble' = [trouble EXCEPT !.failures = @ + 1]

-----------------------------------------------------------------------------
(* start_recv *)

\* Mutant: the lock is not asked for.
NoLock(c) == TRUE
\* flock(LOCK_EX | LOCK_NB) succeeds.
Lockable(c) == flock = None

\* Not started yet: the lock first; when it is taken the call throws.
StartRecv(c) ==
    /\ at[c] = "off" /\ ~started[c] /\ Lockable(c)
    /\ flock' = c /\ held' = [held EXCEPT ![c] = TRUE]
    /\ at' = [at EXCEPT ![c] = "first"]
    /\ UNCHANGED <<started, ring, user, taken, trouble>>

\* The driver accepts START only when its ring is idle.
StartIoctl(c) ==
    /\ ring = "idle" /\ ring' = "active" /\ user' = c
    /\ started' = [started EXCEPT ![c] = TRUE]
    /\ at' = [at EXCEPT ![c] = "on"]
    /\ UNCHANGED <<flock, held>>

\* Mutant: a start that fails keeps the lock.
KeepLock(c) == UNCHANGED <<flock, held>>
\* flock(LOCK_UN)
Unlock(c) ==
    /\ flock' = IF flock = c THEN None ELSE flock
    /\ held' = [held EXCEPT ![c] = FALSE]

\* Every other way out of start_recv releases the lock and throws.
StartThrows(c) ==
    /\ Unlock(c) /\ at' = [at EXCEPT ![c] = "off"]
    /\ UNCHANGED <<started, ring, user>>

FirstStart(c) ==
    /\ at[c] = "first" /\ UNCHANGED taken
    /\ \/ StartIoctl(c) /\ UNCHANGED trouble
       \/ ring # "idle" /\ at' = [at EXCEPT ![c] = "busy"]
          /\ UNCHANGED <<flock, held, started, ring, user, trouble>>
       \/ Fail /\ StartThrows(c)

\* The driver tears its ring down; its worker needs some time.
StopIoctl == ring' = (IF ring = "idle" THEN "idle" ELSE "draining") /\ user' = None

\* EBUSY: a ring left active by an abnormal exit or a failed STOP.
StopStale(c) ==
    /\ at[c] = "busy" /\ UNCHANGED taken
    /\ \/ StopIoctl /\ at' = [at EXCEPT ![c] = "retry"]
          /\ UNCHANGED <<flock, held, started, trouble>>
       \/ Fail /\ StartThrows(c)

\* START again until it works, fails, or eleven seconds are over.
RetryStart(c) ==
    /\ at[c] = "retry" /\ UNCHANGED taken
    /\ \/ StartIoctl(c) /\ UNCHANGED trouble
       \/ ring # "idle" /\ StartThrows(c) /\ UNCHANGED trouble
       \/ Fail /\ StartThrows(c)

-----------------------------------------------------------------------------
(* stop_recv, also called by the destructor *)

\* Mutant: a STOP that fails leaves the ring marked as started.
StillStarted(c) == UNCHANGED started
\* _driver_ring_started is cleared whether STOP worked or not.
Stopped(c) == started' = [started EXCEPT ![c] = FALSE]

StopRecv(c) ==
    /\ at[c] = "on"
    /\ \/ StopIoctl /\ UNCHANGED trouble
       \/ Fail /\ UNCHANGED <<ring, user>>
    /\ Stopped(c) /\ at' = [at EXCEPT ![c] = "unlock"]
    /\ UNCHANGED <<flock, held, taken>>

StopUnlock(c) ==
    /\ at[c] = "unlock"
    /\ Unlock(c) /\ at' = [at EXCEPT ![c] = "off"]
    /\ UNCHANGED <<started, ring, user, taken, trouble>>

-----------------------------------------------------------------------------
(* packets *)

\* Mutant: recv_payload_burst does not look whether the ring was started.
BurstAlways(c) == ring = "active"
BurstAllowed(c) == started[c] /\ ring = "active"

\* recv_payload_burst: GET_PAYLOAD_BULK, only after a START of this client.
PayloadBurst(c) ==
    /\ at[c] \in {"off", "on"} /\ BurstAllowed(c)
    /\ taken' = [by |-> c, of |-> user, call |-> "burst"]
    /\ UNCHANGED <<at, flock, held, started, ring, user, trouble>>

\* get_recv_buff asks with RING_GET whether it started the ring or not.
RecvBuff(c) ==
    /\ at[c] \in {"off", "on"} /\ ring = "active"
    /\ taken' = [by |-> c, of |-> user, call |-> "buff"]
    /\ UNCHANGED <<at, flock, held, started, ring, user, trouble>>

-----------------------------------------------------------------------------
(* the environment *)

KernelQuiet ==
    /\ ring = "draining" /\ ring' = "idle"
    /\ UNCHANGED <<at, flock, held, started, user, taken, trouble>>

\* A process dies: its lock is gone, the ring stays as it is.
Crash(c) ==
    /\ trouble.crashes < MaxCrashes /\ at[c] # "off"
    /\ trouble' = [trouble EXCEPT !.crashes = @ + 1]
    /\ flock' = (IF flock = c THEN None ELSE flock)
    /\ held' = [held EXCEPT ![c] = FALSE]
    /\ started' = [started EXCEPT ![c] = FALSE]
    /\ at' = [at EXCEPT ![c] = "off"]
    /\ UNCHANGED <<ring, user, taken>>

RingStep(c) ==
    \/ StartRecv(c) \/ FirstStart(c) \/ StopStale(c) \/ RetryStart(c)
    \/ StopRecv(c) \/ StopUnlock(c) \/ PayloadBurst(c) \/ RecvBuff(c) \/ Crash(c)

RingNext == KernelQuiet \/ \E c \in Clients: RingStep(c)

RingSpec == RingInit /\ [][RingNext]_ringVars

-----------------------------------------------------------------------------
(* properties *)

Places == {"off", "first", "busy", "retry", "on", "unlock"}

RingTypeOK ==
    /\ at \in [Clients -> Places] /\ flock \in Clients \cup {None}
    /\ held \in [Clients -> BOOLEAN] /\ started \in [Clients -> BOOLEAN]
    /\ ring \in {"idle", "active", "draining"} /\ user \in Clients \cup {None}
    /\ taken \in [by: Clients \cup {None}, of: Clients \cup {None},
                  call: {"none", "burst", "buff"}]
    /\ trouble \in [crashes: 0..MaxCrashes, failures: 0..MaxFailures]

\* A transport that started the ring has it, active and its own, until it stops
\* it itself: no other client's START or recovery STOP reaches it.
StartedHasRing ==
    \A c \in Clients: started[c] => ring = "active" /\ user = c

\* No failed START, failed STOP or exhausted retry leaves the channel locked for
\* the next process, and none unlocks a ring in use.
LockOnlyInUse ==
    \A c \in Clients: /\ held[c] <=> flock = c
                      /\ flock = c <=> at[c] # "off"

\* A burst is read from the client's own ring only.
BurstIsOwn == taken.call = "burst" => taken.of = taken.by

\* The comment of start_recv: the lock covers the complete START..STOP interval,
\* through failures, crashes and the recovery of a ring somebody left active, so
\* the transport that holds it is alone on the ring and its bursts are its own.
RingExclusive == StartedHasRing /\ LockOnlyInUse /\ BurstIsOwn
=============================================================================
