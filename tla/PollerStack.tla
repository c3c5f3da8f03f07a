----------------------------- MODULE PollerStack -----------------------------
(***************************************************************************)
(* enhancement-poller.go: a ModbusDevicePoller whose loop polls its        *)
(* managers at every tick, each manager a RegisterScheduler (a mutex and   *)
(* the loaded groups) and a RegisterStream (a bounded channel and the      *)
(* goroutine that hands groups to the user's callback, without a lock).    *)
(*                                                                         *)
(* A group is the array <<manager, load, slot, supported>>.  A poll        *)
(* rewrites it in place, register by register as far as the reply reaches, *)
(* while an earlier poll's reference to it may still be queued or even     *)
(* under the callback.                                                     *)
(***************************************************************************)
EXTENDS Naturals, Sequences, FiniteSets

CONSTANTS
    Managers,    \* the ModbusRegisterManagers there are
    NoOne,       \* holder of an unlocked scheduler mutex
    BufferSize,  \* capacity of a stream's dataCh
    GroupSize,   \* registers of a group
    MaxGroups,   \* bound: groups one Load forms
    MaxLoads,    \* bound: Load calls of each manager that succeed
    MaxStarts,   \* bound: Start calls of the poller
    MaxPolls     \* bound: ticks of the loops and direct reads, together

ASSUME PollerAssumption ==
    /\ BufferSize \in Nat \ {0} /\ GroupSize \in Nat \ {0}
    /\ MaxGroups \in Nat /\ MaxLoads \in Nat /\ MaxStarts \in Nat /\ MaxPolls \in Nat
    /\ NoOne \notin 0..MaxStarts

User == 0                           \* a goroutine that calls managers directly
Loops == 1..MaxStarts               \* the goroutine of each Start of the poller
Readers == Loops \cup {User}
Consumers == Managers \X Readers    \* a stream's goroutine and who started it
Groups == Managers \X (1..MaxLoads) \X (1..MaxGroups) \X BOOLEAN
Regs == 1..GroupSize
\* A group in a stream: the poll that pushed it and how many of its registers
\* that poll wrote.  (None: a group with an unsupported function code, of which
\* readGroup returns a nil slice.)
Items == [group : Groups, poll : 1..MaxPolls, reach : 0..GroupSize]
Data == [Regs -> 0..MaxPolls] \cup {<<>>}

VARIABLES
    managers, \* dp.managers
    starts,   \* Start calls so far
    ticks,    \* ticks and direct reads so far
    stopCh,   \* dp.stopCh is closed
    wg,       \* dp.wg
    opc,      \* where the goroutine that owns the poller is
    toStop,   \* managers its Stop has still to stop
    tick,     \* a tick waits in the loop's ticker channel
    lpc,      \* where each loop is
    todo,     \* managers a loop has still to poll in this round
    toPush,   \* groups it has still to push for the manager it polls
    fresh,    \* registers its read has still to write
    reach,    \* how many registers of each group its read writes
    mu,       \* which loop holds each scheduler's mutex
    groups,   \* rs.groups of each scheduler
    loads,    \* successful Load calls of each scheduler
    polls,    \* reads of each manager begun
    mem,      \* for every register of every group the poll that wrote it
    streamStopped, \* the stream's stopCh is closed
    dataCh,   \* the stream's channel
    cpc,      \* where each consumer is
    hand,     \* the item it has received
    pushed,   \* history: items pushed on each stream
    got       \* history: what the callback got, with the data it saw

pollerVars == <<managers, starts, stopCh, wg, opc, toStop>>
loopVars == <<ticks, tick, lpc, todo, toPush, fresh, reach>>
schedVars == <<mu, groups, loads, polls, mem>>
streamVars == <<streamStopped, dataCh, cpc, hand, pushed, got>>
vars == <<pollerVars, loopVars, schedVars, streamVars>>

TypeOK ==
    /\ managers \in Seq(Managers)
    /\ starts \in 0..MaxStarts /\ stopCh \in BOOLEAN /\ wg \in 0..MaxStarts
    /\ opc \in {"idle", "waiting", "stopping", "stopped"}
    /\ toStop \in Seq(Managers)
    /\ ticks \in 0..MaxPolls
    /\ tick \in [Loops -> BOOLEAN]
    /\ lpc \in [Readers -> {"off", "select", "next", "reading", "pushing", "done", "returned"}]
    /\ todo \in [Readers -> Seq(Managers)]
    /\ toPush \in [Readers -> Seq(Items)]
    /\ fresh \in [Readers -> SUBSET (Groups \X Regs)]
    /\ reach \in [Readers -> [Groups -> 0..GroupSize]]
    /\ mu \in [Managers -> Readers \cup {NoOne}]
    /\ groups \in [Managers -> Seq(Groups)]
    /\ loads \in [Managers -> 0..MaxLoads] /\ polls \in [Managers -> 0..MaxPolls]
    /\ mem \in [Groups -> [Regs -> 0..MaxPolls]]
    /\ streamStopped \in [Managers -> BOOLEAN]
    /\ dataCh \in [Managers -> Seq(Items)] /\ \A m \in Managers : Len(dataCh[m]) <= BufferSize
    /\ cpc \in [Consumers -> {"off", "select", "callback", "returned"}]
    /\ hand \in [Consumers -> Seq(Items)]
    /\ pushed \in [Managers -> Seq(Items)]
    /\ got \in [Managers -> Seq([item : Items, data : Data])]

Init ==
    /\ managers = <<>> /\ starts = 0 /\ stopCh = FALSE /\ wg = 0
    /\ opc = "idle" /\ toStop = <<>>
    /\ ticks = 0
    /\ tick = [l \in Loops |-> FALSE]
    /\ lpc = [l \in Readers |-> IF l = User THEN "select" ELSE "off"]
    /\ todo = [l \in Readers |-> <<>>]
    /\ toPush = [l \in Readers |-> <<>>]
    /\ fresh = [l \in Readers |-> {}]
    /\ reach = [l \in Readers |-> [g \in Groups |-> 0]]
    /\ mu = [m \in Managers |-> NoOne]
    /\ groups = [m \in Managers |-> <<>>]
    /\ loads = [m \in Managers |-> 0] /\ polls = [m \in Managers |-> 0]
    /\ mem = [g \in Groups |-> [r \in Regs |-> 0]]
    /\ streamStopped = [m \in Managers |-> FALSE]
    /\ dataCh = [m \in Managers |-> <<>>]
    /\ cpc = [k \in Consumers |-> "off"]
    /\ hand = [k \in Consumers |-> <<>>]
    /\ pushed = [m \in Managers |-> <<>>] /\ got = [m \in Managers |-> <<>>]

Added(m) == \E i \in 1..Len(managers) : managers[i] = m

-----------------------------------------------------------------------------
(***************************************************************************)
(* The goroutine that owns the poller.  It adds each manager once, stops   *)
(* the poller once and does not add a manager that was stopped (closing a  *)
(* stopCh twice panics); it may start the poller again.                    *)
(***************************************************************************)
AddManager(m) ==
    /\ opc = "idle" /\ ~Added(m) /\ ~streamStopped[m]
    /\ managers' = Append(managers, m)
    /\ UNCHANGED <<starts, stopCh, wg, opc, toStop, loopVars, schedVars, streamVars>>

\* One consumer for every manager added so far, and one loop.
Start ==
    /\ opc = "idle" /\ starts < MaxStarts
    /\ starts' = starts + 1
    /\ wg' = wg + 1
    /\ cpc' = [k \in Consumers |->
                 IF Added(k[1]) /\ k[2] = starts' THEN "select" ELSE cpc[k]]
    /\ lpc' = [lpc EXCEPT ![starts'] = "select"]
    /\ UNCHANGED <<managers, stopCh, opc, toStop, ticks, tick, todo, toPush, fresh, reach,
                   schedVars, streamStopped, dataCh, hand, pushed, got>>

\* Stop: close dp.stopCh, wait for the loops, then stop every manager.
StopBegin ==
    /\ opc = "idle"
    /\ opc' = "waiting"
    /\ stopCh' = TRUE
    /\ UNCHANGED <<managers, starts, wg, toStop, loopVars, schedVars, streamVars>>

\* (Mutant: the streams are stopped without waiting for the loops.)
LoopsAwaitedNever == TRUE
LoopsAwaited == wg = 0

StopWaited ==
    /\ opc = "waiting" /\ LoopsAwaited
    /\ opc' = "stopping"
    /\ toStop' = managers
    /\ UNCHANGED <<managers, starts, stopCh, wg, loopVars, schedVars, streamVars>>

StopManager ==
    /\ opc = "stopping" /\ toStop # <<>>
    /\ streamStopped' = [streamStopped EXCEPT ![Head(toStop)] = TRUE]
    /\ toStop' = Tail(toStop)
    /\ UNCHANGED <<managers, starts, stopCh, wg, opc, loopVars, schedVars,
                   dataCh, cpc, hand, pushed, got>>

StopReturn ==
    /\ opc = "stopping" /\ toStop = <<>>
    /\ opc' = "stopped"
    /\ UNCHANGED <<managers, starts, stopCh, wg, toStop, loopVars, schedVars, streamVars>>

\* A manager that is not in the poller, used directly: Stream.Start, a
\* ReadAndStream, Stop.
UserStart(m) ==
    /\ cpc[<<m, User>>] = "off"
    /\ cpc' = [cpc EXCEPT ![<<m, User>>] = "select"]
    /\ UNCHANGED <<pollerVars, loopVars, schedVars, streamStopped, dataCh, hand, pushed, got>>

UserStop(m) ==
    /\ ~Added(m) /\ ~streamStopped[m]
    /\ streamStopped' = [streamStopped EXCEPT ![m] = TRUE]
    /\ UNCHANGED <<pollerVars, loopVars, schedVars, dataCh, cpc, hand, pushed, got>>

UserRead(m) ==
    /\ lpc[User] = "select" /\ ticks < MaxPolls
    /\ ticks' = ticks + 1
    /\ lpc' = [lpc EXCEPT ![User] = "next"]
    /\ todo' = [todo EXCEPT ![User] = <<m>>]
    /\ UNCHANGED <<pollerVars, tick, toPush, fresh, reach, schedVars, streamVars>>

\* Load, by any goroutine: fresh arrays replace the groups, under rs.mu.  (A
\* duplicate tag is refused and changes nothing.)
Load(m) ==
    /\ mu[m] = NoOne /\ loads[m] < MaxLoads
    /\ loads' = [loads EXCEPT ![m] = @ + 1]
    /\ \E n \in 0..MaxGroups : \E supported \in [1..n -> BOOLEAN] :
         groups' = [groups EXCEPT ![m] = [i \in 1..n |-> <<m, loads'[m], i, supported[i]>>]]
    /\ UNCHANGED <<pollerVars, loopVars, mu, polls, mem, streamVars>>

-----------------------------------------------------------------------------
(***************************************************************************)
(* The loop.  Its select takes either arm when both are ready.             *)
(***************************************************************************)
Goto(l, from, to) == lpc[l] = from /\ lpc' = [lpc EXCEPT ![l] = to]

\* A time.Ticker keeps at most one tick and drops the others.
Tick(l) ==
    /\ lpc[l] \notin {"off", "done", "returned"} /\ ~tick[l]
    /\ ticks < MaxPolls
    /\ ticks' = ticks + 1
    /\ tick' = [tick EXCEPT ![l] = TRUE]
    /\ UNCHANGED <<pollerVars, lpc, todo, toPush, fresh, reach, schedVars, streamVars>>

LoopSeesStop(l) ==
    /\ stopCh
    /\ Goto(l, "select", "done")
    /\ UNCHANGED <<pollerVars, ticks, tick, todo, toPush, fresh, reach, schedVars, streamVars>>

\* The range over dp.managers evaluates the slice once.  (AddManager appends
\* to it without a lock; here a loop sees it before or after.)
LoopSeesTick(l) ==
    /\ tick[l]
    /\ Goto(l, "select", "next")
    /\ tick' = [tick EXCEPT ![l] = FALSE]
    /\ todo' = [todo EXCEPT ![l] = managers]
    /\ UNCHANGED <<pollerVars, ticks, toPush, fresh, reach, schedVars, streamVars>>

RoundOver(l) ==
    /\ todo[l] = <<>>
    /\ Goto(l, "next", "select")
    /\ UNCHANGED <<pollerVars, ticks, tick, todo, toPush, fresh, reach, schedVars, streamVars>>

\* ReadGrouped under rs.mu.  A read of a group whose function code is not
\* supported writes nothing; any other gets to the end (of the data or, when
\* the call failed, of the INVALID marks) or only to the first register that a
\* short reply does not cover: it is marked INVALID, those behind it stay.
LoadedGroups(m) == {groups[m][i] : i \in 1..Len(groups[m])}
Supported(g) == g[4]
Reaches(m) ==
    {n \in [LoadedGroups(m) -> 0..GroupSize] : \A g \in LoadedGroups(m) : n[g] > 0 <=> Supported(g)}

ReadBegin(l) ==
    /\ todo[l] # <<>>
    /\ LET m == Head(todo[l]) IN
         /\ mu[m] = NoOne
         /\ mu' = [mu EXCEPT ![m] = l]
         /\ polls' = [polls EXCEPT ![m] = @ + 1]
         /\ \E n \in Reaches(m) :
              /\ reach' = [reach EXCEPT ![l] =
                              [g \in Groups |-> IF g \in LoadedGroups(m) THEN n[g] ELSE 0]]
              /\ fresh' = [fresh EXCEPT ![l] =
                              {cell \in LoadedGroups(m) \X Regs : cell[2] <= n[cell[1]]}]
    /\ Goto(l, "next", "reading")
    /\ UNCHANGED <<pollerVars, ticks, tick, todo, toPush, groups, loads, mem, streamVars>>

\* readGroup writes value or status register by register, in their order.
WriteRegister(l) ==
    /\ lpc[l] = "reading"
    /\ \E cell \in fresh[l] :
         /\ \A r \in 1..(cell[2] - 1) : <<cell[1], r>> \notin fresh[l]
         /\ mem' = [mem EXCEPT ![cell[1]][cell[2]] = polls[Head(todo[l])]]
         /\ fresh' = [fresh EXCEPT ![l] = @ \ {cell}]
    /\ UNCHANGED <<pollerVars, ticks, tick, lpc, todo, toPush, reach, mu, groups, loads, polls,
                   streamVars>>

\* (Mutant: ReadGrouped returns before its goroutines are done.)
AllWrittenEarly(l) == TRUE
AllWritten(l) == fresh[l] = {}

ReadEnd(l) ==
    /\ AllWritten(l)
    /\ Goto(l, "reading", "pushing")
    /\ LET m == Head(todo[l]) IN
         /\ mu' = [mu EXCEPT ![m] = NoOne]
         /\ toPush' = [toPush EXCEPT ![l] =
              [i \in 1..Len(groups[m]) |-> [group |-> groups[m][i], poll |-> polls[m],
                                            reach |-> reach[l][groups[m][i]]]]]
    /\ fresh' = [fresh EXCEPT ![l] = {}]
    /\ reach' = [reach EXCEPT ![l] = [g \in Groups |-> 0]]
    /\ UNCHANGED <<pollerVars, ticks, tick, todo, groups, loads, polls, mem, streamVars>>

\* Push: the group is sent when there is room.
Room(m) == Len(dataCh[m]) < BufferSize
Enqueued(m, item) == Append(dataCh[m], item)

Push(l) ==
    /\ lpc[l] = "pushing" /\ toPush[l] # <<>>
    /\ LET m == Head(todo[l]) IN
         /\ Room(m)
         /\ dataCh' = [dataCh EXCEPT ![m] = Enqueued(m, Head(toPush[l]))]
         /\ pushed' = [pushed EXCEPT ![m] = Append(@, Head(toPush[l]))]
    /\ toPush' = [toPush EXCEPT ![l] = Tail(@)]
    /\ UNCHANGED <<pollerVars, ticks, tick, lpc, todo, fresh, reach, schedVars,
                   streamStopped, cpc, hand, got>>

\* The other arm of its select: the stream is stopped, the group is dropped.
PushDropped(l) ==
    /\ lpc[l] = "pushing" /\ toPush[l] # <<>>
    /\ streamStopped[Head(todo[l])]
    /\ toPush' = [toPush EXCEPT ![l] = Tail(@)]
    /\ UNCHANGED <<pollerVars, ticks, tick, lpc, todo, fresh, reach, schedVars, streamVars>>

ManagerPolled(l) ==
    /\ toPush[l] = <<>>
    /\ Goto(l, "pushing", "next")
    /\ todo' = [todo EXCEPT ![l] = Tail(@)]
    /\ UNCHANGED <<pollerVars, ticks, tick, toPush, fresh, reach, schedVars, streamVars>>

\* The deferred wg.Done.  (Mutant: it is forgotten.)
NotCounted == wg
Counted == wg - 1
LoopReturn(l) ==
    /\ Goto(l, "done", "returned")
    /\ wg' = Counted
    /\ UNCHANGED <<managers, starts, stopCh, opc, toStop, ticks, tick, todo, toPush, fresh, reach,
                   schedVars, streamVars>>

-----------------------------------------------------------------------------
(***************************************************************************)
(* The goroutine of a stream.                                              *)
(***************************************************************************)
\* (Mutant: the arm of stopCh is missing.)
SeesStopNever(k) == FALSE
SeesStop(k) == streamStopped[k[1]]

ConsumerReturn(k) ==
    /\ cpc[k] = "select" /\ SeesStop(k)
    /\ cpc' = [cpc EXCEPT ![k] = "returned"]
    /\ UNCHANGED <<pollerVars, loopVars, schedVars, streamStopped, dataCh, hand, pushed, got>>

\* (Mutant: a group is handed over without being taken off the channel.)
RemainingAll(k) == dataCh[k[1]]
Remaining(k) == Tail(dataCh[k[1]])

ConsumerReceive(k) ==
    /\ cpc[k] = "select" /\ dataCh[k[1]] # <<>>
    /\ hand' = [hand EXCEPT ![k] = <<Head(dataCh[k[1]])>>]
    /\ dataCh' = [dataCh EXCEPT ![k[1]] = Remaining(k)]
    /\ cpc' = [cpc EXCEPT ![k] = "callback"]
    /\ UNCHANGED <<pollerVars, loopVars, schedVars, streamStopped, pushed, got>>

\* The callback looks at the group's array as it is now, or at a nil slice.
Seen(item) == IF item.reach = 0 THEN <<>> ELSE mem[item.group]

Callback(k) ==
    /\ cpc[k] = "callback"
    /\ LET item == hand[k][1] IN
         got' = [got EXCEPT ![k[1]] = Append(@, [item |-> item, data |-> Seen(item)])]
    /\ hand' = [hand EXCEPT ![k] = <<>>]
    /\ cpc' = [cpc EXCEPT ![k] = "select"]
    /\ UNCHANGED <<pollerVars, loopVars, schedVars, streamStopped, dataCh, pushed>>

-----------------------------------------------------------------------------
ReaderNext(l) ==
    \/ RoundOver(l) \/ ReadBegin(l) \/ WriteRegister(l) \/ ReadEnd(l)
    \/ Push(l) \/ PushDropped(l) \/ ManagerPolled(l)
LoopNext(l) == LoopSeesStop(l) \/ LoopSeesTick(l) \/ LoopReturn(l)
ConsumerNext(k) == ConsumerReturn(k) \/ ConsumerReceive(k) \/ Callback(k)
OwnerNext == StopWaited \/ StopManager \/ StopReturn

Next ==
    \/ Start \/ StopBegin \/ OwnerNext
    \/ \E m \in Managers : AddManager(m) \/ Load(m) \/ UserStart(m) \/ UserStop(m) \/ UserRead(m)
    \/ \E l \in Loops : Tick(l) \/ LoopNext(l)
    \/ \E l \in Readers : ReaderNext(l)
    \/ \E k \in Consumers : ConsumerNext(k)

Spec == Init /\ [][Next]_vars

(***************************************************************************)
(* Fairness.  Goroutines proceed and callbacks return; a select with two   *)
(* ready arms picks one at random, so it takes each of them again and      *)
(* again, and a waiter gets a mutex or the room in a channel that is free  *)
(* again and again (SF).  It is assumed of the goroutines of one kind      *)
(* together, which is less than each of them may expect.  Nobody has to    *)
(* call anything.                                                          *)
(***************************************************************************)
Fairness ==
    /\ WF_vars(OwnerNext \/ \E l \in Loops : LoopNext(l))
    /\ WF_vars(\E l \in Readers : ReaderNext(l))
    /\ WF_vars(\E k \in Consumers : ConsumerNext(k))
    /\ SF_vars(\E l \in Loops : LoopSeesStop(l))
    /\ SF_vars(\E l \in Readers : ReadBegin(l) \/ Push(l) \/ PushDropped(l))
    /\ SF_vars(\E k \in Consumers : ConsumerReturn(k))
FairSpec == Spec /\ Fairness

-----------------------------------------------------------------------------
(***************************************************************************)
(* Properties.                                                             *)
(***************************************************************************)
Served(m) == \E k \in Consumers : k[1] = m /\ cpc[k] # "off"

\* The poller's Stop returns: the loops notice it although a tick may always
\* be ready too, and no loop is stuck in Push, as long as every manager in the
\* poller was started (one added after Start has no consumer, fills up, and
\* then blocks the loop and with it Stop: streams are stopped only after it).
StopReturns ==
    opc = "waiting" /\ (\A i \in 1..Len(managers) : Served(managers[i])) ~> opc = "stopped"

\* When Stop has stopped waiting, every loop is over, also when the poller was
\* started twice: its managers are not polled by it any more, and the streams
\* are not stopped under a loop that still pushes.
QuietAfterStop ==
    opc \in {"stopping", "stopped"} =>
        \A l \in Loops : lpc[l] \in {"off", "returned"}

\* No consumer goroutine of the poller's managers outlives its Stop, whoever
\* started it.
ConsumersEnd ==
    opc = "stopped" ~>
        \A k \in Consumers : Added(k[1]) => cpc[k] \in {"off", "returned"}

\* A callback may see data of a later poll than the one that queued its group,
\* or of several (no lock covers it), but every register that this poll reached
\* is at least as new as the poll.  (Of the registers behind, which a short
\* reply leaves alone, it may see those of any earlier poll, VALID:OK.)
NeverOlderThanPushed ==
    \A m \in Managers : \A i \in 1..Len(got[m]) :
        \A r \in 1..got[m][i].item.reach : got[m][i].data[r] >= got[m][i].item.poll

\* The callback gets the groups in the order they were pushed, each at most
\* once, whoever reads, pushes and loads meanwhile, as long as the stream was
\* started only once.
DeliveredInOrder ==
    \A m \in Managers :
        Cardinality({k \in Consumers : k[1] = m /\ cpc[k] # "off"}) <= 1 =>
            /\ Len(got[m]) <= Len(pushed[m])
            /\ \A i \in 1..Len(got[m]) : got[m][i].item = pushed[m][i]

\* The stream was started once, and only the poller's loops push on it.
OnceStarted(m) ==
    \A j, k \in Consumers : j[1] = m /\ k[1] = m /\ cpc[j] # "off" /\ cpc[k] # "off" => j = k
PolledOnly(m) ==
    OnceStarted(m) /\ (lpc[User] \in {"reading", "pushing"} => Head(todo[User]) # m)

\* Such a stream implements the abstract delivery queue: in order, each group
\* at most once, and none sent on a stopped stream.  Push has no guard for the
\* last (its select may send although stopCh is closed): only the order of the
\* poller's Stop, loops before streams, leaves nobody who would.
Stream(m) == INSTANCE DeliveryQueue WITH
    Item <- Items, sent <- pushed[m],
    got <- [i \in 1..Len(got[m]) |-> got[m][i].item],
    open <- ~streamStopped[m]
StreamsDeliver ==
    [][\A m \in Managers :
         PolledOnly(m) => Stream(m)!Next \/ UNCHANGED Stream(m)!vars]_vars
=============================================================================
