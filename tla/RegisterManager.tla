-------------------------- MODULE RegisterManager --------------------------
(***************************************************************************)
(* RegisterManager of enhancement-register-manager.go: one mutex m.mu,     *)
(* one bounded channel dataQueue, one channel exitSignal that is only ever *)
(* closed, goroutines that call the manager's methods, and the goroutines  *)
(* that Start spawns to run OnReadCallback.                                *)
(*                                                                         *)
(* A group of registers is the array <<load, slot>> that LoadRegisters     *)
(* allocated; readGroup rewrites that array in place, so what travels in   *)
(* the queue is a reference to it (or nil), never its contents.            *)
(***************************************************************************)
EXTENDS Naturals, Sequences, FiniteSets

CONSTANTS
    Callers,     \* goroutines that call the manager's methods
    Consumers,   \* goroutines that Start may spawn
    NoOne,       \* the owner of an unlocked mutex
    NilGroup,    \* the nil slice readGroup returns for an unusable group
    QueueSize,   \* capacity of dataQueue (argument of NewRegisterManager)
    MaxLoads,    \* bound: calls of LoadRegisters that succeed
    MaxReads,    \* bound: calls of ReadGroupedData that read the device
    MaxGroups,   \* bound: groups one LoadRegisters call forms
    GroupSize    \* registers of every group

ASSUME ManagerAssumption ==
    /\ Callers \cap Consumers = {}
    /\ NoOne \notin Callers \cup Consumers
    /\ QueueSize \in Nat /\ MaxLoads \in Nat /\ MaxReads \in Nat /\ MaxGroups \in Nat
    /\ GroupSize \in Nat \ {0}
    /\ NilGroup \notin (1..MaxLoads) \X (1..MaxGroups)

VARIABLES
    mu,          \* who holds m.mu
    closed,      \* m.closed
    exitClosed,  \* exitSignal has been closed
    queueClosed, \* dataQueue has been closed
    queue,       \* items buffered in dataQueue
    grouped,     \* m.groupedRegisters
    mem,         \* every group array: of each register, its last writer and Status
    loads,       \* successful LoadRegisters calls so far
    reads,       \* reads of the device so far
    onRead,      \* OnReadCallback is set
    onError,     \* OnErrorCallback is set
    pc,          \* where each caller is
    toPush,      \* result groups a caller has still to send on dataQueue
    cpc,         \* where each consumer is
    hand,        \* item a consumer has received and not yet finished
    crash,       \* the panic that ended the program, or "none"
    pushed,      \* history: items sent on dataQueue
    consumed     \* history: items whose callback step is over

chanVars == <<exitClosed, queueClosed, queue>>
dataVars == <<grouped, mem, loads, reads>>
callVars == <<onRead, onError>>
histVars == <<pushed, consumed>>
vars == <<mu, closed, chanVars, dataVars, callVars, pc, toPush, cpc, hand, crash, histVars>>

Groups == (1..MaxLoads) \X (1..MaxGroups)
\* What a group array holds at each place: the read that last wrote the
\* register, and its Status.  (INVALID rewrites the Status and keeps the Value.)
Places == 1..GroupSize
Registers == [read : 0..MaxReads, status : {"unread", "VALID", "INVALID"}]
Contents == [Places -> Registers]
\* A queue item: the array it refers to and the read that queued it.
Items == [group : Groups \cup {NilGroup}, read : 1..MaxReads]
Data == Contents \cup {NilGroup}
Panics == {"none", "nil_callback", "send_on_closed_channel", "close_of_closed_channel"}

Methods == {"SetOnReadCallback", "SetOnErrorCallback", "LoadRegisters", "Stop", "ReadGroupedData"}
CallerPoints == {"idle", "closeExit", "closeQueue", "pushing"} \cup Methods
ConsumerPoints == {"off", "select", "received", "callback", "returned"}

TypeOK ==
    /\ mu \in Callers \cup Consumers \cup {NoOne}
    /\ closed \in BOOLEAN /\ exitClosed \in BOOLEAN /\ queueClosed \in BOOLEAN
    /\ queue \in Seq(Items) /\ Len(queue) <= QueueSize
    /\ grouped \in Seq(Groups)
    /\ mem \in [Groups -> Contents]
    /\ loads \in 0..MaxLoads /\ reads \in 0..MaxReads
    /\ onRead \in BOOLEAN /\ onError \in BOOLEAN
    /\ pc \in [Callers -> CallerPoints]
    /\ toPush \in [Callers -> Seq(Items)]
    /\ cpc \in [Consumers -> ConsumerPoints]
    /\ hand \in [Consumers -> Seq(Items)]
    /\ crash \in Panics
    /\ pushed \in Seq(Items)
    /\ consumed \in Seq([item : Items, called : BOOLEAN, data : Data])

Init ==
    /\ mu = NoOne
    /\ closed = FALSE /\ exitClosed = FALSE /\ queueClosed = FALSE
    /\ queue = <<>>
    /\ grouped = <<>>
    /\ mem = [g \in Groups |-> [i \in Places |-> [read |-> 0, status |-> "unread"]]]
    /\ loads = 0 /\ reads = 0
    /\ onRead = FALSE /\ onError = FALSE
    /\ pc = [c \in Callers |-> "idle"]
    /\ toPush = [c \in Callers |-> <<>>]
    /\ cpc = [k \in Consumers |-> "off"]
    /\ hand = [k \in Consumers |-> <<>>]
    /\ crash = "none"
    /\ pushed = <<>> /\ consumed = <<>>

-----------------------------------------------------------------------------
(***************************************************************************)
(* The methods.  A method whose critical section touches nothing that is   *)
(* read outside m.mu is one step, taken when the mutex is free; Stop and   *)
(* ReadGroupedData, which others observe through the channels, hold the    *)
(* mutex over several steps.                                               *)
(***************************************************************************)
Running == crash = "none"
Goto(c, from, to) == pc[c] = from /\ pc' = [pc EXCEPT ![c] = to]
Unlocked == mu = NoOne

\* The calls a bounded instance still allows.
Inside(m) == Cardinality({c \in Callers : pc[c] = m})
MayCall(m) ==
    /\ m = "ReadGroupedData" => closed \/ reads + Inside(m) < MaxReads
    /\ m = "LoadRegisters" => loads + Inside(m) < MaxLoads

Call(c, m) ==
    /\ Running /\ MayCall(m)
    /\ Goto(c, "idle", m)
    /\ UNCHANGED <<mu, closed, chanVars, dataVars, callVars, toPush, cpc, hand, crash, histVars>>

SetOnReadCallback(c) ==
    /\ Running /\ Unlocked
    /\ Goto(c, "SetOnReadCallback", "idle")
    /\ onRead' \in BOOLEAN
    /\ UNCHANGED <<mu, closed, chanVars, dataVars, onError, toPush, cpc, hand, crash, histVars>>

SetOnErrorCallback(c) ==
    /\ Running /\ Unlocked
    /\ Goto(c, "SetOnErrorCallback", "idle")
    /\ onError' \in BOOLEAN
    /\ UNCHANGED <<mu, closed, chanVars, dataVars, onRead, toPush, cpc, hand, crash, histVars>>

\* Start takes no lock and may be called more than once.
Start(c, k) ==
    /\ Running
    /\ pc[c] = "idle"
    /\ cpc[k] = "off"
    /\ cpc' = [cpc EXCEPT ![k] = "select"]
    /\ UNCHANGED <<mu, closed, chanVars, dataVars, callVars, pc, toPush, hand, crash, histVars>>

\* Registers without a duplicate tag: fresh arrays replace groupedRegisters;
\* the arrays of an earlier load live on in the queue.
LoadRegisters(c) ==
    /\ Running /\ Unlocked
    /\ loads < MaxLoads
    /\ Goto(c, "LoadRegisters", "idle")
    /\ loads' = loads + 1
    /\ \E n \in 0..MaxGroups : grouped' = [i \in 1..n |-> <<loads + 1, i>>]
    /\ UNCHANGED <<mu, closed, chanVars, mem, reads, callVars, toPush, cpc, hand, crash, histVars>>

\* A duplicate tag: OnErrorCallback is called without a nil check.
LoadDuplicateTag(c) ==
    /\ Running /\ Unlocked
    /\ Goto(c, "LoadRegisters", "idle")
    /\ crash' = IF onError THEN crash ELSE "nil_callback"
    /\ UNCHANGED <<mu, closed, chanVars, dataVars, callVars, toPush, cpc, hand, histVars>>

StopAgain(c) ==
    /\ Running /\ Unlocked
    /\ closed
    /\ Goto(c, "Stop", "idle")
    /\ UNCHANGED <<mu, closed, chanVars, dataVars, callVars, toPush, cpc, hand, crash, histVars>>

\* The early return `if m.closed` is not taken.
MayCloseWithoutCheck == TRUE
MayClose == ~closed

StopMark(c) ==
    /\ Running /\ Unlocked
    /\ MayClose
    /\ Goto(c, "Stop", "closeExit")
    /\ mu' = c
    /\ closed' = TRUE
    /\ UNCHANGED <<chanVars, dataVars, callVars, toPush, cpc, hand, crash, histVars>>

StopCloseExit(c) ==
    /\ Running
    /\ Goto(c, "closeExit", "closeQueue")
    /\ exitClosed' = TRUE
    /\ crash' = IF exitClosed THEN "close_of_closed_channel" ELSE crash
    /\ UNCHANGED <<mu, closed, queueClosed, queue, dataVars, callVars, toPush, cpc, hand, histVars>>

StopCloseQueue(c) ==
    /\ Running
    /\ Goto(c, "closeQueue", "idle")
    /\ queueClosed' = TRUE
    /\ crash' = IF queueClosed THEN "close_of_closed_channel" ELSE crash
    /\ mu' = NoOne
    /\ UNCHANGED <<closed, exitClosed, queue, dataVars, callVars, toPush, cpc, hand, histVars>>

ReadRefused(c) ==
    /\ Running /\ Unlocked
    /\ closed
    /\ Goto(c, "ReadGroupedData", "idle")
    /\ UNCHANGED <<mu, closed, chanVars, dataVars, callVars, toPush, cpc, hand, crash, histVars>>

\* The check `if m.closed` at the head of ReadGroupedData.
MayRead == ~closed

\* What readGroup can meet: an unusable group, a failed call, or a reply whose
\* data are enough for the first `valid` registers.
LoadedGroups == {grouped[i] : i \in 1..Len(grouped)}
Outcomes == [result : {"nil", "failed"}, valid : {0}] \cup [result : {"reply"}, valid : 0..GroupSize]

\* A failed call marks every register INVALID.  A short reply marks the first
\* register that it does not cover and leaves the ones behind it as they were.
MadeValid(outcome) == 1..outcome.valid
MadeInvalidOnFailure(outcome) == IF outcome.result = "failed" THEN Places ELSE {}
MadeInvalid(outcome) ==
    CASE outcome.result = "failed" -> Places
      [] outcome.result = "reply"  -> {outcome.valid + 1} \cap Places
      [] OTHER                     -> {}

\* The array after read number n.
Rewritten(array, outcome, n) ==
    [i \in Places |->
        CASE i \in MadeValid(outcome)   -> [read |-> n, status |-> "VALID"]
          [] i \in MadeInvalid(outcome) -> [read |-> n, status |-> "INVALID"]
          [] OTHER                      -> array[i]]

\* Every loaded group is read under m.mu and its array rewritten in place; the
\* array is queued whatever became of the read, and nil for an unusable group.
ReadGroups(c) ==
    /\ Running /\ Unlocked
    /\ MayRead
    /\ reads < MaxReads
    /\ Goto(c, "ReadGroupedData", "pushing")
    /\ mu' = c
    /\ reads' = reads + 1
    /\ \E outcome \in [LoadedGroups -> Outcomes] :
         LET Result(g) == [group |-> IF outcome[g].result = "nil" THEN NilGroup ELSE g,
                           read |-> reads + 1]
         IN /\ mem' = [g \in Groups |-> IF g \in LoadedGroups
                                        THEN Rewritten(mem[g], outcome[g], reads + 1)
                                        ELSE mem[g]]
            /\ toPush' = [toPush EXCEPT ![c] =
                            [i \in 1..Len(grouped) |-> Result(grouped[i])]]
    /\ UNCHANGED <<closed, chanVars, grouped, loads, callVars, cpc, hand, crash, histVars>>

\* A channel send waits for room; what it sends goes to the back.
HasRoom == Len(queue) < QueueSize
EnqueuedInFront(item) == <<item>> \o queue
Enqueued(item) == Append(queue, item)
Sent(c) ==
    /\ toPush' = [toPush EXCEPT ![c] = Tail(@)]
    /\ pushed' = Append(pushed, Head(toPush[c]))

\* The select of ReadGroupedData: send the next group, which panics once
\* dataQueue is closed, or give up because exitSignal is closed.
PushGroup(c) ==
    /\ Running
    /\ pc[c] = "pushing" /\ toPush[c] # <<>>
    /\ \/ /\ queueClosed
          /\ crash' = "send_on_closed_channel"
          /\ UNCHANGED <<mu, queue, pc, toPush, pushed>>
       \/ /\ ~queueClosed
          /\ HasRoom
          /\ queue' = Enqueued(Head(toPush[c]))
          /\ Sent(c)
          /\ UNCHANGED <<mu, pc, crash>>
       \/ /\ exitClosed
          /\ mu' = NoOne
          /\ pc' = [pc EXCEPT ![c] = "idle"]
          /\ toPush' = [toPush EXCEPT ![c] = <<>>]
          /\ UNCHANGED <<queue, crash, pushed>>
    /\ UNCHANGED <<closed, exitClosed, queueClosed, dataVars, callVars, cpc, hand, consumed>>

\* A send on an empty channel hands the group to a consumer that is waiting in
\* its select, whatever the capacity: with QueueSize = 0 there is no other way.
HandOver(c, k) ==
    /\ Running
    /\ queue = <<>> /\ ~queueClosed
    /\ pc[c] = "pushing" /\ toPush[c] # <<>>
    /\ cpc[k] = "select"
    /\ hand' = [hand EXCEPT ![k] = <<Head(toPush[c])>>]
    /\ cpc' = [cpc EXCEPT ![k] = "received"]
    /\ Sent(c)
    /\ UNCHANGED <<mu, closed, chanVars, dataVars, callVars, pc, crash, consumed>>

\* The deferred Unlock.  (Mutant: a return path that keeps the mutex.)
ReadReturnLocked(c) ==
    /\ Running
    /\ toPush[c] = <<>>
    /\ Goto(c, "pushing", "idle")
    /\ UNCHANGED <<mu, closed, chanVars, dataVars, callVars, toPush, cpc, hand, crash, histVars>>
ReadReturn(c) ==
    /\ Running
    /\ toPush[c] = <<>>
    /\ Goto(c, "pushing", "idle")
    /\ mu' = NoOne
    /\ UNCHANGED <<closed, chanVars, dataVars, callVars, toPush, cpc, hand, crash, histVars>>

-----------------------------------------------------------------------------
(***************************************************************************)
(* The goroutine of Start.  Its select picks either arm when both are      *)
(* ready, so a queue that still holds groups may be abandoned on exit.     *)
(***************************************************************************)
SeesCloseWhileOpen == exitClosed /\ ~closed
SeesClose == exitClosed \/ (queueClosed /\ queue = <<>>)

ConsumerReturn(k) ==
    /\ Running
    /\ cpc[k] = "select"
    /\ SeesClose
    /\ cpc' = [cpc EXCEPT ![k] = "returned"]
    /\ UNCHANGED <<mu, closed, chanVars, dataVars, callVars, pc, toPush, hand, crash, histVars>>

ConsumerReceive(k) ==
    /\ Running
    /\ cpc[k] = "select" /\ queue # <<>>
    /\ hand' = [hand EXCEPT ![k] = <<Head(queue)>>]
    /\ queue' = Tail(queue)
    /\ cpc' = [cpc EXCEPT ![k] = "received"]
    /\ UNCHANGED <<mu, closed, exitClosed, queueClosed, dataVars, callVars, pc, toPush, crash, histVars>>

\* m.mu.Lock() of the consumer.
CallbackWithoutLock == TRUE
CallbackMayStart == Unlocked

ConsumerLock(k) ==
    /\ Running
    /\ CallbackMayStart
    /\ cpc[k] = "received"
    /\ mu' = k
    /\ cpc' = [cpc EXCEPT ![k] = "callback"]
    /\ UNCHANGED <<closed, chanVars, dataVars, callVars, pc, toPush, hand, crash, histVars>>

\* What the callback sees: the array's contents now, not when it was queued.
Seen(item) == IF item.group = NilGroup THEN NilGroup ELSE mem[item.group]

\* After a callback the loop comes back to its select.
AfterCallbackReturn == "returned"
AfterCallback == "select"

ConsumerCallback(k) ==
    /\ Running
    /\ cpc[k] = "callback"
    /\ LET item == hand[k][1] IN
          consumed' = Append(consumed, [item |-> item, called |-> onRead, data |-> Seen(item)])
    /\ hand' = [hand EXCEPT ![k] = <<>>]
    /\ cpc' = [cpc EXCEPT ![k] = AfterCallback]
    /\ mu' = NoOne
    /\ UNCHANGED <<closed, chanVars, dataVars, callVars, pc, toPush, crash, pushed>>

-----------------------------------------------------------------------------
\* A panic ends the program.
Crashed == ~Running /\ UNCHANGED vars

CallerNext(c) ==
    \/ \E m \in Methods : Call(c, m)
    \/ \E k \in Consumers : Start(c, k) \/ HandOver(c, k)
    \/ SetOnReadCallback(c) \/ SetOnErrorCallback(c)
    \/ LoadRegisters(c) \/ LoadDuplicateTag(c)
    \/ StopAgain(c) \/ StopMark(c) \/ StopCloseExit(c) \/ StopCloseQueue(c)
    \/ ReadRefused(c) \/ ReadGroups(c) \/ PushGroup(c) \/ ReadReturn(c)

ConsumerNext(k) ==
    ConsumerReturn(k) \/ ConsumerReceive(k) \/ ConsumerLock(k) \/ ConsumerCallback(k)

Next ==
    \/ \E c \in Callers : CallerNext(c)
    \/ \E k \in Consumers : ConsumerNext(k)
    \/ Crashed

Spec == Init /\ [][Next]_vars

(***************************************************************************)
(* Fairness.  sync.Mutex hands a lock over after 1ms of starvation, so a   *)
(* goroutine that waits while the mutex is free again and again gets it    *)
(* (SF); every other step a goroutine can take it takes (WF), and a user's *)
(* callback returns.  Nobody has to call a method.                         *)
(***************************************************************************)
LockedMethod(c) ==
    \/ SetOnReadCallback(c) \/ SetOnErrorCallback(c) \/ LoadRegisters(c) \/ LoadDuplicateTag(c)
    \/ StopAgain(c) \/ StopMark(c) \/ ReadRefused(c) \/ ReadGroups(c)
HolderStep(c) ==
    \/ StopCloseExit(c) \/ StopCloseQueue(c) \/ PushGroup(c) \/ ReadReturn(c)
    \/ \E k \in Consumers : HandOver(c, k)

Fairness ==
    /\ \A c \in Callers : SF_vars(LockedMethod(c)) /\ WF_vars(HolderStep(c))
    /\ \A k \in Consumers :
         /\ WF_vars(ConsumerReturn(k) \/ ConsumerReceive(k))
         /\ SF_vars(ConsumerLock(k))
         /\ WF_vars(ConsumerCallback(k))

FairSpec == Spec /\ Fairness

-----------------------------------------------------------------------------
(***************************************************************************)
(* Properties.                                                             *)
(***************************************************************************)

\* While OnReadCallback runs, no caller is inside ReadGroupedData or Stop and
\* no second consumer runs it: m.mu covers the callback (Start, lines 67-71).
CallbackExclusion ==
    \A k \in Consumers : cpc[k] = "callback" =>
        /\ \A c \in Callers : pc[c] \notin {"closeExit", "closeQueue", "pushing"}
        /\ \A j \in Consumers \ {k} : cpc[j] # "callback"

\* ReadGroupedData never sends on the closed dataQueue and Stop, however often
\* and from however many goroutines it is called, closes each channel once.
NoChannelPanic == crash \in {"none", "nil_callback"}

\* A reader that is still pushing keeps the manager open: neither channel is
\* closed under it.  (So the exitSignal arm of its select is never taken.)
PushingKeepsOpen ==
    \A c \in Callers : pc[c] = "pushing" => ~closed /\ ~exitClosed /\ ~queueClosed

\* The array a callback is looking at is not rewritten under it, although the
\* next ReadGroupedData rewrites the same arrays in place.
CallbackSeesStableData ==
    [][\A k \in Consumers :
         cpc[k] = "callback" /\ hand[k][1].group # NilGroup
            => mem'[hand[k][1].group] = mem[hand[k][1].group]]_vars

\* Once Stop has marked the manager closed it stays closed, the device is not
\* read again and nothing more is queued.
StopIsFinal == [][closed => closed' /\ reads' = reads /\ pushed' = pushed]_vars

\* An array may be newer than read n that queued it (it is shared).  A register
\* that is older than read n, which a short reply did not reach, stands behind
\* one that read n or a later one marked INVALID.
OlderAreMarked(array, n) ==
    \A i \in Places :
        \/ array[i].read >= n
        \/ \E j \in 1..(i - 1) : array[j].status = "INVALID" /\ array[j].read >= n

\* The callback gets failed and short reads too, with registers that say
\* VALID:OK of an earlier read; but up to the first INVALID register it never
\* sees data older than the read that queued the group.
OlderOnlyBehindInvalid ==
    /\ \A i \in 1..Len(consumed) :
         consumed[i].data # NilGroup => OlderAreMarked(consumed[i].data, consumed[i].item.read)
    /\ \A i \in 1..Len(queue) :
         queue[i].group # NilGroup => OlderAreMarked(mem[queue[i].group], queue[i].read)

\* With one consumer the manager implements the abstract delivery queue: the
\* callback gets the groups in the order ReadGroupedData queued them, each at
\* most once, and none queued after Stop.
Delivery == INSTANCE DeliveryQueue WITH
    Item <- Items, sent <- pushed,
    got <- [i \in 1..Len(consumed) |-> consumed[i].item],
    open <- ~closed
DeliversInOrder == Delivery!Spec

\* The documented promise of the method comment "Stop gracefully stops the
\* manager": on a started manager a Stop that was called returns (unless the
\* program panicked).  It holds only while dataQueue cannot fill up.
Started == \E k \in Consumers : cpc[k] # "off"
StopReturns ==
    \A c \in Callers : Started /\ pc[c] = "Stop" ~> (pc[c] = "idle" \/ ~Running)

\* A started consumer returns once the manager is stopped: no goroutine leaks.
ConsumersReturn ==
    \A k \in Consumers : closed /\ cpc[k] # "off" ~> cpc[k] = "returned" \/ ~Running

\* A group that was queued while a consumer runs reaches it, unless Stop came.
QueuedIsDelivered ==
    \A n \in 1..(MaxReads * MaxGroups) :
        Len(pushed) >= n /\ Started
            ~> Len(consumed) >= n \/ closed \/ ~Running
=============================================================================
