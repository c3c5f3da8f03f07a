----------------------- MODULE RegisterManagerProofs -----------------------
(***************************************************************************)
(* Proofs about RegisterManager, for every set of callers and consumers,   *)
(* every queue size and every number of loads, reads and groups.           *)
(***************************************************************************)
EXTENDS RegisterManager, SequenceTheorems, TLAPS

(***************************************************************************)
(* The inductive invariant.  Who holds m.mu is known from where everyone   *)
(* is; what is closed is known from where the closer is; whoever is        *)
(* pushing holds the mutex of an open manager.                             *)
(***************************************************************************)
HolderPoints == {"closeExit", "closeQueue", "pushing"}

LockInv ==
    /\ \A c \in Callers : pc[c] \in HolderPoints <=> mu = c
    /\ \A k \in Consumers : cpc[k] = "callback" <=> mu = k

CloseInv ==
    /\ exitClosed => closed
    /\ queueClosed => exitClosed
    /\ \A c \in Callers : pc[c] = "pushing" => ~closed
    /\ \A c \in Callers : pc[c] = "closeExit" => closed /\ ~exitClosed
    /\ \A c \in Callers : pc[c] = "closeQueue" => exitClosed /\ ~queueClosed

HandInv ==
    \A k \in Consumers : cpc[k] \in {"received", "callback"} => hand[k] # <<>>

\* In the array of a queued reference, what is older than the read that queued
\* it stands behind a register marked INVALID since.
Fresh(item) ==
    /\ item.read <= reads
    /\ item.group # NilGroup => OlderAreMarked(mem[item.group], item.read)
FreshInv ==
    /\ \A c \in Callers : \A i \in 1..Len(toPush[c]) : Fresh(toPush[c][i])
    /\ \A i \in 1..Len(queue) : Fresh(queue[i])
    /\ \A k \in Consumers : \A i \in 1..Len(hand[k]) : Fresh(hand[k][i])
    /\ \A i \in 1..Len(consumed) :
         consumed[i].data # NilGroup => OlderAreMarked(consumed[i].data, consumed[i].item.read)

Inv == TypeOK /\ LockInv /\ CloseInv /\ HandInv /\ NoChannelPanic /\ FreshInv

-----------------------------------------------------------------------------
\* The type invariant holds initially (NewRegisterManager).
LEMMA InitType == Init => TypeOK
<1> USE ManagerAssumption DEF ManagerAssumption
<1> SUFFICES ASSUME Init PROVE TypeOK OBVIOUS
<1>1. <<>> \in Seq(Items) /\ Len(<<>>) = 0 /\ <<>> \in Seq(Groups)
        /\ <<>> \in Seq([item : Items, called : BOOLEAN, data : Data])
  OBVIOUS
<1>2. mem \in [Groups -> Contents]
  BY DEF Init, Contents, Registers
<1>3. /\ queue \in Seq(Items) /\ Len(queue) <= QueueSize
      /\ grouped \in Seq(Groups) /\ pushed \in Seq(Items)
      /\ consumed \in Seq([item : Items, called : BOOLEAN, data : Data])
  BY <1>1 DEF Init
<1>4. toPush \in [Callers -> Seq(Items)] /\ hand \in [Consumers -> Seq(Items)]
  BY <1>1 DEF Init
<1>5. pc \in [Callers -> CallerPoints] /\ cpc \in [Consumers -> ConsumerPoints]
  BY DEF Init, CallerPoints, ConsumerPoints
<1>6. loads \in 0..MaxLoads /\ reads \in 0..MaxReads
  BY DEF Init
<1>7. crash \in Panics /\ mu \in Callers \cup Consumers \cup {NoOne}
  BY DEF Init, Panics
<1>8. closed \in BOOLEAN /\ exitClosed \in BOOLEAN /\ queueClosed \in BOOLEAN
      /\ onRead \in BOOLEAN /\ onError \in BOOLEAN
  BY DEF Init
<1> QED BY <1>2, <1>3, <1>4, <1>5, <1>6, <1>7, <1>8 DEF TypeOK

\* A later read n of an array keeps every older register behind one marked
\* INVALID: what it leaves alone is behind the register it marks.
LEMMA RewrittenStaysMarked ==
    ASSUME NEW array \in Contents, NEW outcome \in Outcomes, NEW n \in Nat, NEW m \in Nat,
           n >= m, OlderAreMarked(array, m)
    PROVE  OlderAreMarked(Rewritten(array, outcome, n), m)
<1> USE ManagerAssumption DEF ManagerAssumption
<1> DEFINE new == Rewritten(array, outcome, n)
<1>1. /\ \A i \in Places : i \in MadeValid(outcome) \cup MadeInvalid(outcome) => new[i].read = n
      /\ \A i \in MadeInvalid(outcome) \ MadeValid(outcome) : new[i].status = "INVALID"
      /\ \A i \in Places : i \notin MadeValid(outcome) \cup MadeInvalid(outcome) => new[i] = array[i]
  BY DEF Rewritten, MadeInvalid
<1>2. outcome.valid \in Nat /\ outcome.valid <= GroupSize
  BY DEF Outcomes
<1>3. ASSUME NEW i \in Places
      PROVE  new[i].read >= m \/ \E j \in 1..(i - 1) : new[j].status = "INVALID" /\ new[j].read >= m
  <2>1. CASE i \in MadeValid(outcome) \cup MadeInvalid(outcome)
    BY <1>1, <2>1
  <2>2. CASE outcome.result = "failed"
    BY <1>1, <2>2 DEF MadeInvalid
  <2>3. CASE outcome.result = "nil"
    <3>1. outcome.valid = 0
      BY <2>3 DEF Outcomes
    <3>2. \A j \in Places : new[j] = array[j]
      BY <1>1, <2>3, <3>1 DEF MadeValid, MadeInvalid
    <3>3. \A j \in 1..(i - 1) : j \in Places
      BY DEF Places
    <3> QED BY <3>2, <3>3 DEF OlderAreMarked
  <2>4. CASE outcome.result = "reply" /\ i \notin MadeValid(outcome) \cup MadeInvalid(outcome)
    <3> DEFINE j == outcome.valid + 1
    <3>1. i \in Nat /\ i > outcome.valid /\ i # outcome.valid + 1 /\ i <= GroupSize
      BY <2>4, <1>2 DEF MadeValid, MadeInvalid, Places
    <3>2. j \in 1..(i - 1) /\ j \in Places
      BY <3>1, <1>2 DEF Places
    <3>3. j \in MadeInvalid(outcome) \ MadeValid(outcome)
      BY <2>4, <3>2, <1>2 DEF MadeInvalid, MadeValid
    <3>4. new[j].status = "INVALID" /\ new[j].read >= m
      BY <1>1, <3>2, <3>3
    <3> QED BY <3>2, <3>4
  <2> QED BY <2>1, <2>2, <2>3, <2>4 DEF Outcomes
<1> QED BY <1>3 DEF OlderAreMarked

\* A read of a usable group marks its own array so.
LEMMA RewrittenIsMarked ==
    ASSUME NEW array \in Contents, NEW outcome \in Outcomes, outcome.result # "nil", NEW n \in Nat
    PROVE  OlderAreMarked(Rewritten(array, outcome, n), n)
<1> USE ManagerAssumption DEF ManagerAssumption
<1> DEFINE new == Rewritten(array, outcome, n)
<1>1. /\ \A i \in Places : i \in MadeValid(outcome) \cup MadeInvalid(outcome) => new[i].read = n
      /\ \A i \in MadeInvalid(outcome) \ MadeValid(outcome) : new[i].status = "INVALID"
  BY DEF Rewritten, MadeInvalid
<1>2. outcome.valid \in Nat /\ outcome.valid <= GroupSize
  BY DEF Outcomes
<1>3. ASSUME NEW i \in Places
      PROVE  new[i].read >= n \/ \E j \in 1..(i - 1) : new[j].status = "INVALID" /\ new[j].read >= n
  <2>1. CASE i \in MadeValid(outcome) \cup MadeInvalid(outcome)
    BY <1>1, <2>1
  <2>2. CASE outcome.result = "failed"
    BY <1>1, <2>2 DEF MadeInvalid
  <2>3. CASE outcome.result = "reply" /\ i \notin MadeValid(outcome) \cup MadeInvalid(outcome)
    <3> DEFINE j == outcome.valid + 1
    <3>1. i \in Nat /\ i > outcome.valid /\ i # outcome.valid + 1 /\ i <= GroupSize
      BY <2>3, <1>2 DEF MadeValid, MadeInvalid, Places
    <3>2. j \in 1..(i - 1) /\ j \in Places
      BY <3>1, <1>2 DEF Places
    <3>3. j \in MadeInvalid(outcome) \ MadeValid(outcome)
      BY <2>3, <3>2, <1>2 DEF MadeInvalid, MadeValid
    <3>4. new[j].status = "INVALID" /\ new[j].read >= n
      BY <1>1, <3>2, <3>3
    <3> QED BY <3>2, <3>4
  <2> QED BY <2>1, <2>2, <2>3 DEF Outcomes
<1> QED BY <1>3 DEF OlderAreMarked

\* A read produces one result item per loaded group.
LEMMA ReadResultType ==
    ASSUME TypeOK, reads < MaxReads,
           NEW outcome \in [LoadedGroups -> Outcomes]
    PROVE  /\ [i \in 1..Len(grouped) |->
                 [group |-> IF outcome[grouped[i]].result = "nil" THEN NilGroup ELSE grouped[i],
                  read |-> reads + 1]] \in Seq(Items)
           /\ [g \in Groups |-> IF g \in LoadedGroups
                                THEN Rewritten(mem[g], outcome[g], reads + 1)
                                ELSE mem[g]] \in [Groups -> Contents]
<1> USE ManagerAssumption DEF ManagerAssumption
<1>1. /\ Len(grouped) \in Nat
      /\ reads + 1 \in 1..MaxReads
      /\ \A i \in 1..Len(grouped) : grouped[i] \in Groups
  BY DEF TypeOK
<1>2. \A i \in 1..Len(grouped) :
        [group |-> IF outcome[grouped[i]].result = "nil" THEN NilGroup ELSE grouped[i],
         read |-> reads + 1] \in Items
  BY <1>1 DEF Items
<1>3. \A g \in Groups : mem[g] \in Contents
  BY DEF TypeOK
<1>4. ASSUME NEW g \in Groups, g \in LoadedGroups
      PROVE  Rewritten(mem[g], outcome[g], reads + 1) \in Contents
  <2>1. mem[g] \in Contents /\ reads + 1 \in 0..MaxReads
    BY <1>1, <1>3
  <2> QED BY <2>1 DEF Rewritten, Contents, Registers
<1> QED BY <1>1, <1>2, <1>3, <1>4

\* Every step of every method and consumer preserves the type invariant.
LEMMA NextType == TypeOK /\ HandInv /\ [Next]_vars => TypeOK'
<1> USE ManagerAssumption DEF ManagerAssumption
<1> SUFFICES ASSUME TypeOK, HandInv, [Next]_vars PROVE TypeOK'
  OBVIOUS
<1> USE DEF Goto, chanVars, dataVars, callVars, histVars, CallerPoints, ConsumerPoints
<1>1. ASSUME NEW c \in Callers, NEW m \in Methods, Call(c, m) PROVE TypeOK'
  BY <1>1 DEF TypeOK, Call
<1>2. ASSUME NEW c \in Callers, SetOnReadCallback(c) PROVE TypeOK'
  BY <1>2 DEF TypeOK, SetOnReadCallback
<1>3. ASSUME NEW c \in Callers, SetOnErrorCallback(c) PROVE TypeOK'
  BY <1>3 DEF TypeOK, SetOnErrorCallback
<1>4. ASSUME NEW c \in Callers, NEW k \in Consumers, Start(c, k) PROVE TypeOK'
  BY <1>4 DEF TypeOK, Start
<1>5. ASSUME NEW c \in Callers, LoadRegisters(c) PROVE TypeOK'
  <2>1. PICK n \in 0..MaxGroups : grouped' = [i \in 1..n |-> <<loads + 1, i>>]
    BY <1>5 DEF LoadRegisters
  <2>2. loads + 1 \in 1..MaxLoads
    BY <1>5 DEF LoadRegisters, TypeOK
  <2>3. \A i \in 1..n : <<loads + 1, i>> \in Groups
    BY <2>2 DEF Groups
  <2>4. grouped' \in Seq(Groups)
    BY <2>1, <2>3
  <2> QED BY <1>5, <2>2, <2>4 DEF TypeOK, LoadRegisters
<1>6. ASSUME NEW c \in Callers, LoadDuplicateTag(c) PROVE TypeOK'
  BY <1>6 DEF TypeOK, LoadDuplicateTag, Panics
<1>7. ASSUME NEW c \in Callers, StopAgain(c) PROVE TypeOK'
  BY <1>7 DEF TypeOK, StopAgain
<1>8. ASSUME NEW c \in Callers, StopMark(c) PROVE TypeOK'
  BY <1>8 DEF TypeOK, StopMark
<1>9. ASSUME NEW c \in Callers, StopCloseExit(c) PROVE TypeOK'
  BY <1>9 DEF TypeOK, StopCloseExit, Panics
<1>10. ASSUME NEW c \in Callers, StopCloseQueue(c) PROVE TypeOK'
  BY <1>10 DEF TypeOK, StopCloseQueue, Panics
<1>11. ASSUME NEW c \in Callers, ReadRefused(c) PROVE TypeOK'
  BY <1>11 DEF TypeOK, ReadRefused
<1>12. ASSUME NEW c \in Callers, ReadGroups(c) PROVE TypeOK'
  <2>1. PICK outcome \in [LoadedGroups -> Outcomes] :
          /\ mem' = [g \in Groups |-> IF g \in LoadedGroups
                                      THEN Rewritten(mem[g], outcome[g], reads + 1)
                                      ELSE mem[g]]
          /\ toPush' = [toPush EXCEPT ![c] =
               [i \in 1..Len(grouped) |->
                 [group |-> IF outcome[grouped[i]].result = "nil" THEN NilGroup ELSE grouped[i],
                  read |-> reads + 1]]]
    BY <1>12 DEF ReadGroups
  <2>2. mem' \in [Groups -> Contents] /\ toPush' \in [Callers -> Seq(Items)]
    BY <1>12, <2>1, ReadResultType DEF ReadGroups, TypeOK
  <2> QED BY <1>12, <2>2 DEF TypeOK, ReadGroups
<1>13. ASSUME NEW c \in Callers, PushGroup(c) PROVE TypeOK'
  <2>1. /\ Head(toPush[c]) \in Items /\ Tail(toPush[c]) \in Seq(Items)
    BY <1>13 DEF PushGroup, TypeOK
  <2>2. CASE UNCHANGED <<mu, queue, pc, toPush, pushed>>
    BY <1>13, <2>2 DEF TypeOK, PushGroup, Panics, HasRoom, Sent
  <2>3. CASE HasRoom /\ queue' = Enqueued(Head(toPush[c])) /\ Sent(c) /\ UNCHANGED <<mu, pc, crash>>
    <3>1. queue' \in Seq(Items) /\ Len(queue') <= QueueSize /\ pushed' \in Seq(Items)
      BY <2>1, <2>3 DEF TypeOK, HasRoom, Enqueued, Sent
    <3>2. toPush' \in [Callers -> Seq(Items)]
      BY <2>1, <2>3 DEF TypeOK, Sent
    <3> QED BY <1>13, <2>3, <3>1, <3>2 DEF TypeOK, PushGroup
  <2>4. CASE /\ mu' = NoOne /\ pc' = [pc EXCEPT ![c] = "idle"]
             /\ toPush' = [toPush EXCEPT ![c] = <<>>]
             /\ UNCHANGED <<queue, crash, pushed>>
    BY <1>13, <2>4 DEF TypeOK, PushGroup
  <2> QED BY <1>13, <2>2, <2>3, <2>4 DEF PushGroup
<1>14. ASSUME NEW c \in Callers, NEW k \in Consumers, HandOver(c, k) PROVE TypeOK'
  <2>1. /\ Head(toPush[c]) \in Items /\ Tail(toPush[c]) \in Seq(Items)
    BY <1>14 DEF HandOver, TypeOK
  <2>2. /\ hand' \in [Consumers -> Seq(Items)] /\ toPush' \in [Callers -> Seq(Items)]
        /\ pushed' \in Seq(Items)
    BY <1>14, <2>1 DEF HandOver, TypeOK, Sent
  <2> QED BY <1>14, <2>2 DEF TypeOK, HandOver
<1>15. ASSUME NEW c \in Callers, ReadReturn(c) PROVE TypeOK'
  BY <1>15 DEF TypeOK, ReadReturn
<1>16. ASSUME NEW k \in Consumers, ConsumerReturn(k) PROVE TypeOK'
  BY <1>16 DEF TypeOK, ConsumerReturn
<1>17. ASSUME NEW k \in Consumers, ConsumerReceive(k) PROVE TypeOK'
  <2>1. /\ queue' \in Seq(Items) /\ Len(queue') <= QueueSize
        /\ hand' \in [Consumers -> Seq(Items)]
    BY <1>17 DEF ConsumerReceive, TypeOK
  <2> QED BY <1>17, <2>1 DEF TypeOK, ConsumerReceive
<1>18. ASSUME NEW k \in Consumers, ConsumerLock(k) PROVE TypeOK'
  BY <1>18 DEF TypeOK, ConsumerLock
<1>19. ASSUME NEW k \in Consumers, ConsumerCallback(k) PROVE TypeOK'
  <2>1. hand[k][1] \in Items
    BY <1>19 DEF ConsumerCallback, TypeOK, HandInv
  <2>2. Seen(hand[k][1]) \in Data
    BY <2>1 DEF Seen, Items, Data, TypeOK
  <2>3. [item |-> hand[k][1], called |-> onRead, data |-> Seen(hand[k][1])]
          \in [item : Items, called : BOOLEAN, data : Data]
    BY <2>1, <2>2 DEF TypeOK
  <2>4. consumed' \in Seq([item : Items, called : BOOLEAN, data : Data])
    BY <1>19, <2>3 DEF ConsumerCallback, TypeOK
  <2>5. hand' \in [Consumers -> Seq(Items)]
    BY <1>19 DEF ConsumerCallback, TypeOK
  <2> QED BY <1>19, <2>4, <2>5 DEF TypeOK, ConsumerCallback, AfterCallback
<1>20. CASE UNCHANGED vars
  BY <1>20 DEF TypeOK, vars
<1> QED
  BY <1>1, <1>2, <1>3, <1>4, <1>5, <1>6, <1>7, <1>8, <1>9, <1>10, <1>11, <1>12, <1>13,
     <1>14, <1>15, <1>16, <1>17, <1>18, <1>19, <1>20
     DEF Next, CallerNext, ConsumerNext, Crashed

-----------------------------------------------------------------------------
\* Every step preserves who holds the mutex and where it is held.
LEMMA NextLock == TypeOK /\ LockInv /\ [Next]_vars => LockInv'
<1> USE ManagerAssumption DEF ManagerAssumption
<1> SUFFICES ASSUME TypeOK, LockInv, [Next]_vars PROVE LockInv'
  OBVIOUS
<1> USE DEF Goto, LockInv, HolderPoints, TypeOK, Methods, Unlocked
<1>1. ASSUME NEW c \in Callers, CallerNext(c) PROVE LockInv'
  <2>1. ASSUME NEW m \in Methods, Call(c, m) PROVE LockInv'
    BY <2>1 DEF Call
  <2>2. CASE SetOnReadCallback(c) \/ SetOnErrorCallback(c)
    BY <2>2 DEF SetOnReadCallback, SetOnErrorCallback
  <2>3. ASSUME NEW k \in Consumers, Start(c, k) \/ HandOver(c, k) PROVE LockInv'
    BY <2>3 DEF Start, HandOver
  <2>4. CASE LoadRegisters(c) \/ LoadDuplicateTag(c)
    BY <2>4 DEF LoadRegisters, LoadDuplicateTag
  <2>5. CASE StopAgain(c) \/ ReadRefused(c)
    BY <2>5 DEF StopAgain, ReadRefused
  <2>6. CASE StopMark(c)
    BY <2>6 DEF StopMark
  <2>7. CASE StopCloseExit(c)
    BY <2>7 DEF StopCloseExit
  <2>8. CASE StopCloseQueue(c)
    BY <2>8 DEF StopCloseQueue
  <2>9. CASE ReadGroups(c)
    BY <2>9 DEF ReadGroups
  <2>10. CASE PushGroup(c)
    BY <2>10 DEF PushGroup
  <2>11. CASE ReadReturn(c)
    BY <2>11 DEF ReadReturn
  <2> QED BY <1>1, <2>1, <2>2, <2>3, <2>4, <2>5, <2>6, <2>7, <2>8, <2>9, <2>10, <2>11
            DEF CallerNext
<1>2. ASSUME NEW k \in Consumers, ConsumerNext(k) PROVE LockInv'
  <2>1. CASE ConsumerReturn(k)
    BY <2>1 DEF ConsumerReturn
  <2>2. CASE ConsumerReceive(k)
    BY <2>2 DEF ConsumerReceive
  <2>3. CASE ConsumerLock(k)
    BY <2>3 DEF ConsumerLock, CallbackMayStart
  <2>4. CASE ConsumerCallback(k)
    BY <2>4 DEF ConsumerCallback, AfterCallback
  <2> QED BY <1>2, <2>1, <2>2, <2>3, <2>4 DEF ConsumerNext
<1>3. CASE UNCHANGED vars
  BY <1>3 DEF vars
<1> QED BY <1>1, <1>2, <1>3 DEF Next, Crashed

\* Every step preserves what is closed when, and never panics on a channel.
LEMMA NextClose ==
    TypeOK /\ LockInv /\ CloseInv /\ NoChannelPanic /\ [Next]_vars
        => CloseInv' /\ NoChannelPanic'
<1> USE ManagerAssumption DEF ManagerAssumption
<1> SUFFICES ASSUME TypeOK, LockInv, CloseInv, NoChannelPanic, [Next]_vars
             PROVE  CloseInv' /\ NoChannelPanic'
  OBVIOUS
<1> USE DEF Goto, CloseInv, NoChannelPanic, TypeOK, Methods, chanVars
<1>1. ASSUME NEW c \in Callers, CallerNext(c) PROVE CloseInv' /\ NoChannelPanic'
  <2>1. ASSUME NEW m \in Methods, Call(c, m) PROVE CloseInv' /\ NoChannelPanic'
    BY <2>1 DEF Call
  <2>2. CASE SetOnReadCallback(c) \/ SetOnErrorCallback(c)
    BY <2>2 DEF SetOnReadCallback, SetOnErrorCallback
  <2>3. ASSUME NEW k \in Consumers, Start(c, k) \/ HandOver(c, k)
        PROVE  CloseInv' /\ NoChannelPanic'
    BY <2>3 DEF Start, HandOver
  <2>4. CASE LoadRegisters(c)
    BY <2>4 DEF LoadRegisters
  <2>5. CASE LoadDuplicateTag(c)
    BY <2>5 DEF LoadDuplicateTag
  <2>6. CASE StopAgain(c) \/ ReadRefused(c)
    BY <2>6 DEF StopAgain, ReadRefused
  <2>7. CASE StopMark(c)
    \* Nobody is pushing or closing: they would hold the mutex.
    <3>1. \A d \in Callers : pc[d] \notin HolderPoints
      BY <2>7 DEF StopMark, Unlocked, LockInv
    <3> QED BY <2>7, <3>1 DEF StopMark, MayClose, HolderPoints
  <2>8. CASE StopCloseExit(c)
    <3>1. \A d \in Callers \ {c} : pc[d] \notin HolderPoints
      BY <2>8 DEF StopCloseExit, LockInv, HolderPoints
    <3> QED BY <2>8, <3>1 DEF StopCloseExit, HolderPoints
  <2>9. CASE StopCloseQueue(c)
    <3>1. \A d \in Callers \ {c} : pc[d] \notin HolderPoints
      BY <2>9 DEF StopCloseQueue, LockInv, HolderPoints
    <3>2. exitClosed
      BY <2>9 DEF StopCloseQueue
    <3> QED BY <2>9, <3>1, <3>2 DEF StopCloseQueue, HolderPoints
  <2>10. CASE ReadGroups(c)
    BY <2>10 DEF ReadGroups, MayRead
  <2>11. CASE PushGroup(c)
    BY <2>11 DEF PushGroup
  <2>12. CASE ReadReturn(c)
    BY <2>12 DEF ReadReturn
  <2> QED BY <1>1, <2>1, <2>2, <2>3, <2>4, <2>5, <2>6, <2>7, <2>8, <2>9, <2>10, <2>11, <2>12
            DEF CallerNext
<1>2. ASSUME NEW k \in Consumers, ConsumerNext(k) PROVE CloseInv' /\ NoChannelPanic'
  BY <1>2 DEF ConsumerNext, ConsumerReturn, ConsumerReceive, ConsumerLock, ConsumerCallback
<1>3. CASE UNCHANGED vars
  BY <1>3 DEF vars
<1> QED BY <1>1, <1>2, <1>3 DEF Next, Crashed

\* A consumer on its way to the callback has something in its hand.
LEMMA NextHand == TypeOK /\ HandInv /\ [Next]_vars => HandInv'
<1> SUFFICES ASSUME TypeOK, HandInv, [Next]_vars PROVE HandInv'
  OBVIOUS
<1> USE DEF HandInv, TypeOK
<1>1. ASSUME NEW c \in Callers, NEW k \in Consumers, Start(c, k) \/ HandOver(c, k)
      PROVE  HandInv'
  <2>1. CASE Start(c, k)
    BY <2>1 DEF Start
  <2>2. CASE HandOver(c, k)
    <3>1. hand' = [hand EXCEPT ![k] = <<Head(toPush[c])>>] /\ <<Head(toPush[c])>> # <<>>
          /\ cpc' = [cpc EXCEPT ![k] = "received"]
      BY <2>2 DEF HandOver
    <3> QED BY <3>1
  <2> QED BY <1>1, <2>1, <2>2
<1>2. ASSUME NEW k \in Consumers, ConsumerNext(k) PROVE HandInv'
  <2>1. CASE ConsumerReturn(k) \/ ConsumerLock(k)
    BY <2>1 DEF ConsumerReturn, ConsumerLock
  <2>2. CASE ConsumerReceive(k)
    <3>1. hand' = [hand EXCEPT ![k] = <<Head(queue)>>] /\ <<Head(queue)>> # <<>>
          /\ cpc' = [cpc EXCEPT ![k] = "received"]
      BY <2>2 DEF ConsumerReceive
    <3> QED BY <3>1
  <2>3. CASE ConsumerCallback(k)
    BY <2>3 DEF ConsumerCallback, AfterCallback
  <2> QED BY <1>2, <2>1, <2>2, <2>3 DEF ConsumerNext
<1>3. ASSUME NEW c \in Callers, CallerNext(c),
             ~ \E k \in Consumers : Start(c, k) \/ HandOver(c, k)
      PROVE  UNCHANGED <<cpc, hand>>
  BY <1>3 DEF CallerNext, Call, SetOnReadCallback, SetOnErrorCallback, LoadRegisters,
     LoadDuplicateTag, StopAgain, StopMark, StopCloseExit, StopCloseQueue, ReadRefused,
     ReadGroups, PushGroup, ReadReturn
<1>4. ASSUME NEW c \in Callers, CallerNext(c) PROVE HandInv'
  <2>1. CASE \E k \in Consumers : Start(c, k) \/ HandOver(c, k)
    BY <2>1, <1>1
  <2>2. CASE ~ \E k \in Consumers : Start(c, k) \/ HandOver(c, k)
    BY <2>2, <1>3, <1>4
  <2> QED BY <2>1, <2>2
<1>5. CASE UNCHANGED vars
  BY <1>5 DEF vars
<1> QED BY <1>2, <1>4, <1>5 DEF Next, Crashed

-----------------------------------------------------------------------------
\* A step that leaves the arrays, the read count and every reference alone
\* leaves FreshInv alone.
dataRefs == <<mem, reads, toPush, queue, hand, consumed>>
LEMMA FreshStutter == FreshInv /\ UNCHANGED dataRefs => FreshInv'
  BY DEF FreshInv, Fresh, dataRefs

\* Every step preserves that references are never newer than their arrays.
LEMMA NextFresh == TypeOK /\ HandInv /\ FreshInv /\ [Next]_vars => FreshInv'
<1> USE ManagerAssumption DEF ManagerAssumption
<1> SUFFICES ASSUME TypeOK, HandInv, FreshInv, [Next]_vars PROVE FreshInv'
  OBVIOUS
<1> USE DEF chanVars, dataVars, callVars, histVars
<1>1. ASSUME NEW c \in Callers, ReadGroups(c) PROVE FreshInv'
  <2>1. PICK outcome \in [LoadedGroups -> Outcomes] :
          /\ mem' = [g \in Groups |-> IF g \in LoadedGroups
                                      THEN Rewritten(mem[g], outcome[g], reads + 1)
                                      ELSE mem[g]]
          /\ toPush' = [toPush EXCEPT ![c] =
               [i \in 1..Len(grouped) |->
                 [group |-> IF outcome[grouped[i]].result = "nil" THEN NilGroup ELSE grouped[i],
                  read |-> reads + 1]]]
    BY <1>1 DEF ReadGroups
  <2>2. reads \in Nat /\ reads' = reads + 1 /\ UNCHANGED <<queue, hand, consumed, grouped>>
    BY <1>1 DEF ReadGroups, TypeOK
  <2>3. \A g \in LoadedGroups : g \in Groups /\ mem[g] \in Contents
    BY DEF LoadedGroups, TypeOK
  <2>4. ASSUME NEW item \in Items, Fresh(item) PROVE Fresh(item)'
    <3>1. item.read \in Nat /\ item.read <= reads + 1 /\ reads + 1 \in Nat
      BY <2>2, <2>4 DEF Fresh, Items
    <3>2. CASE item.group \in LoadedGroups
      <4>1. /\ item.group # NilGroup /\ OlderAreMarked(mem[item.group], item.read)
            /\ outcome[item.group] \in Outcomes
        BY <2>1, <2>3, <2>4, <3>2 DEF Fresh, Groups
      <4>2. OlderAreMarked(Rewritten(mem[item.group], outcome[item.group], reads + 1), item.read)
        BY <2>3, <3>1, <3>2, <4>1, RewrittenStaysMarked
      <4>3. mem'[item.group] = Rewritten(mem[item.group], outcome[item.group], reads + 1)
        BY <2>1, <2>3, <3>2
      <4> QED BY <2>2, <3>1, <4>2, <4>3 DEF Fresh
    <3>3. CASE item.group \notin LoadedGroups /\ item.group # NilGroup
      <4>1. mem'[item.group] = mem[item.group]
        BY <2>1, <3>3 DEF Items
      <4> QED BY <2>2, <2>4, <3>1, <3>3, <4>1 DEF Fresh
    <3>4. CASE item.group = NilGroup
      BY <2>2, <3>1, <3>4 DEF Fresh
    <3> QED BY <3>2, <3>3, <3>4
  <2>5. ASSUME NEW g \in LoadedGroups, outcome[g].result # "nil"
        PROVE  OlderAreMarked(mem'[g], reads + 1)
    <3>1. mem'[g] = Rewritten(mem[g], outcome[g], reads + 1) /\ outcome[g] \in Outcomes
      BY <2>1, <2>3
    <3>2. reads + 1 \in Nat
      BY <2>2
    <3> QED BY <2>3, <2>5, <3>1, <3>2, RewrittenIsMarked
  <2>6. ASSUME NEW d \in Callers, NEW i \in 1..Len(toPush'[d]) PROVE Fresh(toPush[d][i])'
    <3>1. CASE d = c
      <4>1. Len(grouped) \in Nat /\ toPush'[c] =
              [j \in 1..Len(grouped) |->
                 [group |-> IF outcome[grouped[j]].result = "nil" THEN NilGroup ELSE grouped[j],
                  read |-> reads + 1]]
        BY <2>1 DEF TypeOK
      <4>2. Len(toPush'[c]) = Len(grouped)
        BY <4>1
      <4>3. i \in 1..Len(grouped) /\ grouped[i] \in LoadedGroups
        BY <3>1, <4>2, <2>6 DEF LoadedGroups
      <4>4. toPush'[d][i] = [group |-> IF outcome[grouped[i]].result = "nil" THEN NilGroup ELSE grouped[i],
                             read |-> reads + 1]
        BY <3>1, <4>1, <4>3
      <4> QED BY <4>3, <4>4, <2>2, <2>5 DEF Fresh
    <3>2. CASE d # c
      <4>1. toPush'[d] = toPush[d]
        BY <2>1, <3>2 DEF TypeOK
      <4>2. toPush[d][i] \in Items /\ Fresh(toPush[d][i])
        BY <4>1, <2>6 DEF TypeOK, FreshInv
      <4> QED BY <4>1, <4>2, <2>4 DEF Fresh
    <3> QED BY <3>1, <3>2
  <2>7. \A i \in 1..Len(queue') : Fresh(queue[i])'
    <3>1. \A i \in 1..Len(queue) : queue[i] \in Items /\ Fresh(queue[i])
      BY DEF TypeOK, FreshInv
    <3> QED BY <3>1, <2>2, <2>4 DEF Fresh
  <2>8. \A k \in Consumers : \A i \in 1..Len(hand'[k]) : Fresh(hand[k][i])'
    <3>1. \A k \in Consumers : \A i \in 1..Len(hand[k]) : hand[k][i] \in Items /\ Fresh(hand[k][i])
      BY DEF TypeOK, FreshInv
    <3> QED BY <3>1, <2>2, <2>4 DEF Fresh
  <2> QED BY <2>2, <2>6, <2>7, <2>8 DEF FreshInv
<1>2. ASSUME NEW c \in Callers, PushGroup(c) PROVE FreshInv'
  <2>1. /\ toPush[c] \in Seq(Items) /\ toPush[c] # <<>>
        /\ queue \in Seq(Items) /\ UNCHANGED <<mem, reads, hand, consumed>>
    BY <1>2 DEF PushGroup, TypeOK
  <2>2. Fresh(Head(toPush[c]))
    BY <2>1 DEF FreshInv
  <2>3. \A i \in 1..Len(Tail(toPush[c])) : Fresh(Tail(toPush[c])[i])
    BY <2>1 DEF FreshInv
  <2>4. \A i \in 1..Len(queue') : Fresh(queue'[i])
    <3>1. CASE queue' = queue
      BY <3>1 DEF FreshInv
    <3>2. CASE queue' = Append(queue, Head(toPush[c]))
      BY <3>2, <2>1, <2>2 DEF FreshInv
    <3> QED BY <1>2, <3>1, <3>2 DEF PushGroup, Enqueued
  <2>5. \A d \in Callers : \A i \in 1..Len(toPush'[d]) : Fresh(toPush'[d][i])
    <3>1. toPush' = toPush \/ toPush' = [toPush EXCEPT ![c] = Tail(@)]
            \/ toPush' = [toPush EXCEPT ![c] = <<>>]
      BY <1>2 DEF PushGroup, Sent
    <3>2. \A d \in Callers : \A i \in 1..Len(toPush[d]) : Fresh(toPush[d][i])
      BY DEF FreshInv
    <3>3. CASE toPush' = [toPush EXCEPT ![c] = Tail(@)]
      BY <3>2, <3>3, <2>3 DEF TypeOK
    <3>4. CASE toPush' = [toPush EXCEPT ![c] = <<>>]
      BY <3>2, <3>4 DEF TypeOK
    <3> QED BY <3>1, <3>2, <3>3, <3>4
  <2> QED BY <2>1, <2>4, <2>5 DEF FreshInv, Fresh
<1>3. ASSUME NEW c \in Callers, NEW k \in Consumers, HandOver(c, k) PROVE FreshInv'
  <2>1. /\ toPush[c] \in Seq(Items) /\ toPush[c] # <<>> /\ Head(toPush[c]) \in Items
        /\ UNCHANGED <<mem, reads, queue, consumed>>
        /\ toPush' = [toPush EXCEPT ![c] = Tail(@)]
        /\ hand' = [hand EXCEPT ![k] = <<Head(toPush[c])>>]
    BY <1>3 DEF HandOver, TypeOK, Sent
  <2>2. Fresh(Head(toPush[c]))
    BY <2>1 DEF FreshInv
  <2>3. \A i \in 1..Len(Tail(toPush[c])) : Fresh(Tail(toPush[c])[i])
    BY <2>1 DEF FreshInv
  <2>4. \A d \in Callers : \A i \in 1..Len(toPush'[d]) : Fresh(toPush'[d][i])
    BY <2>1, <2>3 DEF FreshInv, TypeOK
  <2>5. \A j \in Consumers : \A i \in 1..Len(hand'[j]) : Fresh(hand'[j][i])
    BY <2>1, <2>2 DEF FreshInv, TypeOK
  <2> QED BY <2>1, <2>4, <2>5 DEF FreshInv, Fresh
<1>4. ASSUME NEW k \in Consumers, ConsumerReceive(k) PROVE FreshInv'
  <2>1. /\ queue \in Seq(Items) /\ queue # <<>> /\ queue' = Tail(queue)
        /\ hand' = [hand EXCEPT ![k] = <<Head(queue)>>]
        /\ UNCHANGED <<mem, reads, toPush, consumed>>
    BY <1>4 DEF ConsumerReceive, TypeOK
  <2>2. Fresh(Head(queue)) /\ \A i \in 1..Len(queue') : Fresh(queue'[i])
    BY <2>1 DEF FreshInv
  <2>3. \A j \in Consumers : \A i \in 1..Len(hand'[j]) : Fresh(hand'[j][i])
    BY <2>1, <2>2 DEF FreshInv, TypeOK
  <2> QED BY <2>1, <2>2, <2>3 DEF FreshInv, Fresh
<1>5. ASSUME NEW k \in Consumers, ConsumerCallback(k) PROVE FreshInv'
  <2> DEFINE done == [item |-> hand[k][1], called |-> onRead, data |-> Seen(hand[k][1])]
  <2>1. /\ hand[k] \in Seq(Items) /\ hand[k] # <<>> /\ hand[k][1] \in Items
        /\ hand' = [hand EXCEPT ![k] = <<>>]
        /\ consumed' = Append(consumed, done)
        /\ UNCHANGED <<mem, reads, toPush, queue>>
    BY <1>5 DEF ConsumerCallback, TypeOK, HandInv
  <2>2. Fresh(hand[k][1])
    BY <2>1 DEF FreshInv
  <2>3. done.data # NilGroup => OlderAreMarked(done.data, done.item.read)
    BY <2>1, <2>2 DEF Fresh, Seen
  <2>4. consumed \in Seq([item : Items, called : BOOLEAN, data : Data])
    BY DEF TypeOK
  <2>5. \A i \in 1..Len(consumed') :
          consumed'[i].data # NilGroup
             => OlderAreMarked(consumed'[i].data, consumed'[i].item.read)
    <3> HIDE DEF done
    <3> QED BY <2>1, <2>3, <2>4 DEF FreshInv
  <2>6. \A j \in Consumers : \A i \in 1..Len(hand'[j]) : Fresh(hand'[j][i])
    BY <2>1 DEF FreshInv, TypeOK
  <2> QED BY <2>1, <2>5, <2>6 DEF FreshInv, Fresh
<1>6. ASSUME NEW c \in Callers, CallerNext(c) PROVE FreshInv'
  <2>1. CASE ReadGroups(c) \/ PushGroup(c) \/ \E k \in Consumers : HandOver(c, k)
    BY <2>1, <1>1, <1>2, <1>3
  <2>2. CASE ~(ReadGroups(c) \/ PushGroup(c) \/ \E k \in Consumers : HandOver(c, k))
    <3>1. UNCHANGED dataRefs
      BY <2>2, <1>6 DEF dataRefs, CallerNext, Call, SetOnReadCallback, SetOnErrorCallback,
         Start, LoadRegisters, LoadDuplicateTag, StopAgain, StopMark, StopCloseExit,
         StopCloseQueue, ReadRefused, ReadReturn
    <3> QED BY <3>1, FreshStutter
  <2> QED BY <2>1, <2>2
<1>7. ASSUME NEW k \in Consumers, ConsumerReturn(k) \/ ConsumerLock(k) PROVE FreshInv'
  <2>1. UNCHANGED dataRefs
    BY <1>7 DEF dataRefs, ConsumerReturn, ConsumerLock
  <2> QED BY <2>1, FreshStutter
<1>8. CASE UNCHANGED vars
  <2>1. UNCHANGED dataRefs
    BY <1>8 DEF dataRefs, vars
  <2> QED BY <2>1, FreshStutter
<1> QED BY <1>4, <1>5, <1>6, <1>7, <1>8 DEF Next, ConsumerNext, Crashed

-----------------------------------------------------------------------------
(***************************************************************************)
(* The theorems.                                                           *)
(***************************************************************************)

\* Inv is an inductive invariant of the manager.
THEOREM Invariance == Spec => []Inv
<1>1. Init => Inv
  <2> SUFFICES ASSUME Init PROVE Inv
    OBVIOUS
  <2> USE ManagerAssumption DEF ManagerAssumption
  <2>1. TypeOK
    BY InitType
  <2>2. LockInv /\ HandInv
    BY DEF Init, LockInv, HandInv, HolderPoints
  <2>3. CloseInv /\ NoChannelPanic
    BY DEF Init, CloseInv, NoChannelPanic
  <2>4. FreshInv
    BY DEF Init, FreshInv
  <2> QED BY <2>1, <2>2, <2>3, <2>4 DEF Inv
<1>2. Inv /\ [Next]_vars => Inv'
  BY NextType, NextLock, NextClose, NextHand, NextFresh DEF Inv
<1> QED BY <1>1, <1>2, PTL DEF Spec

\* Every reachable state of the manager is well typed; in particular dataQueue
\* never holds more than QueueSize groups.
THEOREM TypeCorrect == Spec => []TypeOK
<1>1. Inv => TypeOK
  BY DEF Inv
<1> QED BY <1>1, Invariance, PTL

\* The callback of Start never overlaps a critical section of ReadGroupedData
\* or Stop, nor another callback.
THEOREM CallbacksExclude == Spec => []CallbackExclusion
<1>1. Inv => CallbackExclusion
  BY ManagerAssumption DEF ManagerAssumption, Inv, LockInv, CallbackExclusion, HolderPoints
<1> QED BY <1>1, Invariance, PTL

\* However Stop, ReadGroupedData and the consumers interleave, no send meets a
\* closed channel and no channel is closed twice.
THEOREM ChannelsNeverPanic == Spec => []NoChannelPanic
<1>1. Inv => NoChannelPanic
  BY DEF Inv
<1> QED BY <1>1, Invariance, PTL

\* A reader that is pushing keeps both channels open: the exitSignal arm of
\* ReadGroupedData's select cannot rescue it.
THEOREM PushingIsProtected == Spec => []PushingKeepsOpen
<1>1. Inv => PushingKeepsOpen
  BY DEF Inv, CloseInv, PushingKeepsOpen
<1> QED BY <1>1, Invariance, PTL

\* Short and failed reads leave registers of earlier reads in a queued array,
\* but a callback finds them only behind a register marked INVALID since.
THEOREM OlderDataMarked == Spec => []OlderOnlyBehindInvalid
<1>1. Inv => OlderOnlyBehindInvalid
  BY DEF Inv, FreshInv, Fresh, OlderOnlyBehindInvalid
<1> QED BY <1>1, Invariance, PTL

\* After Stop has closed the manager nothing is read and nothing is queued.
THEOREM StopHolds == Spec => StopIsFinal
<1>1. Inv /\ [Next]_vars => [closed => closed' /\ reads' = reads /\ pushed' = pushed]_vars
  <2> SUFFICES ASSUME Inv, Next, closed
               PROVE  closed' /\ reads' = reads /\ pushed' = pushed
    BY DEF vars
  <2>1. ASSUME NEW c \in Callers, CallerNext(c)
        PROVE  closed' /\ reads' = reads /\ pushed' = pushed
    <3>1. pc[c] # "pushing"
      BY DEF Inv, CloseInv
    <3> QED BY <3>1, <2>1 DEF CallerNext, Call, SetOnReadCallback, SetOnErrorCallback, Start,
         HandOver, LoadRegisters, LoadDuplicateTag, StopAgain, StopMark, StopCloseExit,
         StopCloseQueue, ReadRefused, ReadGroups, MayRead, PushGroup, ReadReturn, Goto,
         dataVars, histVars
  <2>2. ASSUME NEW k \in Consumers, ConsumerNext(k)
        PROVE  closed' /\ reads' = reads /\ pushed' = pushed
    BY <2>2 DEF ConsumerNext, ConsumerReturn, ConsumerReceive, ConsumerLock, ConsumerCallback,
         dataVars, histVars
  <2>3. CASE Crashed
    BY <2>3 DEF Crashed, vars, dataVars, histVars
  <2> QED BY <2>1, <2>2, <2>3 DEF Next
<1> QED BY <1>1, Invariance, PTL DEF Spec, StopIsFinal

\* The array a callback is reading stays as it is until the callback is over.
THEOREM CallbackDataStable == Spec => CallbackSeesStableData
<1> DEFINE Stable == \A k \in Consumers :
                       cpc[k] = "callback" /\ hand[k][1].group # NilGroup
                          => mem'[hand[k][1].group] = mem[hand[k][1].group]
<1>1. Inv /\ [Next]_vars => [Stable]_vars
  <2> SUFFICES ASSUME Inv, Next, NEW k \in Consumers, cpc[k] = "callback" PROVE mem' = mem
    BY DEF vars
  <2>1. ~Unlocked
    BY ManagerAssumption DEF ManagerAssumption, Inv, LockInv, Unlocked
  <2> QED BY <2>1 DEF Next, CallerNext, ConsumerNext, Crashed, Call, SetOnReadCallback,
       SetOnErrorCallback, Start, HandOver, LoadRegisters, LoadDuplicateTag, StopAgain, StopMark,
       StopCloseExit, StopCloseQueue, ReadRefused, ReadGroups, PushGroup, ReadReturn,
       ConsumerReturn, ConsumerReceive, ConsumerLock, ConsumerCallback, dataVars, vars
<1> QED BY <1>1, Invariance, PTL DEF Spec, CallbackSeesStableData

-----------------------------------------------------------------------------
(***************************************************************************)
(* With one consumer: pushed is consumed, then what the consumer holds,    *)
(* then the queue, each item at the place it was sent.                     *)
(***************************************************************************)
OrderInv(k) ==
    /\ Len(hand[k]) = IF cpc[k] \in {"received", "callback"} THEN 1 ELSE 0
    /\ Len(pushed) = Len(consumed) + Len(hand[k]) + Len(queue)
    /\ \A i \in 1..Len(consumed) : consumed[i].item = pushed[i]
    /\ \A i \in 1..Len(hand[k]) : hand[k][i] = pushed[Len(consumed) + i]
    /\ \A i \in 1..Len(queue) : queue[i] = pushed[Len(consumed) + Len(hand[k]) + i]

orderRefs == <<hand, cpc, pushed, consumed, queue>>
LEMMA OrderStutter == ASSUME NEW k, OrderInv(k), UNCHANGED orderRefs PROVE OrderInv(k)'
  BY DEF OrderInv, orderRefs

\* A send goes to the back of queue and of pushed.
LEMMA OrderSend ==
    ASSUME TypeOK, NEW k \in Consumers, OrderInv(k), NEW item \in Items,
           queue' = Append(queue, item), pushed' = Append(pushed, item),
           UNCHANGED <<hand, cpc, consumed>>
    PROVE  OrderInv(k)'
<1>1. /\ queue \in Seq(Items) /\ pushed \in Seq(Items) /\ hand[k] \in Seq(Items)
      /\ consumed \in Seq([item : Items, called : BOOLEAN, data : Data])
  BY DEF TypeOK
<1>2. /\ Len(consumed) \in Nat /\ Len(hand[k]) \in Nat /\ Len(queue) \in Nat
      /\ Len(pushed) \in Nat
      /\ Len(pushed) = Len(consumed) + Len(hand[k]) + Len(queue)
  BY <1>1 DEF OrderInv
<1>3. /\ Len(queue') = Len(queue) + 1 /\ Len(pushed') = Len(pushed) + 1
      /\ \A i \in 1..Len(pushed) : pushed'[i] = pushed[i]
      /\ pushed'[Len(pushed) + 1] = item
      /\ \A i \in 1..Len(queue) : queue'[i] = queue[i]
      /\ queue'[Len(queue) + 1] = item
  BY <1>1
<1>4. hand' = hand /\ consumed' = consumed /\ cpc' = cpc
  OBVIOUS
<1>5. Len(pushed') = Len(consumed') + Len(hand'[k]) + Len(queue')
  <2>1. Len(pushed) + 1 = Len(consumed) + Len(hand[k]) + (Len(queue) + 1)
    <3> DEFINE n == Len(consumed)  m == Len(hand[k])  l == Len(queue)  p == Len(pushed)
    <3>1. n \in Nat /\ m \in Nat /\ l \in Nat /\ p = n + m + l
      BY <1>2
    <3> HIDE DEF n, m, l, p
    <3>2. p + 1 = n + m + (l + 1)
      BY <3>1
    <3> QED BY <3>2 DEF n, m, l, p
  <2> QED BY <2>1, <1>3, <1>4
<1>6. \A i \in 1..Len(consumed') : consumed'[i].item = pushed'[i]
  BY <1>2, <1>3 DEF OrderInv
<1>7. \A i \in 1..Len(hand'[k]) : hand'[k][i] = pushed'[Len(consumed') + i]
  BY <1>2, <1>3 DEF OrderInv
<1>8. \A i \in 1..Len(queue') : queue'[i] = pushed'[Len(consumed') + Len(hand'[k]) + i]
  <2> SUFFICES ASSUME NEW i \in 1..Len(queue')
               PROVE  queue'[i] = pushed'[Len(consumed') + Len(hand'[k]) + i]
    OBVIOUS
  <2>1. CASE i = Len(queue) + 1
    <3>1. Len(consumed) + Len(hand[k]) + i = Len(pushed) + 1
      <4>1. Len(consumed') + Len(hand'[k]) + Len(queue') = Len(pushed) + 1
        BY <1>3, <1>5
      <4> QED BY <1>3, <1>4, <2>1, <4>1
    <3> QED BY <1>3, <1>4, <2>1, <3>1
  <2>2. CASE i \in 1..Len(queue)
    <3>1. Len(consumed) + Len(hand[k]) + i \in 1..Len(pushed)
      BY <1>2, <2>2
    <3> QED BY <1>3, <1>4, <2>2, <3>1 DEF OrderInv
  <2> QED BY <1>2, <1>3, <2>1, <2>2
<1> QED BY <1>4, <1>5, <1>6, <1>7, <1>8 DEF OrderInv

\* A send that meets a waiting consumer: nothing was queued or held.
LEMMA OrderHandOver ==
    ASSUME TypeOK, NEW k \in Consumers, OrderInv(k), NEW c \in Callers, HandOver(c, k)
    PROVE  OrderInv(k)'
<1> DEFINE item == Head(toPush[c])
<1>1. /\ pushed \in Seq(Items) /\ hand[k] \in Seq(Items) /\ item \in Items
      /\ consumed \in Seq([item : Items, called : BOOLEAN, data : Data])
  BY DEF TypeOK, HandOver
<1>2. /\ queue = <<>> /\ queue' = <<>> /\ cpc[k] = "select" /\ cpc'[k] = "received"
      /\ hand'[k] = <<item>> /\ consumed' = consumed /\ pushed' = Append(pushed, item)
  BY DEF HandOver, Sent, chanVars, TypeOK
<1>3. Len(consumed) \in Nat /\ Len(pushed) = Len(consumed) /\ Len(hand[k]) = 0
  BY <1>1, <1>2 DEF OrderInv
<1> HIDE DEF item
<1>4. /\ Len(pushed') = Len(pushed) + 1
      /\ \A i \in 1..Len(pushed) : pushed'[i] = pushed[i]
      /\ pushed'[Len(pushed) + 1] = item
  BY <1>1, <1>2
<1>5. Len(hand'[k]) = 1 /\ hand'[k][1] = item /\ Len(queue') = 0
  BY <1>2
<1>6. \A i \in 1..Len(consumed') : consumed'[i].item = pushed'[i]
  BY <1>2, <1>3, <1>4 DEF OrderInv
<1> QED BY <1>2, <1>3, <1>4, <1>5, <1>6 DEF OrderInv

\* The head of the queue becomes what the consumer holds.
LEMMA OrderReceive ==
    ASSUME TypeOK, NEW k \in Consumers, OrderInv(k), ConsumerReceive(k)
    PROVE  OrderInv(k)'
<1>1. /\ queue \in Seq(Items) /\ hand[k] \in Seq(Items) /\ queue # <<>>
      /\ consumed \in Seq([item : Items, called : BOOLEAN, data : Data])
  BY DEF TypeOK, ConsumerReceive
<1>2. /\ queue' = Tail(queue) /\ cpc[k] = "select" /\ cpc'[k] = "received"
      /\ hand'[k] = <<Head(queue)>> /\ consumed' = consumed /\ pushed' = pushed
  BY DEF ConsumerReceive, histVars, TypeOK
<1>3. Len(consumed) \in Nat /\ Len(queue) \in Nat /\ Len(hand[k]) = 0
      /\ Len(pushed) = Len(consumed) + Len(queue)
  BY <1>1, <1>2 DEF OrderInv
<1>4. /\ Len(queue') = Len(queue) - 1 /\ Len(queue) >= 1
      /\ \A i \in 1..Len(queue') : queue'[i] = queue[i + 1]
      /\ Head(queue) = queue[1]
  BY <1>1, <1>2
<1>5. Len(hand'[k]) = 1 /\ hand'[k][1] = queue[1]
  BY <1>2, <1>4
<1>6. \A i \in 1..Len(queue) : queue[i] = pushed[Len(consumed) + i]
  BY <1>3 DEF OrderInv
<1>7. \A i \in 1..Len(queue') : queue'[i] = pushed'[Len(consumed') + Len(hand'[k]) + i]
  <2> SUFFICES ASSUME NEW i \in 1..Len(queue')
               PROVE  queue'[i] = pushed'[Len(consumed') + Len(hand'[k]) + i]
    OBVIOUS
  <2>1. i \in Nat /\ i + 1 \in 1..Len(queue) /\ queue'[i] = queue[i + 1]
    BY <1>3, <1>4
  <2>2. queue[i + 1] = pushed[Len(consumed) + (i + 1)]
    BY <1>6, <2>1
  <2>3. Len(consumed) + (i + 1) = Len(consumed) + Len(hand'[k]) + i
    BY <1>3, <1>5, <2>1
  <2> QED BY <1>2, <2>1, <2>2, <2>3
<1>8. \A i \in 1..Len(hand'[k]) : hand'[k][i] = pushed'[Len(consumed') + i]
  <2>1. queue[1] = pushed[Len(consumed) + 1]
    BY <1>3, <1>4, <1>6
  <2> QED BY <1>2, <1>5, <2>1
<1>9. Len(pushed') = Len(consumed') + Len(hand'[k]) + Len(queue')
  <2>1. Len(pushed) = Len(consumed) + 1 + (Len(queue) - 1)
    BY <1>3
  <2> QED BY <1>2, <1>4, <1>5, <2>1
<1>10. \A i \in 1..Len(consumed') : consumed'[i].item = pushed'[i]
  BY <1>2 DEF OrderInv
<1> QED BY <1>2, <1>5, <1>7, <1>8, <1>9, <1>10 DEF OrderInv

\* The callback finishes the item the consumer holds, the next one of pushed.
LEMMA OrderCallback ==
    ASSUME TypeOK, NEW k \in Consumers, OrderInv(k), ConsumerCallback(k)
    PROVE  /\ OrderInv(k)'
           /\ Len(consumed) < Len(pushed)
           /\ \E done \in [item : Items, called : BOOLEAN, data : Data] :
                consumed' = Append(consumed, done) /\ done.item = pushed[Len(consumed) + 1]
<1> DEFINE done == [item |-> hand[k][1], called |-> onRead, data |-> Seen(hand[k][1])]
<1>1. /\ queue \in Seq(Items) /\ hand[k] \in Seq(Items) /\ pushed \in Seq(Items)
      /\ consumed \in Seq([item : Items, called : BOOLEAN, data : Data])
  BY DEF TypeOK
<1>2. /\ cpc[k] = "callback" /\ cpc'[k] = "select" /\ queue' = queue /\ pushed' = pushed
      /\ hand'[k] = <<>> /\ consumed' = Append(consumed, done)
  BY DEF ConsumerCallback, AfterCallback, chanVars, TypeOK
<1>3. /\ Len(consumed) \in Nat /\ Len(queue) \in Nat /\ Len(hand[k]) = 1
      /\ Len(pushed) = Len(consumed) + 1 + Len(queue)
      /\ done.item = pushed[Len(consumed) + 1]
  BY <1>1, <1>2 DEF OrderInv
<1>9. done \in [item : Items, called : BOOLEAN, data : Data]
  <2>1. hand[k][1] \in Items /\ onRead \in BOOLEAN
    BY <1>1, <1>3 DEF TypeOK
  <2>2. Seen(hand[k][1]) \in Data
    BY <2>1 DEF Seen, Items, Data, TypeOK
  <2> QED BY <2>1, <2>2
<1> HIDE DEF done
<1>4. /\ Len(consumed') = Len(consumed) + 1
      /\ \A i \in 1..Len(consumed) : consumed'[i] = consumed[i]
      /\ consumed'[Len(consumed) + 1] = done
  BY <1>1, <1>2
<1>5. Len(hand'[k]) = 0
  BY <1>2
<1>6. \A i \in 1..Len(consumed') : consumed'[i].item = pushed'[i]
  BY <1>2, <1>3, <1>4 DEF OrderInv
<1>7. \A i \in 1..Len(queue') : queue'[i] = pushed'[Len(consumed') + Len(hand'[k]) + i]
  BY <1>2, <1>3, <1>4, <1>5 DEF OrderInv
<1>8. OrderInv(k)'
  BY <1>2, <1>3, <1>4, <1>5, <1>6, <1>7 DEF OrderInv
<1> QED BY <1>2, <1>3, <1>8, <1>9

\* Appending a record and then taking items is taking items and then appending.
LEMMA ItemsAppend ==
    ASSUME NEW S, NEW T, NEW s \in Seq(S), NEW e \in S,
           \A x \in S : x.item \in T
    PROVE  [i \in 1..Len(Append(s, e)) |-> Append(s, e)[i].item]
             = Append([i \in 1..Len(s) |-> s[i].item], e.item)
<1> DEFINE a == Append(s, e)
           f == [i \in 1..Len(s) |-> s[i].item]
           g == [i \in 1..Len(a) |-> a[i].item]
<1>1. /\ Len(s) \in Nat /\ a \in Seq(S) /\ Len(a) = Len(s) + 1 /\ a[Len(s) + 1] = e
      /\ \A i \in 1..Len(s) : a[i] = s[i]
  OBVIOUS
<1>2. \A i \in 1..Len(s) : s[i].item \in T
  OBVIOUS
<1> HIDE DEF a
<1>3. f \in Seq(T) /\ Len(f) = Len(s)
  BY <1>1, <1>2
<1>4. \A i \in 1..Len(a) : a[i].item \in T
  BY <1>1
<1>5. g \in Seq(T) /\ Len(g) = Len(a)
  BY <1>1, <1>4
<1>6. /\ Append(f, e.item) \in Seq(T) /\ Len(Append(f, e.item)) = Len(s) + 1
      /\ \A i \in 1..Len(s) : Append(f, e.item)[i] = f[i]
      /\ Append(f, e.item)[Len(s) + 1] = e.item
  <2> HIDE DEF f
  <2> QED BY <1>3, AppendProperties
<1>7. \A i \in 1..Len(a) : g[i] = Append(f, e.item)[i]
  BY <1>1, <1>6
<1>8. g = Append(f, e.item)
  <2> HIDE DEF f, g
  <2> QED BY <1>1, <1>5, <1>6, <1>7, SeqEqual
<1> QED BY <1>8 DEF a

\* A step that neither sends nor delivers nor marks the manager closed is a
\* stutter of the delivery queue.
LEMMA DeliveryStutter ==
    pushed' = pushed /\ consumed' = consumed /\ closed' = closed
        => UNCHANGED Delivery!vars
  BY DEF Delivery!vars

\* With one consumer the manager implements DeliveryQueue: groups reach the
\* callback in the order ReadGroupedData queued them, each at most once, and
\* none is queued after Stop.
THEOREM ManagerDelivers ==
    ASSUME NEW k, Consumers = {k} PROVE Spec => DeliversInOrder
<1> k \in Consumers
  OBVIOUS
<1>1. Init => OrderInv(k) /\ Delivery!Init
  BY DEF Init, OrderInv, Delivery!Init
<1>2. Inv /\ OrderInv(k) /\ [Next]_vars => OrderInv(k)' /\ [Delivery!Next]_(Delivery!vars)
  <2> SUFFICES ASSUME Inv, OrderInv(k), [Next]_vars
               PROVE  OrderInv(k)' /\ [Delivery!Next]_(Delivery!vars)
    OBVIOUS
  <2> USE DEF chanVars, dataVars, callVars, histVars
  <2>1. TypeOK /\ CloseInv
    BY DEF Inv
  <2>2. ASSUME NEW c \in Callers, PushGroup(c)
        PROVE  OrderInv(k)' /\ [Delivery!Next]_(Delivery!vars)
    <3>1. ~closed /\ ~exitClosed /\ ~queueClosed
      BY <2>1, <2>2 DEF CloseInv, PushGroup
    <3>2. Head(toPush[c]) \in Items
      BY <2>1, <2>2 DEF PushGroup, TypeOK
    <3>3. /\ queue' = Append(queue, Head(toPush[c])) /\ pushed' = Append(pushed, Head(toPush[c]))
          /\ UNCHANGED <<hand, cpc, consumed, closed>>
      BY <2>2, <3>1 DEF PushGroup, Enqueued, Sent
    <3>4. Delivery!Send
      BY <3>1, <3>2, <3>3 DEF Delivery!Send
    <3> QED BY <2>1, <3>2, <3>3, <3>4, OrderSend DEF Delivery!Next
  <2>3. ASSUME NEW c \in Callers, HandOver(c, k)
        PROVE  OrderInv(k)' /\ [Delivery!Next]_(Delivery!vars)
    <3>1. ~closed
      BY <2>1, <2>3 DEF CloseInv, HandOver
    <3>2. Head(toPush[c]) \in Items
      BY <2>1, <2>3 DEF HandOver, TypeOK
    <3>3. pushed' = Append(pushed, Head(toPush[c])) /\ UNCHANGED <<consumed, closed>>
      BY <2>3 DEF HandOver, Sent
    <3>4. Delivery!Send
      BY <3>1, <3>2, <3>3 DEF Delivery!Send
    <3> QED BY <2>1, <2>3, <3>4, OrderHandOver DEF Delivery!Next
  <2>4. ASSUME NEW c \in Callers, StopMark(c)
        PROVE  OrderInv(k)' /\ [Delivery!Next]_(Delivery!vars)
    <3>1. closed' = TRUE /\ UNCHANGED <<pushed, consumed>> /\ UNCHANGED orderRefs
      BY <2>4 DEF StopMark, orderRefs
    <3>2. Delivery!Close
      BY <3>1 DEF Delivery!Close
    <3> QED BY <3>1, <3>2, OrderStutter DEF Delivery!Next
  <2>5. CASE ConsumerReceive(k)
    <3>1. UNCHANGED Delivery!vars
      BY <2>5, DeliveryStutter DEF ConsumerReceive
    <3> QED BY <2>1, <2>5, <3>1, OrderReceive
  <2>6. CASE ConsumerCallback(k)
    <3>1. /\ consumed \in Seq([item : Items, called : BOOLEAN, data : Data])
          /\ Len([i \in 1..Len(consumed) |-> consumed[i].item]) = Len(consumed)
      BY <2>1 DEF TypeOK
    <3>2. PICK done \in [item : Items, called : BOOLEAN, data : Data] :
            /\ OrderInv(k)' /\ Len(consumed) < Len(pushed)
            /\ consumed' = Append(consumed, done) /\ done.item = pushed[Len(consumed) + 1]
      BY <2>1, <2>6, OrderCallback
    <3>3. [i \in 1..Len(consumed') |-> consumed'[i].item]
            = Append([i \in 1..Len(consumed) |-> consumed[i].item], done.item)
      <4>1. \A x \in [item : Items, called : BOOLEAN, data : Data] : x.item \in Items
        OBVIOUS
      <4> QED BY <3>1, <3>2, <4>1, ItemsAppend
    <3>4. UNCHANGED <<pushed, closed>>
      BY <2>6 DEF ConsumerCallback
    <3>5. Delivery!Deliver
      BY <3>1, <3>2, <3>3, <3>4 DEF Delivery!Deliver
    <3> QED BY <3>2, <3>5 DEF Delivery!Next
  <2>7. ASSUME NEW c \in Callers, CallerNext(c),
               ~(PushGroup(c) \/ HandOver(c, k) \/ StopMark(c))
        PROVE  OrderInv(k)' /\ [Delivery!Next]_(Delivery!vars)
    <3>1. CASE Start(c, k)
      <4>1. /\ cpc[k] = "off" /\ cpc'[k] = "select"
            /\ UNCHANGED <<hand, pushed, consumed, queue, closed>>
        BY <3>1, <2>1 DEF Start, TypeOK
      <4> QED BY <4>1, DeliveryStutter DEF OrderInv
    <3>2. CASE ~Start(c, k)
      <4>1. UNCHANGED orderRefs /\ UNCHANGED <<pushed, consumed, closed>>
        BY <2>7, <3>2 DEF orderRefs, CallerNext, Call, SetOnReadCallback, SetOnErrorCallback,
           LoadRegisters, LoadDuplicateTag, StopAgain, StopCloseExit, StopCloseQueue,
           ReadRefused, ReadGroups, ReadReturn
      <4> QED BY <4>1, OrderStutter, DeliveryStutter
    <3> QED BY <3>1, <3>2
  <2>8. CASE ConsumerReturn(k) \/ ConsumerLock(k)
    <3>1. /\ cpc[k] \in {"received", "callback"} <=> cpc'[k] \in {"received", "callback"}
          /\ UNCHANGED <<hand, pushed, consumed, queue, closed>>
      BY <2>8, <2>1 DEF ConsumerReturn, ConsumerLock, TypeOK
    <3> QED BY <3>1, DeliveryStutter DEF OrderInv
  <2>9. CASE UNCHANGED vars
    <3>1. UNCHANGED orderRefs /\ UNCHANGED <<pushed, consumed, closed>>
      BY <2>9 DEF vars, orderRefs
    <3> QED BY <3>1, OrderStutter, DeliveryStutter
  <2> QED BY <2>2, <2>3, <2>4, <2>5, <2>6, <2>7, <2>8, <2>9
          DEF Next, ConsumerNext, Crashed
<1> QED BY <1>1, <1>2, Invariance, PTL DEF Spec, DeliversInOrder, Delivery!Spec

=============================================================================
