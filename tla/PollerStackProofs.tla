--------------------------- MODULE PollerStackProofs ---------------------------
(***************************************************************************)
(* Safety of the poller stack for any set of managers and any bounds.      *)
(*                                                                         *)
(* dp.wg counts the loops that run, so none does when Stop goes on         *)
(* (WaitInv).  A scheduler's mutex keeps its groups in place while they    *)
(* are read, so that a finished read has written every register of every  *)
(* group it pushes (ReadInv, FreshInv).  What a stream was given is what   *)
(* its callback got, then what it holds, then what is in the channel       *)
(* (OrderInv).                                                             *)
(***************************************************************************)
EXTENDS PollerStack, FiniteSetTheorems, SequenceTheorems, TLAPS

Live == {l \in Loops : lpc[l] \notin {"off", "returned"}}
WaitInv ==
    /\ \A l \in Loops : lpc[l] # "off" => l <= starts
    /\ wg = Cardinality(Live)
    /\ opc \in {"stopping", "stopped"} => wg = 0

\* A reader at work has a manager; the managers of a round are distinct.
AtWork == {"reading", "pushing"}
Distinct(s) == \A i, j \in 1..Len(s) : s[i] = s[j] => i = j
RoundInv ==
    /\ Distinct(managers)
    /\ \A l \in Readers :
         /\ Distinct(todo[l])
         /\ lpc[l] \in AtWork => todo[l] # <<>>
         /\ lpc[l] \notin AtWork \cup {"next"} => todo[l] = <<>>

\* Every read of a manager was paid for by a tick (or a direct read): those
\* made, those of rounds begun and those of ticks that wait.
Ticking == {l \in Loops : tick[l]}
ToCome(l, m) ==
    \E i \in 1..Len(todo[l]) : todo[l][i] = m /\ (lpc[l] \in AtWork => i # 1)
Due(m) == {l \in Readers : ToCome(l, m)}
CountInv ==
    \A m \in Managers : polls[m] + Cardinality(Due(m)) + Cardinality(Ticking) <= ticks

LockInv ==
    \A m \in Managers, l \in Readers :
        mu[m] = l <=> lpc[l] = "reading" /\ Head(todo[l]) = m

\* A register of a loaded group that the read reaches and has passed holds its data.
ReadInv ==
    /\ \A m \in Managers : \A i \in 1..Len(groups[m]) : groups[m][i][1] = m
    /\ \A g \in Groups, r \in Regs : mem[g][r] <= polls[g[1]]
    /\ \A l \in Readers : lpc[l] = "reading" =>
         /\ \A cell \in fresh[l] : cell[1][1] = Head(todo[l])
         /\ \A i \in 1..Len(groups[Head(todo[l])]), r \in Regs :
              \/ r > reach[l][groups[Head(todo[l])][i]]
              \/ <<groups[Head(todo[l])][i], r>> \in fresh[l]
              \/ mem[groups[Head(todo[l])][i]][r] = polls[Head(todo[l])]
    /\ \A l \in Readers : lpc[l] \in AtWork => polls[Head(todo[l])] >= 1

\* A consumer that was started, by a Start that was made, holds what its
\* callback is called with.
HandInv ==
    /\ \A k \in Consumers : cpc[k] = "callback" => Len(hand[k]) = 1
    /\ \A k \in Consumers : cpc[k] # "off" => k[2] <= starts

Fresh(item) == \A r \in 1..item.reach : mem[item.group][r] >= item.poll
FreshInv ==
    /\ \A l \in Readers : \A i \in 1..Len(toPush[l]) : Fresh(toPush[l][i])
    /\ \A m \in Managers : \A i \in 1..Len(dataCh[m]) : Fresh(dataCh[m][i])
    /\ \A k \in Consumers : \A i \in 1..Len(hand[k]) : Fresh(hand[k][i])

\* sent is what is done, then what is held, then what is queued.
InOrder(sent, done, held, queued) ==
    /\ Len(sent) = Len(done) + Len(held) + Len(queued)
    /\ \A i \in 1..Len(done) : done[i].item = sent[i]
    /\ \A i \in 1..Len(held) : held[i] = sent[Len(done) + i]
    /\ \A i \in 1..Len(queued) : queued[i] = sent[Len(done) + Len(held) + i]

Ordered(m) ==
    /\ (\A k \in Consumers : k[1] = m => cpc[k] # "callback")
         => InOrder(pushed[m], got[m], <<>>, dataCh[m])
    /\ \A k \in Consumers : k[1] = m /\ cpc[k] = "callback"
         => InOrder(pushed[m], got[m], hand[k], dataCh[m])
OrderInv == \A m \in Managers : OnceStarted(m) => Ordered(m)

Inv == TypeOK /\ WaitInv /\ RoundInv /\ CountInv /\ LockInv /\ ReadInv /\ HandInv
         /\ NeverOlderThanPushed /\ FreshInv /\ OrderInv

-----------------------------------------------------------------------------
(***************************************************************************)
(* Sets of goroutines.                                                     *)
(***************************************************************************)
LEMMA ReaderSets ==
    ASSUME NEW R, R \subseteq Readers
    PROVE  IsFiniteSet(R) /\ Cardinality(R) \in Nat
<1>1. MaxStarts \in Nat /\ Readers = 0..MaxStarts
  BY PollerAssumption DEF Readers, Loops, User
<1>2. IsFiniteSet(0..MaxStarts)
  BY <1>1, FS_Interval
<1> QED BY <1>1, <1>2, FS_Subset, FS_CardinalityType

\* The loops started so far are no more than the starts.
LEMMA StartedSets ==
    ASSUME NEW R, NEW n \in 0..MaxStarts, R \subseteq 1..n
    PROVE  Cardinality(R) <= n
<1>1. n \in Nat
  BY PollerAssumption
<1>2. IsFiniteSet(1..n) /\ Cardinality(1..n) = n
  BY <1>1, FS_Interval
<1> QED BY <1>2, FS_Subset

LEMMA LiveCount ==
    ASSUME TypeOK, WaitInv
    PROVE  /\ wg \in 0..starts
           /\ wg = 0 <=> Live = {}
<1>1. Live \subseteq 1..starts /\ Live \subseteq Readers /\ starts \in 0..MaxStarts
  BY PollerAssumption DEF Live, WaitInv, Loops, Readers, TypeOK
<1>2. IsFiniteSet(Live) /\ Cardinality(Live) \in Nat /\ Cardinality(Live) <= starts
  BY <1>1, ReaderSets, StartedSets
<1>3. starts \in Nat /\ wg = Cardinality(Live)
  BY <1>1, PollerAssumption DEF WaitInv
<1>4. Cardinality(Live) = 0 <=> Live = {}
  BY <1>2, FS_EmptySet
<1> QED BY <1>2, <1>3, <1>4

\* A reader about to read a manager has the tick to pay for it.
LEMMA PollsBelowTicks ==
    ASSUME TypeOK, CountInv, NEW l \in Readers, NEW m \in Managers, ToCome(l, m)
    PROVE  polls[m] + 1 \in 1..MaxPolls
<1>1. Due(m) \subseteq Readers /\ l \in Due(m) /\ Ticking \subseteq Readers
  BY DEF Due, Ticking, Readers
<1>2. IsFiniteSet(Due(m)) /\ Cardinality(Due(m)) \in Nat /\ Cardinality(Ticking) \in Nat
  BY <1>1, ReaderSets
<1>3. Cardinality(Due(m)) # 0
  BY <1>1, <1>2, FS_EmptySet
<1>4. polls[m] \in Nat /\ ticks \in 0..MaxPolls /\ MaxPolls \in Nat
  BY PollerAssumption DEF TypeOK
<1> QED BY <1>2, <1>3, <1>4 DEF CountInv

-----------------------------------------------------------------------------
(***************************************************************************)
(* Types.                                                                  *)
(***************************************************************************)
\* What a scheduler has loaded are groups.
LEMMA LoadedAreGroups ==
    ASSUME TypeOK, NEW m \in Managers
    PROVE  LoadedGroups(m) \subseteq Groups
<1>1. groups[m] \in Seq(Groups)
  BY DEF TypeOK
<1>2. \A i \in 1..Len(groups[m]) : groups[m][i] \in Groups
  BY <1>1
<1> QED BY <1>2 DEF LoadedGroups

LEMMA InitType == Init => TypeOK
<1> SUFFICES ASSUME Init PROVE TypeOK
  OBVIOUS
<1> USE PollerAssumption
<1>1. <<>> \in Seq(Managers) /\ <<>> \in Seq(Items) /\ <<>> \in Seq(Groups) /\ Len(<<>>) = 0
        /\ <<>> \in Seq([item : Items, data : Data])
        /\ 0 \in 0..MaxStarts /\ 0 \in 0..MaxPolls /\ 0 \in 0..GroupSize
  OBVIOUS
<1>2. /\ managers \in Seq(Managers) /\ starts \in 0..MaxStarts /\ stopCh \in BOOLEAN
      /\ wg \in 0..MaxStarts /\ opc \in {"idle", "waiting", "stopping", "stopped"}
      /\ toStop \in Seq(Managers) /\ ticks \in 0..MaxPolls
  BY <1>1 DEF Init
<1>3. /\ tick \in [Loops -> BOOLEAN] /\ todo \in [Readers -> Seq(Managers)]
      /\ lpc \in [Readers -> {"off", "select", "next", "reading", "pushing", "done", "returned"}]
      /\ toPush \in [Readers -> Seq(Items)] /\ fresh \in [Readers -> SUBSET (Groups \X Regs)]
      /\ reach \in [Readers -> [Groups -> 0..GroupSize]]
  BY <1>1 DEF Init
<1>4. /\ mu \in [Managers -> Readers \cup {NoOne}] /\ groups \in [Managers -> Seq(Groups)]
      /\ loads \in [Managers -> 0..MaxLoads] /\ polls \in [Managers -> 0..MaxPolls]
  <2>1. 0 \in 0..MaxLoads /\ 0 \in 0..MaxPolls
    OBVIOUS
  <2> QED BY <1>1, <2>1 DEF Init
<1>6. mem \in [Groups -> [Regs -> 0..MaxPolls]]
  <2>1. [r \in Regs |-> 0] \in [Regs -> 0..MaxPolls]
    OBVIOUS
  <2> QED BY <2>1 DEF Init
<1>5. /\ streamStopped \in [Managers -> BOOLEAN] /\ dataCh \in [Managers -> Seq(Items)]
      /\ \A m \in Managers : Len(dataCh[m]) <= BufferSize
      /\ cpc \in [Consumers -> {"off", "select", "callback", "returned"}]
      /\ hand \in [Consumers -> Seq(Items)] /\ pushed \in [Managers -> Seq(Items)]
      /\ got \in [Managers -> Seq([item : Items, data : Data])]
  BY <1>1 DEF Init
<1> QED BY <1>2, <1>3, <1>4, <1>5, <1>6 DEF TypeOK

LEMMA NextType ==
    TypeOK /\ WaitInv /\ RoundInv /\ CountInv /\ ReadInv /\ HandInv /\ [Next]_vars => TypeOK'
<1> SUFFICES ASSUME TypeOK, WaitInv, RoundInv, CountInv, ReadInv, HandInv, [Next]_vars
             PROVE  TypeOK'
  OBVIOUS
<1> USE PollerAssumption
        DEF Goto, pollerVars, loopVars, schedVars, streamVars
<1>1. ASSUME NEW m \in Managers, AddManager(m) PROVE TypeOK'
  <2>1. Append(managers, m) \in Seq(Managers)
    BY DEF TypeOK
  <2> QED BY <1>1, <2>1 DEF TypeOK, AddManager
<1>2. CASE Start
  <2>1. starts' \in Loops /\ starts' \in Readers /\ starts' \in 0..MaxStarts
    BY <1>2 DEF TypeOK, Start, Loops, Readers
  <2>2. wg' \in 0..MaxStarts
    <3>1. wg \in 0..starts /\ starts \in 0..MaxStarts /\ starts < MaxStarts /\ wg' = wg + 1
      BY <1>2, LiveCount DEF TypeOK, Start
    <3> QED BY <3>1
  <2>3. cpc' \in [Consumers -> {"off", "select", "callback", "returned"}]
    BY <1>2 DEF TypeOK, Start
  <2>4. lpc' \in [Readers -> {"off", "select", "next", "reading", "pushing", "done", "returned"}]
    BY <1>2, <2>1 DEF TypeOK, Start
  <2> QED BY <1>2, <2>1, <2>2, <2>3, <2>4 DEF TypeOK, Start
<1>3. CASE StopBegin \/ StopWaited \/ StopReturn
  BY <1>3 DEF TypeOK, StopBegin, StopWaited, StopReturn
<1>4. CASE StopManager
  <2>1. Head(toStop) \in Managers /\ Tail(toStop) \in Seq(Managers)
    BY <1>4 DEF TypeOK, StopManager
  <2> QED BY <1>4, <2>1 DEF TypeOK, StopManager
<1>5. ASSUME NEW m \in Managers, UserStart(m) \/ UserStop(m) PROVE TypeOK'
  BY <1>5 DEF TypeOK, UserStart, UserStop
<1>6. ASSUME NEW m \in Managers, UserRead(m) PROVE TypeOK'
  <2>1. User \in Readers /\ <<m>> \in Seq(Managers)
    BY DEF Readers
  <2>2. ticks' \in 0..MaxPolls
    BY <1>6 DEF UserRead, TypeOK
  <2>3. todo' \in [Readers -> Seq(Managers)]
    BY <1>6, <2>1 DEF UserRead, TypeOK
  <2>4. lpc' \in [Readers -> {"off", "select", "next", "reading", "pushing", "done", "returned"}]
    BY <1>6, <2>1 DEF UserRead, TypeOK
  <2> QED BY <1>6, <2>2, <2>3, <2>4 DEF TypeOK, UserRead
<1>7. ASSUME NEW m \in Managers, Load(m) PROVE TypeOK'
  <2>1. loads'[m] \in 1..MaxLoads /\ loads' \in [Managers -> 0..MaxLoads]
    BY <1>7 DEF TypeOK, Load
  <2>6. PICK n \in 0..MaxGroups : \E supported \in [1..n -> BOOLEAN] :
          groups' = [groups EXCEPT ![m] = [i \in 1..n |-> <<m, loads'[m], i, supported[i]>>]]
    BY <1>7 DEF Load
  <2>2. PICK supported \in [1..n -> BOOLEAN] :
          groups' = [groups EXCEPT ![m] = [i \in 1..n |-> <<m, loads'[m], i, supported[i]>>]]
    BY <2>6
  <2>3. \A i \in 1..n : <<m, loads'[m], i, supported[i]>> \in Groups
    BY <2>1 DEF Groups
  <2>4. [i \in 1..n |-> <<m, loads'[m], i, supported[i]>>] \in Seq(Groups)
    BY <2>3
  <2>5. groups' \in [Managers -> Seq(Groups)]
    BY <2>2, <2>4 DEF TypeOK
  <2> QED BY <1>7, <2>1, <2>5 DEF TypeOK, Load
<1>8. ASSUME NEW l \in Loops, Tick(l) \/ LoopSeesStop(l) \/ LoopSeesTick(l) PROVE TypeOK'
  <2>1. l \in Readers
    BY DEF Readers
  <2>2. CASE Tick(l)
    <3>1. ticks' \in 0..MaxPolls /\ tick' \in [Loops -> BOOLEAN]
      BY <2>2 DEF Tick, TypeOK
    <3> QED BY <2>2, <3>1 DEF TypeOK, Tick
  <2>3. CASE LoopSeesStop(l)
    BY <2>1, <2>3 DEF TypeOK, LoopSeesStop
  <2>4. CASE LoopSeesTick(l)
    <3>1. tick' \in [Loops -> BOOLEAN] /\ todo' \in [Readers -> Seq(Managers)]
      BY <2>1, <2>4 DEF LoopSeesTick, TypeOK
    <3> QED BY <2>1, <2>4, <3>1 DEF TypeOK, LoopSeesTick
  <2> QED BY <1>8, <2>2, <2>3, <2>4
<1>9. ASSUME NEW l \in Loops, LoopReturn(l) PROVE TypeOK'
  <2>1. l \in Live /\ l \in Readers
    BY <1>9 DEF Live, LoopReturn, Readers
  <2>2. wg' \in 0..MaxStarts
    <3>1. wg \in 0..starts /\ wg # 0 /\ starts \in 0..MaxStarts
      BY <2>1, LiveCount DEF TypeOK
    <3> QED BY <1>9, <3>1 DEF LoopReturn, Counted
  <2> QED BY <1>9, <2>1, <2>2 DEF TypeOK, LoopReturn
<1>10. ASSUME NEW l \in Readers, RoundOver(l) PROVE TypeOK'
  BY <1>10 DEF TypeOK, RoundOver
<1>11. ASSUME NEW l \in Readers, ReadBegin(l) PROVE TypeOK'
  <2> DEFINE m == Head(todo[l])
  <2>1. todo[l] \in Seq(Managers) /\ todo[l] # <<>> /\ m = todo[l][1] /\ m \in Managers
    BY <1>11 DEF ReadBegin, TypeOK
  <2>2. 1 \in 1..Len(todo[l]) /\ lpc[l] = "next"
    BY <1>11, <2>1 DEF ReadBegin
  <2>3. polls[m] + 1 \in 0..MaxPolls
    <3>1. ToCome(l, m)
      BY <2>1, <2>2 DEF ToCome, AtWork
    <3> QED BY <2>1, <3>1, PollsBelowTicks
  <2>4. LoadedGroups(m) \subseteq Groups
    BY <2>1, LoadedAreGroups
  <2> HIDE DEF m
  <2>5. /\ polls' = [polls EXCEPT ![m] = polls[m] + 1] /\ mu' = [mu EXCEPT ![m] = l]
        /\ \E n \in Reaches(m) :
             /\ reach' = [reach EXCEPT ![l] = [g \in Groups |-> IF g \in LoadedGroups(m) THEN n[g] ELSE 0]]
             /\ fresh' = [fresh EXCEPT ![l] = {cell \in LoadedGroups(m) \X Regs : cell[2] <= n[cell[1]]}]
    BY <1>11 DEF ReadBegin, m
  <2>6. polls' \in [Managers -> 0..MaxPolls] /\ mu' \in [Managers -> Readers \cup {NoOne}]
    BY <2>1, <2>3, <2>5 DEF TypeOK
  <2>7. fresh' \in [Readers -> SUBSET (Groups \X Regs)]
    BY <2>4, <2>5 DEF TypeOK
  <2>8. reach' \in [Readers -> [Groups -> 0..GroupSize]]
    BY <2>5 DEF TypeOK, Reaches
  <2> QED BY <1>11, <2>6, <2>7, <2>8 DEF TypeOK, ReadBegin
<1>12. ASSUME NEW l \in Readers, WriteRegister(l) PROVE TypeOK'
  <2>1. PICK cell \in fresh[l] :
          /\ mem' = [mem EXCEPT ![cell[1]][cell[2]] = polls[Head(todo[l])]]
          /\ fresh' = [fresh EXCEPT ![l] = @ \ {cell}]
    BY <1>12 DEF WriteRegister
  <2>2. cell[1] \in Groups /\ cell[2] \in Regs
    BY DEF TypeOK
  <2>3. Head(todo[l]) \in Managers
    BY <1>12 DEF WriteRegister, RoundInv, AtWork, TypeOK
  <2>4. polls[Head(todo[l])] \in 0..MaxPolls
    BY <2>3 DEF TypeOK
  <2>5. mem' \in [Groups -> [Regs -> 0..MaxPolls]]
    BY <2>1, <2>2, <2>4 DEF TypeOK
  <2>6. fresh' \in [Readers -> SUBSET (Groups \X Regs)]
    BY <2>1 DEF TypeOK
  <2> QED BY <1>12, <2>5, <2>6 DEF TypeOK, WriteRegister
<1>13. ASSUME NEW l \in Readers, ReadEnd(l) PROVE TypeOK'
  <2> DEFINE m == Head(todo[l])
             items == [i \in 1..Len(groups[m]) |-> [group |-> groups[m][i], poll |-> polls[m],
                                                    reach |-> reach[l][groups[m][i]]]]
  <2>1. m \in Managers /\ polls[m] >= 1
    BY <1>13 DEF ReadEnd, RoundInv, ReadInv, AtWork, TypeOK
  <2>2. polls[m] \in 1..MaxPolls /\ groups[m] \in Seq(Groups)
    BY <2>1 DEF TypeOK
  <2>3. items \in Seq(Items)
    <3>2. \A i \in 1..Len(groups[m]) : groups[m][i] \in Groups
      BY <2>2
    <3>3. \A g \in Groups : reach[l][g] \in 0..GroupSize
      BY DEF TypeOK
    <3>1. \A i \in 1..Len(groups[m]) :
            [group |-> groups[m][i], poll |-> polls[m], reach |-> reach[l][groups[m][i]]] \in Items
      <4> HIDE DEF m
      <4> QED BY <2>2, <3>2, <3>3 DEF Items
    <3> HIDE DEF m
    <3> QED BY <2>2, <3>1
  <2> HIDE DEF m, items
  <2>4. /\ toPush' = [toPush EXCEPT ![l] = items] /\ mu' = [mu EXCEPT ![m] = NoOne]
        /\ fresh' = [fresh EXCEPT ![l] = {}]
        /\ reach' = [reach EXCEPT ![l] = [g \in Groups |-> 0]]
    BY <1>13 DEF ReadEnd, m, items
  <2>5. toPush' \in [Readers -> Seq(Items)] /\ mu' \in [Managers -> Readers \cup {NoOne}]
    BY <2>1, <2>3, <2>4 DEF TypeOK
  <2>6. fresh' \in [Readers -> SUBSET (Groups \X Regs)]
        /\ reach' \in [Readers -> [Groups -> 0..GroupSize]]
    BY <2>4 DEF TypeOK
  <2> QED BY <1>13, <2>5, <2>6 DEF TypeOK, ReadEnd
<1>14. ASSUME NEW l \in Readers, Push(l) PROVE TypeOK'
  <2> DEFINE m == Head(todo[l])
  <2>1. /\ m \in Managers
        /\ Head(toPush[l]) \in Items /\ Tail(toPush[l]) \in Seq(Items)
    <3>1. todo[l] \in Seq(Managers) /\ todo[l] # <<>>
      BY <1>14 DEF Push, RoundInv, AtWork, TypeOK
    <3>2. toPush[l] \in Seq(Items) /\ toPush[l] # <<>>
      BY <1>14 DEF Push, TypeOK
    <3> QED BY <3>1, <3>2
  <2>2. /\ Append(dataCh[m], Head(toPush[l])) \in Seq(Items)
        /\ Append(pushed[m], Head(toPush[l])) \in Seq(Items)
        /\ Len(dataCh[m]) < BufferSize
        /\ Len(Append(dataCh[m], Head(toPush[l]))) = Len(dataCh[m]) + 1
    BY <1>14, <2>1 DEF Push, Room, TypeOK
  <2> HIDE DEF m
  <2>3. /\ dataCh' = [dataCh EXCEPT ![m] = Append(dataCh[m], Head(toPush[l]))]
        /\ pushed' = [pushed EXCEPT ![m] = Append(pushed[m], Head(toPush[l]))]
        /\ toPush' = [toPush EXCEPT ![l] = Tail(toPush[l])]
    BY <1>14 DEF Push, Enqueued, m
  <2>4. /\ dataCh' \in [Managers -> Seq(Items)] /\ pushed' \in [Managers -> Seq(Items)]
        /\ toPush' \in [Readers -> Seq(Items)]
    BY <2>1, <2>2, <2>3 DEF TypeOK
  <2>5. ASSUME NEW n \in Managers PROVE Len(dataCh'[n]) <= BufferSize
    <3>1. CASE n = m
      <4>1. Len(dataCh'[n]) = Len(dataCh[m]) + 1 /\ Len(dataCh[m]) \in Nat
        BY <2>1, <2>2, <2>3, <3>1 DEF TypeOK
      <4> QED BY <4>1, <2>2
    <3>2. CASE n # m
      BY <2>3, <3>2 DEF TypeOK
    <3> QED BY <3>1, <3>2
  <2> QED BY <1>14, <2>4, <2>5 DEF TypeOK, Push
<1>15. ASSUME NEW l \in Readers, PushDropped(l) PROVE TypeOK'
  <2>1. Tail(toPush[l]) \in Seq(Items)
    BY <1>15 DEF PushDropped, TypeOK
  <2>2. toPush' \in [Readers -> Seq(Items)]
    BY <1>15, <2>1 DEF PushDropped, TypeOK
  <2> QED BY <1>15, <2>2 DEF TypeOK, PushDropped
<1>16. ASSUME NEW l \in Readers, ManagerPolled(l) PROVE TypeOK'
  <2>1. Tail(todo[l]) \in Seq(Managers)
    BY <1>16 DEF ManagerPolled, RoundInv, AtWork, TypeOK
  <2>2. todo' \in [Readers -> Seq(Managers)]
    BY <1>16, <2>1 DEF ManagerPolled, TypeOK
  <2> QED BY <1>16, <2>2 DEF TypeOK, ManagerPolled
<1>17. ASSUME NEW k \in Consumers, ConsumerReturn(k) PROVE TypeOK'
  BY <1>17 DEF TypeOK, ConsumerReturn
<1>18. ASSUME NEW k \in Consumers, ConsumerReceive(k) PROVE TypeOK'
  <2>1. k[1] \in Managers
    BY DEF Consumers
  <2>2. /\ Head(dataCh[k[1]]) \in Items /\ Tail(dataCh[k[1]]) \in Seq(Items)
        /\ Len(Tail(dataCh[k[1]])) <= BufferSize
    BY <1>18, <2>1 DEF ConsumerReceive, TypeOK
  <2>3. <<Head(dataCh[k[1]])>> \in Seq(Items)
    BY <2>2
  <2>4. /\ dataCh' = [dataCh EXCEPT ![k[1]] = Tail(dataCh[k[1]])]
        /\ hand' = [hand EXCEPT ![k] = <<Head(dataCh[k[1]])>>]
    BY <1>18 DEF ConsumerReceive, Remaining
  <2>5. /\ dataCh' \in [Managers -> Seq(Items)] /\ \A m \in Managers : Len(dataCh'[m]) <= BufferSize
    BY <2>1, <2>2, <2>4 DEF TypeOK
  <2>6. hand' \in [Consumers -> Seq(Items)]
    BY <2>3, <2>4 DEF TypeOK
  <2> QED BY <1>18, <2>5, <2>6 DEF TypeOK, ConsumerReceive
<1>19. ASSUME NEW k \in Consumers, Callback(k) PROVE TypeOK'
  <2> DEFINE item == hand[k][1]
             entry == [item |-> item, data |-> Seen(item)]
  <2>1. k[1] \in Managers
    BY DEF Consumers
  <2>2. item \in Items
    BY <1>19 DEF Callback, HandInv, TypeOK
  <2>3. entry \in [item : Items, data : Data]
    BY <2>2 DEF Items, TypeOK, Data, Seen
  <2> HIDE DEF entry
  <2>4. Append(got[k[1]], entry) \in Seq([item : Items, data : Data])
    <3>1. got[k[1]] \in Seq([item : Items, data : Data])
      BY <2>1 DEF TypeOK
    <3> QED BY <2>3, <3>1
  <2>5. got' = [got EXCEPT ![k[1]] = Append(got[k[1]], entry)] /\ hand' = [hand EXCEPT ![k] = <<>>]
    BY <1>19 DEF Callback, entry
  <2>6. got' \in [Managers -> Seq([item : Items, data : Data])]
    BY <2>1, <2>4, <2>5 DEF TypeOK
  <2>7. hand' \in [Consumers -> Seq(Items)]
    BY <2>5 DEF TypeOK
  <2> QED BY <1>19, <2>6, <2>7 DEF TypeOK, Callback
<1>20. CASE UNCHANGED vars
  BY <1>20 DEF TypeOK, vars
<1> QED
  BY <1>1, <1>2, <1>3, <1>4, <1>5, <1>6, <1>7, <1>8, <1>9, <1>10, <1>11, <1>12, <1>13, <1>14,
     <1>15, <1>16, <1>17, <1>18, <1>19, <1>20
     DEF Next, OwnerNext, LoopNext, ReaderNext, ConsumerNext

-----------------------------------------------------------------------------
(***************************************************************************)
(* dp.wg: the loops that run are counted, and only the owner starts one.   *)
(***************************************************************************)
LEMMA NextWait == TypeOK /\ WaitInv /\ [Next]_vars => WaitInv'
<1> SUFFICES ASSUME TypeOK, WaitInv, [Next]_vars PROVE WaitInv'
  OBVIOUS
<1> USE PollerAssumption DEF pollerVars
<1>1. CASE Start
  <2>1. /\ starts \in 0..MaxStarts /\ starts < MaxStarts /\ starts' = starts + 1 /\ starts' \in Loops
        /\ lpc' = [lpc EXCEPT ![starts'] = "select"] /\ wg' = wg + 1 /\ opc' = opc /\ opc = "idle"
    BY <1>1 DEF Start, TypeOK, Loops
  <2>2. starts' \in Readers
    BY <2>1 DEF Readers
  <2>3. \A l \in Loops : lpc'[l] = IF l = starts' THEN "select" ELSE lpc[l]
    BY <2>1, <2>2 DEF TypeOK, Readers
  <2>4. \A l \in Loops : l \in Nat
    BY DEF Loops
  <2>5. lpc[starts'] = "off"
    BY <2>1, <2>4 DEF WaitInv
  <2>6. starts' \notin Live /\ Live' = Live \cup {starts'}
    BY <2>1, <2>3, <2>5 DEF Live
  <2>7. IsFiniteSet(Live) /\ wg = Cardinality(Live)
    BY ReaderSets DEF Live, Readers, WaitInv
  <2>8. wg' = Cardinality(Live')
    BY <2>1, <2>6, <2>7, FS_AddElement
  <2>9. \A l \in Loops : lpc'[l] # "off" => l <= starts'
    BY <2>1, <2>3, <2>4 DEF WaitInv
  <2> QED BY <2>1, <2>8, <2>9 DEF WaitInv
<1>2. ASSUME NEW l \in Loops, LoopReturn(l) PROVE WaitInv'
  <2>1. /\ lpc[l] = "done" /\ l \in Readers /\ lpc' = [lpc EXCEPT ![l] = "returned"]
        /\ wg' = wg - 1 /\ UNCHANGED <<starts, opc>>
    BY <1>2 DEF LoopReturn, Goto, Counted, Readers
  <2>2. l \in Live /\ Live' = Live \ {l}
    BY <2>1 DEF Live, TypeOK, Readers
  <2>3. IsFiniteSet(Live) /\ wg = Cardinality(Live) /\ Cardinality(Live) \in Nat
    BY ReaderSets DEF Live, Readers, WaitInv
  <2>4. wg' = Cardinality(Live')
    BY <2>1, <2>2, <2>3, FS_RemoveElement
  <2>5. opc \notin {"stopping", "stopped"}
    <3>1. wg # 0
      BY <2>2, <2>3, FS_EmptySet
    <3> QED BY <3>1 DEF WaitInv
  <2>6. \A i \in Loops : lpc'[i] # "off" => i <= starts'
    BY <2>1 DEF WaitInv, TypeOK, Readers
  <2> QED BY <2>1, <2>4, <2>5, <2>6 DEF WaitInv
<1>3. CASE StopBegin \/ StopWaited \/ StopManager \/ StopReturn
  <2>1. /\ UNCHANGED <<lpc, starts, wg>>
        /\ opc' \in {"stopping", "stopped"} => wg = 0
    BY <1>3 DEF StopBegin, StopWaited, LoopsAwaited, StopManager, StopReturn, loopVars, WaitInv
  <2> QED BY <2>1 DEF WaitInv, Live
\* Any other step moves a goroutine, or none, among the points at which it runs.
<1>4. ASSUME NEW l \in Readers, lpc[l] \notin {"off", "returned"},
             NEW to \in {"select", "next", "reading", "pushing", "done"},
             lpc' = [lpc EXCEPT ![l] = to] \/ lpc' = lpc, UNCHANGED <<starts, wg, opc>>
      PROVE  WaitInv'
  <2>1. /\ \A i \in Loops : lpc'[i] = "off" <=> lpc[i] = "off"
        /\ \A i \in Loops : lpc'[i] = "returned" <=> lpc[i] = "returned"
    BY <1>4 DEF TypeOK, Readers
  <2>2. Live' = Live
    BY <2>1 DEF Live
  <2> QED BY <1>4, <2>1, <2>2 DEF WaitInv
<1>5. ASSUME NEW l \in Loops, Tick(l) \/ LoopSeesStop(l) \/ LoopSeesTick(l) PROVE WaitInv'
  <2>1. l \in Readers
    BY DEF Readers
  <2> QED BY <1>4, <1>5, <2>1 DEF Tick, LoopSeesStop, LoopSeesTick, Goto
<1>6. ASSUME NEW l \in Readers, ReaderNext(l) PROVE WaitInv'
  BY <1>4, <1>6 DEF ReaderNext, RoundOver, ReadBegin, WriteRegister, ReadEnd, Push, PushDropped,
     ManagerPolled, Goto
<1>7. ASSUME NEW m \in Managers, UserRead(m) PROVE WaitInv'
  <2>1. User \in Readers
    BY DEF Readers
  <2> QED BY <1>4, <1>7, <2>1 DEF UserRead
<1>8. ASSUME UNCHANGED <<lpc, starts, wg, opc>> PROVE WaitInv'
  BY <1>8 DEF WaitInv, Live
<1>9. ASSUME NEW m \in Managers, AddManager(m) \/ Load(m) \/ UserStart(m) \/ UserStop(m)
      PROVE  WaitInv'
  BY <1>8, <1>9 DEF AddManager, Load, UserStart, UserStop, loopVars
<1>10. ASSUME NEW k \in Consumers, ConsumerNext(k) PROVE WaitInv'
  BY <1>8, <1>10 DEF ConsumerNext, ConsumerReturn, ConsumerReceive, Callback, loopVars
<1>11. CASE UNCHANGED vars
  BY <1>8, <1>11 DEF vars, loopVars
<1> QED
  BY <1>1, <1>2, <1>3, <1>5, <1>6, <1>7, <1>9, <1>10, <1>11 DEF Next, OwnerNext, LoopNext

-----------------------------------------------------------------------------
(***************************************************************************)
(* The rounds: what a reader has still to poll.                            *)
(***************************************************************************)
LEMMA DistinctEmpty == Distinct(<<>>)
  BY DEF Distinct

LEMMA DistinctTail ==
    ASSUME NEW S, NEW s \in Seq(S), s # <<>>, Distinct(s)
    PROVE  Distinct(Tail(s))
<1>1. /\ Len(s) \in Nat /\ Len(Tail(s)) = Len(s) - 1
      /\ \A i \in 1..Len(Tail(s)) : Tail(s)[i] = s[i + 1]
  OBVIOUS
<1> SUFFICES ASSUME NEW i \in 1..Len(Tail(s)), NEW j \in 1..Len(Tail(s)), Tail(s)[i] = Tail(s)[j]
             PROVE  i = j
  BY DEF Distinct
<1>2. i + 1 \in 1..Len(s) /\ j + 1 \in 1..Len(s) /\ s[i + 1] = s[j + 1]
  BY <1>1
<1>3. i + 1 = j + 1
  BY <1>2 DEF Distinct
<1> QED BY <1>1, <1>3

LEMMA DistinctAppend ==
    ASSUME NEW S, NEW s \in Seq(S), NEW x \in S, Distinct(s),
           \A i \in 1..Len(s) : s[i] # x
    PROVE  Distinct(Append(s, x))
<1> DEFINE t == Append(s, x)
<1>1. /\ Len(s) \in Nat /\ Len(t) = Len(s) + 1 /\ t[Len(s) + 1] = x
      /\ \A i \in 1..Len(s) : t[i] = s[i]
  OBVIOUS
<1> HIDE DEF t
<1> SUFFICES ASSUME NEW i \in 1..Len(t), NEW j \in 1..Len(t), t[i] = t[j] PROVE i = j
  BY DEF Distinct, t
<1>2. (i \in 1..Len(s) \/ i = Len(s) + 1) /\ (j \in 1..Len(s) \/ j = Len(s) + 1)
  BY <1>1
<1> QED BY <1>1, <1>2 DEF Distinct

LEMMA NextRound == TypeOK /\ WaitInv /\ RoundInv /\ [Next]_vars => RoundInv'
<1> SUFFICES ASSUME TypeOK, WaitInv, RoundInv, [Next]_vars PROVE RoundInv'
  OBVIOUS
<1> USE DEF AtWork
<1>1. ASSUME NEW m \in Managers, AddManager(m) PROVE RoundInv'
  <2>1. managers' = Append(managers, m) /\ UNCHANGED <<todo, lpc>>
    BY <1>1 DEF AddManager, loopVars
  <2>2. Distinct(managers')
    <3>1. managers \in Seq(Managers) /\ Distinct(managers) /\ \A i \in 1..Len(managers) : managers[i] # m
      BY <1>1 DEF AddManager, Added, RoundInv, TypeOK
    <3> QED BY <2>1, <3>1, DistinctAppend
  <2> QED BY <2>1, <2>2 DEF RoundInv
\* A step of one reader.
<1>2. ASSUME NEW l \in Readers, NEW to, NEW s,
             lpc' = [lpc EXCEPT ![l] = to], todo' = [todo EXCEPT ![l] = s], managers' = managers,
             Distinct(s), (to \in AtWork => s # <<>>), (to \notin AtWork \cup {"next"} => s = <<>>)
      PROVE  RoundInv'
  <2>1. \A i \in Readers : IF i = l THEN lpc'[i] = to /\ todo'[i] = s
                                    ELSE lpc'[i] = lpc[i] /\ todo'[i] = todo[i]
    BY <1>2 DEF TypeOK
  <2> QED BY <1>2, <2>1 DEF RoundInv
<1>3. ASSUME UNCHANGED <<lpc, todo, managers>> PROVE RoundInv'
  BY <1>3 DEF RoundInv
<1>4. CASE Start
  <2>1. /\ starts' \in Loops /\ starts' \in Readers /\ starts' = starts + 1 /\ starts \in Nat
        /\ lpc' = [lpc EXCEPT ![starts'] = "select"] /\ UNCHANGED <<todo, managers>>
    BY <1>4, PollerAssumption DEF Start, TypeOK, Loops, Readers
  <2>2. lpc[starts'] = "off"
    BY <2>1 DEF WaitInv
  <2>3. \A i \in Readers : lpc'[i] = IF i = starts' THEN "select" ELSE lpc[i]
    BY <2>1 DEF TypeOK
  <2>4. \A i \in Readers : lpc'[i] \in AtWork \cup {"next"} => lpc'[i] = lpc[i]
    BY <2>3
  <2>5. \A i \in Readers : lpc'[i] \notin AtWork \cup {"next"} => lpc[i] \notin AtWork \cup {"next"}
    BY <2>2, <2>3
  <2> QED BY <2>1, <2>4, <2>5 DEF RoundInv
<1>5. ASSUME NEW l \in Readers, ReaderNext(l) PROVE RoundInv'
  <2>1. /\ todo[l] \in Seq(Managers) /\ Distinct(todo[l]) /\ todo = [todo EXCEPT ![l] = todo[l]]
        /\ lpc = [lpc EXCEPT ![l] = lpc[l]]
    BY DEF RoundInv, TypeOK
  <2>2. CASE RoundOver(l)
    BY <1>2, <2>1, <2>2 DEF RoundOver, Goto, pollerVars
  <2>3. CASE ReadBegin(l)
    BY <1>2, <2>1, <2>3 DEF ReadBegin, Goto, pollerVars
  <2>4. CASE WriteRegister(l) \/ Push(l) \/ PushDropped(l)
    BY <1>3, <2>4 DEF WriteRegister, Push, PushDropped, pollerVars
  <2>5. CASE ReadEnd(l)
    BY <1>2, <2>1, <2>5 DEF ReadEnd, Goto, pollerVars, RoundInv
  <2>6. CASE ManagerPolled(l)
    <3>1. Distinct(Tail(todo[l]))
      BY <2>1, <2>6, DistinctTail DEF ManagerPolled, Goto, RoundInv
    <3> QED BY <1>2, <2>6, <3>1 DEF ManagerPolled, Goto, pollerVars
  <2> QED BY <1>5, <2>2, <2>3, <2>4, <2>5, <2>6 DEF ReaderNext
<1>6. ASSUME NEW l \in Loops, LoopNext(l) PROVE RoundInv'
  <2>1. l \in Readers /\ todo = [todo EXCEPT ![l] = todo[l]] /\ Distinct(todo[l])
    BY DEF RoundInv, TypeOK, Readers
  <2>2. CASE LoopSeesStop(l)
    BY <1>2, <2>1, <2>2 DEF LoopSeesStop, Goto, pollerVars, RoundInv
  <2>3. CASE LoopSeesTick(l)
    BY <1>2, <2>1, <2>3 DEF LoopSeesTick, Goto, pollerVars, RoundInv
  <2>4. CASE LoopReturn(l)
    BY <1>2, <2>1, <2>4 DEF LoopReturn, Goto, RoundInv
  <2> QED BY <1>6, <2>2, <2>3, <2>4 DEF LoopNext
<1>7. ASSUME NEW m \in Managers, UserRead(m) PROVE RoundInv'
  <2>1. User \in Readers /\ Distinct(<<m>>) /\ <<m>> # <<>>
    BY DEF Readers, Distinct
  <2> QED BY <1>2, <1>7, <2>1 DEF UserRead, pollerVars
<1>8. ASSUME NEW m \in Managers, Load(m) \/ UserStart(m) \/ UserStop(m) PROVE RoundInv'
  BY <1>3, <1>8 DEF Load, UserStart, UserStop, loopVars, pollerVars
<1>9. CASE StopBegin \/ OwnerNext
  BY <1>3, <1>9 DEF StopBegin, OwnerNext, StopWaited, StopManager, StopReturn, loopVars
<1>10. ASSUME NEW l \in Loops, Tick(l) PROVE RoundInv'
  BY <1>3, <1>10 DEF Tick, pollerVars
<1>11. ASSUME NEW k \in Consumers, ConsumerNext(k) PROVE RoundInv'
  BY <1>3, <1>11 DEF ConsumerNext, ConsumerReturn, ConsumerReceive, Callback, loopVars, pollerVars
<1>12. CASE UNCHANGED vars
  BY <1>3, <1>12 DEF vars, loopVars, pollerVars
<1> QED
  BY <1>1, <1>4, <1>5, <1>6, <1>7, <1>8, <1>9, <1>10, <1>11, <1>12 DEF Next

-----------------------------------------------------------------------------
(***************************************************************************)
(* Reads and the ticks that pay for them.                                  *)
(***************************************************************************)
\* How a set of readers grows or shrinks by one.
LEMMA OneReaderMore ==
    ASSUME NEW S, NEW T, S \subseteq Readers, NEW l \in Readers, T \subseteq S \cup {l}
    PROVE  Cardinality(T) <= Cardinality(S) + 1
<1>1. IsFiniteSet(S) /\ Cardinality(S) \in Nat
  BY ReaderSets
<1>2. IsFiniteSet(S \cup {l}) /\ Cardinality(S \cup {l}) <= Cardinality(S) + 1
  <2>1. /\ IsFiniteSet(S \cup {l})
        /\ Cardinality(S \cup {l}) = IF l \in S THEN Cardinality(S) ELSE Cardinality(S) + 1
    BY <1>1, FS_AddElement
  <2> QED BY <1>1, <2>1
<1>3. Cardinality(T) <= Cardinality(S \cup {l}) /\ T \subseteq Readers
  BY <1>2, FS_Subset
<1>4. Cardinality(T) \in Nat /\ Cardinality(S \cup {l}) \in Nat
  BY <1>2, <1>3, ReaderSets, FS_CardinalityType
<1> QED BY <1>1, <1>2, <1>3, <1>4

LEMMA OneReaderLess ==
    ASSUME NEW S, NEW T, S \subseteq Readers, NEW l \in S, T \subseteq S \ {l}
    PROVE  Cardinality(T) <= Cardinality(S) - 1
<1>1. IsFiniteSet(S) /\ Cardinality(S) \in Nat
  BY ReaderSets
<1>2. IsFiniteSet(S \ {l}) /\ Cardinality(S \ {l}) = Cardinality(S) - 1
  BY <1>1, FS_RemoveElement
<1>3. Cardinality(T) <= Cardinality(S \ {l})
  BY <1>2, FS_Subset
<1> QED BY <1>2, <1>3

LEMMA NextCount ==
    TypeOK /\ WaitInv /\ RoundInv /\ CountInv /\ [Next]_vars => CountInv'
<1> SUFFICES ASSUME TypeOK, WaitInv, RoundInv, CountInv, [Next]_vars PROVE CountInv'
  OBVIOUS
<1> USE DEF AtWork
<1>1. /\ Ticking \subseteq Readers /\ Ticking' \subseteq Readers
      /\ \A m \in Managers : Due(m) \subseteq Readers /\ Due(m)' \subseteq Readers
  BY DEF Ticking, Due, Readers
<1>2. /\ Cardinality(Ticking) \in Nat /\ Cardinality(Ticking') \in Nat
      /\ \A m \in Managers : Cardinality(Due(m)) \in Nat /\ Cardinality(Due(m)') \in Nat
  BY <1>1, ReaderSets
<1>3. ticks \in Nat /\ \A m \in Managers : polls[m] \in Nat
  BY PollerAssumption DEF TypeOK
\* Nothing new to come.
<1>4. ASSUME UNCHANGED <<polls, ticks, tick>>,
             \A l \in Readers, m \in Managers : ToCome(l, m)' => ToCome(l, m)
      PROVE  CountInv'
  <2> SUFFICES ASSUME NEW m \in Managers
               PROVE  polls'[m] + Cardinality(Due(m)') + Cardinality(Ticking') <= ticks'
    BY DEF CountInv
  <2>1. Due(m)' \subseteq Due(m) /\ Ticking' = Ticking
    BY <1>4 DEF Due, Ticking
  <2>2. Cardinality(Due(m)') <= Cardinality(Due(m))
    BY <1>1, <2>1, ReaderSets, FS_Subset
  <2> QED BY <1>2, <1>3, <1>4, <2>1, <2>2 DEF CountInv
<1>5. ASSUME UNCHANGED <<todo, lpc, polls, ticks, tick>> PROVE CountInv'
  BY <1>4, <1>5 DEF ToCome
<1>6. ASSUME NEW l \in Readers, UNCHANGED <<polls, ticks, tick>>,
             \A i \in Readers \ {l} : lpc'[i] = lpc[i] /\ todo'[i] = todo[i],
             \A m \in Managers : ToCome(l, m)' => ToCome(l, m)
      PROVE  CountInv'
  BY <1>4, <1>6 DEF ToCome
<1>7. CASE Start
  <2>1. /\ starts' \in Readers /\ starts' \in Loops /\ starts' = starts + 1 /\ starts \in Nat
        /\ lpc' = [lpc EXCEPT ![starts'] = "select"]
        /\ UNCHANGED <<todo, polls, ticks, tick>>
    BY <1>7, PollerAssumption DEF Start, TypeOK, Loops, Readers, schedVars
  <2>2. todo[starts'] = <<>>
    BY <2>1 DEF WaitInv, RoundInv
  <2>3. \A i \in Readers : lpc'[i] = IF i = starts' THEN "select" ELSE lpc[i]
    BY <2>1 DEF TypeOK
  <2> QED BY <1>4, <2>1, <2>2, <2>3 DEF ToCome
<1>8. ASSUME NEW m \in Managers, UserRead(m) PROVE CountInv'
  <2>1. /\ User \in Readers /\ UNCHANGED <<polls, tick>> /\ ticks' = ticks + 1
        /\ \A i \in Readers \ {User} : lpc'[i] = lpc[i] /\ todo'[i] = todo[i]
    BY <1>8 DEF UserRead, Readers, schedVars, TypeOK
  <2> SUFFICES ASSUME NEW n \in Managers
               PROVE  polls'[n] + Cardinality(Due(n)') + Cardinality(Ticking') <= ticks'
    BY DEF CountInv
  <2>2. Due(n)' \subseteq Due(n) \cup {User} /\ Ticking' = Ticking
    BY <2>1 DEF Due, ToCome, Ticking
  <2>3. Cardinality(Due(n)') <= Cardinality(Due(n)) + 1
    BY <1>1, <2>1, <2>2, OneReaderMore
  <2> QED BY <1>2, <1>3, <2>1, <2>2, <2>3 DEF CountInv
<1>9. ASSUME NEW l \in Loops, Tick(l) PROVE CountInv'
  <2>1. l \in Readers /\ UNCHANGED <<polls, lpc, todo>> /\ ticks' = ticks + 1
        /\ tick' = [tick EXCEPT ![l] = TRUE]
    BY <1>9 DEF Tick, Readers, schedVars
  <2>2. Ticking' \subseteq Ticking \cup {l}
    BY <2>1 DEF Ticking, TypeOK
  <2>3. Cardinality(Ticking') <= Cardinality(Ticking) + 1
    BY <1>1, <2>1, <2>2, OneReaderMore
  <2> SUFFICES ASSUME NEW n \in Managers
               PROVE  polls'[n] + Cardinality(Due(n)') + Cardinality(Ticking') <= ticks'
    BY DEF CountInv
  <2>4. Due(n)' = Due(n)
    BY <2>1 DEF Due, ToCome
  <2> QED BY <1>2, <1>3, <2>1, <2>3, <2>4 DEF CountInv
<1>10. ASSUME NEW l \in Loops, LoopSeesTick(l) PROVE CountInv'
  <2>1. l \in Readers /\ UNCHANGED <<polls, ticks>> /\ tick[l] /\ tick' = [tick EXCEPT ![l] = FALSE]
        /\ \A i \in Readers \ {l} : lpc'[i] = lpc[i] /\ todo'[i] = todo[i]
    BY <1>10 DEF LoopSeesTick, Goto, Readers, schedVars, TypeOK
  <2>2. l \in Ticking /\ Ticking' \subseteq Ticking \ {l}
    BY <2>1 DEF Ticking, TypeOK
  <2>3. Cardinality(Ticking') <= Cardinality(Ticking) - 1
    BY <1>1, <2>2, OneReaderLess
  <2> SUFFICES ASSUME NEW n \in Managers
               PROVE  polls'[n] + Cardinality(Due(n)') + Cardinality(Ticking') <= ticks'
    BY DEF CountInv
  <2>4. Due(n)' \subseteq Due(n) \cup {l}
    BY <2>1 DEF Due, ToCome
  <2>5. Cardinality(Due(n)') <= Cardinality(Due(n)) + 1
    BY <1>1, <2>1, <2>4, OneReaderMore
  <2> QED BY <1>2, <1>3, <2>1, <2>3, <2>5 DEF CountInv
<1>11. ASSUME NEW l \in Readers, ReadBegin(l) PROVE CountInv'
  <2> DEFINE m == Head(todo[l])
  <2>1. /\ todo[l] \in Seq(Managers) /\ todo[l] # <<>> /\ Distinct(todo[l])
        /\ lpc[l] = "next" /\ lpc' = [lpc EXCEPT ![l] = "reading"]
        /\ polls' = [polls EXCEPT ![m] = polls[m] + 1]
        /\ UNCHANGED <<todo, ticks, tick>>
    BY <1>11 DEF ReadBegin, Goto, TypeOK, RoundInv
  <2>2. m = todo[l][1] /\ m \in Managers /\ 1 \in 1..Len(todo[l])
    BY <2>1
  <2> HIDE DEF m
  <2>3. \A i \in Readers : lpc'[i] = IF i = l THEN "reading" ELSE lpc[i]
    BY <2>1 DEF TypeOK
  <2> SUFFICES ASSUME NEW n \in Managers
               PROVE  polls'[n] + Cardinality(Due(n)') + Cardinality(Ticking') <= ticks'
    BY DEF CountInv
  <2>4. Ticking' = Ticking
    BY <2>1 DEF Ticking
  <2>5. CASE n = m
    <3>1. ToCome(l, n) /\ ~ToCome(l, n)'
      <4>1. ToCome(l, n)
        BY <2>1, <2>2, <2>5 DEF ToCome
      <4>2. \A i \in 1..Len(todo[l]) : todo[l][i] = n => i = 1
        BY <2>1, <2>2, <2>5 DEF Distinct
      <4>3. lpc'[l] = "reading" /\ todo'[l] = todo[l]
        BY <2>1, <2>3
      <4> QED BY <4>1, <4>2, <4>3 DEF ToCome
    <3>2. l \in Due(n) /\ Due(n)' \subseteq Due(n) \ {l}
      <4>1. l \in Due(n) /\ l \notin Due(n)'
        BY <3>1 DEF Due
      <4>2. \A i \in Readers \ {l} : ToCome(i, n)' => ToCome(i, n)
        BY <2>1, <2>3 DEF ToCome
      <4> QED BY <4>1, <4>2 DEF Due
    <3>3. Cardinality(Due(n)') <= Cardinality(Due(n)) - 1
      BY <1>1, <3>2, OneReaderLess
    <3>4. polls'[n] = polls[n] + 1
      BY <2>1, <2>2, <2>5 DEF TypeOK
    <3> QED BY <1>2, <1>3, <2>1, <2>4, <3>3, <3>4 DEF CountInv
  <2>6. CASE n # m
    <3>1. Due(n)' \subseteq Due(n)
      BY <2>1, <2>3 DEF Due, ToCome
    <3>2. Cardinality(Due(n)') <= Cardinality(Due(n))
      BY <1>1, <3>1, ReaderSets, FS_Subset
    <3>3. polls'[n] = polls[n]
      BY <2>1, <2>2, <2>6 DEF TypeOK
    <3> QED BY <1>2, <1>3, <2>1, <2>4, <3>2, <3>3 DEF CountInv
  <2> QED BY <2>5, <2>6
<1>12. ASSUME NEW l \in Readers, ReadEnd(l) PROVE CountInv'
  <2>1. /\ lpc[l] = "reading" /\ lpc'[l] = "pushing" /\ UNCHANGED <<todo, polls, ticks, tick>>
        /\ \A i \in Readers \ {l} : lpc'[i] = lpc[i]
    BY <1>12 DEF ReadEnd, Goto, TypeOK
  <2> QED BY <1>6, <2>1 DEF ToCome
<1>13. ASSUME NEW l \in Readers, ManagerPolled(l) PROVE CountInv'
  <2>1. /\ lpc[l] = "pushing" /\ lpc'[l] = "next" /\ todo'[l] = Tail(todo[l])
        /\ UNCHANGED <<polls, ticks, tick>>
        /\ \A i \in Readers \ {l} : lpc'[i] = lpc[i] /\ todo'[i] = todo[i]
    BY <1>13 DEF ManagerPolled, Goto, TypeOK, schedVars
  <2>2. todo[l] \in Seq(Managers) /\ todo[l] # <<>>
    BY <2>1 DEF TypeOK, RoundInv
  <2>3. ASSUME NEW n \in Managers, ToCome(l, n)' PROVE ToCome(l, n)
    <3>1. PICK i \in 1..Len(Tail(todo[l])) : Tail(todo[l])[i] = n
      BY <2>1, <2>3 DEF ToCome
    <3>2. i + 1 \in 1..Len(todo[l]) /\ todo[l][i + 1] = n /\ i + 1 # 1
      BY <2>2, <3>1
    <3> QED BY <3>2 DEF ToCome
  <2> QED BY <1>6, <2>1, <2>3
<1>14. ASSUME NEW l \in Readers, RoundOver(l) PROVE CountInv'
  <2>1. /\ lpc[l] = "next" /\ lpc'[l] = "select" /\ UNCHANGED <<todo, polls, ticks, tick>>
        /\ \A i \in Readers \ {l} : lpc'[i] = lpc[i]
    BY <1>14 DEF RoundOver, Goto, TypeOK, schedVars
  <2> QED BY <1>6, <2>1 DEF ToCome
<1>15. ASSUME NEW l \in Readers, WriteRegister(l) \/ Push(l) \/ PushDropped(l) PROVE CountInv'
  BY <1>5, <1>15 DEF WriteRegister, Push, PushDropped, schedVars
<1>16. ASSUME NEW l \in Loops, LoopSeesStop(l) \/ LoopReturn(l) PROVE CountInv'
  <2>1. /\ l \in Readers /\ lpc[l] \notin AtWork /\ lpc'[l] \notin AtWork
        /\ UNCHANGED <<todo, polls, ticks, tick>>
        /\ \A i \in Readers \ {l} : lpc'[i] = lpc[i]
    BY <1>16 DEF LoopSeesStop, LoopReturn, Goto, TypeOK, Readers, schedVars
  <2> QED BY <1>6, <2>1 DEF ToCome
<1>17. CASE StopBegin \/ OwnerNext
  BY <1>5, <1>17 DEF StopBegin, OwnerNext, StopWaited, StopManager, StopReturn, loopVars, schedVars
<1>18. ASSUME NEW m \in Managers, AddManager(m) \/ Load(m) \/ UserStart(m) \/ UserStop(m)
       PROVE  CountInv'
  BY <1>5, <1>18 DEF AddManager, Load, UserStart, UserStop, loopVars, schedVars
<1>19. ASSUME NEW k \in Consumers, ConsumerNext(k) PROVE CountInv'
  BY <1>5, <1>19 DEF ConsumerNext, ConsumerReturn, ConsumerReceive, Callback, loopVars, schedVars
<1>20. CASE UNCHANGED vars
  BY <1>5, <1>20 DEF vars, loopVars, schedVars
<1> QED
  BY <1>7, <1>8, <1>9, <1>10, <1>11, <1>12, <1>13, <1>14, <1>15, <1>16, <1>17, <1>18, <1>19, <1>20
     DEF Next, LoopNext, ReaderNext

-----------------------------------------------------------------------------
(***************************************************************************)
(* The scheduler's mutex.                                                  *)
(***************************************************************************)
LEMMA NextLock == TypeOK /\ WaitInv /\ RoundInv /\ LockInv /\ [Next]_vars => LockInv'
<1> SUFFICES ASSUME TypeOK, WaitInv, RoundInv, LockInv, [Next]_vars PROVE LockInv'
  OBVIOUS
<1> USE PollerAssumption
<1>0. NoOne \notin Readers
  BY DEF Readers, Loops, User
\* No reader begins or ends a read.
<1>1. ASSUME mu' = mu,
             \A l \in Readers : \/ lpc[l] # "reading" /\ lpc'[l] # "reading"
                                \/ lpc'[l] = lpc[l] /\ todo'[l] = todo[l]
      PROVE  LockInv'
  BY <1>1 DEF LockInv
<1>2. ASSUME NEW l \in Readers, NEW to, lpc' = [lpc EXCEPT ![l] = to],
             lpc[l] # "reading", to # "reading", mu' = mu,
             \A i \in Readers \ {l} : todo'[i] = todo[i]
      PROVE  LockInv'
  <2>1. \A i \in Readers : lpc'[i] = IF i = l THEN to ELSE lpc[i]
    BY <1>2 DEF TypeOK
  <2> QED BY <1>1, <1>2, <2>1
<1>3. ASSUME UNCHANGED <<mu, lpc, todo>> PROVE LockInv'
  BY <1>3 DEF LockInv
<1>4. CASE Start
  <2>1. /\ starts' \in Readers /\ starts' \in Loops /\ starts' = starts + 1 /\ starts \in Nat
        /\ lpc' = [lpc EXCEPT ![starts'] = "select"] /\ UNCHANGED <<mu, todo>>
    BY <1>4 DEF Start, TypeOK, Loops, Readers, schedVars
  <2>2. lpc[starts'] = "off"
    BY <2>1 DEF WaitInv
  <2>3. \A i \in Readers : lpc'[i] = IF i = starts' THEN "select" ELSE lpc[i]
    BY <2>1 DEF TypeOK
  <2> QED BY <1>1, <2>1, <2>2, <2>3
<1>5. ASSUME NEW l \in Readers, ReadBegin(l) PROVE LockInv'
  <2> DEFINE m == Head(todo[l])
  <2>1. /\ lpc[l] = "next" /\ lpc' = [lpc EXCEPT ![l] = "reading"] /\ todo' = todo
        /\ mu[m] = NoOne /\ mu' = [mu EXCEPT ![m] = l] /\ todo[l] # <<>>
    BY <1>5 DEF ReadBegin, Goto
  <2>2. m \in Managers
    BY <2>1 DEF TypeOK
  <2> SUFFICES ASSUME NEW n \in Managers, NEW i \in Readers
               PROVE  mu'[n] = i <=> lpc'[i] = "reading" /\ Head(todo'[i]) = n
    BY DEF LockInv
  <2>3. /\ mu'[n] = IF n = m THEN l ELSE mu[n]
        /\ lpc'[i] = IF i = l THEN "reading" ELSE lpc[i]
    BY <2>1, <2>2 DEF TypeOK
  <2>4. mu[n] = i <=> lpc[i] = "reading" /\ Head(todo[i]) = n
    BY DEF LockInv
  <2> QED BY <1>0, <2>1, <2>3, <2>4
<1>6. ASSUME NEW l \in Readers, ReadEnd(l) PROVE LockInv'
  <2> DEFINE m == Head(todo[l])
  <2>1. /\ lpc[l] = "reading" /\ lpc' = [lpc EXCEPT ![l] = "pushing"] /\ todo' = todo
        /\ mu' = [mu EXCEPT ![m] = NoOne]
    BY <1>6 DEF ReadEnd, Goto
  <2>2. m \in Managers
    BY <2>1 DEF TypeOK, RoundInv, AtWork
  <2> SUFFICES ASSUME NEW n \in Managers, NEW i \in Readers
               PROVE  mu'[n] = i <=> lpc'[i] = "reading" /\ Head(todo'[i]) = n
    BY DEF LockInv
  <2>3. /\ mu'[n] = IF n = m THEN NoOne ELSE mu[n]
        /\ lpc'[i] = IF i = l THEN "pushing" ELSE lpc[i]
    BY <2>1, <2>2 DEF TypeOK
  <2>4. mu[n] = i <=> lpc[i] = "reading" /\ Head(todo[i]) = n
    BY DEF LockInv
  <2>5. mu[m] = l
    BY <2>1, <2>2 DEF LockInv
  <2> QED BY <1>0, <2>1, <2>3, <2>4, <2>5
<1>7. ASSUME NEW l \in Readers, ManagerPolled(l) \/ RoundOver(l) PROVE LockInv'
  <2>1. /\ lpc[l] # "reading" /\ mu' = mu /\ \A i \in Readers \ {l} : todo'[i] = todo[i]
        /\ \E to \in {"next", "select"} : lpc' = [lpc EXCEPT ![l] = to]
    BY <1>7 DEF ManagerPolled, RoundOver, Goto, schedVars, TypeOK
  <2> QED BY <1>2, <2>1
<1>8. ASSUME NEW l \in Readers, WriteRegister(l) \/ Push(l) \/ PushDropped(l) PROVE LockInv'
  BY <1>3, <1>8 DEF WriteRegister, Push, PushDropped, schedVars
<1>9. ASSUME NEW l \in Loops, LoopNext(l) PROVE LockInv'
  <2>1. /\ l \in Readers /\ lpc[l] # "reading" /\ mu' = mu
        /\ \A i \in Readers \ {l} : todo'[i] = todo[i]
        /\ \E to \in {"next", "done", "returned"} : lpc' = [lpc EXCEPT ![l] = to]
    BY <1>9 DEF LoopNext, LoopSeesStop, LoopSeesTick, LoopReturn, Goto, schedVars, TypeOK, Readers
  <2> QED BY <1>2, <2>1
<1>10. ASSUME NEW m \in Managers, UserRead(m) PROVE LockInv'
  <2>1. /\ User \in Readers /\ lpc[User] # "reading" /\ mu' = mu
        /\ \A i \in Readers \ {User} : todo'[i] = todo[i]
        /\ lpc' = [lpc EXCEPT ![User] = "next"]
    BY <1>10 DEF UserRead, schedVars, TypeOK, Readers
  <2> QED BY <1>2, <2>1
<1>11. ASSUME NEW m \in Managers, AddManager(m) \/ Load(m) \/ UserStart(m) \/ UserStop(m)
       PROVE  LockInv'
  BY <1>3, <1>11 DEF AddManager, Load, UserStart, UserStop, loopVars, schedVars
<1>12. CASE StopBegin \/ OwnerNext
  BY <1>3, <1>12 DEF StopBegin, OwnerNext, StopWaited, StopManager, StopReturn, loopVars, schedVars
<1>13. ASSUME NEW l \in Loops, Tick(l) PROVE LockInv'
  BY <1>3, <1>13 DEF Tick, schedVars
<1>14. ASSUME NEW k \in Consumers, ConsumerNext(k) PROVE LockInv'
  BY <1>3, <1>14 DEF ConsumerNext, ConsumerReturn, ConsumerReceive, Callback, loopVars, schedVars
<1>15. CASE UNCHANGED vars
  BY <1>3, <1>15 DEF vars, loopVars, schedVars
<1> QED
  BY <1>4, <1>5, <1>6, <1>7, <1>8, <1>9, <1>10, <1>11, <1>12, <1>13, <1>14, <1>15
     DEF Next, ReaderNext

-----------------------------------------------------------------------------
(***************************************************************************)
(* What a read has written.                                                *)
(***************************************************************************)
LEMMA HeadsAreManagers ==
    ASSUME TypeOK, RoundInv, NEW l \in Readers, lpc[l] \in AtWork
    PROVE  Head(todo[l]) \in Managers
<1>1. todo[l] \in Seq(Managers) /\ todo[l] # <<>>
  BY DEF TypeOK, RoundInv
<1> QED BY <1>1

\* A read leaves a register of its manager's groups no older than it was and
\* every other register alone.
LEMMA WriteIsNewer ==
    ASSUME TypeOK, RoundInv, ReadInv, NEW l \in Readers, NEW cell \in fresh[l], lpc[l] = "reading",
           mem' = [mem EXCEPT ![cell[1]][cell[2]] = polls[Head(todo[l])]]
    PROVE  /\ cell[1] \in Groups /\ cell[2] \in Regs /\ cell[1][1] = Head(todo[l])
           /\ polls[Head(todo[l])] \in Nat
           /\ \A g \in Groups, r \in Regs :
                /\ mem[g][r] \in Nat
                /\ mem'[g][r] = IF g = cell[1] /\ r = cell[2] THEN polls[Head(todo[l])] ELSE mem[g][r]
                /\ mem'[g][r] >= mem[g][r]
<1> USE PollerAssumption
<1>1. cell \in Groups \X Regs /\ cell[1][1] = Head(todo[l])
  BY DEF TypeOK, ReadInv
<1>2. Head(todo[l]) \in Managers
  BY DEF TypeOK, RoundInv, AtWork
<1>3. polls[Head(todo[l])] \in Nat /\ \A g \in Groups, r \in Regs : mem[g][r] \in Nat
  BY <1>2 DEF TypeOK
<1>4. \A g \in Groups, r \in Regs :
        mem'[g][r] = IF g = cell[1] /\ r = cell[2] THEN polls[Head(todo[l])] ELSE mem[g][r]
  BY <1>1 DEF TypeOK
<1>5. mem[cell[1]][cell[2]] <= polls[Head(todo[l])]
  BY <1>1 DEF ReadInv
<1> QED BY <1>1, <1>3, <1>4, <1>5

LEMMA NextRead ==
    TypeOK /\ WaitInv /\ RoundInv /\ LockInv /\ ReadInv /\ [Next]_vars => ReadInv'
<1> SUFFICES ASSUME TypeOK, WaitInv, RoundInv, LockInv, ReadInv, [Next]_vars PROVE ReadInv'
  OBVIOUS
<1> USE PollerAssumption DEF AtWork
<1>0. NoOne \notin Readers
  BY DEF Readers, Loops, User
\* Nobody begins to read, and nothing is read or loaded.
<1>1. ASSUME UNCHANGED <<groups, mem, polls>>,
             \A l \in Readers : \/ lpc'[l] \notin AtWork
                                \/ /\ lpc'[l] = lpc[l] /\ todo'[l] = todo[l]
                                   /\ fresh'[l] = fresh[l] /\ reach'[l] = reach[l]
      PROVE  ReadInv'
  BY <1>1 DEF ReadInv
<1>2. ASSUME NEW l \in Readers, NEW to, lpc' = [lpc EXCEPT ![l] = to], to \notin AtWork,
             UNCHANGED <<groups, mem, polls, fresh, reach>>,
             \A i \in Readers \ {l} : todo'[i] = todo[i]
      PROVE  ReadInv'
  <2>1. \A i \in Readers : lpc'[i] = IF i = l THEN to ELSE lpc[i]
    BY <1>2 DEF TypeOK
  <2> QED BY <1>1, <1>2, <2>1
<1>3. ASSUME UNCHANGED <<groups, mem, polls, lpc, todo, fresh, reach>> PROVE ReadInv'
  BY <1>1, <1>3
<1>4. CASE Start
  <2>1. /\ starts' \in Readers /\ lpc' = [lpc EXCEPT ![starts'] = "select"]
        /\ UNCHANGED <<groups, mem, polls, fresh, reach, todo>>
    BY <1>4 DEF Start, TypeOK, Loops, Readers, schedVars
  <2>2. \A i \in Readers : lpc'[i] = IF i = starts' THEN "select" ELSE lpc[i]
    BY <2>1 DEF TypeOK
  <2> QED BY <1>1, <2>1, <2>2
<1>5. ASSUME NEW l \in Readers, ReadBegin(l) PROVE ReadInv'
  <2> DEFINE m == Head(todo[l])
  <2>1. /\ lpc' = [lpc EXCEPT ![l] = "reading"] /\ mu[m] = NoOne /\ todo[l] # <<>>
        /\ polls' = [polls EXCEPT ![m] = polls[m] + 1]
        /\ UNCHANGED <<todo, groups, mem>>
    BY <1>5 DEF ReadBegin, Goto
  <2>15. PICK far \in Reaches(m) :
           /\ reach' = [reach EXCEPT ![l] = [g \in Groups |-> IF g \in LoadedGroups(m) THEN far[g] ELSE 0]]
           /\ fresh' = [fresh EXCEPT ![l] = {cell \in LoadedGroups(m) \X Regs : cell[2] <= far[cell[1]]}]
    BY <1>5 DEF ReadBegin
  <2>2. m \in Managers /\ polls[m] \in Nat
    <3>1. todo[l] \in Seq(Managers)
      BY DEF TypeOK
    <3>2. m \in Managers
      BY <2>1, <3>1
    <3> QED BY <3>2 DEF TypeOK
  <2>3. \A i \in Readers : IF i = l THEN lpc'[i] = "reading"
                           ELSE lpc'[i] = lpc[i] /\ fresh'[i] = fresh[i] /\ reach'[i] = reach[i]
    BY <2>1, <2>15 DEF TypeOK
  <2>4. \A n \in Managers : polls[n] \in Nat /\ polls'[n] = IF n = m THEN polls[m] + 1 ELSE polls[n]
    BY <2>1, <2>2 DEF TypeOK
  <2>5. \A i \in Readers : lpc[i] = "reading" => Head(todo[i]) # m
    BY <1>0, <2>1, <2>2 DEF LockInv
  <2>6. \A i \in Readers : lpc[i] \in AtWork => Head(todo[i]) \in Managers
    BY DEF RoundInv, TypeOK
  <2>7. \A g \in Groups, r \in Regs : mem'[g][r] <= polls'[g[1]]
    <3>1. \A g \in Groups, r \in Regs : g[1] \in Managers /\ mem[g][r] \in Nat /\ mem[g][r] <= polls[g[1]]
      <4>1. \A g \in Groups : g[1] \in Managers
        BY DEF Groups
      <4>2. \A g \in Groups, r \in Regs : mem[g][r] \in Nat
        BY DEF TypeOK
      <4> QED BY <4>1, <4>2 DEF ReadInv
    <3> QED BY <2>1, <2>4, <3>1
  <2>8. /\ \A cell \in fresh'[l] : cell[1][1] = Head(todo'[l])
        /\ \A i \in 1..Len(groups'[m]), r \in Regs :
             r > reach'[l][groups'[m][i]] \/ <<groups'[m][i], r>> \in fresh'[l]
    <3>1. /\ fresh'[l] = {cell \in LoadedGroups(m) \X Regs : cell[2] <= far[cell[1]]}
          /\ \A g \in Groups : g \in LoadedGroups(m) => reach'[l][g] = far[g] /\ far[g] \in Nat
      BY <2>15 DEF TypeOK, Reaches
    <3>2. \A i \in 1..Len(groups[m]) : groups[m][i][1] = m /\ groups[m][i] \in LoadedGroups(m)
      BY <2>2 DEF ReadInv, LoadedGroups
    <3>7. LoadedGroups(m) \subseteq Groups
      BY <2>2, LoadedAreGroups
    <3>8. \A g \in LoadedGroups(m) : g[1] = m
      BY <3>2 DEF LoadedGroups
    <3>3. LoadedGroups(m) \subseteq Groups /\ \A g \in LoadedGroups(m) : g[1] = m
      BY <3>7, <3>8
    <3>4. \A r \in Regs : r \in Nat
      BY DEF Regs
    <3>5. \A cell \in fresh'[l] : cell[1][1] = Head(todo'[l])
      BY <2>1, <3>1, <3>3
    <3>6. ASSUME NEW i \in 1..Len(groups[m]), NEW r \in Regs
          PROVE  r > reach'[l][groups[m][i]] \/ <<groups[m][i], r>> \in fresh'[l]
      BY <3>1, <3>2, <3>3, <3>4
    <3> QED BY <2>1, <3>5, <3>6
  <2>9. polls'[Head(todo'[l])] >= 1
    BY <2>1, <2>2, <2>4
  <2>10. ASSUME NEW i \in Readers, i # l, lpc'[i] = "reading"
         PROVE  /\ \A cell \in fresh'[i] : cell[1][1] = Head(todo'[i])
                /\ \A j \in 1..Len(groups'[Head(todo'[i])]), r \in Regs :
                     \/ r > reach'[i][groups'[Head(todo'[i])][j]]
                     \/ <<groups'[Head(todo'[i])][j], r>> \in fresh'[i]
                     \/ mem'[groups'[Head(todo'[i])][j]][r] = polls'[Head(todo'[i])]
    <3>1. lpc[i] = "reading" /\ fresh'[i] = fresh[i] /\ reach'[i] = reach[i]
      BY <2>3, <2>10
    <3>2. polls'[Head(todo[i])] = polls[Head(todo[i])]
      BY <2>4, <2>5, <2>6, <3>1
    <3> QED BY <2>1, <3>1, <3>2 DEF ReadInv
  <2>11. ASSUME NEW i \in Readers, i # l, lpc'[i] \in AtWork PROVE polls'[Head(todo'[i])] >= 1
    <3>1. lpc[i] \in AtWork
      BY <2>3, <2>11
    <3>2. Head(todo[i]) \in Managers /\ polls[Head(todo[i])] >= 1
      BY <2>6, <3>1 DEF ReadInv
    <3> QED BY <2>1, <2>4, <3>2
  <2>12. \A n \in Managers : \A i \in 1..Len(groups'[n]) : groups'[n][i][1] = n
    BY <2>1 DEF ReadInv
  <2>13. \A i \in Readers : lpc'[i] = "reading" =>
           /\ \A cell \in fresh'[i] : cell[1][1] = Head(todo'[i])
           /\ \A j \in 1..Len(groups'[Head(todo'[i])]), r \in Regs :
                \/ r > reach'[i][groups'[Head(todo'[i])][j]]
                \/ <<groups'[Head(todo'[i])][j], r>> \in fresh'[i]
                \/ mem'[groups'[Head(todo'[i])][j]][r] = polls'[Head(todo'[i])]
    BY <2>1, <2>8, <2>10
  <2>14. \A i \in Readers : lpc'[i] \in AtWork => polls'[Head(todo'[i])] >= 1
    BY <2>9, <2>11
  <2> QED BY <2>7, <2>12, <2>13, <2>14 DEF ReadInv
<1>6. ASSUME NEW l \in Readers, WriteRegister(l) PROVE ReadInv'
  <2>1. PICK cell \in fresh[l] :
          /\ mem' = [mem EXCEPT ![cell[1]][cell[2]] = polls[Head(todo[l])]]
          /\ fresh' = [fresh EXCEPT ![l] = @ \ {cell}]
    BY <1>6 DEF WriteRegister
  <2>2. lpc[l] = "reading" /\ UNCHANGED <<lpc, todo, reach, groups, polls>>
    BY <1>6 DEF WriteRegister
  <2>3. /\ cell[1] \in Groups /\ cell[2] \in Regs /\ cell[1][1] = Head(todo[l])
        /\ \A g \in Groups, r \in Regs :
             /\ mem[g][r] \in Nat
             /\ mem'[g][r] = IF g = cell[1] /\ r = cell[2] THEN polls[Head(todo[l])] ELSE mem[g][r]
             /\ mem'[g][r] >= mem[g][r]
    BY <2>1, <2>2, WriteIsNewer
  <2>4. \A i \in Readers : fresh'[i] = IF i = l THEN fresh[l] \ {cell} ELSE fresh[i]
    BY <2>1 DEF TypeOK
  <2>5. \A g \in Groups, r \in Regs : mem'[g][r] <= polls'[g[1]]
    <3>1. polls[Head(todo[l])] \in Nat
      BY <2>1, <2>2, WriteIsNewer
    <3> QED BY <2>2, <2>3, <3>1 DEF ReadInv
  <2>6. ASSUME NEW i \in Readers, lpc'[i] = "reading"
        PROVE  /\ \A c \in fresh'[i] : c[1][1] = Head(todo'[i])
               /\ \A j \in 1..Len(groups'[Head(todo'[i])]), r \in Regs :
                    \/ r > reach'[i][groups'[Head(todo'[i])][j]]
                    \/ <<groups'[Head(todo'[i])][j], r>> \in fresh'[i]
                    \/ mem'[groups'[Head(todo'[i])][j]][r] = polls'[Head(todo'[i])]
    <3>1. \A c \in fresh'[i] : c[1][1] = Head(todo'[i])
      BY <2>2, <2>4, <2>6 DEF ReadInv
    <3>2. Head(todo[i]) \in Managers /\ Head(todo[l]) \in Managers
      BY <2>2, <2>6, HeadsAreManagers
    <3>3. ASSUME NEW j \in 1..Len(groups[Head(todo[i])]), NEW r \in Regs,
                 ~(r > reach[i][groups[Head(todo[i])][j]]),
                 <<groups[Head(todo[i])][j], r>> \notin fresh'[i]
          PROVE  mem'[groups[Head(todo[i])][j]][r] = polls[Head(todo[i])]
      <4> DEFINE g == groups[Head(todo[i])][j]
      <4>1. g \in Groups /\ g[1] = Head(todo[i])
        <5>1. groups[Head(todo[i])] \in Seq(Groups)
          BY <3>2 DEF TypeOK
        <5> QED BY <3>2, <5>1 DEF ReadInv
      <4>2. <<g, r>> \in fresh[i] \/ mem[g][r] = polls[Head(todo[i])]
        BY <2>2, <2>6, <3>3 DEF ReadInv
      <4> HIDE DEF g
      <4>3. CASE i = l
        <5>1. CASE <<g, r>> \in fresh[l]
          <6>1. <<g, r>> = cell
            BY <2>4, <3>3, <4>3, <5>1 DEF g
          <6> QED BY <2>3, <4>1, <4>3, <6>1 DEF g
        <5>2. CASE <<g, r>> \notin fresh[l]
          BY <2>3, <4>1, <4>2, <4>3, <5>2 DEF g
        <5> QED BY <5>1, <5>2
      <4>4. CASE i # l
        <5>1. <<g, r>> \notin fresh[i]
          BY <2>4, <3>3, <4>4 DEF g
        <5>2. Head(todo[i]) # Head(todo[l])
          BY <2>2, <2>6, <3>2, <4>4 DEF LockInv
        <5>3. g # cell[1]
          BY <2>3, <4>1, <5>2
        <5> QED BY <2>3, <4>1, <4>2, <5>1, <5>3 DEF g
      <4> QED BY <4>3, <4>4
    <3> QED BY <2>2, <3>1, <3>3
  <2>7. \A i \in Readers : lpc'[i] \in AtWork => polls'[Head(todo'[i])] >= 1
    BY <2>2 DEF ReadInv
  <2>8. \A n \in Managers : \A i \in 1..Len(groups'[n]) : groups'[n][i][1] = n
    BY <2>2 DEF ReadInv
  <2> QED BY <2>5, <2>6, <2>7, <2>8 DEF ReadInv
<1>7. ASSUME NEW l \in Readers, ReadEnd(l) PROVE ReadInv'
  <2>1. /\ lpc[l] = "reading" /\ lpc' = [lpc EXCEPT ![l] = "pushing"]
        /\ UNCHANGED <<todo, groups, mem, polls>>
        /\ \A i \in Readers \ {l} : fresh'[i] = fresh[i] /\ reach'[i] = reach[i]
    BY <1>7 DEF ReadEnd, Goto, TypeOK
  <2>2. \A i \in Readers : lpc'[i] = IF i = l THEN "pushing" ELSE lpc[i]
    BY <2>1 DEF TypeOK
  <2> QED BY <2>1, <2>2 DEF ReadInv
<1>8. ASSUME NEW m \in Managers, Load(m) PROVE ReadInv'
  <2>9. PICK n \in 0..MaxGroups : \E supported \in [1..n -> BOOLEAN] :
          groups' = [groups EXCEPT ![m] = [i \in 1..n |-> <<m, loads'[m], i, supported[i]>>]]
    BY <1>8 DEF Load
  <2>1. PICK supported \in [1..n -> BOOLEAN] :
          groups' = [groups EXCEPT ![m] = [i \in 1..n |-> <<m, loads'[m], i, supported[i]>>]]
    BY <2>9
  <2>2. mu[m] = NoOne /\ UNCHANGED <<mem, polls, lpc, todo, fresh, reach>>
    BY <1>8 DEF Load, loopVars
  <2>3. \A o \in Managers : groups'[o] = IF o = m THEN [i \in 1..n |-> <<m, loads'[m], i, supported[i]>>] ELSE groups[o]
    BY <2>1 DEF TypeOK
  <2>4. \A o \in Managers : \A i \in 1..Len(groups'[o]) : groups'[o][i][1] = o
    <3> SUFFICES ASSUME NEW o \in Managers, NEW i \in 1..Len(groups'[o]) PROVE groups'[o][i][1] = o
      OBVIOUS
    <3>1. CASE o = m
      <4> DEFINE new == [j \in 1..n |-> <<m, loads'[m], j, supported[j]>>]
      <4>1. groups'[o] = new
        BY <2>3, <3>1
      <4>2. n \in Nat
        BY PollerAssumption
      <4>3. Len(new) = n
        BY <4>2
      <4>4. i \in 1..n
        BY <4>1, <4>3
      <4>5. new[i] = <<m, loads'[m], i, supported[i]>>
        BY <4>4
      <4> HIDE DEF new
      <4> QED BY <3>1, <4>1, <4>5
    <3>2. CASE o # m
      BY <2>3, <3>2 DEF ReadInv
    <3> QED BY <3>1, <3>2
  <2>5. \A l \in Readers : lpc[l] = "reading" => Head(todo[l]) \in Managers /\ Head(todo[l]) # m
    BY <1>0, <2>2, HeadsAreManagers DEF LockInv
  <2>6. \A l \in Readers : lpc[l] = "reading" => groups'[Head(todo[l])] = groups[Head(todo[l])]
    BY <2>3, <2>5
  <2>7. \A l \in Readers : lpc'[l] = "reading" =>
           /\ \A cell \in fresh'[l] : cell[1][1] = Head(todo'[l])
           /\ \A j \in 1..Len(groups'[Head(todo'[l])]), r \in Regs :
                \/ r > reach'[l][groups'[Head(todo'[l])][j]]
                \/ <<groups'[Head(todo'[l])][j], r>> \in fresh'[l]
                \/ mem'[groups'[Head(todo'[l])][j]][r] = polls'[Head(todo'[l])]
    <3> SUFFICES ASSUME NEW l \in Readers, lpc'[l] = "reading"
                 PROVE  /\ \A cell \in fresh'[l] : cell[1][1] = Head(todo'[l])
                        /\ \A j \in 1..Len(groups'[Head(todo'[l])]), r \in Regs :
                             \/ r > reach'[l][groups'[Head(todo'[l])][j]]
                             \/ <<groups'[Head(todo'[l])][j], r>> \in fresh'[l]
                             \/ mem'[groups'[Head(todo'[l])][j]][r] = polls'[Head(todo'[l])]
      OBVIOUS
    <3>1. /\ lpc[l] = "reading" /\ groups'[Head(todo[l])] = groups[Head(todo[l])]
          /\ todo' = todo /\ fresh' = fresh /\ reach' = reach /\ mem' = mem /\ polls' = polls
      BY <2>2, <2>6
    <3>2. /\ \A cell \in fresh[l] : cell[1][1] = Head(todo[l])
          /\ \A j \in 1..Len(groups[Head(todo[l])]), r \in Regs :
               \/ r > reach[l][groups[Head(todo[l])][j]]
               \/ <<groups[Head(todo[l])][j], r>> \in fresh[l]
               \/ mem[groups[Head(todo[l])][j]][r] = polls[Head(todo[l])]
      BY <3>1 DEF ReadInv
    <3> QED BY <3>1, <3>2
  <2>8. /\ \A g \in Groups, r \in Regs : mem'[g][r] <= polls'[g[1]]
        /\ \A l \in Readers : lpc'[l] \in AtWork => polls'[Head(todo'[l])] >= 1
    BY <2>2 DEF ReadInv
  <2> QED BY <2>4, <2>7, <2>8 DEF ReadInv
<1>9. ASSUME NEW l \in Readers, ManagerPolled(l) \/ RoundOver(l) PROVE ReadInv'
  <2>1. /\ UNCHANGED <<groups, mem, polls, fresh, reach>> /\ \A i \in Readers \ {l} : todo'[i] = todo[i]
        /\ \E to \in {"next", "select"} : lpc' = [lpc EXCEPT ![l] = to]
    BY <1>9 DEF ManagerPolled, RoundOver, Goto, schedVars, TypeOK
  <2> QED BY <1>2, <2>1
<1>10. ASSUME NEW l \in Readers, Push(l) \/ PushDropped(l) PROVE ReadInv'
  BY <1>3, <1>10 DEF Push, PushDropped, schedVars
<1>11. ASSUME NEW l \in Loops, LoopNext(l) PROVE ReadInv'
  <2>1. /\ l \in Readers /\ UNCHANGED <<groups, mem, polls, fresh, reach>>
        /\ \A i \in Readers \ {l} : todo'[i] = todo[i]
        /\ \E to \in {"next", "done", "returned"} : lpc' = [lpc EXCEPT ![l] = to]
    BY <1>11 DEF LoopNext, LoopSeesStop, LoopSeesTick, LoopReturn, Goto, schedVars, TypeOK, Readers
  <2> QED BY <1>2, <2>1
<1>12. ASSUME NEW m \in Managers, UserRead(m) PROVE ReadInv'
  <2>1. /\ User \in Readers /\ UNCHANGED <<groups, mem, polls, fresh, reach>>
        /\ \A i \in Readers \ {User} : todo'[i] = todo[i]
        /\ lpc' = [lpc EXCEPT ![User] = "next"]
    BY <1>12 DEF UserRead, schedVars, TypeOK, Readers
  <2> QED BY <1>2, <2>1
<1>13. ASSUME NEW m \in Managers, AddManager(m) \/ UserStart(m) \/ UserStop(m) PROVE ReadInv'
  BY <1>3, <1>13 DEF AddManager, UserStart, UserStop, loopVars, schedVars
<1>14. CASE StopBegin \/ OwnerNext
  BY <1>3, <1>14 DEF StopBegin, OwnerNext, StopWaited, StopManager, StopReturn, loopVars, schedVars
<1>15. ASSUME NEW l \in Loops, Tick(l) PROVE ReadInv'
  BY <1>3, <1>15 DEF Tick, schedVars
<1>16. ASSUME NEW k \in Consumers, ConsumerNext(k) PROVE ReadInv'
  BY <1>3, <1>16 DEF ConsumerNext, ConsumerReturn, ConsumerReceive, Callback, loopVars, schedVars
<1>17. CASE UNCHANGED vars
  BY <1>3, <1>17 DEF vars, loopVars, schedVars
<1> QED
  BY <1>4, <1>5, <1>6, <1>7, <1>8, <1>9, <1>10, <1>11, <1>12, <1>13, <1>14, <1>15, <1>16, <1>17
     DEF Next, ReaderNext

-----------------------------------------------------------------------------
(***************************************************************************)
(* What travels to the callback is never newer than what its array holds.  *)
(***************************************************************************)
LEMMA NextHand == TypeOK /\ HandInv /\ [Next]_vars => HandInv'
<1> SUFFICES ASSUME TypeOK, HandInv, [Next]_vars PROVE HandInv'
  OBVIOUS
<1> USE DEF pollerVars
<1>0. starts \in Nat
  BY PollerAssumption DEF TypeOK
\* No consumer starts or receives.
<1>1. ASSUME starts' = starts,
             \A k \in Consumers : /\ cpc'[k] = "callback" => cpc[k] = "callback" /\ hand'[k] = hand[k]
                                  /\ cpc'[k] # "off" => cpc[k] # "off"
      PROVE  HandInv'
  BY <1>1 DEF HandInv
<1>2. ASSUME UNCHANGED <<cpc, hand, starts>> PROVE HandInv'
  BY <1>2 DEF HandInv
<1>3. ASSUME NEW k \in Consumers, ConsumerReceive(k) PROVE HandInv'
  <2>1. /\ hand' = [hand EXCEPT ![k] = <<Head(dataCh[k[1]])>>]
        /\ cpc[k] = "select" /\ cpc' = [cpc EXCEPT ![k] = "callback"] /\ starts' = starts
    BY <1>3 DEF ConsumerReceive
  <2>2. Len(hand'[k]) = 1
    BY <2>1 DEF TypeOK
  <2>3. \A j \in Consumers \ {k} : hand'[j] = hand[j] /\ cpc'[j] = cpc[j]
    BY <2>1 DEF TypeOK
  <2> QED BY <2>1, <2>2, <2>3 DEF HandInv
<1>4. ASSUME NEW k \in Consumers, ConsumerReturn(k) \/ Callback(k) PROVE HandInv'
  <2>1. /\ cpc[k] # "off" /\ starts' = starts /\ \A j \in Consumers \ {k} : hand'[j] = hand[j]
        /\ \E to \in {"returned", "select"} : cpc' = [cpc EXCEPT ![k] = to]
    BY <1>4 DEF ConsumerReturn, Callback, TypeOK
  <2>2. cpc'[k] # "callback" /\ \A j \in Consumers \ {k} : cpc'[j] = cpc[j]
    BY <2>1 DEF TypeOK
  <2> QED BY <1>1, <2>1, <2>2
<1>5. CASE Start
  <2>1. /\ starts' = starts + 1 /\ hand' = hand
        /\ cpc' = [k \in Consumers |-> IF Added(k[1]) /\ k[2] = starts' THEN "select" ELSE cpc[k]]
    BY <1>5 DEF Start
  <2>2. \A k \in Consumers : k[2] \in Nat
    BY PollerAssumption DEF Consumers, Readers, Loops, User
  <2>3. ASSUME NEW k \in Consumers, cpc'[k] # "off" PROVE k[2] <= starts'
    <3>1. CASE k[2] = starts'
      BY <1>0, <2>1, <3>1
    <3>2. CASE k[2] # starts'
      BY <1>0, <2>1, <2>2, <2>3, <3>2 DEF HandInv
    <3> QED BY <3>1, <3>2
  <2>4. \A k \in Consumers : cpc'[k] = "callback" => Len(hand'[k]) = 1
    BY <2>1 DEF HandInv
  <2> QED BY <2>3, <2>4 DEF HandInv
<1>6. ASSUME NEW m \in Managers, UserStart(m) PROVE HandInv'
  <2> DEFINE k == <<m, User>>
  <2>1. /\ k \in Consumers /\ k[2] = 0
        /\ cpc' = [cpc EXCEPT ![k] = "select"] /\ hand' = hand /\ starts' = starts
    BY <1>6 DEF UserStart, Consumers, Readers, User
  <2> HIDE DEF k
  <2>2. cpc'[k] = "select" /\ \A j \in Consumers \ {k} : cpc'[j] = cpc[j]
    BY <2>1 DEF TypeOK
  <2> QED BY <1>0, <2>1, <2>2 DEF HandInv
<1>7. ASSUME NEW l \in Readers, ReaderNext(l) PROVE HandInv'
  BY <1>2, <1>7 DEF ReaderNext, RoundOver, ReadBegin, WriteRegister, ReadEnd, Push, PushDropped,
     ManagerPolled, streamVars
<1>8. ASSUME NEW l \in Loops, Tick(l) \/ LoopNext(l) PROVE HandInv'
  BY <1>2, <1>8 DEF Tick, LoopNext, LoopSeesStop, LoopSeesTick, LoopReturn, streamVars
<1>9. ASSUME NEW m \in Managers, AddManager(m) \/ Load(m) \/ UserStop(m) \/ UserRead(m) PROVE HandInv'
  BY <1>2, <1>9 DEF AddManager, Load, UserStop, UserRead, streamVars
<1>10. CASE StopBegin \/ OwnerNext \/ UNCHANGED vars
  BY <1>2, <1>10 DEF StopBegin, OwnerNext, StopWaited, StopManager, StopReturn, streamVars, vars
<1> QED
  BY <1>3, <1>4, <1>5, <1>6, <1>7, <1>8, <1>9, <1>10 DEF Next, ConsumerNext

\* Taking from, and adding to, a sequence of items.
AllFresh(s) == \A i \in 1..Len(s) : Fresh(s[i])

LEMMA AllFreshTail ==
    ASSUME NEW s \in Seq(Items), s # <<>>, AllFresh(s)
    PROVE  AllFresh(Tail(s)) /\ Fresh(Head(s)) /\ AllFresh(<<Head(s)>>)
<1>1. /\ Len(s) \in Nat /\ Head(s) = s[1] /\ 1 \in 1..Len(s) /\ Len(Tail(s)) = Len(s) - 1
      /\ \A i \in 1..Len(Tail(s)) : Tail(s)[i] = s[i + 1]
  OBVIOUS
<1>2. Fresh(Head(s))
  BY <1>1 DEF AllFresh
<1>3. AllFresh(Tail(s))
  <2> SUFFICES ASSUME NEW i \in 1..Len(Tail(s)) PROVE Fresh(Tail(s)[i])
    BY DEF AllFresh
  <2>1. i + 1 \in 1..Len(s)
    BY <1>1
  <2> QED BY <1>1, <2>1 DEF AllFresh
<1>4. AllFresh(<<Head(s)>>)
  <2>1. Len(<<Head(s)>>) = 1 /\ <<Head(s)>>[1] = Head(s)
    OBVIOUS
  <2> QED BY <1>2, <2>1 DEF AllFresh
<1> QED BY <1>2, <1>3, <1>4

LEMMA AllFreshAppend ==
    ASSUME NEW s \in Seq(Items), NEW x \in Items, AllFresh(s), Fresh(x)
    PROVE  AllFresh(Append(s, x))
<1> DEFINE t == Append(s, x)
<1>1. /\ Len(s) \in Nat /\ Len(t) = Len(s) + 1 /\ t[Len(s) + 1] = x
      /\ \A i \in 1..Len(s) : t[i] = s[i]
  OBVIOUS
<1> HIDE DEF t
<1>2. AllFresh(t)
  <2> SUFFICES ASSUME NEW i \in 1..Len(t) PROVE Fresh(t[i])
    BY DEF AllFresh
  <2>1. i \in 1..Len(s) \/ i = Len(s) + 1
    BY <1>1
  <2> QED BY <1>1, <2>1 DEF AllFresh
<1> QED BY <1>2 DEF t

\* Arrays only get newer.
LEMMA ArraysGetNewer ==
    ASSUME TypeOK, RoundInv, ReadInv, [Next]_vars
    PROVE  \A g \in Groups, r \in Regs :
             mem[g][r] \in Nat /\ mem'[g][r] \in Nat /\ mem'[g][r] >= mem[g][r]
<1>1. \A g \in Groups, r \in Regs : mem[g][r] \in Nat
  BY PollerAssumption DEF TypeOK
<1>2. CASE mem' = mem
  BY <1>1, <1>2
<1>3. ASSUME NEW l \in Readers, WriteRegister(l)
      PROVE  \A g \in Groups, r \in Regs : mem'[g][r] \in Nat /\ mem'[g][r] >= mem[g][r]
  <2>1. PICK cell \in fresh[l] : mem' = [mem EXCEPT ![cell[1]][cell[2]] = polls[Head(todo[l])]]
    BY <1>3 DEF WriteRegister
  <2>2. lpc[l] = "reading"
    BY <1>3 DEF WriteRegister
  <2>3. polls[Head(todo[l])] \in Nat /\ \A g \in Groups, r \in Regs :
          /\ mem[g][r] \in Nat
          /\ mem'[g][r] = IF g = cell[1] /\ r = cell[2] THEN polls[Head(todo[l])] ELSE mem[g][r]
          /\ mem'[g][r] >= mem[g][r]
    BY <2>1, <2>2, WriteIsNewer
  <2> QED BY <2>3
<1>4. mem' = mem \/ \E l \in Readers : WriteRegister(l)
  BY DEF Next, OwnerNext, LoopNext, ReaderNext, ConsumerNext, Start, StopBegin, StopWaited,
     StopManager, StopReturn, AddManager, Load, UserStart, UserStop, UserRead, Tick, LoopSeesStop,
     LoopSeesTick, LoopReturn, RoundOver, ReadBegin, ReadEnd, Push, PushDropped, ManagerPolled,
     ConsumerReturn, ConsumerReceive, Callback, schedVars, vars
<1> QED BY <1>1, <1>2, <1>3, <1>4

\* A read reaches no further than its group.
LEMMA ReachTyped ==
    ASSUME TypeOK, NEW l \in Readers, NEW g \in Groups
    PROVE  reach[l][g] \in 0..GroupSize
<1>1. reach \in [Readers -> [Groups -> 0..GroupSize]]
  BY DEF TypeOK
<1> QED BY <1>1

LEMMA FreshStays ==
    ASSUME TypeOK, RoundInv, ReadInv, [Next]_vars, NEW item \in Items, Fresh(item)
    PROVE  Fresh(item)'
<1>1. item.group \in Groups /\ item.poll \in Nat
  BY PollerAssumption DEF Items
<1>2. \A r \in 1..item.reach :
        /\ mem[item.group][r] \in Nat /\ mem'[item.group][r] \in Nat
        /\ mem'[item.group][r] >= mem[item.group][r]
        /\ mem[item.group][r] >= item.poll
  <2>1. \A r \in 1..item.reach : r \in Regs
    BY PollerAssumption DEF Items, Regs
  <2> QED BY <1>1, <2>1, ArraysGetNewer DEF Fresh
<1> QED BY <1>1, <1>2 DEF Fresh

LEMMA NextFresh ==
    TypeOK /\ RoundInv /\ ReadInv /\ HandInv /\ FreshInv /\ NeverOlderThanPushed /\ [Next]_vars
        => FreshInv' /\ NeverOlderThanPushed'
<1> SUFFICES ASSUME TypeOK, RoundInv, ReadInv, HandInv, FreshInv, NeverOlderThanPushed, [Next]_vars
             PROVE  FreshInv' /\ NeverOlderThanPushed'
  OBVIOUS
<1> USE PollerAssumption
<1>1. /\ \A l \in Readers : toPush[l] \in Seq(Items) /\ AllFresh(toPush[l])
      /\ \A m \in Managers : dataCh[m] \in Seq(Items) /\ AllFresh(dataCh[m])
      /\ \A k \in Consumers : hand[k] \in Seq(Items) /\ AllFresh(hand[k])
  BY DEF FreshInv, AllFresh, TypeOK
<1>2. \A item \in Items : Fresh(item) => \A r \in 1..item.reach : mem'[item.group][r] >= item.poll
  BY FreshStays DEF Fresh
\* The sequences a step builds are of items that were fresh before it.
<1>3. ASSUME \A l \in Readers : toPush'[l] \in Seq(Items) /\ AllFresh(toPush'[l]),
             \A m \in Managers : dataCh'[m] \in Seq(Items) /\ AllFresh(dataCh'[m]),
             \A k \in Consumers : hand'[k] \in Seq(Items) /\ AllFresh(hand'[k])
      PROVE  FreshInv'
  <2>1. \A s \in Seq(Items) : AllFresh(s) =>
           \A i \in 1..Len(s) : \A r \in 1..s[i].reach : mem'[s[i].group][r] >= s[i].poll
    <3> SUFFICES ASSUME NEW s \in Seq(Items), AllFresh(s), NEW i \in 1..Len(s)
                 PROVE  \A r \in 1..s[i].reach : mem'[s[i].group][r] >= s[i].poll
      OBVIOUS
    <3>1. s[i] \in Items /\ Fresh(s[i])
      BY DEF AllFresh
    <3> QED BY <1>2, <3>1
  <2>2. \A l \in Readers : \A i \in 1..Len(toPush'[l]) : \A r \in 1..toPush'[l][i].reach :
           mem'[toPush'[l][i].group][r] >= toPush'[l][i].poll
    BY <1>3, <2>1
  <2>3. \A m \in Managers : \A i \in 1..Len(dataCh'[m]) : \A r \in 1..dataCh'[m][i].reach :
           mem'[dataCh'[m][i].group][r] >= dataCh'[m][i].poll
    BY <1>3, <2>1
  <2>4. \A k \in Consumers : \A i \in 1..Len(hand'[k]) : \A r \in 1..hand'[k][i].reach :
           mem'[hand'[k][i].group][r] >= hand'[k][i].poll
    BY <1>3, <2>1
  <2> QED BY <2>2, <2>3, <2>4 DEF FreshInv, Fresh
<1>4. ASSUME got' = got PROVE NeverOlderThanPushed'
  BY <1>4 DEF NeverOlderThanPushed
<1>5. ASSUME UNCHANGED <<toPush, dataCh, hand, got>> PROVE FreshInv' /\ NeverOlderThanPushed'
  BY <1>1, <1>3, <1>4, <1>5
<1>6. ASSUME NEW l \in Readers, NEW s \in Seq(Items), AllFresh(s), toPush' = [toPush EXCEPT ![l] = s],
             UNCHANGED <<dataCh, hand, got>>
      PROVE  FreshInv' /\ NeverOlderThanPushed'
  <2>1. \A i \in Readers : toPush'[i] = IF i = l THEN s ELSE toPush[i]
    BY <1>6 DEF TypeOK
  <2> QED BY <1>1, <1>3, <1>4, <1>6, <2>1
<1>7. ASSUME NEW l \in Readers, ReadEnd(l) PROVE FreshInv' /\ NeverOlderThanPushed'
  <2> DEFINE m == Head(todo[l])
             new == [i \in 1..Len(groups[m]) |-> [group |-> groups[m][i], poll |-> polls[m],
                                                  reach |-> reach[l][groups[m][i]]]]
  <2>1. /\ lpc[l] = "reading" /\ fresh[l] = {} /\ toPush' = [toPush EXCEPT ![l] = new]
        /\ UNCHANGED <<dataCh, hand, got>>
    BY <1>7 DEF ReadEnd, Goto, AllWritten, streamVars
  <2>2. m \in Managers
    BY <2>1, HeadsAreManagers DEF AtWork
  <2>3. groups[m] \in Seq(Groups) /\ polls[m] \in 1..MaxPolls
    BY <2>1, <2>2 DEF TypeOK, ReadInv, AtWork
  <2>4. ASSUME NEW i \in 1..Len(groups[m]), NEW r \in 1..reach[l][groups[m][i]]
        PROVE  mem[groups[m][i]][r] = polls[m]
    <3>1. groups[m][i] \in Groups
      BY <2>3
    <3>2. reach[l][groups[m][i]] \in 0..GroupSize
      BY <3>1, ReachTyped
    <3>3. r \in Regs /\ ~(r > reach[l][groups[m][i]])
      BY <3>2 DEF Regs
    <3> QED BY <2>1, <3>3 DEF ReadInv
  <2> HIDE DEF m
  <2>5. /\ new \in Seq(Items) /\ Len(new) = Len(groups[m])
        /\ \A i \in 1..Len(groups[m]) : /\ new[i].group = groups[m][i] /\ new[i].poll = polls[m]
                                        /\ new[i].reach = reach[l][groups[m][i]]
    <3>1. Len(groups[m]) \in Nat /\ \A i \in 1..Len(groups[m]) : groups[m][i] \in Groups
      BY <2>3
    <3>2. \A i \in 1..Len(groups[m]) :
            [group |-> groups[m][i], poll |-> polls[m], reach |-> reach[l][groups[m][i]]] \in Items
      <4>1. \A i \in 1..Len(groups[m]) : reach[l][groups[m][i]] \in 0..GroupSize
        BY <3>1, ReachTyped
      <4> QED BY <2>3, <3>1, <4>1 DEF Items
    <3> QED BY <3>1, <3>2
  <2> HIDE DEF new
  <2>6. AllFresh(new)
    <3> SUFFICES ASSUME NEW i \in 1..Len(new), NEW r \in 1..new[i].reach
                 PROVE  mem[new[i].group][r] >= new[i].poll
      BY DEF AllFresh, Fresh
    <3>1. i \in 1..Len(groups[m]) /\ r \in 1..reach[l][groups[m][i]]
      BY <2>5
    <3>2. mem[groups[m][i]][r] = polls[m]
      BY <2>4, <3>1
    <3>3. polls[m] \in Nat
      BY <2>3
    <3> QED BY <2>5, <3>1, <3>2, <3>3
  <2> QED BY <1>6, <2>1, <2>5, <2>6
<1>8. ASSUME NEW l \in Readers, Push(l) PROVE FreshInv' /\ NeverOlderThanPushed'
  <2> DEFINE m == Head(todo[l])
             item == Head(toPush[l])
  <2>1. /\ lpc[l] = "pushing" /\ toPush[l] # <<>>
        /\ dataCh' = [dataCh EXCEPT ![m] = Append(dataCh[m], item)]
        /\ toPush' = [toPush EXCEPT ![l] = Tail(toPush[l])]
        /\ UNCHANGED <<hand, got>>
    BY <1>8 DEF Push, Enqueued
  <2>2. m \in Managers
    BY <2>1, HeadsAreManagers DEF AtWork
  <2>3. item \in Items /\ Fresh(item) /\ Tail(toPush[l]) \in Seq(Items) /\ AllFresh(Tail(toPush[l]))
    <3>1. toPush[l] \in Seq(Items) /\ AllFresh(toPush[l])
      BY <1>1
    <3>2. item \in Items /\ Tail(toPush[l]) \in Seq(Items)
      BY <2>1, <3>1
    <3> QED BY <2>1, <3>1, <3>2, AllFreshTail
  <2> HIDE DEF m, item
  <2>4. Append(dataCh[m], item) \in Seq(Items) /\ AllFresh(Append(dataCh[m], item))
    BY <1>1, <2>2, <2>3, AllFreshAppend
  <2>5. \A i \in Readers : toPush'[i] = IF i = l THEN Tail(toPush[l]) ELSE toPush[i]
    BY <2>1 DEF TypeOK
  <2>6. \A n \in Managers : dataCh'[n] = IF n = m THEN Append(dataCh[m], item) ELSE dataCh[n]
    BY <2>1 DEF TypeOK
  <2> QED BY <1>1, <1>3, <1>4, <2>1, <2>3, <2>4, <2>5, <2>6
<1>9. ASSUME NEW l \in Readers, PushDropped(l) PROVE FreshInv' /\ NeverOlderThanPushed'
  <2>1. /\ toPush[l] # <<>> /\ toPush' = [toPush EXCEPT ![l] = Tail(toPush[l])]
        /\ UNCHANGED <<dataCh, hand, got>>
    BY <1>9 DEF PushDropped, streamVars
  <2>2. toPush[l] \in Seq(Items) /\ AllFresh(toPush[l]) /\ Tail(toPush[l]) \in Seq(Items)
    <3>1. toPush[l] \in Seq(Items)
      BY <1>1
    <3> QED BY <1>1, <2>1, <3>1
  <2> QED BY <1>6, <2>1, <2>2, AllFreshTail
<1>10. ASSUME NEW k \in Consumers, ConsumerReceive(k) PROVE FreshInv' /\ NeverOlderThanPushed'
  <2> DEFINE m == k[1]
  <2>1. /\ dataCh[m] # <<>> /\ dataCh' = [dataCh EXCEPT ![m] = Tail(dataCh[m])]
        /\ hand' = [hand EXCEPT ![k] = <<Head(dataCh[m])>>] /\ UNCHANGED <<toPush, got>>
    BY <1>10 DEF ConsumerReceive, Remaining, loopVars
  <2>2. m \in Managers
    BY DEF Consumers
  <2> HIDE DEF m
  <2>3. /\ Tail(dataCh[m]) \in Seq(Items) /\ AllFresh(Tail(dataCh[m]))
        /\ <<Head(dataCh[m])>> \in Seq(Items) /\ AllFresh(<<Head(dataCh[m])>>)
    <3>1. dataCh[m] \in Seq(Items) /\ AllFresh(dataCh[m])
      BY <1>1, <2>2
    <3>2. Head(dataCh[m]) \in Items /\ Tail(dataCh[m]) \in Seq(Items)
      BY <2>1, <3>1
    <3> QED BY <2>1, <3>1, <3>2, AllFreshTail
  <2>4. \A j \in Consumers : hand'[j] = IF j = k THEN <<Head(dataCh[m])>> ELSE hand[j]
    BY <2>1 DEF TypeOK
  <2>5. \A n \in Managers : dataCh'[n] = IF n = m THEN Tail(dataCh[m]) ELSE dataCh[n]
    BY <2>1 DEF TypeOK
  <2> QED BY <1>1, <1>3, <1>4, <2>1, <2>3, <2>4, <2>5
<1>11. ASSUME NEW k \in Consumers, Callback(k) PROVE FreshInv' /\ NeverOlderThanPushed'
  <2> DEFINE m == k[1]
             item == hand[k][1]
             entry == [item |-> item, data |-> Seen(item)]
  <2>1. /\ cpc[k] = "callback" /\ hand' = [hand EXCEPT ![k] = <<>>]
        /\ got' = [got EXCEPT ![m] = Append(got[m], entry)] /\ UNCHANGED <<toPush, dataCh>>
    BY <1>11 DEF Callback, loopVars
  <2>2. m \in Managers
    BY DEF Consumers
  <2>3. hand[k] \in Seq(Items) /\ Len(hand[k]) = 1 /\ Fresh(item) /\ item \in Items
    <3>1. hand[k] \in Seq(Items) /\ Len(hand[k]) = 1 /\ AllFresh(hand[k])
      BY <1>1, <2>1 DEF HandInv
    <3> QED BY <3>1 DEF AllFresh
  <2>4. \A r \in 1..entry.item.reach : entry.data[r] >= entry.item.poll
    <3>1. CASE item.reach = 0
      BY <3>1
    <3>2. CASE item.reach # 0
      BY <2>3, <3>2 DEF Fresh, Seen
    <3> QED BY <3>1, <3>2
  <2> HIDE DEF m, entry
  <2>5. FreshInv'
    <3>1. \A j \in Consumers : hand'[j] = IF j = k THEN <<>> ELSE hand[j]
      BY <2>1 DEF TypeOK
    <3>2. <<>> \in Seq(Items) /\ AllFresh(<<>>)
      BY DEF AllFresh
    <3> QED BY <1>1, <1>3, <2>1, <3>1, <3>2
  <2>6. NeverOlderThanPushed'
    <3> SUFFICES ASSUME NEW n \in Managers, NEW i \in 1..Len(got'[n]),
                        NEW r \in 1..got'[n][i].item.reach
                 PROVE  got'[n][i].data[r] >= got'[n][i].item.poll
      BY DEF NeverOlderThanPushed
    <3>1. got'[n] = IF n = m THEN Append(got[m], entry) ELSE got[n]
      BY <2>1 DEF TypeOK
    <3>2. CASE n # m
      BY <3>1, <3>2 DEF NeverOlderThanPushed
    <3>3. CASE n = m
      <4>1. got[m] \in Seq([item : Items, data : Data])
        BY <2>2 DEF TypeOK
      <4>2. /\ Len(got[m]) \in Nat /\ Len(got'[n]) = Len(got[m]) + 1
            /\ got'[n][Len(got[m]) + 1] = entry
            /\ \A j \in 1..Len(got[m]) : got'[n][j] = got[m][j]
        BY <3>1, <3>3, <4>1
      <4>3. i \in 1..Len(got[m]) \/ i = Len(got[m]) + 1
        BY <4>2
      <4> QED BY <2>2, <2>4, <4>2, <4>3 DEF NeverOlderThanPushed
    <3> QED BY <3>2, <3>3
  <2> QED BY <2>5, <2>6
<1>12. ASSUME NEW l \in Readers, RoundOver(l) \/ ReadBegin(l) \/ WriteRegister(l) \/ ManagerPolled(l)
       PROVE  FreshInv' /\ NeverOlderThanPushed'
  BY <1>5, <1>12 DEF RoundOver, ReadBegin, WriteRegister, ManagerPolled, streamVars
<1>13. ASSUME NEW l \in Loops, Tick(l) \/ LoopNext(l) PROVE FreshInv' /\ NeverOlderThanPushed'
  BY <1>5, <1>13 DEF Tick, LoopNext, LoopSeesStop, LoopSeesTick, LoopReturn, streamVars
<1>14. ASSUME NEW m \in Managers,
              AddManager(m) \/ Load(m) \/ UserStart(m) \/ UserStop(m) \/ UserRead(m)
       PROVE  FreshInv' /\ NeverOlderThanPushed'
  BY <1>5, <1>14 DEF AddManager, Load, UserStart, UserStop, UserRead, loopVars, streamVars
<1>15. CASE Start \/ StopBegin \/ OwnerNext \/ UNCHANGED vars
  BY <1>5, <1>15 DEF Start, StopBegin, OwnerNext, StopWaited, StopManager, StopReturn,
     loopVars, streamVars, vars
<1>16. ASSUME NEW k \in Consumers, ConsumerReturn(k) PROVE FreshInv' /\ NeverOlderThanPushed'
  BY <1>5, <1>16 DEF ConsumerReturn, loopVars
<1> QED
  BY <1>7, <1>8, <1>9, <1>10, <1>11, <1>12, <1>13, <1>14, <1>15, <1>16 DEF Next, ReaderNext, ConsumerNext

-----------------------------------------------------------------------------
(***************************************************************************)
(* The order of a stream that was started once.                            *)
(***************************************************************************)
\* A push: what is sent is queued last.
LEMMA SentInOrder ==
    ASSUME NEW S, NEW R, NEW sent \in Seq(S), NEW done \in Seq(R), NEW held \in Seq(S),
           NEW queued \in Seq(S), NEW x \in S, InOrder(sent, done, held, queued)
    PROVE  InOrder(Append(sent, x), done, held, Append(queued, x))
<1> DEFINE s == Append(sent, x)
           q == Append(queued, x)
           d == Len(done)
           h == Len(held)
           n == Len(queued)
<1>1. d \in Nat /\ h \in Nat /\ n \in Nat /\ Len(sent) \in Nat /\ Len(sent) = d + h + n
  BY DEF InOrder
<1>2. /\ Len(s) = Len(sent) + 1 /\ s[Len(sent) + 1] = x /\ \A i \in 1..Len(sent) : s[i] = sent[i]
      /\ Len(q) = n + 1 /\ q[n + 1] = x /\ \A i \in 1..n : q[i] = queued[i]
  OBVIOUS
<1>3. /\ \A i \in 1..d : done[i].item = sent[i]
      /\ \A i \in 1..h : held[i] = sent[d + i]
      /\ \A i \in 1..n : queued[i] = sent[d + h + i]
  BY DEF InOrder
<1> HIDE DEF s, q, d, h, n
<1>4. Len(s) = d + h + Len(q)
  BY <1>1, <1>2
<1>5. \A i \in 1..d : done[i].item = s[i]
  <2>1. \A i \in 1..d : i \in 1..Len(sent)
    BY <1>1
  <2> QED BY <1>2, <1>3, <2>1
<1>6. ASSUME NEW i \in 1..h PROVE held[i] = s[d + i]
  <2>1. d + i \in 1..Len(sent)
    BY <1>1
  <2> QED BY <1>2, <1>3, <2>1
<1>7. ASSUME NEW i \in 1..Len(q) PROVE q[i] = s[d + h + i]
  <2>1. CASE i \in 1..n
    <3>1. d + h + i \in 1..Len(sent)
      BY <1>1, <2>1
    <3> QED BY <1>2, <1>3, <2>1, <3>1
  <2>2. CASE i = n + 1
    BY <1>1, <1>2, <2>2
  <2> QED BY <1>1, <1>2, <2>1, <2>2
<1> QED BY <1>4, <1>5, <1>6, <1>7 DEF InOrder, s, q, d, h, n

\* The consumer takes the head of the channel.
LEMMA TakenInOrder ==
    ASSUME NEW S, NEW R, NEW sent \in Seq(S), NEW done \in Seq(R), NEW queued \in Seq(S),
           queued # <<>>, InOrder(sent, done, <<>>, queued)
    PROVE  InOrder(sent, done, <<Head(queued)>>, Tail(queued))
<1> DEFINE d == Len(done)
           n == Len(queued)
           t == Tail(queued)
           one == <<Head(queued)>>
<1>1. d \in Nat /\ n \in Nat /\ n >= 1
  OBVIOUS
<1>2. /\ Len(t) = n - 1 /\ \A i \in 1..Len(t) : t[i] = queued[i + 1]
      /\ Len(one) = 1 /\ one[1] = queued[1]
  OBVIOUS
<1>3. /\ Len(sent) = d + n
      /\ \A i \in 1..d : done[i].item = sent[i]
      /\ \A i \in 1..n : queued[i] = sent[d + i]
  <2>1. Len(<<>>) = 0
    OBVIOUS
  <2> QED BY <1>1, <2>1 DEF InOrder
<1> HIDE DEF d, n, t, one
<1>4. Len(sent) = d + Len(one) + Len(t)
  BY <1>1, <1>2, <1>3
<1>5. \A i \in 1..Len(one) : one[i] = sent[d + i]
  BY <1>1, <1>2, <1>3
<1>6. ASSUME NEW i \in 1..Len(t) PROVE t[i] = sent[d + Len(one) + i]
  <2>1. i + 1 \in 1..n /\ d + (i + 1) = d + 1 + i
    BY <1>1, <1>2
  <2> QED BY <1>2, <1>3, <2>1
<1> QED BY <1>3, <1>4, <1>5, <1>6 DEF InOrder, d, n, t, one

\* The callback was given what the consumer held.
LEMMA DoneInOrder ==
    ASSUME NEW S, NEW R, NEW sent \in Seq(S), NEW done \in Seq(R), NEW held \in Seq(S),
           NEW queued \in Seq(S), NEW x \in R, Len(held) = 1, x.item = held[1],
           InOrder(sent, done, held, queued)
    PROVE  InOrder(sent, Append(done, x), <<>>, queued)
<1> DEFINE d == Len(done)
           n == Len(queued)
           e == Append(done, x)
<1>1. d \in Nat /\ n \in Nat
  OBVIOUS
<1>2. Len(e) = d + 1 /\ e[d + 1] = x /\ \A i \in 1..d : e[i] = done[i]
  OBVIOUS
<1>3. /\ Len(sent) = d + 1 + n
      /\ \A i \in 1..d : done[i].item = sent[i]
      /\ held[1] = sent[d + 1]
      /\ \A i \in 1..n : queued[i] = sent[d + 1 + i]
  BY <1>1 DEF InOrder
<1>4. Len(<<>>) = 0
  OBVIOUS
<1> HIDE DEF d, n, e
<1>5. Len(sent) = Len(e) + Len(<<>>) + n
  BY <1>1, <1>2, <1>3, <1>4
<1>6. ASSUME NEW i \in 1..Len(e) PROVE e[i].item = sent[i]
  <2>1. i \in 1..d \/ i = d + 1
    BY <1>1, <1>2
  <2> QED BY <1>2, <1>3, <2>1
<1>7. \A i \in 1..n : queued[i] = sent[Len(e) + Len(<<>>) + i]
  BY <1>1, <1>2, <1>3, <1>4
<1> QED BY <1>4, <1>5, <1>6, <1>7 DEF InOrder, d, n, e

LEMMA NextOrder ==
    TypeOK /\ RoundInv /\ HandInv /\ OrderInv /\ [Next]_vars => OrderInv'
<1> SUFFICES ASSUME TypeOK, RoundInv, HandInv, OrderInv, [Next]_vars PROVE OrderInv'
  OBVIOUS
<1> DEFINE Entries == [item : Items, data : Data]
<1>0. /\ \A m \in Managers : /\ pushed[m] \in Seq(Items) /\ dataCh[m] \in Seq(Items)
                             /\ got[m] \in Seq(Entries)
      /\ \A k \in Consumers : hand[k] \in Seq(Items) /\ k[1] \in Managers
  BY DEF TypeOK, Consumers
<1> HIDE DEF Entries
\* Nothing moves; consumers may start or return.
<1>1. ASSUME UNCHANGED <<pushed, got, hand, dataCh>>,
             \A k \in Consumers : /\ cpc'[k] = "callback" <=> cpc[k] = "callback"
                                  /\ cpc'[k] = "off" => cpc[k] = "off"
      PROVE  OrderInv'
  <2> SUFFICES ASSUME NEW m \in Managers, OnceStarted(m)' PROVE Ordered(m)'
    BY DEF OrderInv
  <2>1. OnceStarted(m)
    BY <1>1 DEF OnceStarted
  <2>2. Ordered(m)
    BY <2>1 DEF OrderInv
  <2> QED BY <1>1, <2>2 DEF Ordered
<1>2. ASSUME UNCHANGED <<pushed, got, hand, dataCh, cpc>> PROVE OrderInv'
  BY <1>1, <1>2
<1>3. CASE Start
  <2>1. /\ UNCHANGED <<pushed, got, hand, dataCh>>
        /\ cpc' = [k \in Consumers |-> IF Added(k[1]) /\ k[2] = starts' THEN "select" ELSE cpc[k]]
    BY <1>3 DEF Start
  <2>2. \A k \in Consumers : k[2] = starts' => cpc[k] = "off"
    BY <1>3, PollerAssumption DEF Start, HandInv, TypeOK
  <2> QED BY <1>1, <2>1, <2>2
<1>4. ASSUME NEW l \in Readers, Push(l) PROVE OrderInv'
  <2> DEFINE n == Head(todo[l])
             item == Head(toPush[l])
  <2>1. /\ lpc[l] = "pushing" /\ toPush[l] # <<>>
        /\ dataCh' = [dataCh EXCEPT ![n] = Append(dataCh[n], item)]
        /\ pushed' = [pushed EXCEPT ![n] = Append(pushed[n], item)]
        /\ UNCHANGED <<hand, got, cpc>>
    BY <1>4 DEF Push, Enqueued
  <2>2. n \in Managers
    BY <2>1, HeadsAreManagers DEF AtWork
  <2>3. item \in Items
    <3>1. toPush[l] \in Seq(Items)
      BY DEF TypeOK
    <3> QED BY <2>1, <3>1
  <2> HIDE DEF n, item
  <2> SUFFICES ASSUME NEW m \in Managers, OnceStarted(m)' PROVE Ordered(m)'
    BY DEF OrderInv
  <2>4. Ordered(m)
    BY <2>1 DEF OrderInv, OnceStarted
  <2>5. /\ dataCh'[m] = IF m = n THEN Append(dataCh[m], item) ELSE dataCh[m]
        /\ pushed'[m] = IF m = n THEN Append(pushed[m], item) ELSE pushed[m]
    BY <2>1 DEF TypeOK
  <2>6. \A held \in Seq(Items) : InOrder(pushed[m], got[m], held, dataCh[m])
                                   => InOrder(pushed'[m], got'[m], held, dataCh'[m])
    <3> SUFFICES ASSUME NEW held \in Seq(Items), InOrder(pushed[m], got[m], held, dataCh[m])
                 PROVE  InOrder(pushed'[m], got'[m], held, dataCh'[m])
      OBVIOUS
    <3>1. InOrder(Append(pushed[m], item), got[m], held, Append(dataCh[m], item))
      BY <1>0, <2>3, SentInOrder
    <3> QED BY <2>1, <2>5, <3>1
  <2>7. <<>> \in Seq(Items) /\ \A k \in Consumers : hand[k] \in Seq(Items)
    BY <1>0
  <2> QED BY <2>1, <2>4, <2>6, <2>7 DEF Ordered
<1>5. ASSUME NEW k \in Consumers, ConsumerReceive(k) PROVE OrderInv'
  <2> DEFINE n == k[1]
  <2>1. /\ cpc[k] = "select" /\ cpc' = [cpc EXCEPT ![k] = "callback"]
        /\ dataCh[n] # <<>> /\ dataCh' = [dataCh EXCEPT ![n] = Tail(dataCh[n])]
        /\ hand' = [hand EXCEPT ![k] = <<Head(dataCh[n])>>] /\ UNCHANGED <<pushed, got>>
    BY <1>5 DEF ConsumerReceive, Remaining
  <2>2. n \in Managers
    BY <1>0
  <2>3. \A j \in Consumers : IF j = k THEN cpc'[j] = "callback" /\ hand'[j] = <<Head(dataCh[n])>>
                                      ELSE cpc'[j] = cpc[j] /\ hand'[j] = hand[j]
    BY <2>1 DEF TypeOK
  <2>4. \A m \in Managers : dataCh'[m] = IF m = n THEN Tail(dataCh[n]) ELSE dataCh[m]
    BY <2>1 DEF TypeOK
  <2> SUFFICES ASSUME NEW m \in Managers, OnceStarted(m)' PROVE Ordered(m)'
    BY DEF OrderInv
  <2>5. OnceStarted(m)
    BY <2>1, <2>3 DEF OnceStarted
  <2>6. Ordered(m)
    BY <2>5 DEF OrderInv
  <2>7. CASE m = n
    <3>1. \A j \in Consumers : j[1] = m /\ cpc[j] = "callback" => j = k
      BY <2>1, <2>5, <2>7 DEF OnceStarted
    <3>2. InOrder(pushed[m], got[m], <<>>, dataCh[m])
      BY <2>1, <2>6, <3>1 DEF Ordered
    <3>3. InOrder(pushed[m], got[m], <<Head(dataCh[m])>>, Tail(dataCh[m]))
      BY <1>0, <2>1, <2>7, <3>2, TakenInOrder
    <3>4. \A j \in Consumers : j[1] = m /\ cpc'[j] = "callback" => j = k
      BY <2>3, <3>1
    <3>5. InOrder(pushed'[m], got'[m], hand'[k], dataCh'[m])
      BY <2>1, <2>3, <2>4, <2>7, <3>3
    <3>6. cpc'[k] = "callback" /\ k[1] = m
      BY <2>3, <2>7
    <3> QED BY <3>4, <3>5, <3>6 DEF Ordered
  <2>8. CASE m # n
    <3>1. \A j \in Consumers : j[1] = m => cpc'[j] = cpc[j] /\ hand'[j] = hand[j]
      BY <2>3, <2>8
    <3>2. dataCh'[m] = dataCh[m]
      BY <2>4, <2>8
    <3> QED BY <2>1, <2>6, <3>1, <3>2 DEF Ordered
  <2> QED BY <2>7, <2>8
<1>6. ASSUME NEW k \in Consumers, Callback(k) PROVE OrderInv'
  <2> DEFINE n == k[1]
             entry == [item |-> hand[k][1], data |-> Seen(hand[k][1])]
  <2>1. /\ cpc[k] = "callback" /\ cpc' = [cpc EXCEPT ![k] = "select"]
        /\ hand' = [hand EXCEPT ![k] = <<>>] /\ UNCHANGED <<pushed, dataCh>>
        /\ got' = [got EXCEPT ![n] = Append(got[n], entry)]
    BY <1>6 DEF Callback
  <2>2. n \in Managers
    BY <1>0
  <2>3. hand[k] \in Seq(Items) /\ Len(hand[k]) = 1
    BY <1>0, <2>1 DEF HandInv
  <2>4. entry \in Entries /\ entry.item = hand[k][1]
    <3>1. hand[k][1] \in Items
      BY <2>3
    <3>2. hand[k][1].group \in Groups
      BY <3>1 DEF Items
    <3>3. Seen(hand[k][1]) \in Data
      BY <3>2 DEF TypeOK, Seen, Data
    <3> QED BY <3>1, <3>3 DEF Entries
  <2> HIDE DEF n, entry
  <2>5. \A j \in Consumers : IF j = k THEN cpc'[j] = "select"
                                      ELSE cpc'[j] = cpc[j] /\ hand'[j] = hand[j]
    BY <2>1 DEF TypeOK
  <2>6. \A m \in Managers : got'[m] = IF m = n THEN Append(got[n], entry) ELSE got[m]
    BY <2>1 DEF TypeOK
  <2> SUFFICES ASSUME NEW m \in Managers, OnceStarted(m)' PROVE Ordered(m)'
    BY DEF OrderInv
  <2>7. OnceStarted(m)
    BY <2>1, <2>5 DEF OnceStarted
  <2>8. Ordered(m)
    BY <2>7 DEF OrderInv
  <2>9. CASE m = n
    <3>1. k[1] = m
      BY <2>9 DEF n
    <3>2. InOrder(pushed[m], got[m], hand[k], dataCh[m])
      BY <2>1, <2>8, <3>1 DEF Ordered
    <3>3. InOrder(pushed[m], Append(got[m], entry), <<>>, dataCh[m])
      BY <1>0, <2>3, <2>4, <3>2, DoneInOrder
    <3>4. InOrder(pushed'[m], got'[m], <<>>, dataCh'[m])
      BY <2>1, <2>6, <2>9, <3>3
    <3>5. \A j \in Consumers : j[1] = m => cpc'[j] # "callback"
      BY <2>1, <2>5, <2>7, <3>1 DEF OnceStarted
    <3> QED BY <3>4, <3>5 DEF Ordered
  <2>10. CASE m # n
    <3>1. \A j \in Consumers : j[1] = m => cpc'[j] = cpc[j] /\ hand'[j] = hand[j]
      BY <2>5, <2>10 DEF n
    <3>2. got'[m] = got[m]
      BY <2>6, <2>10
    <3> QED BY <2>1, <2>8, <3>1, <3>2 DEF Ordered
  <2> QED BY <2>9, <2>10
<1>7. ASSUME NEW m \in Managers, UserStart(m) PROVE OrderInv'
  BY <1>1, <1>7 DEF UserStart, TypeOK
<1>8. ASSUME NEW k \in Consumers, ConsumerReturn(k) PROVE OrderInv'
  BY <1>1, <1>8 DEF ConsumerReturn, TypeOK
<1>9. ASSUME NEW l \in Readers,
             \/ RoundOver(l) \/ ReadBegin(l) \/ WriteRegister(l) \/ ReadEnd(l) \/ PushDropped(l)
             \/ ManagerPolled(l)
      PROVE  OrderInv'
  BY <1>2, <1>9 DEF RoundOver, ReadBegin, WriteRegister, ReadEnd, PushDropped, ManagerPolled, streamVars
<1>10. ASSUME NEW l \in Loops, Tick(l) \/ LoopNext(l) PROVE OrderInv'
  BY <1>2, <1>10 DEF Tick, LoopNext, LoopSeesStop, LoopSeesTick, LoopReturn, streamVars
<1>11. ASSUME NEW m \in Managers, AddManager(m) \/ Load(m) \/ UserStop(m) \/ UserRead(m)
       PROVE  OrderInv'
  BY <1>2, <1>11 DEF AddManager, Load, UserStop, UserRead, streamVars
<1>12. CASE StopBegin \/ OwnerNext \/ UNCHANGED vars
  BY <1>2, <1>12 DEF StopBegin, OwnerNext, StopWaited, StopManager, StopReturn, streamVars, vars
<1> QED
  BY <1>3, <1>4, <1>5, <1>6, <1>7, <1>8, <1>9, <1>10, <1>11, <1>12 DEF Next, ReaderNext, ConsumerNext

-----------------------------------------------------------------------------
(***************************************************************************)
(* The theorems.                                                           *)
(***************************************************************************)
LEMMA InitInv == Init => Inv
<1> SUFFICES ASSUME Init PROVE Inv
  OBVIOUS
<1> USE PollerAssumption DEF Init
<1>1. TypeOK /\ HandInv /\ FreshInv /\ NeverOlderThanPushed
  BY InitType DEF HandInv, FreshInv, NeverOlderThanPushed
<1>2. WaitInv
  <2>1. \A l \in Loops : l \in Readers /\ l # User
    BY DEF Readers, Loops, User
  <2>2. \A l \in Loops : lpc[l] = "off"
    BY <2>1
  <2>3. Live = {}
    BY <2>2 DEF Live
  <2> QED BY <2>2, <2>3, FS_EmptySet DEF WaitInv
<1>3. RoundInv
  BY DistinctEmpty DEF RoundInv, AtWork
<1>4. CountInv
  <2>1. Ticking = {} /\ \A m \in Managers : Due(m) = {}
    BY DEF Ticking, Due, ToCome
  <2>2. Cardinality(Ticking) = 0 /\ \A m \in Managers : Cardinality(Due(m)) = 0
    BY <2>1, FS_EmptySet
  <2>3. ticks = 0 /\ \A m \in Managers : polls[m] = 0
    OBVIOUS
  <2> QED BY ONLY <2>2, <2>3 DEF CountInv
<1>5. LockInv
  <2>1. NoOne \notin Readers
    BY DEF Readers, Loops, User
  <2> QED BY <2>1 DEF LockInv
<1>6. ReadInv
  <2>1. \A g \in Groups : g[1] \in Managers
    BY DEF Groups
  <2> QED BY <2>1 DEF ReadInv, AtWork
<1>7. OrderInv
  BY DEF OrderInv, Ordered, InOrder
<1> QED BY <1>1, <1>2, <1>3, <1>4, <1>5, <1>6, <1>7 DEF Inv

\* The inductive invariant: loops are counted, rounds are paid for by ticks,
\* mutexes cover reads, and what is queued is no newer than its array.
THEOREM Invariance == Spec => []Inv
<1>1. Init => Inv
  BY InitInv
<1>2. Inv /\ [Next]_vars => Inv'
  BY NextType, NextWait, NextRound, NextCount, NextLock, NextRead, NextHand, NextFresh, NextOrder
     DEF Inv
<1> QED BY <1>1, <1>2, PTL DEF Spec

\* Every variable keeps its type: channels within their capacity, wg and the
\* polls of a manager within their bounds, though no guard of the code says so.
THEOREM TypeCorrect == Spec => []TypeOK
<1>1. Inv => TypeOK
  BY DEF Inv
<1> QED BY <1>1, Invariance, PTL

LEMMA StoppedIsQuiet == Inv => QuietAfterStop
<1> SUFFICES ASSUME Inv, opc \in {"stopping", "stopped"}, NEW l \in Loops
             PROVE  lpc[l] \in {"off", "returned"}
  BY DEF QuietAfterStop
<1>1. Live = {}
  BY LiveCount DEF Inv, WaitInv
<1> QED BY <1>1 DEF Live

\* Once the poller's Stop has stopped waiting, none of its loops runs: dp.wg
\* is the number of loops that run, however often the poller was started.
THEOREM StopIsQuiet == Spec => []QuietAfterStop
<1> QED BY StoppedIsQuiet, Invariance, PTL

\* What a callback sees is never older than the poll that queued it: the
\* scheduler's mutex keeps the groups until every register was written.
THEOREM CallbackSeesItsPoll == Spec => []NeverOlderThanPushed
<1>1. Inv => NeverOlderThanPushed
  BY DEF Inv
<1> QED BY <1>1, Invariance, PTL

\* A stream that was started once gives its callback the groups in the order
\* of the pushes, whichever readers push them.
THEOREM StreamKeepsOrder == Spec => []DeliveredInOrder
<1>1. Inv => DeliveredInOrder
  <2> SUFFICES ASSUME Inv, NEW m \in Managers,
                      Cardinality({k \in Consumers : k[1] = m /\ cpc[k] # "off"}) <= 1
               PROVE  /\ Len(got[m]) <= Len(pushed[m])
                      /\ \A i \in 1..Len(got[m]) : got[m][i].item = pushed[m][i]
    BY DEF DeliveredInOrder
  <2> DEFINE Started == {k \in Consumers : k[1] = m /\ cpc[k] # "off"}
  <2>1. IsFiniteSet(Started)
    <3>1. IsFiniteSet({m}) /\ IsFiniteSet(Readers)
      BY ReaderSets, FS_Singleton
    <3>2. IsFiniteSet({m} \X Readers)
      BY <3>1, FS_Product
    <3>3. Started \subseteq {m} \X Readers
      BY DEF Consumers
    <3> QED BY <3>2, <3>3, FS_Subset
  <2>2. OnceStarted(m)
    <3> SUFFICES ASSUME NEW j \in Started, NEW k \in Started, j # k PROVE FALSE
      BY DEF OnceStarted
    <3>1. IsFiniteSet({j}) /\ Cardinality({j}) = 1
      BY FS_Singleton
    <3>2. Cardinality({j} \cup {k}) = 2
      <4>1. Cardinality({j} \cup {k}) = Cardinality({j}) + 1
        <5>1. k \notin {j}
          OBVIOUS
        <5> QED BY ONLY <3>1, <5>1, FS_AddElement
      <4> QED BY ONLY <3>1, <4>1
    <3>3. {j} \cup {k} \subseteq Started
      OBVIOUS
    <3>4. Cardinality({j} \cup {k}) <= Cardinality(Started)
      BY <2>1, <3>3, FS_Subset
    <3>5. Cardinality(Started) \in Nat
      BY <2>1, FS_CardinalityType
    <3>6. Cardinality(Started) <= 1
      OBVIOUS
    <3> QED BY ONLY <3>2, <3>4, <3>5, <3>6
  <2>3. Ordered(m)
    BY <2>2 DEF Inv, OrderInv
  <2>4. PICK held \in Seq(Items) : InOrder(pushed[m], got[m], held, dataCh[m])
    <3>1. <<>> \in Seq(Items) /\ \A k \in Consumers : hand[k] \in Seq(Items)
      BY DEF Inv, TypeOK
    <3> QED BY <2>3, <3>1 DEF Ordered
  <2>5. Len(got[m]) \in Nat /\ Len(held) \in Nat /\ Len(dataCh[m]) \in Nat
    BY <2>4 DEF Inv, TypeOK
  <2>6. Len(got[m]) <= Len(pushed[m])
    <3>1. Len(pushed[m]) = Len(got[m]) + Len(held) + Len(dataCh[m])
      BY <2>4 DEF InOrder
    <3> DEFINE g == Len(got[m])
               h == Len(held)
               n == Len(dataCh[m])
    <3>2. g \in Nat /\ h \in Nat /\ n \in Nat /\ Len(pushed[m]) = g + h + n
      BY <2>5, <3>1
    <3> HIDE DEF g, h, n
    <3>3. g <= Len(pushed[m])
      BY <3>2
    <3> QED BY <3>3 DEF g
  <2>7. \A i \in 1..Len(got[m]) : got[m][i].item = pushed[m][i]
    BY <2>4 DEF InOrder
  <2> QED BY <2>6, <2>7
<1> QED BY <1>1, Invariance, PTL

-----------------------------------------------------------------------------
(***************************************************************************)
(* A stream as a delivery queue.  Loops only poll managers of the poller,  *)
(* and those are stopped only by the poller's Stop.                        *)
(***************************************************************************)
StopInv ==
    /\ \A l \in Loops : \A i \in 1..Len(todo[l]) : Added(todo[l][i])
    /\ \A m \in Managers : streamStopped[m] /\ Added(m) => opc \in {"stopping", "stopped"}

LEMMA AddedStays ==
    ASSUME TypeOK, NEW m, Added(m),
           managers' = managers \/ \E n \in Managers : managers' = Append(managers, n)
    PROVE  Added(m)'
<1>1. managers \in Seq(Managers)
  BY DEF TypeOK
<1>2. PICK i \in 1..Len(managers) : managers[i] = m
  BY DEF Added
<1>3. CASE managers' = managers
  BY <1>2, <1>3 DEF Added
<1>4. ASSUME NEW n \in Managers, managers' = Append(managers, n) PROVE Added(m)'
  <2>1. i \in 1..Len(managers') /\ managers'[i] = managers[i]
    BY <1>1, <1>4
  <2> QED BY <1>2, <2>1 DEF Added
<1> QED BY <1>3, <1>4

LEMMA NextStop == TypeOK /\ StopInv /\ [Next]_vars => StopInv'
<1> SUFFICES ASSUME TypeOK, StopInv, [Next]_vars PROVE StopInv'
  OBVIOUS
<1>0. /\ managers \in Seq(Managers)
      /\ \A l \in Loops : l \in Readers /\ l # User /\ todo[l] \in Seq(Managers)
  <2>1. \A l \in Loops : l \in Readers /\ l # User
    BY PollerAssumption DEF Readers, Loops, User
  <2> QED BY <2>1 DEF TypeOK
\* Nothing is stopped, added or begun.
<1>1. ASSUME UNCHANGED <<managers, streamStopped>>,
             \A l \in Loops : todo'[l] = todo[l],
             opc \in {"stopping", "stopped"} => opc' \in {"stopping", "stopped"}
      PROVE  StopInv'
  BY <1>1 DEF StopInv, Added
<1>2. ASSUME NEW m \in Managers, AddManager(m) PROVE StopInv'
  <2>1. /\ managers' = Append(managers, m) /\ ~streamStopped[m]
        /\ UNCHANGED <<todo, streamStopped, opc>>
    BY <1>2 DEF AddManager, loopVars, streamVars
  <2>2. \A n : Added(n)' => Added(n) \/ n = m
    BY <1>0, <2>1 DEF Added
  <2>3. \A n : Added(n) => Added(n)'
    BY <2>1, AddedStays
  <2> QED BY <2>1, <2>2, <2>3 DEF StopInv
<1>3. ASSUME NEW m \in Managers, UserStop(m) PROVE StopInv'
  <2>1. /\ ~Added(m) /\ streamStopped' = [streamStopped EXCEPT ![m] = TRUE]
        /\ UNCHANGED <<managers, todo, opc>>
    BY <1>3 DEF UserStop, pollerVars, loopVars
  <2>2. \A n \in Managers : n # m => streamStopped'[n] = streamStopped[n]
    BY <2>1 DEF TypeOK
  <2>3. ~Added(m)' /\ \A n : Added(n)' <=> Added(n)
    BY <2>1 DEF Added
  <2> QED BY <2>1, <2>2, <2>3 DEF StopInv
<1>4. CASE StopManager
  <2>1. opc' = "stopping" /\ UNCHANGED <<managers, todo>>
    BY <1>4 DEF StopManager, loopVars
  <2> QED BY <2>1 DEF StopInv, Added
<1>5. ASSUME NEW l \in Loops, LoopSeesTick(l) PROVE StopInv'
  <2>1. todo' = [todo EXCEPT ![l] = managers] /\ UNCHANGED <<managers, streamStopped, opc>>
    BY <1>5 DEF LoopSeesTick, pollerVars, streamVars
  <2>2. \A k \in Loops : todo'[k] = managers \/ todo'[k] = todo[k]
    BY <2>1 DEF TypeOK
  <2>3. \A n : Added(n)' <=> Added(n)
    BY <2>1 DEF Added
  <2>4. \A i \in 1..Len(managers) : Added(managers[i])
    BY DEF Added
  <2> QED BY <2>1, <2>2, <2>3, <2>4 DEF StopInv
<1>6. ASSUME NEW l \in Readers, ManagerPolled(l) PROVE StopInv'
  <2>1. lpc[l] = "pushing" /\ todo' = [todo EXCEPT ![l] = Tail(todo[l])]
        /\ UNCHANGED <<managers, streamStopped, opc>>
    BY <1>6 DEF ManagerPolled, Goto, pollerVars, streamVars
  <2>2. \A k \in Loops : todo'[k] = Tail(todo[k]) \/ todo'[k] = todo[k]
    BY <2>1 DEF TypeOK
  <2>3. \A n : Added(n)' <=> Added(n)
    BY <2>1 DEF Added
  <2>4. ASSUME NEW k \in Loops, NEW i \in 1..Len(todo'[k]) PROVE Added(todo'[k][i])
    <3>1. CASE todo'[k] = todo[k]
      BY <2>4, <3>1 DEF StopInv
    <3>2. CASE todo'[k] = Tail(todo[k])
      <4> DEFINE s == todo[k]
      <4>1. s \in Seq(Managers) /\ (s = <<>> => Tail(s) = <<>> \/ Tail(s) = s)
        BY <1>0
      <4> QED BY <1>0, <2>4, <3>2 DEF StopInv
    <3> QED BY <2>2, <3>1, <3>2
  <2> QED BY <2>1, <2>3, <2>4 DEF StopInv
<1>7. CASE Start \/ StopBegin \/ StopWaited \/ StopReturn \/ UNCHANGED vars
  BY <1>1, <1>7 DEF Start, StopBegin, StopWaited, StopReturn, loopVars, streamVars, pollerVars, vars
<1>8. ASSUME NEW m \in Managers, Load(m) \/ UserStart(m) PROVE StopInv'
  BY <1>1, <1>8 DEF Load, UserStart, loopVars, streamVars, pollerVars
<1>9. ASSUME NEW m \in Managers, UserRead(m) PROVE StopInv'
  <2>1. \A l \in Loops : todo'[l] = todo[l]
    BY <1>0, <1>9 DEF UserRead, TypeOK
  <2> QED BY <1>1, <1>9, <2>1 DEF UserRead, streamVars, pollerVars
<1>10. ASSUME NEW l \in Readers,
              RoundOver(l) \/ ReadBegin(l) \/ WriteRegister(l) \/ ReadEnd(l) \/ Push(l) \/ PushDropped(l)
       PROVE  StopInv'
  BY <1>1, <1>10 DEF RoundOver, ReadBegin, WriteRegister, ReadEnd, Push, PushDropped, streamVars, pollerVars
<1>11. ASSUME NEW l \in Loops, Tick(l) \/ LoopSeesStop(l) \/ LoopReturn(l) PROVE StopInv'
  BY <1>1, <1>11 DEF Tick, LoopSeesStop, LoopReturn, streamVars, pollerVars
<1>12. ASSUME NEW k \in Consumers, ConsumerNext(k) PROVE StopInv'
  BY <1>1, <1>12 DEF ConsumerNext, ConsumerReturn, ConsumerReceive, Callback, loopVars, pollerVars
<1> QED BY <1>2, <1>3, <1>4, <1>5, <1>6, <1>7, <1>8, <1>9, <1>10, <1>11, <1>12
           DEF Next, OwnerNext, LoopNext, ReaderNext

\* What the select of Push does not exclude, the order of Stop does.
LEMMA OpenWhenPushed ==
    ASSUME Inv, StopInv, NEW l \in Readers, Push(l), PolledOnly(Head(todo[l]))
    PROVE  ~streamStopped[Head(todo[l])]
<1> DEFINE m == Head(todo[l])
<1>1. lpc[l] = "pushing" /\ todo[l] \in Seq(Managers) /\ todo[l] # <<>>
  BY DEF Push, Inv, RoundInv, TypeOK, AtWork
<1>2. m \in Managers /\ 1 \in 1..Len(todo[l]) /\ todo[l][1] = m
  BY <1>1
<1>3. l \in Loops
  BY <1>1 DEF Readers, PolledOnly
<1>4. Added(m)
  BY <1>2, <1>3 DEF StopInv
<1>5. streamStopped[m] => opc \in {"stopping", "stopped"}
  BY <1>2, <1>4 DEF StopInv
<1>6. opc \notin {"stopping", "stopped"}
  BY <1>1, <1>3, StoppedIsQuiet DEF QuietAfterStop
<1> QED BY <1>5, <1>6

\* The items of what the callback got, with one more entry.
LEMMA ItemsAppend ==
    ASSUME NEW R, NEW T, NEW s \in Seq(R), NEW e \in R, \A x \in R : x.item \in T
    PROVE  [i \in 1..Len(Append(s, e)) |-> Append(s, e)[i].item]
             = Append([i \in 1..Len(s) |-> s[i].item], e.item)
<1> DEFINE a == Append(s, e)
           f == [i \in 1..Len(s) |-> s[i].item]
           g == [i \in 1..Len(a) |-> a[i].item]
<1>1. /\ Len(s) \in Nat /\ Len(a) = Len(s) + 1 /\ a[Len(s) + 1] = e
      /\ \A i \in 1..Len(s) : a[i] = s[i] /\ s[i].item \in T
  OBVIOUS
<1> HIDE DEF a
<1>2. f \in Seq(T) /\ Len(f) = Len(s) /\ e.item \in T
  BY <1>1
<1>3. \A i \in 1..Len(a) : a[i].item \in T
  BY <1>1
<1>4. g \in Seq(T) /\ Len(g) = Len(a)
  BY <1>1, <1>3
<1>5. /\ Append(f, e.item) \in Seq(T) /\ Len(Append(f, e.item)) = Len(s) + 1
      /\ \A i \in 1..Len(s) : Append(f, e.item)[i] = f[i]
      /\ Append(f, e.item)[Len(s) + 1] = e.item
  <2> HIDE DEF f
  <2> QED BY <1>2, AppendProperties
<1>6. \A i \in 1..Len(a) : g[i] = Append(f, e.item)[i]
  BY <1>1, <1>5
<1>7. g = Append(f, e.item)
  <2> HIDE DEF f, g
  <2> QED BY <1>1, <1>4, <1>5, <1>6, SeqEqual
<1> QED BY <1>7 DEF a

Moves(m) == Stream(m)!Next \/ UNCHANGED Stream(m)!vars

LEMMA StreamStutter ==
    ASSUME NEW m, pushed'[m] = pushed[m], got'[m] = got[m], streamStopped'[m] = streamStopped[m]
    PROVE  Moves(m)
BY DEF Moves, Stream!vars

\* A push, a callback and a stop are the steps of DeliveryQueue; a push or a
\* stop of another stream and every other step are none.
LEMMA StreamStep ==
    ASSUME Inv, StopInv, [Next]_vars, NEW m \in Managers, PolledOnly(m)
    PROVE  Moves(m)
<1>0. TypeOK /\ RoundInv /\ HandInv
  BY DEF Inv
<1>1. ASSUME NEW l \in Readers, Push(l) PROVE Moves(m)
  <2> DEFINE n == Head(todo[l])
             item == Head(toPush[l])
  <2>1. /\ lpc[l] = "pushing" /\ toPush[l] # <<>>
        /\ pushed' = [pushed EXCEPT ![n] = Append(pushed[n], item)]
        /\ UNCHANGED <<got, streamStopped>>
    BY <1>1 DEF Push
  <2>2. item \in Items
    <3>1. toPush[l] \in Seq(Items)
      BY <1>0 DEF TypeOK
    <3> QED BY <2>1, <3>1
  <2>3. n = m => ~streamStopped[m]
    BY <1>1, OpenWhenPushed
  <2> HIDE DEF n, item
  <2>4. pushed'[m] = IF m = n THEN Append(pushed[m], item) ELSE pushed[m]
    BY <1>0, <2>1 DEF TypeOK
  <2>5. CASE n = m
    <3>1. pushed'[m] = Append(pushed[m], item) /\ ~streamStopped[m]
      BY <2>3, <2>4, <2>5
    <3>2. Stream(m)!Send
      BY <2>1, <2>2, <3>1 DEF Stream!Send
    <3> QED BY <3>2 DEF Moves, Stream!Next
  <2>6. CASE n # m
    BY <2>1, <2>4, <2>6, StreamStutter
  <2> QED BY <2>5, <2>6
<1>2. ASSUME NEW k \in Consumers, Callback(k) PROVE Moves(m)
  <2> DEFINE Entries == [item : Items, data : Data]
             n == k[1]
             entry == [item |-> hand[k][1], data |-> Seen(hand[k][1])]
  <2>1. /\ cpc[k] = "callback" /\ UNCHANGED <<pushed, streamStopped>>
        /\ got' = [got EXCEPT ![n] = Append(got[n], entry)]
    BY <1>2 DEF Callback
  <2>2. /\ hand[k] \in Seq(Items) /\ Len(hand[k]) = 1 /\ got[m] \in Seq(Entries)
        /\ pushed[m] \in Seq(Items) /\ dataCh[m] \in Seq(Items)
    BY <1>0, <2>1 DEF HandInv, TypeOK
  <2>3. entry \in Entries /\ entry.item = hand[k][1]
    <3>1. hand[k][1] \in Items
      BY <2>2
    <3>2. hand[k][1].group \in Groups
      BY <3>1 DEF Items
    <3>3. Seen(hand[k][1]) \in Data
      BY <1>0, <3>2 DEF TypeOK, Seen, Data
    <3> QED BY <3>1, <3>3 DEF Entries
  <2>4. \A x \in Entries : x.item \in Items
    BY DEF Entries
  <2> HIDE DEF n, entry, Entries
  <2>5. got'[m] = IF m = n THEN Append(got[m], entry) ELSE got[m]
    BY <1>0, <2>1 DEF TypeOK
  <2>6. CASE n = m
    <3> DEFINE g == Len(got[m])
               q == Len(dataCh[m])
    <3>1. InOrder(pushed[m], got[m], hand[k], dataCh[m])
      BY <2>1, <2>6 DEF Inv, OrderInv, Ordered, PolledOnly, n
    <3>2. g \in Nat /\ q \in Nat
      BY <2>2
    <3>3. Len(pushed[m]) = g + 1 + q /\ hand[k][1] = pushed[m][g + 1]
      BY <2>2, <3>1 DEF InOrder
    <3>4. g < Len(pushed[m])
      <4> HIDE DEF g, q
      <4> QED BY <3>2, <3>3
    <3>5. [i \in 1..Len(got'[m]) |-> got'[m][i].item]
            = Append([i \in 1..Len(got[m]) |-> got[m][i].item], entry.item)
      <4>1. got'[m] = Append(got[m], entry)
        BY <2>5, <2>6
      <4> QED BY <2>2, <2>3, <2>4, <4>1, ItemsAppend
    <3>6. Len([i \in 1..Len(got[m]) |-> got[m][i].item]) = g
      BY <2>2
    <3>7. Stream(m)!Deliver
      BY <2>1, <2>3, <3>3, <3>4, <3>5, <3>6 DEF Stream!Deliver
    <3> QED BY <3>7 DEF Moves, Stream!Next
  <2>7. CASE n # m
    BY <2>1, <2>5, <2>7, StreamStutter
  <2> QED BY <2>6, <2>7
<1>3. ASSUME NEW n, streamStopped' = [streamStopped EXCEPT ![n] = TRUE], UNCHANGED <<pushed, got>>
      PROVE  Moves(m)
  <2>1. CASE n = m
    <3>1. streamStopped'[m] = TRUE
      BY <1>0, <1>3, <2>1 DEF TypeOK
    <3>2. Stream(m)!Close
      BY <1>3, <3>1 DEF Stream!Close
    <3> QED BY <3>2 DEF Moves, Stream!Next
  <2>2. CASE n # m
    <3>1. streamStopped'[m] = streamStopped[m]
      BY <1>0, <1>3, <2>2 DEF TypeOK
    <3> QED BY <1>3, <3>1, StreamStutter
  <2> QED BY <2>1, <2>2
<1>4. ASSUME NEW n \in Managers, UserStop(n) PROVE Moves(m)
  BY <1>3, <1>4 DEF UserStop
<1>5. CASE StopManager
  BY <1>3, <1>5 DEF StopManager
<1>6. ASSUME UNCHANGED <<pushed, got, streamStopped>> PROVE Moves(m)
  BY <1>6, StreamStutter
<1>7. CASE Start \/ StopBegin \/ StopWaited \/ StopReturn \/ UNCHANGED vars
  BY <1>6, <1>7 DEF Start, StopBegin, StopWaited, StopReturn, streamVars, vars
<1>8. ASSUME NEW n \in Managers, AddManager(n) \/ Load(n) \/ UserStart(n) \/ UserRead(n)
      PROVE  Moves(m)
  BY <1>6, <1>8 DEF AddManager, Load, UserStart, UserRead, streamVars
<1>9. ASSUME NEW l \in Readers,
             \/ RoundOver(l) \/ ReadBegin(l) \/ WriteRegister(l) \/ ReadEnd(l) \/ PushDropped(l)
             \/ ManagerPolled(l)
      PROVE  Moves(m)
  BY <1>6, <1>9 DEF RoundOver, ReadBegin, WriteRegister, ReadEnd, PushDropped, ManagerPolled, streamVars
<1>10. ASSUME NEW l \in Loops, Tick(l) \/ LoopNext(l) PROVE Moves(m)
  BY <1>6, <1>10 DEF Tick, LoopNext, LoopSeesStop, LoopSeesTick, LoopReturn, streamVars
<1>11. ASSUME NEW k \in Consumers, ConsumerReturn(k) \/ ConsumerReceive(k) PROVE Moves(m)
  BY <1>6, <1>11 DEF ConsumerReturn, ConsumerReceive
<1> QED BY <1>1, <1>2, <1>4, <1>5, <1>7, <1>8, <1>9, <1>10, <1>11
           DEF Next, OwnerNext, ReaderNext, ConsumerNext

LEMMA Stops == Spec => []StopInv
<1>1. Init => StopInv
  <2>1. Init => \A l \in Loops : todo[l] = <<>>
    BY DEF Init, Readers
  <2> QED BY <2>1 DEF Init, StopInv
<1>2. Inv => TypeOK
  BY DEF Inv
<1> QED BY <1>1, <1>2, NextStop, Invariance, PTL DEF Spec

\* A stream that was started once and on which only loops push implements the
\* delivery queue, however often the poller ticks, loads and is started for
\* others: it never sends on a stopped stream, though Push does not look.
THEOREM StreamsImplementQueue == Spec => StreamsDeliver
<1>1. Inv /\ StopInv /\ [Next]_vars => \A m \in Managers : PolledOnly(m) => Moves(m)
  BY StreamStep
<1>2. Inv /\ StopInv /\ [Next]_vars
        => [\A m \in Managers :
              PolledOnly(m) => Stream(m)!Next \/ UNCHANGED Stream(m)!vars]_vars
  BY <1>1 DEF Moves
<1> QED BY <1>2, Invariance, Stops, PTL DEF Spec, StreamsDeliver

\* So a behaviour in which that stays so is one of the delivery queue.
THEOREM StreamIsQueue ==
    ASSUME NEW m \in Managers
    PROVE  Spec /\ []PolledOnly(m) => Stream(m)!Spec
<1>1. Init => Stream(m)!Init
  BY DEF Init, Stream!Init
<1>2. Inv /\ StopInv /\ [Next]_vars /\ PolledOnly(m) => [Stream(m)!Next]_(Stream(m)!vars)
  BY StreamStep DEF Moves
<1> QED BY <1>1, <1>2, Invariance, Stops, PTL DEF Spec, Stream!Spec
=============================================================================
