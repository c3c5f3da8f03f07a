--------------------------- MODULE GroupedReadProofs ---------------------------
(***************************************************************************)
(* Safety of ReadGroupedData for any number of managers, groups, registers *)
(* and slaves.                                                             *)
(*                                                                         *)
(* The WaitGroup counts the goroutines that run (Counting), so errChan is  *)
(* closed and the call returns when none does; what a goroutine has done   *)
(* at each point of readGroup decides whether its group is, or will be,    *)
(* among the errors (Stage).                                               *)
(***************************************************************************)
EXTENDS GroupedRead, FiniteSetTheorems, TLAPS

Running(m) == {i \in Idx : gpc[m][i] \notin {"off", "finished"}}

Counting(m) ==
    /\ \A i \in Idx : gpc[m][i] = "off" <=> i > next[m]
    /\ wg[m] = IF concurrent THEN Cardinality(Running(m)) ELSE 0
    /\ ~concurrent => \A i, j \in Running(m) : i = j
    /\ mpc[m] = "idle" => Running(m) = {} /\ (polls[m] > 0 => next[m] = N)
    /\ mpc[m] = "reading" /\ errClosed[m] => next[m] = N /\ Running(m) = {}

\* The errors named so far: collected, or still in errChan.
Elements(s) == {s[k] : k \in 1..Len(s)}
Named(m) == errors[m] \cup Elements(errChan[m])

HasInvalid(m, i) == \E r \in Regs : regs[m][i][r].status = "INVALID"
Stage(m, i) ==
    /\ gpc[m][i] \notin {"done", "finished"} => i \notin Named(m)
    /\ gpc[m][i] = "report" =>
         result[m][i] = "nil" \/ (result[m][i] = "group" /\ HasInvalid(m, i))
    /\ gpc[m][i] \in {"done", "finished"} =>
         /\ result[m][i] # "unset"
         /\ i \in Named(m) <=> (result[m][i] = "nil" \/ ~Complete(m, i))
         /\ i \in Named(m) /\ result[m][i] = "group" => HasInvalid(m, i)

Reporting(m) ==
    /\ mpc[m] = "idle" \/ ~concurrent => errChan[m] = <<>>
    /\ \A i \in Idx : Stage(m, i)

\* Nobody else uses the client, or it makes no difference.
Undisturbed ==
    (~concurrent /\ Cardinality(Managers) = 1)
        \/ (\A m, n \in Managers : \A i, j \in Idx : slaveOf[m][i] = slaveOf[n][j])
Addressed(m, i) ==
    /\ gpc[m][i] = "encode" => slaveId = slaveOf[m][i]
    /\ gpc[m][i] \in {"send", "store"} => req[m][i] = slaveOf[m][i]
    /\ \A r \in Regs : regs[m][i][r].status = "VALID" => regs[m][i][r].from = slaveOf[m][i]

ReadInv ==
    /\ TypeOK /\ ~crash
    /\ \A m \in Managers : Counting(m) /\ Reporting(m)
    /\ Undisturbed => \A m \in Managers, i \in Idx : Addressed(m, i)
-----------------------------------------------------------------------------
(***************************************************************************)
(* Sets of goroutines, and sequences of errors.                            *)
(***************************************************************************)
LEMMA GroupSets ==
    ASSUME NEW R, R \subseteq Idx
    PROVE  IsFiniteSet(R) /\ Cardinality(R) \in 0..N
<1>1. N \in Nat
  BY GroupedReadAssumption
<1>2. IsFiniteSet(1..N) /\ Cardinality(1..N) = N
  BY <1>1, FS_Interval
<1>3. IsFiniteSet(R) /\ Cardinality(R) <= N
  BY <1>2, FS_Subset DEF Idx
<1> QED  BY <1>1, <1>3, FS_CardinalityType

\* The groups begun so far are no more than next.
LEMMA BegunSets ==
    ASSUME NEW R, NEW n \in 0..N, R \subseteq 1..n
    PROVE  Cardinality(R) <= n
<1>1. n \in Nat
  BY GroupedReadAssumption
<1>2. IsFiniteSet(1..n) /\ Cardinality(1..n) = n
  BY <1>1, FS_Interval
<1> QED  BY <1>2, FS_Subset

LEMMA ElementsOfEmpty == Elements(<<>>) = {}
  BY DEF Elements

LEMMA ElementsAppended ==
    ASSUME NEW s \in Seq(Idx), NEW i \in Idx
    PROVE  Elements(Append(s, i)) = Elements(s) \cup {i}
<1> DEFINE t == Append(s, i)
<1>1. /\ Len(t) = Len(s) + 1 /\ Len(s) \in Nat
      /\ t[Len(s) + 1] = i /\ \A k \in 1..Len(s) : t[k] = s[k]
  OBVIOUS
<1> HIDE DEF t
<1>2. Elements(t) \subseteq Elements(s) \cup {i}
  <2> SUFFICES ASSUME NEW k \in 1..Len(t)  PROVE  t[k] \in Elements(s) \cup {i}
    BY DEF Elements
  <2>1. k \in 1..Len(s) \/ k = Len(s) + 1
    BY <1>1
  <2> QED  BY <1>1, <2>1 DEF Elements
<1>3. Elements(s) \subseteq Elements(t)
  <2> SUFFICES ASSUME NEW k \in 1..Len(s)  PROVE  s[k] \in Elements(t)
    BY DEF Elements
  <2>1. k \in 1..Len(t) /\ t[k] = s[k]
    BY <1>1
  <2> QED  BY <2>1 DEF Elements
<1>4. i \in Elements(t)
  <2>1. Len(s) + 1 \in 1..Len(t)
    BY <1>1
  <2> QED  BY <1>1, <2>1 DEF Elements
<1> QED  BY <1>2, <1>3, <1>4 DEF t

LEMMA ElementsDropped ==
    ASSUME NEW s \in Seq(Idx), s # <<>>
    PROVE  Elements(s) = {Head(s)} \cup Elements(Tail(s))
<1> DEFINE t == Tail(s)
<1>1. /\ Len(s) = Len(t) + 1 /\ Len(t) \in Nat /\ Head(s) = s[1]
      /\ \A k \in 1..Len(t) : t[k] = s[k + 1]
  OBVIOUS
<1> HIDE DEF t
<1>2. Elements(s) \subseteq {Head(s)} \cup Elements(t)
  <2> SUFFICES ASSUME NEW k \in 1..Len(s)  PROVE  s[k] \in {Head(s)} \cup Elements(t)
    BY DEF Elements
  <2>1. CASE k = 1
    BY <1>1, <2>1
  <2>2. CASE k # 1
    <3>1. k - 1 \in 1..Len(t) /\ t[k - 1] = s[(k - 1) + 1] /\ (k - 1) + 1 = k
      BY <1>1, <2>2
    <3> QED  BY <3>1 DEF Elements
  <2> QED  BY <2>1, <2>2
<1>3. Elements(t) \subseteq Elements(s)
  <2> SUFFICES ASSUME NEW k \in 1..Len(t)  PROVE  t[k] \in Elements(s)
    BY DEF Elements
  <2>1. k + 1 \in 1..Len(s) /\ t[k] = s[k + 1]
    BY <1>1
  <2> QED  BY <2>1 DEF Elements
<1>4. Head(s) \in Elements(s)
  <2>1. 1 \in 1..Len(s)
    BY <1>1
  <2> QED  BY <1>1, <2>1 DEF Elements
<1> QED  BY <1>2, <1>3, <1>4 DEF t

-----------------------------------------------------------------------------
(***************************************************************************)
(* Steps that leave a manager, or a group, alone.                          *)
(***************************************************************************)
SameCounting(n) ==
    /\ gpc'[n] = gpc[n] /\ next'[n] = next[n] /\ wg'[n] = wg[n] /\ mpc'[n] = mpc[n]
    /\ polls'[n] = polls[n] /\ errClosed'[n] = errClosed[n] /\ concurrent' = concurrent
SameReporting(n) ==
    /\ mpc'[n] = mpc[n] /\ concurrent' = concurrent /\ gpc'[n] = gpc[n]
    /\ errChan'[n] = errChan[n] /\ errors'[n] = errors[n]
    /\ result'[n] = result[n] /\ regs'[n] = regs[n] /\ polls'[n] = polls[n]

LEMMA CountingKept ==
    ASSUME NEW n \in Managers, Counting(n), SameCounting(n)
    PROVE  Counting(n)'
<1>1. Running(n)' = Running(n)
  BY DEF SameCounting, Running
<1> QED  BY <1>1 DEF SameCounting, Counting

LEMMA StageKept ==
    ASSUME NEW m \in Managers, NEW j \in Idx, Stage(m, j),
           gpc'[m][j] = gpc[m][j], result'[m][j] = result[m][j],
           regs'[m][j] = regs[m][j], polls'[m] = polls[m],
           j \in Named(m)' <=> j \in Named(m)
    PROVE  Stage(m, j)'
  BY DEF Stage, HasInvalid, Complete

LEMMA ReportingKept ==
    ASSUME NEW n \in Managers, Reporting(n), SameReporting(n)
    PROVE  Reporting(n)'
<1>1. Named(n)' = Named(n)
  BY DEF SameReporting, Named, Elements
<1>2. \A j \in Idx : Stage(n, j)'
  <2> TAKE j \in Idx
  <2>1. Stage(n, j)
    BY DEF Reporting
  <2> QED  BY <1>1, <2>1, StageKept DEF SameReporting
<1> QED  BY <1>2 DEF SameReporting, Reporting

\* A step of one manager, or of one of its goroutines.
Others(m) == \A n \in Managers \ {m} : SameCounting(n) /\ SameReporting(n)

LEMMA ManagersKept ==
    ASSUME ReadInv, NEW m \in Managers, Others(m), Counting(m)', Reporting(m)'
    PROVE  \A n \in Managers : Counting(n)' /\ Reporting(n)'
<1> TAKE n \in Managers
<1>1. CASE n = m
  BY <1>1
<1>2. CASE n # m
  <2>1. Counting(n) /\ Reporting(n) /\ SameCounting(n) /\ SameReporting(n)
    BY <1>2 DEF ReadInv, Others
  <2> QED  BY <2>1, CountingKept, ReportingKept
<1> QED  BY <1>1, <1>2

\* Nothing that Addressed speaks of changes but where groups are, and none comes
\* to where it speaks of it.
LEMMA AddressedKept ==
    ASSUME ReadInv, UNCHANGED <<client, req, regs>>,
           \A m \in Managers, i \in Idx :
               gpc'[m][i] \in {"encode", "send", "store"} =>
                   \/ gpc'[m][i] = gpc[m][i]
                   \/ gpc[m][i] = "send" /\ gpc'[m][i] = "store"
    PROVE  Undisturbed' => \A m \in Managers, i \in Idx : Addressed(m, i)'
<1> SUFFICES ASSUME Undisturbed', NEW m \in Managers, NEW i \in Idx
             PROVE  Addressed(m, i)'
  OBVIOUS
<1>1. Undisturbed
  BY DEF Undisturbed, client
<1>2. Addressed(m, i)
  BY <1>1 DEF ReadInv
<1> QED  BY <1>2 DEF Addressed, client
-----------------------------------------------------------------------------
(***************************************************************************)
(* The caller's steps.                                                     *)
(***************************************************************************)
LEMMA ReadInit == Init => ReadInv
<1> SUFFICES ASSUME Init  PROVE  ReadInv
  OBVIOUS
<1>1. N \in Nat \ {0} /\ K \in Nat \ {0} /\ MaxPolls \in Nat /\ Modes \subseteq BOOLEAN
  BY GroupedReadAssumption
<1>2. <<>> \in Seq(Idx) /\ Len(<<>>) = 0
  OBVIOUS
<1>3. /\ regs \in [Managers -> [Idx -> [Regs -> RegisterState]]]
      /\ \A m \in Managers, i \in Idx, r \in Regs : regs[m][i][r].status # "VALID"
  BY <1>1 DEF Init, RegisterState
<1>4. TypeOK
  <2>1. errChan \in [Managers -> Seq(Idx)] /\ \A m \in Managers : Len(errChan[m]) <= N
    BY <1>1, <1>2 DEF Init
  <2>2. /\ concurrent \in Modes /\ slaveOf \in [Managers -> [Idx -> Slaves]]
        /\ slaveId \in Slaves \cup {NoSlave} /\ crash \in BOOLEAN
    BY DEF Init
  <2>3. /\ polls \in [Managers -> 0..MaxPolls] /\ next \in [Managers -> 0..N]
        /\ wg \in [Managers -> 0..N] /\ reply \in [Managers -> [Idx -> ReadError..K]]
    BY <1>1 DEF Init, ReadError
  <2>4. /\ mpc \in [Managers -> {"idle", "reading"}]
        /\ gpc \in [Managers -> [Idx -> GroupPoints]]
        /\ req \in [Managers -> [Idx -> Slaves \cup {NoSlave}]]
        /\ result \in [Managers -> [Idx -> {"unset", "group", "nil"}]]
        /\ errClosed \in [Managers -> BOOLEAN] /\ errors \in [Managers -> SUBSET Idx]
    BY DEF Init, GroupPoints
  <2> QED  BY <1>3, <2>1, <2>2, <2>3, <2>4 DEF TypeOK
<1>5. ASSUME NEW m \in Managers  PROVE  Counting(m) /\ Reporting(m)
  <2>1. Running(m) = {}
    BY DEF Running, Init
  <2>2. Counting(m)
    BY <1>1, <2>1, FS_EmptySet DEF Counting, Init, Idx
  <2>3. Named(m) = {}
    BY ElementsOfEmpty DEF Named, Init
  <2>4. Reporting(m)
    BY <2>3 DEF Reporting, Stage, Init
  <2> QED  BY <2>2, <2>4
<1>6. ASSUME NEW m \in Managers, NEW i \in Idx  PROVE  Addressed(m, i)
  BY <1>3 DEF Init, Addressed
<1>7. ~crash
  BY DEF Init
<1> QED  BY <1>4, <1>5, <1>6, <1>7 DEF ReadInv

LEMMA BeginReadStep ==
    ASSUME ReadInv, NEW m \in Managers, BeginRead(m)
    PROVE  ReadInv'
<1>1. TypeOK /\ Counting(m) /\ Reporting(m)
  BY DEF ReadInv
<1>2. TypeOK'
  <2>1. 0 \in 0..N /\ polls[m] + 1 \in 0..MaxPolls
    BY <1>1, GroupedReadAssumption DEF TypeOK, BeginRead
  <2>2. polls' \in [Managers -> 0..MaxPolls] /\ next' \in [Managers -> 0..N]
    BY <1>1, <2>1 DEF TypeOK, BeginRead
  <2>3. /\ mpc' \in [Managers -> {"idle", "reading"}]
        /\ gpc' \in [Managers -> [Idx -> GroupPoints]]
        /\ result' \in [Managers -> [Idx -> {"unset", "group", "nil"}]]
    BY <1>1 DEF TypeOK, BeginRead, GroupPoints
  <2>4. errClosed' \in [Managers -> BOOLEAN] /\ errors' \in [Managers -> SUBSET Idx]
    BY <1>1 DEF TypeOK, BeginRead
  <2>5. UNCHANGED <<client, req, reply, regs, wg, errChan, crash>>
    BY DEF BeginRead
  <2> QED  BY <1>1, <2>2, <2>3, <2>4, <2>5 DEF TypeOK, client
<1>3. Others(m)
  BY <1>1 DEF Others, SameCounting, SameReporting, TypeOK, BeginRead, client
<1>4. /\ mpc[m] = "idle" /\ mpc'[m] = "reading" /\ next'[m] = 0 /\ ~errClosed'[m]
      /\ gpc'[m] = [i \in Idx |-> "off"] /\ wg' = wg /\ concurrent' = concurrent
      /\ errors'[m] = {} /\ errChan' = errChan
  BY <1>1 DEF TypeOK, BeginRead, client
<1>5. Counting(m)'
  <2>1. Running(m)' = {}
    BY <1>4 DEF Running
  <2>2. wg[m] = 0
    BY <1>1, <1>4, FS_EmptySet DEF Counting
  <2>3. \A i \in Idx : i > 0
    BY DEF Idx
  <2> QED  BY <1>4, <2>1, <2>2, <2>3, FS_EmptySet DEF Counting
<1>6. Reporting(m)'
  <2>1. errChan[m] = <<>>
    BY <1>1, <1>4 DEF Reporting
  <2>2. Named(m)' = {}
    BY <1>4, <2>1, ElementsOfEmpty DEF Named
  <2> QED  BY <1>4, <2>1, <2>2 DEF Reporting, Stage
<1>7. Undisturbed' => \A n \in Managers, i \in Idx : Addressed(n, i)'
  <2>1. \A n \in Managers, i \in Idx :
            gpc'[n][i] \in {"encode", "send", "store"} => gpc'[n][i] = gpc[n][i]
    BY <1>1, <1>3, <1>4 DEF Others, SameCounting
  <2>2. UNCHANGED <<client, req, regs>>
    BY DEF BeginRead
  <2> QED  BY <2>1, <2>2, AddressedKept
<1>8. ~crash'
  BY DEF ReadInv, BeginRead
<1> QED  BY <1>2, <1>3, <1>5, <1>6, <1>7, <1>8, ManagersKept DEF ReadInv

LEMMA BeginGroupStep ==
    ASSUME ReadInv, NEW m \in Managers, BeginGroup(m)
    PROVE  ReadInv'
<1> DEFINE i == next[m] + 1
<1>1. TypeOK /\ Counting(m) /\ Reporting(m)
  BY DEF ReadInv
<1>2. /\ next[m] \in 0..N /\ next[m] < N /\ N \in Nat /\ i \in Idx
      /\ next'[m] = i /\ mpc[m] = "reading"
  BY <1>1, GroupedReadAssumption DEF TypeOK, BeginGroup, Idx
<1> HIDE DEF i
<1>3. /\ gpc' = [gpc EXCEPT ![m][i] = "setSlave"]
      /\ wg' = [wg EXCEPT ![m] = IF concurrent THEN @ + 1 ELSE @]
      /\ UNCHANGED <<client, mpc, polls, req, reply, regs, result,
                     errChan, errClosed, errors, crash>>
  BY DEF BeginGroup, i
<1>4. /\ gpc[m][i] = "off" /\ gpc'[m][i] = "setSlave"
      /\ \A j \in Idx \ {i} : gpc'[m][j] = gpc[m][j]
      /\ \A n \in Managers \ {m} : gpc'[n] = gpc[n]
  <2>1. i > next[m]
    BY <1>2 DEF i
  <2> QED  BY <1>1, <1>2, <1>3, <2>1 DEF TypeOK, Counting
<1>5. Running(m)' = Running(m) \cup {i} /\ i \notin Running(m)
  BY <1>2, <1>4 DEF Running
<1>6. Running(m) \subseteq 1..next[m]
  <2> SUFFICES ASSUME NEW j \in Running(m)  PROVE  j \in 1..next[m]
    OBVIOUS
  <2>1. j \in Idx /\ gpc[m][j] # "off"
    BY DEF Running
  <2>2. ~(j > next[m])
    BY <1>1, <2>1 DEF Counting
  <2> QED  BY <1>2, <2>1, <2>2 DEF Idx
<1>7. IsFiniteSet(Running(m)) /\ Cardinality(Running(m)) \in Nat
  BY GroupSets, GroupedReadAssumption DEF Running
<1>8. Cardinality(Running(m)') = Cardinality(Running(m)) + 1
  BY <1>5, <1>7, FS_AddElement
<1>9. wg'[m] = (IF concurrent THEN Cardinality(Running(m)') ELSE 0) /\ wg'[m] \in 0..N
  <2>1. wg[m] = IF concurrent THEN Cardinality(Running(m)) ELSE 0
    BY <1>1 DEF Counting
  <2>2. wg'[m] = IF concurrent THEN wg[m] + 1 ELSE wg[m]
    BY <1>1, <1>3 DEF TypeOK
  <2>3. Cardinality(Running(m)) <= next[m]
    BY <1>2, <1>6, BegunSets
  <2> QED  BY <1>2, <1>7, <1>8, <2>1, <2>2, <2>3
<1>10. TypeOK'
  <2>1. wg' \in [Managers -> 0..N]
    BY <1>1, <1>3, <1>9 DEF TypeOK
  <2>2. next' \in [Managers -> 0..N]
    BY <1>1, <1>2 DEF TypeOK, BeginGroup, Idx
  <2>3. gpc' \in [Managers -> [Idx -> GroupPoints]]
    BY <1>1, <1>2, <1>3 DEF TypeOK, GroupPoints
  <2> QED  BY <1>1, <1>3, <2>1, <2>2, <2>3 DEF TypeOK, client
<1>11. Others(m)
  BY <1>1, <1>3, <1>4 DEF Others, SameCounting, SameReporting, TypeOK, BeginGroup, client
<1>12. Counting(m)'
  <2>1. \A j \in Idx : gpc'[m][j] = "off" <=> j > next'[m]
    <3> TAKE j \in Idx
    <3>1. gpc[m][j] = "off" <=> j > next[m]
      BY <1>1 DEF Counting
    <3> QED  BY <1>2, <1>4, <3>1 DEF i, Idx
  <2>2. ~concurrent => \A j, k \in Running(m)' : j = k
    <3>1. ~concurrent => Running(m) = {}
      BY DEF BeginGroup, MayBeginGroup, PreviousOver, Running
    <3> QED  BY <1>5, <3>1
  <2>3. ~errClosed[m]
    BY <1>1, <1>2 DEF Counting
  <2> QED  BY <1>2, <1>3, <1>9, <2>1, <2>2, <2>3 DEF Counting, client
<1>13. Reporting(m)'
  <2>1. Named(m)' = Named(m)
    BY <1>3 DEF Named, Elements
  <2>2. ASSUME NEW j \in Idx  PROVE  Stage(m, j)'
    <3>1. Stage(m, j)
      BY <1>1 DEF Reporting
    <3>2. CASE j = i
      BY <1>4, <2>1, <3>1, <3>2 DEF Stage
    <3>3. CASE j # i
      BY <1>3, <1>4, <2>1, <3>1, <3>3, StageKept
    <3> QED  BY <3>2, <3>3
  <2> QED  BY <1>1, <1>3, <2>2 DEF Reporting, client
<1>14. Undisturbed' => \A n \in Managers, j \in Idx : Addressed(n, j)'
  <2>1. \A n \in Managers, j \in Idx :
            gpc'[n][j] \in {"encode", "send", "store"} => gpc'[n][j] = gpc[n][j]
    BY <1>4
  <2> QED  BY <1>3, <2>1, AddressedKept
<1>15. ~crash'
  BY <1>3 DEF ReadInv
<1> QED  BY <1>10, <1>11, <1>12, <1>13, <1>14, <1>15, ManagersKept DEF ReadInv

LEMMA CloseErrChanStep ==
    ASSUME ReadInv, NEW m \in Managers, CloseErrChan(m)
    PROVE  ReadInv'
<1>1. TypeOK /\ Counting(m) /\ Reporting(m)
  BY DEF ReadInv
<1>2. /\ concurrent /\ mpc[m] = "reading" /\ next[m] = N /\ wg[m] = 0
      /\ errClosed' = [errClosed EXCEPT ![m] = TRUE]
      /\ UNCHANGED <<client, mpc, polls, next, groupVars, wg, errChan, errors, crash>>
  BY DEF CloseErrChan, Joined
<1>3. TypeOK'
  BY <1>1, <1>2 DEF TypeOK, client, groupVars
<1>4. Others(m)
  BY <1>1, <1>2 DEF Others, SameCounting, SameReporting, TypeOK, client, groupVars
<1>5. Counting(m)'
  <2>1. Running(m)' = Running(m)
    BY <1>2 DEF Running, groupVars
  <2>2. Running(m) = {}
    <3>1. Cardinality(Running(m)) = 0
      BY <1>1, <1>2 DEF Counting
    <3>2. IsFiniteSet(Running(m))
      BY GroupSets DEF Running
    <3> QED  BY <3>1, <3>2, FS_EmptySet
  <2> QED  BY <1>1, <1>2, <2>1, <2>2 DEF Counting, client, groupVars
<1>6. Reporting(m)'
  BY <1>1, <1>2, ReportingKept DEF SameReporting, client, groupVars
<1>7. Undisturbed' => \A n \in Managers, j \in Idx : Addressed(n, j)'
  BY <1>2, AddressedKept DEF groupVars
<1>8. ~crash'
  BY <1>2 DEF ReadInv
<1> QED  BY <1>3, <1>4, <1>5, <1>6, <1>7, <1>8, ManagersKept DEF ReadInv

LEMMA CollectErrorStep ==
    ASSUME ReadInv, NEW m \in Managers, CollectError(m)
    PROVE  ReadInv'
<1> DEFINE s == errChan[m]
<1>1. TypeOK /\ Counting(m) /\ Reporting(m)
  BY DEF ReadInv
<1>2. /\ mpc[m] = "reading" /\ s # <<>>
      /\ errors' = [errors EXCEPT ![m] = @ \cup {Head(s)}]
      /\ errChan' = [errChan EXCEPT ![m] = Tail(s)]
      /\ UNCHANGED <<client, mpc, polls, next, groupVars, wg, errClosed, crash>>
  BY DEF CollectError
<1>3. s \in Seq(Idx) /\ Len(s) <= N
  BY <1>1 DEF TypeOK
<1>4. Head(s) \in Idx /\ Tail(s) \in Seq(Idx) /\ Len(Tail(s)) <= N
  BY <1>2, <1>3, GroupedReadAssumption
<1> HIDE DEF s
<1>5. TypeOK'
  <2>1. errors' \in [Managers -> SUBSET Idx]
    BY <1>1, <1>2, <1>4 DEF TypeOK
  <2>2. errChan' \in [Managers -> Seq(Idx)] /\ \A n \in Managers : Len(errChan'[n]) <= N
    BY <1>1, <1>2, <1>4 DEF TypeOK
  <2> QED  BY <1>1, <1>2, <2>1, <2>2 DEF TypeOK, client, groupVars
<1>6. Others(m)
  BY <1>1, <1>2 DEF Others, SameCounting, SameReporting, TypeOK, client, groupVars
<1>7. Counting(m)'
  BY <1>1, <1>2, CountingKept DEF SameCounting, client, groupVars
<1>8. Reporting(m)'
  <2>1. errors'[m] = errors[m] \cup {Head(s)} /\ errChan'[m] = Tail(s)
    BY <1>1, <1>2 DEF TypeOK
  <2>2. Elements(s) = {Head(s)} \cup Elements(Tail(s))
    BY <1>2, <1>3, ElementsDropped
  <2>3. Named(m)' = Named(m)
    BY <2>1, <2>2 DEF Named, s
  <2>4. \A j \in Idx : Stage(m, j)'
    BY <1>1, <1>2, <2>3, StageKept DEF Reporting, groupVars
  <2>5. concurrent /\ concurrent' /\ mpc'[m] = "reading"
    BY <1>1, <1>2 DEF Reporting, client, s
  <2> QED  BY <2>4, <2>5 DEF Reporting
<1>9. Undisturbed' => \A n \in Managers, j \in Idx : Addressed(n, j)'
  BY <1>2, AddressedKept DEF groupVars
<1>10. ~crash'
  BY <1>2 DEF ReadInv
<1> QED  BY <1>5, <1>6, <1>7, <1>8, <1>9, <1>10, ManagersKept DEF ReadInv

LEMMA ReturnStep ==
    ASSUME ReadInv, NEW m \in Managers, Return(m)
    PROVE  ReadInv'
<1>1. TypeOK /\ Counting(m) /\ Reporting(m)
  BY DEF ReadInv
<1>2. /\ mpc[m] = "reading" /\ next[m] = N
      /\ IF concurrent THEN Collected(m) ELSE PreviousOver(m)
      /\ mpc' = [mpc EXCEPT ![m] = "idle"]
      /\ UNCHANGED <<client, polls, next, groupVars, joinVars>>
  BY DEF Return
<1>3. TypeOK'
  BY <1>1, <1>2 DEF TypeOK, client, groupVars, joinVars
<1>4. Others(m)
  BY <1>1, <1>2 DEF Others, SameCounting, SameReporting, TypeOK, client, groupVars, joinVars
<1>5. Running(m) = {} /\ Running(m)' = Running(m)
  <2>1. CASE concurrent
    BY <1>1, <1>2, <2>1 DEF Collected, Counting, Running, groupVars
  <2>2. CASE ~concurrent
    BY <1>2, <2>2 DEF PreviousOver, Running, groupVars
  <2> QED  BY <2>1, <2>2
<1>6. mpc'[m] = "idle"
  BY <1>1, <1>2 DEF TypeOK
<1>7. Counting(m)'
  BY <1>1, <1>2, <1>5, <1>6 DEF Counting, client, groupVars, joinVars
<1>8. Reporting(m)'
  <2>1. errChan[m] = <<>>
    BY <1>1, <1>2 DEF Collected, Reporting
  <2>2. Named(m)' = Named(m)
    BY <1>2 DEF Named, Elements, joinVars
  <2>3. \A j \in Idx : Stage(m, j)'
    BY <1>1, <1>2, <2>2, StageKept DEF Reporting, groupVars
  <2> QED  BY <1>2, <2>1, <2>3 DEF Reporting, joinVars
<1>9. Undisturbed' => \A n \in Managers, j \in Idx : Addressed(n, j)'
  BY <1>2, AddressedKept DEF groupVars
<1>10. ~crash'
  BY <1>2 DEF ReadInv, joinVars
<1> QED  BY <1>3, <1>4, <1>7, <1>8, <1>9, <1>10, ManagersKept DEF ReadInv
-----------------------------------------------------------------------------
(***************************************************************************)
(* readGroup's steps.                                                      *)
(***************************************************************************)
LEMMA AtFacts ==
    ASSUME TypeOK, NEW m \in Managers, NEW i \in Idx, NEW from, NEW to \in GroupPoints,
           At(m, i, from, to)
    PROVE  /\ gpc[m][i] = from /\ gpc'[m][i] = to
           /\ \A j \in Idx \ {i} : gpc'[m][j] = gpc[m][j]
           /\ \A n \in Managers \ {m} : gpc'[n] = gpc[n]
           /\ gpc' \in [Managers -> [Idx -> GroupPoints]]
  BY DEF TypeOK, At

\* The goroutine runs before and after the step.
Inner == GroupPoints \ {"off", "finished"}

LEMMA InnerCounting ==
    ASSUME ReadInv, NEW m \in Managers, NEW i \in Idx,
           NEW from \in Inner, NEW to \in Inner, At(m, i, from, to),
           UNCHANGED <<concurrent, mpc, polls, next, wg, errClosed>>
    PROVE  Counting(m)'
<1>1. /\ gpc[m][i] = from /\ gpc'[m][i] = to
      /\ \A j \in Idx \ {i} : gpc'[m][j] = gpc[m][j]
  BY AtFacts DEF ReadInv, Inner
<1>2. Running(m)' = Running(m) /\ \A j \in Idx : gpc'[m][j] = "off" <=> gpc[m][j] = "off"
  BY <1>1 DEF Running, Inner
<1> QED  BY <1>2 DEF ReadInv, Counting

\* A goroutine that runs: the call is not over, and errChan not closed.
LEMMA RunningFacts ==
    ASSUME ReadInv, NEW m \in Managers, NEW i \in Idx, gpc[m][i] \in Inner
    PROVE  mpc[m] = "reading" /\ ~errClosed[m] /\ i \in Running(m)
<1>1. i \in Running(m)
  BY DEF Running, Inner
<1> QED  BY <1>1 DEF ReadInv, Counting, TypeOK

\* No error is named in the step: only the goroutine's own stage changes.
LEMMA InnerReporting ==
    ASSUME ReadInv, NEW m \in Managers, NEW i \in Idx,
           NEW from \in Inner, NEW to \in Inner, At(m, i, from, to),
           UNCHANGED <<concurrent, mpc, polls, errChan, errors>>,
           \A j \in Idx \ {i} : result'[m][j] = result[m][j] /\ regs'[m][j] = regs[m][j],
           Stage(m, i)'
    PROVE  Reporting(m)'
<1>1. \A j \in Idx \ {i} : gpc'[m][j] = gpc[m][j]
  BY AtFacts DEF ReadInv, Inner
<1>2. Named(m)' = Named(m)
  BY DEF Named, Elements
<1>3. ASSUME NEW j \in Idx \ {i}  PROVE  Stage(m, j)'
  <2>1. Stage(m, j)
    BY DEF ReadInv, Reporting
  <2> QED  BY <1>1, <1>2, <2>1, StageKept
<1> QED  BY <1>3 DEF ReadInv, Reporting

LEMMA SetSlaveIdStep ==
    ASSUME ReadInv, NEW m \in Managers, NEW i \in Idx, SetSlaveId(m, i)
    PROVE  ReadInv'
<1>1. TypeOK /\ Counting(m) /\ Reporting(m) /\ Stage(m, i)
  BY DEF ReadInv, Reporting
<1>2. /\ At(m, i, "setSlave", "encode") /\ slaveId' = slaveOf[m][i]
      /\ UNCHANGED <<concurrent, slaveOf, mpc, polls, next, req, reply, regs, result,
                     joinVars>>
  BY DEF SetSlaveId, ChosenSlave
<1>3. /\ gpc[m][i] = "setSlave" /\ gpc'[m][i] = "encode"
      /\ \A j \in Idx \ {i} : gpc'[m][j] = gpc[m][j]
      /\ \A n \in Managers \ {m} : gpc'[n] = gpc[n]
      /\ gpc' \in [Managers -> [Idx -> GroupPoints]]
  BY <1>1, <1>2, AtFacts DEF GroupPoints
<1>4. TypeOK'
  BY <1>1, <1>2, <1>3 DEF TypeOK, joinVars
<1>5. Others(m)
  BY <1>2, <1>3 DEF Others, SameCounting, SameReporting, joinVars
<1>6. Counting(m)'
  BY <1>2, InnerCounting DEF Inner, GroupPoints, joinVars
<1>7. Reporting(m)'
  <2>1. Named(m)' = Named(m)
    BY <1>2 DEF Named, Elements, joinVars
  <2>2. Stage(m, i)'
    BY <1>1, <1>3, <2>1 DEF Stage
  <2> QED  BY <1>2, <2>2, InnerReporting DEF Inner, GroupPoints, joinVars
<1>8. ASSUME Undisturbed', NEW n \in Managers, NEW j \in Idx  PROVE  Addressed(n, j)'
  <2>1. Undisturbed
    BY <1>2, <1>8 DEF Undisturbed
  <2>2. Addressed(n, j)
    BY <2>1 DEF ReadInv
  <2>3. CASE \A a, b \in Managers : \A k, l \in Idx : slaveOf[a][k] = slaveOf[b][l]
    BY <1>2, <1>3, <2>2, <2>3 DEF Addressed
  <2>4. CASE ~concurrent /\ Cardinality(Managers) = 1
    <3>1. n = m
      BY <2>4, FS_Singleton, GroupedReadAssumption
    <3>2. gpc'[n][j] = "encode" => j = i
      <4> SUFFICES ASSUME gpc'[n][j] = "encode", j # i  PROVE  FALSE
        OBVIOUS
      <4>1. j \in Running(m) /\ i \in Running(m)
        BY <1>3, <3>1 DEF Running
      <4> QED  BY <1>1, <2>4, <4>1 DEF Counting
    <3> QED  BY <1>2, <1>3, <2>2, <3>1, <3>2 DEF Addressed
  <2> QED  BY <2>1, <2>3, <2>4 DEF Undisturbed
<1>9. ~crash'
  BY <1>2 DEF ReadInv, joinVars
<1> QED  BY <1>4, <1>5, <1>6, <1>7, <1>8, <1>9, ManagersKept DEF ReadInv

LEMMA UnsupportedStep ==
    ASSUME ReadInv, NEW m \in Managers, NEW i \in Idx, Unsupported(m, i)
    PROVE  ReadInv'
<1>1. TypeOK /\ Stage(m, i)
  BY DEF ReadInv, Reporting
<1>2. /\ At(m, i, "encode", "report") /\ result' = [result EXCEPT ![m][i] = "nil"]
      /\ UNCHANGED <<client, mpc, polls, next, req, reply, regs, joinVars>>
  BY DEF Unsupported
<1>3. /\ gpc[m][i] = "encode" /\ gpc'[m][i] = "report"
      /\ \A j \in Idx \ {i} : gpc'[m][j] = gpc[m][j]
      /\ \A n \in Managers \ {m} : gpc'[n] = gpc[n]
      /\ gpc' \in [Managers -> [Idx -> GroupPoints]]
  BY <1>1, <1>2, AtFacts DEF GroupPoints
<1>4. /\ result'[m][i] = "nil" /\ \A j \in Idx \ {i} : result'[m][j] = result[m][j]
      /\ \A n \in Managers \ {m} : result'[n] = result[n]
      /\ result' \in [Managers -> [Idx -> {"unset", "group", "nil"}]]
  BY <1>1, <1>2 DEF TypeOK
<1>5. TypeOK'
  BY <1>1, <1>2, <1>3, <1>4 DEF TypeOK, client, joinVars
<1>6. Others(m)
  BY <1>2, <1>3, <1>4 DEF Others, SameCounting, SameReporting, client, joinVars
<1>7. Counting(m)'
  BY <1>2, InnerCounting DEF Inner, GroupPoints, client, joinVars
<1>8. Reporting(m)'
  <2>1. Named(m)' = Named(m)
    BY <1>2 DEF Named, Elements, joinVars
  <2>2. Stage(m, i)'
    BY <1>1, <1>3, <1>4, <2>1 DEF Stage
  <2> QED  BY <1>2, <1>4, <2>2, InnerReporting DEF Inner, GroupPoints, client, joinVars
<1>9. Undisturbed' => \A n \in Managers, j \in Idx : Addressed(n, j)'
  BY <1>2, <1>3, AddressedKept
<1>10. ~crash'
  BY <1>2 DEF ReadInv, joinVars
<1> QED  BY <1>5, <1>6, <1>7, <1>8, <1>9, <1>10, ManagersKept DEF ReadInv

LEMMA EncodeStep ==
    ASSUME ReadInv, NEW m \in Managers, NEW i \in Idx, Encode(m, i)
    PROVE  ReadInv'
<1>1. TypeOK /\ Stage(m, i)
  BY DEF ReadInv, Reporting
<1>2. /\ At(m, i, "encode", "send") /\ req' = [req EXCEPT ![m][i] = slaveId]
      /\ UNCHANGED <<client, mpc, polls, next, reply, regs, result, joinVars>>
  BY DEF Encode
<1>3. /\ gpc[m][i] = "encode" /\ gpc'[m][i] = "send"
      /\ \A j \in Idx \ {i} : gpc'[m][j] = gpc[m][j]
      /\ \A n \in Managers \ {m} : gpc'[n] = gpc[n]
      /\ gpc' \in [Managers -> [Idx -> GroupPoints]]
  BY <1>1, <1>2, AtFacts DEF GroupPoints
<1>4. /\ req'[m][i] = slaveId /\ \A j \in Idx \ {i} : req'[m][j] = req[m][j]
      /\ \A n \in Managers \ {m} : req'[n] = req[n]
      /\ req' \in [Managers -> [Idx -> Slaves \cup {NoSlave}]]
  BY <1>1, <1>2 DEF TypeOK
<1>5. TypeOK'
  BY <1>1, <1>2, <1>3, <1>4 DEF TypeOK, client, joinVars
<1>6. Others(m)
  BY <1>2, <1>3 DEF Others, SameCounting, SameReporting, client, joinVars
<1>7. Counting(m)'
  BY <1>2, InnerCounting DEF Inner, GroupPoints, client, joinVars
<1>8. Reporting(m)'
  <2>1. Named(m)' = Named(m)
    BY <1>2 DEF Named, Elements, joinVars
  <2>2. Stage(m, i)'
    BY <1>1, <1>3, <2>1 DEF Stage
  <2> QED  BY <1>2, <2>2, InnerReporting DEF Inner, GroupPoints, client, joinVars
<1>9. ASSUME Undisturbed', NEW n \in Managers, NEW j \in Idx  PROVE  Addressed(n, j)'
  <2>1. Undisturbed
    BY <1>2, <1>9 DEF Undisturbed, client
  <2>2. Addressed(n, j) /\ Addressed(m, i)
    BY <2>1 DEF ReadInv
  <2>3. CASE n = m /\ j = i
    BY <1>2, <1>3, <1>4, <2>2, <2>3 DEF Addressed, client
  <2>4. CASE ~(n = m /\ j = i)
    <3>1. gpc'[n][j] = gpc[n][j] /\ req'[n][j] = req[n][j]
      BY <1>3, <1>4, <2>4
    <3> QED  BY <1>2, <2>2, <3>1 DEF Addressed, client
  <2> QED  BY <2>3, <2>4
<1>10. ~crash'
  BY <1>2 DEF ReadInv, joinVars
<1> QED  BY <1>5, <1>6, <1>7, <1>8, <1>9, <1>10, ManagersKept DEF ReadInv

LEMMA ExchangeStep ==
    ASSUME ReadInv, NEW m \in Managers, NEW i \in Idx, Exchange(m, i)
    PROVE  ReadInv'
<1>1. TypeOK /\ Stage(m, i)
  BY DEF ReadInv, Reporting
<1>2. PICK r \in ReadError..K : reply' = [reply EXCEPT ![m][i] = r]
  BY DEF Exchange
<1>3. /\ At(m, i, "send", "store")
      /\ UNCHANGED <<client, mpc, polls, next, req, regs, result, joinVars>>
  BY DEF Exchange
<1>4. /\ gpc[m][i] = "send" /\ gpc'[m][i] = "store"
      /\ \A j \in Idx \ {i} : gpc'[m][j] = gpc[m][j]
      /\ \A n \in Managers \ {m} : gpc'[n] = gpc[n]
      /\ gpc' \in [Managers -> [Idx -> GroupPoints]]
  BY <1>1, <1>3, AtFacts DEF GroupPoints
<1>5. reply' \in [Managers -> [Idx -> ReadError..K]]
  BY <1>1, <1>2 DEF TypeOK
<1>6. TypeOK'
  BY <1>1, <1>3, <1>4, <1>5 DEF TypeOK, client, joinVars
<1>7. Others(m)
  BY <1>3, <1>4 DEF Others, SameCounting, SameReporting, client, joinVars
<1>8. Counting(m)'
  BY <1>3, InnerCounting DEF Inner, GroupPoints, client, joinVars
<1>9. Reporting(m)'
  <2>1. Named(m)' = Named(m)
    BY <1>3 DEF Named, Elements, joinVars
  <2>2. Stage(m, i)'
    BY <1>1, <1>4, <2>1 DEF Stage
  <2> QED  BY <1>3, <2>2, InnerReporting DEF Inner, GroupPoints, client, joinVars
<1>10. Undisturbed' => \A n \in Managers, j \in Idx : Addressed(n, j)'
  BY <1>3, <1>4, AddressedKept
<1>11. ~crash'
  BY <1>3 DEF ReadInv, joinVars
<1> QED  BY <1>6, <1>7, <1>8, <1>9, <1>10, <1>11, ManagersKept DEF ReadInv
\* What a reply makes of a register.
LEMMA StoredFacts ==
    ASSUME TypeOK, NEW m \in Managers, NEW i \in Idx, NEW r \in Regs
    PROVE  /\ reply[m][i] = ReadError \/ r = reply[m][i] + 1 => Stored(m, i, r) = Marked(m, i, r)
           /\ reply[m][i] # ReadError /\ r <= reply[m][i] => Stored(m, i, r) = Filled(m, i)
           /\ reply[m][i] # ReadError /\ r > reply[m][i] + 1 => Stored(m, i, r) = regs[m][i][r]
<1> DEFINE n == reply[m][i]
<1>1. n \in Int /\ r \in Int
  BY GroupedReadAssumption DEF TypeOK, ReadError, Regs
<1> HIDE DEF n
<1>2. /\ r <= n => ~(r = n + 1)
      /\ r > n + 1 => ~(r = n + 1) /\ ~(r <= n)
  BY <1>1
<1>3. ASSUME n = ReadError \/ r = n + 1  PROVE  Stored(m, i, r) = Marked(m, i, r)
  <2>1. ~(n # ReadError /\ r <= n)
    BY <1>2, <1>3
  <2> QED  BY <1>3, <2>1, Zenon DEF Stored, n
<1>4. ASSUME n # ReadError, r <= n  PROVE  Stored(m, i, r) = Filled(m, i)
  <2>1. ~(n = ReadError \/ r = n + 1)
    BY <1>2, <1>4
  <2> QED  BY <1>4, <2>1, Zenon DEF Stored, n
<1>5. ASSUME n # ReadError, r > n + 1  PROVE  Stored(m, i, r) = regs[m][i][r]
  <2>1. ~(n = ReadError \/ r = n + 1) /\ ~(n # ReadError /\ r <= n)
    BY <1>2, <1>5
  <2> QED  BY <2>1, Zenon DEF Stored, n
<1> QED  BY <1>3, <1>4, <1>5 DEF n

LEMMA StoreStep ==
    ASSUME ReadInv, NEW m \in Managers, NEW i \in Idx, Store(m, i)
    PROVE  ReadInv'
<1> DEFINE to == IF Failed(m, i) THEN "report" ELSE "done"
           n == reply[m][i]
           new == [r \in Regs |-> Stored(m, i, r)]
<1>1. TypeOK /\ Stage(m, i)
  BY DEF ReadInv, Reporting
<1>2. /\ At(m, i, "store", to)
      /\ regs' = [regs EXCEPT ![m][i] = new]
      /\ result' = [result EXCEPT ![m][i] = "group"]
      /\ UNCHANGED <<client, mpc, polls, next, req, reply, joinVars>>
  BY DEF Store
<1>3. /\ n \in ReadError..K /\ K \in Nat \ {0} /\ polls[m] \in 0..MaxPolls
      /\ req[m][i] \in Slaves \cup {NoSlave}
      /\ \A r \in Regs : regs[m][i][r] \in RegisterState
  BY <1>1, GroupedReadAssumption DEF TypeOK
<1>4. \A r \in Regs :
         /\ n = ReadError \/ r = n + 1 => new[r] = Marked(m, i, r)
         /\ n # ReadError /\ r <= n => new[r] = Filled(m, i)
         /\ n # ReadError /\ r > n + 1 => new[r] = regs[m][i][r]
  BY <1>1, StoredFacts
<1>5. \A r \in Regs :
         /\ Marked(m, i, r) \in RegisterState /\ Marked(m, i, r).status = "INVALID"
         /\ Filled(m, i) \in RegisterState
         /\ Filled(m, i).status = "VALID" /\ Filled(m, i).from = req[m][i]
         /\ Filled(m, i).poll = polls[m]
  BY <1>3 DEF Marked, Filled, RegisterState
<1>6. \A r \in Regs : r \in Int /\ (n = ReadError \/ r = n + 1 \/ (n # ReadError /\ r <= n)
                                      \/ (n # ReadError /\ r > n + 1))
  BY <1>3 DEF Regs, ReadError
<1>7. new \in [Regs -> RegisterState]
  <2>1. \A r \in Regs : new[r] \in RegisterState
    BY <1>3, <1>4, <1>5, <1>6
  <2> QED  BY <2>1
<1> HIDE DEF new
<1>8. /\ regs'[m][i] = new /\ \A j \in Idx \ {i} : regs'[m][j] = regs[m][j]
      /\ \A k \in Managers \ {m} : regs'[k] = regs[k]
      /\ regs' \in [Managers -> [Idx -> [Regs -> RegisterState]]]
  BY <1>1, <1>2, <1>7 DEF TypeOK
<1>9. /\ result'[m][i] = "group" /\ \A j \in Idx \ {i} : result'[m][j] = result[m][j]
      /\ \A k \in Managers \ {m} : result'[k] = result[k]
      /\ result' \in [Managers -> [Idx -> {"unset", "group", "nil"}]]
  BY <1>1, <1>2 DEF TypeOK
<1>10. to \in {"report", "done"}
  OBVIOUS
<1>11. /\ gpc[m][i] = "store" /\ gpc'[m][i] = to
       /\ \A j \in Idx \ {i} : gpc'[m][j] = gpc[m][j]
       /\ \A k \in Managers \ {m} : gpc'[k] = gpc[k]
       /\ gpc' \in [Managers -> [Idx -> GroupPoints]]
  BY <1>1, <1>2, <1>10, AtFacts DEF GroupPoints
<1>12. TypeOK'
  BY <1>1, <1>2, <1>8, <1>9, <1>11 DEF TypeOK, client, joinVars
<1>13. Others(m)
  BY <1>2, <1>8, <1>9, <1>11 DEF Others, SameCounting, SameReporting, client, joinVars
<1>14. Counting(m)'
  BY <1>2, <1>10, InnerCounting DEF Inner, GroupPoints, client, joinVars
<1>15. Reporting(m)'
  <2>1. Named(m)' = Named(m)
    BY <1>2 DEF Named, Elements, joinVars
  <2>2. i \notin Named(m)
    BY <1>1, <1>11 DEF Stage
  <2>3. CASE Failed(m, i)
    <3>1. \E r \in Regs : n = ReadError \/ r = n + 1
      <4>1. CASE n = ReadError
        BY <1>3, <4>1 DEF Regs
      <4>2. CASE n # ReadError
        <5>1. n + 1 \in Regs
          BY <1>3, <2>3, <4>2 DEF Failed, Regs, ReadError
        <5> QED  BY <5>1
      <4> QED  BY <4>1, <4>2
    <3>2. HasInvalid(m, i)'
      BY <1>4, <1>5, <1>8, <3>1 DEF HasInvalid
    <3>3. gpc'[m][i] = "report"
      BY <1>11, <2>3
    <3>4. Stage(m, i)'
      BY <1>9, <2>1, <2>2, <3>2, <3>3 DEF Stage
    <3> QED  BY <1>2, <1>8, <1>9, <1>10, <3>4, InnerReporting
                DEF Inner, GroupPoints, client, joinVars
  <2>4. CASE ~Failed(m, i)
    <3>1. \A r \in Regs : n # ReadError /\ r <= n
      BY <1>3, <2>4 DEF Failed, Regs, ReadError
    <3>2. Complete(m, i)'
      BY <1>2, <1>4, <1>5, <1>8, <3>1 DEF Complete
    <3>3. gpc'[m][i] = "done"
      BY <1>11, <2>4
    <3>4. Stage(m, i)'
      BY <1>9, <2>1, <2>2, <3>2, <3>3 DEF Stage
    <3> QED  BY <1>2, <1>8, <1>9, <1>10, <3>4, InnerReporting
                DEF Inner, GroupPoints, client, joinVars
  <2> QED  BY <2>3, <2>4
<1>16. ASSUME Undisturbed', NEW k \in Managers, NEW j \in Idx  PROVE  Addressed(k, j)'
  <2>1. Undisturbed
    BY <1>2, <1>16 DEF Undisturbed, client
  <2>2. Addressed(k, j)
    BY <2>1 DEF ReadInv
  <2>3. CASE k = m /\ j = i
    <3>1. req[m][i] = slaveOf[m][i]
      BY <1>11, <2>2, <2>3 DEF Addressed
    <3>2. ASSUME NEW r \in Regs, new[r].status = "VALID"  PROVE  new[r].from = slaveOf[m][i]
      <4>1. \/ new[r] = Marked(m, i, r)
            \/ new[r] = Filled(m, i)
            \/ new[r] = regs[m][i][r]
        BY <1>4, <1>6
      <4>2. regs[m][i][r].status = "VALID" => regs[m][i][r].from = slaveOf[m][i]
        BY <2>2, <2>3 DEF Addressed
      <4> QED  BY <1>5, <3>1, <3>2, <4>1, <4>2
    <3> QED  BY <1>2, <1>8, <1>10, <1>11, <2>3, <3>2 DEF Addressed, client
  <2>4. CASE ~(k = m /\ j = i)
    <3>1. gpc'[k][j] = gpc[k][j] /\ regs'[k][j] = regs[k][j]
      BY <1>8, <1>11, <2>4
    <3> QED  BY <1>2, <2>2, <3>1 DEF Addressed, client
  <2> QED  BY <2>3, <2>4
<1>17. ~crash'
  BY <1>2 DEF ReadInv, joinVars
<1> QED  BY <1>12, <1>13, <1>14, <1>15, <1>16, <1>17, ManagersKept DEF ReadInv

LEMMA ReportStep ==
    ASSUME ReadInv, NEW m \in Managers, NEW i \in Idx, Report(m, i)
    PROVE  ReadInv'
<1>1. TypeOK /\ Stage(m, i) /\ Reporting(m)
  BY DEF ReadInv, Reporting
<1>2. /\ At(m, i, "report", "done")
      /\ UNCHANGED <<client, mpc, polls, next, req, reply, regs, result, wg, errClosed>>
  BY DEF Report
<1>3. /\ gpc[m][i] = "report" /\ gpc'[m][i] = "done"
      /\ \A j \in Idx \ {i} : gpc'[m][j] = gpc[m][j]
      /\ \A k \in Managers \ {m} : gpc'[k] = gpc[k]
      /\ gpc' \in [Managers -> [Idx -> GroupPoints]]
  BY <1>1, <1>2, AtFacts DEF GroupPoints
<1>4. mpc[m] = "reading" /\ ~errClosed[m]
  BY <1>3, RunningFacts DEF Inner, GroupPoints
<1>5. /\ Named(m)' = Named(m) \cup {i} /\ ~crash'
      /\ errChan' \in [Managers -> Seq(Idx)] /\ \A k \in Managers : Len(errChan'[k]) <= N
      /\ errors' \in [Managers -> SUBSET Idx]
      /\ \A k \in Managers \ {m} : errChan'[k] = errChan[k] /\ errors'[k] = errors[k]
      /\ ~concurrent => errChan' = errChan
  <2>1. CASE concurrent
    <3>1. /\ Len(errChan[m]) < N /\ UNCHANGED errors /\ ~crash'
          /\ errChan' = [errChan EXCEPT ![m] = Append(errChan[m], i)]
      BY <1>4, <2>1 DEF Report, ReadInv
    <3>2. errChan[m] \in Seq(Idx)
      BY <1>1 DEF TypeOK
    <3>3. /\ Append(errChan[m], i) \in Seq(Idx) /\ Len(Append(errChan[m], i)) <= N
          /\ Elements(Append(errChan[m], i)) = Elements(errChan[m]) \cup {i}
      BY <3>1, <3>2, ElementsAppended, GroupedReadAssumption
    <3>4. errChan'[m] = Append(errChan[m], i)
      BY <1>1, <3>1 DEF TypeOK
    <3>5. Named(m)' = Named(m) \cup {i}
      BY <3>1, <3>3, <3>4 DEF Named
    <3> QED  BY <1>1, <2>1, <3>1, <3>3, <3>5 DEF TypeOK
  <2>2. CASE ~concurrent
    <3>1. errors' = [errors EXCEPT ![m] = errors[m] \cup {i}] /\ UNCHANGED <<errChan, crash>>
      BY <2>2 DEF Report
    <3>2. errors'[m] = errors[m] \cup {i} /\ errors' \in [Managers -> SUBSET Idx]
      BY <1>1, <3>1 DEF TypeOK
    <3>3. Named(m)' = Named(m) \cup {i}
      BY <3>1, <3>2 DEF Named, Elements
    <3> QED  BY <1>1, <3>1, <3>2, <3>3 DEF TypeOK, ReadInv
  <2> QED  BY <2>1, <2>2
<1>6. TypeOK'
  <2>1. crash' \in BOOLEAN
    BY <1>1 DEF TypeOK, Report
  <2> QED  BY <1>1, <1>2, <1>3, <1>5, <2>1 DEF TypeOK, client
<1>7. Others(m)
  BY <1>2, <1>3, <1>5 DEF Others, SameCounting, SameReporting, client
<1>8. Counting(m)'
  BY <1>2, InnerCounting DEF Inner, GroupPoints, client
<1>9. Reporting(m)'
  <2>1. Stage(m, i)'
    <3>1. result[m][i] = "nil" \/ (result[m][i] = "group" /\ HasInvalid(m, i))
      BY <1>1, <1>3 DEF Stage
    <3>2. HasInvalid(m, i) => ~Complete(m, i)
      BY DEF HasInvalid, Complete
    <3>3. (HasInvalid(m, i) <=> HasInvalid(m, i)') /\ (Complete(m, i) <=> Complete(m, i)')
      BY <1>2 DEF HasInvalid, Complete
    <3> QED  BY <1>2, <1>3, <1>5, <3>1, <3>2, <3>3 DEF Stage
  <2>2. ASSUME NEW j \in Idx \ {i}  PROVE  Stage(m, j)'
    BY <1>1, <1>2, <1>3, <1>5, StageKept DEF Reporting
  <2> QED  BY <1>1, <1>2, <1>4, <1>5, <2>1, <2>2 DEF Reporting, client
<1>10. Undisturbed' => \A k \in Managers, j \in Idx : Addressed(k, j)'
  BY <1>2, <1>3, AddressedKept
<1> QED  BY <1>5, <1>6, <1>7, <1>8, <1>9, <1>10, ManagersKept DEF ReadInv

LEMMA DoneStep ==
    ASSUME ReadInv, NEW m \in Managers, NEW i \in Idx, Done(m, i)
    PROVE  ReadInv'
<1>1. TypeOK /\ Counting(m) /\ Reporting(m)
  BY DEF ReadInv
<1>2. /\ At(m, i, "done", "finished")
      /\ wg' = [wg EXCEPT ![m] = IF concurrent THEN wg[m] - 1 ELSE wg[m]]
      /\ UNCHANGED <<client, mpc, polls, next, req, reply, regs, result,
                     errChan, errClosed, errors, crash>>
  BY DEF Done, Counted
<1>3. /\ gpc[m][i] = "done" /\ gpc'[m][i] = "finished"
      /\ \A j \in Idx \ {i} : gpc'[m][j] = gpc[m][j]
      /\ \A k \in Managers \ {m} : gpc'[k] = gpc[k]
      /\ gpc' \in [Managers -> [Idx -> GroupPoints]]
  BY <1>1, <1>2, AtFacts DEF GroupPoints
<1>4. mpc[m] = "reading" /\ ~errClosed[m] /\ i \in Running(m)
  BY <1>3, RunningFacts DEF Inner, GroupPoints
<1>5. Running(m)' = Running(m) \ {i}
  BY <1>3 DEF Running
<1>6. wg'[m] = (IF concurrent THEN Cardinality(Running(m)') ELSE 0) /\ wg'[m] \in 0..N
  <2>1. IsFiniteSet(Running(m)) /\ Cardinality(Running(m)) \in 0..N
    BY GroupSets DEF Running
  <2>2. Cardinality(Running(m)') = Cardinality(Running(m)) - 1
    BY <1>4, <1>5, <2>1, FS_RemoveElement
  <2>3. Cardinality(Running(m)') \in 0..N
    BY GroupSets, <1>5 DEF Running
  <2>4. wg[m] = IF concurrent THEN Cardinality(Running(m)) ELSE 0
    BY <1>1 DEF Counting
  <2>5. wg'[m] = IF concurrent THEN wg[m] - 1 ELSE wg[m]
    BY <1>1, <1>2 DEF TypeOK
  <2> QED  BY <2>2, <2>3, <2>4, <2>5, GroupedReadAssumption
<1>7. TypeOK'
  <2>1. wg' \in [Managers -> 0..N]
    BY <1>1, <1>2, <1>6 DEF TypeOK
  <2> QED  BY <1>1, <1>2, <1>3, <2>1 DEF TypeOK, client
<1>8. Others(m)
  BY <1>1, <1>2, <1>3 DEF Others, SameCounting, SameReporting, TypeOK, client
<1>9. Counting(m)'
  <2>1. \A j \in Idx : gpc'[m][j] = "off" <=> gpc[m][j] = "off"
    BY <1>3
  <2> QED  BY <1>1, <1>2, <1>4, <1>5, <1>6, <2>1 DEF Counting, client
<1>10. Reporting(m)'
  <2>1. Named(m)' = Named(m)
    BY <1>2 DEF Named, Elements
  <2>2. Stage(m, i)'
    <3>1. Stage(m, i)
      BY <1>1 DEF Reporting
    <3>2. (HasInvalid(m, i) <=> HasInvalid(m, i)') /\ (Complete(m, i) <=> Complete(m, i)')
      BY <1>2 DEF HasInvalid, Complete
    <3> QED  BY <1>2, <1>3, <2>1, <3>1, <3>2 DEF Stage
  <2>3. ASSUME NEW j \in Idx \ {i}  PROVE  Stage(m, j)'
    BY <1>1, <1>2, <1>3, <2>1, StageKept DEF Reporting
  <2> QED  BY <1>1, <1>2, <2>2, <2>3 DEF Reporting, client
<1>11. Undisturbed' => \A k \in Managers, j \in Idx : Addressed(k, j)'
  BY <1>2, <1>3, AddressedKept
<1>12. ~crash'
  BY <1>2 DEF ReadInv
<1> QED  BY <1>7, <1>8, <1>9, <1>10, <1>11, <1>12, ManagersKept DEF ReadInv

-----------------------------------------------------------------------------
LEMMA StutterKeepsReadInv ==
    ASSUME ReadInv, UNCHANGED vars
    PROVE  ReadInv'
<1>1. UNCHANGED <<concurrent, slaveId, slaveOf, mpc, polls, next, gpc, req, reply, regs,
                  result, wg, errChan, errClosed, errors, crash>>
  BY DEF vars, client, groupVars, joinVars
<1>2. TypeOK'
  BY <1>1 DEF ReadInv, TypeOK
<1>3. \A m \in Managers : Counting(m)' /\ Reporting(m)'
  BY <1>1, CountingKept, ReportingKept DEF ReadInv, SameCounting, SameReporting
<1>4. Undisturbed' => \A m \in Managers, i \in Idx : Addressed(m, i)'
  BY <1>1, AddressedKept DEF client
<1> QED  BY <1>1, <1>2, <1>3, <1>4 DEF ReadInv

LEMMA ReadNext == ReadInv /\ [Next]_vars => ReadInv'
<1> SUFFICES ASSUME ReadInv, [Next]_vars  PROVE  ReadInv'
  OBVIOUS
<1>1. CASE UNCHANGED vars
  BY <1>1, StutterKeepsReadInv
<1>2. ASSUME NEW m \in Managers, BeginRead(m) \/ CallNext(m)  PROVE  ReadInv'
  BY <1>2, BeginReadStep, BeginGroupStep, CloseErrChanStep, CollectErrorStep, ReturnStep
     DEF CallNext
<1>3. ASSUME NEW m \in Managers, NEW i \in Idx, GroupNext(m, i)  PROVE  ReadInv'
  BY <1>3, SetSlaveIdStep, UnsupportedStep, EncodeStep, ExchangeStep, StoreStep, ReportStep,
     DoneStep DEF GroupNext
<1> QED  BY <1>1, <1>2, <1>3 DEF Next

LEMMA ReadInvariant == Spec => []ReadInv
  BY ReadInit, ReadNext, PTL DEF Spec

\* Every variable keeps its type: the WaitGroup does not go below zero, and
\* errChan never holds more errors than the len(groups) it was made for.
THEOREM ReadTypeOK == Spec => []TypeOK
<1>1. ReadInv => TypeOK
  BY DEF ReadInv
<1> QED  BY <1>1, ReadInvariant, PTL

\* When ReadGroupedDataConcurrently or Sequential returns, none of its goroutines
\* still writes the groups, and no error is sent on the closed errChan.
THEOREM ReadQuietAfterReturn == Spec => []QuietAfterReturn
<1>1. ReadInv => QuietAfterReturn
  BY DEF ReadInv, QuietAfterReturn, Counting, Running
<1> QED  BY <1>1, ReadInvariant, PTL

\* The errors returned name exactly the groups without this poll's values.
THEOREM ReadOutcomeReported == Spec => []OutcomeReported
<1>1. ReadInv => OutcomeReported
  <2> SUFFICES ASSUME ReadInv, NEW m \in Managers, NEW i \in Idx,
                      mpc[m] = "idle", polls[m] > 0
               PROVE  /\ result[m][i] # "unset"
                      /\ i \in errors[m] <=> (result[m][i] = "nil" \/ ~Complete(m, i))
                      /\ i \in errors[m] /\ result[m][i] = "group"
                           => \E r \in Regs : regs[m][i][r].status = "INVALID"
    BY DEF OutcomeReported
  <2>1. Counting(m) /\ Reporting(m) /\ Stage(m, i) /\ TypeOK
    BY DEF ReadInv, Reporting
  <2>2. Named(m) = errors[m]
    BY <2>1, ElementsOfEmpty DEF Reporting, Named
  <2>3. next[m] = N /\ Running(m) = {}
    BY <2>1 DEF Counting
  <2>4. gpc[m][i] # "off"
    <3>1. ~(i > N)
      BY GroupedReadAssumption DEF Idx
    <3> QED  BY <2>1, <2>3, <3>1 DEF Counting
  <2>5. gpc[m][i] = "finished"
    BY <2>3, <2>4 DEF Running
  <2> QED  BY <2>1, <2>2, <2>5 DEF Stage, HasInvalid
<1> QED  BY <1>1, ReadInvariant, PTL

\* Nobody else using the client, a valid register's value is its own slave's,
\* although SetSlaveId and Encode are separate steps of a shared packager.
THEOREM ReadOwnSlave == Spec => []OwnSlaveDataUndisturbed
<1>1. ReadInv => OwnSlaveDataUndisturbed
  BY DEF ReadInv, OwnSlaveDataUndisturbed, Undisturbed, OwnSlaveData, Addressed
<1> QED  BY <1>1, ReadInvariant, PTL
===============================================================================
