----------------------------- MODULE GroupedRead -----------------------------
(***************************************************************************)
(* Reading the groups of register managers over one shared client:         *)
(* readGroup, ReadGroupedDataSequential and ReadGroupedDataConcurrently of *)
(* enhancement-group.go, down to the two client steps they interleave on:  *)
(* SetSlaveId writes the packager's slaveId, and Encode reads it when the  *)
(* request is built.  The exchange itself is one step, because the         *)
(* transporter's Send holds its own mutex from write to read.              *)
(***************************************************************************)
EXTENDS Integers, Sequences, FiniteSets

CONSTANTS
    Managers,    \* register managers that share the client
    Slaves,      \* slave ids
    N,           \* groups each manager has loaded
    K,           \* registers in each group
    Modes,       \* how a client may be read: TRUE is concurrently
    MaxPolls     \* bound: ReadGroupedData calls of one manager

ASSUME GroupedReadAssumption ==
    /\ N \in Nat \ {0} /\ K \in Nat \ {0} /\ MaxPolls \in Nat
    /\ Modes \subseteq BOOLEAN /\ Modes # {}
    /\ Slaves # {} /\ IsFiniteSet(Managers)

Idx == 1..N
Regs == 1..K
NoSlave == "noSlave"
ReadError == -1

VARIABLES
    concurrent, \* the client type is "TCP": one goroutine per group
    slaveId,   \* slaveId of the shared packager
    slaveOf,   \* SlaverId of the registers of each group
    mpc,       \* where each manager's ReadGroupedData is
    polls,     \* reads each manager has begun
    next,      \* groups whose reading has been started in this call
    gpc,       \* where the reading of each group is
    req,       \* slave a group's request was encoded for
    reply,     \* how many registers came back, or an error
    regs,      \* the registers: status, slave the value came from, poll it is of
    result,    \* result[idx] of the call
    wg,        \* counter of the WaitGroup
    errChan,   \* buffered errors
    errClosed, \* errChan is closed
    errors,    \* groups named in the errors returned
    crash      \* a send on the closed errChan happened

client == <<concurrent, slaveId, slaveOf>>
groupVars == <<gpc, req, reply, regs, result>>
joinVars == <<wg, errChan, errClosed, errors, crash>>
vars == <<client, mpc, polls, next, groupVars, joinVars>>

GroupPoints == {"off", "setSlave", "encode", "send", "store", "report", "done", "finished"}
RegisterState == [status : {"unread", "VALID", "INVALID"}, from : Slaves \cup {NoSlave}, poll : 0..MaxPolls]

TypeOK ==
    /\ concurrent \in Modes
    /\ slaveId \in Slaves \cup {NoSlave}
    /\ slaveOf \in [Managers -> [Idx -> Slaves]]
    /\ mpc \in [Managers -> {"idle", "reading"}]
    /\ polls \in [Managers -> 0..MaxPolls]
    /\ next \in [Managers -> 0..N]
    /\ gpc \in [Managers -> [Idx -> GroupPoints]]
    /\ req \in [Managers -> [Idx -> Slaves \cup {NoSlave}]]
    /\ reply \in [Managers -> [Idx -> ReadError..K]]
    /\ regs \in [Managers -> [Idx -> [Regs -> RegisterState]]]
    /\ result \in [Managers -> [Idx -> {"unset", "group", "nil"}]]
    /\ wg \in [Managers -> 0..N]
    /\ errChan \in [Managers -> Seq(Idx)] /\ \A m \in Managers : Len(errChan[m]) <= N
    /\ errClosed \in [Managers -> BOOLEAN]
    /\ errors \in [Managers -> SUBSET Idx]
    /\ crash \in BOOLEAN

\* LoadRegisters has grouped the registers: any assignment of slaves to groups.
Init ==
    /\ concurrent \in Modes
    /\ slaveId = NoSlave
    /\ slaveOf \in [Managers -> [Idx -> Slaves]]
    /\ mpc = [m \in Managers |-> "idle"]
    /\ polls = [m \in Managers |-> 0]
    /\ next = [m \in Managers |-> 0]
    /\ gpc = [m \in Managers |-> [i \in Idx |-> "off"]]
    /\ req = [m \in Managers |-> [i \in Idx |-> NoSlave]]
    /\ reply = [m \in Managers |-> [i \in Idx |-> ReadError]]
    /\ regs = [m \in Managers |-> [i \in Idx |-> [r \in Regs |->
                 [status |-> "unread", from |-> NoSlave, poll |-> 0]]]]
    /\ result = [m \in Managers |-> [i \in Idx |-> "unset"]]
    /\ wg = [m \in Managers |-> 0]
    /\ errChan = [m \in Managers |-> <<>>]
    /\ errClosed = [m \in Managers |-> FALSE]
    /\ errors = [m \in Managers |-> {}]
    /\ crash = FALSE

-----------------------------------------------------------------------------
(***************************************************************************)
(* The caller of ReadGroupedData.                                          *)
(***************************************************************************)
BeginRead(m) ==
    /\ mpc[m] = "idle" /\ polls[m] < MaxPolls
    /\ mpc' = [mpc EXCEPT ![m] = "reading"]
    /\ polls' = [polls EXCEPT ![m] = @ + 1]
    /\ next' = [next EXCEPT ![m] = 0]
    /\ gpc' = [gpc EXCEPT ![m] = [i \in Idx |-> "off"]]
    /\ result' = [result EXCEPT ![m] = [i \in Idx |-> "unset"]]
    /\ errClosed' = [errClosed EXCEPT ![m] = FALSE]
    /\ errors' = [errors EXCEPT ![m] = {}]
    /\ UNCHANGED <<client, req, reply, regs, wg, errChan, crash>>

\* A group is begun when the loop reaches it: its goroutine is spawned, or, in
\* the sequential variant, the previous group is over.
PreviousOver(m) == \A i \in Idx : gpc[m][i] \in {"off", "finished"}
MayBeginGroup(m) == concurrent \/ PreviousOver(m)

BeginGroup(m) ==
    /\ mpc[m] = "reading" /\ next[m] < N
    /\ MayBeginGroup(m)
    /\ next' = [next EXCEPT ![m] = @ + 1]
    /\ gpc' = [gpc EXCEPT ![m][next[m] + 1] = "setSlave"]
    /\ wg' = [wg EXCEPT ![m] = IF concurrent THEN @ + 1 ELSE @]
    /\ UNCHANGED <<client, mpc, polls, req, reply, regs, result,
                   errChan, errClosed, errors, crash>>

\* The goroutine that waits for the WaitGroup is started after the loop has
\* added every group.  (Mutant: it is started before the loop.)
JoinedAnyTime(m) == wg[m] = 0
Joined(m) == next[m] = N /\ wg[m] = 0

CloseErrChan(m) ==
    /\ concurrent /\ mpc[m] = "reading"
    /\ Joined(m) /\ ~errClosed[m]
    /\ errClosed' = [errClosed EXCEPT ![m] = TRUE]
    /\ UNCHANGED <<client, mpc, polls, next, groupVars, wg, errChan, errors, crash>>

CollectError(m) ==
    /\ mpc[m] = "reading" /\ next[m] = N /\ errChan[m] # <<>>
    /\ errors' = [errors EXCEPT ![m] = @ \cup {Head(errChan[m])}]
    /\ errChan' = [errChan EXCEPT ![m] = Tail(@)]
    /\ UNCHANGED <<client, mpc, polls, next, groupVars, wg, errClosed, crash>>

\* The range over errChan ends when it is closed and drained.
Collected(m) == errClosed[m] /\ errChan[m] = <<>>

Return(m) ==
    /\ mpc[m] = "reading" /\ next[m] = N
    /\ IF concurrent THEN Collected(m) ELSE PreviousOver(m)
    /\ mpc' = [mpc EXCEPT ![m] = "idle"]
    /\ UNCHANGED <<client, polls, next, groupVars, joinVars>>

-----------------------------------------------------------------------------
(***************************************************************************)
(* readGroup, for group i of manager m.                                    *)
(***************************************************************************)
At(m, i, from, to) == gpc[m][i] = from /\ gpc' = [gpc EXCEPT ![m][i] = to]

\* client.SetSlaveId(group[0].SlaverId).  (Mutant: the call is forgotten.)
ChosenSlaveKept(m, i) == IF slaveId = NoSlave THEN slaveOf[m][i] ELSE slaveId
ChosenSlave(m, i) == slaveOf[m][i]

SetSlaveId(m, i) ==
    /\ At(m, i, "setSlave", "encode")
    /\ slaveId' = ChosenSlave(m, i)
    /\ UNCHANGED <<concurrent, slaveOf, mpc, polls, next, req, reply, regs, result, joinVars>>

\* The function code is not 1..4: a nil result and an error, nothing is sent.
Unsupported(m, i) ==
    /\ At(m, i, "encode", "report")
    /\ result' = [result EXCEPT ![m][i] = "nil"]
    /\ UNCHANGED <<client, mpc, polls, next, req, reply, regs, joinVars>>

\* Encode copies whatever slaveId the packager has now.
Encode(m, i) ==
    /\ At(m, i, "encode", "send")
    /\ req' = [req EXCEPT ![m][i] = slaveId]
    /\ UNCHANGED <<client, mpc, polls, next, reply, regs, result, joinVars>>

\* The client returns an error, or the data of n registers of the slave the
\* request named (the client checks the byte count against the length of the
\* answer, not against the quantity it asked for).
Exchange(m, i) ==
    /\ At(m, i, "send", "store")
    /\ \E r \in ReadError..K : reply' = [reply EXCEPT ![m][i] = r]
    /\ UNCHANGED <<client, mpc, polls, next, req, regs, result, joinVars>>

Failed(m, i) == reply[m][i] # K

\* A read error invalidates every register.  Otherwise the registers the data
\* covers are valid, the first it does not cover is invalid, and the loop stops
\* there: the registers behind it keep what an earlier poll left in them.
\* (Mutant: the bound check is off by one.)
Marked(m, i, r) == [regs[m][i][r] EXCEPT !.status = "INVALID"]
Filled(m, i) == [status |-> "VALID", from |-> req[m][i], poll |-> polls[m]]
StoredOneTooMany(m, i, r) ==
    CASE reply[m][i] = ReadError -> Marked(m, i, r)
      [] reply[m][i] # ReadError /\ r <= reply[m][i] + 1 -> Filled(m, i)
      [] OTHER -> regs[m][i][r]
Stored(m, i, r) ==
    CASE reply[m][i] = ReadError \/ r = reply[m][i] + 1 -> Marked(m, i, r)
      [] reply[m][i] # ReadError /\ r <= reply[m][i] -> Filled(m, i)
      [] OTHER -> regs[m][i][r]

Store(m, i) ==
    /\ At(m, i, "store", IF Failed(m, i) THEN "report" ELSE "done")
    /\ regs' = [regs EXCEPT ![m][i] = [r \in Regs |-> Stored(m, i, r)]]
    /\ result' = [result EXCEPT ![m][i] = "group"]
    /\ UNCHANGED <<client, mpc, polls, next, req, reply, joinVars>>

\* errChan <- groupError, or errors = append(errors, err).
Report(m, i) ==
    /\ At(m, i, "report", "done")
    /\ IF concurrent
       THEN /\ Len(errChan[m]) < N
            /\ errChan' = [errChan EXCEPT ![m] = IF errClosed[m] THEN @ ELSE Append(@, i)]
            /\ crash' = (crash \/ errClosed[m])
            /\ UNCHANGED errors
       ELSE /\ errors' = [errors EXCEPT ![m] = @ \cup {i}]
            /\ UNCHANGED <<errChan, crash>>
    /\ UNCHANGED <<client, mpc, polls, next, req, reply, regs, result, wg, errClosed>>

\* The deferred wg.Done, after everything else the goroutine does.
\* (Mutant: it is not deferred, and skipped after an error.)
CountedOnSuccess(m, i) == IF concurrent /\ ~Failed(m, i) THEN wg[m] - 1 ELSE wg[m]
Counted(m, i) == IF concurrent THEN wg[m] - 1 ELSE wg[m]
Done(m, i) ==
    /\ At(m, i, "done", "finished")
    /\ wg' = [wg EXCEPT ![m] = Counted(m, i)]
    /\ UNCHANGED <<client, mpc, polls, next, req, reply, regs, result,
                   errChan, errClosed, errors, crash>>

-----------------------------------------------------------------------------
GroupNext(m, i) ==
    \/ SetSlaveId(m, i) \/ Unsupported(m, i) \/ Encode(m, i) \/ Exchange(m, i)
    \/ Store(m, i) \/ Report(m, i) \/ Done(m, i)
CallNext(m) == BeginGroup(m) \/ CloseErrChan(m) \/ CollectError(m) \/ Return(m)

Next ==
    \E m \in Managers :
        \/ BeginRead(m) \/ CallNext(m)
        \/ \E i \in Idx : GroupNext(m, i)

Spec == Init /\ [][Next]_vars

\* Every goroutine that can take a step takes it; an exchange ends, with an
\* answer or with the client's timeout.
Fairness ==
    \A m \in Managers :
        /\ WF_vars(BeginGroup(m)) /\ WF_vars(CloseErrChan(m))
        /\ WF_vars(CollectError(m)) /\ WF_vars(Return(m))
        /\ \A i \in Idx : WF_vars(GroupNext(m, i))
FairSpec == Spec /\ Fairness

-----------------------------------------------------------------------------
(***************************************************************************)
(* Properties.                                                             *)
(***************************************************************************)

\* A register marked VALID holds a value of the slave it belongs to, although
\* SetSlaveId and the request that relies on it are separate steps.
OwnSlaveData ==
    \A m \in Managers, i \in Idx, r \in Regs :
        regs[m][i][r].status = "VALID" => regs[m][i][r].from = slaveOf[m][i]

\* So it is as long as nobody else uses the client meanwhile: the groups are
\* read one after the other for a single manager, or all are of one slave.
OwnSlaveDataUndisturbed ==
    (~concurrent /\ Cardinality(Managers) = 1)
        \/ (\A m, n \in Managers : \A i, j \in Idx : slaveOf[m][i] = slaveOf[n][j])
    => OwnSlaveData

\* What ReadGroupedData returns: the errors name exactly the groups that have
\* no result, or an invalid register; every other group holds this poll's values.
Complete(m, i) ==
    \A r \in Regs : regs[m][i][r].status = "VALID" /\ regs[m][i][r].poll = polls[m]
OutcomeReported ==
    \A m \in Managers, i \in Idx :
        mpc[m] = "idle" /\ polls[m] > 0 =>
            /\ result[m][i] # "unset"
            /\ i \in errors[m] <=> (result[m][i] = "nil" \/ ~Complete(m, i))
            /\ i \in errors[m] /\ result[m][i] = "group"
                 => \E r \in Regs : regs[m][i][r].status = "INVALID"

\* No goroutine of a call outlives the call: when ReadGroupedData returns (and
\* releases the manager's mutex) nobody writes its arrays any more, and none sends
\* its error after errChan was closed.
QuietAfterReturn ==
    /\ ~crash
    /\ \A m \in Managers, i \in Idx :
         mpc[m] = "idle" => gpc[m][i] \in {"off", "finished"}

\* A call of ReadGroupedData comes back: the WaitGroup reaches zero, errChan is
\* closed, and its buffer never blocks a goroutine.
ReadReturns == \A m \in Managers : mpc[m] = "reading" ~> mpc[m] = "idle"
=============================================================================
