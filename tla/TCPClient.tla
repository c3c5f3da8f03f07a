------------------------------ MODULE TCPClient ------------------------------
(***************************************************************************)
(* The Modbus TCP client: client.send over tcpPackager and tcpTransporter  *)
(* (client.go, tcpclient.go), used by several goroutines, with the idle    *)
(* timer of the transporter and a server that answers late, out of order,  *)
(* never, with a malformed header, or goes away.                           *)
(*                                                                         *)
(* A request is named by the value AddUint32 gave it; what the wire shows  *)
(* of it is TidOf, the low 16 bits.  A reply frame is named by the request *)
(* it answers; whether it carries data or an exception is left out.  Time  *)
(* is counted in ticks, and only as far as the idle timeout needs it.      *)
(***************************************************************************)
EXTENDS Integers, Sequences, FiniteSets

CONSTANTS
    Clients,      \* goroutines that share the client
    NoOne,        \* owner of the unlocked mutex
    CounterSpace, \* values of the uint32 transaction counter (2^32)
    TidSpace,     \* values of the 16 bits that are sent (2^16)
    IdleTimeout,  \* mb.IdleTimeout in ticks
    Segmented,    \* a frame may be cut by the deadline while it arrives
    MaxInFlight,  \* bound: requests and replies on the wire
    MaxClosers    \* bound: fired timer goroutines waiting for the mutex

ASSUME TCPClientAssumption ==
    /\ NoOne \notin Clients
    /\ CounterSpace \in Nat \ {0} /\ TidSpace \in Nat \ {0}
    /\ CounterSpace % TidSpace = 0
    /\ IdleTimeout \in Nat \ {0} /\ MaxInFlight \in Nat /\ MaxClosers \in Nat
    /\ Segmented \in BOOLEAN

Requests == 0..(CounterSpace - 1)
Unarmed == -1

VARIABLES
    transactionId, \* the packager's counter
    mu,            \* who holds the transporter's mutex
    connected,     \* mb.conn is not nil
    alive,         \* the peer still has its end of mb.conn open
    idleFor,       \* ticks since lastActivity, up to IdleTimeout
    closeTimer,    \* ticks until the timer fires, or Unarmed
    closers,       \* fired timers whose closeIdle has not run yet
    pc,            \* where each goroutine is
    req,           \* the request it encoded; 0 between two calls
    outcome,       \* how its last call ended
    pending,       \* requests the server has and has not answered
    inbound,       \* replies that have arrived and are not read yet
    torn           \* the stream of mb.conn has lost its frame boundary

timeVars == <<idleFor, closeTimer, closers>>
wireVars == <<pending, inbound, torn>>
callVars == <<pc, req, outcome>>
vars == <<transactionId, mu, connected, alive, timeVars, callVars, wireVars>>

Points == {"idle", "lock", "arm", "write", "read"}
Outcomes == {"none", "reply", "error"}
Kinds == {"reply", "malformed"}
Frames == [to : Requests, kind : Kinds]
Reply(n) == [to |-> n, kind |-> "reply"]
Malformed == [to |-> 0, kind |-> "malformed"] \* nobody looks at its transaction id

TypeOK ==
    /\ transactionId \in Requests
    /\ mu \in Clients \cup {NoOne}
    /\ connected \in BOOLEAN /\ alive \in BOOLEAN /\ torn \in BOOLEAN
    /\ idleFor \in 0..IdleTimeout
    /\ closeTimer \in {Unarmed} \cup 0..IdleTimeout
    /\ closers \in 0..MaxClosers
    /\ pc \in [Clients -> Points]
    /\ req \in [Clients -> Requests]
    /\ outcome \in [Clients -> Outcomes]
    /\ pending \subseteq Requests
    /\ inbound \in Seq(Frames)

Init ==
    /\ transactionId = 0
    /\ mu = NoOne
    /\ connected = FALSE /\ alive = FALSE /\ torn = FALSE
    /\ idleFor = 0 /\ closeTimer = Unarmed /\ closers = 0
    /\ pc = [c \in Clients |-> "idle"]
    /\ req = [c \in Clients |-> 0]
    /\ outcome = [c \in Clients |-> "none"]
    /\ pending = {} /\ inbound = <<>>

-----------------------------------------------------------------------------
(***************************************************************************)
(* Encode, Verify and what ends a call.                                    *)
(***************************************************************************)
TidOf(n) == n % TidSpace

\* binary.BigEndian.Uint16 of request and response must agree.
\* (Mutant: the transaction id is not compared.)
VerifyNothing(n, frame) == TRUE
Verify(n, frame) == TidOf(frame.to) = TidOf(n)

\* The counter is a uint32 and wraps.
NextId == (transactionId + 1) % CounterSpace

\* atomic.AddUint32, outside the transporter's mutex.
Encode(c) ==
    /\ pc[c] = "idle"
    /\ transactionId' = NextId
    /\ req' = [req EXCEPT ![c] = transactionId']
    /\ pc' = [pc EXCEPT ![c] = "lock"]
    /\ outcome' = [outcome EXCEPT ![c] = "none"]
    /\ UNCHANGED <<mu, connected, alive, timeVars, wireVars>>

\* Send returns: the mutex is released, the connection is left as it is,
\* whatever went wrong on it.  (Mutant: an early return keeps the mutex.)
FinishLocked(c, result) ==
    /\ mu' = mu
    /\ pc' = [pc EXCEPT ![c] = "idle"] /\ req' = [req EXCEPT ![c] = 0]
    /\ outcome' = [outcome EXCEPT ![c] = result]
Finish(c, result) ==
    /\ mu' = NoOne
    /\ pc' = [pc EXCEPT ![c] = "idle"] /\ req' = [req EXCEPT ![c] = 0]
    /\ outcome' = [outcome EXCEPT ![c] = result]

\* mb.mu.Lock().  (Mutant: nobody locks.)
FreeAlways == TRUE
Free == mu = NoOne

-----------------------------------------------------------------------------
(***************************************************************************)
(* tcpTransporter.Send.                                                    *)
(***************************************************************************)
DialFails(c) ==
    /\ pc[c] = "lock" /\ Free /\ ~connected
    /\ Finish(c, "error")
    /\ UNCHANGED <<transactionId, connected, alive, timeVars, wireVars>>

\* A new connection starts with an empty stream.
NewStream == pending' = {} /\ inbound' = <<>> /\ torn' = FALSE

SendBegin(c) ==
    /\ pc[c] = "lock" /\ Free
    /\ mu' = c
    /\ pc' = [pc EXCEPT ![c] = "arm"]
    /\ connected' = TRUE
    /\ IF connected THEN UNCHANGED <<alive, wireVars>> ELSE alive' = TRUE /\ NewStream
    /\ idleFor' = 0
    /\ UNCHANGED <<transactionId, closeTimer, closers, req, outcome>>

\* startCloseTimer: AfterFunc, or Reset of a timer that may have fired already.
\* (Mutant: the timer fires before the connection has been idle long enough.)
ArmedEarly == IdleTimeout - 1
ArmedTimer == IdleTimeout

StartCloseTimer(c) ==
    /\ pc[c] = "arm"
    /\ closeTimer' = ArmedTimer
    /\ pc' = [pc EXCEPT ![c] = "write"]
    /\ UNCHANGED <<transactionId, mu, connected, alive, idleFor, closers, req, outcome, wireVars>>

Write(c) ==
    /\ pc[c] = "write" /\ alive
    /\ Cardinality(pending) + Len(inbound) < MaxInFlight
    /\ pending' = pending \cup {req[c]}
    /\ pc' = [pc EXCEPT ![c] = "read"]
    /\ UNCHANGED <<transactionId, mu, connected, alive, timeVars, req, outcome, inbound, torn>>

IOError(c) ==
    /\ pc[c] \in {"write", "read"}
    /\ ~alive
    /\ Finish(c, "error")
    /\ UNCHANGED <<transactionId, connected, alive, timeVars, wireVars>>

\* The deadline passes.  Nothing is taken off the stream, unless a frame was
\* half read: then the rest of it is left at the head.
Timeout(c) ==
    /\ pc[c] \in {"write", "read"}
    /\ Finish(c, "error")
    /\ torn' \in {torn, torn \/ (pc[c] = "read" /\ Segmented /\ inbound # <<>>)}
    /\ UNCHANGED <<transactionId, connected, alive, timeVars, pending, inbound>>

\* What client.send makes of a frame that was read.
Result(n, frame) ==
    IF frame.kind = "reply" /\ Verify(n, frame) THEN "reply" ELSE "error"

ReadFrame(c) ==
    /\ pc[c] = "read" /\ ~torn /\ inbound # <<>>
    /\ Head(inbound).kind = "reply"
    /\ Finish(c, Result(req[c], Head(inbound)))
    /\ inbound' = Tail(inbound)
    /\ UNCHANGED <<transactionId, connected, alive, timeVars, pending, torn>>

\* flush reads once, into 260 bytes, under a read deadline that has passed: as
\* a rule it gets nothing, and what follows the header of the refused frame
\* stays at the head of the stream; at best some of what has arrived is
\* dropped, and that may end inside a frame as well as between two.
Flush ==
    \E k \in 0..Len(inbound) :
        /\ inbound' = SubSeq(inbound, k + 1, Len(inbound))
        /\ torn' \in (IF k = 0 THEN {TRUE} ELSE BOOLEAN)

\* A length of zero or beyond the maximum: only the header has been read.
ReadMalformed(c) ==
    /\ pc[c] = "read" /\ ~torn /\ inbound # <<>>
    /\ Head(inbound).kind = "malformed"
    /\ Finish(c, "error")
    /\ Flush
    /\ UNCHANGED <<transactionId, connected, alive, timeVars, pending>>

\* Bytes from the middle of a frame are taken for a header: any result, and
\* any number of the frames that follow is swallowed.
ReadTorn(c) ==
    /\ pc[c] = "read" /\ torn /\ inbound # <<>>
    /\ \E garbage \in Frames : Finish(c, Result(req[c], garbage))
    /\ \E k \in 0..Len(inbound) : inbound' = SubSeq(inbound, k + 1, Len(inbound))
    /\ UNCHANGED <<transactionId, connected, alive, timeVars, pending, torn>>

-----------------------------------------------------------------------------
(***************************************************************************)
(* Connect, Close and the idle timer.                                      *)
(***************************************************************************)
Connect ==
    /\ Free /\ ~connected
    /\ connected' = TRUE /\ alive' = TRUE
    /\ NewStream
    /\ UNCHANGED <<transactionId, mu, timeVars, callVars>>

Closed == connected' = FALSE /\ alive' = FALSE /\ NewStream

Close ==
    /\ Free /\ connected
    /\ Closed
    /\ UNCHANGED <<transactionId, mu, timeVars, callVars>>

LongIdle == idleFor >= IdleTimeout

\* The goroutine of a fired timer, once it gets the mutex.
CloseIdle ==
    /\ Free /\ closers > 0
    /\ closers' = closers - 1
    /\ IF connected /\ LongIdle THEN Closed ELSE UNCHANGED <<connected, alive, wireVars>>
    /\ UNCHANGED <<transactionId, mu, idleFor, closeTimer, callVars>>

Fire ==
    /\ closeTimer = 0 /\ closers < MaxClosers
    /\ closeTimer' = Unarmed
    /\ closers' = closers + 1
    /\ UNCHANGED <<transactionId, mu, connected, alive, idleFor, callVars, wireVars>>

Tick ==
    /\ closeTimer > 0 \/ idleFor < IdleTimeout
    /\ closeTimer' = IF closeTimer > 0 THEN closeTimer - 1 ELSE closeTimer
    /\ idleFor' = IF idleFor < IdleTimeout THEN idleFor + 1 ELSE idleFor
    /\ UNCHANGED <<transactionId, mu, connected, alive, closers, callVars, wireVars>>

-----------------------------------------------------------------------------
(***************************************************************************)
(* The server and the network.                                             *)
(***************************************************************************)
Answer(n) ==
    /\ n \in pending
    /\ \E frame \in {Reply(n), Malformed} : inbound' = Append(inbound, frame)
    /\ pending' = pending \ {n}
    /\ UNCHANGED <<transactionId, mu, connected, alive, timeVars, callVars, torn>>

PeerClose ==
    /\ connected /\ alive
    /\ alive' = FALSE
    /\ pending' = {}
    /\ UNCHANGED <<transactionId, mu, connected, timeVars, callVars, inbound, torn>>

-----------------------------------------------------------------------------
SendNext(c) ==
    \/ DialFails(c) \/ SendBegin(c) \/ StartCloseTimer(c) \/ Write(c)
    \/ IOError(c) \/ Timeout(c) \/ ReadFrame(c) \/ ReadMalformed(c) \/ ReadTorn(c)

Next ==
    \/ \E c \in Clients : Encode(c) \/ SendNext(c)
    \/ Connect \/ Close \/ CloseIdle \/ Fire \/ Tick
    \/ (\E n \in Requests : Answer(n)) \/ PeerClose

Spec == Init /\ [][Next]_vars

\* Goroutines and timers proceed and time passes; a goroutine that waits for
\* the mutex gets it in the end (sync.Mutex's starvation mode).  Nobody has to
\* send requests, to call Connect or Close, and the server owes nothing.
Fairness ==
    /\ \A c \in Clients :
         /\ SF_vars(DialFails(c) \/ SendBegin(c))
         /\ WF_vars(StartCloseTimer(c))
         /\ WF_vars(Write(c) \/ IOError(c) \/ Timeout(c) \/ ReadFrame(c)
                      \/ ReadMalformed(c) \/ ReadTorn(c))
    /\ SF_vars(CloseIdle) /\ WF_vars(Fire) /\ WF_vars(Tick)
FairSpec == Spec /\ Fairness

-----------------------------------------------------------------------------
(***************************************************************************)
(* Properties.                                                             *)
(***************************************************************************)
Busy(c) == pc[c] \in {"arm", "write", "read"}

\* The stream of mb.conn belongs to one exchange at a time, so the frame a
\* goroutine reads was not meant for a concurrent one; and neither Close nor
\* the idle timer takes the connection away from under it.
ExchangeOwnsConnection ==
    /\ \A c, d \in Clients : Busy(c) /\ Busy(d) => c = d
    /\ \A c \in Clients : Busy(c) => connected

Accepts(c) == pc[c] = "read" /\ pc'[c] = "idle" /\ outcome'[c] = "reply"

\* A frame that is accepted answers the caller's own request, whatever late
\* replies are still on the connection: another request can only be mistaken
\* for it if it is a multiple of 2^16 requests older.  (A stream that lost its
\* frame boundary, to a deadline in mid-frame or to a malformed header, is not
\* covered: there anything may be accepted.)
OwnReply ==
    [][\A c \in Clients :
         Accepts(c) /\ ~torn
             => LET n == Head(inbound).to IN
                n = req[c] \/ (req[c] - n) % CounterSpace >= TidSpace]_vars

\* A call that was begun returns: the deadline bounds the exchange and every
\* path gives the mutex back.
CallsReturn == \A c \in Clients : pc[c] = "lock" ~> pc[c] = "idle"

\* A connection that Send used is closed once nobody uses it for IdleTimeout,
\* although each Send races with timers that fired before it.
IdleConnectionCloses ==
    connected /\ closeTimer # Unarmed /\ (\A c \in Clients : pc[c] = "idle")
        ~> ~connected \/ \E c \in Clients : pc[c] # "idle"
=============================================================================
