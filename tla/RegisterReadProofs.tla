-------------------------- MODULE RegisterReadProofs --------------------------
(***************************************************************************)
(* Proofs about ClientOperations, Grouping, GroupReading and RegisterRead, *)
(* for every finite set of registers and of calls, any number of registers *)
(* loaded together and every behaviour of the line.                        *)
(*                                                                         *)
(* The client, writes: the reply of a write repeats the request, or the    *)
(* first four bytes of a bulk write's, and a device sends it only after it *)
(* has executed that request.  So every reply of a write on the line,      *)
(* however late, vouches for an executed request (AnswersVouch), which is  *)
(* never forgotten; the comparisons in the client's functions turn that    *)
(* into WriteIsConfirmed.                                                  *)
(*                                                                         *)
(* The client, reads: every reply to an identification on the line, however*)
(* late, is a page of its device (SendsPage), so what is put together are  *)
(* objects of that device (GotIsTheirs) and three of them are all; and a   *)
(* read of words that begins on an empty line finds nothing there but its  *)
(* own request or the answer to it (ReadsAlone).  With the bytes of        *)
(* requests and replies (ReadAsked, ReadAnswered) that is ResultsAreWhole. *)
(*                                                                         *)
(* The registers: a group is a run of registers of one slave               *)
(* (GroupsAreRuns), and every register is in one place of one group        *)
(* (GroupsPartitionRegisters).  So the offset at which readGroup finds a   *)
(* register in the data is the register's distance from the address that it*)
(* read from (OffsetIsDistance), and with what the client returns of a read*)
(* a valid register has its own bytes.                                     *)
(*                                                                         *)
(* The frames: what is on the line are bytes (LinkInv), so over ASCII every*)
(* step with frames is one of GroupReading, which carries what is proved of*)
(* it over.  Over RTU the end of a frame below function code 5 is not known*)
(* before its check: every step is one of GroupReading or misreads such a  *)
(* reply (FramesFaithful), which cannot confirm a write (FramesKeepParts). *)
(***************************************************************************)
EXTENDS RegisterRead, FramesProofs, FiniteSetTheorems, SequenceTheorems

-----------------------------------------------------------------------------
(***************************************************************************)
(* The client.  The replies on the line vouch for executed writes.         *)
(***************************************************************************)
IsSequence(s) == \E S : s \in Seq(S)

\* A request on the line: its function code leaves the exceptions apart.
IsRequest(r) == r = Frame(r.slave, r.code, r.data) /\ r.code \in Nat

\* What the answer a to a write says about the executed requests.
Vouches(a, done) ==
    /\ a.code \in {5, 6, 22} => Frame(a.slave, a.code, a.data) \in done
    /\ a.code \in {15, 16} =>
         \E r \in done : r.slave = a.slave /\ r.code = a.code /\ SubSeq(r.data, 1, 4) = a.data

RequestsAreFrames ==
    IsSequence(requests) /\ \A k \in 1..Len(requests) : IsRequest(requests[k])
AnswersVouch ==
    IsSequence(answers) /\ \A k \in 1..Len(answers) : Vouches(answers[k], executed)
CallingHasCode == calling # NoCall => calling.op \in DOMAIN Code
ConfirmedInv == RequestsAreFrames /\ AnswersVouch /\ CallingHasCode /\ WriteIsConfirmed

-----------------------------------------------------------------------------
\* Sequences of anything grow and shrink as those of a set do.
LEMMA Appended ==
    ASSUME NEW s, NEW x, IsSequence(s)
    PROVE  /\ IsSequence(Append(s, x))
           /\ \A k \in 1..Len(Append(s, x)) :
                 \/ k \in 1..Len(s) /\ Append(s, x)[k] = s[k]
                 \/ Append(s, x)[k] = x
<1>1. PICK S : s \in Seq(S)
  BY DEF IsSequence
<1>2. s \in Seq(S \cup {x})
  BY <1>1
<1>3. Append(s, x) \in Seq(S \cup {x})
  BY <1>2
<1>4. Len(Append(s, x)) = Len(s) + 1 /\ Len(s) \in Nat
  BY <1>1
<1>5. ASSUME NEW k \in 1..Len(Append(s, x))
      PROVE  \/ k \in 1..Len(s) /\ Append(s, x)[k] = s[k]
             \/ Append(s, x)[k] = x
  BY <1>2, <1>4
<1> QED  BY <1>3, <1>5 DEF IsSequence

LEMMA Dropped ==
    ASSUME NEW s, IsSequence(s), s # <<>>
    PROVE  /\ IsSequence(Tail(s))
           /\ \A k \in 1..Len(Tail(s)) : k + 1 \in 1..Len(s) /\ Tail(s)[k] = s[k + 1]
           /\ 1 \in 1..Len(s) /\ Head(s) = s[1]
<1>1. PICK S : s \in Seq(S)
  BY DEF IsSequence
<1>2. Tail(s) \in Seq(S) /\ Len(Tail(s)) = Len(s) - 1 /\ Len(s) \in Nat \ {0}
  BY <1>1
<1>3. ASSUME NEW k \in 1..Len(Tail(s))
      PROVE  k + 1 \in 1..Len(s) /\ Tail(s)[k] = s[k + 1]
  BY <1>1, <1>2
<1>4. 1 \in 1..Len(s) /\ Head(s) = s[1]
  BY <1>1, <1>2
<1> QED  BY <1>2, <1>3, <1>4 DEF IsSequence

\* A longer list of executed requests is vouched for no less.
LEMMA StillVouches ==
    ASSUME NEW a, NEW done, NEW more, done \subseteq more, Vouches(a, done)
    PROVE  Vouches(a, more)
  BY DEF Vouches

\* Taking an answer off the line.
LEMMA AnswerTaken ==
    ASSUME AnswersVouch, answers # <<>>, answers' = Tail(answers), executed' = executed
    PROVE  AnswersVouch' /\ Vouches(Head(answers), executed)
<1>1. IsSequence(answers) /\ \A k \in 1..Len(answers) : Vouches(answers[k], executed)
  BY DEF AnswersVouch
<1>2. /\ IsSequence(Tail(answers))
      /\ \A k \in 1..Len(Tail(answers)) :
            k + 1 \in 1..Len(answers) /\ Tail(answers)[k] = answers[k + 1]
      /\ 1 \in 1..Len(answers) /\ Head(answers) = answers[1]
  BY <1>1, Dropped
<1>3. \A k \in 1..Len(Tail(answers)) : Vouches(Tail(answers)[k], executed)
  BY <1>1, <1>2
<1>4. IsSequence(answers') /\ \A k \in 1..Len(answers') : Vouches(answers'[k], executed')
  BY <1>2, <1>3
<1> QED  BY <1>1, <1>2, <1>4 DEF AnswersVouch

\* Putting one on it.
LEMMA AnswerSent ==
    ASSUME AnswersVouch, executed \subseteq executed', NEW a,
           Vouches(a, executed'), answers' = Append(answers, a)
    PROVE  AnswersVouch'
<1>1. IsSequence(answers) /\ \A k \in 1..Len(answers) : Vouches(answers[k], executed)
  BY DEF AnswersVouch
<1>2. /\ IsSequence(Append(answers, a))
      /\ \A k \in 1..Len(Append(answers, a)) :
            \/ k \in 1..Len(answers) /\ Append(answers, a)[k] = answers[k]
            \/ Append(answers, a)[k] = a
  BY <1>1, Appended
<1>3. \A k \in 1..Len(answers) : Vouches(answers[k], executed')
  BY <1>1, StillVouches
<1>4. \A k \in 1..Len(Append(answers, a)) : Vouches(Append(answers, a)[k], executed')
  BY <1>2, <1>3
<1>5. IsSequence(answers') /\ \A k \in 1..Len(answers') : Vouches(answers'[k], executed')
  BY <1>2, <1>4
<1> QED  BY <1>5 DEF AnswersVouch

LEMMA RequestSent ==
    ASSUME RequestsAreFrames, NEW s, NEW f \in Nat, NEW d,
           requests' = Append(requests, Frame(s, f, d))
    PROVE  RequestsAreFrames'
<1> DEFINE r == Frame(s, f, d)
<1>1. IsSequence(requests) /\ \A k \in 1..Len(requests) : IsRequest(requests[k])
  BY DEF RequestsAreFrames
<1>2. IsRequest(r)
  BY DEF IsRequest, Frame
<1> HIDE DEF r
<1>3. /\ IsSequence(Append(requests, r))
      /\ \A k \in 1..Len(Append(requests, r)) :
            \/ k \in 1..Len(requests) /\ Append(requests, r)[k] = requests[k]
            \/ Append(requests, r)[k] = r
  BY <1>1, Appended
<1>4. \A k \in 1..Len(Append(requests, r)) : IsRequest(Append(requests, r)[k])
  BY <1>1, <1>2, <1>3
<1>5. requests' = Append(requests, r)
  BY DEF r
<1>6. IsSequence(requests') /\ \A k \in 1..Len(requests') : IsRequest(requests'[k])
  BY <1>3, <1>4, <1>5
<1> QED  BY <1>6 DEF RequestsAreFrames

LEMMA RequestTaken ==
    ASSUME RequestsAreFrames, requests # <<>>, requests' = Tail(requests)
    PROVE  RequestsAreFrames' /\ IsRequest(Head(requests))
<1>1. IsSequence(requests) /\ \A k \in 1..Len(requests) : IsRequest(requests[k])
  BY DEF RequestsAreFrames
<1>2. /\ IsSequence(Tail(requests))
      /\ \A k \in 1..Len(Tail(requests)) :
            k + 1 \in 1..Len(requests) /\ Tail(requests)[k] = requests[k + 1]
      /\ 1 \in 1..Len(requests) /\ Head(requests) = requests[1]
  BY <1>1, Dropped
<1>3. \A k \in 1..Len(Tail(requests)) : IsRequest(Tail(requests)[k])
  BY <1>1, <1>2
<1>4. IsSequence(requests') /\ \A k \in 1..Len(requests') : IsRequest(requests'[k])
  BY <1>2, <1>3
<1> QED  BY <1>1, <1>2, <1>4 DEF RequestsAreFrames

-----------------------------------------------------------------------------
LEMMA CodesAreNat == \A op \in DOMAIN Code : Code[op] \in Nat
  BY ClientAssumption DEF Code

\* What a device answers, when it can execute a write, vouches for it.
LEMMA ResponseVouches ==
    ASSUME NEW r, IsRequest(r), NEW done, r \in done, NEW d \in Response(r)
    PROVE  Vouches(Frame(r.slave, r.code, d), done)
<1>1. r.code \in {5, 6, 22} => d = r.data
  BY ClientAssumption DEF Response, WriteCodes
<1>2. ASSUME r.code \in {15, 16}  PROVE  d = SubSeq(r.data, 1, 4)
  <2>1. /\ r.code \notin {1, 2} /\ r.code \notin {3, 4, 23, CustomCode}
        /\ r.code \notin {5, 6, 22} /\ r.code # 24 /\ r.code # 43
    BY <1>2, ClientAssumption DEF WriteCodes
  <2>2. CASE r.data[5] = Len(r.data) - 5
    <3>1. Response(r) = {SubSeq(r.data, 1, 4)}
      BY <1>2, <2>1, <2>2, Zenon DEF Response
    <3> QED  BY <3>1
  <2>3. CASE r.data[5] # Len(r.data) - 5
    <3>1. Response(r) = {}
      BY <1>2, <2>1, <2>3, Zenon DEF Response
    <3> QED  BY <3>1
  <2> QED  BY <2>2, <2>3
<1>3. r = Frame(r.slave, r.code, r.data)
  BY DEF IsRequest
<1>4. r.code \in {5, 6, 22} => Frame(r.slave, r.code, d) \in done
  BY <1>1, <1>3
<1> QED  BY <1>2, <1>4 DEF Vouches, Frame

\* The comparisons in the functions: a reply that vouches for an executed
\* request and that the call accepts confirms the call.
LEMMA AcceptedConfirms ==
    ASSUME NEW c, NEW a, NEW done, Vouches(a, done),
           a.slave = c.slave, a.code = Code[c.op], Confirms(c, a.data)
    PROVE  /\ c.op \in SingleWrites => Request(c) \in done
           /\ c.op \in BulkWrites =>
                \E r \in done :
                    /\ r.slave = c.slave /\ r.code = Code[c.op]
                    /\ SubSeq(r.data, 1, 4) = dataBlock(SubSeq(c.words, 1, 2))
<1>1. ASSUME c.op \in SingleWrites  PROVE  Request(c) \in done
  <2>1. Code[c.op] \in {5, 6, 22}
    BY <1>1 DEF SingleWrites, Code
  <2>2. Frame(a.slave, a.code, a.data) \in done
    BY <2>1 DEF Vouches
  <2>3. a.data = dataBlock(c.words)
    BY <1>1 DEF Confirms, Echoes
  <2>4. Data(c) = dataBlock(c.words)
    BY <1>1 DEF Data, SingleWrites, BulkWrites
  <2> QED  BY <2>2, <2>3, <2>4 DEF Request
<1>2. ASSUME c.op \in BulkWrites
      PROVE  \E r \in done :
                 /\ r.slave = c.slave /\ r.code = Code[c.op]
                 /\ SubSeq(r.data, 1, 4) = dataBlock(SubSeq(c.words, 1, 2))
  <2>1. Code[c.op] \in {15, 16}
    BY <1>2 DEF BulkWrites, Code
  <2>2. a.data = dataBlock(SubSeq(c.words, 1, 2))
    BY <1>2 DEF Confirms, Echoes
  <2> QED  BY <2>1, <2>2 DEF Vouches
<1> QED  BY <1>1, <1>2

-----------------------------------------------------------------------------
LEMMA ConfirmedInit == ClientInit => ConfirmedInv
<1> SUFFICES ASSUME ClientInit  PROVE  ConfirmedInv
  OBVIOUS
<1>1. IsSequence(<<>>)
  <2>1. <<>> \in Seq({})
    OBVIOUS
  <2> QED  BY <2>1 DEF IsSequence
<1>2. requests = <<>> /\ answers = <<>> /\ calling = NoCall /\ ~outcome.ok
  BY DEF ClientInit, NoOutcome
<1>3. Len(<<>>) = 0
  OBVIOUS
<1>4. RequestsAreFrames /\ AnswersVouch
  BY <1>1, <1>2, <1>3 DEF RequestsAreFrames, AnswersVouch
<1> QED  BY <1>2, <1>4 DEF ConfirmedInv, CallingHasCode, WriteIsConfirmed

LEMMA UnsuccessfulConfirmed == ASSUME ~outcome'.ok  PROVE  WriteIsConfirmed'
  BY DEF WriteIsConfirmed

\* A step that leaves the outcome alone and forgets no executed request.
LEMMA ConfirmedStays ==
    ASSUME WriteIsConfirmed, UNCHANGED outcome, executed \subseteq executed'
    PROVE  WriteIsConfirmed'
  BY DEF WriteIsConfirmed

LEMMA FailStep ==
    ASSUME Fail
    PROVE  ~outcome'.ok /\ calling' = NoCall /\ UNCHANGED requests
  BY DEF Fail, Return

\* The locals of the identification change, with a request or without.
LEMMA IdentifyStep ==
    ASSUME NEW d, ConfirmedInv, Identify(d), calling.op = "ReadDeviceIdentification",
           UNCHANGED executed
    PROVE  RequestsAreFrames' /\ CallingHasCode' /\ WriteIsConfirmed'
<1> DEFINE got == ident.got \cup ObjectIds(d)
<1>1. \/ Fail
      \/ Return(FALSE, <<>>, got)
      \/ Return(TRUE, <<>>, got)
      \/ \E code, object, additional :
            /\ Ask(calling.slave, code, object, additional, got)
            /\ UNCHANGED <<calling, clean, calls, outcome>>
  BY Zenon DEF Identify
<1>2. CASE Fail
  BY <1>2, FailStep, UnsuccessfulConfirmed DEF ConfirmedInv, RequestsAreFrames, CallingHasCode
<1>3. CASE Return(FALSE, <<>>, got)
  BY <1>3, UnsuccessfulConfirmed DEF Return, ConfirmedInv, RequestsAreFrames, CallingHasCode
<1>4. CASE Return(TRUE, <<>>, got)
  <2>1. outcome'.call.op = "ReadDeviceIdentification" /\ calling' = NoCall /\ UNCHANGED requests
    BY <1>4 DEF Return
  <2>2. WriteIsConfirmed'
    BY <2>1 DEF WriteIsConfirmed, SingleWrites, BulkWrites
  <2> QED  BY <2>1, <2>2 DEF ConfirmedInv, RequestsAreFrames, CallingHasCode
<1>5. CASE \E code, object, additional :
             /\ Ask(calling.slave, code, object, additional, got)
             /\ UNCHANGED <<calling, clean, calls, outcome>>
  <2>1. PICK code, object, additional :
             /\ Ask(calling.slave, code, object, additional, got)
             /\ UNCHANGED <<calling, clean, calls, outcome>>
    BY <1>5
  <2>2. requests' = Append(requests, Frame(calling.slave, 43, <<MEIType, code, object>>))
    BY <2>1 DEF Ask
  <2>3. RequestsAreFrames'
    BY <2>2, RequestSent DEF ConfirmedInv
  <2> QED  BY <2>1, <2>3, ConfirmedStays DEF ConfirmedInv, CallingHasCode
<1> QED  BY <1>1, <1>2, <1>3, <1>4, <1>5

LEMMA ReceiveStep == ASSUME ConfirmedInv, Receive  PROVE  ConfirmedInv'
<1> DEFINE a == Head(answers)
<1>1. /\ calling # NoCall /\ answers # <<>>
      /\ answers' = Tail(answers) /\ executed' = executed
      /\ IF ~Usable(a) THEN Fail
         ELSE IF calling.op = "ReadDeviceIdentification" THEN Identify(a.data)
         ELSE IF Confirms(calling, a.data) THEN Return(TRUE, Results(calling, a.data), {})
         ELSE Fail
  BY DEF Receive, Accept
<1>2. AnswersVouch' /\ Vouches(a, executed)
  BY <1>1, AnswerTaken DEF ConfirmedInv
<1> HIDE DEF a
<1>3. CASE Fail
  BY <1>2, <1>3, FailStep, UnsuccessfulConfirmed
     DEF ConfirmedInv, RequestsAreFrames, CallingHasCode
<1>4. CASE calling.op = "ReadDeviceIdentification" /\ Identify(a.data)
  BY <1>1, <1>2, <1>4, IdentifyStep DEF ConfirmedInv
<1>5. CASE /\ Usable(a) /\ Confirms(calling, a.data)
           /\ Return(TRUE, Results(calling, a.data), {})
  <2>1. outcome'.call = calling /\ calling' = NoCall /\ UNCHANGED requests
    BY <1>5 DEF Return
  <2>2. /\ calling.op \in SingleWrites => Request(calling) \in executed
        /\ calling.op \in BulkWrites =>
             \E r \in executed :
                 /\ r.slave = calling.slave /\ r.code = Code[calling.op]
                 /\ SubSeq(r.data, 1, 4) = dataBlock(SubSeq(calling.words, 1, 2))
    BY <1>2, <1>5, AcceptedConfirms DEF Usable
  <2>3. WriteIsConfirmed'
    BY <1>1, <2>1, <2>2 DEF WriteIsConfirmed, Request, Data, dataBlockSuffix, dataBlock, Frame
  <2> QED  BY <1>2, <2>1, <2>3 DEF ConfirmedInv, RequestsAreFrames, CallingHasCode
<1> QED  BY <1>1, <1>3, <1>4, <1>5

LEMMA ExecuteStep == ASSUME ConfirmedInv, Execute  PROVE  ConfirmedInv'
<1> DEFINE r == Head(requests)
<1>1. PICK d \in Response(r) : Answered(Frame(r.slave, r.code, d))
  BY DEF Execute
<1>2. requests # <<>> /\ executed' = executed \cup {r}
  BY DEF Execute
<1>3. /\ requests' = Tail(requests)
      /\ answers' = Append(answers, Frame(r.slave, r.code, d))
      /\ UNCHANGED <<calling, outcome>>
  BY <1>1 DEF Answered
<1>4. RequestsAreFrames' /\ IsRequest(r)
  BY <1>2, <1>3, RequestTaken DEF ConfirmedInv
<1> HIDE DEF r
<1>5. Vouches(Frame(r.slave, r.code, d), executed')
  BY <1>2, <1>4, ResponseVouches
<1>6. AnswersVouch'
  BY <1>2, <1>3, <1>5, AnswerSent DEF ConfirmedInv
<1>7. WriteIsConfirmed'
  BY <1>2, <1>3, ConfirmedStays DEF ConfirmedInv
<1> QED  BY <1>3, <1>4, <1>6, <1>7 DEF ConfirmedInv, CallingHasCode

LEMMA ExceptStep == ASSUME ConfirmedInv, Except  PROVE  ConfirmedInv'
<1> DEFINE r == Head(requests)
<1>1. /\ requests # <<>> /\ UNCHANGED executed
      /\ requests' = Tail(requests)
      /\ answers' = Append(answers, Frame(r.slave, r.code + 128, <<4>>))
      /\ UNCHANGED <<calling, outcome>>
  BY DEF Except, Answered
<1>2. RequestsAreFrames' /\ IsRequest(r)
  BY <1>1, RequestTaken DEF ConfirmedInv
<1> HIDE DEF r
<1>3. r.code + 128 \notin {5, 6, 22, 15, 16}
  BY <1>2 DEF IsRequest
<1>4. Vouches(Frame(r.slave, r.code + 128, <<4>>), executed')
  BY <1>3 DEF Vouches, Frame
<1>5. AnswersVouch'
  BY <1>1, <1>4, AnswerSent DEF ConfirmedInv
<1>6. WriteIsConfirmed'
  BY <1>1, ConfirmedStays DEF ConfirmedInv
<1> QED  BY <1>1, <1>2, <1>5, <1>6 DEF ConfirmedInv, CallingHasCode

LEMMA BeginStep == ASSUME ConfirmedInv, NEW c, IsCall(c), Begin(c)  PROVE  ConfirmedInv'
<1>1. calling' = c /\ ~outcome'.ok /\ UNCHANGED <<answers, executed>>
  BY DEF Begin, NoOutcome
<1>2. c.op \in DOMAIN Code /\ Code[c.op] \in Nat
  BY CodesAreNat DEF IsCall
<1>3. CASE c.op = "ReadDeviceIdentification"
  <2>1. requests' = Append(requests, Frame(c.slave, 43, <<MEIType, 1, 0>>))
    BY <1>3 DEF Begin, Ask
  <2> QED  BY <1>1, <1>2, <2>1, RequestSent, UnsuccessfulConfirmed
              DEF ConfirmedInv, AnswersVouch, CallingHasCode
<1>4. CASE c.op # "ReadDeviceIdentification"
  <2>1. requests' = Append(requests, Frame(c.slave, Code[c.op], Data(c)))
    BY <1>4 DEF Begin, Request
  <2> QED  BY <1>1, <1>2, <2>1, RequestSent, UnsuccessfulConfirmed
              DEF ConfirmedInv, AnswersVouch, CallingHasCode
<1> QED  BY <1>3, <1>4

LEMMA RefuseStep == ASSUME ConfirmedInv, NEW c, Refuse(c)  PROVE  ConfirmedInv'
<1>1. ~outcome'.ok /\ UNCHANGED <<calling, requests, answers, executed>>
  BY DEF Refuse, NoOutcome, lineVars
<1> QED  BY <1>1, UnsuccessfulConfirmed
            DEF ConfirmedInv, RequestsAreFrames, AnswersVouch, CallingHasCode

LEMMA ConfirmedNext == ASSUME ConfirmedInv, [ClientNext]_clientVars  PROVE  ConfirmedInv'
<1>1. CASE \E c \in Calls : calls < MaxCalls /\ (Begin(c) \/ Refuse(c))
  <2>1. PICK c : IsCall(c) /\ (Begin(c) \/ Refuse(c))
    BY <1>1, ClientAssumption
  <2>2. CASE Begin(c)
    BY <2>1, <2>2, BeginStep
  <2>3. CASE Refuse(c)
    BY <2>3, RefuseStep
  <2> QED  BY <2>1, <2>2, <2>3
<1>2. CASE Receive
  BY <1>2, ReceiveStep
<1>3. CASE ReceiveUnusable
  <2>1. AnswersVouch'
    BY <1>3, AnswerTaken DEF ReceiveUnusable, ConfirmedInv
  <2>2. Fail
    BY <1>3 DEF ReceiveUnusable
  <2> QED  BY <2>1, <2>2, FailStep, UnsuccessfulConfirmed
              DEF ConfirmedInv, RequestsAreFrames, CallingHasCode
<1>4. CASE Timeout
  <2>1. Fail /\ UNCHANGED <<answers, executed>>
    BY <1>4 DEF Timeout
  <2> QED  BY <2>1, FailStep, UnsuccessfulConfirmed
              DEF ConfirmedInv, RequestsAreFrames, AnswersVouch, CallingHasCode
<1>5. CASE Execute
  BY <1>5, ExecuteStep
<1>6. CASE Except
  BY <1>6, ExceptStep
<1>7. CASE LoseRequest
  <2>1. RequestsAreFrames'
    BY <1>7, RequestTaken DEF LoseRequest, ConfirmedInv
  <2>2. UNCHANGED <<calling, answers, executed, outcome>>
    BY <1>7 DEF LoseRequest
  <2> QED  BY <2>1, <2>2, ConfirmedStays DEF ConfirmedInv, AnswersVouch, CallingHasCode
<1>8. CASE LoseAnswer
  <2>1. UNCHANGED <<calling, requests, executed, outcome>>
    BY <1>8 DEF LoseAnswer
  <2>2. AnswersVouch'
    BY <1>8, <2>1, AnswerTaken DEF LoseAnswer, ConfirmedInv
  <2> QED  BY <2>1, <2>2, ConfirmedStays DEF ConfirmedInv, RequestsAreFrames, CallingHasCode
<1>9. CASE UNCHANGED clientVars
  <2>1. UNCHANGED <<calling, requests, answers, executed, outcome>>
    BY <1>9 DEF clientVars, lineVars
  <2> QED  BY <2>1, ConfirmedStays
              DEF ConfirmedInv, RequestsAreFrames, AnswersVouch, CallingHasCode
<1> QED  BY <1>1, <1>2, <1>3, <1>4, <1>5, <1>6, <1>7, <1>8, <1>9 DEF ClientNext, LineNext

\* Whatever is lost, late or unusable on the line: a write that reports success
\* was executed by its device with this address and value (client.go compares
\* both with the reply), a bulk write with this address and quantity.
THEOREM WritesAreConfirmed == ClientSpec => []WriteIsConfirmed
<1>1. ConfirmedInv /\ [ClientNext]_clientVars => ConfirmedInv'
  BY ConfirmedNext
<1>2. ConfirmedInv => WriteIsConfirmed
  BY DEF ConfirmedInv
<1> QED  BY ConfirmedInit, <1>1, <1>2, PTL DEF ClientSpec

-----------------------------------------------------------------------------
(***************************************************************************)
(* What a successful call returns is whole.                                *)
(***************************************************************************)
Elements(s) == {s[k] : k \in 1..Len(s)}

LEMMA ElementsAppended ==
    ASSUME NEW s, NEW x, IsSequence(s)
    PROVE  Elements(Append(s, x)) \subseteq Elements(s) \cup {x}
  BY Appended DEF Elements

LEMMA ElementsDropped ==
    ASSUME NEW s, IsSequence(s), s # <<>>
    PROVE  Elements(Tail(s)) \subseteq Elements(s) /\ Head(s) \in Elements(s)
  BY Dropped DEF Elements

\* A request for identification asks for a page, and what answers it, however
\* late, is a page of that device.
AsksForPage(r) ==
    r.code = 43 => \E code, first : first \in Nat /\ r.data = <<MEIType, code, first>>
SendsPage(a) ==
    a.code = 43 =>
        \E code, first, level :
            /\ first \in Nat
            /\ level \in {0, IF a.slave \in RegularSlaves THEN 2 ELSE 1}
            /\ a.data = Page(a.slave, code, first, level)

\* So what an identification has put together are objects of its device.
GotIsTheirs ==
    calling # NoCall /\ calling.op = "ReadDeviceIdentification"
        => ident.got \subseteq Objects(calling.slave)

\* On a line that was empty at its beginning, a read of words finds its own
\* request, or the answer to it, or nothing.
Replies(a, r) == a.code = r.code + 128 \/ (a.code = r.code /\ a.data \in Response(r))
AloneOnLine(r) ==
    \/ requests = <<r>> /\ answers = <<>>
    \/ requests = <<>> /\ answers = <<>>
    \/ requests = <<>> /\ \E a : answers = <<a>> /\ Replies(a, r)
ReadsAlone ==
    calling # NoCall /\ clean /\ calling.op \in WordReads => AloneOnLine(Request(calling))

WholeInv ==
    /\ \A r \in Elements(requests) : AsksForPage(r)
    /\ \A a \in Elements(answers) : SendsPage(a)
    /\ calling # NoCall => IsCall(calling)
    /\ GotIsTheirs
    /\ ReadsAlone
    /\ ResultsAreWhole

-----------------------------------------------------------------------------
\* The objects in a reply of at most two, each with a value of one byte.
LEMMA ObjectIdsRead ==
    ASSUME NEW d, d[6] \in 0..2, NEW f \in Nat,
           \A n \in 0..d[6] - 1 : d[7 + 3 * n] = f + n /\ d[8 + 3 * n] = 1
    PROVE  ObjectIds(d) = {f + n : n \in 0..d[6] - 1}
<1> DEFINE start[n \in 0..d[6]] ==
             IF n = 0 THEN 7 ELSE start[n - 1] + 2 + d[start[n - 1] + 1]
           After(s) == [n \in 0..d[6] |->
             IF n = 0 THEN 7 ELSE s[n - 1] + 2 + d[s[n - 1] + 1]]
           third == [n \in 0..d[6] |-> 7 + 3 * n]
<1>1. ObjectIds(d) = {d[start[n]] : n \in 0..(d[6] - 1)}
  BY DEF ObjectIds
<1>2. third = After(third)
  <2>1. ASSUME NEW n \in 0..d[6]  PROVE third[n] = After(third)[n]
    <3>1. CASE n = 0
      BY <3>1
    <3>2. CASE n # 0
      <4>1. n - 1 \in 0..d[6] - 1 /\ n - 1 \in 0..d[6] /\ third[n - 1] = 7 + 3 * (n - 1)
        BY <3>2
      <4>2. d[8 + 3 * (n - 1)] = 1 /\ 8 + 3 * (n - 1) = third[n - 1] + 1
        BY <4>1
      <4>3. After(third)[n] = third[n - 1] + 2 + d[third[n - 1] + 1]
        BY <3>2
      <4> HIDE DEF After
      <4>4. After(third)[n] = 7 + 3 * (n - 1) + 2 + 1
        BY <4>1, <4>2, <4>3
      <4> QED BY <4>1, <4>4
    <3> QED BY <3>1, <3>2
  <2> QED BY <2>1
<1>3. start = CHOOSE s : s = After(s)
  OBVIOUS
<1> HIDE DEF third, After
<1>4. start = After(start)
  <2> HIDE DEF start
  <2> QED BY <1>2, <1>3
<1> HIDE DEF start
<1>5. ASSUME NEW n \in 0..d[6] - 1  PROVE d[start[n]] = f + n
  <2>1. start[0] = 7
    BY <1>4 DEF After
  <2>2. CASE n = 0
    BY <2>1, <2>2
  <2>3. CASE n = 1
    <3>1. start[1] = start[0] + 2 + d[start[0] + 1]
      BY <1>4, <2>3 DEF After
    <3>2. 0 \in 0..d[6] - 1 /\ 8 + 3 * 0 = 8
      BY <2>3
    <3>3. d[8] = 1
      BY <3>2
    <3>4. start[1] = 7 + 3 * 1
      BY <2>1, <3>1, <3>3
    <3> QED BY <2>3, <3>4
  <2> QED BY <2>2, <2>3
<1> QED BY <1>1, <1>5

\* A page holds its head, and the objects from the first one that was asked.
LEMMA PageRead ==
    ASSUME NEW s, NEW code, NEW first \in Nat, NEW level
    PROVE  LET d == Page(s, code, first, level) IN
           Level(d) = level /\ NextObject(d) \in Nat /\ ObjectIds(d) \subseteq Objects(s)
<1> DEFINE all == {o \in Objects(s) : o >= first /\ (code = 1 => o <= 2)}
           page == {o \in all : o < first + PageSize}
           n == Cardinality(page)
           ObjectBytes(i) == <<first + i, 1, s>>
           rest == all \ page
           more == IF rest = {} THEN 0 ELSE 255
           next == IF rest = {} THEN 0 ELSE first + PageSize
           head == <<MEIType, code, level, more, next, n>>
           body == [k \in 1..(3 * n) |-> ObjectBytes((k - 1) \div 3)[1 + ((k - 1) % 3)]]
           d == Page(s, code, first, level)
<1>1. d = head \o body
  BY DEF Page
<1>2. n \in 0..2 /\ \A i \in 0..n - 1 : first + i \in Objects(s)
  <2> DEFINE top == IF s \in RegularSlaves /\ code # 1 THEN 4 ELSE 2
  <2>1. top \in Nat /\ page = {o \in first..first + 1 : o <= top}
        /\ \A o \in page : o \in Objects(s)
    BY DEF Objects, PageSize
  <2> HIDE DEF top, page
  <2>2. CASE first > top
    <3>1. page = {}
      BY <2>1, <2>2
    <3> QED BY <3>1, FS_EmptySet
  <2>3. CASE first = top
    <3>1. page = {first}
      BY <2>1, <2>3
    <3>2. n = 1
      BY <3>1, FS_Singleton
    <3>3. first \in page /\ \A i \in 0..n - 1 : first + i = first
      BY <3>1, <3>2
    <3> QED BY <2>1, <3>2, <3>3
  <2>4. CASE first < top
    <3>1. page = {first} \cup {first + 1} /\ first + 1 \notin {first}
      BY <2>1, <2>4
    <3>2. IsFiniteSet({first}) /\ Cardinality({first}) = 1
      BY FS_Singleton
    <3>3. n = 2
      BY <3>1, <3>2, FS_AddElement
    <3>4. first + 0 \in page /\ first + 1 \in page
      BY <3>1
    <3> QED BY <2>1, <3>3, <3>4
  <2> QED BY <2>1, <2>2, <2>3, <2>4
<1> HIDE DEF page, n, rest, all
<1>3. /\ Len(head) = 6 /\ head[3] = level /\ head[4] = more /\ head[5] = next /\ head[6] = n
      /\ \E S : head \in Seq(S)
  <2>1. head \in Seq({MEIType, code, level, more, next, n})
    OBVIOUS
  <2> QED BY <2>1
<1>4. /\ Len(body) = 3 * n /\ \E S : body \in Seq(S)
      /\ \A i \in 0..n - 1 : body[1 + 3 * i] = first + i /\ body[2 + 3 * i] = 1
  <2>1. 3 * n \in Nat /\ body \in [1..3 * n -> {body[k] : k \in 1..3 * n}]
    BY <1>2
  <2>2. Len(body) = 3 * n /\ \E S : body \in Seq(S)
    <3> DEFINE m == 3 * n
               S == {body[k] : k \in 1..3 * n}
    <3>1. m \in Nat /\ body \in [1..m -> S]
      BY <2>1
    <3> HIDE DEF m, S, body
    <3>2. body \in Seq(S) /\ Len(body) = m
      BY <3>1
    <3> QED BY <3>2 DEF m
  <2>3. ASSUME NEW i \in 0..n - 1  PROVE body[1 + 3 * i] = first + i /\ body[2 + 3 * i] = 1
    <3>1. i \in {0, 1} /\ 1 + 3 * i \in 1..3 * n /\ 2 + 3 * i \in 1..3 * n
      BY <1>2
    <3>2. (1 + 3 * i - 1) \div 3 = i /\ (1 + 3 * i - 1) % 3 = 0
          /\ (2 + 3 * i - 1) \div 3 = i /\ (2 + 3 * i - 1) % 3 = 1
      BY <3>1
    <3>3. body[1 + 3 * i] = ObjectBytes(i)[1 + 0] /\ body[2 + 3 * i] = ObjectBytes(i)[1 + 1]
      BY <3>1, <3>2
    <3> QED BY <3>3
  <2> QED BY <2>2, <2>3
<1> HIDE DEF head, body
<1>5. \A k \in 1..6 + 3 * n : d[k] = IF k <= 6 THEN head[k] ELSE body[k - 6]
  <2>1. PICK S : head \in Seq(S)
    BY <1>3
  <2>2. PICK T : body \in Seq(T)
    BY <1>4
  <2>3. head \in Seq(S \cup T) /\ body \in Seq(S \cup T)
    BY <2>1, <2>2
  <2>4. \A k \in 1..Len(head) + Len(body) :
          (head \o body)[k] = IF k <= Len(head) THEN head[k] ELSE body[k - Len(head)]
    BY <2>3, ConcatProperties
  <2>5. Len(head) = 6 /\ Len(body) = 3 * n
    BY <1>3, <1>4
  <2>6. \A k \in 1..6 + 3 * n :
          (head \o body)[k] = IF k <= 6 THEN head[k] ELSE body[k - 6]
    BY <2>4, <2>5
  <2> HIDE DEF d
  <2> QED BY <1>1, <2>6
<1> HIDE DEF d
<1>6. d[3] = level /\ d[4] = more /\ d[5] = next /\ d[6] = n
  <2>1. 3 \in 1..6 + 3 * n /\ 4 \in 1..6 + 3 * n /\ 5 \in 1..6 + 3 * n /\ 6 \in 1..6 + 3 * n
    BY <1>2
  <2> QED BY <1>3, <1>5, <2>1
<1>7. ASSUME NEW i \in 0..d[6] - 1  PROVE d[7 + 3 * i] = first + i /\ d[8 + 3 * i] = 1
  <2>1. /\ 7 + 3 * i \in 1..6 + 3 * n /\ ~(7 + 3 * i <= 6) /\ 7 + 3 * i - 6 = 1 + 3 * i
        /\ 8 + 3 * i \in 1..6 + 3 * n /\ ~(8 + 3 * i <= 6) /\ 8 + 3 * i - 6 = 2 + 3 * i
    BY <1>2, <1>6
  <2>2. d[7 + 3 * i] = body[1 + 3 * i] /\ d[8 + 3 * i] = body[2 + 3 * i]
    BY <1>5, <2>1
  <2> QED BY <1>4, <1>6, <2>2
<1>8. ObjectIds(d) = {first + i : i \in 0..n - 1}
  <2>1. PICK e : e = d
    OBVIOUS
  <2>2. /\ e[6] = n /\ e[6] \in 0..2
        /\ \A i \in 0..e[6] - 1 : e[7 + 3 * i] = first + i /\ e[8 + 3 * i] = 1
    BY <1>2, <1>6, <1>7, <2>1
  <2>3. ObjectIds(e) = {first + i : i \in 0..e[6] - 1}
    BY <2>2, ObjectIdsRead
  <2> QED BY <2>1, <2>2, <2>3
<1>9. NextObject(d) \in Nat
  BY <1>6 DEF NextObject, PageSize
<1> QED BY <1>2, <1>6, <1>8, <1>9 DEF Level, d

\* Three objects of a device that has no more are all of them.
LEMMA ThreeAreAll ==
    ASSUME NEW s, s \notin RegularSlaves, NEW got \in SUBSET Objects(s), EnoughObjects(got)
    PROVE  got = Objects(s)
<1>1. Objects(s) = 0..2
  BY DEF Objects
<1>2. IsFiniteSet(0..2) /\ Cardinality(0..2) = 3
  <2>1. \A i \in Int, j \in Int :
          IsFiniteSet(i..j) /\ Cardinality(i..j) = IF i > j THEN 0 ELSE j - i + 1
    BY FS_Interval
  <2>2. 0 \in Int /\ 2 \in Int
    OBVIOUS
  <2>3. IsFiniteSet(0..2) /\ Cardinality(0..2) = IF 0 > 2 THEN 0 ELSE 2 - 0 + 1
    BY <2>1, <2>2, Zenon
  <2> QED BY <2>3
<1>3. IsFiniteSet(got) /\ Cardinality(got) <= 3 /\ (Cardinality(got) = 3 => got = 0..2)
  BY <1>1, <1>2, FS_Subset
<1>4. Cardinality(got) \in Nat
  BY <1>3, FS_CardinalityType
<1> QED BY <1>1, <1>3, <1>4 DEF EnoughObjects

-----------------------------------------------------------------------------
\* dataBlock puts two words in four bytes, from which a device takes them.
LEMMA WordsCarried ==
    ASSUME NEW ws \in Seq(Nat), Len(ws) >= 2
    PROVE  LET d == dataBlock(ws) IN
           /\ d \in Seq(Nat) /\ Len(d) = 2 * Len(ws)
           /\ Word(d, 1) = ws[1] /\ Word(d, 3) = ws[2]
<1> DEFINE d == dataBlock(ws)
           n == 2 * Len(ws)
           byte(k) == IF k % 2 = 1 THEN ws[(k + 1) \div 2] \div 256 ELSE ws[k \div 2] % 256
<1>1. Len(ws) \in Nat /\ n \in Nat /\ n >= 4 /\ ws[1] \in Nat /\ ws[2] \in Nat
  OBVIOUS
<1>2. \A k \in 1..n : byte(k) \in Nat
  <2>1. ASSUME NEW k \in 1..n, k % 2 = 1  PROVE byte(k) \in Nat
    <3>1. (k + 1) \div 2 \in 1..Len(ws)
      BY <1>1, <2>1
    <3>2. ws[(k + 1) \div 2] \in Nat
      BY <3>1
    <3>3. \A w \in Nat : w \div 256 \in Nat
      OBVIOUS
    <3> QED BY <2>1, <3>2, <3>3
  <2>2. ASSUME NEW k \in 1..n, k % 2 # 1  PROVE byte(k) \in Nat
    <3>1. k \div 2 \in 1..Len(ws)
      BY <1>1, <2>2
    <3>2. ws[k \div 2] \in Nat
      BY <3>1
    <3>3. \A w \in Nat : w % 256 \in Nat
      OBVIOUS
    <3> QED BY <2>2, <3>2, <3>3
  <2> QED BY <2>1, <2>2
<1>3. d = [k \in 1..n |-> byte(k)]
  BY DEF dataBlock
<1>4. d[1] = ws[1] \div 256 /\ d[2] = ws[1] % 256 /\ d[3] = ws[2] \div 256 /\ d[4] = ws[2] % 256
  <2>1. 1 \in 1..n /\ 2 \in 1..n /\ 3 \in 1..n /\ 4 \in 1..n
    BY <1>1
  <2>2. /\ 1 % 2 = 1 /\ (1 + 1) \div 2 = 1 /\ 2 % 2 = 0 /\ 2 \div 2 = 1
        /\ 3 % 2 = 1 /\ (3 + 1) \div 2 = 2 /\ 4 % 2 = 0 /\ 4 \div 2 = 2
    OBVIOUS
  <2>3. byte(1) = ws[1] \div 256 /\ byte(2) = ws[1] % 256
        /\ byte(3) = ws[2] \div 256 /\ byte(4) = ws[2] % 256
    BY <2>2
  <2> HIDE DEF byte, d, n
  <2> QED BY <1>3, <2>1, <2>3
<1>5. d \in Seq(Nat) /\ Len(d) = n
  <2> HIDE DEF d, n, byte
  <2>1. d \in [1..n -> Nat]
    BY <1>2, <1>3
  <2> QED BY <1>1, <2>1
<1>6. \A w \in Nat : 256 * (w \div 256) + (w % 256) = w
  OBVIOUS
<1>7. Word(d, 1) = ws[1] /\ Word(d, 3) = ws[2]
  <2> HIDE DEF d, n, byte
  <2>1. Word(d, 1) = 256 * d[1] + d[2] /\ Word(d, 3) = 256 * d[3] + d[4]
    BY DEF Word
  <2>2. /\ 256 * (ws[1] \div 256) + (ws[1] % 256) = ws[1]
        /\ 256 * (ws[2] \div 256) + (ws[2] % 256) = ws[2]
    BY <1>1, <1>6
  <2> QED BY <1>4, <2>1, <2>2
<1> QED BY <1>5, <1>7

\* So a device learns from every read of words where and how much to read.
LEMMA ReadAsked ==
    ASSUME NEW c, IsCall(c), c.op \in WordReads
    PROVE  Word(Data(c), 1) = c.words[1] /\ Word(Data(c), 3) = c.words[2]
<1>1. c.words \in Seq(Nat) /\ Len(c.words) >= 2 /\ c.bytes \in Seq(Nat)
  BY DEF IsCall
<1> DEFINE d == dataBlock(c.words)
           count == <<Len(c.bytes) % 256>>
<1>2. /\ d \in Seq(Nat) /\ Len(d) = 2 * Len(c.words)
      /\ Word(d, 1) = c.words[1] /\ Word(d, 3) = c.words[2]
  BY <1>1, WordsCarried
<1>3. CASE Data(c) = d
  BY <1>2, <1>3
<1>4. CASE Data(c) = (d \o count) \o c.bytes
  <2> DEFINE e == d \o count
             m == Len(d)
             p == Len(c.bytes)
             n == Len(e)
             last == Len(c.bytes) % 256
  <2>1. c.bytes \in Seq(Nat) /\ p \in Nat
    BY <1>1
  <2>2. count \in Seq(Nat) /\ Len(count) = 1
    <3>1. \A q \in Nat : q % 256 \in Nat
      OBVIOUS
    <3>2. last \in Nat
      BY <2>1, <3>1
    <3> HIDE DEF last
    <3>3. <<last>> \in Seq(Nat) /\ Len(<<last>>) = 1
      BY <3>2
    <3> QED BY <3>3 DEF last
  <2> HIDE DEF d, count
  <2>3. m \in Nat /\ m >= 4
    <3>1. Len(c.words) \in Nat
      BY <1>1
    <3> QED BY <1>1, <1>2, <3>1
  <2>4. /\ e \in Seq(Nat) /\ n = m + 1
        /\ \A k \in 1..m + 1 : e[k] = IF k <= m THEN d[k] ELSE count[k - m]
    <3>1. d \in Seq(Nat) /\ m \in Nat /\ Len(count) = 1
      BY <1>2, <2>2, <2>3
    <3>2. /\ e \in Seq(Nat) /\ n = m + Len(count)
          /\ \A k \in 1..m + Len(count) : e[k] = IF k <= m THEN d[k] ELSE count[k - m]
      BY <2>2, <3>1, ConcatProperties
    <3> HIDE DEF e, m, n
    <3> QED BY <3>1, <3>2
  <2> HIDE DEF e
  <2>5. \A k \in 1..n + p : (e \o c.bytes)[k] = IF k <= n THEN e[k] ELSE c.bytes[k - n]
    BY <2>1, <2>4, ConcatProperties
  <2>6. Data(c) = e \o c.bytes
    BY <1>4 DEF e
  <2> HIDE DEF m, n, p
  <2>7. \A k \in 1..4 : k \in 1..m + 1 /\ k <= m /\ k \in 1..n + p /\ k <= n
    BY <2>1, <2>3, <2>4
  <2>8. \A k \in 1..4 : Data(c)[k] = d[k]
    BY <2>4, <2>5, <2>6, <2>7
  <2>9. Word(Data(c), 1) = Word(d, 1) /\ Word(Data(c), 3) = Word(d, 3)
    BY <2>8 DEF Word
  <2> QED BY <1>2, <2>9
<1> QED BY <1>3, <1>4 DEF Data, dataBlockSuffix

\* A device's answer to a read of words is a count and the words it asks for,
\* and what the call returns of it is the words.
LEMMA ReadAnswered ==
    ASSUME NEW c, IsCall(c), c.op \in WordReads, NEW d \in Response(Request(c))
    PROVE  Results(c, d) = Cells(c.slave, IF c.op = "ReadInputRegisters" THEN 4 ELSE 3,
                                 c.words[1], c.words[2])
<1> DEFINE r == Request(c)
           table == IF r.code = 4 THEN 4 ELSE 3
           cells == Cells(r.slave, table, Word(r.data, 1), Word(r.data, 3))
           count == (2 * Word(r.data, 3)) % 256
<1>1. r.slave = c.slave /\ r.code = Code[c.op] /\ r.data = Data(c)
  BY DEF Request, Frame
<1>2. /\ r.code \in {3, 4, 23, CustomCode}
      /\ r.code = 4 <=> c.op = "ReadInputRegisters"
  BY <1>1, ClientAssumption DEF WordReads, Code, IsCall
<1>3. cells = Cells(c.slave, IF c.op = "ReadInputRegisters" THEN 4 ELSE 3,
                    c.words[1], c.words[2])
  BY <1>1, <1>2, ReadAsked
<1> HIDE DEF r
<1>4. d = <<count>> \o cells
  <2>1. /\ r.code \notin {1, 2} /\ r.code \notin {5, 6, 22} /\ r.code \notin {15, 16}
        /\ r.code # 24 /\ r.code # 43
    BY <1>2, ClientAssumption DEF WriteCodes
  <2>2. CASE Within(Word(r.data, 1), Word(r.data, 3))
    <3>1. Response(r) = {<<count>> \o cells}
      BY <1>2, <2>1, <2>2, Zenon DEF Response
    <3> QED BY <3>1 DEF r
  <2>3. CASE ~Within(Word(r.data, 1), Word(r.data, 3))
    <3>1. Response(r) = {}
      BY <1>2, <2>1, <2>3, Zenon DEF Response
    <3> QED BY <3>1 DEF r
  <2> QED BY <2>2, <2>3
<1>5. Word(r.data, 3) \in Nat
  <2>1. c.words \in Seq(Nat) /\ Len(c.words) >= 2
    BY DEF IsCall
  <2> QED BY <1>1, <2>1, ReadAsked
<1>6. \E S : cells \in Seq(S)
  <2> DEFINE m == 2 * Word(r.data, 3)
             S == {cells[k] : k \in 1..m}
  <2>1. m \in Nat /\ cells \in [1..m -> S]
    BY <1>5 DEF Cells
  <2> HIDE DEF m, S, cells
  <2>2. cells \in Seq(S)
    BY <2>1
  <2> QED BY <2>2
<1> HIDE DEF cells, count
<1>7. SubSeq(d, 2, Len(d)) = cells
  <2>1. PICK S : cells \in Seq(S)
    BY <1>6
  <2>2. cells \in Seq(S \cup {count}) /\ <<count>> \in Seq(S \cup {count}) /\ Len(<<count>>) = 1
    BY <2>1
  <2> DEFINE T == S \cup {count}
             n == Len(cells)
  <2> HIDE DEF T
  <2>3. /\ d \in Seq(T) /\ Len(d) = 1 + n /\ n \in Nat
        /\ \A k \in 1..1 + n : d[k] = IF k <= 1 THEN <<count>>[k] ELSE cells[k - 1]
    BY <1>4, <2>2, ConcatProperties DEF T
  <2> HIDE DEF n
  <2>4. \A k \in 1..n : d[1 + k] = cells[k]
    BY <2>3
  <2>5. /\ SubSeq(d, 2, 1 + n) \in Seq(T)
        /\ Len(SubSeq(d, 2, 1 + n)) = n
        /\ \A k \in 1..n : SubSeq(d, 2, 1 + n)[k] = d[1 + k]
    BY <2>3
  <2>6. \A k \in 1..n : SubSeq(d, 2, 1 + n)[k] = cells[k]
    BY <2>4, <2>5
  <2>7. cells \in Seq(T) /\ Len(cells) = n
    BY <2>2 DEF n, T
  <2> QED BY <2>3, <2>5, <2>6, <2>7, SeqEqual
<1>8. c.op # "ReadFIFOQueue" /\ c.op \notin SingleWrites \cup BulkWrites
  BY DEF WordReads, SingleWrites, BulkWrites
<1> QED BY <1>3, <1>7, <1>8 DEF Results

-----------------------------------------------------------------------------
\* What a single step does to the line.
LEMMA RequestPut ==
    ASSUME RequestsAreFrames, \A q \in Elements(requests) : AsksForPage(q), NEW r, AsksForPage(r),
           requests' = Append(requests, r)
    PROVE  \A q \in Elements(requests') : AsksForPage(q)
<1>1. Elements(Append(requests, r)) \subseteq Elements(requests) \cup {r}
  BY ElementsAppended DEF RequestsAreFrames
<1> QED BY <1>1 DEF Elements

LEMMA PageAsked ==
    ASSUME NEW s, NEW code, NEW first \in Nat
    PROVE  AsksForPage(Frame(s, 43, <<MEIType, code, first>>))
  BY DEF AsksForPage, Frame

\* An answer is taken off the line by a call that ends with it.
LEMMA AnswerRead ==
    ASSUME AnswersVouch, \A q \in Elements(answers) : SendsPage(q), answers # <<>>,
           answers' = Tail(answers)
    PROVE  SendsPage(Head(answers)) /\ \A q \in Elements(answers') : SendsPage(q)
<1>1. Elements(Tail(answers)) \subseteq Elements(answers) /\ Head(answers) \in Elements(answers)
  BY ElementsDropped DEF AnswersVouch
<1> QED BY <1>1 DEF Elements

\* A call that fails.
LEMMA FailKeepsWhole ==
    ASSUME ConfirmedInv, WholeInv, Fail, \A q \in Elements(answers') : SendsPage(q)
    PROVE  WholeInv'
<1>1. ~outcome'.ok /\ calling' = NoCall /\ requests' = requests
  BY DEF Fail, Return
<1>2. \A r \in Elements(requests') : AsksForPage(r)
  BY <1>1 DEF WholeInv, Elements
<1>3. GotIsTheirs' /\ ReadsAlone' /\ ResultsAreWhole'
  BY <1>1 DEF GotIsTheirs, ReadsAlone, ResultsAreWhole
<1> QED BY <1>1, <1>2, <1>3 DEF WholeInv

\* A page is taken: the identification ends, with all objects if well, or asks
\* for another.
LEMMA IdentifyKeepsWhole ==
    ASSUME ConfirmedInv, WholeInv, calling # NoCall, calling.op = "ReadDeviceIdentification",
           NEW d, Identify(d),
           NEW code, NEW first \in Nat, NEW level \in {0, IF calling.slave \in RegularSlaves THEN 2 ELSE 1},
           d = Page(calling.slave, code, first, level),
           \A q \in Elements(answers') : SendsPage(q)
    PROVE  WholeInv'
<1> DEFINE got == ident.got \cup ObjectIds(d)
           Asks(c, object, additional) ==
             /\ Ask(calling.slave, c, object, additional, got)
             /\ UNCHANGED <<calling, clean, calls, outcome>>
<1>1. Level(d) = level /\ NextObject(d) \in Nat /\ got \subseteq Objects(calling.slave)
  BY PageRead DEF WholeInv, GotIsTheirs
<1>2. \/ Fail
      \/ Return(FALSE, <<>>, got)
      \/ Conforming(level) /\ EnoughObjects(got) /\ ~HasRegular(level) /\ Return(TRUE, <<>>, got)
      \/ \E c, object, additional : object \in Nat /\ Asks(c, object, additional)
  <2> DEFINE next == NextObject(d)
  <2>1. next \in Nat /\ 0 \in Nat
    BY <1>1
  <2> HIDE DEF next, got
  <2>2. CASE ~Conforming(Level(d))
    BY <2>2, Zenon DEF Identify
  <2>3. CASE Conforming(Level(d)) /\ ident.additional
    <3>1. Asks(2, 0, TRUE)
      BY <2>3, Zenon DEF Identify, got
    <3> QED BY <2>1, <3>1
  <2>4. CASE Conforming(Level(d)) /\ ~ident.additional /\ ~EnoughObjects(got)
    <3>1. Return(FALSE, <<>>, got) \/ Asks(1, next, FALSE)
      BY <2>4, Zenon DEF Identify, got, next
    <3> QED BY <2>1, <3>1
  <2>5. CASE Conforming(Level(d)) /\ ~ident.additional /\ EnoughObjects(got)
    <3>1. IF HasRegular(Level(d)) THEN Asks(2, 0, TRUE) ELSE Return(TRUE, <<>>, got)
      BY <2>5, Zenon DEF Identify, got
    <3> QED BY <1>1, <2>1, <2>5, <3>1
  <2> QED BY <2>2, <2>3, <2>4, <2>5
<1> HIDE DEF got
<1>3. CASE Fail
  BY <1>3, FailKeepsWhole
<1>4. CASE Return(FALSE, <<>>, got)
  <2>1. ~outcome'.ok /\ calling' = NoCall /\ requests' = requests
    BY <1>4 DEF Return
  <2>2. \A r \in Elements(requests') : AsksForPage(r)
    BY <2>1 DEF WholeInv, Elements
  <2>3. GotIsTheirs' /\ ReadsAlone' /\ ResultsAreWhole'
    BY <2>1 DEF GotIsTheirs, ReadsAlone, ResultsAreWhole
  <2> QED BY <2>1, <2>2, <2>3 DEF WholeInv
<1>5. CASE /\ Conforming(level) /\ EnoughObjects(got) /\ ~HasRegular(level)
           /\ Return(TRUE, <<>>, got)
  <2>1. /\ calling' = NoCall /\ requests' = requests
        /\ outcome'.call = calling /\ outcome'.objects = got
    BY <1>5 DEF Return
  <2>2. calling.slave \notin RegularSlaves
    <3>1. ~Conforming(0) /\ HasRegular(2)
      BY DEF Conforming, HasRegular
    <3>2. level # 0 /\ level # 2
      BY <1>5, <3>1
    <3> QED BY <3>2
  <2>3. got = Objects(calling.slave)
    BY <1>1, <1>5, <2>2, ThreeAreAll DEF got
  <2>4. ResultsAreWhole'
    BY <2>1, <2>3 DEF ResultsAreWhole, WordReads, Objects
  <2>5. \A r \in Elements(requests') : AsksForPage(r)
    BY <2>1 DEF WholeInv, Elements
  <2>6. GotIsTheirs' /\ ReadsAlone'
    BY <2>1 DEF GotIsTheirs, ReadsAlone
  <2> QED BY <2>1, <2>4, <2>5, <2>6 DEF WholeInv
<1>6. CASE \E c, object, additional : object \in Nat /\ Asks(c, object, additional)
  <2>1. PICK c, object, additional : object \in Nat /\ Asks(c, object, additional)
    BY <1>6
  <2>2. /\ ident'.got = got /\ UNCHANGED <<calling, clean, outcome>>
        /\ requests' = Append(requests, Frame(calling.slave, 43, <<MEIType, c, object>>))
    BY <2>1 DEF Ask
  <2>3. \A r \in Elements(requests') : AsksForPage(r)
    BY <2>1, <2>2, PageAsked, RequestPut DEF ConfirmedInv, WholeInv
  <2>4. GotIsTheirs'
    BY <1>1, <2>2 DEF GotIsTheirs, got, Objects
  <2>5. ReadsAlone'
    BY <2>2 DEF ReadsAlone, WordReads
  <2>6. ResultsAreWhole'
    BY <2>2 DEF WholeInv, ResultsAreWhole
  <2> QED BY <2>2, <2>3, <2>4, <2>5, <2>6 DEF WholeInv
<1> QED BY <1>2, <1>3, <1>4, <1>5, <1>6

LEMMA ReceiveKeepsWhole ==
    ASSUME ConfirmedInv, WholeInv, Receive
    PROVE  WholeInv'
<1> DEFINE a == Head(answers)
<1>1. /\ calling # NoCall /\ answers # <<>> /\ answers' = Tail(answers)
      /\ IF ~Usable(a) THEN Fail
         ELSE IF calling.op = "ReadDeviceIdentification" THEN Identify(a.data)
         ELSE IF Confirms(calling, a.data) THEN Return(TRUE, Results(calling, a.data), {})
         ELSE Fail
  BY DEF Receive, Accept
<1>2. SendsPage(a) /\ \A q \in Elements(answers') : SendsPage(q)
  BY <1>1, AnswerRead DEF ConfirmedInv, WholeInv
<1>3. \A x : answers = <<x>> => a = x
  OBVIOUS
<1> HIDE DEF a
<1>4. CASE Fail
  BY <1>2, <1>4, FailKeepsWhole
<1>5. CASE Usable(a) /\ calling.op = "ReadDeviceIdentification" /\ Identify(a.data)
  <2>1. a.slave = calling.slave /\ a.code = 43
    BY <1>5 DEF Usable, Code
  <2>2. PICK code, first, level :
            /\ first \in Nat
            /\ level \in {0, IF a.slave \in RegularSlaves THEN 2 ELSE 1}
            /\ a.data = Page(a.slave, code, first, level)
    BY <1>2, <2>1 DEF SendsPage
  <2> QED BY <1>1, <1>2, <1>5, <2>1, <2>2, IdentifyKeepsWhole
<1>6. CASE /\ Usable(a) /\ calling.op # "ReadDeviceIdentification"
           /\ Return(TRUE, Results(calling, a.data), {})
  <2>1. /\ calling' = NoCall /\ requests' = requests /\ clean' = clean
        /\ outcome'.call = calling /\ outcome'.data = Results(calling, a.data)
    BY <1>6 DEF Return
  <2>2. ASSUME clean, calling.op \in WordReads
        PROVE  outcome'.data = Cells(calling.slave, IF calling.op = "ReadInputRegisters" THEN 4 ELSE 3,
                                     calling.words[1], calling.words[2])
    <3>1. AloneOnLine(Request(calling))
      BY <1>1, <2>2 DEF WholeInv, ReadsAlone
    <3>2. Replies(a, Request(calling))
      BY <1>1, <1>3, <3>1 DEF AloneOnLine
    <3>3. a.code = Code[calling.op] /\ Code[calling.op] \in Nat
      BY <1>1, <1>6, CodesAreNat DEF Usable, ConfirmedInv, CallingHasCode
    <3>4. Request(calling).code = Code[calling.op]
      BY DEF Request, Frame
    <3>5. a.data \in Response(Request(calling))
      BY <3>2, <3>3, <3>4 DEF Replies
    <3>6. IsCall(calling)
      BY <1>1 DEF WholeInv
    <3> QED BY <2>1, <2>2, <3>5, <3>6, ReadAnswered
  <2>3. ResultsAreWhole'
    BY <1>6, <2>1, <2>2 DEF ResultsAreWhole, Cells, Cell
  <2>4. \A r \in Elements(requests') : AsksForPage(r)
    BY <2>1 DEF WholeInv, Elements
  <2>5. GotIsTheirs' /\ ReadsAlone'
    BY <2>1 DEF GotIsTheirs, ReadsAlone
  <2> QED BY <1>2, <2>1, <2>3, <2>4, <2>5 DEF WholeInv
<1> QED BY <1>1, <1>4, <1>5, <1>6

LEMMA BeginKeepsWhole ==
    ASSUME ConfirmedInv, WholeInv, NEW c, IsCall(c), Begin(c)
    PROVE  WholeInv'
<1>1. /\ calling' = c /\ ~outcome'.ok /\ answers' = answers
      /\ clean' = (requests = <<>> /\ answers = <<>>)
  BY DEF Begin, NoOutcome
<1>2. \A q \in Elements(answers') : SendsPage(q)
  BY <1>1 DEF WholeInv, Elements
<1>3. CASE c.op = "ReadDeviceIdentification"
  <2>1. ident'.got = {} /\ requests' = Append(requests, Frame(c.slave, 43, <<MEIType, 1, 0>>))
    BY <1>3 DEF Begin, Ask
  <2>2. \A r \in Elements(requests') : AsksForPage(r)
    BY <2>1, PageAsked, RequestPut DEF ConfirmedInv, WholeInv
  <2>3. GotIsTheirs' /\ ReadsAlone' /\ ResultsAreWhole'
    BY <1>1, <1>3, <2>1 DEF GotIsTheirs, ReadsAlone, ResultsAreWhole, WordReads
  <2> QED BY <1>1, <1>2, <2>2, <2>3 DEF WholeInv
<1>4. CASE c.op # "ReadDeviceIdentification"
  <2>1. requests' = Append(requests, Request(c))
    BY <1>4 DEF Begin
  <2>2. AsksForPage(Request(c))
    <3>1. c.op \in DOMAIN Code
      BY DEF IsCall
    <3>2. Code[c.op] # 43
      BY <1>4, <3>1, ClientAssumption DEF Code
    <3> QED BY <3>2 DEF AsksForPage, Request, Frame
  <2>3. \A r \in Elements(requests') : AsksForPage(r)
    BY <2>1, <2>2, RequestPut DEF ConfirmedInv, WholeInv
  <2>4. clean' => requests' = <<Request(c)>> /\ answers' = <<>>
    <3>1. \A r : Append(<<>>, r) = <<r>>
      OBVIOUS
    <3>2. requests = <<>> => requests' = <<Request(c)>>
      BY <2>1, <3>1
    <3> QED BY <1>1, <3>2
  <2>5. ReadsAlone'
    BY <1>1, <2>4 DEF ReadsAlone, AloneOnLine, Request, Frame, Data, dataBlockSuffix, dataBlock
  <2>6. GotIsTheirs' /\ ResultsAreWhole'
    BY <1>1, <1>4 DEF GotIsTheirs, ResultsAreWhole
  <2> QED BY <1>1, <1>2, <2>3, <2>5, <2>6 DEF WholeInv
<1> QED BY <1>3, <1>4

\* The line moves under the call in progress.
LEMMA LineKeepsWhole ==
    ASSUME WholeInv, UNCHANGED <<calling, ident, clean, outcome>>,
           \A r \in Elements(requests') : AsksForPage(r),
           \A a \in Elements(answers') : SendsPage(a),
           \A r : AloneOnLine(r) => AloneOnLine(r)'
    PROVE  WholeInv'
<1>1. GotIsTheirs' /\ ReadsAlone' /\ ResultsAreWhole'
  BY DEF WholeInv, GotIsTheirs, ReadsAlone, ResultsAreWhole, Request
<1> QED BY <1>1 DEF WholeInv

\* A device answers the request at the head.
LEMMA AnsweredKeepsWhole ==
    ASSUME ConfirmedInv, WholeInv, requests # <<>>, NEW a, Answered(a), SendsPage(a),
           Replies(a, Head(requests))
    PROVE  WholeInv'
<1>1. /\ requests' = Tail(requests) /\ answers' = Append(answers, a)
      /\ UNCHANGED <<calling, ident, clean, outcome>>
  BY DEF Answered
<1>2. \A r \in Elements(requests') : AsksForPage(r)
  <2>1. Elements(Tail(requests)) \subseteq Elements(requests)
    BY ElementsDropped DEF ConfirmedInv, RequestsAreFrames
  <2> QED BY <1>1, <2>1 DEF WholeInv, Elements
<1>3. \A q \in Elements(answers') : SendsPage(q)
  <2>1. Elements(Append(answers, a)) \subseteq Elements(answers) \cup {a}
    BY ElementsAppended DEF ConfirmedInv, AnswersVouch
  <2> QED BY <1>1, <2>1 DEF WholeInv, Elements
<1>4. ASSUME NEW r, AloneOnLine(r) PROVE AloneOnLine(r)'
  <2>1. requests = <<r>> /\ answers = <<>>
    BY <1>4 DEF AloneOnLine
  <2>2. requests' = <<>> /\ answers' = <<a>> /\ Replies(a, r)
    BY <1>1, <2>1
  <2> QED BY <2>2 DEF AloneOnLine, Replies
<1> QED BY <1>1, <1>2, <1>3, <1>4, LineKeepsWhole

LEMMA ExecuteKeepsWhole ==
    ASSUME ConfirmedInv, WholeInv, Execute
    PROVE  WholeInv'
<1> DEFINE r == Head(requests)
<1>1. requests # <<>> /\ \E d \in Response(r) : Answered(Frame(r.slave, r.code, d))
  BY DEF Execute
<1>2. AsksForPage(r)
  <2>1. r \in Elements(requests)
    BY <1>1, ElementsDropped DEF ConfirmedInv, RequestsAreFrames
  <2> QED BY <2>1 DEF WholeInv
<1> HIDE DEF r
<1>3. PICK d \in Response(r) : Answered(Frame(r.slave, r.code, d))
  BY <1>1
<1> DEFINE a == Frame(r.slave, r.code, d)
<1>4. a.slave = r.slave /\ a.code = r.code /\ a.data = d
  BY DEF Frame
<1>5. ASSUME r.code = 43  PROVE SendsPage(a)
  <2>1. PICK code, first : first \in Nat /\ r.data = <<MEIType, code, first>>
    BY <1>2, <1>5 DEF AsksForPage
  <2> DEFINE levels == {0, IF r.slave \in RegularSlaves THEN 2 ELSE 1}
  <2>2. r.data[2] = code /\ r.data[3] = first
    BY <2>1
  <2>3. Response(r) = {Page(r.slave, r.data[2], r.data[3], level) : level \in levels}
    <3>1. /\ r.code \notin {1, 2} /\ r.code \notin {3, 4, 23, CustomCode}
          /\ r.code \notin {5, 6, 22} /\ r.code \notin {15, 16} /\ r.code # 24
      BY <1>5, ClientAssumption
    <3> QED BY <1>5, <3>1, Zenon DEF Response
  <2> HIDE DEF levels
  <2>4. PICK level \in levels : d = Page(r.slave, code, first, level)
    BY <2>2, <2>3
  <2> QED BY <1>4, <2>1, <2>4 DEF SendsPage, levels
<1>6. SendsPage(a)
  BY <1>4, <1>5 DEF SendsPage
<1>7. Replies(a, r) /\ Answered(a)
  BY <1>3, <1>4 DEF Replies
<1> HIDE DEF a
<1> QED BY <1>1, <1>6, <1>7, AnsweredKeepsWhole DEF r

LEMMA ExceptKeepsWhole ==
    ASSUME ConfirmedInv, WholeInv, Except
    PROVE  WholeInv'
<1> DEFINE r == Head(requests)
           a == Frame(r.slave, r.code + 128, <<4>>)
<1>1. requests # <<>> /\ Answered(a)
  BY DEF Except
<1>2. r.code \in Nat
  BY <1>1, Dropped DEF ConfirmedInv, RequestsAreFrames, IsRequest
<1> HIDE DEF r
<1>3. a.code = r.code + 128
  BY DEF Frame
<1>4. SendsPage(a) /\ Replies(a, r)
  BY <1>2, <1>3 DEF SendsPage, Replies
<1> HIDE DEF a
<1> QED BY <1>1, <1>4, AnsweredKeepsWhole DEF r

LEMMA LoseRequestKeepsWhole ==
    ASSUME ConfirmedInv, WholeInv, LoseRequest
    PROVE  WholeInv'
<1>1. /\ requests # <<>> /\ requests' = Tail(requests)
      /\ UNCHANGED <<calling, ident, answers, clean, outcome>>
  BY DEF LoseRequest
<1>2. Elements(Tail(requests)) \subseteq Elements(requests)
  BY <1>1, ElementsDropped DEF ConfirmedInv, RequestsAreFrames
<1>3. \A r \in Elements(requests') : AsksForPage(r)
  BY <1>1, <1>2 DEF WholeInv, Elements
<1>4. \A a \in Elements(answers') : SendsPage(a)
  BY <1>1 DEF WholeInv, Elements
<1>5. ASSUME NEW r, AloneOnLine(r) PROVE AloneOnLine(r)'
  <2>1. requests = <<r>> /\ answers = <<>>
    BY <1>1, <1>5 DEF AloneOnLine
  <2>2. requests' = <<>> /\ answers' = <<>>
    BY <1>1, <2>1
  <2> QED BY <2>2 DEF AloneOnLine
<1> QED BY <1>1, <1>3, <1>4, <1>5, LineKeepsWhole

LEMMA LoseAnswerKeepsWhole ==
    ASSUME ConfirmedInv, WholeInv, LoseAnswer
    PROVE  WholeInv'
<1>1. /\ answers # <<>> /\ answers' = Tail(answers)
      /\ UNCHANGED <<calling, ident, requests, clean, outcome>>
  BY DEF LoseAnswer
<1>2. \A a \in Elements(answers') : SendsPage(a)
  BY <1>1, AnswerRead DEF ConfirmedInv, WholeInv
<1>3. \A r \in Elements(requests') : AsksForPage(r)
  BY <1>1 DEF WholeInv, Elements
<1>4. ASSUME NEW r, AloneOnLine(r) PROVE AloneOnLine(r)'
  <2>1. PICK a : requests = <<>> /\ answers = <<a>>
    BY <1>1, <1>4 DEF AloneOnLine
  <2>2. requests' = <<>> /\ answers' = <<>>
    BY <1>1, <2>1
  <2> QED BY <2>2 DEF AloneOnLine
<1> QED BY <1>1, <1>2, <1>3, <1>4, LineKeepsWhole

LEMMA WholeInit == ClientInit => WholeInv
<1> SUFFICES ASSUME ClientInit  PROVE  WholeInv
  OBVIOUS
<1>1. Elements(<<>>) = {}
  BY DEF Elements
<1> QED BY <1>1 DEF ClientInit, NoOutcome, WholeInv, GotIsTheirs, ReadsAlone, ResultsAreWhole

LEMMA RefuseKeepsWhole == ASSUME WholeInv, NEW c, Refuse(c)  PROVE  WholeInv'
<1>1. /\ calling = NoCall /\ calling' = NoCall /\ ~outcome'.ok
      /\ requests' = requests /\ answers' = answers
  BY DEF Refuse, NoOutcome, lineVars
<1>2. GotIsTheirs' /\ ReadsAlone' /\ ResultsAreWhole'
  BY <1>1 DEF GotIsTheirs, ReadsAlone, ResultsAreWhole
<1> QED BY <1>1, <1>2 DEF WholeInv, Elements

LEMMA WholeNext == ASSUME ConfirmedInv, WholeInv, [ClientNext]_clientVars  PROVE  WholeInv'
<1>1. CASE \E c \in Calls : calls < MaxCalls /\ (Begin(c) \/ Refuse(c))
  <2>1. PICK c : IsCall(c) /\ (Begin(c) \/ Refuse(c))
    BY <1>1, ClientAssumption
  <2>2. CASE Begin(c)
    BY <2>1, <2>2, BeginKeepsWhole
  <2>3. CASE Refuse(c)
    BY <2>3, RefuseKeepsWhole
  <2> QED BY <2>1, <2>2, <2>3
<1>2. CASE Receive
  BY <1>2, ReceiveKeepsWhole
<1>3. CASE ReceiveUnusable
  <2>1. Fail /\ answers # <<>> /\ answers' = Tail(answers)
    BY <1>3 DEF ReceiveUnusable
  <2>2. \A a \in Elements(answers') : SendsPage(a)
    BY <2>1, AnswerRead DEF ConfirmedInv, WholeInv
  <2> QED BY <2>1, <2>2, FailKeepsWhole
<1>4. CASE Timeout
  <2>1. Fail /\ answers' = answers
    BY <1>4 DEF Timeout
  <2>2. \A a \in Elements(answers') : SendsPage(a)
    BY <2>1 DEF WholeInv, Elements
  <2> QED BY <2>1, <2>2, FailKeepsWhole
<1>5. CASE Execute
  BY <1>5, ExecuteKeepsWhole
<1>6. CASE Except
  BY <1>6, ExceptKeepsWhole
<1>7. CASE LoseRequest
  BY <1>7, LoseRequestKeepsWhole
<1>8. CASE LoseAnswer
  BY <1>8, LoseAnswerKeepsWhole
<1>9. CASE UNCHANGED clientVars
  <2>1. UNCHANGED <<calling, ident, requests, answers, clean, outcome>>
    BY <1>9 DEF clientVars, lineVars
  <2>2. \A r : AloneOnLine(r) => AloneOnLine(r)'
    BY <2>1 DEF AloneOnLine
  <2>3. (\A r \in Elements(requests') : AsksForPage(r)) /\ \A a \in Elements(answers') : SendsPage(a)
    BY <2>1 DEF WholeInv, Elements
  <2> QED BY <2>1, <2>2, <2>3, LineKeepsWhole
<1> QED  BY <1>1, <1>2, <1>3, <1>4, <1>5, <1>6, <1>7, <1>8, <1>9 DEF ClientNext, LineNext

\* What a call of client.go reports as read is whole: the words at the address
\* and in the number asked for, on a line that was empty when the call began and
\* with devices that answer a read with the quantity it asks for or refuse it,
\* and all objects a device has, put together from several replies of which
\* some may answer an earlier identification.
THEOREM ResultsWhole == ClientSpec => []ResultsAreWhole
<1>1. ConfirmedInv /\ [ClientNext]_clientVars => ConfirmedInv'
  BY ConfirmedNext
<1>2. ConfirmedInv /\ WholeInv /\ [ClientNext]_clientVars => WholeInv'
  BY WholeNext
<1>3. WholeInv => ResultsAreWhole
  BY DEF WholeInv
<1> QED  BY ConfirmedInit, WholeInit, <1>1, <1>2, <1>3, PTL DEF ClientSpec

-----------------------------------------------------------------------------
(***************************************************************************)
(* The grouping.                                                           *)
(***************************************************************************)
\* What the assumption says of one register.
LEMMA RegisterFacts ==
    ASSUME NEW r \in Registers
    PROVE  /\ r.address \in Nat /\ r.address < AddressSpace
           /\ r.quantity \in Nat /\ r.quantity < AddressSpace
  BY GroupingAssumption

\* A sum that wraps comes out smaller than either of its parts.
LEMMA WrappedSumIsSmaller ==
    ASSUME NEW A \in Nat \ {0}, NEW x \in Nat, NEW q \in Nat, x < A, q < A
    PROVE  (x + q) % A = x + q \/ (x + q) % A < x
<1>1. CASE x + q < A
  BY <1>1
<1>2. CASE x + q >= A
  <2>1. (x + q) % A = x + q - A
    BY <1>2
  <2> QED BY <2>1
<1> QED BY <1>1, <1>2

\* The register after another one that it continues begins where that ends,
\* provided it does not lie before it.
LEMMA ContinuesAhead ==
    ASSUME NEW p \in Registers, NEW r \in Registers,
           Continues(p, r), p.address <= r.address
    PROVE  r.address = p.address + p.quantity
<1>1. AddressSpace \in Nat \ {0}
  BY GroupingAssumption
<1>2. \/ (p.address + p.quantity) % AddressSpace = p.address + p.quantity
      \/ (p.address + p.quantity) % AddressSpace < p.address
  BY <1>1, RegisterFacts, WrappedSumIsSmaller
<1>3. r.address = (p.address + p.quantity) % AddressSpace
  BY DEF Continues
<1>4. p.address \in Nat /\ r.address \in Nat
  BY RegisterFacts
<1> QED BY <1>2, <1>3, <1>4

\* Sorting gives a sequence of the same registers in ascending order.
LEMMA SortedFacts ==
    ASSUME NEW R \in SUBSET Registers, NEW f \in Sorted(R)
    PROVE  /\ f \in Seq(R)
           /\ R # {} => f # <<>>
           /\ \A k \in 1..(Len(f) - 1) : f[k].address <= f[k + 1].address
<1>1. IsFiniteSet(R) /\ Cardinality(R) \in Nat
  BY GroupingAssumption, FS_Subset, FS_CardinalityType
<1>2. f \in [1..Cardinality(R) -> R]
  BY DEF Sorted
<1>3. f \in Seq(R) /\ Len(f) = Cardinality(R)
  BY <1>1, <1>2
<1>4. R # {} => f # <<>>
  <2>1. R # {} => Cardinality(R) # 0
    BY <1>1, FS_EmptySet
  <2> QED BY <1>3, <2>1
<1>5. \A k \in 1..(Len(f) - 1) : f[k].address <= f[k + 1].address
  <2>1. \A k \in DOMAIN f : k > 1 => f[k - 1].address <= f[k].address
    BY DEF Sorted
  <2> SUFFICES ASSUME NEW k \in 1..(Len(f) - 1)
               PROVE  f[k].address <= f[k + 1].address
    OBVIOUS
  <2>2. k + 1 \in DOMAIN f /\ k + 1 > 1 /\ (k + 1) - 1 = k
    BY <1>1, <1>2, <1>3
  <2> QED BY <2>1, <2>2
<1> QED BY <1>3, <1>4, <1>5

\* A run stays one when it gets a register that begins where it ends, and a
\* single register is one.
LEMMA RunGrows ==
    ASSUME NEW g \in Seq(Registers), OneRun(g), NEW r \in Registers,
           r.slave = g[Len(g)].slave,
           r.address = g[Len(g)].address + g[Len(g)].quantity
    PROVE  OneRun(Append(g, r))
<1> DEFINE h == Append(g, r)
<1>1. /\ h \in Seq(Registers) /\ Len(h) = Len(g) + 1 /\ Len(g) \in Nat
      /\ \A k \in 1..Len(g) : h[k] = g[k]
      /\ h[Len(g) + 1] = r
  OBVIOUS
<1>2. g # <<>> /\ Len(g) >= 1
  BY DEF OneRun
<1>3. ASSUME NEW k \in 1..(Len(h) - 1)
      PROVE  /\ h[k + 1].slave = h[k].slave
             /\ h[k + 1].address = h[k].address + h[k].quantity
  <2>1. CASE k = Len(g)
    BY <1>1, <1>2, <2>1
  <2>2. CASE k < Len(g)
    <3>1. k \in 1..(Len(g) - 1) /\ h[k] = g[k] /\ h[k + 1] = g[k + 1]
      BY <1>1, <2>2
    <3> QED BY <3>1 DEF OneRun
  <2> QED BY <1>1, <2>1, <2>2
<1>4. h # <<>>
  OBVIOUS
<1> HIDE DEF h
<1>5. OneRun(h)
  BY <1>3, <1>4 DEF OneRun
<1> QED BY <1>5 DEF h

LEMMA SingleIsRun == ASSUME NEW r \in Registers PROVE OneRun(<<r>>)
  BY DEF OneRun

-----------------------------------------------------------------------------
(***************************************************************************)
(* The inductive invariant.  What was sorted stays so, and the current     *)
(* group ends with the register before the next one to look at: the two    *)
(* together are what the comparison of the code rests on.                  *)
(***************************************************************************)
Shape ==
    /\ registers \in SUBSET Registers
    /\ slaves \in SUBSET {r.slave : r \in registers}
    /\ regs \in Seq(Registers) /\ pos \in Nat \ {0}
    /\ current \in Seq(Registers) /\ groups \in Seq(Seq(Registers))

Ascending ==
    \A k \in 1..(Len(regs) - 1) :
        regs[k].slave = regs[k + 1].slave /\ regs[k].address <= regs[k + 1].address

CurrentEndsBeforePos ==
    regs # <<>> =>
        /\ pos \in 2..(Len(regs) + 1) /\ current # <<>>
        /\ current[Len(current)] = regs[pos - 1]

GroupingInv == Shape /\ Ascending /\ CurrentEndsBeforePos /\ GroupsContiguous

LEMMA InitInv == GroupInit => GroupingInv
<1> SUFFICES ASSUME GroupInit PROVE GroupingInv
  OBVIOUS
<1>1. Shape
  BY DEF GroupInit, Shape
<1>2. Ascending /\ CurrentEndsBeforePos /\ GroupsContiguous
  BY DEF GroupInit, Ascending, CurrentEndsBeforePos, GroupsContiguous
<1> QED BY <1>1, <1>2 DEF GroupingInv

LEMMA TakeSlaveInv ==
    ASSUME GroupingInv, NEW s \in slaves, TakeSlave(s) PROVE GroupingInv'
<1> DEFINE R == RegistersOf(s)
<1>1. R \in SUBSET Registers /\ R # {}
  BY DEF GroupingInv, Shape, RegistersOf
<1>2. PICK f \in Sorted(R) : f = regs'
  BY DEF TakeSlave
<1>3. /\ f \in Seq(R) /\ f # <<>>
      /\ \A k \in 1..(Len(f) - 1) : f[k].address <= f[k + 1].address
  BY <1>1, <1>2, SortedFacts
<1>4. /\ f \in Seq(Registers) /\ Len(f) \in Nat /\ Len(f) >= 1
      /\ \A k \in 1..Len(f) : f[k] \in R /\ f[k] \in Registers
  BY <1>1, <1>3
<1>5. \A r \in R : r.slave = s
  BY DEF RegistersOf
<1>6. regs' = f /\ current' = <<f[1]>> /\ pos' = 2 /\ groups' = groups
  BY <1>2 DEF TakeSlave
<1> HIDE DEF R
<1>7. Shape'
  <2>1. registers' = registers /\ slaves' \in SUBSET slaves
    BY DEF TakeSlave
  <2>2. current' \in Seq(Registers)
    BY <1>4, <1>6
  <2> QED BY <1>4, <1>6, <2>1, <2>2 DEF GroupingInv, Shape
<1>8. Ascending'
  BY <1>3, <1>4, <1>5, <1>6 DEF Ascending
<1>9. CurrentEndsBeforePos'
  BY <1>4, <1>6 DEF CurrentEndsBeforePos
<1>10. GroupsContiguous'
  <2>1. OneRun(current')
    BY <1>4, <1>6, SingleIsRun
  <2> QED BY <1>6, <2>1 DEF GroupingInv, GroupsContiguous
<1> QED BY <1>7, <1>8, <1>9, <1>10 DEF GroupingInv

\* The register at pos and the one before it, while there is one.
LEMMA AtPos ==
    ASSUME GroupingInv, regs # <<>>, pos <= Len(regs)
    PROVE  /\ pos \in 2..Len(regs) /\ pos - 1 \in 1..(Len(regs) - 1)
           /\ regs[pos] \in Registers /\ regs[pos - 1] \in Registers
           /\ regs[pos].slave = regs[pos - 1].slave
           /\ regs[pos - 1].address <= regs[pos].address
           /\ current # <<>> /\ current[Len(current)] = regs[pos - 1]
           /\ OneRun(current)
<1>1. regs \in Seq(Registers) /\ Len(regs) \in Nat /\ pos \in 2..Len(regs)
  BY DEF GroupingInv, Shape, CurrentEndsBeforePos
<1>2. pos - 1 \in 1..(Len(regs) - 1) /\ (pos - 1) + 1 = pos
  BY <1>1
<1>3. regs[pos] \in Registers /\ regs[pos - 1] \in Registers
  BY <1>1, <1>2
<1>4. /\ regs[pos - 1].slave = regs[(pos - 1) + 1].slave
      /\ regs[pos - 1].address <= regs[(pos - 1) + 1].address
  BY <1>2 DEF GroupingInv, Ascending
<1>5. current # <<>> /\ current[Len(current)] = regs[pos - 1] /\ OneRun(current)
  BY DEF GroupingInv, CurrentEndsBeforePos, GroupsContiguous
<1> QED BY <1>1, <1>2, <1>3, <1>4, <1>5

LEMMA ExtendInv == ASSUME GroupingInv, Extend PROVE GroupingInv'
<1>1. regs # <<>> /\ pos <= Len(regs)
  BY DEF Extend
<1>2. /\ pos \in 2..Len(regs) /\ regs[pos] \in Registers /\ regs[pos - 1] \in Registers
      /\ regs[pos].slave = regs[pos - 1].slave
      /\ regs[pos - 1].address <= regs[pos].address
      /\ current # <<>> /\ current[Len(current)] = regs[pos - 1] /\ OneRun(current)
  BY <1>1, AtPos
<1>3. current \in Seq(Registers) /\ Len(regs) \in Nat
  BY DEF GroupingInv, Shape
<1>4. regs[pos].address = regs[pos - 1].address + regs[pos - 1].quantity
  BY <1>2, ContinuesAhead DEF Extend
<1>5. OneRun(Append(current, regs[pos]))
  BY <1>2, <1>3, <1>4, RunGrows
<1>6. /\ Append(current, regs[pos]) \in Seq(Registers)
      /\ Append(current, regs[pos]) # <<>>
      /\ Append(current, regs[pos])[Len(Append(current, regs[pos]))] = regs[pos]
  BY <1>2, <1>3
<1>7. /\ current' = Append(current, regs[pos]) /\ pos' = pos + 1
      /\ regs' = regs /\ groups' = groups /\ registers' = registers /\ slaves' = slaves
  BY DEF Extend
<1>8. Shape'
  BY <1>6, <1>7 DEF GroupingInv, Shape
<1>9. Ascending'
  BY <1>7 DEF GroupingInv, Ascending
<1>10. CurrentEndsBeforePos'
  <2>1. pos + 1 \in 2..(Len(regs) + 1) /\ (pos + 1) - 1 = pos
    BY <1>2, <1>3
  <2> QED BY <1>6, <1>7, <2>1 DEF CurrentEndsBeforePos
<1>11. GroupsContiguous'
  BY <1>5, <1>7 DEF GroupingInv, GroupsContiguous
<1> QED BY <1>8, <1>9, <1>10, <1>11 DEF GroupingInv

\* Finishing a group keeps every group a run.
LEMMA GroupAdded ==
    ASSUME GroupingInv, current # <<>>
    PROVE  /\ Append(groups, current) \in Seq(Seq(Registers))
           /\ \A n \in 1..Len(Append(groups, current)) : OneRun(Append(groups, current)[n])
<1>1. groups \in Seq(Seq(Registers)) /\ current \in Seq(Registers)
  BY DEF GroupingInv, Shape
<1>2. OneRun(current) /\ \A n \in 1..Len(groups) : OneRun(groups[n])
  BY DEF GroupingInv, GroupsContiguous
<1>3. /\ Len(Append(groups, current)) = Len(groups) + 1
      /\ \A n \in 1..Len(groups) : Append(groups, current)[n] = groups[n]
      /\ Append(groups, current)[Len(groups) + 1] = current
  BY <1>1
<1> QED BY <1>1, <1>2, <1>3

LEMMA CutInv == ASSUME GroupingInv, Cut PROVE GroupingInv'
<1>1. regs # <<>> /\ pos <= Len(regs)
  BY DEF Cut
<1>2. pos \in 2..Len(regs) /\ regs[pos] \in Registers /\ current # <<>>
  BY <1>1, AtPos
<1>3. /\ current' = <<regs[pos]>> /\ pos' = pos + 1 /\ groups' = Append(groups, current)
      /\ regs' = regs /\ registers' = registers /\ slaves' = slaves
  BY DEF Cut
<1>4. /\ groups' \in Seq(Seq(Registers))
      /\ \A n \in 1..Len(groups') : OneRun(groups'[n])
  BY <1>2, <1>3, GroupAdded
<1>5. Shape'
  <2>1. current' \in Seq(Registers) /\ pos' \in Nat \ {0}
    BY <1>2, <1>3
  <2> QED BY <1>3, <1>4, <2>1 DEF GroupingInv, Shape
<1>6. Ascending'
  BY <1>3 DEF GroupingInv, Ascending
<1>7. CurrentEndsBeforePos'
  <2>1. pos + 1 \in 2..(Len(regs) + 1) /\ (pos + 1) - 1 = pos
    BY <1>2 DEF GroupingInv, Shape
  <2> QED BY <1>3, <2>1 DEF CurrentEndsBeforePos
<1>8. GroupsContiguous'
  <2>1. OneRun(current')
    BY <1>2, <1>3, SingleIsRun
  <2> QED BY <1>4, <2>1 DEF GroupsContiguous
<1> QED BY <1>5, <1>6, <1>7, <1>8 DEF GroupingInv

LEMMA LastGroupInv == ASSUME GroupingInv, LastGroup PROVE GroupingInv'
<1>1. current # <<>>
  BY DEF LastGroup, GroupingInv, CurrentEndsBeforePos
<1>2. /\ regs' = <<>> /\ pos' = 1 /\ current' = <<>> /\ groups' = Append(groups, current)
      /\ registers' = registers /\ slaves' = slaves
  BY DEF LastGroup
<1>3. /\ groups' \in Seq(Seq(Registers))
      /\ \A n \in 1..Len(groups') : OneRun(groups'[n])
  BY <1>1, <1>2, GroupAdded
<1>4. Shape'
  BY <1>2, <1>3 DEF GroupingInv, Shape
<1>5. Ascending' /\ CurrentEndsBeforePos'
  BY <1>2 DEF Ascending, CurrentEndsBeforePos
<1>6. GroupsContiguous'
  BY <1>2, <1>3 DEF GroupsContiguous
<1> QED BY <1>4, <1>5, <1>6 DEF GroupingInv

LEMMA StepInv == GroupingInv /\ [GroupNext]_groupVars => GroupingInv'
<1> SUFFICES ASSUME GroupingInv, [GroupNext]_groupVars PROVE GroupingInv'
  OBVIOUS
<1>1. ASSUME NEW s \in slaves, TakeSlave(s) PROVE GroupingInv'
  BY <1>1, TakeSlaveInv
<1>2. CASE Extend
  BY <1>2, ExtendInv
<1>3. CASE Cut
  BY <1>3, CutInv
<1>4. CASE LastGroup
  BY <1>4, LastGroupInv
<1>5. CASE UNCHANGED groupVars
  BY <1>5 DEF groupVars, GroupingInv, Shape, Ascending, CurrentEndsBeforePos, GroupsContiguous
<1> QED BY <1>1, <1>2, <1>3, <1>4, <1>5 DEF GroupNext

\* Every group that comes out of the grouping is one run of registers of one
\* slave, each beginning where the one before it ends, and no run continues
\* around the end of the address space: what one request can read.
THEOREM GroupsAreRuns == GroupSpec => []GroupsContiguous
<1>1. GroupingInv => GroupsContiguous
  BY DEF GroupingInv
<1> QED BY <1>1, InitInv, StepInv, PTL DEF GroupSpec

-----------------------------------------------------------------------------
(***************************************************************************)
(* No register is lost or read twice.  A place in a sequence of groups is  *)
(* a group and a position in it; the group in progress counts as the last. *)
(***************************************************************************)
IsPlace(G, n, i) == n \in 1..Len(G) /\ i \in 1..Len(G[n])
EachOnce(G) ==
    \A n, m, i, j \in Nat :
        IsPlace(G, n, i) /\ IsPlace(G, m, j) /\ G[n][i] = G[m][j] => n = m /\ i = j
Has(G, r) == \E n, i \in Nat : IsPlace(G, n, i) /\ G[n][i] = r

\* H is G with r at one more place.
OneMore(G, H, a, b, r) ==
    /\ a \in Nat /\ b \in Nat /\ H[a][b] = r
    /\ \A n, i \in Nat : IsPlace(H, n, i) <=> IsPlace(G, n, i) \/ (n = a /\ i = b)
    /\ \A n, i \in Nat : IsPlace(G, n, i) => H[n][i] = G[n][i]

\* With one more place, for a register that was not there yet.
LEMMA OneMorePlace ==
    ASSUME NEW G, NEW H, NEW a, NEW b, NEW r,
           OneMore(G, H, a, b, r), ~Has(G, r), EachOnce(G)
    PROVE  EachOnce(H) /\ \A x : Has(H, x) <=> Has(G, x) \/ x = r
<1> USE DEF OneMore
<1>1. ASSUME NEW n \in Nat, NEW m \in Nat, NEW i \in Nat, NEW j \in Nat,
             IsPlace(H, n, i), IsPlace(H, m, j), H[n][i] = H[m][j]
      PROVE  n = m /\ i = j
  <2>1. CASE IsPlace(G, n, i) /\ IsPlace(G, m, j)
    BY <1>1, <2>1 DEF EachOnce
  <2>2. CASE IsPlace(G, n, i) /\ m = a /\ j = b
    BY <1>1, <2>2 DEF Has
  <2>3. CASE IsPlace(G, m, j) /\ n = a /\ i = b
    BY <1>1, <2>3 DEF Has
  <2>4. CASE n = a /\ i = b /\ m = a /\ j = b
    BY <2>4
  <2> QED BY <1>1, <2>1, <2>2, <2>3, <2>4
<1>2. EachOnce(H)
  BY <1>1 DEF EachOnce
<1>3. ASSUME NEW x PROVE Has(H, x) <=> Has(G, x) \/ x = r
  BY DEF Has
<1> QED BY <1>2, <1>3

\* The last group gets a register.
LEMMA LastGrows ==
    ASSUME NEW Q \in Seq(Seq(Registers)), NEW c \in Seq(Registers), NEW r \in Registers,
           EachOnce(Append(Q, c)), ~Has(Append(Q, c), r)
    PROVE  /\ EachOnce(Append(Q, Append(c, r)))
           /\ \A x : Has(Append(Q, Append(c, r)), x) <=> Has(Append(Q, c), x) \/ x = r
<1> DEFINE G == Append(Q, c)
           d == Append(c, r)
           H == Append(Q, d)
           a == Len(Q) + 1
           b == Len(c) + 1
<1>1. /\ Len(Q) \in Nat /\ Len(c) \in Nat
      /\ Len(G) = Len(Q) + 1 /\ Len(H) = Len(Q) + 1
      /\ \A n \in 1..Len(Q) : G[n] = Q[n] /\ H[n] = Q[n]
      /\ G[Len(Q) + 1] = c /\ H[Len(Q) + 1] = d
  <2>1. d \in Seq(Registers)
    OBVIOUS
  <2> HIDE DEF d
  <2> QED BY <2>1
<1>2. Len(d) = Len(c) + 1 /\ d[Len(c) + 1] = r /\ \A i \in 1..Len(c) : d[i] = c[i]
  OBVIOUS
<1> HIDE DEF G, H, d
<1>3. ASSUME NEW n \in Nat, NEW i \in Nat
      PROVE  /\ IsPlace(H, n, i) <=> IsPlace(G, n, i) \/ (n = a /\ i = b)
             /\ IsPlace(G, n, i) => H[n][i] = G[n][i]
  <2>1. CASE n \in 1..Len(Q)
    BY <1>1, <2>1 DEF IsPlace
  <2>2. CASE n = a
    BY <1>1, <1>2, <2>2 DEF IsPlace
  <2>3. CASE n \notin 1..Len(Q) /\ n # a
    BY <1>1, <2>3 DEF IsPlace
  <2> QED BY <2>1, <2>2, <2>3
<1>4. a \in Nat /\ b \in Nat /\ H[a][b] = r
  BY <1>1, <1>2
<1> HIDE DEF a, b
<1>5. EachOnce(H) /\ \A x : Has(H, x) <=> Has(G, x) \/ x = r
  <2>1. EachOnce(G) /\ ~Has(G, r)
    BY DEF G
  <2>2. \A n, i \in Nat : IsPlace(H, n, i) <=> IsPlace(G, n, i) \/ (n = a /\ i = b)
    BY <1>3
  <2>3. \A n, i \in Nat : IsPlace(G, n, i) => H[n][i] = G[n][i]
    BY <1>3
  <2>4. OneMore(G, H, a, b, r)
    BY <1>4, <2>2, <2>3 DEF OneMore
  <2> QED BY <2>1, <2>4, OneMorePlace
<1> QED BY <1>5 DEF G, H, d

\* A new group with one register.
LEMMA GroupStarts ==
    ASSUME NEW G \in Seq(Seq(Registers)), NEW r \in Registers,
           EachOnce(G), ~Has(G, r)
    PROVE  /\ EachOnce(Append(G, <<r>>))
           /\ \A x : Has(Append(G, <<r>>), x) <=> Has(G, x) \/ x = r
<1> DEFINE d == <<r>>
           H == Append(G, d)
           a == Len(G) + 1
<1>1. /\ Len(G) \in Nat /\ Len(H) = Len(G) + 1
      /\ \A n \in 1..Len(G) : H[n] = G[n]
      /\ H[Len(G) + 1] = d
  <2>1. d \in Seq(Registers)
    OBVIOUS
  <2> HIDE DEF d
  <2> QED BY <2>1
<1>2. Len(d) = 1 /\ d[1] = r
  OBVIOUS
<1> HIDE DEF H, d
<1>3. ASSUME NEW n \in Nat, NEW i \in Nat
      PROVE  /\ IsPlace(H, n, i) <=> IsPlace(G, n, i) \/ (n = a /\ i = 1)
             /\ IsPlace(G, n, i) => H[n][i] = G[n][i]
  <2>1. CASE n \in 1..Len(G)
    BY <1>1, <2>1 DEF IsPlace
  <2>2. CASE n = a
    <3>1. IsPlace(H, n, i) <=> i = 1
      <4>1. n \in 1..Len(H) /\ H[n] = d
        BY <1>1, <2>2
      <4>2. i \in 1..Len(d) <=> i = 1
        BY <1>2
      <4> QED BY <4>1, <4>2 DEF IsPlace
    <3>2. ~IsPlace(G, n, i)
      BY <1>1, <2>2 DEF IsPlace
    <3> QED BY <2>2, <3>1, <3>2
  <2>3. CASE n \notin 1..Len(G) /\ n # a
    BY <1>1, <2>3 DEF IsPlace
  <2> QED BY <2>1, <2>2, <2>3
<1>4. a \in Nat /\ 1 \in Nat /\ H[a][1] = r
  BY <1>1, <1>2
<1> HIDE DEF a
<1>5. EachOnce(H) /\ \A x : Has(H, x) <=> Has(G, x) \/ x = r
  <2>1. \A n, i \in Nat : IsPlace(H, n, i) <=> IsPlace(G, n, i) \/ (n = a /\ i = 1)
    BY <1>3
  <2>2. \A n, i \in Nat : IsPlace(G, n, i) => H[n][i] = G[n][i]
    BY <1>3
  <2>3. OneMore(G, H, a, 1, r)
    BY <1>4, <2>1, <2>2 DEF OneMore
  <2> QED BY <2>3, OneMorePlace
<1> QED BY <1>5 DEF H, d

\* An empty group has no place.
LEMMA EmptyGroup ==
    ASSUME NEW G \in Seq(Seq(Registers)), EachOnce(G)
    PROVE  /\ EachOnce(Append(G, <<>>))
           /\ \A x : Has(Append(G, <<>>), x) <=> Has(G, x)
<1> DEFINE d == <<>>
           H == Append(G, d)
<1>1. /\ Len(G) \in Nat /\ Len(H) = Len(G) + 1
      /\ \A n \in 1..Len(G) : H[n] = G[n]
      /\ H[Len(G) + 1] = d
  <2>1. d \in Seq(Registers)
    OBVIOUS
  <2> HIDE DEF d
  <2> QED BY <2>1
<1>2. Len(d) = 0
  OBVIOUS
<1> HIDE DEF H, d
<1>3. ASSUME NEW n \in Nat, NEW i \in Nat
      PROVE  /\ IsPlace(H, n, i) <=> IsPlace(G, n, i)
             /\ IsPlace(G, n, i) => H[n][i] = G[n][i]
  <2>1. CASE n \in 1..Len(G)
    BY <1>1, <2>1 DEF IsPlace
  <2>2. CASE n = Len(G) + 1
    BY <1>1, <1>2, <2>2 DEF IsPlace
  <2>3. CASE n \notin 1..Len(G) /\ n # Len(G) + 1
    BY <1>1, <2>3 DEF IsPlace
  <2> QED BY <2>1, <2>2, <2>3
<1>4. EachOnce(H) /\ \A x : Has(H, x) <=> Has(G, x)
  BY <1>3 DEF EachOnce, Has
<1> QED BY <1>4 DEF H, d

-----------------------------------------------------------------------------
(***************************************************************************)
(* The invariant of the partition: no register has two places, and the     *)
(* loaded ones that have none yet are exactly those that still wait, with  *)
(* their slave or behind pos.                                              *)
(***************************************************************************)
AllGroups == Append(groups, current)
Waits(r) == r.slave \in slaves \/ \E k \in pos..Len(regs) : regs[k] = r

TakenOnce ==
    /\ \A k \in 1..Len(regs) : regs[k] \in registers /\ regs[k].slave \notin slaves
    /\ \A k, l \in 1..Len(regs) : regs[k] = regs[l] => k = l
    /\ regs = <<>> => current = <<>>

Partitioned ==
    /\ EachOnce(AllGroups)
    /\ \A r \in registers : Has(AllGroups, r) <=> ~Waits(r)

FitTogether ==
    /\ Len(regs) <= MaxLoaded
    /\ regs # <<>> => Len(current) < pos
    /\ \A n \in 1..Len(groups) : Len(groups[n]) <= MaxLoaded

Loaded == IsFiniteSet(registers) /\ Cardinality(registers) <= MaxLoaded

PartitionInv == GroupingInv /\ Loaded /\ TakenOnce /\ Partitioned /\ FitTogether

\* Sorting loses and repeats nothing, and a slave has no more registers than
\* were loaded.
LEMMA SortedOnce ==
    ASSUME Loaded, NEW R \in SUBSET registers, NEW f \in Sorted(R)
    PROVE  /\ f \in Seq(R) /\ Len(f) <= MaxLoaded
           /\ \A r \in R : \E k \in 1..Len(f) : f[k] = r
           /\ \A k, l \in 1..Len(f) : f[k] = f[l] => k = l
<1>1. IsFiniteSet(R) /\ Cardinality(R) \in Nat /\ Cardinality(R) <= MaxLoaded
  <2>1. IsFiniteSet(R) /\ Cardinality(R) <= Cardinality(registers)
    BY FS_Subset DEF Loaded
  <2>2. Cardinality(R) \in Nat /\ Cardinality(registers) \in Nat /\ MaxLoaded \in Nat
    BY <2>1, FS_CardinalityType, GroupingAssumption DEF Loaded
  <2> QED BY <2>1, <2>2 DEF Loaded
<1> DEFINE D == 1..Cardinality(R)
<1>2. f \in [D -> R] /\ \A r \in R : \E k \in D : f[k] = r
  BY DEF Sorted
<1>3. f \in Seq(R) /\ Len(f) = Cardinality(R)
  BY <1>1, <1>2
<1>4. IsFiniteSet(D) /\ Cardinality(D) = Cardinality(R)
  BY <1>1, FS_Interval
<1>5. f \in Surjection(D, R)
  BY <1>2 DEF Surjection
<1>6. f \in Injection(D, R)
  BY <1>4, <1>5, FS_SurjSameCardinalityImpliesInj
<1>7. \A k, l \in D : f[k] = f[l] => k = l
  BY <1>6 DEF Injection, IsInjective
<1> QED BY <1>1, <1>2, <1>3, <1>7

LEMMA InitPartition == GroupInit => PartitionInv
<1> SUFFICES ASSUME GroupInit PROVE PartitionInv
  OBVIOUS
<1>1. GroupingInv
  BY InitInv
<1>2. Loaded
  BY GroupingAssumption, FS_Subset DEF GroupInit, Loaded
<1>3. regs = <<>> /\ current = <<>> /\ groups = <<>> /\ slaves = {r.slave : r \in registers}
  BY DEF GroupInit
<1>4. TakenOnce
  BY <1>3 DEF TakenOnce
<1>5. FitTogether
  BY <1>3, GroupingAssumption DEF FitTogether
<1>6. Partitioned
  <2>1. Len(AllGroups) = 1 /\ Len(AllGroups[1]) = 0
    BY <1>3 DEF AllGroups
  <2>2. \A n, i \in Nat : ~IsPlace(AllGroups, n, i)
    BY <2>1 DEF IsPlace
  <2>3. EachOnce(AllGroups) /\ \A r : ~Has(AllGroups, r)
    BY <2>2 DEF EachOnce, Has
  <2>4. \A r \in registers : Waits(r)
    BY <1>3 DEF Waits
  <2> QED BY <2>3, <2>4 DEF Partitioned
<1> QED BY <1>1, <1>2, <1>4, <1>5, <1>6 DEF PartitionInv

LEMMA TakeSlavePartition ==
    ASSUME PartitionInv, NEW s \in slaves, TakeSlave(s) PROVE PartitionInv'
<1> DEFINE R == RegistersOf(s)
<1>1. GroupingInv'
  BY TakeSlaveInv DEF PartitionInv
<1>2. regs = <<>> /\ current = <<>> /\ groups \in Seq(Seq(Registers))
  BY DEF TakeSlave, PartitionInv, TakenOnce, GroupingInv, Shape
<1>3. PICK f \in Sorted(R) : f = regs'
  BY DEF TakeSlave
<1>4. /\ registers' = registers /\ groups' = groups /\ slaves' = slaves \ {s}
      /\ pos' = 2 /\ current' = <<f[1]>> /\ regs' = f
  BY <1>3 DEF TakeSlave
<1>5. R \in SUBSET registers /\ R \in SUBSET Registers /\ R # {}
  BY DEF PartitionInv, GroupingInv, Shape, RegistersOf
<1>6. /\ f \in Seq(R) /\ Len(f) <= MaxLoaded
      /\ \A r \in R : \E k \in 1..Len(f) : f[k] = r
      /\ \A k, l \in 1..Len(f) : f[k] = f[l] => k = l
  BY <1>5, SortedOnce DEF PartitionInv
<1>7. f # <<>>
  BY <1>5, SortedFacts
<1>8. Len(f) \in Nat /\ Len(f) >= 1 /\ \A k \in 1..Len(f) : f[k] \in R
  BY <1>6, <1>7
<1>9. \A r : r \in R <=> r \in registers /\ r.slave = s
  BY DEF RegistersOf
<1> HIDE DEF R
<1>10. f[1] \in registers /\ f[1] \in Registers /\ f[1].slave = s
  BY <1>5, <1>8, <1>9
<1>11. Loaded'
  BY <1>4 DEF PartitionInv, Loaded
<1>12. TakenOnce'
  <2>1. \A k \in 1..Len(f) : f[k] \in registers /\ f[k].slave \notin slaves \ {s}
    BY <1>8, <1>9
  <2> QED BY <1>4, <1>6, <1>7, <2>1 DEF TakenOnce
<1>13. Partitioned'
  <2>1. AllGroups = Append(groups, <<>>) /\ AllGroups' = Append(groups, <<f[1]>>)
    BY <1>2, <1>4 DEF AllGroups
  <2>2. \A r \in registers : Waits(r) <=> r.slave \in slaves
    <3>1. Len(regs) = 0 /\ pos \in Nat \ {0}
      BY <1>2 DEF PartitionInv, GroupingInv, Shape
    <3>2. \A k \in pos..Len(regs) : FALSE
      BY <3>1
    <3> QED BY <3>2 DEF Waits
  <2>3. EachOnce(AllGroups) /\ \A r \in registers : Has(AllGroups, r) <=> r.slave \notin slaves
    BY <2>2 DEF PartitionInv, Partitioned
  <2>4. ~Has(AllGroups, f[1])
    BY <1>10, <2>3
  <2>5. <<>> \in Seq(Registers) /\ Append(<<>>, f[1]) = <<f[1]>>
    BY <1>10
  <2>6. /\ EachOnce(Append(groups, <<f[1]>>))
        /\ \A x : Has(Append(groups, <<f[1]>>), x) <=> Has(Append(groups, <<>>), x) \/ x = f[1]
    BY <1>2, <1>10, <2>1, <2>3, <2>4, <2>5, LastGrows
  <2>7. ASSUME NEW r \in registers PROVE Has(AllGroups', r) <=> ~(Waits(r)')
    <3>1. Waits(r)' <=> r.slave \in slaves \ {s} \/ \E k \in 2..Len(f) : f[k] = r
      BY <1>4 DEF Waits
    <3>2. Has(AllGroups', r) <=> r.slave \notin slaves \/ r = f[1]
      BY <2>1, <2>3, <2>6
    <3>3. CASE r.slave = s
      <4>1. PICK k \in 1..Len(f) : f[k] = r
        BY <1>6, <1>9, <3>3
      <4>2. r = f[1] <=> k = 1
        BY <1>6, <1>8, <4>1
      <4>3. (\E l \in 2..Len(f) : f[l] = r) <=> k # 1
        BY <1>6, <1>8, <4>1
      <4> QED BY <3>1, <3>2, <3>3, <4>2, <4>3
    <3>4. CASE r.slave # s
      <4>1. r # f[1] /\ ~\E l \in 2..Len(f) : f[l] = r
        BY <1>8, <1>9, <1>10, <3>4
      <4> QED BY <3>1, <3>2, <3>4, <4>1
    <3> QED BY <3>3, <3>4
  <2> QED BY <1>4, <2>1, <2>6, <2>7 DEF Partitioned
<1>14. FitTogether'
  <2>1. Len(<<f[1]>>) = 1
    OBVIOUS
  <2> QED BY <1>4, <1>6, <2>1 DEF PartitionInv, FitTogether
<1> QED BY <1>1, <1>11, <1>12, <1>13, <1>14 DEF PartitionInv

\* Looking at the register at pos: it waited and has a place now.
LEMMA NextRegister ==
    ASSUME PartitionInv, regs # <<>>, pos <= Len(regs)
    PROVE  /\ groups \in Seq(Seq(Registers)) /\ current \in Seq(Registers)
           /\ AllGroups \in Seq(Seq(Registers)) /\ EachOnce(AllGroups)
           /\ pos \in 2..Len(regs) /\ Len(regs) \in Nat
           /\ regs[pos] \in Registers /\ ~Has(AllGroups, regs[pos])
           /\ \A r \in registers :
                (r.slave \in slaves \/ \E k \in (pos + 1)..Len(regs) : regs[k] = r)
                  <=> Waits(r) /\ r # regs[pos]
<1>1. groups \in Seq(Seq(Registers)) /\ current \in Seq(Registers) /\ Len(regs) \in Nat
  BY DEF PartitionInv, GroupingInv, Shape
<1>2. AllGroups \in Seq(Seq(Registers)) /\ EachOnce(AllGroups)
  BY <1>1 DEF AllGroups, PartitionInv, Partitioned
<1>3. pos \in 2..Len(regs) /\ regs[pos] \in Registers
  BY AtPos DEF PartitionInv
<1>4. /\ regs[pos] \in registers /\ regs[pos].slave \notin slaves
      /\ \A k \in 1..Len(regs) : regs[k] = regs[pos] => k = pos
  BY <1>1, <1>3 DEF PartitionInv, TakenOnce
<1>5. Waits(regs[pos]) /\ ~Has(AllGroups, regs[pos])
  BY <1>1, <1>3, <1>4 DEF Waits, PartitionInv, Partitioned
<1>6. ASSUME NEW r \in registers
      PROVE  (r.slave \in slaves \/ \E k \in (pos + 1)..Len(regs) : regs[k] = r)
               <=> Waits(r) /\ r # regs[pos]
  <2>1. CASE r = regs[pos]
    BY <1>1, <1>3, <1>4, <2>1
  <2>2. CASE r # regs[pos]
    <3>1. (\E k \in pos..Len(regs) : regs[k] = r)
            <=> \E k \in (pos + 1)..Len(regs) : regs[k] = r
      BY <1>1, <1>3, <2>2
    <3> QED BY <2>2, <3>1 DEF Waits
  <2> QED BY <2>1, <2>2
<1> QED BY <1>1, <1>2, <1>3, <1>5, <1>6

LEMMA ExtendPartition == ASSUME PartitionInv, Extend PROVE PartitionInv'
<1>1. GroupingInv'
  BY ExtendInv DEF PartitionInv
<1>2. /\ regs # <<>> /\ pos <= Len(regs)
      /\ current' = Append(current, regs[pos]) /\ pos' = pos + 1
      /\ regs' = regs /\ groups' = groups /\ registers' = registers /\ slaves' = slaves
  BY DEF Extend
<1>3. /\ groups \in Seq(Seq(Registers)) /\ current \in Seq(Registers)
      /\ EachOnce(AllGroups)
      /\ pos \in 2..Len(regs) /\ Len(regs) \in Nat
      /\ regs[pos] \in Registers /\ ~Has(AllGroups, regs[pos])
      /\ \A r \in registers :
           (r.slave \in slaves \/ \E k \in (pos + 1)..Len(regs) : regs[k] = r)
             <=> Waits(r) /\ r # regs[pos]
  BY <1>2, NextRegister
<1>4. Loaded' /\ TakenOnce'
  BY <1>2 DEF PartitionInv, Loaded, TakenOnce
<1>5. Partitioned'
  <2>1. AllGroups' = Append(groups, Append(current, regs[pos]))
    BY <1>2 DEF AllGroups
  <2>2. EachOnce(AllGroups') /\ \A x : Has(AllGroups', x) <=> Has(AllGroups, x) \/ x = regs[pos]
    BY <1>3, <2>1, LastGrows DEF AllGroups
  <2>3. \A r \in registers : Waits(r)' <=> Waits(r) /\ r # regs[pos]
    BY <1>2, <1>3 DEF Waits
  <2>4. \A r \in registers : Has(AllGroups, r) <=> ~Waits(r)
    BY DEF PartitionInv, Partitioned
  <2> QED BY <1>2, <2>2, <2>3, <2>4 DEF Partitioned
<1>6. FitTogether'
  <2>1. Len(Append(current, regs[pos])) = Len(current) + 1 /\ Len(current) \in Nat
    BY <1>3
  <2> QED BY <1>2, <1>3, <2>1 DEF PartitionInv, FitTogether
<1> QED BY <1>1, <1>4, <1>5, <1>6 DEF PartitionInv

\* Finishing a group does not make it longer than what was loaded.
LEMMA GroupFits ==
    ASSUME PartitionInv, regs # <<>>
    PROVE  \A n \in 1..Len(Append(groups, current)) : Len(Append(groups, current)[n]) <= MaxLoaded
<1>1. groups \in Seq(Seq(Registers)) /\ current \in Seq(Registers) /\ Len(regs) \in Nat
  BY DEF PartitionInv, GroupingInv, Shape
<1>2. Len(current) <= MaxLoaded
  <2>1. pos \in 2..(Len(regs) + 1) /\ Len(current) < pos /\ Len(regs) <= MaxLoaded
    BY DEF PartitionInv, GroupingInv, CurrentEndsBeforePos, FitTogether
  <2>2. Len(current) \in Nat /\ MaxLoaded \in Nat
    BY <1>1, GroupingAssumption
  <2> QED BY <1>1, <2>1, <2>2
<1>3. /\ Len(Append(groups, current)) = Len(groups) + 1
      /\ \A n \in 1..Len(groups) : Append(groups, current)[n] = groups[n]
      /\ Append(groups, current)[Len(groups) + 1] = current
  BY <1>1
<1>4. \A n \in 1..Len(groups) : Len(groups[n]) <= MaxLoaded
  BY DEF PartitionInv, FitTogether
<1> QED BY <1>1, <1>2, <1>3, <1>4

LEMMA CutPartition == ASSUME PartitionInv, Cut PROVE PartitionInv'
<1>1. GroupingInv'
  BY CutInv DEF PartitionInv
<1>2. /\ regs # <<>> /\ pos <= Len(regs)
      /\ current' = <<regs[pos]>> /\ pos' = pos + 1 /\ groups' = Append(groups, current)
      /\ regs' = regs /\ registers' = registers /\ slaves' = slaves
  BY DEF Cut
<1>3. /\ AllGroups \in Seq(Seq(Registers)) /\ EachOnce(AllGroups)
      /\ pos \in 2..Len(regs) /\ Len(regs) \in Nat
      /\ regs[pos] \in Registers /\ ~Has(AllGroups, regs[pos])
      /\ \A r \in registers :
           (r.slave \in slaves \/ \E k \in (pos + 1)..Len(regs) : regs[k] = r)
             <=> Waits(r) /\ r # regs[pos]
  BY <1>2, NextRegister
<1>4. Loaded' /\ TakenOnce'
  BY <1>2 DEF PartitionInv, Loaded, TakenOnce
<1>5. Partitioned'
  <2>1. AllGroups' = Append(AllGroups, <<regs[pos]>>)
    BY <1>2 DEF AllGroups
  <2>2. EachOnce(AllGroups') /\ \A x : Has(AllGroups', x) <=> Has(AllGroups, x) \/ x = regs[pos]
    BY <1>3, <2>1, GroupStarts
  <2>3. \A r \in registers : Waits(r)' <=> Waits(r) /\ r # regs[pos]
    BY <1>2, <1>3 DEF Waits
  <2>4. \A r \in registers : Has(AllGroups, r) <=> ~Waits(r)
    BY DEF PartitionInv, Partitioned
  <2> QED BY <1>2, <2>2, <2>3, <2>4 DEF Partitioned
<1>6. FitTogether'
  <2>1. Len(<<regs[pos]>>) = 1
    OBVIOUS
  <2>2. \A n \in 1..Len(groups') : Len(groups'[n]) <= MaxLoaded
    BY <1>2, GroupFits
  <2> QED BY <1>2, <1>3, <2>1, <2>2 DEF PartitionInv, FitTogether
<1> QED BY <1>1, <1>4, <1>5, <1>6 DEF PartitionInv

LEMMA LastGroupPartition == ASSUME PartitionInv, LastGroup PROVE PartitionInv'
<1>1. GroupingInv'
  BY LastGroupInv DEF PartitionInv
<1>2. /\ regs # <<>> /\ pos > Len(regs)
      /\ regs' = <<>> /\ pos' = 1 /\ current' = <<>> /\ groups' = Append(groups, current)
      /\ registers' = registers /\ slaves' = slaves
  BY DEF LastGroup
<1>3. /\ groups \in Seq(Seq(Registers)) /\ current \in Seq(Registers)
      /\ Len(regs) \in Nat /\ pos \in Nat
  BY DEF PartitionInv, GroupingInv, Shape
<1>4. AllGroups \in Seq(Seq(Registers)) /\ EachOnce(AllGroups)
  BY <1>3 DEF AllGroups, PartitionInv, Partitioned
<1>5. Loaded' /\ TakenOnce'
  BY <1>2 DEF PartitionInv, Loaded, TakenOnce
<1>6. Partitioned'
  <2>1. AllGroups' = Append(AllGroups, <<>>)
    BY <1>2 DEF AllGroups
  <2>2. EachOnce(AllGroups') /\ \A x : Has(AllGroups', x) <=> Has(AllGroups, x)
    BY <1>4, <2>1, EmptyGroup
  <2>3. \A r \in registers : Waits(r)' <=> Waits(r)
    BY <1>2, <1>3 DEF Waits
  <2>4. \A r \in registers : Has(AllGroups, r) <=> ~Waits(r)
    BY DEF PartitionInv, Partitioned
  <2> QED BY <1>2, <2>2, <2>3, <2>4 DEF Partitioned
<1>7. FitTogether'
  <2>1. Len(<<>>) = 0 /\ MaxLoaded \in Nat
    BY GroupingAssumption
  <2>2. \A n \in 1..Len(groups') : Len(groups'[n]) <= MaxLoaded
    BY <1>2, GroupFits
  <2> QED BY <1>2, <2>1, <2>2 DEF FitTogether
<1> QED BY <1>1, <1>5, <1>6, <1>7 DEF PartitionInv

LEMMA StepPartition == PartitionInv /\ [GroupNext]_groupVars => PartitionInv'
<1> SUFFICES ASSUME PartitionInv, [GroupNext]_groupVars PROVE PartitionInv'
  OBVIOUS
<1>1. ASSUME NEW s \in slaves, TakeSlave(s) PROVE PartitionInv'
  BY <1>1, TakeSlavePartition
<1>2. CASE Extend
  BY <1>2, ExtendPartition
<1>3. CASE Cut
  BY <1>3, CutPartition
<1>4. CASE LastGroup
  BY <1>4, LastGroupPartition
<1>5. CASE UNCHANGED groupVars
  <2>1. GroupingInv'
    BY StepInv DEF PartitionInv
  <2>2. Loaded' /\ TakenOnce' /\ FitTogether'
    BY <1>5 DEF groupVars, PartitionInv, Loaded, TakenOnce, FitTogether
  <2>3. Partitioned'
    BY <1>5 DEF groupVars, PartitionInv, Partitioned, AllGroups, Waits
  <2> QED BY <2>1, <2>2, <2>3 DEF PartitionInv
<1> QED BY <1>1, <1>2, <1>3, <1>4, <1>5 DEF GroupNext

\* When the grouping is done, a loaded register has one place among the groups.
LEMMA OnePlace == PartitionInv => GroupsPartition
<1> SUFFICES ASSUME PartitionInv, Grouped, NEW r \in registers
             PROVE  Cardinality(PlacesOf(r)) = 1
  BY DEF GroupsPartition
<1>1. slaves = {} /\ regs = <<>> /\ current = <<>>
  BY DEF Grouped, PartitionInv, TakenOnce
<1>2. groups \in Seq(Seq(Registers)) /\ Len(groups) \in Nat /\ pos \in Nat \ {0}
  BY DEF PartitionInv, GroupingInv, Shape
<1>3. ~Waits(r)
  <2>1. Len(regs) = 0
    BY <1>1
  <2>2. \A k \in pos..Len(regs) : FALSE
    BY <1>2, <2>1
  <2> QED BY <1>1, <2>2 DEF Waits
<1>4. EachOnce(AllGroups) /\ Has(AllGroups, r)
  BY <1>3 DEF PartitionInv, Partitioned
<1>5. ASSUME NEW n \in Nat, NEW i \in Nat
      PROVE  /\ IsPlace(AllGroups, n, i) <=> IsPlace(groups, n, i)
             /\ IsPlace(groups, n, i) => AllGroups[n][i] = groups[n][i]
  <2>1. /\ AllGroups = Append(groups, <<>>) /\ <<>> \in Seq(Registers)
    BY <1>1 DEF AllGroups
  <2>2. /\ Len(AllGroups) = Len(groups) + 1
        /\ \A m \in 1..Len(groups) : AllGroups[m] = groups[m]
        /\ AllGroups[Len(groups) + 1] = <<>>
    BY <1>2, <2>1
  <2>3. CASE n \in 1..Len(groups)
    BY <1>2, <2>2, <2>3 DEF IsPlace
  <2>4. CASE n = Len(groups) + 1
    BY <1>2, <2>2, <2>4 DEF IsPlace
  <2>5. CASE n \notin 1..Len(groups) /\ n # Len(groups) + 1
    BY <1>2, <2>2, <2>5 DEF IsPlace
  <2> QED BY <2>3, <2>4, <2>5
<1>6. PICK n \in Nat, i \in Nat : IsPlace(groups, n, i) /\ groups[n][i] = r
  BY <1>4, <1>5 DEF Has
<1>7. \A m, j \in Nat : IsPlace(groups, m, j) /\ groups[m][j] = r => m = n /\ j = i
  BY <1>4, <1>5, <1>6 DEF EachOnce
<1>8. <<n, i>> \in PlacesOf(r)
  <2>1. n \in 1..Len(groups) /\ i \in 1..Len(groups[n]) /\ groups[n] \in Seq(Registers)
    BY <1>2, <1>6 DEF IsPlace
  <2>2. Len(groups[n]) <= MaxLoaded /\ MaxLoaded \in Nat /\ Len(groups[n]) \in Nat
    BY <2>1, GroupingAssumption DEF PartitionInv, FitTogether
  <2>3. i \in 1..MaxLoaded /\ i <= Len(groups[n])
    BY <2>1, <2>2
  <2> QED BY <1>6, <2>1, <2>3 DEF PlacesOf
<1>9. ASSUME NEW p \in PlacesOf(r) PROVE p = <<n, i>>
  <2>1. /\ p \in (1..Len(groups)) \X (1..MaxLoaded)
        /\ p[2] <= Len(groups[p[1]]) /\ groups[p[1]][p[2]] = r
    BY DEF PlacesOf
  <2>2. p[1] \in 1..Len(groups) /\ p[2] \in 1..MaxLoaded /\ p = <<p[1], p[2]>>
    BY <2>1
  <2>3. p[1] \in Nat /\ p[2] \in Nat /\ IsPlace(groups, p[1], p[2])
    <3>1. groups[p[1]] \in Seq(Registers) /\ Len(groups[p[1]]) \in Nat
      BY <1>2, <2>2
    <3> QED BY <1>2, <2>1, <2>2, <3>1, GroupingAssumption DEF IsPlace
  <2>4. p[1] = n /\ p[2] = i
    BY <1>7, <2>1, <2>3
  <2> QED BY <2>2, <2>4
<1>10. PlacesOf(r) = {<<n, i>>}
  BY <1>8, <1>9
<1> QED BY <1>10, FS_Singleton

\* The grouping loses no register and reads none twice, for every set of loaded
\* registers, whatever their addresses and quantities.
THEOREM GroupsPartitionRegisters == GroupSpec => []GroupsPartition
<1> QED BY InitPartition, StepPartition, OnePlace, PTL DEF GroupSpec

-----------------------------------------------------------------------------
(***************************************************************************)
(* The quantities of a group.  Induction over its registers is the choice  *)
(* of a smallest counterexample.                                           *)
(***************************************************************************)
\* A run stays with its slave and never goes back.
LEMMA RunAhead ==
    ASSUME NEW g \in Seq(Registers), OneRun(g)
    PROVE  \A k \in 1..Len(g) :
              g[k].slave = g[1].slave /\ g[1].address <= g[k].address
<1> DEFINE Behind == {k \in 1..Len(g) :
                        ~(g[k].slave = g[1].slave /\ g[1].address <= g[k].address)}
<1>1. \A k \in 1..Len(g) : g[k].address \in Nat /\ g[k].quantity \in Nat
  <2> SUFFICES ASSUME NEW k \in 1..Len(g)
               PROVE  g[k].address \in Nat /\ g[k].quantity \in Nat
    OBVIOUS
  <2>1. g[k] \in Registers
    OBVIOUS
  <2> QED BY <2>1, RegisterFacts
<1>2. Len(g) \in Nat
  OBVIOUS
<1>3. ASSUME Behind # {} PROVE FALSE
  <2>1. Behind \subseteq Nat
    OBVIOUS
  <2>2. PICK k \in Behind : \A j \in Behind : k <= j
    BY <1>3, <2>1, Least
  <2>3. k \in 2..Len(g)
    <3>1. k # 1
      BY <1>1, <2>2
    <3> QED BY <1>2, <2>2, <3>1
  <2>4. k - 1 \in 1..(Len(g) - 1) /\ k - 1 \in 1..Len(g) /\ ~(k <= k - 1) /\ (k - 1) + 1 = k
    BY <1>2, <2>3
  <2>5. g[k - 1].slave = g[1].slave /\ g[1].address <= g[k - 1].address
    BY <2>2, <2>4
  <2>6. /\ g[(k - 1) + 1].slave = g[k - 1].slave
        /\ g[(k - 1) + 1].address = g[k - 1].address + g[k - 1].quantity
    BY <2>4 DEF OneRun
  <2>7. 1 \in 1..Len(g) /\ k \in 1..Len(g)
    BY <1>2, <2>3
  <2>8. g[1].address \in Nat /\ g[k - 1].address \in Nat /\ g[k - 1].quantity \in Nat
    BY <1>1, <2>4, <2>7
  <2>9. g[1].address <= g[k].address /\ g[k].slave = g[1].slave
    BY <2>4, <2>5, <2>6, <2>8
  <2> QED BY <2>2, <2>9
<1> QED BY <1>3


\* totalQuantity is a uint16.
LEMMA TotalIsNat ==
    ASSUME NEW g \in Seq(Registers)
    PROVE  totalQuantity(g) \in Nat /\ totalQuantity(g) < AddressSpace
<1> DEFINE n == Len(g)
           S == 0..(AddressSpace - 1)
           step == [k \in 1..n |-> [s \in S |-> (s + g[k].quantity) % AddressSpace]]
           Sums(s) == [k \in 0..n |-> IF k = 0 THEN 0 ELSE (s[k - 1] + g[k].quantity) % AddressSpace]
           f == CHOOSE s : s = Sums(s)
<1>1. n \in Nat /\ AddressSpace \in Nat \ {0} /\ 0 \in S
  BY GroupingAssumption
<1>2. step \in [1..n -> [S -> S]]
  <2> SUFFICES ASSUME NEW s \in S, NEW k \in 1..n
               PROVE  (s + g[k].quantity) % AddressSpace \in S
    OBVIOUS
  <2>1. g[k] \in Registers
    OBVIOUS
  <2>2. g[k].quantity \in Nat /\ s \in Nat
    BY <1>1, <2>1, RegisterFacts
  <2>3. \A A \in Nat \ {0}, x \in Nat : x % A \in 0..(A - 1)
    OBVIOUS
  <2>4. s + g[k].quantity \in Nat
    BY <2>2
  <2> QED BY <1>1, <2>3, <2>4
<1>3. PICK h \in [0..n -> S] :
        h = [k \in 0..n |-> IF k = 0 THEN 0 ELSE step[k][h[k - 1]]]
  <2>1. n \in Nat /\ 0 \in S
    BY <1>1
  <2> HIDE DEF S, n, step, Sums, f
  <2>2. \E h \in [0..n -> S] : Recurses(h, n, 0, step)
    BY <1>2, <2>1, Recursion
  <2> QED BY <2>2 DEF Recurses
<1>4. h = Sums(h)
  <2>1. ASSUME NEW k \in 1..n PROVE step[k][h[k - 1]] = (h[k - 1] + g[k].quantity) % AddressSpace
    <3>1. k - 1 \in 0..n
      BY <1>1
    <3>2. h[k - 1] \in S
      BY <1>3, <3>1
    <3> HIDE DEF S, n
    <3> QED BY <3>2
  <2> HIDE DEF S, n, step
  <2>2. \A k \in 0..n : h[k] = Sums(h)[k]
    <3> SUFFICES ASSUME NEW k \in 0..n PROVE h[k] = Sums(h)[k]
      OBVIOUS
    <3>1. CASE k = 0
      BY <1>3, <3>1
    <3>2. CASE k # 0
      <4>1. k \in 1..n
        BY <1>1, <3>2
      <4> QED BY <1>3, <2>1, <3>2, <4>1
    <3> QED BY <3>1, <3>2
  <2> QED BY <1>3, <2>2
<1>5. f = Sums(f)
  <2> HIDE DEF Sums
  <2> QED BY <1>4
<1>6. totalQuantity(g) = f[n]
  BY DEF totalQuantity
<1> HIDE DEF f, S, step
<1> DEFINE Other == {k \in 0..n : f[k] # h[k]}
<1>7. ASSUME Other # {} PROVE FALSE
  <2>1. Other \subseteq Nat
    BY <1>1
  <2>2. PICK k \in Other : \A j \in Other : k <= j
    BY <1>7, <2>1, Least
  <2>3. k # 0
    BY <1>4, <1>5, <2>2
  <2>4. k - 1 \in 0..n /\ ~(k <= k - 1)
    BY <1>1, <2>2, <2>3
  <2>5. f[k - 1] = h[k - 1]
    BY <2>2, <2>4
  <2> QED BY <1>4, <1>5, <2>2, <2>3, <2>5
<1>8. f[n] = h[n] /\ h[n] \in S
  BY <1>1, <1>3, <1>7
<1> QED BY <1>1, <1>6, <1>8 DEF S

-----------------------------------------------------------------------------
(***************************************************************************)
(* The data of a reply and the registers it is cut up for.                 *)
(***************************************************************************)
\* While no quantity is too large to be doubled, the offset of a register in
\* the data is twice its distance from the beginning of the run.
LEMMA OffsetIsDistance ==
    ASSUME NEW g \in Seq(Registers), OneRun(g), NEW k \in 1..Len(g),
           \A j \in 1..k : 2 * g[j].quantity < AddressSpace
    PROVE  Offset(g, k) = 2 * (g[k].address - g[1].address)
<1> DEFINE Offsets(s) == [j \in 1..k |-> IF j = 1 THEN 0 ELSE s[j - 1] + expectedLength(g[j - 1])]
           distance == [j \in 1..k |-> 2 * (g[j].address - g[1].address)]
           f == CHOOSE s : s = Offsets(s)
<1>1. Len(g) \in Nat /\ k \in Nat \ {0} /\ \A j \in 1..k : j \in 1..Len(g)
  OBVIOUS
<1>2. \A j \in 1..k : /\ g[j].address \in Nat /\ g[j].quantity \in Nat
                      /\ expectedLength(g[j]) = 2 * g[j].quantity
  <2> SUFFICES ASSUME NEW j \in 1..k
               PROVE  /\ g[j].address \in Nat /\ g[j].quantity \in Nat
                      /\ expectedLength(g[j]) = 2 * g[j].quantity
    OBVIOUS
  <2>1. g[j] \in Registers
    BY <1>1
  <2>2. g[j].address \in Nat /\ g[j].quantity \in Nat
    BY <2>1, RegisterFacts
  <2>3. AddressSpace \in Nat \ {0} /\ 2 * g[j].quantity < AddressSpace /\ 2 * g[j].quantity \in Nat
    BY <2>2, GroupingAssumption
  <2>4. \A A \in Nat \ {0}, x \in Nat : x < A => x % A = x
    OBVIOUS
  <2>5. (2 * g[j].quantity) % AddressSpace = 2 * g[j].quantity
    BY <2>3, <2>4
  <2> QED BY <2>2, <2>5 DEF expectedLength
<1>3. \A j \in 2..k : /\ j - 1 \in 1..k
                      /\ g[j].address = g[j - 1].address + g[j - 1].quantity
  <2> SUFFICES ASSUME NEW j \in 2..k
               PROVE  j - 1 \in 1..k /\ g[j].address = g[j - 1].address + g[j - 1].quantity
    OBVIOUS
  <2>1. j - 1 \in 1..(Len(g) - 1) /\ j - 1 \in 1..k /\ (j - 1) + 1 = j
    BY <1>1
  <2>2. g[(j - 1) + 1].address = g[j - 1].address + g[j - 1].quantity
    BY <2>1 DEF OneRun
  <2> QED BY <2>1, <2>2
<1>4. \A j \in 2..k : distance[j] = distance[j - 1] + expectedLength(g[j - 1])
  <2> SUFFICES ASSUME NEW j \in 2..k
               PROVE  distance[j] = distance[j - 1] + expectedLength(g[j - 1])
    OBVIOUS
  <2>1. j \in 1..k /\ j - 1 \in 1..k /\ 1 \in 1..k
    BY <1>1, <1>3
  <2>2. /\ distance[j] = 2 * (g[j].address - g[1].address)
        /\ distance[j - 1] = 2 * (g[j - 1].address - g[1].address)
    BY <2>1
  <2>3. /\ g[j].address \in Nat /\ g[j - 1].address \in Nat /\ g[1].address \in Nat
        /\ g[j - 1].quantity \in Nat /\ expectedLength(g[j - 1]) = 2 * g[j - 1].quantity
        /\ g[j].address = g[j - 1].address + g[j - 1].quantity
    BY <1>2, <1>3, <2>1
  <2> DEFINE d == distance[j]  e == distance[j - 1]  l == expectedLength(g[j - 1])
             a == g[j].address  b == g[j - 1].address  c == g[1].address  q == g[j - 1].quantity
  <2>4. d = 2 * (a - c) /\ e = 2 * (b - c) /\ l = 2 * q /\ a = b + q
    BY <2>2, <2>3
  <2>5. a \in Nat /\ b \in Nat /\ c \in Nat /\ q \in Nat
    BY <2>3
  <2> HIDE DEF distance, d, e, l, a, b, c, q
  <2>6. d = e + l
    BY <2>4, <2>5
  <2> QED BY <2>6 DEF d, e, l
<1>5. distance[1] = 0
  BY <1>1, <1>2
<1>6. distance = Offsets(distance)
  <2>1. ASSUME NEW j \in 1..k PROVE distance[j] = Offsets(distance)[j]
    <3>1. CASE j = 1
      BY <1>5, <3>1
    <3>2. CASE j # 1
      <4>1. j \in 2..k
        BY <3>2
      <4> HIDE DEF distance
      <4> QED BY <1>4, <3>2, <4>1
    <3> QED BY <3>1, <3>2
  <2> QED BY <2>1
<1> HIDE DEF distance
<1>7. f = Offsets(f)
  <2> HIDE DEF Offsets
  <2> QED BY <1>6
<1>8. Offset(g, k) = f[k]
  BY DEF Offset
<1> HIDE DEF f
<1> DEFINE Other == {j \in 1..k : f[j] # distance[j]}
<1>9. ASSUME Other # {} PROVE FALSE
  <2>1. Other \subseteq Nat
    BY <1>1
  <2>2. PICK j \in Other : \A i \in Other : j <= i
    BY <1>9, <2>1, Least
  <2>3. j # 1
    BY <1>5, <1>7, <2>2
  <2>4. j \in 2..k /\ j - 1 \in 1..k /\ ~(j <= j - 1)
    BY <1>1, <2>2, <2>3
  <2>5. f[j - 1] = distance[j - 1]
    BY <2>2, <2>4
  <2>6. f[j] = f[j - 1] + expectedLength(g[j - 1])
    BY <1>7, <2>2, <2>3
  <2>7. f[j] = distance[j]
    BY <1>4, <2>4, <2>5, <2>6
  <2> QED BY <2>2, <2>7
<1>10. f[k] = distance[k]
  BY <1>1, <1>9
<1> QED BY <1>1, <1>8, <1>10 DEF distance

\* A part of what a device sends, by whole words, is what it sends for these.
IsPart(part, data, from, to) == part = SubSeq(data, from, to)

LEMMA CellsCut ==
    ASSUME NEW s, NEW t, NEW a \in Nat, NEW n \in Nat, NEW d \in Nat, NEW q \in Nat, d + q <= n,
           NEW from, NEW to, from = 2 * d + 1, to = 2 * d + 2 * q
    PROVE  IsPart(Cells(s, t, a + d, q), Cells(s, t, a, n), from, to)
<1> DEFINE byte(x, k) == Cell(s, t, x + (k - 1) \div 2)[IF k % 2 = 1 THEN 1 ELSE 2]
           whole == Cells(s, t, a, n)
           part == Cells(s, t, a + d, q)
           S == {byte(a, k) : k \in 1..(2 * n)}
<1>1. /\ whole = [k \in 1..(2 * n) |-> byte(a, k)]
      /\ part = [k \in 1..(2 * q) |-> byte(a + d, k)]
  BY DEF Cells
<1>2. \A k \in 1..(2 * q) : byte(a, k + 2 * d) = byte(a + d, k)
  <2> SUFFICES ASSUME NEW k \in 1..(2 * q) PROVE byte(a, k + 2 * d) = byte(a + d, k)
    OBVIOUS
  <2>1. k \in Nat
    OBVIOUS
  <2>2. (k + 2 * d - 1) \div 2 = d + (k - 1) \div 2 /\ (k + 2 * d) % 2 = k % 2
    BY <2>1
  <2>3. a + (k + 2 * d - 1) \div 2 = a + d + (k - 1) \div 2
    BY <2>1, <2>2
  <2> QED BY <2>2, <2>3
<1> HIDE DEF byte
<1>3. whole \in Seq(S) /\ Len(whole) = 2 * n
  <2> HIDE DEF whole
  <2>1. 2 * n \in Nat /\ whole \in [1..(2 * n) -> S]
    BY <1>1
  <2> DEFINE m == 2 * n
  <2>2. m \in Nat /\ whole \in [1..m -> S]
    BY <2>1
  <2> HIDE DEF m, S
  <2>3. whole \in Seq(S) /\ Len(whole) = m
    BY <2>2
  <2> QED BY <2>3 DEF m
<1> HIDE DEF whole, part, S
<1>4. from \in Nat /\ to \in Nat /\ from >= 1 /\ to <= 2 * n /\ to - from + 1 = 2 * q
  OBVIOUS
<1>5. /\ SubSeq(whole, from, to) = [i \in 1..(to - from + 1) |-> whole[i + from - 1]]
  BY <1>3, <1>4
<1>6. \A i \in 1..(2 * q) : whole[i + from - 1] = part[i]
  <2> SUFFICES ASSUME NEW i \in 1..(2 * q) PROVE whole[i + from - 1] = part[i]
    OBVIOUS
  <2>1. i + from - 1 = i + 2 * d /\ i + 2 * d \in 1..(2 * n)
    BY <1>4
  <2> QED BY <1>1, <1>2, <2>1
<1>7. SubSeq(whole, from, to) = [i \in 1..(2 * q) |-> part[i]]
  BY <1>4, <1>5, <1>6
<1>8. part = [i \in 1..(2 * q) |-> part[i]]
  BY <1>1
<1>9. SubSeq(whole, from, to) = part
  BY <1>7, <1>8
<1> QED BY <1>9 DEF whole, part, IsPart

\* What Slices says of a register that it marks valid.
LEMMA ValidSlice ==
    ASSUME NEW g \in Seq(Registers), NEW data, NEW k \in 1..Len(g),
           Slices(g, data).status[k] = "VALID"
    PROVE  /\ Fits(g, k, data)
           /\ Slices(g, data).value[k] =
                SubSeq(data, Offset(g, k) + 1, Offset(g, k) + expectedLength(g[k]))
<1> DEFINE reached == {i \in DOMAIN g : \A j \in 1..(i - 1) : Fits(g, j, data)}
           valid == {i \in reached : Fits(g, i, data)}
           slice(i) == SubSeq(data, Offset(g, i) + 1, Offset(g, i) + expectedLength(g[i]))
           status == [i \in DOMAIN g |-> IF i \in valid THEN "VALID"
                                         ELSE IF i \in reached THEN "INVALID" ELSE "unread"]
           value == [i \in DOMAIN g |-> IF i \in valid THEN slice(i) ELSE <<>>]
<1>1. Slices(g, data).status = status /\ Slices(g, data).value = value
  BY DEF Slices
<1>2. k \in DOMAIN g
  OBVIOUS
<1>3. k \in valid
  <2>1. status[k] = IF k \in valid THEN "VALID" ELSE IF k \in reached THEN "INVALID" ELSE "unread"
    BY <1>2
  <2> HIDE DEF status, valid, reached
  <2> QED BY <1>1, <2>1
<1>4. Fits(g, k, data)
  BY <1>3
<1>5. value[k] = slice(k)
  <2> HIDE DEF valid, slice
  <2> QED BY <1>2, <1>3
<1> QED BY <1>1, <1>4, <1>5

\* A register marked valid in a group that was read whole has its own bytes.
LEMMA ValidIsOwn ==
    ASSUME NEW g \in Seq(Registers), OneRun(g), NEW k \in 1..Len(g), NEW t, NEW data,
           data = Cells(g[1].slave, t, g[1].address, totalQuantity(g)),
           Slices(g, data).status[k] = "VALID",
           \A j \in 1..k : 2 * g[j].quantity < AddressSpace
    PROVE  Slices(g, data).value[k] = Cells(g[k].slave, t, g[k].address, g[k].quantity)
<1> DEFINE d == g[k].address - g[1].address
           q == g[k].quantity
           n == totalQuantity(g)
           a == g[1].address
<1>1. a \in Nat /\ g[k].address \in Nat /\ q \in Nat /\ n \in Nat
  <2>1. 1 \in 1..Len(g) /\ g[1] \in Registers /\ g[k] \in Registers
    OBVIOUS
  <2> QED BY <2>1, RegisterFacts, TotalIsNat
<1>2. g[k].slave = g[1].slave /\ d \in Nat /\ a + d = g[k].address
  <2>1. g[k].slave = g[1].slave /\ g[1].address <= g[k].address
    BY RunAhead
  <2> QED BY <1>1, <2>1
<1>3. Offset(g, k) = 2 * d
  BY OffsetIsDistance
<1>4. expectedLength(g[k]) = 2 * q
  <2>1. AddressSpace \in Nat \ {0} /\ 2 * q < AddressSpace /\ 2 * q \in Nat
    <3>1. k \in 1..k
      OBVIOUS
    <3> QED BY <1>1, <3>1, GroupingAssumption
  <2>2. \A A \in Nat \ {0}, x \in Nat : x < A => x % A = x
    OBVIOUS
  <2>3. (2 * q) % AddressSpace = 2 * q
    BY <2>1, <2>2
  <2> QED BY <2>3 DEF expectedLength
<1> HIDE DEF d, q, n, a
<1>5. Len(data) = 2 * n
  <2> DEFINE m == 2 * n
             S == {data[i] : i \in 1..m}
  <2>1. data = Cells(g[1].slave, t, a, n)
    BY DEF a, n
  <2>2. m \in Nat /\ data \in [1..m -> S]
    <3>1. \E byte : data = [i \in 1..m |-> byte[i]]
      <4> DEFINE byte == [i \in 1..m |-> data[i]]
      <4>1. data = byte
        BY <2>1 DEF Cells
      <4> QED BY <4>1
    <3> QED BY <1>1, <3>1
  <2> HIDE DEF m, S
  <2>3. Len(data) = m
    BY <2>2
  <2> QED BY <2>3 DEF m
<1>6. d + q <= n
  <2>1. Offset(g, k) + expectedLength(g[k]) <= Len(data)
    BY ValidSlice DEF Fits
  <2> QED BY <1>1, <1>2, <1>3, <1>4, <1>5, <2>1 
<1> DEFINE from == Offset(g, k) + 1
           to == Offset(g, k) + expectedLength(g[k])
<1>7. from = 2 * d + 1 /\ to = 2 * d + 2 * q
  BY <1>3, <1>4
<1>8. Slices(g, data).value[k] = SubSeq(data, from, to)
  BY ValidSlice
<1>9. data = Cells(g[1].slave, t, a, n)
  BY DEF a, n
<1>10. g[k].slave = g[1].slave /\ g[k].address = a + d /\ g[k].quantity = q
  BY <1>2 DEF q
<1> HIDE DEF from, to
<1>11. SubSeq(Cells(g[1].slave, t, a, n), from, to) = Cells(g[1].slave, t, g[k].address, q)
  <2>1. IsPart(Cells(g[1].slave, t, a + d, q), Cells(g[1].slave, t, a, n), from, to)
    BY <1>1, <1>2, <1>6, <1>7, CellsCut
  <2> QED BY <1>10, <2>1 DEF IsPart
<1> QED BY <1>8, <1>9, <1>10, <1>11

-----------------------------------------------------------------------------
(***************************************************************************)
(* The inductive invariant.  The reader has made something of the first of *)
(* the groups, and the call in progress, or the last one if it succeeded,  *)
(* is that of the next: so the data it cuts up are those of its group.     *)
(* While nothing is loaded there is no group, and the client is free for   *)
(* other calls.                                                            *)
(***************************************************************************)
NothingLoaded == registers = {} => slaves = {} /\ regs = <<>> /\ groups = <<>>

ReadingsBehind == IsSequence(readings) /\ Len(readings) <= Len(groups)

ReadsNextGroup ==
    reading =>
        /\ NextGroup <= Len(groups)
        /\ groups[NextGroup][1].function \in 1..4
        /\ (calling # NoCall) => calling = GroupCall(groups[NextGroup])
        /\ outcome.ok => outcome.call = GroupCall(groups[NextGroup])

\* What ReadsDevice says of one group and what was made of it.
OwnData(g, x) ==
    \A k \in DOMAIN g :
        x.own /\ x.status[k] = "VALID" /\ g[1].function \in 3..4
            /\ (\A j \in 1..k : 2 * g[j].quantity < AddressSpace)
        => x.value[k] = Cells(g[k].slave, g[1].function, g[k].address, g[k].quantity)

ReaderInv == NothingLoaded /\ ReadingsBehind /\ ReadsNextGroup /\ ReadsDevice

LEMMA ReadsDeviceByGroup == ReadsDevice <=> \A n \in DOMAIN readings : OwnData(groups[n], readings[n])
  BY DEF ReadsDevice, OwnData

LEMMA GroupAt ==
    ASSUME GroupingInv, NEW n \in 1..Len(groups)
    PROVE  groups[n] \in Seq(Registers) /\ groups[n] # <<>> /\ OneRun(groups[n])
<1>1. groups \in Seq(Seq(Registers)) /\ OneRun(groups[n])
  BY DEF GroupingInv, Shape, GroupsContiguous
<1> QED BY <1>1 DEF OneRun

\* The grouping only adds groups.
LEMMA GroupsGrow ==
    ASSUME GroupingInv, [GroupNext]_groupVars
    PROVE  /\ Len(groups) \in Nat /\ Len(groups') \in Nat /\ Len(groups) <= Len(groups')
           /\ \A n \in 1..Len(groups) : groups'[n] = groups[n]
<1>1. groups \in Seq(Seq(Registers)) /\ current \in Seq(Registers)
  BY DEF GroupingInv, Shape
<1>2. groups' = groups \/ groups' = Append(groups, current)
  BY DEF GroupNext, groupVars, TakeSlave, Extend, Cut, LastGroup
<1> QED BY <1>1, <1>2

\* The call for a group is one of the client's.
LEMMA GroupCallIsCall ==
    ASSUME NEW g \in Seq(Registers), g # <<>>, g[1].function \in 1..4
    PROVE  /\ IsCall(GroupCall(g))
           /\ g[1].function \in 3..4 =>
                /\ GroupCall(g).op \in WordReads
                /\ g[1].function = IF GroupCall(g).op = "ReadInputRegisters" THEN 4 ELSE 3
           /\ GroupCall(g).slave = g[1].slave
           /\ GroupCall(g).words[1] = g[1].address /\ GroupCall(g).words[2] = totalQuantity(g)
<1> DEFINE c == GroupCall(g)
           f == g[1].function
           ws == <<g[1].address, totalQuantity(g)>>
<1>1. c.op = ReadFunctions[f] /\ c.words = ws /\ c.bytes = <<>> /\ c.slave = g[1].slave
  BY DEF GroupCall
<1>2. g[1].address \in Nat /\ totalQuantity(g) \in Nat
  <2>1. g[1] \in Registers
    OBVIOUS
  <2> QED BY <2>1, RegisterFacts, TotalIsNat
<1>3. ws \in Seq(Nat) /\ Len(ws) = 2
  BY <1>2
<1>4. /\ f = 1 => ReadFunctions[f] = "ReadCoils"
      /\ f = 2 => ReadFunctions[f] = "ReadDiscreteInputs"
      /\ f = 3 => ReadFunctions[f] = "ReadHoldingRegisters"
      /\ f = 4 => ReadFunctions[f] = "ReadInputRegisters"
  BY DEF ReadFunctions
<1>5. f \in 1..4
  OBVIOUS
<1> HIDE DEF c, f, ws
<1>6. c.op \in DOMAIN Code /\ c.op # "ReadWriteMultipleRegisters"
  BY <1>1, <1>4, <1>5 DEF Code
<1>7. IsCall(c)
  <2>1. c.bytes \in Seq(Nat)
    BY <1>1
  <2> QED BY <1>1, <1>3, <1>6, <2>1 DEF IsCall
<1>8. f \in 3..4 => c.op \in WordReads /\ f = IF c.op = "ReadInputRegisters" THEN 4 ELSE 3
  BY <1>1, <1>4 DEF WordReads
<1>9. c.words[1] = g[1].address /\ c.words[2] = totalQuantity(g)
  BY <1>1 DEF ws
<1> QED BY <1>1, <1>7, <1>8, <1>9 DEF c, f

-----------------------------------------------------------------------------
\* To the client, a step of the reader or of the line is one of its own, or a
\* call that it allows.
LEMMA ReaderCalls ==
    ASSUME GroupingInv, ReadingsBehind, [ReadNext]_readVars
    PROVE  [ClientNext]_clientVars \/ \E c : IsCall(c) /\ (Begin(c) \/ Refuse(c))
<1>1. CASE StartGroup
  <2> DEFINE g == groups[NextGroup]
             c == GroupCall(g)
  <2>1. /\ NextGroup <= Len(groups) /\ g[1].function \in 1..4
        /\ Begin(c) \/ Refuse(c)
    BY <1>1 DEF StartGroup, ReadyToRead
  <2>2. NextGroup \in 1..Len(groups)
    <3>1. Len(readings) \in Nat
      <4>1. PICK S : readings \in Seq(S)
        BY DEF ReadingsBehind, IsSequence
      <4> QED BY <4>1
    <3>2. Len(groups) \in Nat
      BY DEF GroupingInv, Shape
    <3> QED BY <2>1, <3>1, <3>2 DEF NextGroup
  <2>3. g \in Seq(Registers) /\ g # <<>>
    BY <2>2, GroupAt
  <2> HIDE DEF g
  <2>4. IsCall(c)
    BY <2>1, <2>3, GroupCallIsCall
  <2> HIDE DEF c
  <2> QED BY <2>1, <2>4
<1>2. [ReadNext]_readVars => StartGroup \/ [ClientNext]_clientVars
  BY DEF ReadNext, readVars, Group, SkipGroup, FinishGroup, CallClient, OnTheLine, ClientNext
<1> QED BY <1>1, <1>2

LEMMA ConfirmedKept ==
    ASSUME GroupingInv, ReadingsBehind, ConfirmedInv, [ReadNext]_readVars
    PROVE  ConfirmedInv'
BY ReaderCalls, ConfirmedNext, BeginStep, RefuseStep

LEMMA ClientKept ==
    ASSUME GroupingInv, ReadingsBehind, ConfirmedInv, WholeInv, [ReadNext]_readVars
    PROVE  ConfirmedInv' /\ WholeInv'
BY ReaderCalls, ConfirmedKept, WholeNext, BeginKeepsWhole, RefuseKeepsWhole

\* And a step of the grouping.
LEMMA GroupStepOfRead == [ReadNext]_readVars => [GroupNext]_groupVars
  BY DEF ReadNext, readVars, Group, StartGroup, SkipGroup, FinishGroup, CallClient, OnTheLine

-----------------------------------------------------------------------------
LEMMA NothingStaysLoaded ==
    ASSUME NothingLoaded, GroupingInv, [GroupNext]_groupVars
    PROVE  NothingLoaded'
<1>1. registers' = registers
  BY DEF GroupNext, groupVars, TakeSlave, Extend, Cut, LastGroup
<1>2. CASE registers = {}
  <2>1. slaves = {} /\ regs = <<>> /\ groups = <<>>
    BY <1>2 DEF NothingLoaded
  <2>2. UNCHANGED groupVars
    BY <2>1 DEF GroupNext, Extend, Cut, LastGroup
  <2> QED BY <2>1, <2>2 DEF NothingLoaded, groupVars
<1> QED BY <1>1, <1>2 DEF NothingLoaded

\* Nothing is made of another group, while the groups grow.
LEMMA ReadingsStay ==
    ASSUME GroupingInv, [GroupNext]_groupVars, ReadingsBehind, ReadsDevice, readings' = readings
    PROVE  ReadingsBehind' /\ ReadsDevice'
<1>1. /\ Len(groups) \in Nat /\ Len(groups') \in Nat /\ Len(groups) <= Len(groups')
      /\ \A n \in 1..Len(groups) : groups'[n] = groups[n]
  BY GroupsGrow
<1>2. Len(readings) \in Nat /\ DOMAIN readings = 1..Len(readings)
  <2>1. PICK S : readings \in Seq(S)
    BY DEF ReadingsBehind, IsSequence
  <2> QED BY <2>1
<1>3. ReadingsBehind'
  BY <1>1, <1>2 DEF ReadingsBehind
<1>4. \A n \in DOMAIN readings : n \in 1..Len(groups) /\ OwnData(groups[n], readings[n])
  BY <1>1, <1>2, ReadsDeviceByGroup DEF ReadingsBehind
<1>5. \A n \in DOMAIN readings : groups'[n] = groups[n]
  BY <1>1, <1>4
<1>6. \A n \in DOMAIN readings' : LET g == groups'[n] IN OwnData(g, readings'[n])
  BY <1>4, <1>5
<1>7. ReadsDevice'
  BY <1>6 DEF OwnData, ReadsDevice
<1> QED BY <1>3, <1>7

\* Something is made of the next group.
LEMMA ReadingsGrow ==
    ASSUME ReadingsBehind, ReadsDevice, GroupingInv, NextGroup <= Len(groups),
           groups' = groups, NEW x, readings' = Append(readings, x), OwnData(groups[NextGroup], x)
    PROVE  ReadingsBehind' /\ ReadsDevice'
<1>1. Len(readings) \in Nat /\ DOMAIN readings = 1..Len(readings) /\ Len(groups) \in Nat
  <2>1. PICK S : readings \in Seq(S)
    BY DEF ReadingsBehind, IsSequence
  <2> QED BY <2>1 DEF GroupingInv, Shape
<1> DEFINE more == Append(readings, x)
<1>2. /\ IsSequence(more)
      /\ Len(more) = Len(readings) + 1 /\ DOMAIN more = 1..(Len(readings) + 1)
      /\ \A n \in 1..Len(readings) : more[n] = readings[n]
      /\ more[Len(readings) + 1] = x
  <2>1. PICK S : readings \in Seq(S)
    BY DEF ReadingsBehind, IsSequence
  <2>2. readings \in Seq(S \cup {x}) /\ more \in Seq(S \cup {x})
    BY <2>1
  <2>3. /\ Len(more) = Len(readings) + 1 
        /\ \A n \in 1..Len(readings) : more[n] = readings[n]
        /\ more[Len(readings) + 1] = x
    BY <2>2
  <2>4. DOMAIN more = 1..Len(more)
    BY <2>2
  <2> QED BY <2>2, <2>3, <2>4 DEF IsSequence
<1>3. readings' = more
  OBVIOUS
<1> HIDE DEF more
<1>4. ReadingsBehind'
  BY <1>1, <1>2, <1>3 DEF ReadingsBehind, NextGroup
<1>5. \A n \in DOMAIN readings : OwnData(groups[n], readings[n])
  BY ReadsDeviceByGroup
<1>6. \A n \in DOMAIN more : OwnData(groups[n], more[n])
  <2> SUFFICES ASSUME NEW n \in DOMAIN more PROVE OwnData(groups[n], more[n])
    OBVIOUS
  <2>1. CASE n = Len(readings) + 1
    BY <1>2, <2>1 DEF NextGroup
  <2>2. CASE n # Len(readings) + 1
    <3>1. n \in 1..Len(readings)
      BY <1>1, <1>2, <2>2
    <3> QED BY <1>1, <1>2, <1>5, <3>1
  <2> QED BY <2>1, <2>2
<1>7. ReadsDevice'
  BY <1>3, <1>6 DEF OwnData, ReadsDevice
<1> QED BY <1>4, <1>7

-----------------------------------------------------------------------------
\* What the line can do to the call in progress.
LEMMA LineStep ==
    ASSUME LineNext
    PROVE  \/ calling' = calling /\ outcome' = outcome
           \/ calling # NoCall /\ calling' = NoCall /\ outcome'.call = calling
<1>1. ASSUME NEW ok, NEW data, NEW objects, Return(ok, data, objects)
      PROVE  calling' = NoCall /\ outcome'.call = calling
  BY <1>1 DEF Return
<1>2. CASE Receive
  <2> DEFINE a == Head(answers)
  <2>1. calling # NoCall /\ Accept(a)
    BY <1>2 DEF Receive, Accept
  <2> HIDE DEF a
  <2>2. \/ \E ok, data, objects : Return(ok, data, objects)
        \/ UNCHANGED <<calling, outcome>>
    <3>1. Fail \/ Identify(a.data) \/ Return(TRUE, Results(calling, a.data), {})
      BY <2>1, Zenon DEF Accept
    <3>2. Identify(a.data) =>
            \/ Fail \/ UNCHANGED <<calling, outcome>>
            \/ \E ok, objects : Return(ok, <<>>, objects)
      BY Zenon DEF Identify
    <3>3. Fail => \E ok, data, objects : Return(ok, data, objects)
      BY DEF Fail
    <3> QED BY <3>1, <3>2, <3>3
  <2> QED BY <1>1, <2>1, <2>2
<1>3. CASE ReceiveUnusable \/ Timeout
  BY <1>1, <1>3 DEF ReceiveUnusable, Timeout, Fail
<1>4. CASE Execute \/ Except \/ LoseRequest \/ LoseAnswer
  BY <1>4 DEF Execute, Except, Answered, LoseRequest, LoseAnswer
<1> QED BY <1>2, <1>3, <1>4 DEF LineNext

\* A read of a group that begins has not ended.
LEMMA BegunOrRefused ==
    ASSUME NEW c, Begin(c) \/ Refuse(c)
    PROVE  ~outcome'.ok /\ (calling' # NoCall => calling' = c)
<1>1. CASE Begin(c)
  BY <1>1 DEF Begin, NoOutcome
<1>2. CASE Refuse(c)
  BY <1>2 DEF Refuse, NoOutcome
<1> QED BY <1>1, <1>2

\* A successful read of a group: its valid registers have their own data.
LEMMA FinishedOwn ==
    ASSUME NEW g \in Seq(Registers), g # <<>>, OneRun(g), g[1].function \in 1..4,
           ResultsAreWhole, outcome.ok, outcome.call = GroupCall(g)
    PROVE  OwnData(g, Slices(g, outcome.data))
<1> DEFINE c == GroupCall(g)
           t == g[1].function
           x == Slices(g, outcome.data)
<1>1. x.own = clean /\ DOMAIN g = 1..Len(g)
  BY DEF Slices
<1>2. ASSUME NEW k \in DOMAIN g, x.own, x.status[k] = "VALID", t \in 3..4,
             \A j \in 1..k : 2 * g[j].quantity < AddressSpace
      PROVE  x.value[k] = Cells(g[k].slave, t, g[k].address, g[k].quantity)
  <2>1. /\ c.op \in WordReads /\ t = IF c.op = "ReadInputRegisters" THEN 4 ELSE 3
        /\ c.slave = g[1].slave /\ c.words[1] = g[1].address /\ c.words[2] = totalQuantity(g)
    BY <1>2, GroupCallIsCall
  <2> HIDE DEF c
  <2>2. outcome.data = Cells(c.slave, IF c.op = "ReadInputRegisters" THEN 4 ELSE 3,
                             c.words[1], c.words[2])
    BY <1>1, <1>2, <2>1 DEF ResultsAreWhole, c
  <2> DEFINE data == outcome.data
  <2>3. data = Cells(g[1].slave, t, g[1].address, totalQuantity(g))
    BY <2>1, <2>2
  <2> HIDE DEF t
  <2>4. k \in 1..Len(g) /\ Slices(g, data).status[k] = "VALID"
    BY <1>1, <1>2
  <2> HIDE DEF data
  <2>5. Slices(g, data).value[k] = Cells(g[k].slave, t, g[k].address, g[k].quantity)
    BY <1>2, <2>3, <2>4, ValidIsOwn
  <2> QED BY <2>5 DEF data
<1> HIDE DEF x
<1> QED BY <1>2 DEF OwnData, x

LEMMA ReaderInit == ReadInit => ReaderInv
<1> SUFFICES ASSUME ReadInit PROVE ReaderInv
  OBVIOUS
<1>1. readings = <<>> /\ groups = <<>> /\ ~reading /\ regs = <<>>
  BY DEF ReadInit, GroupInit
<1>2. registers = {} => slaves = {}
  BY DEF ReadInit, GroupInit
<1>3. IsSequence(<<>>) /\ Len(<<>>) = 0 /\ DOMAIN <<>> = {}
  <2>1. <<>> \in Seq({})
    OBVIOUS
  <2> QED BY <2>1 DEF IsSequence
<1> QED BY <1>1, <1>2, <1>3 DEF ReaderInv, NothingLoaded, ReadingsBehind, ReadsNextGroup, ReadsDevice

LEMMA ReaderNext ==
    ASSUME GroupingInv, WholeInv, ReaderInv, [ReadNext]_readVars
    PROVE  ReaderInv'
<1> USE DEF ReaderInv
<1> DEFINE g == groups[NextGroup]
<1>1. NothingLoaded'
  BY NothingStaysLoaded, GroupStepOfRead
<1>2. ASSUME NextGroup <= Len(groups)
      PROVE  NextGroup \in 1..Len(groups) /\ g \in Seq(Registers) /\ g # <<>> /\ OneRun(g)
  <2>1. Len(readings) \in Nat /\ Len(groups) \in Nat
    <3>1. PICK S : readings \in Seq(S)
      BY DEF ReadingsBehind, IsSequence
    <3> QED BY <3>1 DEF GroupingInv, Shape
  <2>2. NextGroup \in 1..Len(groups)
    BY <1>2, <2>1 DEF NextGroup
  <2> QED BY <2>2, GroupAt
<1>3. CASE readings' = readings /\ [GroupNext]_groupVars /\ reading' = reading
           /\ (reading => \/ calling' = calling /\ outcome' = outcome
                          \/ calling # NoCall /\ calling' = NoCall /\ outcome'.call = calling)
  <2>1. ReadingsBehind' /\ ReadsDevice'
    BY <1>3, ReadingsStay
  <2>2. ReadsNextGroup'
    <3> SUFFICES ASSUME reading
                 PROVE  /\ NextGroup <= Len(groups')
                        /\ groups'[NextGroup][1].function \in 1..4
                        /\ (calling' # NoCall) => calling' = GroupCall(groups'[NextGroup])
                        /\ outcome'.ok => outcome'.call = GroupCall(groups'[NextGroup])
      BY <1>3 DEF ReadsNextGroup, NextGroup, GroupCall, totalQuantity
    <3>1. /\ NextGroup <= Len(groups) /\ g[1].function \in 1..4
          /\ (calling # NoCall) => calling = GroupCall(g)
          /\ outcome.ok => outcome.call = GroupCall(g)
      BY DEF ReadsNextGroup
    <3>2. /\ Len(groups) \in Nat /\ Len(groups') \in Nat /\ Len(groups) <= Len(groups')
          /\ \A n \in 1..Len(groups) : groups'[n] = groups[n]
      BY <1>3, GroupsGrow
    <3>3. NextGroup \in 1..Len(groups) /\ groups'[NextGroup] = g
      BY <1>2, <3>1, <3>2
    <3>4. NextGroup <= Len(groups')
      BY <3>2, <3>3
    <3> HIDE DEF g
    <3> QED BY <1>3, <3>1, <3>3, <3>4
  <2> QED BY <1>1, <2>1, <2>2
<1>4. CASE StartGroup
  <2>1. /\ NextGroup <= Len(groups) /\ g[1].function \in 1..4
        /\ Begin(GroupCall(g)) \/ Refuse(GroupCall(g))
        /\ groups' = groups /\ readings' = readings
    BY <1>4 DEF StartGroup, ReadyToRead, groupVars
  <2>2. ~outcome'.ok /\ (calling' # NoCall => calling' = GroupCall(g))
    <3> DEFINE c == GroupCall(g)
    <3>1. Begin(c) \/ Refuse(c)
      BY <2>1
    <3> HIDE DEF c
    <3>2. ~outcome'.ok /\ (calling' # NoCall => calling' = c)
      BY <3>1, BegunOrRefused
    <3> QED BY <3>2 DEF c
  <2>3. ReadingsBehind' /\ ReadsDevice'
    <3>1. [GroupNext]_groupVars
      BY <1>4 DEF StartGroup
    <3> QED BY <2>1, <3>1, ReadingsStay
  <2>4. ReadsNextGroup'
    BY <2>1, <2>2 DEF ReadsNextGroup, NextGroup
  <2> QED BY <1>1, <2>3, <2>4
<1>5. CASE SkipGroup
  <2>1. /\ NextGroup <= Len(groups) /\ groups' = groups /\ ~reading'
        /\ readings' = Append(readings, Unread(g))
    BY <1>5 DEF SkipGroup, ReadyToRead, groupVars
  <2>2. OwnData(g, Unread(g))
    <3>1. ~Unread(g).own
      BY DEF Unread
    <3> QED BY <3>1 DEF OwnData
  <2>3. ReadingsBehind' /\ ReadsDevice'
    BY <2>1, <2>2, ReadingsGrow
  <2> QED BY <1>1, <2>1, <2>3 DEF ReadsNextGroup
<1>6. CASE FinishGroup
  <2> DEFINE x == IF outcome.ok THEN Slices(g, outcome.data) ELSE Failed(g)
  <2>1. /\ reading /\ ~reading' /\ groups' = groups /\ readings' = Append(readings, x)
    BY <1>6 DEF FinishGroup, groupVars
  <2>2. /\ NextGroup <= Len(groups) /\ g[1].function \in 1..4
        /\ outcome.ok => outcome.call = GroupCall(g)
    BY <2>1 DEF ReadsNextGroup
  <2>3. g \in Seq(Registers) /\ g # <<>> /\ OneRun(g)
    BY <1>2, <2>2
  <2>4. OwnData(g, x)
    <3>1. CASE outcome.ok
      <4> HIDE DEF g
      <4>1. OwnData(g, Slices(g, outcome.data))
        BY <2>2, <2>3, <3>1, FinishedOwn DEF WholeInv
      <4> QED BY <3>1, <4>1
    <3>2. CASE ~outcome.ok
      <4>1. ~Failed(g).own
        BY DEF Failed, Unread
      <4> QED BY <3>2, <4>1 DEF OwnData
    <3> QED BY <3>1, <3>2
  <2> HIDE DEF x
  <2>5. ReadingsBehind' /\ ReadsDevice'
    BY <2>1, <2>2, <2>4, ReadingsGrow
  <2> QED BY <1>1, <2>1, <2>5 DEF ReadsNextGroup
<1>7. CASE Group
  <2>1. GroupNext /\ UNCHANGED <<calling, outcome, reading, readings>>
    BY <1>7 DEF Group, clientVars
  <2> QED BY <1>3, <2>1
<1>8. CASE CallClient
  <2>1. registers = {} /\ UNCHANGED <<groupVars, reading, readings>>
    BY <1>8 DEF CallClient
  <2>2. ~reading
    <3>1. groups = <<>> /\ Len(<<>>) = 0
      BY <2>1 DEF NothingLoaded
    <3>2. ~(NextGroup <= Len(groups))
      <4>1. ~(1 <= 0)
        OBVIOUS
      <4>2. NextGroup <= Len(groups) => NextGroup \in 1..0
        BY <1>2, <3>1
      <4> QED BY <4>2
    <3> QED BY <3>2 DEF ReadsNextGroup
  <2> QED BY <1>3, <2>1, <2>2
<1>9. CASE OnTheLine(LineNext)
  <2>1. LineNext /\ UNCHANGED <<groupVars, reading, readings>>
    BY <1>9 DEF OnTheLine
  <2> QED BY <1>3, <2>1, LineStep
<1>10. CASE UNCHANGED readVars
  <2>1. UNCHANGED <<groupVars, calling, outcome, reading, readings>>
    BY <1>10 DEF readVars, clientVars
  <2> QED BY <1>3, <2>1
<1> QED BY <1>4, <1>5, <1>6, <1>7, <1>8, <1>9, <1>10 DEF ReadNext

\* A register of words that readGroup marks valid has the bytes its own device
\* keeps at its own address, in the table of its group's first register, whatever
\* was loaded and whatever happens on the line, if the line was empty when its
\* group was read and no register of the run up to it is too long for a uint16 to
\* count its bytes.
THEOREM ReadingsAreTheDevices == ReadSpec => []ReadsDevice
<1>1. ReadInit => GroupingInv /\ ConfirmedInv /\ WholeInv /\ ReaderInv
  BY InitInv, ConfirmedInit, WholeInit, ReaderInit DEF ReadInit
<1>2. GroupingInv /\ [ReadNext]_readVars => GroupingInv'
  BY StepInv, GroupStepOfRead
<1>3. /\ GroupingInv /\ ReaderInv /\ ConfirmedInv /\ WholeInv
      /\ [ReadNext]_readVars
      => ConfirmedInv' /\ WholeInv'
  BY ClientKept DEF ReaderInv
<1>4. GroupingInv /\ WholeInv /\ ReaderInv /\ [ReadNext]_readVars => ReaderInv'
  BY ReaderNext
<1>5. ReaderInv => ReadsDevice
  BY DEF ReaderInv
<1> QED BY <1>1, <1>2, <1>3, <1>4, <1>5, PTL DEF ReadSpec

-----------------------------------------------------------------------------
(***************************************************************************)
(* Decoding.  Every order is its own inverse, which is why the code may    *)
(* use it in either direction.                                             *)
(***************************************************************************)
LEMMA OrdersInvert ==
    ASSUME NEW order \in Orders
    PROVE  /\ Len(order) \in Nat
           /\ order \in [1..Len(order) -> 1..Len(order)]
           /\ \A k \in 1..Len(order) : order[order[k]] = k
<1>1. CASE order \in {<<1>>, <<1, 2>>, <<2, 1>>}
  BY <1>1
<1>2. CASE order = <<1, 2, 3, 4>>
  BY <1>2
<1>3. CASE order = <<4, 3, 2, 1>>
  BY <1>3
<1>4. CASE order = <<2, 1, 4, 3>>
  BY <1>4
<1>5. CASE order = <<3, 4, 1, 2>>
  BY <1>5
<1>6. CASE order = <<1, 2, 3, 4, 5, 6, 7, 8>>
  BY <1>6
<1>7. CASE order = <<8, 7, 6, 5, 4, 3, 2, 1>>
  BY <1>7
<1>8. CASE order = <<2, 1, 4, 3, 6, 5, 8, 7>>
  BY <1>8
<1>9. CASE order = <<7, 8, 5, 6, 3, 4, 1, 2>>
  BY <1>9
<1> QED BY <1>1, <1>2, <1>3, <1>4, <1>5, <1>6, <1>7, <1>8, <1>9, Zenon DEF Orders

\* So what the code makes of the data is what the device meant.
LEMMA ReorderedIsMeant ==
    ASSUME NEW order \in Orders, NEW data, Len(data) >= Len(order)
    PROVE  reorderBytes(data, order) = Meant(order, data)
<1> DEFINE n == Len(order)
           S == {data[k] : k \in 1..n}
           bytes == [k \in 1..n |-> data[order[k]]]
           m == Meant(order, data)
<1>1. /\ n \in Nat /\ order \in [1..n -> 1..n]
      /\ \A k \in 1..n : order[k] \in 1..n /\ order[order[k]] = k
  BY OrdersInvert
<1>2. reorderBytes(data, order) = bytes
  BY DEF reorderBytes
<1>3. bytes \in [1..n -> S] /\ \A k \in 1..n : bytes[order[k]] = data[k]
  <2> HIDE DEF n
  <2> QED BY <1>1
<1>4. m = CHOOSE x \in [1..n -> S] : \A k \in 1..n : x[order[k]] = data[k]
  BY DEF Meant
<1> HIDE DEF n, S, bytes
<1>5. m \in [1..n -> S] /\ \A k \in 1..n : m[order[k]] = data[k]
  <2> HIDE DEF m
  <2> QED BY <1>3, <1>4
<1> HIDE DEF m
<1>6. \A k \in 1..n : m[k] = data[order[k]]
  <2> SUFFICES ASSUME NEW k \in 1..n PROVE m[k] = data[order[k]]
    OBVIOUS
  <2>1. order[k] \in 1..n /\ order[order[k]] = k
    BY <1>1
  <2>2. m[order[order[k]]] = data[order[k]]
    BY <1>5, <2>1
  <2> QED BY <2>1, <2>2
<1>7. m = bytes
  BY <1>5, <1>6 DEF bytes
<1> QED BY <1>2, <1>7 DEF m

\* A number that DecodeValue (enhancement-register.go) makes of a valid
\* register's data is the one the device meant, in every order and every type
\* whose width the order has, for every content of the registers.
THEOREM DecodedAsMeant == ReadSpec => []DecodedIsMeant
<1>1. DecodedIsMeant
  <2> SUFFICES ASSUME NEW r, NEW data, r.order \in Orders, Len(data) >= Len(r.order),
                      r.type \notin {"bool", "bitfield", "string"}, DecodeValue(r, data).ok
               PROVE  DecodeValue(r, data).value =
                        SubSeq(Meant(r.order, data), 1, Width[r.type])
    BY Zenon DEF DecodedIsMeant
  <2> DEFINE bytes == reorderBytes(data, r.order)
             n == Width[r.type]
             number == 256 * bytes[1] + bytes[2]
             value == CASE r.type = "string" -> bytes
                        [] r.type = "bool" -> <<CheckBit(number, r.bit)>>
                        [] r.type = "bitfield" ->
                             LET k == Masked(number, r.mask) IN <<k \div 256, k % 256>>
                        [] OTHER -> SubSeq(bytes, 1, n)
  <2>1. \/ DecodeValue(r, data) = Undecodable
        \/ DecodeValue(r, data) = [ok |-> TRUE, value |-> value]
    BY Zenon DEF DecodeValue
  <2>2. ~Undecodable.ok
    BY DEF Undecodable
  <2>3. DecodeValue(r, data).value = value
    <3> HIDE DEF value
    <3> QED BY <2>1, <2>2
  <2>4. value = SubSeq(bytes, 1, n)
    <3> HIDE DEF bytes, n, number
    <3> QED BY Zenon
  <2>5. bytes = Meant(r.order, data)
    BY ReorderedIsMeant
  <2> QED BY <2>3, <2>4, <2>5
<1> QED BY <1>1, PTL

\* Reading and the other calls leave the grouping and the client as they are by
\* themselves: the loop of ReadGroupedDataSequential runs GroupDeviceRegister
\* unchanged and only makes calls that the client allows, so that what holds of
\* either holds of both together.
THEOREM ReadingKeepsParts ==
    ReadSpec => /\ GroupSpec
                /\ [](GroupsContiguous /\ GroupsPartition /\ WriteIsConfirmed /\ ResultsAreWhole)
<1> DEFINE Inv == PartitionInv /\ ReadingsBehind /\ ReaderInv /\ ConfirmedInv /\ WholeInv
           All == GroupsContiguous /\ GroupsPartition /\ WriteIsConfirmed /\ ResultsAreWhole
<1>1. ReadInit => Inv /\ GroupInit
  BY InitPartition, ReaderInit, ConfirmedInit, WholeInit DEF ReadInit, ReaderInv
<1>2. Inv /\ [ReadNext]_readVars => Inv' /\ [GroupNext]_groupVars
  <2> SUFFICES ASSUME Inv, [ReadNext]_readVars PROVE Inv' /\ [GroupNext]_groupVars
    OBVIOUS
  <2>1. [GroupNext]_groupVars /\ GroupingInv
    BY GroupStepOfRead DEF PartitionInv
  <2>2. PartitionInv'
    BY <2>1, StepPartition
  <2>3. ConfirmedInv' /\ WholeInv'
    BY <2>1, ClientKept
  <2>4. ReaderInv'
    BY <2>1, ReaderNext
  <2> QED BY <2>1, <2>2, <2>3, <2>4 DEF ReaderInv
<1>3. Inv => All
  BY OnePlace DEF PartitionInv, GroupingInv, ConfirmedInv, WholeInv
<1> HIDE DEF Inv, All
<1>4. ReadSpec => GroupSpec /\ []All
  BY <1>1, <1>2, <1>3, PTL DEF ReadSpec, GroupSpec
<1> QED BY <1>4 DEF All

-----------------------------------------------------------------------------
(***************************************************************************)
(* What travels in frames are bytes: the data of requests, of pages and of *)
(* the other replies.                                                      *)
(***************************************************************************)
\* Arguments of a call that are bytes and uint16.
Bytewise(c) ==
    /\ c.slave \in Byte /\ c.words \in Seq(Uint16) /\ c.bytes \in Seq(Byte)
    /\ c.op \in DOMAIN Code
    /\ c.op \notin {"ReadDeviceIdentification", "ReadFIFOQueue"} => Len(c.words) >= 2
    /\ c.op = "ReadFIFOQueue" => Len(c.words) >= 1

LEMMA FewBits ==
    /\ \A v \in Byte : v \in Nat /\ v < 256
    /\ \A v \in Nat : v < 256 => v \in Byte
    /\ \A v \in Nat : v % 256 \in Byte
    /\ \A v \in Uint16 : v \in Nat /\ v < 65536
<1>1. \A v \in Byte : v \in Nat /\ v < 256
  BY DEF Byte
<1>2. \A v \in Nat : v < 256 => v \in Byte
  BY DEF Byte
<1>3. \A v \in Nat : v % 256 \in Byte
  BY DEF Byte
<1>4. \A v \in Uint16 : v \in Nat /\ v < 65536
  BY Uint16Top, SMTT(60)
<1> QED BY <1>1, <1>2, <1>3, <1>4, SMT

LEMMA TwoParts ==
    ASSUME NEW S, NEW x \in Seq(S), NEW y \in Seq(S)
    PROVE  /\ x \o y \in Seq(S) /\ Len(x \o y) = Len(x) + Len(y)
           /\ Len(x) \in Nat /\ Len(y) \in Nat
OBVIOUS

LEMMA WordBytes ==
    ASSUME NEW w \in Uint16
    PROVE  w \div 256 \in Byte /\ w % 256 \in Byte
<1>1. w \in Nat /\ w < 65536
  BY FewBits, SMT
<1>2. w = 256 * (w \div 256) + (w % 256)
  BY <1>1
<1>3. w \div 256 \in Int /\ w % 256 \in 0..255
  BY <1>1
<1> QED BY <1>1, <1>2, <1>3 DEF Byte

LEMMA BlockBytes ==
    ASSUME NEW ws \in Seq(Uint16)
    PROVE  dataBlock(ws) \in Seq(Byte) /\ Len(dataBlock(ws)) = 2 * Len(ws)
<1> DEFINE n == Len(ws)
           b == dataBlock(ws)
<1>1. n \in Nat /\ \A i \in 1..n : ws[i] \in Uint16
  OBVIOUS
<1>2. b = [k \in 1..(2 * n) |-> IF k % 2 = 1 THEN ws[(k + 1) \div 2] \div 256 ELSE ws[k \div 2] % 256]
  BY DEF dataBlock
<1> HIDE DEF n, b
<1>3. \A w \in Uint16 : w \div 256 \in Byte /\ w % 256 \in Byte
  BY WordBytes
<1>4. \A k \in 1..(2 * n) : /\ k % 2 = 1 => (k + 1) \div 2 \in 1..n
                            /\ k % 2 # 1 => k \div 2 \in 1..n
  BY <1>1
<1>5. \A k \in 1..(2 * n) : b[k] \in Byte
  <2> SUFFICES ASSUME NEW k \in 1..(2 * n) PROVE b[k] \in Byte
    OBVIOUS
  <2>1. CASE k % 2 = 1
    <3>1. b[k] = ws[(k + 1) \div 2] \div 256 /\ ws[(k + 1) \div 2] \in Uint16
      BY <1>1, <1>2, <1>4, <2>1
    <3> QED BY <1>3, <3>1
  <2>2. CASE k % 2 # 1
    <3>1. b[k] = ws[k \div 2] % 256 /\ ws[k \div 2] \in Uint16
      BY <1>1, <1>2, <1>4, <2>2
    <3> QED BY <1>3, <3>1
  <2> QED BY <2>1, <2>2
<1>6. b \in [1..(2 * n) -> Byte]
  <2>1. DOMAIN b = 1..(2 * n) /\ b = [k \in DOMAIN b |-> b[k]]
    BY <1>2
  <2> QED BY <1>5, <2>1
<1>7. b \in Seq(Byte) /\ Len(b) = 2 * n
  BY <1>1, <1>6
<1> QED BY <1>7 DEF b, n

LEMMA DataBytes ==
    ASSUME NEW c, Bytewise(c)
    PROVE  Data(c) \in Seq(Byte) /\ Len(Data(c)) >= 2 * Len(c.words)
<1> DEFINE b == dataBlock(c.words)
           e == <<Len(c.bytes) % 256>>
           n == 2 * Len(c.words)
<1>1. b \in Seq(Byte) /\ Len(b) = n /\ n \in Nat
  <2>1. c.words \in Seq(Uint16) /\ Len(c.words) \in Nat
    BY DEF Bytewise
  <2> QED BY <2>1, BlockBytes
<1>2. e \in Seq(Byte) /\ c.bytes \in Seq(Byte)
  <2>1. c.bytes \in Seq(Byte) /\ Len(c.bytes) \in Nat
    BY DEF Bytewise
  <2>2. \A l \in Nat : l % 256 \in Byte
    BY DEF Byte
  <2>3. Len(c.bytes) % 256 \in Byte
    BY <2>1, <2>2
  <2> DEFINE l == Len(c.bytes) % 256
  <2> HIDE DEF l
  <2>4. l \in Byte
    BY <2>3 DEF l
  <2>5. <<l>> \in Seq(Byte)
    BY <2>4
  <2> QED BY <2>1, <2>5 DEF l
<1>3. Data(c) = b \/ Data(c) = b \o e \o c.bytes
  BY DEF Data, dataBlockSuffix
<1> HIDE DEF b, e, n
<1>4. (b \o e) \o c.bytes \in Seq(Byte) /\ Len((b \o e) \o c.bytes) >= n
  <2>1. b \o e \in Seq(Byte) /\ Len(b \o e) = n + Len(e) /\ Len(e) \in Nat /\ Len(c.bytes) \in Nat
    BY <1>1, <1>2, TwoParts
  <2>2. (b \o e) \o c.bytes \in Seq(Byte) /\ Len((b \o e) \o c.bytes) = Len(b \o e) + Len(c.bytes)
    BY <1>2, <2>1, TwoParts
  <2> DEFINE z == (b \o e) \o c.bytes
  <2> SUFFICES z \in Seq(Byte) /\ Len(z) >= n
    OBVIOUS
  <2>3. z \in Seq(Byte) /\ Len(z) = Len(b \o e) + Len(c.bytes)
    BY <2>2
  <2> HIDE DEF z
  <2>4. Len(z) >= n
    <3> DEFINE lz == Len(z)  lb == Len(b \o e)  le == Len(e)  lc == Len(c.bytes)
    <3>1. lz = lb + lc /\ lb = n + le /\ le \in Nat /\ lc \in Nat /\ n \in Nat
      BY <1>1, <2>1, <2>3
    <3> HIDE DEF lz, lb, le, lc
    <3>2. lz >= n
      BY <3>1
    <3> QED BY <3>2 DEF lz
  <2> QED BY <2>3, <2>4
<1>5. Data(c) \in Seq(Byte) /\ Len(Data(c)) >= n
  <2>1. CASE Data(c) = b
    BY <1>1, <2>1
  <2>2. CASE Data(c) = (b \o e) \o c.bytes
    BY <1>4, <2>2
  <2> QED BY <1>3, <2>1, <2>2
<1> QED BY <1>5 DEF n

LEMMA CellsBytes ==
    ASSUME NEW s \in Nat, NEW t \in Nat, NEW a \in Nat, NEW n \in Nat
    PROVE  Cells(s, t, a, n) \in Seq(Byte) /\ Len(Cells(s, t, a, n)) = 2 * n
<1> DEFINE x == Cells(s, t, a, n)
<1>1. x = [k \in 1..(2 * n) |-> Cell(s, t, a + (k - 1) \div 2)[IF k % 2 = 1 THEN 1 ELSE 2]]
  BY DEF Cells
<1>2. \A v \in Nat : v % 256 \in Byte
  BY DEF Byte
<1>3. \A b \in Nat : Cell(s, t, b)[1] \in Byte /\ Cell(s, t, b)[2] \in Byte
  <2> SUFFICES ASSUME NEW b \in Nat PROVE (16 * s + t) % 256 \in Byte /\ b % 256 \in Byte
    BY DEF Cell
  <2>1. 16 * s + t \in Nat
    OBVIOUS
  <2> QED BY <1>2, <2>1
<1> HIDE DEF x
<1>4. \A k \in 1..(2 * n) : x[k] \in Byte
  <2> SUFFICES ASSUME NEW k \in 1..(2 * n) PROVE x[k] \in Byte
    OBVIOUS
  <2> DEFINE b == a + (k - 1) \div 2
  <2>1. b \in Nat
    OBVIOUS
  <2>2. x[k] = Cell(s, t, b)[IF k % 2 = 1 THEN 1 ELSE 2]
    BY <1>1
  <2> HIDE DEF b
  <2> QED BY <1>3, <2>1, <2>2
<1>5. x \in [1..(2 * n) -> Byte]
  <2>1. DOMAIN x = 1..(2 * n) /\ x = [k \in DOMAIN x |-> x[k]]
    BY <1>1
  <2> QED BY <1>4, <2>1
<1>6. x \in Seq(Byte) /\ Len(x) = 2 * n
  BY <1>5
<1> QED BY <1>6 DEF x

\* A page of objects.
LEMMA PageBytes ==
    ASSUME NEW s \in Byte, NEW code \in Byte, NEW first \in Byte, NEW level \in {0, 1, 2}
    PROVE  /\ Page(s, code, first, level) \in Seq(Byte)
           /\ Len(Page(s, code, first, level)) >= 6
<1> DEFINE all == {o \in Objects(s) : o >= first /\ (code = 1 => o <= 2)}
           page == {o \in all : o < first + PageSize}
           n == Cardinality(page)
           ObjectBytes(i) == <<first + i, 1, s>>
           rest == all \ page
           more == IF rest = {} THEN 0 ELSE 255
           next == IF rest = {} THEN 0 ELSE first + PageSize
           head == <<MEIType, code, level, more, next, n>>
           body == [k \in 1..(3 * n) |-> ObjectBytes((k - 1) \div 3)[1 + ((k - 1) % 3)]]
           d == Page(s, code, first, level)
<1>1. d = head \o body
  BY DEF Page
<1>2. Objects(s) \subseteq 0..4
  BY DEF Objects
<1>3. page \subseteq 0..4 /\ all \subseteq 0..4
  BY <1>2
<1>4. n \in 0..5
  <2>1. IsFiniteSet(0..4) /\ Cardinality(0..4) = 5
    <3> DEFINE lo == 0  hi == 4
    <3>1. lo \in Int /\ hi \in Int /\ hi - lo + 1 = 5 /\ lo <= hi
      OBVIOUS
    <3> HIDE DEF lo, hi
    <3>2. IsFiniteSet(lo..hi) /\ Cardinality(lo..hi) = hi - lo + 1
      BY <3>1, FS_Interval
    <3> QED BY <3>1, <3>2 DEF lo, hi
  <2>2. IsFiniteSet(page) /\ Cardinality(page) <= Cardinality(0..4)
    BY <1>3, <2>1, FS_Subset
  <2>3. Cardinality(page) \in Nat
    BY <2>2, FS_CardinalityType
  <2> QED BY <2>1, <2>2, <2>3
<1>5. n # 0 => first <= 4
  <2>1. CASE page = {}
    BY <2>1, FS_EmptySet
  <2>2. CASE page # {}
    <3>1. PICK o \in page : TRUE
      BY <2>2
    <3>2. o \in 0..4 /\ o >= first /\ first \in Nat
      BY <1>3 DEF Byte
    <3> QED BY <3>2
  <2> QED BY <2>1, <2>2
<1>6. next \in Byte
  <2>1. CASE rest = {}
    BY <2>1 DEF Byte
  <2>2. CASE rest # {}
    <3>1. PICK o \in rest : TRUE
      BY <2>2
    <3>2. o \in 0..4 /\ ~(o < first + PageSize) /\ o >= first /\ first \in Nat
      BY <1>3 DEF Byte
    <3>3. first + PageSize \in Byte
      BY <3>2 DEF PageSize, Byte
    <3> QED BY <2>2, <3>3
  <2> QED BY <2>1, <2>2
<1>7. more \in Byte /\ MEIType \in Byte /\ level \in Byte
  BY DEF Byte, MEIType
<1>8. n \in Nat /\ n \in Byte
  BY <1>4 DEF Byte
<1> HIDE DEF d, n, next, more
<1>9. head \in Seq(Byte) /\ Len(head) = 6
  BY <1>6, <1>7, <1>8
<1>10. \A k \in 1..(3 * n) : body[k] \in Byte
  <2> SUFFICES ASSUME NEW k \in 1..(3 * n) PROVE body[k] \in Byte
    OBVIOUS
  <2> DEFINE i == (k - 1) \div 3
             j == 1 + ((k - 1) % 3)
  <2>1. i \in 0..4 /\ j \in 1..3 /\ n # 0
    BY <1>4
  <2>2. body[k] = ObjectBytes(i)[j]
    OBVIOUS
  <2>3. first + i \in Byte /\ 1 \in Byte
    BY <1>5, <2>1 DEF Byte
  <2> HIDE DEF i, j
  <2>4. ObjectBytes(i)[j] \in Byte
    BY <2>1, <2>3
  <2> QED BY <2>2, <2>4
<1>11. body \in Seq(Byte)
  <2> DEFINE m == 3 * n
  <2>1. m \in Nat /\ DOMAIN body = 1..m
    BY <1>8
  <2>2. body = [k \in 1..m |-> body[k]]
    OBVIOUS
  <2> HIDE DEF body
  <2>3. \A k \in 1..m : body[k] \in Byte
    BY <1>10
  <2> HIDE DEF m
  <2>4. body \in [1..m -> Byte]
    BY <2>2, <2>3
  <2> QED BY <2>1, <2>4
<1> HIDE DEF head, body
<1>12. head \o body \in Seq(Byte) /\ Len(head \o body) >= 6
  <2>1. head \o body \in Seq(Byte) /\ Len(head \o body) = Len(head) + Len(body) /\ Len(body) \in Nat
    BY <1>9, <1>11, TwoParts
  <2> QED BY <1>9, <2>1
<1> QED BY <1>1, <1>12 DEF d

\* A request as the client puts it on the line.
IsAsked(r) ==
    /\ r \in Contents /\ r.code < 128 /\ AsksForPage(r)
    /\ Len(r.data) >= IF r.code \in {1, 2, 3, 4, 15, 16, 23, CustomCode} THEN 4 ELSE 2

LEMMA RequestBytes ==
    ASSUME NEW c, Bytewise(c), c.op # "ReadDeviceIdentification"
    PROVE  IsAsked(Request(c))
<1> DEFINE r == Request(c)
           f == Code[c.op]
           d == Data(c)
           n == Len(c.words)
<1>1. r = [slave |-> c.slave, code |-> f, data |-> d]
  BY DEF Request, Frame
<1>2. /\ c.slave \in Byte /\ c.op \in DOMAIN Code /\ n \in Nat
      /\ c.op # "ReadFIFOQueue" => n >= 2
      /\ c.op = "ReadFIFOQueue" => n >= 1
  BY DEF Bytewise
<1>3. d \in Seq(Byte) /\ Len(d) >= 2 * n
  BY DataBytes
<1>4. f \in Nat /\ f < 128
  <2>1. CustomCode \in Nat /\ CustomCode < 128
    BY ClientAssumption, LinkAssumption
  <2> QED BY <1>2, <2>1 DEF Code
<1>5. c.op = "ReadFIFOQueue" <=> f = 24
  BY <1>2, ClientAssumption DEF Code
<1>6. 24 \notin {1, 2, 3, 4, 15, 16, 23, CustomCode}
  BY ClientAssumption
<1> HIDE DEF r, f, d, n
<1>7. r \in Contents /\ r.code = f /\ r.data = d
  <2>1. f \in Byte
    BY <1>4, FewBits
  <2> QED BY <1>1, <1>2, <1>3, <2>1 DEF Contents
<1>8. Len(d) >= IF f \in {1, 2, 3, 4, 15, 16, 23, CustomCode} THEN 4 ELSE 2
  <2> DEFINE l == Len(d)
  <2>1. l \in Nat /\ l >= 2 * n
    BY <1>3
  <2> HIDE DEF l
  <2>2. CASE c.op = "ReadFIFOQueue"
    <3>1. f = 24 /\ l >= 2
      BY <1>2, <1>5, <2>1, <2>2
    <3> QED BY <1>6, <3>1 DEF l
  <2>3. CASE c.op # "ReadFIFOQueue"
    <3>1. l >= 4
      BY <1>2, <2>1, <2>3
    <3> QED BY <2>1, <3>1 DEF l
  <2> QED BY <2>2, <2>3
<1>9. AsksForPage(r)
  <2>1. f # 43
    BY <1>2, ClientAssumption DEF Code, f
  <2> QED BY <1>7, <2>1 DEF AsksForPage
<1> QED BY <1>4, <1>7, <1>8, <1>9 DEF IsAsked, r

LEMMA PageRequestBytes ==
    ASSUME NEW s \in Byte, NEW code \in {1, 2}, NEW first \in Byte
    PROVE  IsAsked(Frame(s, 43, <<MEIType, code, first>>))
<1> DEFINE r == Frame(s, 43, <<MEIType, code, first>>)
           d == <<MEIType, code, first>>
<1>1. r = [slave |-> s, code |-> 43, data |-> d]
  BY DEF Frame
<1>2. d \in Seq(Byte) /\ Len(d) = 3
  <2>1. MEIType \in Byte /\ code \in Byte
    BY DEF MEIType, Byte
  <2> QED BY <2>1
<1> HIDE DEF d, r
<1>3. r \in Contents /\ r.code = 43 /\ r.data = d
  <2>1. 43 \in Byte
    BY DEF Byte
  <2> QED BY <1>1, <1>2, <2>1 DEF Contents
<1>4. 43 \notin {1, 2, 3, 4, 15, 16, 23, CustomCode}
  BY ClientAssumption
<1>5. IsAsked(r)
  <2>1. r.code \notin {1, 2, 3, 4, 15, 16, 23, CustomCode} /\ r.code < 128
    BY <1>3, <1>4
  <2> DEFINE l == Len(r.data)
  <2>2. l = 3
    BY <1>2, <1>3, Zenon
  <2> HIDE DEF l
  <2>3. l >= 2
    BY <2>2
  <2>4. AsksForPage(r)
    <3>1. first \in Nat
      BY FewBits
    <3> QED BY <3>1, PageAsked DEF r
  <2> QED BY <1>3, <2>1, <2>3, <2>4 DEF IsAsked, l
<1> QED BY <1>5 DEF r

\* What answers a request.
LEMMA ResponseBytes ==
    ASSUME NEW r, IsAsked(r), NEW a \in Response(r)
    PROVE  a \in Seq(Byte) /\ (r.code = 43 => Len(a) >= 6)
<1> DEFINE d == r.data
           s == r.slave
<1>1. /\ s \in Byte /\ s \in Nat /\ d \in Seq(Byte) /\ Len(d) \in Nat
      /\ Len(d) >= IF r.code \in {1, 2, 3, 4, 15, 16, 23, CustomCode} THEN 4 ELSE 2
  <2>1. s \in Byte /\ d \in Seq(Byte)
    BY DEF IsAsked, Contents
  <2>2. s \in Nat
    BY <2>1, FewBits
  <2> QED BY <2>1, <2>2 DEF IsAsked
<1>2. \A k \in 1..Len(d) : d[k] \in Byte /\ d[k] \in Nat
  <2>1. \A k \in 1..Len(d) : d[k] \in Byte
    BY <1>1
  <2> QED BY <2>1, FewBits
<1>3. \A v \in Nat : v % 256 \in Byte
  BY FewBits
<1>4. Word(d, 1) \in Nat
  <2>1. d[1] \in Nat /\ d[2] \in Nat
    BY <1>1, <1>2
  <2> QED BY <2>1 DEF Word
<1>5. r.code \in {1, 2, 3, 4, 15, 16, 23, CustomCode} => Word(d, 3) \in Nat
  <2> SUFFICES ASSUME r.code \in {1, 2, 3, 4, 15, 16, 23, CustomCode} PROVE Word(d, 3) \in Nat
    OBVIOUS
  <2>1. d[3] \in Nat /\ d[4] \in Nat
    BY <1>1, <1>2
  <2> QED BY <2>1 DEF Word
<1> DEFINE w == Word(d, 1)
           q == Word(d, 3)
           levels == {0, IF s \in RegularSlaves THEN 2 ELSE 1}
<1> DEFINE P1 == r.code \in {1, 2} /\ Within(w, q)
           X1 == LET n == (q + 7) \div 8
                 IN {<<n % 256>> \o SubSeq(Cells(s, r.code, w, n), 1, n)}
           P2 == r.code \in {3, 4, 23, CustomCode} /\ Within(w, q)
           X2 == {<<(2 * q) % 256>> \o Cells(s, IF r.code = 4 THEN 4 ELSE 3, w, q)}
           P3 == r.code \in {5, 6, 22}
           X3 == {d}
           P4 == r.code \in {15, 16} /\ d[5] = Len(d) - 5
           X4 == {SubSeq(d, 1, 4)}
           P5 == r.code = 24
           X5 == {<<0, 4, 0, 1>> \o Cells(s, 3, w, 1)}
           P6 == r.code = 43
           X6 == {Page(s, d[2], d[3], level) : level \in levels}
<1>6. \/ P1 /\ a \in X1
      \/ P2 /\ a \in X2
      \/ P3 /\ a \in X3
      \/ P4 /\ a \in X4
      \/ P5 /\ a \in X5
      \/ P6 /\ a \in X6
  <2>1. a \in CASE P1 -> X1 [] P2 -> X2 [] P3 -> X3 [] P4 -> X4 [] P5 -> X5 [] P6 -> X6 [] OTHER -> {}
    BY DEF Response
  <2> HIDE DEF P1, P2, P3, P4, P5, P6, X1, X2, X3, X4, X5, X6
  <2> QED BY <2>1, Zenon
<1>12. r.code = 43 => a \in Seq(Byte) /\ Len(a) >= 6
  <2> SUFFICES ASSUME r.code = 43 PROVE a \in Seq(Byte) /\ Len(a) >= 6
    OBVIOUS
  <2>1. a \in X6
    BY <1>6, ClientAssumption
  <2>2. PICK level \in levels : a = Page(s, d[2], d[3], level)
    BY <2>1
  <2>3. level \in {0, 1, 2}
    BY <2>2
  <2>4. d[2] \in Byte /\ d[3] \in Byte
    <3>1. PICK code, first : r.data = <<MEIType, code, first>>
      BY DEF IsAsked, AsksForPage
    <3>2. Len(d) = 3
      BY <3>1
    <3> QED BY <1>2, <3>2
  <2> QED BY <1>1, <2>2, <2>3, <2>4, PageBytes
<1> SUFFICES a \in Seq(Byte)
  BY <1>12
<1>7. CASE r.code \in {1, 2} /\ a = <<((q + 7) \div 8) % 256>> \o SubSeq(Cells(s, r.code, w, (q + 7) \div 8), 1, (q + 7) \div 8)
  <2> DEFINE n == (q + 7) \div 8
             x == Cells(s, r.code, w, n)
  <2>1. q \in Nat /\ r.code \in Nat
    BY <1>5, <1>7
  <2>2. n \in Nat /\ n % 256 \in Byte
    <3>1. n \in Nat
      <4>1. \A v \in Nat : (v + 7) \div 8 \in Nat
        OBVIOUS
      <4> HIDE DEF q
      <4> QED BY <2>1, <4>1
    <3> QED BY <1>3, <3>1
  <2>3. x \in Seq(Byte) /\ Len(x) = 2 * n
    <3> DEFINE t == r.code
    <3>1. t \in Nat /\ x = Cells(s, t, w, n) /\ w \in Nat
      BY <1>4, <2>1
    <3> HIDE DEF x, w, n, t, s
    <3> QED BY <1>1, <2>2, <3>1, CellsBytes
  <2> HIDE DEF n, x
  <2>4. SubSeq(x, 1, n) \in Seq(Byte) /\ <<n % 256>> \in Seq(Byte)
    BY <2>2, <2>3
  <2>5. <<n % 256>> \o SubSeq(x, 1, n) \in Seq(Byte)
    BY <2>4, TwoParts
  <2> QED BY <1>7, <2>5 DEF n, x
<1>8. CASE /\ r.code \in {3, 4, 23, CustomCode}
           /\ a = <<(2 * q) % 256>> \o Cells(s, IF r.code = 4 THEN 4 ELSE 3, w, q)
  <2> DEFINE x == Cells(s, IF r.code = 4 THEN 4 ELSE 3, w, q)
             n == (2 * q) % 256
  <2>1. q \in Nat
    BY <1>5, <1>8
  <2>2. n \in Byte
    <3>1. 2 * q \in Nat
      BY <2>1
    <3> QED BY <1>3, <3>1
  <2>3. x \in Seq(Byte)
    <3> DEFINE t == IF r.code = 4 THEN 4 ELSE 3
    <3>1. t \in Nat
      OBVIOUS
    <3> HIDE DEF t
    <3>2. Cells(s, t, w, q) \in Seq(Byte)
      BY <1>1, <1>4, <2>1, <3>1, CellsBytes
    <3> QED BY <3>2 DEF t
  <2> HIDE DEF n, x
  <2>4. <<n>> \in Seq(Byte)
    BY <2>2
  <2>5. <<n>> \o x \in Seq(Byte)
    BY <2>3, <2>4, TwoParts
  <2> QED BY <1>8, <2>5 DEF n, x
<1>9. CASE a = d
  BY <1>1, <1>9
<1>10. CASE r.code \in {15, 16} /\ a = SubSeq(d, 1, 4)
  <2>1. 4 \in 1..Len(d)
    BY <1>1, <1>10
  <2> HIDE DEF d
  <2>2. SubSeq(d, 1, 4) \in Seq(Byte)
    BY <1>1, <2>1
  <2> QED BY <1>10, <2>2
<1>11. CASE a = <<0, 4, 0, 1>> \o Cells(s, 3, w, 1)
  <2>1. Cells(s, 3, w, 1) \in Seq(Byte)
    BY <1>1, <1>4, CellsBytes
  <2>2. <<0, 4, 0, 1>> \in Seq(Byte)
    BY DEF Byte
  <2> DEFINE h == <<0, 4, 0, 1>>  x == Cells(s, 3, w, 1)
  <2>3. h \in Seq(Byte) /\ x \in Seq(Byte)
    BY <2>1, <2>2
  <2> HIDE DEF h, x
  <2>4. h \o x \in Seq(Byte)
    BY <2>3, TwoParts
  <2> QED BY <1>11, <2>4 DEF h, x
<1> HIDE DEF d, s, w, q, levels
<1>13. \/ r.code \in {1, 2} /\ a = <<((q + 7) \div 8) % 256>> \o SubSeq(Cells(s, r.code, w, (q + 7) \div 8), 1, (q + 7) \div 8)
       \/ /\ r.code \in {3, 4, 23, CustomCode}
          /\ a = <<(2 * q) % 256>> \o Cells(s, IF r.code = 4 THEN 4 ELSE 3, w, q)
       \/ a = d
       \/ r.code \in {15, 16} /\ a = SubSeq(d, 1, 4)
       \/ a = <<0, 4, 0, 1>> \o Cells(s, 3, w, 1)
       \/ r.code = 43
  BY <1>6, Zenon
<1> QED BY <1>7, <1>8, <1>9, <1>10, <1>11, <1>12, <1>13

LEMMA CallsBytewise == ASSUME NEW c \in Calls PROVE Bytewise(c)
<1>1. c.slave \in Byte /\ c.words \in Seq(Uint16) /\ c.bytes \in Seq(Byte)
  BY LinkAssumption
<1>2. c.op \in DOMAIN Code
  BY ClientAssumption DEF IsCall
<1>3. /\ c.op # "ReadDeviceIdentification" => Len(c.words) >= 1
      /\ c.op \notin {"ReadDeviceIdentification", "ReadFIFOQueue"} => Len(c.words) >= 2
  BY LinkAssumption
<1> QED BY <1>1, <1>2, <1>3 DEF Bytewise

LEMMA GroupCallBytewise ==
    ASSUME NEW g \in Seq(Registers), g # <<>>, g[1].function \in 1..4
    PROVE  Bytewise(GroupCall(g)) /\ GroupCall(g).op # "ReadDeviceIdentification"
<1> DEFINE c == GroupCall(g)
           ws == <<g[1].address, totalQuantity(g)>>
           f == g[1].function
<1>1. c.op = ReadFunctions[f] /\ c.words = ws /\ c.bytes = <<>> /\ c.slave = g[1].slave
  BY DEF GroupCall
<1>2. g[1] \in Registers
  OBVIOUS
<1>3. g[1].address \in Uint16 /\ totalQuantity(g) \in Uint16
  <2>1. \A v \in Nat : v < AddressSpace => v \in Uint16
    <3>1. AddressSpace \in Nat /\ 0..(AddressSpace - 1) \subseteq Uint16
      BY LinkAssumption, GroupingAssumption
    <3> QED BY <3>1
  <2>2. g[1].address \in Nat /\ g[1].address < AddressSpace
    BY <1>2, RegisterFacts
  <2>3. totalQuantity(g) \in Nat /\ totalQuantity(g) < AddressSpace
    BY TotalIsNat
  <2> QED BY <2>1, <2>2, <2>3
<1>4. ws \in Seq(Uint16) /\ Len(ws) = 2
  BY <1>3
<1>5. g[1].slave \in Byte
  BY <1>2, LinkAssumption
<1>6. /\ f = 1 => ReadFunctions[f] = "ReadCoils"
      /\ f = 2 => ReadFunctions[f] = "ReadDiscreteInputs"
      /\ f = 3 => ReadFunctions[f] = "ReadHoldingRegisters"
      /\ f = 4 => ReadFunctions[f] = "ReadInputRegisters"
  BY DEF ReadFunctions
<1>7. f \in 1..4 /\ <<>> \in Seq(Byte)
  OBVIOUS
<1> HIDE DEF c, f, ws
<1>8. c.op \in DOMAIN Code /\ c.op \notin {"ReadDeviceIdentification", "ReadFIFOQueue"}
  BY <1>1, <1>6, <1>7 DEF Code
<1> QED BY <1>1, <1>4, <1>5, <1>7, <1>8 DEF Bytewise, c

-----------------------------------------------------------------------------
(***************************************************************************)
(* The inductive invariant of the line: requests and answers are contents of*)
(* frames, which leave the codes of exceptions room and pages their header.*)
(***************************************************************************)
IsSent(a) == a \in Contents /\ (a.code = 43 => Len(a.data) >= 6)

LinkInv ==
    /\ \A r \in Elements(requests) : IsAsked(r)
    /\ \A a \in Elements(answers) : IsSent(a)
    /\ calling # NoCall => calling.slave \in Byte

LEMMA AskedIsSent ==
    ASSUME LinkInv, RequestsAreFrames, NEW r, IsAsked(r), requests' = Append(requests, r),
           UNCHANGED answers, calling' # NoCall => calling'.slave \in Byte
    PROVE  LinkInv'
<1>1. Elements(Append(requests, r)) \subseteq Elements(requests) \cup {r}
  BY ElementsAppended DEF RequestsAreFrames
<1>2. \A q \in Elements(requests') : IsAsked(q)
  BY <1>1 DEF LinkInv, Elements
<1>3. \A a \in Elements(answers') : IsSent(a)
  BY DEF LinkInv, Elements
<1> QED BY <1>2, <1>3 DEF LinkInv

\* Nothing new is put on the line.
LEMMA NothingSent ==
    ASSUME LinkInv, RequestsAreFrames, AnswersVouch,
           requests' = requests \/ (requests # <<>> /\ requests' = Tail(requests)),
           answers' = answers \/ (answers # <<>> /\ answers' = Tail(answers)),
           calling' = calling \/ calling' = NoCall
    PROVE  LinkInv'
<1>1. requests # <<>> => Elements(Tail(requests)) \subseteq Elements(requests)
  BY ElementsDropped DEF RequestsAreFrames
<1>2. answers # <<>> => Elements(Tail(answers)) \subseteq Elements(answers)
  BY ElementsDropped DEF AnswersVouch
<1>3. \A r \in Elements(requests') : IsAsked(r)
  BY <1>1 DEF LinkInv, Elements
<1>4. \A a \in Elements(answers') : IsSent(a)
  BY <1>2 DEF LinkInv, Elements
<1> QED BY <1>3, <1>4 DEF LinkInv

\* A device answers.
LEMMA AnswerIsSent ==
    ASSUME LinkInv, RequestsAreFrames, AnswersVouch, requests # <<>>, NEW a, IsSent(a), Answered(a)
    PROVE  LinkInv'
<1>1. requests' = Tail(requests) /\ answers' = Append(answers, a) /\ calling' = calling
  BY DEF Answered
<1>2. Elements(Tail(requests)) \subseteq Elements(requests)
  BY ElementsDropped DEF RequestsAreFrames
<1>3. Elements(Append(answers, a)) \subseteq Elements(answers) \cup {a}
  BY ElementsAppended DEF AnswersVouch
<1>4. \A r \in Elements(requests') : IsAsked(r)
  BY <1>1, <1>2 DEF LinkInv, Elements
<1>5. \A q \in Elements(answers') : IsSent(q)
  BY <1>1, <1>3 DEF LinkInv, Elements
<1> QED BY <1>1, <1>4, <1>5 DEF LinkInv

LEMMA BeginIsSent ==
    ASSUME LinkInv, ConfirmedInv, NEW c, Bytewise(c), Begin(c)
    PROVE  LinkInv'
<1>1. calling' = c /\ answers' = answers /\ c.slave \in Byte
  BY DEF Begin, Bytewise
<1>2. CASE c.op = "ReadDeviceIdentification"
  <2>1. requests' = Append(requests, Frame(c.slave, 43, <<MEIType, 1, 0>>))
    BY <1>2 DEF Begin, Ask
  <2>2. IsAsked(Frame(c.slave, 43, <<MEIType, 1, 0>>))
    <3>1. 0 \in Byte /\ 1 \in {1, 2}
      BY FewBits
    <3> QED BY <1>1, <3>1, PageRequestBytes
  <2> QED BY <1>1, <2>1, <2>2, AskedIsSent DEF ConfirmedInv
<1>3. CASE c.op # "ReadDeviceIdentification"
  <2>1. requests' = Append(requests, Request(c))
    BY <1>3 DEF Begin
  <2> QED BY <1>1, <1>3, <2>1, RequestBytes, AskedIsSent DEF ConfirmedInv
<1> QED BY <1>2, <1>3

LEMMA ReceiveIsSent ==
    ASSUME LinkInv, ConfirmedInv, Receive
    PROVE  LinkInv'
<1> DEFINE a == Head(answers)
           d == a.data
<1>1. answers # <<>> /\ answers' = Tail(answers) /\ calling # NoCall
  BY DEF Receive, Accept
<1>2. IsSent(a)
  <2>1. a \in Elements(answers)
    BY <1>1, ElementsDropped DEF ConfirmedInv, AnswersVouch
  <2> QED BY <2>1 DEF LinkInv
<1>3. Accept(a)
  BY DEF Receive
<1> HIDE DEF a
<1>4. RequestsAreFrames /\ AnswersVouch
  BY DEF ConfirmedInv
<1>5. CASE calling' = NoCall /\ requests' = requests
  BY <1>1, <1>4, <1>5, NothingSent
<1>6. ASSUME NEW code \in {1, 2}, NEW first \in Byte, UNCHANGED calling,
             requests' = Append(requests, Frame(calling.slave, 43, <<MEIType, code, first>>))
      PROVE  LinkInv'
  <2> DEFINE r == Frame(calling.slave, 43, <<MEIType, code, first>>)
  <2>1. calling.slave \in Byte
    BY <1>1 DEF LinkInv
  <2>2. IsAsked(r)
    BY <2>1, PageRequestBytes
  <2>3. requests' = Append(requests, r)
    BY <1>6
  <2> HIDE DEF r
  <2>4. \A q \in Elements(requests') : IsAsked(q)
    <3>1. Elements(Append(requests, r)) \subseteq Elements(requests) \cup {r}
      BY <1>4, ElementsAppended DEF RequestsAreFrames
    <3> QED BY <2>2, <2>3, <3>1 DEF LinkInv, Elements
  <2>5. \A q \in Elements(answers') : IsSent(q)
    <3>1. Elements(Tail(answers)) \subseteq Elements(answers)
      BY <1>1, <1>4, ElementsDropped DEF AnswersVouch
    <3> QED BY <1>1, <3>1 DEF LinkInv, Elements
  <2> QED BY <1>6, <2>1, <2>4, <2>5 DEF LinkInv
<1>7. CASE Usable(a) /\ calling.op = "ReadDeviceIdentification" /\ Identify(d)
  <2> DEFINE got == ident.got \cup ObjectIds(d)
             next == NextObject(d)
  <2>1. a.code = 43
    BY <1>7 DEF Usable, Code
  <2>2. next \in Byte /\ 0 \in Byte
    <3>1. d \in Seq(Byte) /\ Len(d) >= 6
      BY <1>2, <2>1 DEF IsSent, Contents
    <3>2. d[5] \in Byte
      BY <3>1
    <3>3. 0 \in Byte
      BY FewBits
    <3> QED BY <3>2, <3>3 DEF NextObject
  <2> DEFINE Asks(c, object, additional) ==
               /\ Ask(calling.slave, c, object, additional, got)
               /\ UNCHANGED <<calling, clean, calls, outcome>>
  <2>3. \/ \E ok : Return(ok, <<>>, got)
        \/ Fail
        \/ \E additional \in BOOLEAN : Asks(2, 0, additional)
        \/ Asks(1, next, FALSE)
    <3> HIDE DEF got, next
    <3>1. CASE ~Conforming(Level(d))
      BY <1>7, <3>1, Zenon DEF Identify
    <3>2. CASE Conforming(Level(d)) /\ ident.additional
      <4>1. Asks(2, 0, TRUE)
        BY <1>7, <3>2, Zenon DEF Identify, got
      <4> QED BY <4>1
    <3>3. CASE Conforming(Level(d)) /\ ~ident.additional /\ ~EnoughObjects(got)
      <4>1. Return(FALSE, <<>>, got) \/ Asks(1, next, FALSE)
        BY <1>7, <3>3, Zenon DEF Identify, got, next
      <4> QED BY <4>1
    <3>4. CASE Conforming(Level(d)) /\ ~ident.additional /\ EnoughObjects(got)
      <4>1. IF HasRegular(Level(d)) THEN Asks(2, 0, TRUE) ELSE Return(TRUE, <<>>, got)
        BY <1>7, <3>4, Zenon DEF Identify, got
      <4> QED BY <4>1
    <3> QED BY <3>1, <3>2, <3>3, <3>4
  <2> HIDE DEF got, next
  <2>4. CASE Fail \/ \E ok : Return(ok, <<>>, got)
    <3>1. calling' = NoCall /\ requests' = requests
      BY <2>4 DEF Fail, Return
    <3> QED BY <1>5, <3>1
  <2>5. CASE \E additional \in BOOLEAN : Asks(2, 0, additional)
    <3>1. UNCHANGED calling /\ requests' = Append(requests, Frame(calling.slave, 43, <<MEIType, 2, 0>>))
      BY <2>5 DEF Ask
    <3> QED BY <1>6, <2>2, <3>1
  <2>6. CASE Asks(1, next, FALSE)
    <3>1. UNCHANGED calling /\ requests' = Append(requests, Frame(calling.slave, 43, <<MEIType, 1, next>>))
      BY <2>6 DEF Ask
    <3> QED BY <1>6, <2>2, <3>1
  <2> QED BY <2>3, <2>4, <2>5, <2>6
<1>8. CASE Fail \/ Return(TRUE, Results(calling, d), {})
  <2>1. calling' = NoCall /\ requests' = requests
    BY <1>8 DEF Fail, Return
  <2> QED BY <1>5, <2>1
<1>9. \/ Usable(a) /\ calling.op = "ReadDeviceIdentification" /\ Identify(d)
      \/ Fail \/ Return(TRUE, Results(calling, d), {})
  BY <1>3, Zenon DEF Accept
<1> QED BY <1>7, <1>8, <1>9

LEMMA LinkInit == ReadInit => LinkInv
<1> SUFFICES ASSUME ReadInit PROVE LinkInv
  OBVIOUS
<1>1. Elements(<<>>) = {}
  BY DEF Elements
<1> QED BY <1>1 DEF ReadInit, ClientInit, LinkInv

LEMMA LinkNext ==
    ASSUME GroupingInv, ReadingsBehind, ConfirmedInv, LinkInv, [ReadNext]_readVars
    PROVE  LinkInv'
<1>1. RequestsAreFrames /\ AnswersVouch
  BY DEF ConfirmedInv
<1>2. CASE StartGroup
  <2> DEFINE g == groups[NextGroup]
             c == GroupCall(g)
  <2>1. /\ NextGroup <= Len(groups) /\ g[1].function \in 1..4
        /\ Begin(c) \/ Refuse(c)
    BY <1>2 DEF StartGroup, ReadyToRead
  <2>2. NextGroup \in 1..Len(groups)
    <3>1. Len(readings) \in Nat
      <4>1. PICK S : readings \in Seq(S)
        BY DEF ReadingsBehind, IsSequence
      <4> QED BY <4>1
    <3>2. Len(groups) \in Nat
      BY DEF GroupingInv, Shape
    <3> QED BY <2>1, <3>1, <3>2 DEF NextGroup
  <2>3. g \in Seq(Registers) /\ g # <<>>
    BY <2>2, GroupAt
  <2> HIDE DEF g
  <2>4. Bytewise(c)
    BY <2>1, <2>3, GroupCallBytewise
  <2> HIDE DEF c
  <2>5. CASE Begin(c)
    BY <2>4, <2>5, BeginIsSent
  <2>6. CASE Refuse(c)
    <3>1. requests' = requests /\ answers' = answers /\ calling' = calling
      BY <2>6 DEF Refuse, lineVars
    <3> QED BY <1>1, <3>1, NothingSent
  <2> QED BY <2>1, <2>5, <2>6
<1>3. CASE CallClient
  <2>1. PICK c \in Calls : Begin(c) \/ Refuse(c)
    BY <1>3 DEF CallClient
  <2>2. CASE Begin(c)
    BY <2>2, CallsBytewise, BeginIsSent
  <2>3. CASE Refuse(c)
    <3>1. requests' = requests /\ answers' = answers /\ calling' = calling
      BY <2>3 DEF Refuse, lineVars
    <3> QED BY <1>1, <3>1, NothingSent
  <2> QED BY <2>1, <2>2, <2>3
<1>4. CASE Group \/ SkipGroup \/ FinishGroup \/ UNCHANGED readVars
  <2>1. requests' = requests /\ answers' = answers /\ calling' = calling
    BY <1>4 DEF Group, SkipGroup, FinishGroup, readVars, clientVars, lineVars
  <2> QED BY <1>1, <2>1, NothingSent
<1>5. CASE Receive
  BY <1>5, ReceiveIsSent
<1>6. CASE ReceiveUnusable \/ Timeout \/ LoseRequest \/ LoseAnswer
  <2>1. /\ requests' = requests \/ (requests # <<>> /\ requests' = Tail(requests))
        /\ answers' = answers \/ (answers # <<>> /\ answers' = Tail(answers))
        /\ calling' = calling \/ calling' = NoCall
    BY <1>6 DEF ReceiveUnusable, Timeout, LoseRequest, LoseAnswer, Fail, Return
  <2> QED BY <1>1, <2>1, NothingSent
<1>7. CASE Execute \/ Except
  <2> DEFINE r == Head(requests)
  <2>1. requests # <<>>
    BY <1>7 DEF Execute, Except
  <2>2. r \in Elements(requests)
    BY <1>1, <2>1, ElementsDropped DEF RequestsAreFrames
  <2>3. IsAsked(r)
    BY <2>2 DEF LinkInv
  <2>4. \/ \E d \in Response(r) : Answered(Frame(r.slave, r.code, d))
        \/ Answered(Frame(r.slave, r.code + 128, <<4>>))
    BY <1>7 DEF Execute, Except
  <2> HIDE DEF r
  <2>5. r.slave \in Byte /\ r.code \in Byte /\ r.code < 128
    BY <2>3 DEF IsAsked, Contents
  <2>6. ASSUME NEW d \in Response(r), Answered(Frame(r.slave, r.code, d)) PROVE LinkInv'
    <3> DEFINE a == Frame(r.slave, r.code, d)
    <3>1. d \in Seq(Byte) /\ (r.code = 43 => Len(d) >= 6)
      BY <2>3, ResponseBytes
    <3>2. a = [slave |-> r.slave, code |-> r.code, data |-> d]
      BY DEF Frame
    <3>3. Answered(a)
      BY <2>6
    <3> HIDE DEF a
    <3>4. IsSent(a)
      BY <2>5, <3>1, <3>2 DEF IsSent, Contents
    <3> QED BY <1>1, <2>1, <3>3, <3>4, AnswerIsSent
  <2>7. CASE Answered(Frame(r.slave, r.code + 128, <<4>>))
    <3> DEFINE a == Frame(r.slave, r.code + 128, <<4>>)
               f == r.code + 128
               d == <<4>>
    <3>1. f \in Byte /\ f # 43
      <4>1. r.code \in Nat /\ r.code < 128
        BY <2>5, FewBits
      <4>2. f \in Nat /\ f < 256 /\ f # 43
        BY <4>1
      <4> HIDE DEF f
      <4> QED BY <4>2, FewBits
    <3>2. d \in Seq(Byte)
      <4>1. 4 \in Byte
        BY FewBits
      <4> QED BY <4>1
    <3>3. a = [slave |-> r.slave, code |-> f, data |-> d]
      BY DEF Frame
    <3>4. Answered(a)
      BY <2>7
    <3> HIDE DEF a, f, d
    <3>5. IsSent(a)
      BY <2>5, <3>1, <3>2, <3>3 DEF IsSent, Contents
    <3> QED BY <1>1, <2>1, <3>4, <3>5, AnswerIsSent
  <2> QED BY <2>4, <2>6, <2>7
<1>8. \/ StartGroup \/ CallClient \/ Group \/ SkipGroup \/ FinishGroup \/ UNCHANGED readVars
      \/ Receive \/ ReceiveUnusable \/ Timeout \/ LoseRequest \/ LoseAnswer \/ Execute \/ Except
  BY DEF ReadNext, OnTheLine, LineNext
<1> QED BY <1>2, <1>3, <1>4, <1>5, <1>6, <1>7, <1>8

-----------------------------------------------------------------------------
(***************************************************************************)
(* The refinement.                                                         *)
(***************************************************************************)
\* Over ASCII, a step with frames is one without.
LEMMA ASCIIStep ==
    ASSUME LinkInv, AnswersVouch, link = "ascii", [Next]_vars
    PROVE  [ReadNext]_readVars /\ link' = "ascii"
<1>1. link' = "ascii"
  BY DEF Next, vars
<1>2. ASSUME ReceiveFrame PROVE LineNext
  <2> DEFINE a == Head(answers)
             e == ASCIIEncode(a)
  <2>1. calling # NoCall /\ answers # <<>>
    BY <1>2 DEF ReceiveFrame
  <2>2. PICK f \in Arriving(e) : IF ASCIIIntact(f) THEN Accept(ASCIIDecode(f)) ELSE ReceiveUnusable
    BY <1>2 DEF ReceiveFrame, Encode, Intact, Decode
  <2>3. a \in Contents
    <3>1. a \in Elements(answers)
      BY <2>1, ElementsDropped DEF AnswersVouch
    <3> QED BY <3>1 DEF LinkInv, IsSent
  <2>4. ASCIIIntact(f) => f = e
    <3>1. f = e \/ \E k \in DOMAIN e, g \in Garbles : f = [e EXCEPT ![k] = g]
      BY DEF Arriving
    <3>2. DOMAIN e = 1..Len(e)
      <4>1. e \in Seq(Nat)
        BY <2>3, FrameOf
      <4> QED BY <4>1
    <3>3. ASSUME NEW k \in 1..Len(e), NEW g \in Nat, f = [e EXCEPT ![k] = g], ASCIIIntact(f)
          PROVE  f = e
      BY <2>3, <3>3, ChangeIsFound
    <3>4. Garbles \subseteq Nat
      BY LinkAssumption, FewBits
    <3> QED BY <3>1, <3>2, <3>3, <3>4
  <2>5. ASCIIDecode(e) = a
    BY <2>3, FrameIsCarried
  <2>6. Receive \/ ReceiveUnusable
    BY <2>1, <2>2, <2>4, <2>5 DEF Receive
  <2> QED BY <2>6 DEF LineNext
<1>3. CallOverLink => CallClient
  BY DEF CallOverLink, CallClient
<1>4. ReceiveFrame => LineNext
  BY <1>2
<1>5. OnTheLine(ReceiveFrame) => OnTheLine(LineNext)
  BY <1>4 DEF OnTheLine
<1>6. /\ OnTheLine(Timeout) \/ OnTheLine(LoseRequest) \/ OnTheLine(LoseAnswer)
           \/ OnTheLine(Execute) \/ OnTheLine(Except)
         => OnTheLine(LineNext)
      /\ UNCHANGED vars => UNCHANGED readVars
  BY DEF OnTheLine, LineNext, vars
<1>7. [ReadNext]_readVars
  BY <1>3, <1>5, <1>6 DEF Next, ReadNext
<1> QED BY <1>1, <1>7

\* Over an ASCII line that changes a character of a frame the client does what
\* it does on one that only loses frames: GroupReading, with whole contents, is
\* implemented by ASCIIPackager's frames, and every changed frame ends the call
\* as an unusable one.
THEOREM ASCIIIsFaithful == Spec /\ link = "ascii" => ReadSpec
<1> DEFINE Inv == GroupingInv /\ ReaderInv /\ ConfirmedInv /\ WholeInv /\ LinkInv /\ link = "ascii"
<1>1. Init /\ link = "ascii" => Inv /\ ReadInit
  BY InitInv, ReaderInit, ConfirmedInit, WholeInit, LinkInit DEF Init, ReadInit
<1>2. Inv /\ [Next]_vars => Inv' /\ [ReadNext]_readVars
  <2> SUFFICES ASSUME Inv, [Next]_vars PROVE Inv' /\ [ReadNext]_readVars
    OBVIOUS
  <2>1. [ReadNext]_readVars /\ link' = "ascii"
    BY ASCIIStep DEF ConfirmedInv
  <2>2. GroupingInv'
    BY <2>1, GroupStepOfRead, StepInv
  <2>3. ConfirmedInv' /\ WholeInv'
    BY <2>1, ClientKept DEF ReaderInv
  <2>4. ReaderInv' /\ LinkInv'
    BY <2>1, ReaderNext, LinkNext DEF ReaderInv
  <2> QED BY <2>1, <2>2, <2>3, <2>4
<1> HIDE DEF Inv
<1> QED BY <1>1, <1>2, PTL DEF Spec, ReadSpec

\* So the registers read over ASCII have the values of their devices, writes
\* are confirmed and results whole, although the line changes characters.
THEOREM ASCIIReadsTheDevices ==
    Spec /\ link = "ascii" =>
        []( /\ ReadsDevice /\ DecodedIsMeant
            /\ GroupsContiguous /\ GroupsPartition
            /\ WriteIsConfirmed /\ ResultsAreWhole)
BY ASCIIIsFaithful, ReadingsAreTheDevices, DecodedAsMeant, ReadingKeepsParts, PTL

-----------------------------------------------------------------------------
(***************************************************************************)
(* Both links.  What the RTU packager adds to the steps of GroupReading is *)
(* a reply that is read under a function code below 5: neither the code    *)
(* nor the byte count is covered by what Decode has checked until then.    *)
(* Such a reply ends the call it is read by, and confirms no write.        *)
(***************************************************************************)
\* What arrives has the length of what was sent.
LEMMA ArrivingFrame ==
    ASSUME NEW a \in Contents, NEW f \in Arriving(RTUEncode(a))
    PROVE  /\ f \in Seq(Byte) /\ Len(f) = Len(RTUEncode(a)) /\ Len(f) >= 4
           /\ f = RTUEncode(a)
              \/ \E p \in 1..Len(RTUEncode(a)), g \in Byte : f = [RTUEncode(a) EXCEPT ![p] = g]
<1> DEFINE e == RTUEncode(a)
           n == Len(e)
<1>1. /\ e \in Seq(Byte) /\ n \in Nat /\ n >= 4
  BY RTUFrameOf
<1>2. f = e \/ \E p \in 1..n, g \in Byte : f = [e EXCEPT ![p] = g]
  <2>1. DOMAIN e = 1..n
    BY <1>1
  <2>2. Garbles \subseteq Byte
    BY LinkAssumption
  <2> QED BY <2>1, <2>2 DEF Arriving
<1>3. f \in Seq(Byte) /\ Len(f) = n
  <2> HIDE DEF e
  <2> QED BY <1>1, <1>2
<1> QED BY <1>1, <1>2, <1>3

\* A frame that is taken for whole in the length it has is the one that was sent.
LEMMA WholeIsSent ==
    ASSUME NEW a \in Contents, NEW f \in Arriving(RTUEncode(a)), RTUIntact(f),
           RealLength(f) = Len(f)
    PROVE  RTUDecode(f) = a
<1> DEFINE e == RTUEncode(a)
           n == Len(e)
<1>1. SubSeq(e, 1, n - 2) = Body(a)
  BY RTUFrameOf
<1>2. f = e
  BY ArrivingFrame, RTUChangeIsFound
<1>3. RTUDecode(f) = Content(SubSeq(e, 1, n - 2))
  <2>1. Len(f) = n
    BY ArrivingFrame
  <2> HIDE DEF e
  <2> QED BY <2>1, <1>2 DEF RTUDecode
<1> QED BY <1>1, <1>3, ContentOfBody

\* One that is taken for whole in another has a function code below 5.
LEMMA MisreadCode ==
    ASSUME NEW a \in Contents, NEW f \in Arriving(RTUEncode(a)), RTUIntact(f),
           RealLength(f) # Len(f)
    PROVE  RTUDecode(f).code \in 0..4
<1> DEFINE c == f[3]
<1>1. f \in Seq(Byte) /\ Len(f) \in Nat /\ Len(f) >= 4
  BY ArrivingFrame
<1>2. f[2] < 5 /\ RealLength(f) = c + 5
  BY DEF RealLength
<1>3. c \in Byte /\ f[2] \in Byte
  BY <1>1
<1>4. c + 5 <= Len(f)
  BY <1>2 DEF RTUIntact
<1>5. RTUDecode(f) = Content(SubSeq(f, 1, c + 3))
  <2>1. RealLength(f) - 2 = c + 3
    <3>1. c \in Nat
      BY <1>3, FewBits
    <3> HIDE DEF c
    <3> QED BY <1>2, <3>1
  <2>2. RTUDecode(f) = Content(SubSeq(f, 1, RealLength(f) - 2))
    BY DEF RTUDecode
  <2> QED BY <2>1, <2>2
<1>6. c \in Nat /\ f[2] \in Nat
  BY <1>3, FewBits
<1> HIDE DEF c
<1>7. SubSeq(f, 1, c + 3)[2] = f[2]
  BY <1>1, <1>4, <1>6
<1>8. RTUDecode(f).code = f[2]
  BY <1>5, <1>7, ContentCode
<1> QED BY <1>2, <1>6, <1>8

LEMMA AnyStep ==
    ASSUME LinkInv, AnswersVouch, link \in {"rtu", "ascii"}, [Next]_vars
    PROVE  /\ link' = link
           /\ [ReadNext]_readVars \/ (link = "rtu" /\ OnTheLine(Misread))
<1>1. CASE link = "ascii"
  BY <1>1, ASCIIStep
<1>2. CASE link = "rtu"
  <2>1. link' = link
    BY DEF Next, vars
  <2>2. ASSUME ReceiveFrame PROVE LineNext \/ Misread
    <3> DEFINE a == Head(answers)
               e == RTUEncode(a)
    <3>1. calling # NoCall /\ answers # <<>>
      BY <2>2 DEF ReceiveFrame
    <3>2. PICK f \in Arriving(e) : IF RTUIntact(f) THEN Accept(RTUDecode(f)) ELSE ReceiveUnusable
      BY <1>2, <2>2 DEF ReceiveFrame, Encode, Intact, Decode
    <3>3. a \in Contents
      <4>1. a \in Elements(answers)
        BY <3>1, ElementsDropped DEF AnswersVouch
      <4> QED BY <4>1 DEF LinkInv, IsSent
    <3>4. RTUIntact(f) /\ RealLength(f) = Len(f) => RTUDecode(f) = a
      BY <3>2, <3>3, WholeIsSent
    <3>5. Receive \/ ReceiveUnusable \/ Misread
      BY <1>2, <3>1, <3>2, <3>4 DEF Receive, Misread
    <3> QED BY <3>5 DEF LineNext
  <2>3. CallOverLink => CallClient
    BY DEF CallOverLink, CallClient
  <2>4. OnTheLine(ReceiveFrame) => OnTheLine(LineNext) \/ OnTheLine(Misread)
    BY <2>2 DEF OnTheLine
  <2>5. /\ OnTheLine(Timeout) \/ OnTheLine(LoseRequest) \/ OnTheLine(LoseAnswer)
             \/ OnTheLine(Execute) \/ OnTheLine(Except)
           => OnTheLine(LineNext)
        /\ UNCHANGED vars => UNCHANGED readVars
    BY DEF OnTheLine, LineNext, vars
  <2>6. [ReadNext]_readVars \/ OnTheLine(Misread)
    BY <2>3, <2>4, <2>5 DEF Next, ReadNext
  <2> QED BY <1>2, <2>1, <2>6
<1> QED BY <1>1, <1>2

LEMMA MisreadStep ==
    ASSUME ConfirmedInv, LinkInv, Misread
    PROVE  ConfirmedInv' /\ LinkInv'
<1>1. PICK a : a.code \in 0..4 /\ Accept(a)
  <2> DEFINE h == Head(answers)
  <2>1. h \in Elements(answers)
    BY ElementsDropped DEF Misread, ConfirmedInv, AnswersVouch
  <2>2. h \in Contents
    BY <2>1 DEF LinkInv, IsSent
  <2>3. PICK f \in Arriving(RTUEncode(h)) :
          RealLength(f) # Len(f) /\ RTUIntact(f) /\ Accept(RTUDecode(f))
    BY DEF Misread
  <2>4. RTUDecode(f).code \in 0..4
    BY <2>2, <2>3, MisreadCode
  <2> QED BY <2>3, <2>4
<1>2. /\ answers # <<>> /\ answers' = Tail(answers) /\ executed' = executed
      /\ calling # NoCall
  BY <1>1 DEF Misread, Accept
<1>3. Usable(a) => Code[calling.op] \in 0..4
  BY <1>1 DEF Usable
<1>4. \E ok, data, objects :
        /\ Return(ok, data, objects)
        /\ ok => Code[calling.op] \in 0..4
  <2>1. Usable(a) => calling.op # "ReadDeviceIdentification"
    <3>1. Code["ReadDeviceIdentification"] = 43
      BY DEF Code
    <3> QED BY <1>3, <3>1
  <2>2. Fail \/ (Usable(a) /\ Return(TRUE, Results(calling, a.data), {}))
    BY <1>1, <2>1, Zenon DEF Accept
  <2> QED BY <1>3, <2>2 DEF Fail
<1>5. PICK ok, data, objects :
        /\ Return(ok, data, objects)
        /\ ok => Code[calling.op] \in 0..4
  BY <1>4
<1>6. /\ requests' = requests /\ calling' = NoCall
      /\ outcome'.ok = ok /\ outcome'.call = calling
  BY <1>5 DEF Return
<1>7. AnswersVouch'
  BY <1>2, AnswerTaken DEF ConfirmedInv
<1>8. WriteIsConfirmed'
  <2>1. calling.op \in SingleWrites \cup BulkWrites => Code[calling.op] \notin 0..4
    BY DEF SingleWrites, BulkWrites, Code
  <2> QED BY <1>5, <1>6, <2>1 DEF WriteIsConfirmed
<1>9. ConfirmedInv'
  BY <1>6, <1>7, <1>8 DEF ConfirmedInv, RequestsAreFrames, CallingHasCode
<1>10. LinkInv'
  BY <1>2, <1>6, NothingSent DEF ConfirmedInv
<1> QED BY <1>9, <1>10

\* The group that is being read is one of the groups.
BehindInv == ReadingsBehind /\ (reading => NextGroup <= Len(groups))

LEMMA BehindNext ==
    ASSUME GroupingInv, BehindInv, [ReadNext]_readVars \/ OnTheLine(Misread)
    PROVE  BehindInv'
<1>1. PICK S : readings \in Seq(S)
  BY DEF BehindInv, ReadingsBehind, IsSequence
<1>2. Len(readings) \in Nat /\ Len(readings) <= Len(groups) /\ Len(groups) \in Nat
      /\ (reading => Len(readings) + 1 <= Len(groups))
  BY <1>1 DEF BehindInv, ReadingsBehind, NextGroup, GroupingInv, Shape
<1>3. CASE readings' = readings /\ reading' = reading /\ [GroupNext]_groupVars
  <2>1. Len(groups') \in Nat /\ Len(groups) <= Len(groups')
    BY <1>3, GroupsGrow
  <2>2. Len(readings) <= Len(groups') /\ (reading => Len(readings) + 1 <= Len(groups'))
    BY <1>2, <2>1
  <2> QED BY <1>3, <2>2 DEF BehindInv, ReadingsBehind, NextGroup
<1>4. CASE StartGroup
  <2>1. readings' = readings /\ groups' = groups /\ NextGroup <= Len(groups)
    BY <1>4 DEF StartGroup, ReadyToRead, groupVars
  <2> QED BY <2>1 DEF BehindInv, ReadingsBehind, NextGroup
<1>5. ASSUME NEW x, readings' = Append(readings, x), groups' = groups, ~reading',
             NextGroup <= Len(groups)
      PROVE  BehindInv'
  <2> DEFINE t == Append(readings, x)
  <2>1. t \in Seq(S \cup {x}) /\ Len(t) = Len(readings) + 1
    BY <1>1
  <2> HIDE DEF t
  <2>2. IsSequence(t)
    BY <2>1 DEF IsSequence
  <2>3. readings' = t
    BY <1>5 DEF t
  <2> QED BY <1>5, <2>1, <2>2, <2>3 DEF BehindInv, ReadingsBehind, NextGroup
<1>6. CASE SkipGroup
  <2>1. /\ readings' = Append(readings, Unread(groups[NextGroup])) /\ groups' = groups /\ ~reading'
        /\ NextGroup <= Len(groups)
    BY <1>6 DEF SkipGroup, ReadyToRead, groupVars
  <2> QED BY <1>5, <2>1
<1>7. CASE FinishGroup
  <2>1. PICK x : readings' = Append(readings, x)
    BY <1>7 DEF FinishGroup
  <2>2. groups' = groups /\ ~reading' /\ NextGroup <= Len(groups)
    BY <1>7 DEF FinishGroup, groupVars, BehindInv
  <2> QED BY <1>5, <2>1, <2>2
<1>8. \/ StartGroup \/ SkipGroup \/ FinishGroup
      \/ readings' = readings /\ reading' = reading /\ [GroupNext]_groupVars
  BY DEF ReadNext, readVars, Group, CallClient, OnTheLine
<1> QED BY <1>3, <1>4, <1>6, <1>7, <1>8

\* What the steps on either link keep.
FrameInv ==
    /\ PartitionInv /\ BehindInv
    /\ ConfirmedInv /\ LinkInv
    /\ link \in {"rtu", "ascii"}

LEMMA FrameInit == Init => FrameInv
<1> SUFFICES ASSUME Init PROVE FrameInv
  OBVIOUS
<1>1. PartitionInv /\ ConfirmedInv /\ LinkInv /\ link \in {"rtu", "ascii"}
  BY InitPartition, ConfirmedInit, LinkInit DEF Init, ReadInit
<1>2. ReadingsBehind /\ ~reading
  BY ReaderInit DEF Init, ReadInit, ReaderInv
<1> QED BY <1>1, <1>2 DEF FrameInv, BehindInv

LEMMA FrameNext ==
    ASSUME FrameInv, [Next]_vars
    PROVE  FrameInv' /\ [GroupNext]_groupVars /\ [ReadNext \/ OnTheLine(Misread)]_readVars
<1> USE DEF FrameInv
<1>1. /\ link' = link
      /\ [ReadNext]_readVars \/ OnTheLine(Misread)
  BY AnyStep DEF ConfirmedInv
<1>2. GroupingInv /\ ReadingsBehind
  BY DEF PartitionInv, BehindInv
<1>3. [GroupNext]_groupVars
  BY <1>1, GroupStepOfRead DEF OnTheLine
<1>4. PartitionInv'
  BY <1>3, StepPartition
<1>5. BehindInv'
  BY <1>1, <1>2, BehindNext
<1>6. ConfirmedInv' /\ LinkInv'
  <2>1. CASE [ReadNext]_readVars
    BY <1>2, <2>1, ConfirmedKept, LinkNext
  <2>2. CASE OnTheLine(Misread)
    BY <2>2, MisreadStep DEF OnTheLine
  <2> QED BY <1>1, <2>1, <2>2
<1> QED BY <1>1, <1>3, <1>4, <1>5, <1>6

\* Whatever bytes the line changes, over RTU too: the client takes the steps it
\* takes on a line that only loses frames, or misreads a reply that arrives
\* under a function code below 5.
THEOREM FramesFaithful == Spec => FramesAreFaithful
<1>1. Init => FrameInv /\ ReadInit
  BY FrameInit DEF Init
<1>2. FrameInv /\ [Next]_vars => FrameInv' /\ [ReadNext \/ OnTheLine(Misread)]_readVars
  BY FrameNext
<1> QED BY <1>1, <1>2, PTL DEF Spec, FramesAreFaithful

\* Over either link, whatever bytes the line changes: a write that reports
\* success was executed, the registers are grouped as they are without frames,
\* and the two RTU encoders of the library agree on every request.
THEOREM FramesKeepParts ==
    Spec => /\ GroupSpec
            /\ [](EncodersAgree /\ WriteIsConfirmed /\ GroupsContiguous /\ GroupsPartition)
<1> DEFINE All == EncodersAgree /\ WriteIsConfirmed /\ GroupsContiguous /\ GroupsPartition
<1>1. Init => FrameInv /\ GroupInit
  BY FrameInit DEF Init, ReadInit
<1>2. FrameInv /\ [Next]_vars => FrameInv' /\ [GroupNext]_groupVars
  BY FrameNext
<1>3. FrameInv => All
  <2> SUFFICES ASSUME FrameInv PROVE All
    OBVIOUS
  <2>1. WriteIsConfirmed /\ GroupsContiguous /\ GroupsPartition
    BY OnePlace DEF FrameInv, ConfirmedInv, PartitionInv, GroupingInv
  <2>2. EncodersAgree
    <3> SUFFICES ASSUME requests # <<>>
                 PROVE  RTUEncode(requests[Len(requests)]) = Pack(requests[Len(requests)])
      BY DEF EncodersAgree
    <3> DEFINE a == requests[Len(requests)]
    <3>1. PICK S : requests \in Seq(S)
      BY DEF FrameInv, ConfirmedInv, RequestsAreFrames, IsSequence
    <3>2. Len(requests) \in 1..Len(requests)
      BY <3>1
    <3>3. a \in Elements(requests)
      BY <3>2 DEF Elements
    <3>4. a \in Contents
      BY <3>3 DEF FrameInv, LinkInv, IsAsked
    <3> QED BY <3>4, EncodersAreOne
  <2> QED BY <2>1, <2>2
<1> HIDE DEF All
<1>4. Spec => GroupSpec /\ []All
  BY <1>1, <1>2, <1>3, PTL DEF Spec, GroupSpec
<1> QED BY <1>4 DEF All
===============================================================================
