----------------------------- MODULE AsyncProofs -----------------------------
(***************************************************************************)
(* Safety of Async for every limit, high water mark and number of steps,   *)
(* paced or not.                                                            *)
(***************************************************************************)
EXTENDS Async, SequenceTheorems, TLAPS

\* How many requests each phase of main has sent.
PhaseInv ==
  /\ main = "first" => sent < Limit + 2
  /\ main = "second" => sent < Total
  /\ main = "full" => sent = Total

\* A task has a step left, except those a run of run_tasks has not reached yet.
StepsInv ==
  \A i \in 1 .. Len(tasks) :
    (worker # "run" \/ i < it) => tasks[i].remaining_steps > 0

\* What poll returned holds until it is used: main makes requests come and
\* answers go, never the other way round.
ReadyInv ==
  /\ worker = "handle" /\ "out" \in ready => queue # <<>> /\ Len(res) < ResCap
  /\ worker = "handle" /\ "in" \in ready => queue = <<>> /\ req # <<>>
  /\ worker # "exited"

IInv == TypeOK /\ PhaseInv /\ StepsInv /\ ReadyInv

-----------------------------------------------------------------------------
(* Facts about sequences.                                                   *)

\* The last element is one of them, and the front is a shorter sequence.
LEMMA FrontLast ==
  ASSUME NEW S, NEW s \in Seq(S), s # <<>>
  PROVE  Front(s) \in Seq(S) /\ Last(s) \in S
  BY DEF Front, Last

\* RemoveAt takes out one element and keeps the others in their order.
LEMMA RemoveAtProperties ==
  ASSUME NEW S, NEW s \in Seq(S), NEW i \in 1 .. Len(s)
  PROVE  /\ RemoveAt(s, i) \in Seq(S)
         /\ Len(RemoveAt(s, i)) = Len(s) - 1
         /\ \A j \in 1 .. Len(s) - 1 :
              RemoveAt(s, i)[j] = IF j < i THEN s[j] ELSE s[j + 1]
<1> DEFINE a == SubSeq(s, 1, i - 1)
           b == SubSeq(s, i + 1, Len(s))
<1>0. /\ i \in Int /\ Len(s) \in Nat /\ i >= 1 /\ i <= Len(s)
      /\ \A j \in 1 .. Len(s) : s[j] \in S
  BY ElementOfSeq, LenProperties
<1>1. /\ a \in Seq(S) /\ Len(a) = i - 1
      /\ \A j \in 1 .. i - 1 : a[j] = s[j]
  <2>1. 1 \in Int /\ i - 1 \in Int /\ \A j \in 1 .. i - 1 : s[j] \in S
    BY <1>0
  <2>2. /\ a \in Seq(S)
        /\ Len(a) = IF 1 <= i - 1 THEN (i - 1) - 1 + 1 ELSE 0
        /\ \A j \in 1 .. (i - 1) - 1 + 1 : a[j] = s[1 + j - 1]
    BY <2>1, SubSeqProperties
  <2> QED
    BY <1>0, <2>2
<1>2. /\ b \in Seq(S) /\ Len(b) = Len(s) - i
      /\ \A j \in 1 .. Len(s) - i : b[j] = s[j + i]
  <2>1. i + 1 \in Int /\ Len(s) \in Int /\ \A j \in i + 1 .. Len(s) : s[j] \in S
    BY <1>0
  <2>2. /\ b \in Seq(S)
        /\ Len(b) = IF i + 1 <= Len(s) THEN Len(s) - (i + 1) + 1 ELSE 0
        /\ \A j \in 1 .. Len(s) - (i + 1) + 1 : b[j] = s[(i + 1) + j - 1]
    BY <2>1, SubSeqProperties
  <2> QED
    BY <1>0, <2>2
<1> HIDE DEF a, b
<1>3. /\ a \o b \in Seq(S) /\ Len(a \o b) = Len(a) + Len(b)
      /\ \A j \in 1 .. Len(a) + Len(b) :
           (a \o b)[j] = IF j <= Len(a) THEN a[j] ELSE b[j - Len(a)]
  BY <1>1, <1>2, ConcatProperties
<1>4. RemoveAt(s, i) = a \o b
  BY DEF RemoveAt, a, b
<1>5. ASSUME NEW j \in 1 .. Len(s) - 1
      PROVE  (a \o b)[j] = IF j < i THEN s[j] ELSE s[j + 1]
  <2>1. CASE j < i
    <3>1. (a \o b)[j] = a[j]
      BY <1>0, <1>1, <1>2, <1>3, <2>1
    <3> QED
      BY <1>0, <1>1, <2>1, <3>1
  <2>2. CASE ~ (j < i)
    <3>1. (a \o b)[j] = b[j - (i - 1)]
      BY <1>0, <1>1, <1>2, <1>3, <2>2
    <3>2. j - (i - 1) \in 1 .. Len(s) - i /\ j - (i - 1) + i = j + 1
      BY <1>0, <2>2
    <3>3. b[j - (i - 1)] = s[j - (i - 1) + i]
      BY <1>2, <3>2
    <3> QED
      BY <2>2, <3>1, <3>2, <3>3
  <2> QED
    BY <2>1, <2>2
<1> QED
  BY <1>0, <1>1, <1>2, <1>3, <1>4, <1>5

-----------------------------------------------------------------------------
(* The inductive invariant.                                                 *)

\* The program starts in it.
LEMMA InitIInv == Init => IInv
<1> SUFFICES ASSUME Init PROVE IInv
  OBVIOUS
<1>1. <<>> \in Seq(Request) /\ <<>> \in Seq(Task)
  OBVIOUS
<1>2. Len(<<>>) = 0
  OBVIOUS
<1>3. Total \in Nat /\ ReqCap >= 0 /\ ResCap >= 0
  BY LimitAssumption, CapsAssumption DEF Total
<1>4. TypeOK
  <2>0. sent \in 0 .. Total + 1
    BY <1>3 DEF Init
  <2>1. main \in MainPhase /\ stop \in BOOLEAN /\ paced \in BOOLEAN
    BY DEF Init, MainPhase
  <2>2. /\ received \in Seq(Request) /\ queue \in Seq(Request)
        /\ req \in Seq(Request) /\ Len(req) <= ReqCap
        /\ res \in Seq(Request) /\ Len(res) <= ResCap
    BY <1>1, <1>2, <1>3 DEF Init
  <2>3. tasks \in Seq(Task) /\ it \in 1 .. Len(tasks) + 1
    BY <1>1, <1>2 DEF Init
  <2>5. lost \in Seq(Request)
    BY <1>1 DEF Init
  <2>4. worker \in {"poll", "handle", "run", "done", "exited"} /\ ready \subseteq Event
    BY DEF Init
  <2> QED
    BY <2>0, <2>1, <2>2, <2>3, <2>4, <2>5 DEF TypeOK
<1>5. PhaseInv /\ StepsInv /\ ReadyInv
  BY <1>2, LimitAssumption DEF Init, PhaseInv, StepsInv, ReadyInv, Total
<1> QED
  BY <1>4, <1>5 DEF IInv

\* Accepting a request: it keeps its types and only adds to s_req.
LEMMA SendRequestType ==
  ASSUME TypeOK, sent <= Total, NEW next \in MainPhase, SendRequest(next)
  PROVE  /\ req' \in Seq(Request) /\ Len(req') <= ReqCap
         /\ sent' \in 0 .. Total + 1 /\ main' \in MainPhase
         /\ req # <<>> => req' # <<>>
         /\ Len(req') >= Len(req)
         /\ main' = "exited" \/ (main' = next /\ sent' = sent + 1)
<1>0. Limit \in Nat /\ Total \in Nat /\ ReqCap \in Nat
  BY LimitAssumption, CapsAssumption DEF Total
<1>1. CASE Len(req) < ReqCap
  <2>1. req' = Append(req, sent) /\ sent' = sent + 1 /\ main' = next
    BY <1>1 DEF SendRequest
  <2>2. sent \in Request /\ req \in Seq(Request)
    BY <1>0 DEF TypeOK, Request
  <2>3. req' \in Seq(Request) /\ Len(req') = Len(req) + 1
    BY <2>1, <2>2, AppendProperties
  <2>4. Len(req) \in Nat /\ req' # <<>>
    BY <2>2, <2>3, LenProperties, EmptySeq
  <2> QED
    BY <1>0, <1>1, <2>1, <2>2, <2>3, <2>4 DEF TypeOK
<1>2. CASE ~ (Len(req) < ReqCap)
  BY <1>2 DEF SendRequest, TypeOK, MainPhase
<1> QED
  BY <1>1, <1>2

\* The steps of main preserve it.
LEMMA MainIInv ==
  ASSUME IInv, Main
  PROVE  IInv'
<1> USE DEF IInv
<1>0. Limit \in Nat /\ Limit > 0 /\ Total = 2 * Limit + 2 /\ Total \in Nat
      /\ ReqCap \in Nat /\ ResCap \in Nat
  BY LimitAssumption, CapsAssumption DEF Total
<1>1. ASSUME SendFirst
      PROVE  IInv'
  <2> DEFINE next == IF sent + 1 = Limit + 2 THEN "second" ELSE "first"
  <2>1. next \in MainPhase /\ sent <= Total /\ sent < Limit + 2 /\ SendRequest(next)
    BY <1>0, <1>1 DEF SendFirst, PhaseInv, TypeOK, MainPhase
  <2>2. /\ req' \in Seq(Request) /\ Len(req') <= ReqCap
        /\ sent' \in 0 .. Total + 1 /\ main' \in MainPhase
        /\ req # <<>> => req' # <<>>
        /\ main' = "exited" \/ (main' = next /\ sent' = sent + 1)
    BY <2>1, SendRequestType
  <2>4. UNCHANGED <<received, stop, paced, res, workerVars>>
    BY <1>1 DEF SendFirst
  <2>5. TypeOK'
    BY <2>2, <2>4 DEF TypeOK, workerVars
  <2>6. PhaseInv'
    BY <1>0, <2>1, <2>2 DEF PhaseInv, TypeOK, Total
  <2> QED
    BY <2>2, <2>4, <2>5, <2>6 DEF StepsInv, ReadyInv, workerVars
<1>2. ASSUME SendSecond
      PROVE  IInv'
  <2> DEFINE next == IF sent + 1 = Total THEN "full" ELSE "second"
  <2>1. next \in MainPhase /\ sent <= Total /\ sent < Total /\ SendRequest(next)
    BY <1>0, <1>2 DEF SendSecond, PhaseInv, TypeOK, MainPhase
  <2>2. /\ req' \in Seq(Request) /\ Len(req') <= ReqCap
        /\ sent' \in 0 .. Total + 1 /\ main' \in MainPhase
        /\ req # <<>> => req' # <<>>
        /\ main' = "exited" \/ (main' = next /\ sent' = sent + 1)
    BY <2>1, SendRequestType
  <2>4. UNCHANGED <<received, stop, paced, res, workerVars>>
    BY <1>2 DEF SendSecond
  <2>5. TypeOK'
    BY <2>2, <2>4 DEF TypeOK, workerVars
  <2>6. PhaseInv'
    BY <1>0, <2>1, <2>2 DEF PhaseInv, TypeOK
  <2> QED
    BY <2>2, <2>4, <2>5, <2>6 DEF StepsInv, ReadyInv, workerVars
<1>3. ASSUME SendDropped
      PROVE  IInv'
  <2>1. sent = Total /\ sent \in Request /\ req \in Seq(Request)
    BY <1>0, <1>3 DEF SendDropped, PhaseInv, TypeOK, Request
  <2>2. Append(req, sent) \in Seq(Request) /\ Len(Append(req, sent)) = Len(req) + 1
    BY <2>1, AppendProperties
  <2>3. UNCHANGED <<received, stop, paced, res, workerVars>>
        /\ main' \in {"aborted", "reading"}
    BY <1>3 DEF SendDropped
  <2>4. /\ req' \in Seq(Request) /\ Len(req') <= ReqCap
        /\ sent' \in 0 .. Total + 1
        /\ req # <<>> => req' # <<>>
    <3>0. Len(req) \in Nat /\ Len(<<>>) = 0
      BY <2>1, LenProperties
    <3>1. Append(req, sent) # <<>>
      BY <2>2, <3>0
    <3>2. \/ Len(req) < ReqCap /\ req' = Append(req, sent) /\ sent' = sent + 1
          \/ req' = req /\ sent' = sent
      BY <1>3 DEF SendDropped
    <3>3. sent \in 0 .. Total + 1 /\ Len(req) <= ReqCap
      BY DEF TypeOK
    <3>4. sent' \in 0 .. Total + 1
      BY <1>0, <2>1, <3>2
    <3>5. req' \in Seq(Request) /\ (req # <<>> => req' # <<>>)
      BY <2>1, <2>2, <3>1, <3>2
    <3>6. Len(req') <= ReqCap
      BY <1>0, <2>2, <3>0, <3>2, <3>3
    <3> QED
      BY <3>4, <3>5, <3>6
  <2>5. TypeOK'
    BY <2>3, <2>4 DEF TypeOK, workerVars, MainPhase
  <2> QED
    BY <2>3, <2>4, <2>5 DEF PhaseInv, StepsInv, ReadyInv, workerVars
<1>4. ASSUME ReceiveAnswer
      PROVE  IInv'
  <2>1. res \in Seq(Request) /\ res # <<>> /\ received \in Seq(Request)
    BY <1>4 DEF ReceiveAnswer, TypeOK
  <2>2. Head(res) \in Request /\ Tail(res) \in Seq(Request)
        /\ Len(Tail(res)) = Len(res) - 1 /\ Len(res) \in Nat
    BY <2>1, HeadTailProperties, LenProperties
  <2>3. received' \in Seq(Request)
    BY <1>4, <2>1, <2>2, AppendProperties DEF ReceiveAnswer
  <2>4. res' \in Seq(Request) /\ Len(res') < Len(res) /\ Len(res') <= ResCap
    BY <1>0, <1>4, <2>2 DEF ReceiveAnswer, TypeOK
  <2>5. UNCHANGED <<main, sent, stop, paced, req, workerVars>>
    BY <1>4 DEF ReceiveAnswer
  <2>6. TypeOK'
    BY <2>3, <2>4, <2>5 DEF TypeOK, workerVars
  <2>7. Len(res) < ResCap => Len(res') < ResCap
    BY <1>0, <2>2, <2>4 DEF TypeOK
  <2> QED
    BY <2>5, <2>6, <2>7 DEF PhaseInv, StepsInv, ReadyInv, workerVars
<1>5. ASSUME PublishStop
      PROVE  IInv'
  BY <1>5 DEF PublishStop, TypeOK, PhaseInv, StepsInv, ReadyInv, MainPhase,
              workerVars
<1>6. ASSUME Join
      PROVE  IInv'
  BY <1>6 DEF Join, TypeOK, PhaseInv, StepsInv, ReadyInv, MainPhase, workerVars
<1> QED
  BY <1>1, <1>2, <1>3, <1>4, <1>5, <1>6 DEF Main

-----------------------------------------------------------------------------
(* The steps of the worker.                                                 *)

\* Sending an answer keeps the sockets and the queue typed, whether it is
\* sent or delayed.
LEMMA SendAnswerType ==
  ASSUME TypeOK, NEW id \in Request, SendAnswer(id)
  PROVE  /\ res' \in Seq(Request) /\ Len(res') <= ResCap
         /\ queue' \in Seq(Request)
<1>0. ResCap \in Nat /\ Len(res) \in Nat
  BY CapsAssumption, LenProperties DEF TypeOK
<1>1. CASE Len(res) < ResCap
  <2>1. res' = Append(res, id) /\ queue' = queue
    BY <1>1 DEF SendAnswer
  <2>2. res' \in Seq(Request) /\ Len(res') = Len(res) + 1
    BY <2>1, AppendProperties DEF TypeOK
  <2> QED
    BY <1>0, <1>1, <2>1, <2>2 DEF TypeOK
<1>2. CASE ~ (Len(res) < ResCap)
  <2>1. queue' = Append(queue, id) /\ res' = res
    BY <1>2 DEF SendAnswer
  <2> QED
    BY <2>1, AppendProperties DEF TypeOK
<1> QED
  BY <1>1, <1>2

\* poll returns only what was asked for and is true, and on a timeout every
\* task takes a step it still has.
LEMMA PollIInv ==
  ASSUME IInv, Poll
  PROVE  IInv'
<1> USE DEF IInv
<1>0. /\ UNCHANGED <<main, sent, received, stop, paced, req, res, queue, lost>>
      /\ worker = "poll"
  BY DEF Poll, mainVars
<1>1. ready' = Interest \cap Happening /\ ready' \subseteq Event
  BY DEF Poll, Interest, Happening, Event
<1>2. /\ "out" \in ready' => queue # <<>> /\ Len(res) < ResCap
      /\ "in" \in ready' => queue = <<>> /\ req # <<>>
  BY <1>1 DEF Interest, Happening
<1>3. CASE ready' # {}
  <2>1. worker' = "handle" /\ UNCHANGED <<tasks, it>>
    BY <1>3 DEF Poll
  <2>2. TypeOK'
    BY <1>0, <1>1, <2>1 DEF TypeOK
  <2> QED
    BY <1>0, <1>2, <2>1, <2>2 DEF PhaseInv, StepsInv, ReadyInv
<1>4. CASE ready' = {}
  <2>1. /\ worker' = "run" /\ it' = 1
        /\ tasks' = [i \in 1 .. Len(tasks) |->
                       [tasks[i] EXCEPT !.remaining_steps = @ - 1]]
    BY <1>4 DEF Poll
  <2>2. Len(tasks) \in Nat /\ MaxSteps \in Nat
    BY StepsAssumption, LenProperties DEF TypeOK
  <2>3. ASSUME NEW i \in 1 .. Len(tasks)
        PROVE  [tasks[i] EXCEPT !.remaining_steps = @ - 1] \in Task
    <3>1. tasks[i] \in Task
      BY ElementOfSeq DEF TypeOK
    <3>2. tasks[i].remaining_steps > 0
      BY <1>0 DEF StepsInv
    <3>3. tasks[i].remaining_steps - 1 \in 0 .. MaxSteps - 1
      BY <2>2, <3>1, <3>2 DEF Task
    <3> QED
      BY <3>1, <3>3 DEF Task
  <2>4. tasks' \in [1 .. Len(tasks) -> Task]
    BY <2>1, <2>3
  <2>5. tasks' \in Seq(Task) /\ Len(tasks') = Len(tasks)
    BY <2>2, <2>4
  <2>6. it' \in 1 .. Len(tasks') + 1
    BY <2>1, <2>2, <2>5
  <2>7. TypeOK'
    BY <1>0, <1>1, <2>1, <2>5, <2>6 DEF TypeOK
  <2>8. StepsInv'
    BY <2>1, <2>2, <2>5 DEF StepsInv
  <2> QED
    BY <1>0, <2>1, <2>7, <2>8 DEF PhaseInv, ReadyInv
<1> QED
  BY <1>3, <1>4

\* A finished task is taken out: the tasks before the iterator are still the
\* ones that have a step left.
LEMMA RunTaskIInv ==
  ASSUME IInv, RunTask
  PROVE  IInv'
<1> USE DEF IInv
<1>0. /\ UNCHANGED <<main, sent, received, stop, paced, req, worker, ready, lost>>
      /\ worker = "run" /\ it <= Len(tasks)
  BY DEF RunTask, mainVars
<1>1. /\ Len(tasks) \in Nat /\ it \in 1 .. Len(tasks) /\ tasks[it] \in Task
      /\ \A i \in 1 .. Len(tasks) : tasks[i] \in Task
  BY <1>0, ElementOfSeq, LenProperties DEF TypeOK
<1>2. CASE IsDone(tasks[it])
  <2>1. SendAnswer(tasks[it].id) /\ tasks' = RemoveAt(tasks, it) /\ it' = it
    BY <1>2 DEF RunTask
  <2>2. tasks[it].id \in Request
    BY <1>1 DEF Task
  <2>3. res' \in Seq(Request) /\ Len(res') <= ResCap /\ queue' \in Seq(Request)
    BY <2>1, <2>2, SendAnswerType
  <2>4. /\ tasks' \in Seq(Task) /\ Len(tasks') = Len(tasks) - 1
        /\ \A j \in 1 .. Len(tasks) - 1 :
             tasks'[j] = IF j < it THEN tasks[j] ELSE tasks[j + 1]
    BY <1>1, <2>1, RemoveAtProperties DEF TypeOK
  <2>5. it' \in 1 .. Len(tasks') + 1
    BY <1>1, <2>1, <2>4
  <2>6. TypeOK'
    BY <1>0, <2>3, <2>4, <2>5 DEF TypeOK
  <2>7. \A i \in 1 .. Len(tasks') : i < it' => tasks'[i].remaining_steps > 0
    BY <1>1, <2>1, <2>4 DEF StepsInv
  <2> QED
    BY <1>0, <2>6, <2>7 DEF PhaseInv, StepsInv, ReadyInv
<1>3. CASE ~ IsDone(tasks[it])
  <2>1. it' = it + 1 /\ UNCHANGED <<res, tasks, queue>>
    BY <1>3 DEF RunTask
  <2>2. it' \in 1 .. Len(tasks') + 1
    BY <1>1, <2>1
  <2>3. TypeOK'
    BY <1>0, <2>1, <2>2 DEF TypeOK
  <2>4. tasks[it].remaining_steps \in Nat /\ tasks[it].remaining_steps # 0
    BY <1>1, <1>3, StepsAssumption DEF IsDone, Task
  <2>5. \A i \in 1 .. Len(tasks') : i < it' => tasks'[i].remaining_steps > 0
    BY <1>1, <2>1, <2>4 DEF StepsInv
  <2> QED
    BY <1>0, <2>1, <2>3, <2>5 DEF PhaseInv, StepsInv, ReadyInv
<1> QED
  BY <1>2, <1>3

\* At the end of run_tasks every task has a step left.
LEMMA TasksRunIInv ==
  ASSUME IInv, TasksRun
  PROVE  IInv'
<1> USE DEF IInv
<1>0. /\ UNCHANGED <<main, sent, received, stop, paced, req, res, ready, tasks, queue,
                   lost>>
      /\ worker = "run" /\ it > Len(tasks) /\ worker' = "poll" /\ it' = 1
      /\ Len(tasks) \in Nat
  BY LenProperties DEF TasksRun, mainVars, TypeOK
<1>1. it' \in 1 .. Len(tasks') + 1
  BY <1>0
<1>2. TypeOK'
  BY <1>0, <1>1 DEF TypeOK
<1>3. \A i \in 1 .. Len(tasks') : tasks'[i].remaining_steps > 0
  BY <1>0 DEF StepsInv, TypeOK
<1> QED
  BY <1>0, <1>2, <1>3 DEF PhaseInv, StepsInv, ReadyInv

\* The newest delayed answer goes to a socket that has room for it.
LEMMA HandleOutIInv ==
  ASSUME IInv, HandleOut
  PROVE  IInv' /\ worker' = "poll"
<1> USE DEF IInv
<1>0. /\ UNCHANGED <<main, sent, received, stop, paced, req, ready, tasks, it, lost>>
      /\ queue' = Front(queue) /\ worker = "handle" /\ "out" \in ready
  BY DEF HandleOut, mainVars
<1>1. queue \in Seq(Request) /\ queue # <<>> /\ Len(res) < ResCap
  BY <1>0 DEF ReadyInv, TypeOK
<1>2. res' = Append(res, Last(queue)) /\ worker' = "poll"
  BY <1>1 DEF HandleOut
<1>3. Front(queue) \in Seq(Request) /\ Last(queue) \in Request
  BY <1>1, FrontLast
<1>4. res' \in Seq(Request) /\ Len(res') = Len(res) + 1 /\ Len(res) \in Nat
  BY <1>2, <1>3, AppendProperties, LenProperties DEF TypeOK
<1>5. Len(res') <= ResCap
  BY <1>1, <1>4, CapsAssumption
<1>6. TypeOK'
  BY <1>0, <1>2, <1>3, <1>4, <1>5 DEF TypeOK
<1> QED
  BY <1>0, <1>2, <1>6 DEF PhaseInv, StepsInv, ReadyInv

\* A new task has at least one step and at most MaxSteps - 1.
LEMMA HandleInIInv ==
  ASSUME IInv, HandleIn
  PROVE  IInv' /\ queue = <<>> /\ queue' = queue
<1> USE DEF IInv
<1>0. /\ UNCHANGED <<main, sent, received, stop, paced, res, ready, it, queue,
                   lost>>
      /\ req' = Tail(req) /\ worker = "handle" /\ worker' = "poll"
      /\ "in" \in ready
  BY DEF HandleIn, mainVars
<1>1. req \in Seq(Request) /\ req # <<>> /\ queue = <<>>
  BY <1>0 DEF ReadyInv, TypeOK
<1>2. PICK steps \in 1 .. MaxSteps - 1 :
        tasks' = Append(tasks, [id |-> Head(req), remaining_steps |-> steps])
  BY DEF HandleIn
<1> DEFINE task == [id |-> Head(req), remaining_steps |-> steps]
<1>3. Head(req) \in Request /\ Tail(req) \in Seq(Request)
      /\ Len(Tail(req)) = Len(req) - 1 /\ Len(req) \in Nat
  BY <1>1, HeadTailProperties, LenProperties
<1>4. task \in Task /\ steps > 0 /\ task.remaining_steps = steps
  BY <1>3, StepsAssumption DEF Task
<1> HIDE DEF task
<1>5. tasks' = Append(tasks, task)
  BY <1>2 DEF task
<1>6. /\ tasks' \in Seq(Task) /\ Len(tasks') = Len(tasks) + 1
      /\ Len(tasks) \in Nat
      /\ \A i \in 1 .. Len(tasks) : tasks'[i] = tasks[i]
      /\ tasks'[Len(tasks) + 1] = task
  BY <1>4, <1>5, AppendProperties, LenProperties DEF TypeOK
<1>7. Len(req') <= ReqCap
  BY <1>0, <1>3, CapsAssumption DEF TypeOK
<1>8. it' \in 1 .. Len(tasks') + 1
  BY <1>0, <1>6 DEF TypeOK
<1>9. TypeOK'
  BY <1>0, <1>3, <1>6, <1>7, <1>8 DEF TypeOK
<1>10. \A i \in 1 .. Len(tasks') : tasks'[i].remaining_steps > 0
  <2>1. \A i \in 1 .. Len(tasks) : tasks[i].remaining_steps > 0
    BY <1>0 DEF StepsInv
  <2>2. \A i \in 1 .. Len(tasks') : i \in 1 .. Len(tasks) \/ i = Len(tasks) + 1
    BY <1>6
  <2> QED
    BY <1>4, <1>6, <2>1, <2>2
<1> QED
  BY <1>0, <1>1, <1>9, <1>10 DEF PhaseInv, StepsInv, ReadyInv

\* The requests of the tasks, in their order.
LEMMA TaskIdsType ==
  ASSUME tasks \in Seq(Task)
  PROVE  /\ TaskIds \in Seq(Request) /\ Len(TaskIds) = Len(tasks)
         /\ \A i \in 1 .. Len(tasks) : TaskIds[i] = tasks[i].id
<1>1. Len(tasks) \in Nat /\ \A i \in 1 .. Len(tasks) : tasks[i] \in Task
  BY LenProperties, ElementOfSeq
<1>2. \A t \in Task : t.id \in Request
  BY DEF Task
<1> QED
  BY <1>1, <1>2 DEF TaskIds

\* The stop leaves nothing of the worker's behind.
LEMMA HandleStopIInv ==
  ASSUME IInv, HandleStop
  PROVE  IInv'
<1> USE DEF IInv
<1>0. /\ UNCHANGED <<main, sent, received, stop, paced, req, res, ready>>
      /\ worker' = "done" /\ tasks' = <<>> /\ it' = 1 /\ queue' = <<>>
      /\ lost' = TaskIds \o queue
  BY DEF HandleStop, mainVars
<1>1. <<>> \in Seq(Request) /\ <<>> \in Seq(Task) /\ Len(<<>>) = 0
  OBVIOUS
<1>2. lost' \in Seq(Request)
  BY <1>0, TaskIdsType, ConcatProperties DEF TypeOK
<1>3. it' \in 1 .. Len(tasks') + 1
  BY <1>0, <1>1
<1>4. TypeOK'
  BY <1>0, <1>1, <1>2, <1>3 DEF TypeOK
<1>5. StepsInv'
  BY <1>0, <1>1 DEF StepsInv
<1> QED
  BY <1>0, <1>4, <1>5 DEF PhaseInv, ReadyInv

\* The steps of the worker preserve it.
LEMMA WorkerIInv ==
  ASSUME IInv, Worker
  PROVE  IInv'
<1> QED
  BY HandleStopIInv, PollIInv, RunTaskIInv, TasksRunIInv, HandleOutIInv, HandleInIInv
     DEF Worker

-----------------------------------------------------------------------------
(* Theorems.                                                                *)

\* A step that changes nothing preserves it.
LEMMA StutterIInv ==
  ASSUME IInv, UNCHANGED vars
  PROVE  IInv'
  BY DEF IInv, TypeOK, PhaseInv, StepsInv, ReadyInv, vars, mainVars, workerVars

\* IInv is an invariant.
THEOREM Invariance == Spec => []IInv
<1>1. IInv /\ [Next]_vars => IInv'
  BY MainIInv, WorkerIInv, StutterIInv DEF Next
<1> QED
  BY <1>1, InitIInv, PTL DEF Spec

\* Every variable has its type: no socket ever holds more than it takes and the
\* iterator of run_tasks stays within the tasks, whatever is erased under it.
THEOREM TypeCorrect == Spec => []TypeOK
<1>1. IInv => TypeOK
  BY DEF IInv
<1> QED
  BY <1>1, Invariance, PTL

\* send() never finds s_res full: what poll reported is still true, for every
\* limit and whatever main does in between.
THEOREM DelayedSendNeverBlocks == Spec => []SendNeverBlocks
<1>1. IInv => SendNeverBlocks
  BY DEF IInv, ReadyInv, SendNeverBlocks
<1> QED
  BY <1>1, Invariance, PTL

\* No request is taken out of s_req while an answer is delayed.
THEOREM BackPressure == Spec => TakesOnlyWhenEmpty
<1>1. ASSUME IInv, [Next]_vars, Len(req') < Len(req)
      PROVE  queue = <<>> /\ queue' = <<>>
  <2>1. Len(req) \in Nat /\ TypeOK /\ PhaseInv
    BY <1>1, LenProperties DEF IInv, TypeOK
  <2>2. CASE HandleIn
    BY <1>1, <2>2, HandleInIInv
  <2>3. CASE SendFirst \/ SendSecond \/ SendDropped
    <3>1. req' = req \/ req' = Append(req, sent)
      BY <2>3 DEF SendFirst, SendSecond, SendDropped, SendRequest
    <3>2. sent \in Request
      BY <2>1, <2>3, LimitAssumption
         DEF SendFirst, SendSecond, SendDropped, PhaseInv, TypeOK, Request, Total
    <3>3. Len(Append(req, sent)) = Len(req) + 1
      BY <2>1, <3>2, AppendProperties DEF TypeOK
    <3> QED
      BY <1>1, <2>1, <3>1, <3>3
  <2>4. CASE /\ ~ HandleIn
             /\ ~ (SendFirst \/ SendSecond \/ SendDropped)
    <3>1. req' = req
      BY <1>1, <2>4 DEF Next, Main, Worker, ReceiveAnswer, PublishStop, Join, Poll,
         RunTask, TasksRun, HandleStop, HandleOut, vars
    <3> QED
      BY <1>1, <2>1, <3>1
  <2> QED
    BY <2>2, <2>3, <2>4
<1>2. IInv /\ [Next]_vars => [Len(req') < Len(req) => queue = <<>> /\ queue' = <<>>]_vars
  BY <1>1
<1> QED
  BY <1>2, Invariance, PTL DEF Spec, TakesOnlyWhenEmpty

-----------------------------------------------------------------------------
(* No request is lost or doubled.  Every step moves one request from one    *)
(* place to another, adds the next one, or moves none.                      *)

Ids(s) == {t.id : t \in ToSet(s)}

Everywhere == ToSet(req) \cup Ids(tasks) \cup ToSet(queue) \cup ToSet(res)
                \cup ToSet(received) \cup ToSet(lost)

Places ==
  Len(req) + Len(tasks) + Len(queue) + Len(res) + Len(received) + Len(lost)

OnceInv == Everywhere = 0 .. sent - 1 /\ Places = sent

\* What is in a sequence, by its places.
LEMMA Elements ==
  ASSUME NEW S, NEW s \in Seq(S)
  PROVE  ToSet(s) = {s[i] : i \in 1 .. Len(s)} /\ Len(s) \in Nat
BY DEF ToSet

Concat(a, b) == a \o b

\* Two sequences have the elements and the length of both.
LEMMA ConcatElements ==
  ASSUME NEW S, NEW a \in Seq(S), NEW b \in Seq(S)
  PROVE  /\ Concat(a, b) \in Seq(S) /\ Len(Concat(a, b)) = Len(a) + Len(b)
         /\ ToSet(Concat(a, b)) = ToSet(a) \cup ToSet(b)
<1> DEFINE c == Concat(a, b)
<1>1. /\ c \in Seq(S) /\ Len(c) = Len(a) + Len(b)
      /\ \A i \in 1 .. Len(a) + Len(b) :
           c[i] = IF i <= Len(a) THEN a[i] ELSE b[i - Len(a)]
  BY ConcatProperties DEF Concat
<1> HIDE DEF c
<1>2. /\ Len(a) \in Nat /\ Len(b) \in Nat
      /\ ToSet(a) = {a[i] : i \in 1 .. Len(a)}
      /\ ToSet(b) = {b[i] : i \in 1 .. Len(b)}
      /\ ToSet(c) = {c[i] : i \in 1 .. Len(c)}
  BY <1>1, Elements
<1>3. ASSUME NEW x \in ToSet(c) PROVE x \in ToSet(a) \cup ToSet(b)
  <2>1. PICK i \in 1 .. Len(a) + Len(b) : x = c[i]
    BY <1>1, <1>2
  <2>2. CASE i <= Len(a)
    BY <1>1, <1>2, <2>1, <2>2
  <2>3. CASE ~ (i <= Len(a))
    <3>1. i - Len(a) \in 1 .. Len(b) /\ x = b[i - Len(a)]
      BY <1>1, <1>2, <2>1, <2>3
    <3> QED
      BY <1>2, <3>1
  <2> QED
    BY <2>2, <2>3
<1>4. ASSUME NEW i \in 1 .. Len(a) PROVE a[i] \in ToSet(c)
  <2>1. i \in 1 .. Len(c) /\ c[i] = a[i]
    BY <1>1, <1>2
  <2> QED
    BY <1>2, <2>1
<1>5. ASSUME NEW i \in 1 .. Len(b) PROVE b[i] \in ToSet(c)
  <2>1. Len(a) + i \in 1 .. Len(c) /\ c[Len(a) + i] = b[i]
    BY <1>1, <1>2
  <2> QED
    BY <1>2, <2>1
<1>6. ToSet(c) = ToSet(a) \cup ToSet(b)
  BY <1>2, <1>3, <1>4, <1>5
<1> QED
  BY <1>1, <1>6 DEF c

\* An element more at the end.
LEMMA AppendElements ==
  ASSUME NEW S, NEW s \in Seq(S), NEW x \in S
  PROVE  /\ Append(s, x) \in Seq(S) /\ Len(Append(s, x)) = Len(s) + 1
         /\ ToSet(Append(s, x)) = ToSet(s) \cup {x}
<1> DEFINE e == <<x>>
<1>1. e \in Seq(S) /\ Len(e) = 1 /\ ToSet(e) = {x}
  BY DEF ToSet
<1>2. Append(s, x) = Concat(s, e)
  BY AppendIsConcat DEF Concat
<1> HIDE DEF e
<1>3. /\ Concat(s, e) \in Seq(S) /\ Len(Concat(s, e)) = Len(s) + Len(e)
      /\ ToSet(Concat(s, e)) = ToSet(s) \cup ToSet(e)
  <2>1. e \in Seq(S)
    BY <1>1
  <2> QED
    BY <2>1, ConcatElements
<1> QED
  BY <1>1, <1>2, <1>3

\* RemoveAt takes one element out and no other.
LEMMA RemoveAtElements ==
  ASSUME NEW S, NEW s \in Seq(S), NEW i \in 1 .. Len(s)
  PROVE  /\ RemoveAt(s, i) \in Seq(S) /\ Len(RemoveAt(s, i)) = Len(s) - 1
         /\ ToSet(s) = ToSet(RemoveAt(s, i)) \cup {s[i]}
<1> DEFINE r == RemoveAt(s, i)
<1>1. /\ r \in Seq(S) /\ Len(r) = Len(s) - 1
      /\ \A j \in 1 .. Len(s) - 1 : r[j] = IF j < i THEN s[j] ELSE s[j + 1]
  BY RemoveAtProperties
<1> HIDE DEF r
<1>2. /\ Len(s) \in Nat /\ ToSet(s) = {s[j] : j \in 1 .. Len(s)}
      /\ ToSet(r) = {r[j] : j \in 1 .. Len(r)}
  BY <1>1, Elements
<1>3. ASSUME NEW j \in 1 .. Len(s) PROVE s[j] \in ToSet(r) \cup {s[i]}
  <2>1. CASE j < i
    <3>1. j \in 1 .. Len(r) /\ r[j] = s[j]
      BY <1>1, <1>2, <2>1
    <3> QED
      BY <1>2, <3>1
  <2>2. CASE j > i
    <3>1. j - 1 \in 1 .. Len(r) /\ r[j - 1] = s[j]
      BY <1>1, <1>2, <2>2
    <3> QED
      BY <1>2, <3>1
  <2> QED
    BY <1>2, <2>1, <2>2
<1>4. ASSUME NEW j \in 1 .. Len(r) PROVE r[j] \in ToSet(s)
  <2>1. \E k \in 1 .. Len(s) : r[j] = s[k]
    BY <1>1, <1>2
  <2> QED
    BY <1>2, <2>1
<1>5. ToSet(s) = ToSet(r) \cup {s[i]}
  BY <1>2, <1>3, <1>4
<1> QED
  BY <1>1, <1>5 DEF r

\* The same at the front.
LEMMA HeadElements ==
  ASSUME NEW S, NEW s \in Seq(S), s # <<>>
  PROVE  /\ Head(s) \in S /\ Tail(s) \in Seq(S) /\ Len(Tail(s)) = Len(s) - 1
         /\ ToSet(s) = ToSet(Tail(s)) \cup {Head(s)}
<1> DEFINE r == Tail(s)
<1>1. /\ Head(s) \in S /\ r \in Seq(S) /\ Len(r) = Len(s) - 1
      /\ Head(s) = s[1] /\ Len(s) \in Nat /\ Len(s) > 0
      /\ \A j \in 1 .. Len(s) - 1 : r[j] = s[j + 1]
  <2>1. Len(s) \in Nat /\ Len(s) # 0
    BY EmptySeq, LenProperties
  <2> QED
    BY <2>1, HeadTailProperties
<1> HIDE DEF r
<1>2. /\ ToSet(s) = {s[j] : j \in 1 .. Len(s)}
      /\ ToSet(r) = {r[j] : j \in 1 .. Len(r)}
  BY <1>1, Elements
<1>3. ASSUME NEW j \in 1 .. Len(s) PROVE s[j] \in ToSet(r) \cup {s[1]}
  <2>1. CASE j > 1
    <3>1. j - 1 \in 1 .. Len(r) /\ r[j - 1] = s[j]
      BY <1>1, <2>1
    <3> QED
      BY <1>2, <3>1
  <2> QED
    BY <1>1, <2>1
<1>4. ASSUME NEW j \in 1 .. Len(r) PROVE r[j] \in ToSet(s)
  <2>1. j + 1 \in 1 .. Len(s) /\ r[j] = s[j + 1]
    BY <1>1
  <2> QED
    BY <1>2, <2>1
<1>5. s[1] \in ToSet(s)
  BY <1>1, <1>2
<1>6. ToSet(s) = ToSet(r) \cup {s[1]}
  BY <1>2, <1>3, <1>4, <1>5
<1> QED
  BY <1>1, <1>6 DEF r

\* The same at the end.
LEMMA FrontElements ==
  ASSUME NEW S, NEW s \in Seq(S), s # <<>>
  PROVE  /\ Last(s) \in S /\ Front(s) \in Seq(S) /\ Len(Front(s)) = Len(s) - 1
         /\ ToSet(s) = ToSet(Front(s)) \cup {Last(s)}
<1>1. Len(s) \in Nat /\ Len(s) > 0
  <2>1. Len(s) \in Nat /\ Len(s) # 0
    BY EmptySeq, LenProperties
  <2> QED
    BY <2>1
<1> DEFINE r == Front(s)
           n == Len(s)
<1>2. /\ r \in Seq(S) /\ Len(r) = n - 1 /\ \A j \in 1 .. n - 1 : r[j] = s[j]
  <2>1. r = SubSeq(s, 1, n - 1) /\ 1 \in Int /\ n - 1 \in Int
        /\ \A j \in 1 .. n - 1 : s[j] \in S
    BY <1>1, ElementOfSeq DEF Front
  <2>2. /\ SubSeq(s, 1, n - 1) \in Seq(S)
        /\ Len(SubSeq(s, 1, n - 1)) = IF 1 <= n - 1 THEN (n - 1) - 1 + 1 ELSE 0
        /\ \A j \in 1 .. (n - 1) - 1 + 1 : SubSeq(s, 1, n - 1)[j] = s[1 + j - 1]
    BY <2>1, SubSeqProperties
  <2> QED
    <3>1. \A j \in 1 .. n - 1 : j \in 1 .. (n - 1) - 1 + 1 /\ 1 + j - 1 = j
      BY <1>1
    <3>2. r \in Seq(S) /\ \A j \in 1 .. n - 1 : r[j] = s[j]
      BY <2>1, <2>2, <3>1
    <3>3. ASSUME NEW k \in Nat, k > 0
          PROVE  (IF 1 <= k - 1 THEN (k - 1) - 1 + 1 ELSE 0) = k - 1
      BY <3>3
    <3>4. (IF 1 <= n - 1 THEN (n - 1) - 1 + 1 ELSE 0) = n - 1
      BY <1>1, <3>3, Zenon
    <3>5. Len(r) = n - 1
      BY <2>1, <2>2, <3>4, Zenon
    <3> QED
      BY <3>2, <3>5
<1>3. Last(s) = s[n] /\ Last(s) \in S
  BY <1>1, ElementOfSeq DEF Last
<1> HIDE DEF r
<1>4. /\ ToSet(s) = {s[j] : j \in 1 .. n} /\ ToSet(r) = {r[j] : j \in 1 .. Len(r)}
  BY <1>2, Elements
<1>5. ASSUME NEW j \in 1 .. n PROVE s[j] \in ToSet(r) \cup {s[n]}
  <2>1. CASE j < n
    <3>1. j \in 1 .. Len(r) /\ r[j] = s[j]
      BY <1>1, <1>2, <2>1
    <3> QED
      BY <1>4, <3>1
  <2> QED
    BY <1>1, <2>1
<1>6. ASSUME NEW j \in 1 .. Len(r) PROVE r[j] \in ToSet(s)
  <2>1. j \in 1 .. n /\ r[j] = s[j]
    BY <1>1, <1>2
  <2> QED
    BY <1>4, <2>1
<1>7. s[n] \in ToSet(s)
  BY <1>1, <1>4
<1>8. ToSet(s) = ToSet(r) \cup {s[n]}
  BY <1>4, <1>5, <1>6, <1>7
<1> QED
  BY <1>2, <1>3, <1>8 DEF r

-----------------------------------------------------------------------------
(* The invariant.                                                           *)

\* What TypeOK says of the places.
LEMMA PlacesType ==
  ASSUME TypeOK
  PROVE  /\ req \in Seq(Request) /\ res \in Seq(Request) /\ queue \in Seq(Request)
         /\ received \in Seq(Request) /\ lost \in Seq(Request)
         /\ tasks \in Seq(Task) /\ sent \in Nat
         /\ Len(req) \in Nat /\ Len(res) \in Nat /\ Len(queue) \in Nat
         /\ Len(received) \in Nat /\ Len(lost) \in Nat /\ Len(tasks) \in Nat
<1>1. Total \in Nat
  BY LimitAssumption DEF Total
<1> QED
  BY <1>1, LenProperties DEF TypeOK

\* s_req takes the next request.
LEMMA AcceptOnce ==
  ASSUME TypeOK, OnceInv, sent <= Total,
         \/ req' = Append(req, sent) /\ sent' = sent + 1
         \/ UNCHANGED <<req, sent>>,
         UNCHANGED <<tasks, queue, res, received, lost>>
  PROVE  OnceInv'
<1>1. CASE UNCHANGED <<req, sent>>
  BY <1>1 DEF OnceInv, Everywhere, Places
<1>2. CASE req' = Append(req, sent) /\ sent' = sent + 1
  <2>1. sent \in Request
    BY PlacesType DEF Request
  <2>2. Len(req') = Len(req) + 1 /\ ToSet(req') = ToSet(req) \cup {sent}
    BY <1>2, <2>1, PlacesType, AppendElements
  <2>3. 0 .. sent' - 1 = (0 .. sent - 1) \cup {sent}
    BY <1>2, PlacesType
  <2>4. Everywhere' = Everywhere \cup {sent}
    BY <2>2 DEF Everywhere
  <2>5. Places' = Places + 1
    BY <2>2, PlacesType DEF Places
  <2> QED
    BY <1>2, <2>3, <2>4, <2>5 DEF OnceInv
<1> QED
  BY <1>1, <1>2

\* The oldest answer goes from s_res to main.
LEMMA ReceiveOnce ==
  ASSUME TypeOK, OnceInv, ReceiveAnswer
  PROVE  OnceInv'
<1>1. /\ res # <<>> /\ res' = Tail(res) /\ received' = Append(received, Head(res))
      /\ UNCHANGED <<sent, req, tasks, queue, lost>>
  BY DEF ReceiveAnswer, workerVars
<1>2. /\ Head(res) \in Request /\ Len(res') = Len(res) - 1
      /\ ToSet(res) = ToSet(res') \cup {Head(res)}
  BY <1>1, PlacesType, HeadElements
<1>3. /\ Len(received') = Len(received) + 1
      /\ ToSet(received') = ToSet(received) \cup {Head(res)}
  BY <1>1, <1>2, PlacesType, AppendElements
<1>4. Everywhere' = Everywhere
  BY <1>1, <1>2, <1>3 DEF Everywhere
<1>5. Places' = Places
  BY <1>1, <1>2, <1>3, PlacesType DEF Places
<1> QED
  BY <1>1, <1>4, <1>5 DEF OnceInv

\* On a timeout each task takes a step and keeps its request.
LEMMA PollOnce ==
  ASSUME IInv, OnceInv, Poll
  PROVE  OnceInv'
<1>1. UNCHANGED <<sent, received, req, res, queue, lost>>
  BY DEF Poll, mainVars
<1>2. Len(tasks') = Len(tasks) /\ Ids(tasks') = Ids(tasks)
  <2>1. CASE tasks' = tasks
    BY <2>1
  <2>2. CASE tasks' = [i \in 1 .. Len(tasks) |->
                         [tasks[i] EXCEPT !.remaining_steps = @ - 1]]
    <3>1. tasks \in Seq(Task) /\ Len(tasks) \in Nat
      BY PlacesType DEF IInv
    <3>2. tasks' \in Seq(Task)
      BY PollIInv DEF IInv, TypeOK
    <3>3. Len(tasks') = Len(tasks)
      BY <2>2, <3>1
    <3>4. ASSUME NEW i \in 1 .. Len(tasks)
          PROVE  tasks'[i].id = tasks[i].id
      <4>1. tasks[i] \in Task
        BY <3>1, ElementOfSeq
      <4> QED
        BY <2>2, <4>1 DEF Task
    <3>5. /\ ToSet(tasks) = {tasks[i] : i \in 1 .. Len(tasks)}
          /\ ToSet(tasks') = {tasks'[i] : i \in 1 .. Len(tasks)}
      BY <3>1, <3>2, <3>3, Elements
    <3>6. /\ Ids(tasks) = {tasks[i].id : i \in 1 .. Len(tasks)}
          /\ Ids(tasks') = {tasks'[i].id : i \in 1 .. Len(tasks)}
      BY <3>5 DEF Ids
    <3> QED
      BY <3>3, <3>4, <3>6
  <2> QED
    BY <2>1, <2>2 DEF Poll
<1> QED
  BY <1>1, <1>2 DEF OnceInv, Everywhere, Places

\* A finished task becomes an answer, in s_res or delayed.
LEMMA RunTaskOnce ==
  ASSUME IInv, OnceInv, RunTask
  PROVE  OnceInv'
<1>1. UNCHANGED <<sent, received, req, lost>> /\ it <= Len(tasks)
  BY DEF RunTask, mainVars
<1>2. CASE UNCHANGED <<res, tasks, queue>>
  BY <1>1, <1>2 DEF OnceInv, Everywhere, Places
<1>3. CASE SendAnswer(tasks[it].id) /\ tasks' = RemoveAt(tasks, it)
  <2> DEFINE t == tasks[it]
  <2>0. TypeOK
    BY DEF IInv
  <2>1. it \in 1 .. Len(tasks) /\ t \in Task
    BY <1>1, <2>0, PlacesType, ElementOfSeq DEF TypeOK
  <2>2. t.id \in Request
    BY <2>1 DEF Task
  <2>3. Len(tasks') = Len(tasks) - 1 /\ ToSet(tasks) = ToSet(tasks') \cup {t}
    BY <1>3, <2>0, <2>1, PlacesType, RemoveAtElements
  <2> HIDE DEF t
  <2>4. Ids(tasks) = Ids(tasks') \cup {t.id}
    BY <2>3 DEF Ids
  <2>5. \/ /\ Len(res') = Len(res) + 1 /\ ToSet(res') = ToSet(res) \cup {t.id}
           /\ queue' = queue
        \/ /\ Len(queue') = Len(queue) + 1 /\ ToSet(queue') = ToSet(queue) \cup {t.id}
           /\ res' = res
    <3>1. \/ res' = Append(res, t.id) /\ queue' = queue
          \/ queue' = Append(queue, t.id) /\ res' = res
      BY <1>3 DEF SendAnswer, t
    <3>2. res \in Seq(Request) /\ queue \in Seq(Request)
      BY <2>0, PlacesType
    <3>3. /\ Len(Append(res, t.id)) = Len(res) + 1
          /\ ToSet(Append(res, t.id)) = ToSet(res) \cup {t.id}
          /\ Len(Append(queue, t.id)) = Len(queue) + 1
          /\ ToSet(Append(queue, t.id)) = ToSet(queue) \cup {t.id}
      BY <2>2, <3>2, AppendElements
    <3> QED
      BY <3>1, <3>3
  <2>6. Everywhere' = Everywhere
    BY <1>1, <2>4, <2>5 DEF Everywhere
  <2>7. Places' = Places
    <3>1. /\ Len(req) \in Nat /\ Len(res) \in Nat /\ Len(queue) \in Nat
          /\ Len(received) \in Nat /\ Len(lost) \in Nat /\ Len(tasks) \in Nat
      BY <2>0, PlacesType
    <3>2. \/ Len(res') = Len(res) + 1 /\ Len(queue') = Len(queue)
          \/ Len(queue') = Len(queue) + 1 /\ Len(res') = Len(res)
      BY <2>5
    <3>3. /\ Len(req') = Len(req) /\ Len(received') = Len(received)
          /\ Len(lost') = Len(lost)
      BY <1>1
    <3> QED
      BY <2>3, <3>1, <3>2, <3>3 DEF Places
  <2> QED
    BY <1>1, <2>6, <2>7 DEF OnceInv
<1> QED
  BY <1>2, <1>3 DEF RunTask

\* The requests of the tasks are those TaskIds lists.
LEMMA TaskIdsElements ==
  ASSUME tasks \in Seq(Task)
  PROVE  ToSet(TaskIds) = Ids(tasks)
<1>1. /\ TaskIds \in Seq(Request) /\ Len(TaskIds) = Len(tasks) /\ Len(tasks) \in Nat
      /\ \A i \in 1 .. Len(tasks) : TaskIds[i] = tasks[i].id
  BY TaskIdsType, LenProperties
<1>2. /\ ToSet(tasks) = {tasks[i] : i \in 1 .. Len(tasks)}
      /\ ToSet(TaskIds) = {TaskIds[i] : i \in 1 .. Len(tasks)}
  BY <1>1, Elements
<1> QED
  BY <1>1, <1>2 DEF Ids

\* What the worker still has is lost with it.
LEMMA HandleStopOnce ==
  ASSUME IInv, OnceInv, HandleStop, lost = <<>>
  PROVE  OnceInv'
<1>1. /\ UNCHANGED <<sent, received, req, res>>
      /\ tasks' = <<>> /\ queue' = <<>> /\ lost' = Concat(TaskIds, queue)
  BY DEF HandleStop, mainVars, Concat
<1>2. /\ tasks \in Seq(Task) /\ queue \in Seq(Request)
      /\ Len(req) \in Nat /\ Len(res) \in Nat /\ Len(queue) \in Nat
      /\ Len(received) \in Nat /\ Len(tasks) \in Nat
  BY PlacesType DEF IInv
<1>3. TaskIds \in Seq(Request) /\ Len(TaskIds) = Len(tasks) /\ ToSet(TaskIds) = Ids(tasks)
  BY <1>2, TaskIdsType, TaskIdsElements
<1>4. /\ Len(lost') = Len(tasks) + Len(queue)
      /\ ToSet(lost') = Ids(tasks) \cup ToSet(queue)
  <2>1. /\ Len(Concat(TaskIds, queue)) = Len(TaskIds) + Len(queue)
        /\ ToSet(Concat(TaskIds, queue)) = ToSet(TaskIds) \cup ToSet(queue)
    <3>1. TaskIds \in Seq(Request)
      BY <1>3
    <3>2. queue \in Seq(Request)
      BY <1>2
    <3> QED
      BY <3>1, <3>2, ConcatElements
  <2> QED
    BY <1>1, <1>3, <2>1
<1>5. ToSet(<<>>) = {} /\ Len(<<>>) = 0
  BY DEF ToSet
<1>6. Ids(<<>>) = {}
  BY <1>5 DEF Ids
<1>7. Everywhere' = Everywhere
  BY <1>1, <1>4, <1>5, <1>6 DEF Everywhere
<1>8. Places' = Places
  BY <1>1, <1>2, <1>4, <1>5 DEF Places
<1> QED
  BY <1>1, <1>7, <1>8 DEF OnceInv

\* The newest delayed answer goes to s_res.
LEMMA HandleOutOnce ==
  ASSUME IInv, OnceInv, HandleOut
  PROVE  OnceInv'
<1>1. /\ queue # <<>> /\ queue' = Front(queue) /\ res' = Append(res, Last(queue))
      /\ UNCHANGED <<sent, received, req, tasks, lost>>
  BY DEF IInv, ReadyInv, HandleOut, mainVars
<1>2. TypeOK
  BY DEF IInv
<1>3. /\ Last(queue) \in Request /\ Len(queue') = Len(queue) - 1
      /\ ToSet(queue) = ToSet(queue') \cup {Last(queue)}
  BY <1>1, <1>2, PlacesType, FrontElements
<1>4. Len(res') = Len(res) + 1 /\ ToSet(res') = ToSet(res) \cup {Last(queue)}
  BY <1>1, <1>2, <1>3, PlacesType, AppendElements
<1>5. Everywhere' = Everywhere
  BY <1>1, <1>3, <1>4 DEF Everywhere
<1>6. Places' = Places
  BY <1>1, <1>2, <1>3, <1>4, PlacesType DEF Places
<1> QED
  BY <1>1, <1>5, <1>6 DEF OnceInv

\* A request becomes a task.
LEMMA HandleInOnce ==
  ASSUME IInv, OnceInv, HandleIn
  PROVE  OnceInv'
<1>0. req # <<>> /\ req' = Tail(req) /\ UNCHANGED <<sent, received, res, queue, lost>>
  BY DEF IInv, ReadyInv, HandleIn, mainVars
<1>1. PICK steps \in 1 .. MaxSteps - 1 :
        tasks' = Append(tasks, [id |-> Head(req), remaining_steps |-> steps])
  BY DEF HandleIn
<1> DEFINE t == [id |-> Head(req), remaining_steps |-> steps]
<1>2. TypeOK
  BY DEF IInv
<1>3. /\ Head(req) \in Request /\ Len(req') = Len(req) - 1
      /\ ToSet(req) = ToSet(req') \cup {Head(req)}
  BY <1>0, <1>2, PlacesType, HeadElements
<1>4. t \in Task /\ t.id = Head(req)
  BY <1>3, StepsAssumption DEF Task
<1>5. tasks' = Append(tasks, t)
  BY <1>1
<1> HIDE DEF t
<1>6. Len(tasks') = Len(tasks) + 1 /\ ToSet(tasks') = ToSet(tasks) \cup {t}
  BY <1>2, <1>4, <1>5, PlacesType, AppendElements
<1>7. Ids(tasks') = Ids(tasks) \cup {Head(req)}
  BY <1>4, <1>6 DEF Ids
<1>8. Everywhere' = Everywhere
  BY <1>0, <1>3, <1>7 DEF Everywhere
<1>9. Places' = Places
  BY <1>0, <1>2, <1>3, <1>6, PlacesType DEF Places
<1> QED
  BY <1>0, <1>8, <1>9 DEF OnceInv

\* When the worker takes the stop, main has sent and received all it does.
StopInv ==
  /\ main \in {"reading", "join", "done"} => sent = Total
  /\ stop => main \in {"join", "done"} /\ Len(received) = 2 * Limit
  /\ worker = "handle" /\ "stop" \in ready => stop
  /\ lost # <<>> => stop /\ worker = "done"

LEMMA NextStop ==
  ASSUME IInv, StopInv, [Next]_vars
  PROVE  StopInv'
<1> USE DEF StopInv
<1>1. CASE SendFirst \/ SendSecond
  <2>1. main \in {"first", "second"} /\ main' \in {"first", "second", "full", "exited"}
        /\ UNCHANGED <<received, stop, workerVars>>
    BY <1>1 DEF SendFirst, SendSecond, SendRequest
  <2> QED
    BY <2>1 DEF workerVars
<1>2. CASE SendDropped
  <2>1. /\ main = "full" /\ UNCHANGED <<received, stop, workerVars>>
        /\ main' = "aborted" \/ (main' = "reading" /\ sent' = sent)
    BY <1>2 DEF SendDropped
  <2>2. sent = Total
    BY <2>1 DEF IInv, PhaseInv
  <2> QED
    BY <2>1, <2>2 DEF workerVars, Total
<1>3. CASE ReceiveAnswer
  <2>1. main = "reading" /\ UNCHANGED <<main, sent, stop, workerVars>>
    BY <1>3 DEF ReceiveAnswer
  <2> QED
    BY <2>1 DEF workerVars, Total
<1>4. CASE PublishStop \/ Join
  <2>1. /\ main' \in {"join", "done"} /\ UNCHANGED <<sent, received, workerVars>>
        /\ main \in {"reading", "join"}
        /\ stop' = stop \/ Len(received) = 2 * Limit
    BY <1>4 DEF PublishStop, Join
  <2> QED
    BY <1>4, <2>1 DEF workerVars, Total, PublishStop, Join
<1>5. CASE Worker
  <2>1. UNCHANGED <<main, sent, received, stop, paced>>
    BY <1>5 DEF Worker, Poll, RunTask, TasksRun, HandleStop, HandleOut, HandleIn,
       mainVars
  <2>2. CASE Poll
    <3>1. lost' = lost /\ worker = "poll" /\ ready' \subseteq Happening
      BY <2>2 DEF Poll
    <3>2. "stop" \in ready' => stop
      BY <3>1 DEF Happening
    <3> QED
      BY <2>1, <3>1, <3>2 DEF Total
  <2>3. CASE HandleStop
    <3>1. worker' = "done" /\ stop
      BY <2>3 DEF HandleStop
    <3> QED
      BY <2>1, <3>1 DEF Total
  <2>4. CASE RunTask \/ TasksRun \/ HandleOut \/ HandleIn
    <3>1. worker' # "handle" /\ lost' = lost /\ worker # "done"
      BY <2>4 DEF RunTask, TasksRun, HandleOut, HandleIn
    <3> QED
      BY <2>1, <3>1 DEF Total
  <2> QED
    BY <1>5, <2>2, <2>3, <2>4 DEF Worker
<1>6. CASE UNCHANGED vars
  BY <1>6 DEF vars, mainVars, workerVars, Total
<1> QED
  BY <1>1, <1>2, <1>3, <1>4, <1>5, <1>6 DEF Next, Main

LEMMA StopInvariance == Spec => []StopInv
<1>1. Init => StopInv
  BY DEF Init, StopInv
<1>2. IInv /\ StopInv /\ [Next]_vars => StopInv'
  BY NextStop
<1> QED
  BY <1>1, <1>2, Invariance, PTL DEF Spec

\* Every step preserves it.
LEMMA NextOnce ==
  ASSUME IInv, StopInv, OnceInv, [Next]_vars
  PROVE  OnceInv'
<1>0. HandleStop => lost = <<>>
  BY DEF HandleStop, StopInv
<1>1. CASE SendFirst \/ SendSecond \/ SendDropped
  <2>1. sent <= Total
    BY <1>1, LimitAssumption
       DEF IInv, PhaseInv, TypeOK, SendFirst, SendSecond, SendDropped, Total
  <2>2. /\ \/ req' = Append(req, sent) /\ sent' = sent + 1
           \/ UNCHANGED <<req, sent>>
        /\ UNCHANGED <<tasks, queue, res, received, lost>>
    BY <1>1 DEF SendFirst, SendSecond, SendDropped, SendRequest, workerVars
  <2> QED
    BY <2>1, <2>2, AcceptOnce DEF IInv
<1>2. CASE ReceiveAnswer
  BY <1>2, ReceiveOnce DEF IInv
<1>3. CASE PublishStop \/ Join \/ TasksRun \/ UNCHANGED vars
  <2>1. UNCHANGED <<sent, req, tasks, queue, res, received, lost>>
    BY <1>3 DEF PublishStop, Join, TasksRun, vars, mainVars, workerVars
  <2> QED
    BY <2>1 DEF OnceInv, Everywhere, Places
<1> QED
  BY <1>0, <1>1, <1>2, <1>3, PollOnce, RunTaskOnce, HandleStopOnce, HandleOutOnce,
     HandleInOnce
     DEF Next, Main, Worker

\* So each request is in one place in every reachable state.
LEMMA OnceInvariance == Spec => []OnceInv
<1>1. Init => OnceInv
  <2> SUFFICES ASSUME Init PROVE OnceInv
    OBVIOUS
  <2>1. sent = 0 /\ req = <<>> /\ tasks = <<>> /\ queue = <<>> /\ res = <<>>
        /\ received = <<>> /\ lost = <<>>
    BY DEF Init
  <2>2. ToSet(<<>>) = {} /\ Len(<<>>) = 0
    BY DEF ToSet
  <2>3. Ids(<<>>) = {}
    BY <2>2 DEF Ids
  <2>4. Everywhere = {} /\ Places = 0
    BY <2>1, <2>2, <2>3 DEF Everywhere, Places
  <2>5. 0 .. 0 - 1 = {}
    OBVIOUS
  <2> QED
    BY <2>1, <2>4, <2>5 DEF OnceInv
<1>2. IInv /\ StopInv /\ OnceInv /\ [Next]_vars => OnceInv'
  BY NextOnce
<1> QED
  BY <1>1, <1>2, Invariance, StopInvariance, PTL DEF Spec

\* No request is doubled, and none is lost before main has all the answers it
\* reads, for every limit, high water mark and order in which the two threads
\* take their steps; with the worker at most two are.
THEOREM ExactlyOnceThm == Spec => []ExactlyOnce
<1>1. ASSUME IInv, StopInv, OnceInv PROVE ExactlyOnce
  <2> DEFINE a == Concat(req, TaskIds)
             b == Concat(a, queue)
             c == Concat(b, res)
             d == Concat(c, received)
             everywhere == Concat(d, lost)
  <2>1. TypeOK
    BY <1>1 DEF IInv
  <2>0. /\ req \in Seq(Request) /\ queue \in Seq(Request) /\ res \in Seq(Request)
        /\ received \in Seq(Request) /\ lost \in Seq(Request) /\ tasks \in Seq(Task)
    BY <2>1, PlacesType
  <2>2. /\ TaskIds \in Seq(Request) /\ Len(TaskIds) = Len(tasks)
        /\ ToSet(TaskIds) = Ids(tasks)
    BY <2>0, TaskIdsType, TaskIdsElements
  <2>3. /\ a \in Seq(Request) /\ Len(a) = Len(req) + Len(TaskIds)
        /\ ToSet(a) = ToSet(req) \cup ToSet(TaskIds)
    <3>1. req \in Seq(Request)
      BY <2>0
    <3>2. TaskIds \in Seq(Request)
      BY <2>2
    <3> QED
      BY <3>1, <3>2, ConcatElements
  <2> HIDE DEF a
  <2>4. /\ b \in Seq(Request) /\ Len(b) = Len(a) + Len(queue)
        /\ ToSet(b) = ToSet(a) \cup ToSet(queue)
    <3>1. a \in Seq(Request)
      BY <2>3
    <3>2. queue \in Seq(Request)
      BY <2>0
    <3> QED
      BY <3>1, <3>2, ConcatElements
  <2> HIDE DEF b
  <2>5. /\ c \in Seq(Request) /\ Len(c) = Len(b) + Len(res)
        /\ ToSet(c) = ToSet(b) \cup ToSet(res)
    <3>1. b \in Seq(Request)
      BY <2>4
    <3>2. res \in Seq(Request)
      BY <2>0
    <3> QED
      BY <3>1, <3>2, ConcatElements
  <2> HIDE DEF c
  <2>6. /\ d \in Seq(Request) /\ Len(d) = Len(c) + Len(received)
        /\ ToSet(d) = ToSet(c) \cup ToSet(received)
    <3>1. c \in Seq(Request)
      BY <2>5
    <3>2. received \in Seq(Request)
      BY <2>0
    <3> QED
      BY <3>1, <3>2, ConcatElements
  <2> HIDE DEF d
  <2>7. /\ Len(everywhere) = Len(d) + Len(lost)
        /\ ToSet(everywhere) = ToSet(d) \cup ToSet(lost)
    <3>1. d \in Seq(Request)
      BY <2>6
    <3>2. lost \in Seq(Request)
      BY <2>0
    <3> QED
      BY <3>1, <3>2, ConcatElements
  <2> HIDE DEF everywhere
  <2>8. ToSet(everywhere) = Everywhere
    BY <2>2, <2>3, <2>4, <2>5, <2>6, <2>7 DEF Everywhere
  <2>9. Len(everywhere) = Places
    BY <2>1, <2>2, <2>3, <2>4, <2>5, <2>6, <2>7, PlacesType DEF Places
  <2>10. Len(everywhere) = sent /\ ToSet(everywhere) = 0 .. sent - 1
    BY <1>1, <2>8, <2>9 DEF OnceInv
  <2>11. ASSUME lost # <<>> PROVE Len(received) = 2 * Limit /\ Len(lost) <= 2
    <3>1. sent = 2 * Limit + 2 /\ Len(received) = 2 * Limit
      BY <1>1, <2>11 DEF StopInv, Total
    <3>2. Places = sent
      BY <1>1 DEF OnceInv
    <3>3. /\ Len(req) \in Nat /\ Len(res) \in Nat /\ Len(queue) \in Nat
          /\ Len(lost) \in Nat /\ Len(tasks) \in Nat /\ Limit \in Nat
      BY <2>1, PlacesType, LimitAssumption
    <3> QED
      BY <3>1, <3>2, <3>3 DEF Places
  <2> QED
    BY <2>10, <2>11 DEF ExactlyOnce, Concat, everywhere, d, c, b, a
<1> QED
  BY <1>1, OnceInvariance, StopInvariance, Invariance, PTL

-----------------------------------------------------------------------------
(* The program goes as its comments say, when the sleeps are long enough:   *)
(* for every limit, with the room in the two sockets that the comments      *)
(* imply ("req queue filled" after Limit requests, zasync 268, and Limit + 1 *)
(* answers in s_res before one is cached, line 256).                        *)

\* The worker is stuck behind one delayed answer.
Stuck ==
  /\ tasks = <<>> /\ Len(res) = ResCap /\ Len(queue) = 1 /\ worker # "handle"
  /\ Len(req) + (Limit + 2) = sent

\* Until main reads, s_res only fills, and an answer is delayed when it is full.
FillInv ==
  main \in {"first", "second", "full"} =>
    /\ received = <<>> /\ ~stop
    /\ queue # <<>> => Len(res) = ResCap

PacedInv ==
  /\ FillInv
  /\ main = "second" => sent >= Limit + 2
  /\ paced =>
       /\ main \notin {"exited", "aborted"}
       /\ main = "full" \/ (main = "second" /\ sent > Limit + 2) => Stuck

\* A request that s_req takes.
LEMMA Accepted ==
  ASSUME TypeOK, NEW next, Len(req) < ReqCap, SendRequest(next)
  PROVE  main' = next /\ sent' = sent + 1 /\ Len(req') = Len(req) + 1
<1>1. req' = Append(req, sent) /\ sent' = sent + 1 /\ main' = next
  BY DEF SendRequest
<1>2. Len(Append(req, sent)) = Len(req) + 1
  BY PlacesType
<1> QED
  BY <1>1, <1>2

\* Once s_res holds Limit + 1 of Limit + 2 answers the worker is stuck.
LEMMA GetsStuck ==
  ASSUME IInv, StopInv, OnceInv, PacedInv, ResCap = Limit + 1, main = "second", sent = Limit + 2,
         req = <<>>, tasks = <<>>
  PROVE  Len(res) = ResCap /\ Len(queue) = 1 /\ Len(req) = 0
<1>1. /\ TypeOK /\ Limit \in Nat /\ Len(res) \in Nat /\ Len(queue) \in Nat
      /\ Len(res) <= ResCap
  BY PlacesType, LimitAssumption DEF IInv, TypeOK
<1>2. /\ received = <<>> /\ lost = <<>>
      /\ queue # <<>> => Len(res) = ResCap
  BY DEF PacedInv, FillInv, StopInv
<1>3. Len(queue) + Len(res) = Limit + 2
  <2>1. Len(<<>>) = 0
    OBVIOUS
  <2> QED
    BY <1>1, <1>2, <2>1 DEF OnceInv, Places
<1>4. Len(queue) # 0
  BY <1>1, <1>3
<1>5. queue # <<>>
  BY <1>4
<1>6. Len(res) = ResCap
  BY <1>2, <1>5
<1>7. Len(queue) = 1
  <2> DEFINE q == Len(queue)
             r == Len(res)
  <2>1. q \in Nat /\ q + r = Limit + 2 /\ r = Limit + 1 /\ Limit \in Nat
    BY <1>1, <1>3, <1>6
  <2> HIDE DEF q, r
  <2>2. q = 1
    BY <2>1
  <2> QED
    BY <2>2 DEF q
<1>8. Len(req) = 0
  OBVIOUS
<1> QED
  BY <1>6, <1>7, <1>8

\* main sends: it is never refused before the last request, which is.
LEMMA MainPaced ==
  ASSUME IInv, StopInv, OnceInv, PacedInv, ReqCap = Limit, ResCap = Limit + 1, Main
  PROVE  PacedInv'
<1>0. /\ Limit \in Nat /\ Limit > 0 /\ Total = 2 * Limit + 2 /\ TypeOK /\ sent \in Nat
      /\ Len(req) \in Nat /\ PhaseInv
  BY LimitAssumption, PlacesType DEF Total, IInv
<1>1. CASE SendFirst
  <2>1. /\ main = "first" /\ sent < Limit + 2
        /\ UNCHANGED <<received, stop, res, paced, queue, worker, tasks>>
        /\ SendRequest(IF sent + 1 = Limit + 2 THEN "second" ELSE "first")
    BY <1>0, <1>1 DEF SendFirst, PhaseInv, workerVars
  <2>2. FillInv'
    BY <2>1 DEF PacedInv, FillInv
  <2>3. main' \in {"first", "second", "exited"} /\ (main' = "second" => sent' = Limit + 2)
    BY <1>0, <2>1 DEF SendRequest
  <2>4. paced => main' # "exited"
    <3>1. paced => Len(req) < ReqCap
      BY <1>0, <1>1 DEF SendFirst, Taken
    <3> QED
      BY <1>0, <2>1, <3>1, Accepted
  <2> QED
    BY <1>0, <2>1, <2>2, <2>3, <2>4 DEF PacedInv
<1>2. CASE SendSecond
  <2> DEFINE next == IF sent + 1 = Total THEN "full" ELSE "second"
  <2>1. /\ main = "second" /\ sent < Total /\ sent >= Limit + 2
        /\ UNCHANGED <<received, stop, res, paced, queue, worker, tasks>>
        /\ SendRequest(next)
    BY <1>0, <1>2 DEF SendSecond, PhaseInv, workerVars, PacedInv
  <2>2. FillInv'
    BY <2>1 DEF PacedInv, FillInv
  <2>3. main' \in {"full", "second", "exited"} /\ sent' >= Limit + 2
    BY <1>0, <2>1 DEF SendRequest
  <2>4. ASSUME paced
        PROVE  main' # "exited" /\ Stuck'
    <3>1. Stuck
      <4>1. CASE sent = Limit + 2
        <5>1. req = <<>> /\ tasks = <<>> /\ worker # "handle"
          BY <1>2, <2>4, <4>1 DEF SendSecond, Finished
        <5> QED
          BY <1>0, <2>1, <4>1, <5>1, GetsStuck DEF Stuck
      <4>2. CASE sent > Limit + 2
        BY <2>1, <2>4, <4>2 DEF PacedInv
      <4> QED
        BY <1>0, <2>1, <4>1, <4>2
    <3>2. Len(req) < ReqCap
      BY <1>0, <2>1, <3>1 DEF Stuck
    <3>3. main' = next /\ sent' = sent + 1 /\ Len(req') = Len(req) + 1
      BY <1>0, <2>1, <3>2, Accepted
    <3> QED
      BY <1>0, <2>1, <3>1, <3>3 DEF Stuck
  <2> QED
    BY <2>1, <2>2, <2>3, <2>4 DEF PacedInv
<1>3. CASE SendDropped
  <2>1. /\ main = "full" /\ sent = Total /\ main' \in {"aborted", "reading"}
        /\ paced' = paced
    BY <1>0, <1>3 DEF SendDropped, PhaseInv
  <2>2. ASSUME paced PROVE main' = "reading"
    <3>1. ~(Len(req) < ReqCap)
      BY <1>0, <2>1, <2>2 DEF PacedInv, Stuck
    <3> QED
      BY <1>3, <3>1 DEF SendDropped
  <2> QED
    BY <2>1, <2>2 DEF PacedInv, FillInv
<1>4. CASE ReceiveAnswer \/ PublishStop \/ Join
  <2>1. main' \in {"reading", "join", "done"} /\ paced' = paced
    BY <1>4 DEF ReceiveAnswer, PublishStop, Join
  <2> QED
    BY <2>1 DEF PacedInv, FillInv
<1> QED
  BY <1>1, <1>2, <1>3, <1>4 DEF Main

\* The worker delays an answer only when s_res is full, and does nothing more
\* once it is stuck.
LEMMA WorkerPaced ==
  ASSUME IInv, StopInv, PacedInv, Worker
  PROVE  PacedInv'
<1>0. /\ TypeOK /\ ReadyInv /\ Len(res) \in Nat /\ Len(tasks) \in Nat /\ ResCap \in Nat
      /\ UNCHANGED <<main, sent, received, stop, paced>>
  BY PlacesType, CapsAssumption
     DEF IInv, Worker, Poll, RunTask, TasksRun, HandleStop, HandleOut, HandleIn, mainVars
<1>1. CASE Poll
  <2>1. UNCHANGED <<req, res, queue>> /\ worker' \in {"handle", "run"}
    BY <1>1 DEF Poll
  <2>2. ASSUME main \in {"first", "second", "full"}, Stuck
        PROVE  Stuck'
    <3>1. ~stop /\ queue # <<>>
      <4>1. Len(<<>>) = 0 /\ Len(queue) = 1
        BY <2>2 DEF Stuck
      <4> QED
        BY <2>2, <4>1 DEF PacedInv, FillInv
    <3>2. Interest \cap Happening = {}
      BY <1>0, <2>2, <3>1 DEF Interest, Happening, Stuck
    <3>3. /\ worker' = "run"
          /\ tasks' = [i \in 1 .. Len(tasks) |->
                         [tasks[i] EXCEPT !.remaining_steps = @ - 1]]
      BY <1>1, <3>2 DEF Poll
    <3>4. tasks' = <<>>
      <4>1. Len(tasks) = 0
        BY <2>2 DEF Stuck
      <4> QED
        BY <3>3, <4>1
    <3> QED
      BY <1>0, <2>1, <2>2, <3>3, <3>4 DEF Stuck
  <2> QED
    BY <1>0, <2>1, <2>2 DEF PacedInv, FillInv
<1>2. CASE RunTask
  <2>1. /\ it <= Len(tasks) /\ UNCHANGED <<req, worker>>
        /\ \/ SendAnswer(tasks[it].id)
           \/ UNCHANGED <<res, tasks, queue>>
    BY <1>2 DEF RunTask
  <2>2. ~Stuck
    <3>1. Len(tasks) # 0
      BY <1>0, <2>1 DEF TypeOK
    <3> QED
      BY <3>1 DEF Stuck
  <2>3. /\ queue # <<>> => Len(res) = ResCap
        /\ main \in {"first", "second", "full"}
        => (queue' # <<>> => Len(res') = ResCap)
    <3>1. Len(res) <= ResCap
      BY <1>0 DEF TypeOK
    <3> QED
      BY <1>0, <2>1, <3>1 DEF SendAnswer
  <2> QED
    BY <1>0, <2>1, <2>2, <2>3 DEF PacedInv, FillInv
<1>3. CASE TasksRun
  <2>1. UNCHANGED <<req, res, queue, tasks>> /\ worker' = "poll"
    BY <1>3 DEF TasksRun
  <2> QED
    BY <1>0, <2>1 DEF PacedInv, FillInv, Stuck
<1>4. CASE HandleStop
  <2>1. main \notin {"first", "second", "full"}
    BY <1>4 DEF HandleStop, StopInv
  <2> QED
    BY <1>0, <2>1 DEF PacedInv, FillInv
<1>5. CASE HandleOut
  <2>1. worker = "handle" /\ queue # <<>> /\ Len(res) < ResCap
    BY <1>0, <1>5 DEF HandleOut, ReadyInv
  <2>2. main \notin {"first", "second", "full"}
    BY <1>0, <2>1 DEF PacedInv, FillInv
  <2> QED
    BY <1>0, <2>2 DEF PacedInv, FillInv
<1>6. CASE HandleIn
  <2>1. UNCHANGED <<res, queue>> /\ worker = "handle"
    BY <1>6 DEF HandleIn
  <2> QED
    BY <1>0, <2>1 DEF PacedInv, FillInv, Stuck
<1> QED
  BY <1>1, <1>2, <1>3, <1>4, <1>5, <1>6 DEF Worker

\* No request of main blocks and the last one is dropped: the assertion of line
\* 270 holds for every limit, number of task steps and order in which the tasks
\* end, if main's sleeps are long enough and the sockets have this room.
THEOREM EndsNormallyThm ==
  ASSUME ReqCap = Limit, ResCap = Limit + 1
  PROVE  Spec => []EndsNormally
<1>1. Init => PacedInv
  BY LimitAssumption DEF Init, PacedInv, FillInv
<1>2. IInv /\ StopInv /\ OnceInv /\ PacedInv /\ [Next]_vars => PacedInv'
  <2>1. ASSUME PacedInv, UNCHANGED vars PROVE PacedInv'
    BY <2>1 DEF PacedInv, FillInv, Stuck, vars, mainVars, workerVars
  <2> QED
    BY <2>1, MainPaced, WorkerPaced DEF Next
<1>3. PacedInv => EndsNormally
  BY DEF PacedInv, EndsNormally, Stuck
<1>4. Spec => []OnceInv
  BY OnceInvariance
<1> QED
  BY <1>1, <1>2, <1>3, <1>4, Invariance, StopInvariance, PTL DEF Spec
=============================================================================
