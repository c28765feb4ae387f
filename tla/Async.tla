-------------------------------- MODULE Async --------------------------------
(***************************************************************************)
(* examples/zasync.cpp: the main thread sends requests to a worker thread, *)
(* which runs them as tasks and answers in the order they finish.  An      *)
(* answer that would block is detached from its Outgoing and kept in a     *)
(* queue; while there is one, no request is taken.                         *)
(*                                                                         *)
(* A message is the number of its request.  The two inproc sockets hold a  *)
(* bounded number of messages (HWM).  One step of the worker is one call   *)
(* of poll, one event handled, or one task of run_tasks.  The tasks and    *)
(* the queue are local to the worker and go with it when it stops.         *)
(***************************************************************************)
EXTENDS Naturals, Sequences, SequencesExt

CONSTANTS
  Limit,     \* message_queue_limit
  ReqCap,    \* messages s_req takes before it would block
  ResCap,    \* messages s_res takes before it would block
  MaxSteps   \* max_task_steps

ASSUME LimitAssumption == Limit \in Nat \ {0}
ASSUME CapsAssumption == ReqCap \in Nat \ {0} /\ ResCap \in Nat \ {0}
ASSUME StepsAssumption == MaxSteps \in Nat /\ MaxSteps > 1

VARIABLES
  main,      \* where main is: a phase of MainPhase
  sent,      \* number of requests s_req accepted
  received,  \* the answers main has received
  paced,     \* the sleeps of main outlast what they wait for
  req, res,  \* the messages in the two sockets
  stop,      \* "stop" has been published
  worker,    \* "poll", "handle", "run", "done", or "exited" by exit(3)
  ready,     \* revents of the last poll
  tasks,     \* the tasks, with their remaining_steps
  it,        \* the iterator of run_tasks
  queue,     \* the detached answers
  lost       \* history: what the worker had not answered when it stopped

mainVars == <<main, sent, received, stop, paced>>
workerVars == <<worker, ready, tasks, it, queue, lost>>
vars == <<mainVars, req, res, workerVars>>

Total == 2 * Limit + 2
Request == 0 .. Total
MainPhase == {"first", "second", "full", "reading", "join", "done",
              "exited", "aborted"}
Event == {"stop", "in", "out"}
Task == [id : Request, remaining_steps : 0 .. MaxSteps - 1]

TypeOK ==
  /\ main \in MainPhase
  /\ sent \in 0 .. Total + 1
  /\ received \in Seq(Request)
  /\ req \in Seq(Request) /\ Len(req) <= ReqCap
  /\ res \in Seq(Request) /\ Len(res) <= ResCap
  /\ stop \in BOOLEAN /\ paced \in BOOLEAN
  /\ worker \in {"poll", "handle", "run", "done", "exited"}
  /\ ready \subseteq Event
  /\ tasks \in Seq(Task)
  /\ it \in 1 .. Len(tasks) + 1
  /\ queue \in Seq(Request) /\ lost \in Seq(Request)

Init ==
  /\ main = "first" /\ sent = 0 /\ received = <<>> /\ stop = FALSE
  /\ paced \in BOOLEAN
  /\ req = <<>> /\ res = <<>>
  /\ worker = "poll" /\ ready = {} /\ tasks = <<>> /\ it = 1 /\ queue = <<>>
  /\ lost = <<>>

\* exit(3) and a failed assertion end the process with both threads.
Running == main \notin {"done", "exited", "aborted"} /\ worker # "exited"

-----------------------------------------------------------------------------
(* The main thread.                                                         *)

\* usleep gives the worker the time to take a request, sleep that to finish
\* all tasks.
Taken == paced => req = <<>>
Finished == paced => req = <<>> /\ tasks = <<>> /\ worker # "handle"

\* An Outgoing with NONBLOCK alone: it throws when s_req is full.
SendRequest(next) ==
  IF Len(req) < ReqCap
  THEN /\ req' = Append(req, sent)
       /\ sent' = sent + 1
       /\ main' = next
  ELSE main' = "exited" /\ UNCHANGED <<req, sent>>

SendFirst ==
  /\ main = "first" /\ Taken
  /\ SendRequest(IF sent + 1 = Limit + 2 THEN "second" ELSE "first")
  /\ UNCHANGED <<received, stop, res, paced, workerVars>>

SendSecond ==
  /\ main = "second"
  /\ sent = Limit + 2 => Finished
  /\ SendRequest(IF sent + 1 = Total THEN "full" ELSE "second")
  /\ UNCHANGED <<received, stop, res, paced, workerVars>>

\* The request that must be dropped: "assert(to_worker.is_dropping())".
SendDropped ==
  /\ main = "full"
  /\ IF Len(req) < ReqCap
     THEN /\ req' = Append(req, sent) /\ sent' = sent + 1
          /\ main' = "aborted"
     ELSE main' = "reading" /\ UNCHANGED <<req, sent>>
  /\ UNCHANGED <<received, stop, res, paced, workerVars>>

ReceiveAnswer ==
  /\ main = "reading" /\ Len(received) < 2 * Limit
  /\ res # <<>>
  /\ received' = Append(received, Head(res))
  /\ res' = Tail(res)
  /\ UNCHANGED <<main, sent, stop, req, paced, workerVars>>

PublishStop ==
  /\ main = "reading" /\ Len(received) = 2 * Limit
  /\ stop' = TRUE
  /\ main' = "join"
  /\ UNCHANGED <<sent, received, req, res, paced, workerVars>>

Join ==
  /\ main = "join" /\ worker = "done"
  /\ main' = "done"
  /\ UNCHANGED <<sent, received, stop, req, res, paced, workerVars>>

Main == Running /\ (SendFirst \/ SendSecond \/ SendDropped \/ ReceiveAnswer
                      \/ PublishStop \/ Join)

-----------------------------------------------------------------------------
(* The worker thread, async_task_processor.                                 *)

\* Seeded faults: requests are polled for although answers are delayed;
\* s_res is never polled.
Interest_always == {"stop", "in"} \cup (IF queue = <<>> THEN {} ELSE {"out"})
Interest_in == {"stop"} \cup (IF queue = <<>> THEN {"in"} ELSE {})

\* The events of the three poll items.
Interest == {"stop"} \cup (IF queue = <<>> THEN {"in"} ELSE {"out"})

Happening ==
  (IF stop THEN {"stop"} ELSE {})
    \cup (IF req # <<>> THEN {"in"} ELSE {})
    \cup (IF Len(res) < ResCap THEN {"out"} ELSE {})

Poll ==
  /\ worker = "poll"
  /\ ready' = Interest \cap Happening
  /\ IF ready' # {}
     THEN worker' = "handle" /\ UNCHANGED <<tasks, it>>
     ELSE \* timeout: run_tasks begins with a step of every task
          /\ worker' = "run" /\ it' = 1
          /\ tasks' = [i \in 1 .. Len(tasks) |->
                         [tasks[i] EXCEPT !.remaining_steps = @ - 1]]
  /\ UNCHANGED <<mainVars, req, res, queue, lost>>

\* An Outgoing with NONBLOCK and CACHE_ON_BLOCK, then detach().
SendAnswer(id) ==
  IF Len(res) < ResCap THEN res' = Append(res, id) /\ UNCHANGED queue
                       ELSE queue' = Append(queue, id) /\ UNCHANGED res

\* Seeded fault: off by one.
IsDone_late(task) == task.remaining_steps < 0

IsDone(task) == task.remaining_steps = 0

RunTask ==
  /\ worker = "run" /\ it <= Len(tasks)
  /\ IF IsDone(tasks[it])
     THEN SendAnswer(tasks[it].id) /\ tasks' = RemoveAt(tasks, it) /\ UNCHANGED it
     ELSE it' = it + 1 /\ UNCHANGED <<res, tasks, queue>>
  /\ UNCHANGED <<mainVars, req, worker, ready, lost>>

TasksRun ==
  /\ worker = "run" /\ it > Len(tasks)
  /\ worker' = "poll" /\ it' = 1
  /\ UNCHANGED <<mainVars, req, res, ready, tasks, queue, lost>>

\* The requests of the tasks.
TaskIds == [i \in 1 .. Len(tasks) |-> tasks[i].id]

\* "break", and the end of the scope of queue and tasks: the Multiparts that are
\* left in the queue are never sent.
HandleStop ==
  /\ worker = "handle" /\ "stop" \in ready
  /\ worker' = "done"
  /\ lost' = TaskIds \o queue
  /\ tasks' = <<>> /\ it' = 1 /\ queue' = <<>>
  /\ UNCHANGED <<mainVars, req, res, ready>>

\* Seeded faults: everything queued is sent on one event; the message sent
\* stays in the queue.
HandleOut_all ==
  /\ worker = "handle" /\ "out" \in ready /\ "stop" \notin ready
  /\ IF Len(res) + Len(queue) <= ResCap
     THEN res' = res \o queue /\ worker' = "poll"
     ELSE worker' = "exited" /\ UNCHANGED res
  /\ queue' = <<>>
  /\ UNCHANGED <<mainVars, req, ready, tasks, it, lost>>
HandleOut_kept ==
  /\ worker = "handle" /\ "out" \in ready /\ "stop" \notin ready
  /\ res' = Append(res, Last(queue)) /\ worker' = "poll"
  /\ UNCHANGED <<mainVars, req, ready, tasks, it, queue, lost>>

\* The newest delayed answer is popped and sent with send(), which throws if
\* it would block.
HandleOut ==
  /\ worker = "handle" /\ "out" \in ready /\ "stop" \notin ready
  /\ queue' = Front(queue)
  /\ IF Len(res) < ResCap
     THEN res' = Append(res, Last(queue)) /\ worker' = "poll"
     ELSE worker' = "exited" /\ UNCHANGED res
  /\ UNCHANGED <<mainVars, req, ready, tasks, it, lost>>

HandleIn ==
  /\ worker = "handle" /\ ready = {"in"}
  /\ \E steps \in 1 .. MaxSteps - 1 :
       tasks' = Append(tasks, [id |-> Head(req), remaining_steps |-> steps])
  /\ req' = Tail(req)
  /\ worker' = "poll"
  /\ UNCHANGED <<mainVars, res, ready, it, queue, lost>>

Worker == Running /\ (Poll \/ RunTask \/ TasksRun \/ HandleStop \/ HandleOut
                        \/ HandleIn)

Next == Main \/ Worker

\* Both threads are scheduled.
Spec == Init /\ [][Next]_vars /\ WF_vars(Main) /\ WF_vars(Worker)

-----------------------------------------------------------------------------
(* Properties.                                                              *)

\* Every accepted request is in exactly one place: in a socket, among the tasks,
\* delayed, answered, or gone with the worker.  No delay and no resend doubles
\* or loses one.  The stop does lose what the worker still has, delayed answers
\* included (line 175), but only when main has all the answers it reads, and it
\* is two requests at most.
ExactlyOnce ==
  LET everywhere == req \o TaskIds \o queue \o res \o received \o lost
  IN worker # "exited" =>
       /\ Len(everywhere) = sent
       /\ ToSet(everywhere) = 0 .. sent - 1
       /\ lost # <<>> => Len(received) = 2 * Limit /\ Len(lost) <= 2

\* What poll said of s_res is still true when send() uses it: the worker is
\* the only one who writes to it and writes once per event.
SendNeverBlocks == worker # "exited"

\* The worker takes no request while an answer is delayed (lines 39-40).
TakesOnlyWhenEmpty ==
  [][Len(req') < Len(req) => queue = <<>> /\ queue' = <<>>]_vars

\* Both threads come to an end, whatever the scheduler does: main never waits
\* for an answer that is stuck behind a delayed one.
Finishes == <>~Running

\* With sleeps that are long enough the program goes as its comments say: no
\* request of main blocks and the last one is dropped, as line 270 asserts, when
\* "all tasks are processed, res queue is full, 1 remaining response is cached"
\* (line 256); and it stays cached until main reads.
EndsNormally ==
  paced =>
    /\ main \notin {"exited", "aborted"}
    /\ main = "full" \/ (main = "second" /\ sent > Limit + 2) =>
         tasks = <<>> /\ Len(res) = ResCap /\ Len(queue) = 1
=============================================================================
