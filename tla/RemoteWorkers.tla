--------------------------- MODULE RemoteWorkers ---------------------------
(***************************************************************************)
(* One invited local agent: the broker on the host (RemoteBroker), which   *)
(* leads a job through Run under one mutex, and the loop of the member's   *)
(* dashboard (runLocalAgent), which asks the broker over a connection that *)
(* may fail at any request.  A request and its handling are one step, the  *)
(* arrival of the reply another: what the broker and the workgroup do in   *)
(* between is what the two sides may disagree about.                       *)
(*                                                                         *)
(* A job is named by the run and the step it is made for; jobs have unique *)
(* random ids in the code.                                                 *)
(***************************************************************************)
EXTENDS Naturals, Sequences, FiniteSets

CONSTANTS
    NoJob,
    MaxMishaps      \* bound: lost requests and replies, lapsed leases and checks,
                    \* removals; failures and crashes of the host

VARIABLES
    lease,      \* the worker is known to the broker and its lease is running
    healthy,    \* its last check is good and recent
    job,        \* remoteWorker.job: id, claimed, cancel, received
    done,       \* the result in the channel of the job, and the job it is of
    run,        \* where Run is: none, snapshot, wait, stopping
    runFor,     \* the job Run leads
    answer,     \* what Run returned: none, ok, failed, unknown
    loop,       \* where runLocalAgent is: gone, top, check, poll, select, leaving
    reply,      \* the reply on its way to it
    has,        \* jobID
    process,    \* the agent process of that job: none, running, ok, failed
    mishaps

brokerVars == <<lease, healthy, job, done, run, runFor, answer>>
workerVars == <<loop, reply, has, process>>
remoteRest == <<brokerVars, workerVars>>
remoteVars == <<remoteRest, mishaps>>

NoReply == [kind |-> "none", job |-> NoJob, assignment |-> FALSE]
Reply(kind, id, assignment) == [kind |-> kind, job |-> id, assignment |-> assignment]
Idle == [id |-> NoJob, claimed |-> FALSE, cancel |-> FALSE, received |-> FALSE]
NoResult == [is |-> "none", of |-> NoJob]
NewJob(id) == [Idle EXCEPT !.id = id]

Mishap == mishaps < MaxMishaps /\ mishaps' = mishaps + 1

----------------------------------------------------------------------------
(* RemoteBroker.Run; late is the state of its context.                     *)

Available == lease /\ healthy /\ job.id = NoJob

RunReturns(result) ==
    /\ answer' = result /\ run' = "none" /\ runFor' = NoJob
    /\ job' = IF job.id = runFor THEN Idle ELSE job
    /\ done' = NoResult

\* the first check, before the snapshot of the project
RunBegins(id) ==
    /\ run = "none" /\ answer = "none"
    /\ \/ Available /\ run' = "snapshot" /\ runFor' = id /\ UNCHANGED answer
       \/ ~Available /\ answer' = "failed" /\ UNCHANGED <<run, runFor>>
    /\ UNCHANGED <<lease, healthy, job, done, workerVars, mishaps>>

\* the second check, under the lock that sets the job; the snapshot may fail
RunAssigns ==
    /\ run = "snapshot"
    /\ \/ Available /\ run' = "wait" /\ job' = NewJob(runFor)
          /\ UNCHANGED <<answer, runFor, done>>
       \/ RunReturns("failed")
    /\ UNCHANGED <<lease, healthy, workerVars, mishaps>>

\* a result came; saving the returned copy of the project may fail
RunReceives ==
    /\ run = "wait" /\ done # NoResult
    /\ \/ done.is = "ok" /\ RunReturns("ok")
       \/ RunReturns("failed")
    /\ UNCHANGED <<lease, healthy, workerVars, mishaps>>

Expired_Certain == "failed"      \* mutant: a lost worker is taken for a failed one
Expired == IF job.claimed THEN "unknown" ELSE "failed"

\* the tick finds the lease over
RunTicks ==
    /\ run = "wait" /\ ~lease
    /\ RunReturns(Expired)
    /\ UNCHANGED <<lease, healthy, workerVars, mishaps>>

\* the context ends: a job nobody claimed is over, a claimed one has 10 s
RunCancelled(late) ==
    /\ run = "wait" /\ late
    /\ \/ ~job.claimed /\ RunReturns("failed")
       \/ /\ job.claimed /\ run' = "stopping" /\ job' = [job EXCEPT !.cancel = TRUE]
          /\ UNCHANGED <<answer, runFor, done>>
    /\ UNCHANGED <<lease, healthy, workerVars, mishaps>>

MayStopWaiting_ForResult == done # NoResult      \* mutant: the 10 s are forgotten
MayStopWaiting == TRUE

RunStops ==
    /\ run = "stopping" /\ MayStopWaiting
    /\ RunReturns(IF done # NoResult THEN "failed" ELSE "unknown")
    /\ UNCHANGED <<lease, healthy, workerVars, mishaps>>

----------------------------------------------------------------------------
(* RemoteBroker.HandleMember, called by the loop of the dashboard.         *)

\* invite, by inviteAgent: a lapsed invitation with a job is refused
Invite ==
    /\ loop = "gone" /\ ~lease /\ job.id = NoJob
    /\ lease' = TRUE /\ healthy' = FALSE /\ loop' = "top"
    /\ UNCHANGED <<job, done, run, runFor, answer, reply, has, process, mishaps>>

\* a request of a worker without a lease is refused
Refused ==
    /\ ~lease /\ reply' = Reply("error", NoJob, FALSE)
    /\ UNCHANGED <<healthy, job, done>>

\* health: before a check to disable the worker, after it with the verdict
AskHealth(good) ==
    /\ reply = NoReply /\ loop = (IF good THEN "check" ELSE "top")
    /\ \/ /\ lease /\ job.id = NoJob /\ healthy' = good
          /\ reply' = Reply("accepted", NoJob, FALSE)
          /\ UNCHANGED <<job, done>>
       \/ /\ lease /\ job.id # NoJob
          /\ reply' = Reply("busy", NoJob, FALSE)
          /\ UNCHANGED <<healthy, job, done>>
       \/ Refused
    /\ UNCHANGED <<lease, run, runFor, answer, loop, has, process, mishaps>>

\* poll: hands the assignment out once, repeats the cancellation
AskPoll ==
    /\ reply = NoReply /\ loop \in {"check", "poll"}
    /\ \/ /\ lease /\ (job.id = NoJob \/ job.received)
          /\ reply' = Reply("idle", NoJob, FALSE)
          /\ UNCHANGED <<healthy, job, done>>
       \/ /\ lease /\ job.id # NoJob /\ ~job.received
          /\ LET hands == ~job.claimed /\ ~job.cancel
             IN  /\ reply' = Reply(IF job.cancel THEN "cancel" ELSE "working", job.id, hands)
                 /\ job' = [job EXCEPT !.claimed = @ \/ hands]
          /\ UNCHANGED <<healthy, done>>
       \/ Refused
    /\ UNCHANGED <<lease, run, runFor, answer, loop, has, process, mishaps>>

Expects_AnyJob(id) == job.id # NoJob /\ ~job.received      \* mutant: jobId is not compared
Expects(id) == job.id = id /\ ~job.received

\* result: once, and only for the job the broker has
AskResult ==
    /\ reply = NoReply /\ loop = "select" /\ process \in {"ok", "failed"}
    /\ \/ /\ lease /\ Expects(has)
          /\ done' = [is |-> process, of |-> has] /\ healthy' = (process = "ok")
          /\ job' = [job EXCEPT !.received = TRUE]
          /\ reply' = Reply("received", NoJob, FALSE)
       \/ /\ lease /\ ~Expects(has)
          /\ reply' = Reply("error", NoJob, FALSE)
          /\ UNCHANGED <<healthy, job, done>>
       \/ Refused
    /\ UNCHANGED <<lease, run, runFor, answer, loop, has, process, mishaps>>

----------------------------------------------------------------------------
(* The loop of the dashboard.                                              *)

Lost(r) == r.kind = "working" /\ ~r.assignment /\ has = NoJob

\* the request is refused, or it or its reply is lost, or the member removes
\* the agent, or a job was handed out that never arrived: the process is
\* stopped first
Leaving ==
    /\ loop \notin {"gone", "leaving"}
    /\ \/ reply.kind = "error" /\ UNCHANGED mishaps
       \/ loop = "poll" /\ Lost(reply) /\ UNCHANGED mishaps
       \/ reply.kind # "error" /\ Mishap
    /\ loop' = "leaving" /\ reply' = NoReply
    /\ UNCHANGED <<brokerVars, has, process>>

\* leave, which may be lost like any request
Leave ==
    /\ loop = "leaving" /\ process # "running"
    /\ loop' = "gone" /\ has' = NoJob /\ process' = "none"
    /\ \/ /\ healthy' = FALSE /\ lease' = FALSE
          /\ job' = [job EXCEPT !.cancel = (job.id # NoJob)]
          /\ UNCHANGED mishaps
       \/ Mishap /\ UNCHANGED <<healthy, lease, job>>
    /\ UNCHANGED <<done, run, runFor, answer, reply>>

\* checkAgent: its polls only renew the lease, its verdict is sent once
CheckAgent ==
    /\ loop = "check"
    /\ loop' = IF reply.kind = "accepted" THEN "poll" ELSE "check"

\* what the loop does with a reply
Receive ==
    /\ reply.kind \notin {"none", "error"} /\ reply' = NoReply
    /\ \/ /\ loop = "top"
          /\ loop' = IF reply.kind = "accepted" THEN "check" ELSE "poll"
          /\ UNCHANGED <<has, process>>
       \/ CheckAgent /\ UNCHANGED <<has, process>>
       \/ /\ loop = "poll" /\ ~Lost(reply) /\ loop' = "select"
          /\ \/ /\ reply.assignment /\ has = NoJob
                /\ has' = reply.job /\ process' = "running"
             \/ ~(reply.assignment /\ has = NoJob) /\ UNCHANGED <<has, process>>
       \/ /\ loop = "select" /\ has' = NoJob /\ process' = "none"
          /\ loop' = IF process = "ok" THEN "poll" ELSE "top"
    /\ UNCHANGED <<brokerVars, mishaps>>

\* the ticker; the member may ask for a new check, or the last one is old
Tick ==
    /\ loop = "select" /\ reply = NoReply
    /\ loop' \in {"poll"} \cup {l \in {"top"} : has = NoJob}
    /\ UNCHANGED <<brokerVars, reply, has, process, mishaps>>

ProcessEnds ==
    /\ process = "running" /\ process' \in {"ok", "failed"}
    /\ UNCHANGED <<brokerVars, loop, reply, has, mishaps>>

\* 90 s without a request, 30 min without a check
Lapse ==
    /\ Mishap
    /\ \/ lease /\ lease' = FALSE /\ UNCHANGED healthy
       \/ healthy /\ healthy' = FALSE /\ UNCHANGED lease
    /\ UNCHANGED <<job, done, run, runFor, answer, workerVars>>

----------------------------------------------------------------------------
RemoteInit ==
    /\ lease = FALSE /\ healthy = FALSE /\ job = Idle /\ done = NoResult
    /\ run = "none" /\ runFor = NoJob /\ answer = "none"
    /\ loop = "gone" /\ reply = NoReply /\ has = NoJob /\ process = "none"
    /\ mishaps = 0

\* a restart of the host: the broker forgets its workers
Forgotten ==
    /\ lease' = FALSE /\ healthy' = FALSE /\ job' = Idle
    /\ done' = NoResult /\ run' = "none" /\ runFor' = NoJob /\ answer' = "none"

WorkerStep ==
    \/ AskHealth(TRUE) \/ AskHealth(FALSE) \/ AskPoll \/ AskResult
    \/ Receive \/ Leave \/ ProcessEnds
RunStep(late) == RunAssigns \/ RunReceives \/ RunTicks \/ RunCancelled(late) \/ RunStops

\* Nothing of the jobs of J runs, is about to run, or can still be handed out.
Over(J) ==
    /\ ~(has \in J /\ process = "running")
    /\ ~(reply.assignment /\ reply.job \in J /\ has = NoJob)
    /\ ~(job.id \in J /\ ~job.claimed /\ ~job.cancel)
=============================================================================
