------------------------------- MODULE Tasks -------------------------------
(***************************************************************************)
(* The task board of a project, on the members and the messages of         *)
(* Personal.  A task is made from a message or a note; every run of it is  *)
(* a message accepted for it in the same transaction; its state is not     *)
(* stored but read off those messages.  Members change it from what they   *)
(* last read, by then perhaps old.                                         *)
(*                                                                         *)
(* A change whose request id is in task_receipts is answered from the task *)
(* and changes nothing: it is no step here.                                *)
(***************************************************************************)
EXTENDS Personal

CONSTANT TaskIds

ASSUME TasksAssumption == None \notin TaskIds

VARIABLES
    task,       \* project_tasks and task_messages
    view        \* what each member read last

taskVars == <<task, view>>
projectVars == <<vars, taskVars>>

\* links are the messages of task_messages, last the newest of them; seen is a
\* ghost, the messages of the reading that completed the task
NoTask == [made |-> FALSE, done |-> FALSE, rev |-> 0, links |-> {}, last |-> None, seen |-> {}]

Unread == [task |-> None, rev |-> 0, links |-> {}]
TasksInit ==
    /\ task = [t \in TaskIds |-> NoTask]
    /\ view = [p \in Persons |-> Unread]

\* taskState, of the messages as a transaction has them
TaskState(t, message) ==
    LET states == {message[m] : m \in task[t].links}
    IN  IF task[t].done THEN "completed"
        ELSE IF "needs-review" \in states THEN "needs_confirmation"
        ELSE IF "running" \in states THEN "running"
        ELSE IF "queued" \in states THEN "queued"
        ELSE IF task[t].last = None THEN "todo"
        ELSE IF message[task[t].last] = "completed" THEN "review" ELSE "blocked"

Member(p) == join[p] = "approved"
Writer(p) == Member(p) /\ role[p] = "roommate"
Board == {t \in TaskIds : task[t].made}
roomRest == <<cast, admission, tries, mode, cap, broker, tool, ledger, win, world, consent, mishaps>>

\* get
Look(p, t) ==
    /\ Member(p) /\ t \in Board
    /\ view' = [view EXCEPT ![p] = [task |-> t, rev |-> task[t].rev, links |-> task[t].links]]
    /\ UNCHANGED <<vars, task>>

\* convert: from a message that has no task yet, or from a note
Convert(p, t) ==
    /\ Act /\ Writer(p) /\ t \in cast.tasks \ Board
    /\ \/ \E m \in Messages :
            /\ msg[m] # "none" /\ \A u \in Board : m \notin task[u].links
            /\ task' = [task EXCEPT ![t] = [NoTask EXCEPT !.made = TRUE, !.links = {m}, !.last = m]]
       \/ task' = [task EXCEPT ![t] = [NoTask EXCEPT !.made = TRUE]]
    /\ UNCHANGED <<roomRest, msg, view>>

\* complete: of what was read, once its last run has ended well
Complete(p, t) ==
    /\ Act /\ Writer(p) /\ t \in Board
    /\ view[p].task = t /\ view[p].rev = task[t].rev
    /\ TaskState(t, msg) \in {"review", "todo"}
    /\ task' = [task EXCEPT ![t] =
                 [task[t] EXCEPT !.done = TRUE, !.rev = @ + 1, !.seen = view[p].links]]
    /\ UNCHANGED <<roomRest, msg, view>>

Reopen(p, t) ==
    /\ Act /\ Writer(p) /\ t \in Board
    /\ view[p].task = t /\ view[p].rev = task[t].rev
    /\ TaskState(t, msg) = "completed"
    /\ task' = [task EXCEPT ![t] = [task[t] EXCEPT !.done = FALSE, !.rev = @ + 1, !.seen = {}]]
    /\ UNCHANGED <<roomRest, msg, view>>

AfterRun_Same(rev) == rev        \* mutant: a new run does not count as a change
AfterRun(rev) == rev + 1

\* attachTaskMessage, on the messages of the transaction
Attach(t, m, message) ==
    /\ TaskState(t, message) \notin {"completed", "queued", "running", "needs_confirmation"}
    /\ task' = [task EXCEPT ![t] =
                 [task[t] EXCEPT !.links = @ \cup {m}, !.last = m, !.rev = AfterRun(@)]]

\* a prompt is accepted, for a task or not
Accept(m) ==
    /\ Act /\ msg[m] = "none" /\ Writer(cast.owner[m])
    /\ msg' = [msg EXCEPT ![m] = "queued"]
    /\ \/ \E t \in Board : Attach(t, m, msg)
       \/ UNCHANGED task
    /\ UNCHANGED <<roomRest, view>>

\* a run in doubt is given up for a recovery prompt, which joins its task
Replace(m, n) ==
    /\ Act /\ msg[m] = "needs-review" /\ msg[n] = "none" /\ Member(cast.owner[n])
    /\ LET failed == [msg EXCEPT ![m] = "failed"]
           of == {t \in Board : m \in task[t].links}
       IN  /\ msg' = [failed EXCEPT ![n] = "queued"]
           /\ IF of = {} THEN UNCHANGED task
              ELSE Writer(cast.owner[n]) /\ \E t \in of : Attach(t, n, failed)
    /\ UNCHANGED <<roomRest, view>>

TasksNext ==
    \/ \E p \in Persons, t \in TaskIds :
         Look(p, t) \/ Convert(p, t) \/ Complete(p, t) \/ Reopen(p, t)
    \/ \E m \in Messages : Accept(m)
    \/ \E m, n \in Messages : Replace(m, n)

ProjectInit == Init /\ TasksInit
ProjectNext == (Next /\ UNCHANGED taskVars) \/ TasksNext
ProjectSpec == ProjectInit /\ [][ProjectNext]_projectVars

----------------------------------------------------------------------------
Unfinished == {"queued", "running", "needs-review"}

\* A task never has two unfinished runs, across retries, recovery prompts and
\* conversions of running messages; a completed one has none, and holds no run that
\* the member who completed it had not read of.
TaskDone ==
    \A t \in Board :
        LET open == {m \in task[t].links : msg[m] \in Unfinished} IN
        /\ Cardinality(open) <= 1
        /\ task[t].done => open = {} /\ task[t].links = task[t].seen
=============================================================================
