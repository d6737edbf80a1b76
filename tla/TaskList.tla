------------------------------ MODULE TaskList ------------------------------
(***************************************************************************)
(* The operations of task.h on the task list, called in any order: tasks   *)
(* are created, freed and scheduled.  "queue" is the list as it should be: *)
(* the tasks that exist, in the order of their creation.  task_list_remove *)
(* does not mend the prev link of the task behind the one it takes out;    *)
(* "gone" and "sound" record what such links do to later frees.            *)
(***************************************************************************)
EXTENDS TaskOps, Sequences, SequencesExt

VARIABLES
    list,   \* the links of task.c
    queue,  \* the tasks created and not freed, oldest first
    gone,   \* the freed task that stood before this one when it was created, or NULL
    sound   \* no free has gone wrong by a prev link that was left behind

vars == <<list, queue, gone, sound>>

Live == ToSet(queue)
Position(t) == CHOOSE i \in DOMAIN queue : queue[i] = t
Successor(t) ==
    IF Position(t) = Len(queue) THEN NULL ELSE queue[Position(t) + 1]

Init ==
    /\ list = NoTasks
    /\ queue = <<>>
    /\ gone = [t \in Task |-> NULL]
    /\ sound = TRUE

New(t) ==
    /\ t \notin Live
    /\ list' = task_new(list, t)
    /\ queue' = Append(queue, t)
    /\ gone' = [gone EXCEPT ![t] = NULL]
    /\ UNCHANGED sound

\* The prev link of t is right, or leads to freed memory that no task uses
\* again, and t is the head, which task_list_remove tells by task_head.
Harmless(t) == gone[t] = NULL \/ (t = queue[1] /\ gone[t] \notin Live)

\* The directory and the structure go back to the heap; the list is unlinked.
task_free(t) ==
    /\ list' = task_list_remove(list, t)
    /\ queue' = RemoveAt(queue, Position(t))
    /\ gone' = [u \in Task |->
                  IF u = Successor(t) /\ gone[u] = NULL THEN t ELSE gone[u]]
    /\ sound' = (sound /\ Harmless(t))

\* task_next: the task after the current one, or the first, becomes current.
task_next ==
    /\ list.current # NULL
    /\ list' = SetCurrent(list, task_get_next(list))
    /\ UNCHANGED <<queue, gone, sound>>

Next ==
    \/ \E t \in Task : New(t)
    \/ \E t \in Live : task_free(t)
    \/ task_next

Spec == Init /\ [][Next]_vars

-----------------------------------------------------------------------------
\* The links are tasks or NULL, and where there is a head there is a tail for task_new
\* to write through.
TypeOK ==
    /\ list \in TaskListType
    /\ queue \in Seq(Task)
    /\ gone \in [Task -> Link]
    /\ sound \in BOOLEAN
    /\ sound /\ list.tail = NULL => list.head = NULL

\* The links lead through the existing tasks in the order of their creation.
Ordered ==
    /\ list.head = IF queue = <<>> THEN NULL ELSE Head(queue)
    /\ queue # <<>> => list.tail = Last(queue)
    /\ \A t \in Live : list.next[t] = Successor(t)

\* task.c:25-94.  Following next from task_head visits the existing tasks in the order of
\* their creation and stops at task_tail, so that task_next schedules all of them, until
\* a free goes wrong by a prev link that an earlier free left behind.
NextIsSuccessor == sound => Ordered

\* task.c:73-94.  The same holds of the current task: it exists, unless no task does.
CurrentExists ==
    sound => IF queue = <<>> THEN list.current = NULL ELSE list.current \in Live

\* task.c:90.  task_list_remove hands the turn of a freed current task to the one behind
\* it, even in the free that spoils the list.
FreePassesTheTurn ==
    [][\A t \in Live : sound /\ t \notin ToSet(queue') /\ list.current = t /\ Len(queue) > 1 =>
          list'.current = IF Successor(t) = NULL THEN queue[1] ELSE Successor(t)]_vars

\* task.c:75-83.  The order is lost by the free of a task whose predecessor has been freed
\* before it, unless it is the head and that memory holds no task again, and by nothing else.
OrderLostExactly == [][sound => (sound' <=> Ordered')]_vars
=============================================================================
