------------------------------ MODULE TaskOps ------------------------------
(***************************************************************************)
(* The task list of src/src/task/task.c as a record of its global and its  *)
(* link variables.  A task is the address of its struct task: the links of *)
(* a freed task keep their last value, as the freed memory does.           *)
(***************************************************************************)
CONSTANTS
    Task,   \* the addresses a struct task can have
    NULL

ASSUME TaskAssumption == NULL \notin Task

Link == Task \cup {NULL}

TaskListType == [head    : Link,              \* task_head
                 tail    : Link,              \* task_tail
                 current : Link,              \* current_task
                 next    : [Task -> Link],    \* task->next
                 prev    : [Task -> Link]]    \* task->prev

NoTasks == [head |-> NULL, tail |-> NULL, current |-> NULL,
            next |-> [t \in Task |-> NULL], prev |-> [t \in Task |-> NULL]]

\* task_init clears the structure.
task_init(l, t) == [l EXCEPT !.next[t] = NULL, !.prev[t] = NULL]

\* A plausible slip: the new task is linked behind the head.
task_new_BehindHead(l, t) ==
    LET c == task_init(l, t)
    IN  IF l.head = NULL
        THEN [c EXCEPT !.head = t, !.tail = t, !.current = t]
        ELSE [c EXCEPT !.next[l.head] = t, !.prev[t] = l.head, !.tail = t]

\* A plausible slip: the first task does not become the tail.
task_new_NoTail(l, t) ==
    LET c == task_init(l, t)
    IN  IF l.head = NULL
        THEN [c EXCEPT !.head = t, !.current = t]
        ELSE [c EXCEPT !.next[l.tail] = t, !.prev[t] = l.tail, !.tail = t]

\* task_new once its allocations have succeeded.
task_new(l, t) ==
    LET c == task_init(l, t)
    IN  IF l.head = NULL
        THEN [c EXCEPT !.head = t, !.tail = t, !.current = t]
        ELSE [c EXCEPT !.next[l.tail] = t, !.prev[t] = l.tail, !.tail = t]

\* A plausible slip: the last task is followed by itself.
task_get_next_NoWrap(l) ==
    IF l.next[l.current] = NULL THEN l.current ELSE l.next[l.current]

\* Only called when there is a current task; with none the code reads the
\* links of a task at address 0.
task_get_next(l) ==
    IF l.next[l.current] = NULL THEN l.head ELSE l.next[l.current]

\* A plausible slip: the tail is not moved when the last task goes.
task_list_remove_KeepTail(l, t) ==
    LET a == IF l.prev[t] # NULL
             THEN [l EXCEPT !.next[l.prev[t]] = l.next[t]] ELSE l
        b == IF t = a.head THEN [a EXCEPT !.head = a.next[t]] ELSE a
    IN  IF t = b.current THEN [b EXCEPT !.current = task_get_next(b)] ELSE b

\* A plausible slip: the turn is passed on before the head moves.
task_list_remove_EarlyTurn(l, t) ==
    LET a == IF l.prev[t] # NULL
             THEN [l EXCEPT !.next[l.prev[t]] = l.next[t]] ELSE l
        b == IF t = a.current THEN [a EXCEPT !.current = task_get_next(a)] ELSE a
        c == IF t = b.head THEN [b EXCEPT !.head = b.next[t]] ELSE b
    IN  IF t = c.tail THEN [c EXCEPT !.tail = c.prev[t]] ELSE c

\* The task behind t keeps t as its prev.
task_list_remove(l, t) ==
    LET a == IF l.prev[t] # NULL
             THEN [l EXCEPT !.next[l.prev[t]] = l.next[t]] ELSE l
        b == IF t = a.head THEN [a EXCEPT !.head = a.next[t]] ELSE a
        c == IF t = b.tail THEN [b EXCEPT !.tail = b.prev[t]] ELSE b
    IN  IF t = c.current THEN [c EXCEPT !.current = task_get_next(c)] ELSE c

\* task_switch on the list; the page directory is in Kernel.
SetCurrent(l, t) == [l EXCEPT !.current = t]
=============================================================================
