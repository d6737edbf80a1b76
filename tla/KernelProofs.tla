---------------------------- MODULE KernelProofs ----------------------------
(***************************************************************************)
(* The safety of the running system, for every number of tasks, of process *)
(* slots and of interrupt lines, and for every mix of exceptions and of    *)
(* failed allocations.                                                     *)
(***************************************************************************)
EXTENDS Kernel, FiniteSetTheorems, SequenceTheorems, WellFoundedInduction, TLAPS

\* The list links the tasks of q, each once, in the order of q.
Linked(l, q) ==
    /\ \A i, j \in 1 .. Len(q) : q[i] = q[j] => i = j
    /\ l.head = IF q = <<>> THEN NULL ELSE q[1]
    /\ l.tail = IF q = <<>> THEN NULL ELSE q[Len(q)]
    /\ \A i \in 1 .. Len(q) :
            l.next[q[i]] = IF i = Len(q) THEN NULL ELSE q[i + 1]

\* The task list links the loaded tasks in order; the current one is one of them.
Scheduled(m, q) ==
    /\ q \in Seq(Task)
    /\ Linked(m.list, q)
    /\ IF q = <<>> THEN m.list.current = NULL
       ELSE m.list.current \in {q[i] : i \in 1 .. Len(q)}

\* Before the first program runs nothing has changed what process_load made.
BootInv ==
    s.mode = "boot" =>
        /\ s.list.current = s.list.head
        /\ s.inService = {} /\ terminated = {}
        /\ s.registers = [t \in Task |-> FirstRegisters(t)]
        /\ truth = [t \in Task |-> FirstRegisters(t)]

\* What a program should find is its own and was never read one word off.
TruthInv == \A t \in Task : truth[t].of = t /\ ~ truth[t].shifted

UserInv ==
    /\ RunsInItsOwnSpace
    /\ ContextsPreserved
    /\ NothingInService
    /\ s.mode = "user" => order # <<>>

\* A fault of task_return: the current frame is shifted, and every task has its
\* registers or a shifted frame.
FaultInv ==
    s.mode = "fault" =>
        /\ order # <<>> /\ s.inService = {}
        /\ s.registers[Running].shifted
        /\ \A t \in Loaded : s.registers[t] = truth[t] \/ s.registers[t].shifted

\* No two loaded processes have the same id, even when they are terminated.
\* None of them is ever the current one: nothing that runs calls process_switch.
ArrayInv ==
    /\ ProcessArrayExact
    /\ s.current_process = NULL
    /\ \A t, u \in Loaded : s.process[t].id = s.process[u].id => t = u

Inv ==
    /\ TypeOK
    /\ Scheduled(s, order)
    /\ BootInv
    /\ TruthInv
    /\ UserInv
    /\ FaultInv
    /\ ArrayInv

-----------------------------------------------------------------------------
(* The functions of task.c, field by field *)

LEMMA NoTasksType == NoTasks \in TaskListType
  BY DEF NoTasks, TaskListType, Link

\* task_new puts the task behind the tail; the first one also becomes head and
\* current.
LEMMA TaskNewFields ==
    ASSUME NEW l \in TaskListType, NEW t \in Task,
           l.head = NULL <=> l.tail = NULL
    PROVE  LET n == task_new(l, t)
           IN  /\ n \in TaskListType
               /\ n.head = IF l.head = NULL THEN t ELSE l.head
               /\ n.tail = t
               /\ n.current = IF l.head = NULL THEN t ELSE l.current
               /\ n.next = [u \in Task |->
                    IF u = l.tail THEN t ELSE IF u = t THEN NULL ELSE l.next[u]]
<1> DEFINE c == task_init(l, t)
           n == task_new(l, t)
<1>1. /\ c \in TaskListType
      /\ c.head = l.head /\ c.tail = l.tail /\ c.current = l.current
      /\ c.next = [l.next EXCEPT ![t] = NULL]
    BY DEF task_init, TaskListType, Link
<1>2. CASE l.head = NULL
  <2>1. n = [c EXCEPT !.head = t, !.tail = t, !.current = t]
      BY <1>2 DEF task_new
  <2> HIDE DEF c, n
  <2>2. n \in TaskListType /\ n.head = t /\ n.tail = t /\ n.current = t /\ n.next = c.next
      BY <1>1, <2>1 DEF TaskListType, Link
  <2>3. n.next = [u \in Task |-> IF u = l.tail THEN t ELSE IF u = t THEN NULL ELSE l.next[u]]
      BY <1>1, <1>2, <2>2, TaskAssumption DEF TaskListType
  <2> QED  BY <1>2, <2>2, <2>3 DEF n
<1>3. CASE l.head # NULL
  <2>1. n = [c EXCEPT !.next[l.tail] = t, !.prev[t] = l.tail, !.tail = t]
      BY <1>3 DEF task_new
  <2>2. l.tail \in Task
      BY <1>3 DEF TaskListType, Link
  <2> HIDE DEF c, n
  <2>3. /\ n.head = c.head /\ n.tail = t /\ n.current = c.current
        /\ n.next = [c.next EXCEPT ![l.tail] = t]
        /\ n \in TaskListType
      BY <1>1, <2>1, <2>2 DEF TaskListType, Link
  <2>4. n.next = [u \in Task |-> IF u = l.tail THEN t ELSE IF u = t THEN NULL ELSE l.next[u]]
      BY <1>1, <2>2, <2>3 DEF TaskListType
  <2> QED  BY <1>1, <1>3, <2>3, <2>4 DEF n
<1> QED  BY <1>2, <1>3

LEMMA SetCurrentFields ==
    ASSUME NEW l \in TaskListType, NEW t \in Link
    PROVE  LET n == SetCurrent(l, t)
           IN  /\ n \in TaskListType
               /\ n.current = t
               /\ n.head = l.head /\ n.tail = l.tail /\ n.next = l.next /\ n.prev = l.prev
  BY DEF SetCurrent, TaskListType

LEMMA LinkedEnds ==
    ASSUME NEW l, NEW q \in Seq(Task), Linked(l, q)
    PROVE  /\ l.head = NULL <=> q = <<>>
           /\ l.tail = NULL <=> q = <<>>
           /\ q # <<>> => Len(q) \in Nat \ {0} /\ l.head \in Task /\ l.tail \in Task
<1>1. q # <<>> => 1 \in 1 .. Len(q) /\ Len(q) \in 1 .. Len(q) /\ Len(q) \in Nat \ {0}
    BY EmptySeq, LenProperties
<1>2. \A i \in 1 .. Len(q) : q[i] \in Task
    BY ElementOfSeq
<1> QED  BY <1>1, <1>2, TaskAssumption DEF Linked

\* task_new keeps the order and puts the task last.
LEMMA NewLinked ==
    ASSUME NEW l \in TaskListType, NEW q \in Seq(Task), Linked(l, q),
           NEW t \in Task, \A i \in 1 .. Len(q) : q[i] # t
    PROVE  Linked(task_new(l, t), Append(q, t))
<1> DEFINE n == task_new(l, t)
           r == Append(q, t)
<1>1. /\ Len(q) \in Nat /\ Len(r) = Len(q) + 1 /\ r # <<>>
      /\ \A i \in 1 .. Len(q) : r[i] = q[i] /\ q[i] \in Task
      /\ r[Len(q) + 1] = t
    BY AppendProperties, LenProperties, ElementOfSeq
<1>2. /\ l.head = NULL <=> q = <<>>
      /\ l.tail = NULL <=> q = <<>>
      /\ q # <<>> => Len(q) \in Nat \ {0}
    BY LinkedEnds
<1>3. /\ n.head = IF l.head = NULL THEN t ELSE l.head
      /\ n.tail = t
      /\ n.next = [u \in Task |->
           IF u = l.tail THEN t ELSE IF u = t THEN NULL ELSE l.next[u]]
    BY <1>2, TaskNewFields
<1>4. q = <<>> => Len(q) = 0
    BY EmptySeq
<1> HIDE DEF n, r
<1>5. \A i, j \in 1 .. Len(r) : r[i] = r[j] => i = j
  <2> SUFFICES ASSUME NEW i \in 1 .. Len(r), NEW j \in 1 .. Len(r), r[i] = r[j]
               PROVE  i = j
      OBVIOUS
  <2>1. CASE i \in 1 .. Len(q) /\ j \in 1 .. Len(q)
      BY <1>1, <2>1 DEF Linked
  <2>2. CASE i = Len(q) + 1 \/ j = Len(q) + 1
      BY <1>1, <2>2
  <2> QED  BY <1>1, <2>1, <2>2
<1>6. n.head = r[1]
    BY <1>1, <1>2, <1>3, <1>4 DEF Linked
<1>7. ASSUME NEW i \in 1 .. Len(r)
      PROVE  n.next[r[i]] = IF i = Len(r) THEN NULL ELSE r[i + 1]
  <2>1. CASE i = Len(q) + 1
      BY <1>1, <1>2, <1>3, <1>4, <2>1 DEF Linked
  <2>2. CASE i \in 1 .. Len(q)
    <3>1. r[i] \in Task /\ r[i] = q[i] /\ r[i] # t
        BY <1>1, <2>2
    <3>2. q # <<>> /\ l.tail = q[Len(q)] /\ Len(q) \in 1 .. Len(q)
        BY <1>1, <1>4, <2>2 DEF Linked
    <3>3. CASE i = Len(q)
        BY <1>1, <1>3, <3>1, <3>2, <3>3
    <3>4. CASE i # Len(q)
      <4>1. q[i] # l.tail
          BY <2>2, <3>2, <3>4 DEF Linked
      <4>2. l.next[q[i]] = q[i + 1] /\ q[i + 1] = r[i + 1]
          BY <1>1, <2>2, <3>4 DEF Linked
      <4> QED  BY <1>1, <1>3, <2>2, <3>1, <3>4, <4>1, <4>2
    <3> QED  BY <3>3, <3>4
  <2> QED  BY <1>1, <2>1, <2>2
<1> QED  BY <1>1, <1>3, <1>5, <1>6, <1>7 DEF Linked, n, r

-----------------------------------------------------------------------------
(* The functions of the kernel, field by field *)

LEMMA FirstRegistersType ==
    ASSUME NEW t \in Task
    PROVE  /\ FirstRegisters(t) \in Registers
           /\ FirstRegisters(t).of = t /\ ~ FirstRegisters(t).shifted
  BY KernelAssumption DEF FirstRegisters, Registers

LEMMA KernelPageFields ==
    ASSUME NEW m \in Machine
    PROVE  LET n == kernel_page(m)
           IN  /\ n \in Machine /\ n.mode = m.mode /\ n.cpu = m.cpu
               /\ n.inService = m.inService /\ n.list = m.list /\ n.registers = m.registers
               /\ n.process = m.process /\ n.processes = m.processes
               /\ n.current_process = m.current_process
  BY DEF kernel_page, Machine

\* The page directory and the segments of the current task come back.
LEMMA TaskPageFields ==
    ASSUME NEW m \in Machine, m.list.current \in Task
    PROVE  LET n == task_page(m)
           IN  /\ n \in Machine /\ n.mode = m.mode /\ n.cpu = m.cpu
               /\ n.cr3 = m.list.current /\ n.ds = "user"
               /\ n.list.head = m.list.head /\ n.list.tail = m.list.tail
               /\ n.list.next = m.list.next /\ n.list.current = m.list.current
               /\ n.inService = m.inService /\ n.registers = m.registers
               /\ n.process = m.process /\ n.processes = m.processes
               /\ n.current_process = m.current_process
<1> DEFINE t == m.list.current
           l == SetCurrent(m.list, t)
<1>1. t \in Link /\ m.list \in TaskListType
    BY DEF Link, Machine
<1>2. /\ l \in TaskListType /\ l.current = t
      /\ l.head = m.list.head /\ l.tail = m.list.tail /\ l.next = m.list.next
    BY <1>1, SetCurrentFields
<1>3. task_page(m) = [[m EXCEPT !.ds = "user"] EXCEPT !.list = l, !.cr3 = t]
    BY DEF task_page, task_switch, Machine
<1> HIDE DEF l
<1> QED  BY <1>2, <1>3 DEF Machine

LEMMA SaveStateFields ==
    ASSUME NEW m \in Machine, NEW frame \in Registers, m.list.current \in Task
    PROVE  LET n == task_current_save_state(m, frame)
           IN  /\ n \in Machine /\ n.mode = m.mode /\ n.cpu = m.cpu
               /\ n.inService = m.inService /\ n.list = m.list
               /\ n.registers = [m.registers EXCEPT ![m.list.current] = frame]
               /\ n.process = m.process /\ n.processes = m.processes
               /\ n.current_process = m.current_process
  BY DEF task_current_save_state, Machine

\* With at most one interrupt in service there is none afterwards.
LEMMA EndOfInterruptFields ==
    ASSUME NEW m \in Machine, \A i, j \in m.inService : i = j
    PROVE  LET n == EndOfInterrupt(m)
           IN  /\ n \in Machine /\ n.inService = {}
               /\ n.mode = m.mode /\ n.cpu = m.cpu /\ n.cr3 = m.cr3 /\ n.ds = m.ds
               /\ n.list = m.list /\ n.registers = m.registers
               /\ n.process = m.process /\ n.processes = m.processes
               /\ n.current_process = m.current_process
<1>1. m.inService \subseteq 0 .. 7
    BY KernelAssumption DEF Machine
<1>2. \A i \in m.inService : ~ (i < i)
    BY <1>1
<1>3. {i \in m.inService : \E j \in m.inService : j < i} = {}
    BY <1>2
<1>4. EndOfInterrupt(m) = [m EXCEPT !.inService = {}]
    BY <1>3 DEF EndOfInterrupt, Machine
<1> QED  BY <1>4 DEF Machine

LEMMA TerminateFields ==
    ASSUME NEW m \in Machine, NEW p \in Task, m.current_process = NULL
    PROVE  LET n == process_terminate(m, p)
           IN  /\ n \in Machine /\ n.mode = m.mode /\ n.cpu = m.cpu
               /\ n.inService = m.inService /\ n.list = m.list /\ n.registers = m.registers
               /\ n.process = m.process
               /\ n.processes = [m.processes EXCEPT ![m.process[p].id] = NULL]
               /\ n.current_process = NULL
<1> DEFINE u == [m EXCEPT !.processes[m.process[p].id] = NULL]
<1>1. m.process[p].id \in Slot
    BY DEF Machine, Process
<1>2. /\ u \in Machine /\ u.mode = m.mode /\ u.cpu = m.cpu
      /\ u.inService = m.inService /\ u.list = m.list /\ u.registers = m.registers
      /\ u.process = m.process
      /\ u.processes = [m.processes EXCEPT ![m.process[p].id] = NULL]
      /\ u.current_process = NULL
    BY <1>1 DEF Machine, Link
<1>3. process_terminate(m, p) = u
    BY <1>2, TaskAssumption DEF process_terminate, process_unlink
<1> HIDE DEF u
<1> QED  BY <1>2, <1>3

-----------------------------------------------------------------------------
\* The turn: the task behind i, and the first one behind the last.
LEMMA Turn ==
    ASSUME NEW m, NEW q, m.list \in TaskListType, Scheduled(m, q), q # <<>>
    PROVE  \E i \in 1 .. Len(q) :
                /\ m.list.current = q[i]
                /\ task_get_next(m.list) = q[(i % Len(q)) + 1]
                /\ (i % Len(q)) + 1 \in 1 .. Len(q)
<1>1. q \in Seq(Task) /\ Linked(m.list, q)
    BY DEF Scheduled
<1>2. Len(q) \in Nat \ {0} /\ \A i \in 1 .. Len(q) : q[i] \in Task
    BY <1>1, EmptySeq, ElementOfSeq
<1>3. PICK i \in 1 .. Len(q) : m.list.current = q[i]
    BY DEF Scheduled
<1>4. m.list.head = q[1] /\ m.list.next[q[i]] = IF i = Len(q) THEN NULL ELSE q[i + 1]
    BY <1>1 DEF Linked
<1>5. CASE i = Len(q)
  <2>1. i % Len(q) = 0
      BY <1>2, <1>5
  <2>2. task_get_next(m.list) = q[1]
      BY <1>3, <1>4, <1>5 DEF task_get_next
  <2> QED  BY <1>2, <1>3, <2>1, <2>2
<1>6. CASE i # Len(q)
  <2>1. i % Len(q) = i /\ i + 1 \in 1 .. Len(q)
      BY <1>2, <1>6
  <2>2. q[i + 1] # NULL
      BY <1>2, <2>1, TaskAssumption
  <2>3. task_get_next(m.list) = q[i + 1]
      BY <1>3, <1>4, <1>6, <2>2 DEF task_get_next
  <2> QED  BY <1>3, <2>1, <2>3
<1> QED  BY <1>5, <1>6

\* task_next: the next task has its directory, and its registers unless they
\* were shifted.
LEMMA TaskNextFields ==
    ASSUME NEW m \in Machine, NEW q, Scheduled(m, q), q # <<>>
    PROVE  LET n == task_next(m)
               u == task_get_next(m.list)
           IN  /\ n \in Machine /\ Scheduled(n, q)
               /\ n.list.current = u /\ u \in {q[i] : i \in 1 .. Len(q)}
               /\ n.cr3 = u
               /\ n.inService = m.inService /\ n.registers = m.registers
               /\ n.process = m.process /\ n.processes = m.processes
               /\ n.current_process = m.current_process
               /\ IF m.registers[u].shifted THEN n.mode = "fault"
                  ELSE n.mode = "user" /\ n.ds = "user" /\ n.cpu = m.registers[u]
<1> DEFINE u == task_get_next(m.list)
           l == SetCurrent(m.list, u)
           k == task_switch(m, u)
           n == task_next(m)
<1>1. m.list \in TaskListType
    BY DEF Machine
<1>2. u \in {q[i] : i \in 1 .. Len(q)}
    BY <1>1, Turn
<1>3. q \in Seq(Task) /\ Linked(m.list, q)
    BY DEF Scheduled
<1>4. u \in Task
    BY <1>2, <1>3, ElementOfSeq
<1> HIDE DEF u
<1>5. /\ l \in TaskListType /\ l.current = u
      /\ l.head = m.list.head /\ l.tail = m.list.tail /\ l.next = m.list.next
    BY <1>1, <1>4, SetCurrentFields DEF Link
<1>6. Linked(l, q)
    BY <1>3, <1>5 DEF Linked
<1>7. k = [m EXCEPT !.list = l, !.cr3 = u]
    BY DEF task_switch
<1> HIDE DEF l, k
<1>8. /\ k \in Machine /\ k.list = l /\ k.cr3 = u
      /\ k.inService = m.inService /\ k.registers = m.registers
      /\ k.process = m.process /\ k.processes = m.processes
      /\ k.current_process = m.current_process
    BY <1>4, <1>5, <1>7 DEF Machine
<1>9. n = IF m.registers[u].shifted THEN [k EXCEPT !.mode = "fault"]
          ELSE [k EXCEPT !.mode = "user", !.ds = "user", !.cpu = m.registers[u]]
    BY <1>8 DEF task_next, task_return, k, u
<1> HIDE DEF n
<1>10. m.registers[u] \in Registers
    BY <1>4 DEF Machine
<1>11. /\ n \in Machine /\ n.list = l /\ n.cr3 = u
       /\ n.inService = m.inService /\ n.registers = m.registers
       /\ n.process = m.process /\ n.processes = m.processes
       /\ n.current_process = m.current_process
       /\ IF m.registers[u].shifted THEN n.mode = "fault"
          ELSE n.mode = "user" /\ n.ds = "user" /\ n.cpu = m.registers[u]
  <2>1. CASE m.registers[u].shifted
      BY <1>8, <1>9, <2>1 DEF Machine
  <2>2. CASE ~ m.registers[u].shifted
      BY <1>8, <1>9, <1>10, <2>2 DEF Machine
  <2> QED  BY <2>1, <2>2
<1>12. Scheduled(n, q)
    BY <1>2, <1>3, <1>5, <1>6, <1>11 DEF Scheduled
<1> QED  BY <1>2, <1>5, <1>11, <1>12 DEF n, u

-----------------------------------------------------------------------------
(* The interrupts *)

\* n is m after the frame was saved and the next task got the processor.
TurnPassed(m, n, q, frame) ==
    LET u == task_get_next(m.list)
        saved == [m.registers EXCEPT ![m.list.current] = frame]
    IN  /\ n \in Machine /\ Scheduled(n, q)
        /\ n.list.current = u /\ u \in {q[i] : i \in 1 .. Len(q)}
        /\ n.cr3 = u /\ n.registers = saved
        /\ n.process = m.process /\ n.current_process = m.current_process
        /\ IF saved[u].shifted THEN n.mode = "fault"
           ELSE n.mode = "user" /\ n.ds = "user" /\ n.cpu = saved[u]

LEMMA ScheduledCurrent ==
    ASSUME NEW m, NEW q, Scheduled(m, q), q # <<>>
    PROVE  m.list.current \in Task /\ m.list.head \in Task
<1>1. q \in Seq(Task) /\ Len(q) \in Nat \ {0} /\ \A i \in 1 .. Len(q) : q[i] \in Task
    BY EmptySeq, ElementOfSeq DEF Scheduled
<1> QED  BY <1>1 DEF Scheduled, Linked

\* The state that a vector with a callback starts from.
LEMMA SavedFields ==
    ASSUME NEW m \in Machine, NEW q, Scheduled(m, q), q # <<>>, NEW frame \in Registers
    PROVE  LET k == task_current_save_state(kernel_page(m), frame)
           IN  /\ k \in Machine /\ Scheduled(k, q) /\ k.list = m.list
               /\ k.inService = m.inService
               /\ k.registers = [m.registers EXCEPT ![m.list.current] = frame]
               /\ k.process = m.process /\ k.processes = m.processes
               /\ k.current_process = m.current_process
               /\ k.cpu = m.cpu /\ k.mode = m.mode
<1> DEFINE j == kernel_page(m)
           k == task_current_save_state(j, frame)
<1>1. m.list.current \in Task
    BY ScheduledCurrent
<1>2. /\ j \in Machine /\ j.mode = m.mode /\ j.cpu = m.cpu
      /\ j.inService = m.inService /\ j.list = m.list /\ j.registers = m.registers
      /\ j.process = m.process /\ j.processes = m.processes
      /\ j.current_process = m.current_process
    BY KernelPageFields
<1> HIDE DEF j
<1>3. /\ k \in Machine /\ k.mode = j.mode /\ k.cpu = j.cpu
      /\ k.inService = j.inService /\ k.list = j.list
      /\ k.registers = [j.registers EXCEPT ![j.list.current] = frame]
      /\ k.process = j.process /\ k.processes = j.processes
      /\ k.current_process = j.current_process
    BY <1>1, <1>2, SaveStateFields
<1> HIDE DEF k
<1>4. Scheduled(k, q)
    BY <1>2, <1>3 DEF Scheduled
<1> QED  BY <1>2, <1>3, <1>4 DEF j, k

LEMMA ClockFields ==
    ASSUME NEW m \in Machine, NEW q, Scheduled(m, q), q # <<>>, NEW frame \in Registers,
           \A i, j \in m.inService : i = j
    PROVE  LET n == interrupt_handler(m, "clock", frame)
           IN  /\ TurnPassed(m, n, q, frame)
               /\ n.inService = {} /\ n.processes = m.processes
<1> DEFINE k == task_current_save_state(kernel_page(m), frame)
           e == EndOfInterrupt(k)
           n == task_next(e)
<1>1. /\ k \in Machine /\ Scheduled(k, q) /\ k.list = m.list
      /\ k.inService = m.inService
      /\ k.registers = [m.registers EXCEPT ![m.list.current] = frame]
      /\ k.process = m.process /\ k.processes = m.processes
      /\ k.current_process = m.current_process
    BY SavedFields
<1> HIDE DEF k
<1>2. /\ e \in Machine /\ e.inService = {}
      /\ e.list = k.list /\ e.registers = k.registers
      /\ e.process = k.process /\ e.processes = k.processes
      /\ e.current_process = k.current_process
    BY <1>1, EndOfInterruptFields
<1>3. Scheduled(e, q)
    BY <1>1, <1>2 DEF Scheduled
<1> HIDE DEF e
<1> DEFINE u == task_get_next(e.list)
<1>4. /\ n \in Machine /\ Scheduled(n, q)
      /\ n.list.current = u /\ u \in {q[i] : i \in 1 .. Len(q)}
      /\ n.cr3 = u
      /\ n.inService = e.inService /\ n.registers = e.registers
      /\ n.process = e.process /\ n.processes = e.processes
      /\ n.current_process = e.current_process
      /\ IF e.registers[u].shifted THEN n.mode = "fault"
         ELSE n.mode = "user" /\ n.ds = "user" /\ n.cpu = e.registers[u]
    BY <1>2, <1>3, TaskNextFields
<1> HIDE DEF n
<1>5. TurnPassed(m, n, q, frame) /\ n.inService = {} /\ n.processes = m.processes
    BY <1>1, <1>2, <1>4 DEF TurnPassed
<1>6. interrupt_handler(m, "clock", frame) = n
    BY DEF interrupt_handler, idt_clock, n, e, k
<1> QED  BY <1>5, <1>6

LEMMA ExceptionFields ==
    ASSUME NEW m \in Machine, NEW q, Scheduled(m, q), q # <<>>, NEW frame \in Registers,
           m.current_process = NULL
    PROVE  LET n == interrupt_handler(m, "exception", frame)
           IN  /\ TurnPassed(m, n, q, frame)
               /\ n.inService = m.inService
               /\ n.processes = [m.processes EXCEPT ![m.process[m.list.current].id] = NULL]
<1> DEFINE k == task_current_save_state(kernel_page(m), frame)
           e == process_terminate(k, k.list.current)
           n == task_next(e)
<1>1. /\ k \in Machine /\ Scheduled(k, q) /\ k.list = m.list
      /\ k.inService = m.inService
      /\ k.registers = [m.registers EXCEPT ![m.list.current] = frame]
      /\ k.process = m.process /\ k.processes = m.processes
      /\ k.current_process = m.current_process
    BY SavedFields
<1> HIDE DEF k
<1>2. k.list.current \in Task
    BY <1>1, ScheduledCurrent
<1>3. /\ e \in Machine /\ e.inService = k.inService
      /\ e.list = k.list /\ e.registers = k.registers
      /\ e.process = k.process
      /\ e.processes = [k.processes EXCEPT ![k.process[k.list.current].id] = NULL]
      /\ e.current_process = NULL
    BY <1>1, <1>2, TerminateFields
<1>4. Scheduled(e, q)
    BY <1>1, <1>3 DEF Scheduled
<1> HIDE DEF e
<1> DEFINE u == task_get_next(e.list)
<1>5. /\ n \in Machine /\ Scheduled(n, q)
      /\ n.list.current = u /\ u \in {q[i] : i \in 1 .. Len(q)}
      /\ n.cr3 = u
      /\ n.inService = e.inService /\ n.registers = e.registers
      /\ n.process = e.process /\ n.processes = e.processes
      /\ n.current_process = e.current_process
      /\ IF e.registers[u].shifted THEN n.mode = "fault"
         ELSE n.mode = "user" /\ n.ds = "user" /\ n.cpu = e.registers[u]
    BY <1>3, <1>4, TaskNextFields
<1> HIDE DEF n
<1>6. /\ TurnPassed(m, n, q, frame) /\ n.inService = m.inService
      /\ n.processes = [m.processes EXCEPT ![m.process[m.list.current].id] = NULL]
    BY <1>1, <1>3, <1>5 DEF TurnPassed
<1>7. interrupt_handler(m, "exception", frame) = n
    BY DEF interrupt_handler, idt_handle_exception, n, e, k
<1> QED  BY <1>6, <1>7

\* n is m with the kernel's work undone: the program goes on.
Resumed(m, n, q) ==
    /\ n \in Machine /\ Scheduled(n, q)
    /\ n.mode = m.mode /\ n.list.current = m.list.current
    /\ n.cr3 = m.list.current /\ n.ds = "user"
    /\ n.process = m.process /\ n.processes = m.processes
    /\ n.current_process = m.current_process

LEMMA PageResumes ==
    ASSUME NEW m \in Machine, NEW q, Scheduled(m, q), q # <<>>
    PROVE  LET n == task_page(m)
           IN  /\ Resumed(m, n, q)
               /\ n.cpu = m.cpu /\ n.inService = m.inService /\ n.registers = m.registers
<1> DEFINE n == task_page(m)
<1>1. m.list.current \in Task
    BY ScheduledCurrent
<1>2. /\ n \in Machine /\ n.mode = m.mode /\ n.cpu = m.cpu
      /\ n.cr3 = m.list.current /\ n.ds = "user"
      /\ n.list.head = m.list.head /\ n.list.tail = m.list.tail
      /\ n.list.next = m.list.next /\ n.list.current = m.list.current
      /\ n.inService = m.inService /\ n.registers = m.registers
      /\ n.process = m.process /\ n.processes = m.processes
      /\ n.current_process = m.current_process
    BY <1>1, TaskPageFields
<1> HIDE DEF n
<1>3. Scheduled(n, q)
    BY <1>2 DEF Scheduled, Linked
<1> QED  BY <1>2, <1>3 DEF Resumed, n

LEMMA OtherFields ==
    ASSUME NEW m \in Machine, NEW q, Scheduled(m, q), q # <<>>, NEW frame \in Registers,
           \A i, j \in m.inService : i = j
    PROVE  LET n == interrupt_handler(m, "other", frame)
           IN  /\ Resumed(m, n, q)
               /\ n.cpu = m.cpu /\ n.inService = {} /\ n.registers = m.registers
<1> DEFINE k == kernel_page(m)
           p == task_page(k)
           n == EndOfInterrupt(p)
<1>1. /\ k \in Machine /\ k.mode = m.mode /\ k.cpu = m.cpu
      /\ k.inService = m.inService /\ k.list = m.list /\ k.registers = m.registers
      /\ k.process = m.process /\ k.processes = m.processes
      /\ k.current_process = m.current_process
    BY KernelPageFields
<1> HIDE DEF k
<1>2. Scheduled(k, q)
    BY <1>1 DEF Scheduled
<1>3. /\ Resumed(k, p, q)
      /\ p.cpu = k.cpu /\ p.inService = k.inService /\ p.registers = k.registers
    BY <1>1, <1>2, PageResumes
<1> HIDE DEF p
<1>4. /\ n \in Machine /\ n.inService = {}
      /\ n.mode = p.mode /\ n.cpu = p.cpu /\ n.cr3 = p.cr3 /\ n.ds = p.ds
      /\ n.list = p.list /\ n.registers = p.registers
      /\ n.process = p.process /\ n.processes = p.processes
      /\ n.current_process = p.current_process
    BY <1>1, <1>3, EndOfInterruptFields DEF Resumed
<1> HIDE DEF n
<1>5. Scheduled(n, q)
    BY <1>3, <1>4 DEF Scheduled, Resumed
<1>6. /\ Resumed(m, n, q)
      /\ n.cpu = m.cpu /\ n.inService = {} /\ n.registers = m.registers
    BY <1>1, <1>3, <1>4, <1>5 DEF Resumed
<1>7. interrupt_handler(m, "other", frame) = n
    BY DEF interrupt_handler, n, p, k
<1> QED  BY <1>6, <1>7

LEMMA SystemCallFields ==
    ASSUME NEW m \in Machine, NEW q, Scheduled(m, q), q # <<>>, NEW frame \in Registers
    PROVE  LET n == isr80h_handler(m, frame)
           IN  /\ Resumed(m, n, q)
               /\ n.cpu = [m.cpu EXCEPT !.eax = 0] /\ n.inService = m.inService
               /\ n.registers = [m.registers EXCEPT ![m.list.current] = frame]
<1> DEFINE k == task_current_save_state(kernel_page(m), frame)
           p == task_page(k)
           n == isr80h_handler(m, frame)
<1>1. /\ k \in Machine /\ Scheduled(k, q) /\ k.list = m.list
      /\ k.inService = m.inService
      /\ k.registers = [m.registers EXCEPT ![m.list.current] = frame]
      /\ k.process = m.process /\ k.processes = m.processes
      /\ k.current_process = m.current_process
      /\ k.cpu = m.cpu /\ k.mode = m.mode
    BY SavedFields
<1> HIDE DEF k
<1>2. /\ Resumed(k, p, q)
      /\ p.cpu = k.cpu /\ p.inService = k.inService /\ p.registers = k.registers
    BY <1>1, PageResumes
<1>3. n = [p EXCEPT !.cpu.eax = 0]
    BY DEF isr80h_handler, k, p
<1> HIDE DEF p, n
<1>4. p \in Machine /\ p.cpu \in Registers
    BY <1>2 DEF Resumed, Machine
<1>5. /\ n \in Machine /\ n.cpu = [p.cpu EXCEPT !.eax = 0]
      /\ n.mode = p.mode /\ n.cr3 = p.cr3 /\ n.ds = p.ds /\ n.inService = p.inService
      /\ n.list = p.list /\ n.registers = p.registers
      /\ n.process = p.process /\ n.processes = p.processes
      /\ n.current_process = p.current_process
  <2>1. [p.cpu EXCEPT !.eax = 0] \in Registers
      BY <1>4 DEF Registers
  <2> QED  BY <1>3, <1>4, <2>1 DEF Machine
<1>6. Scheduled(n, q)
    BY <1>2, <1>5 DEF Scheduled, Resumed
<1> QED  BY <1>1, <1>2, <1>5, <1>6 DEF Resumed, n

-----------------------------------------------------------------------------
(* Loading programs *)

LEMMA LoadedIsRange ==
    ASSUME order \in Seq(Task)
    PROVE  /\ Len(order) \in Nat /\ DOMAIN order = 1 .. Len(order)
           /\ Loaded = {order[i] : i \in 1 .. Len(order)}
           /\ Loaded \subseteq Task
           /\ order = <<>> <=> Len(order) = 0
<1>1. Len(order) \in Nat /\ DOMAIN order = 1 .. Len(order)
    BY LenProperties
<1>2. \A i \in 1 .. Len(order) : order[i] \in Task
    BY ElementOfSeq
<1>3. order = <<>> <=> Len(order) = 0
    BY EmptySeq
<1> QED  BY <1>1, <1>2, <1>3 DEF Loaded

LEMMA TaskNotEmpty == Task # {}
<1> SUFFICES ASSUME Task = {} PROVE FALSE
    OBVIOUS
<1>1. Cardinality(Task) = 0
    BY FS_EmptySet
<1>2. PICK n \in Loads : n \in 1 .. Cardinality(Task)
    BY KernelAssumption
<1> QED  BY <1>1, <1>2

\* The heap has room for one more task: fewer are loaded than there are.
LEMMA NewTaskIsNew ==
    ASSUME order \in Seq(Task), NEW n \in Loads, Len(order) < n
    PROVE  NewTask \in Task \ Loaded
<1>1. /\ Len(order) \in Nat /\ DOMAIN order = 1 .. Len(order)
      /\ Loaded = {order[i] : i \in 1 .. Len(order)} /\ Loaded \subseteq Task
    BY LoadedIsRange
<1>2. order \in [1 .. Len(order) -> Loaded]
    BY <1>1, LenProperties
<1>3. order \in Surjection(1 .. Len(order), Loaded)
    BY <1>1, <1>2 DEF Surjection
<1>4. IsFiniteSet(1 .. Len(order)) /\ Cardinality(1 .. Len(order)) = Len(order)
    BY <1>1, FS_Interval
<1>5. IsFiniteSet(Loaded) /\ Cardinality(Loaded) <= Len(order) /\ Cardinality(Loaded) \in Nat
    BY <1>3, <1>4, FS_Surjection, FS_CardinalityType
<1>6. n \in 1 .. Cardinality(Task)
    BY KernelAssumption
<1>7. Loaded # Task
  <2> SUFFICES ASSUME Loaded = Task PROVE FALSE
      OBVIOUS
  <2>1. Cardinality(Task) \in Nat /\ Cardinality(Task) <= Len(order)
      BY <1>5
  <2> QED  BY <1>1, <1>6, <2>1
<1>8. \E t \in Task : t \notin Loaded
    BY <1>1, <1>7
<1> QED  BY <1>8 DEF NewTask

\* A slot is found whenever there is one, and it is free.
LEMMA FreeSlot ==
    ASSUME NEW m \in Machine
    PROVE  \/ process_get_free_slot(m) = -8
           \/ /\ process_get_free_slot(m) \in Slot
              /\ m.processes[process_get_free_slot(m)] = NULL
<1> DEFINE F == FreeSlots(m)
           R == OpToRel(<, Nat)
<1>1. F \subseteq Slot /\ F \subseteq Nat /\ \A i \in F : m.processes[i] = NULL
    BY KernelAssumption DEF FreeSlots, Slot
<1>2. CASE F = {}
    BY <1>2 DEF process_get_free_slot
<1>3. CASE F # {}
  <2> HIDE DEF F
  <2>1. IsWellFoundedOn(R, Nat)
      BY NatLessThanWellFounded
  <2>2. PICK x \in F : \A y \in F : ~ (<<y, x>> \in R)
    <3> HIDE DEF R
    <3> QED  BY <1>1, <1>3, <2>1, WFMin
  <2>3. \A y \in F : x <= y
    <3>1. SUFFICES ASSUME NEW y \in F, y < x PROVE FALSE
        BY <1>1
    <3>2. <<y, x>> \in R
        BY <1>1, <3>1 DEF OpToRel
    <3> QED  BY <2>2, <3>2
  <2>4. process_get_free_slot(m) \in F
      BY <1>3, <2>3 DEF process_get_free_slot, F
  <2> QED  BY <1>1, <2>4
<1> QED  BY <1>2, <1>3

\* process_load makes the process and its task, or stops the machine.
LEMMA LoadFields ==
    ASSUME NEW m \in Machine, NEW q, Scheduled(m, q), NEW t \in Task,
           \A i \in 1 .. Len(q) : q[i] # t,
           m.mode = "boot", NEW failure \in AllocFailures \cup {"none"}
    PROVE  LET n == process_load(m, t, failure)
               slot == process_get_free_slot(m)
           IN  \/ /\ n \in Machine /\ n.mode \in {"panic", "lost"}
                  /\ n.list = m.list /\ n.process = m.process /\ n.processes = m.processes
                  /\ n.current_process = m.current_process
               \/ /\ n \in Machine /\ n.mode = "boot"
                  /\ Linked(n.list, Append(q, t))
                  /\ n.list.head = IF q = <<>> THEN t ELSE m.list.head
                  /\ n.list.current = IF q = <<>> THEN t ELSE m.list.current
                  /\ n.registers = [m.registers EXCEPT ![t] = FirstRegisters(t)]
                  /\ slot \in Slot /\ m.processes[slot] = NULL
                  /\ n.process = [m.process EXCEPT ![t] = process_load_data(slot)]
                  /\ n.processes = [m.processes EXCEPT ![slot] = t]
                  /\ n.current_process = m.current_process
                  /\ n.inService = m.inService
<1> DEFINE slot == process_get_free_slot(m)
           l == task_new(m.list, t)
           n == process_load(m, t, failure)
<1>1. CASE slot < 0 \/ failure \in {"process", "stack"}
  <2>1. n = [m EXCEPT !.mode = "panic"]
      BY <1>1 DEF process_load
  <2> HIDE DEF n
  <2>2. /\ n \in Machine /\ n.mode \in {"panic", "lost"}
        /\ n.list = m.list /\ n.process = m.process /\ n.processes = m.processes
        /\ n.current_process = m.current_process
      BY <2>1 DEF Machine
  <2> QED  BY <2>2 DEF n
<1>2. CASE ~ (slot < 0 \/ failure \in {"process", "stack"}) /\ failure = "task"
  <2>1. n = [m EXCEPT !.mode = "lost"]
      BY <1>2 DEF process_load
  <2> HIDE DEF n
  <2>2. /\ n \in Machine /\ n.mode \in {"panic", "lost"}
        /\ n.list = m.list /\ n.process = m.process /\ n.processes = m.processes
        /\ n.current_process = m.current_process
      BY <2>1 DEF Machine
  <2> QED  BY <2>2 DEF n
<1>3. CASE ~ (slot < 0 \/ failure \in {"process", "stack"}) /\ failure # "task"
  <2>1. n = [m EXCEPT !.list = l, !.registers[t] = FirstRegisters(t),
                      !.process[t] = process_load_data(slot), !.processes[slot] = t]
      BY <1>3 DEF process_load
  <2>2. slot \in Slot /\ m.processes[slot] = NULL
      BY <1>3, FreeSlot
  <2>3. q \in Seq(Task) /\ Linked(m.list, q) /\ m.list \in TaskListType
      BY DEF Scheduled, Machine
  <2>4. (m.list.head = NULL <=> q = <<>>) /\ (m.list.tail = NULL <=> q = <<>>)
      BY <2>3, LinkedEnds
  <2>5. /\ l \in TaskListType
        /\ l.head = IF m.list.head = NULL THEN t ELSE m.list.head
        /\ l.current = IF m.list.head = NULL THEN t ELSE m.list.current
      BY <2>3, <2>4, TaskNewFields
  <2>6. Linked(l, Append(q, t))
      BY <2>3, NewLinked
  <2>7. process_load_data(slot) \in Process
      BY <2>2 DEF process_load_data, Process
  <2>8. FirstRegisters(t) \in Registers
      BY FirstRegistersType
  <2> HIDE DEF n, l, slot
  <2>9. /\ n.mode = m.mode /\ n.list = l
        /\ n.registers = [m.registers EXCEPT ![t] = FirstRegisters(t)]
        /\ n.process = [m.process EXCEPT ![t] = process_load_data(slot)]
        /\ n.processes = [m.processes EXCEPT ![slot] = t]
        /\ n.current_process = m.current_process
        /\ n.inService = m.inService
        /\ n \in Machine
      BY <2>1, <2>2, <2>5, <2>7, <2>8 DEF Machine, Link
  <2> QED  BY <2>2, <2>4, <2>5, <2>6, <2>9 DEF n, slot
<1> QED  BY <1>1, <1>2, <1>3

-----------------------------------------------------------------------------
(* The steps *)

\* What RoundRobin says of one step.
TurnTaken ==
    Running # NULL /\ Running' # Running =>
        \E i \in DOMAIN order :
            /\ Running = order[i]
            /\ Running' = order[(i % Len(order)) + 1]

\* While a program runs there is a current task, and the state of each program
\* is where it belongs.
LEMMA UserFacts ==
    ASSUME Inv, s.mode = "user"
    PROVE  /\ s \in Machine /\ truth \in [Task -> Registers]
           /\ Scheduled(s, order) /\ order # <<>>
           /\ Running \in Task /\ Running \in Loaded /\ Loaded \subseteq Task
           /\ Loaded = {order[i] : i \in 1 .. Len(order)}
           /\ DOMAIN order = 1 .. Len(order)
           /\ s.cpu = truth[Running] /\ s.cpu \in Registers /\ ~ s.cpu.shifted
           /\ s.cr3 = Running /\ s.ds = "user" /\ s.inService = {}
           /\ s.current_process = NULL
           /\ \A t \in Loaded \ {Running} : s.registers[t] = truth[t] \/ s.registers[t].shifted
<1>1. s \in Machine /\ truth \in [Task -> Registers] /\ Scheduled(s, order) /\ order # <<>>
    BY DEF Inv, TypeOK, UserInv
<1>2. order \in Seq(Task)
    BY <1>1 DEF Scheduled
<1>3. /\ Loaded = {order[i] : i \in 1 .. Len(order)} /\ Loaded \subseteq Task
      /\ DOMAIN order = 1 .. Len(order)
    BY <1>2, LoadedIsRange
<1>4. Running \in Loaded /\ Running \in Task
    BY <1>1, <1>3 DEF Scheduled, Running
<1>5. /\ s.cpu = truth[Running] /\ s.cr3 = Running /\ s.ds = "user" /\ s.inService = {}
      /\ \A t \in Loaded \ {Running} : s.registers[t] = truth[t] \/ s.registers[t].shifted
    BY DEF Inv, UserInv, RunsInItsOwnSpace, ContextsPreserved, NothingInService
<1>6. s.cpu \in Registers /\ ~ s.cpu.shifted
    BY <1>1, <1>4, <1>5 DEF Inv, TruthInv
<1>7. s.current_process = NULL
    BY DEF Inv, ArrayInv
<1> QED  BY <1>1, <1>3, <1>4, <1>5, <1>6, <1>7

\* The same when task_return has faulted.
LEMMA FaultFacts ==
    ASSUME Inv, s.mode = "fault"
    PROVE  /\ s \in Machine /\ truth \in [Task -> Registers]
           /\ Scheduled(s, order) /\ order # <<>>
           /\ Running \in Task /\ Running \in Loaded /\ Loaded \subseteq Task
           /\ s.registers[Running] \in Registers /\ s.registers[Running].shifted
           /\ s.inService = {} /\ s.current_process = NULL
           /\ \A t \in Loaded : s.registers[t] = truth[t] \/ s.registers[t].shifted
<1>1. s \in Machine /\ truth \in [Task -> Registers] /\ Scheduled(s, order) /\ order # <<>>
    BY DEF Inv, TypeOK, FaultInv
<1>2. order \in Seq(Task)
    BY <1>1 DEF Scheduled
<1>3. Loaded = {order[i] : i \in 1 .. Len(order)} /\ Loaded \subseteq Task
    BY <1>2, LoadedIsRange
<1>4. Running \in Loaded /\ Running \in Task
    BY <1>1, <1>3 DEF Scheduled, Running
<1>5. s.registers[Running] \in Registers
    BY <1>1, <1>4 DEF Machine
<1>6. /\ s.registers[Running].shifted /\ s.inService = {}
      /\ \A t \in Loaded : s.registers[t] = truth[t] \/ s.registers[t].shifted
    BY DEF Inv, FaultInv
<1>7. s.current_process = NULL
    BY DEF Inv, ArrayInv
<1> QED  BY <1>1, <1>3, <1>4, <1>5, <1>6, <1>7

\* A vector whose callback switches tasks keeps all that is about running programs.
LEMMA TurnKeeps ==
    ASSUME Inv, Scheduled(s, order), order # <<>>, NEW frame \in Registers,
           frame = truth[Running] \/ frame.shifted,
           \A t \in Loaded \ {Running} : s.registers[t] = truth[t] \/ s.registers[t].shifted,
           TurnPassed(s, s', order, frame), s'.inService = {},
           truth' = truth, order' = order
    PROVE  /\ s' \in Machine /\ Scheduled(s, order)'
           /\ BootInv' /\ TruthInv' /\ UserInv' /\ FaultInv' /\ TurnTaken
<1> DEFINE u == task_get_next(s.list)
           saved == [s.registers EXCEPT ![Running] = frame]
<1>1. s \in Machine /\ truth \in [Task -> Registers] /\ order \in Seq(Task)
    BY DEF Inv, TypeOK, Scheduled
<1>2. /\ Loaded = {order[i] : i \in 1 .. Len(order)} /\ Loaded \subseteq Task
      /\ DOMAIN order = 1 .. Len(order)
    BY <1>1, LoadedIsRange
<1>3. Running \in Loaded /\ Running \in Task
    BY <1>2 DEF Scheduled, Running
<1>4. /\ s' \in Machine /\ Scheduled(s', order)
      /\ s'.list.current = u /\ u \in Loaded
      /\ s'.cr3 = u /\ s'.registers = saved
      /\ IF saved[u].shifted THEN s'.mode = "fault"
         ELSE s'.mode = "user" /\ s'.ds = "user" /\ s'.cpu = saved[u]
    BY <1>2 DEF TurnPassed, Running
<1>5. PICK i \in 1 .. Len(order) :
            s.list.current = order[i] /\ u = order[(i % Len(order)) + 1]
    BY <1>1, Turn DEF Machine
<1> HIDE DEF u, saved
<1>6. s.registers \in [Task -> Registers]
    BY <1>1 DEF Machine
<1>7. \A t \in Loaded : saved[t] = truth[t] \/ saved[t].shifted
    BY <1>2, <1>3, <1>6 DEF saved
<1>8. Loaded' = Loaded
    BY DEF Loaded
<1>9. Running' = u
    BY <1>4 DEF Running
<1>10. RunsInItsOwnSpace'
    BY <1>2, <1>4, <1>7, <1>9 DEF RunsInItsOwnSpace, Inv, TruthInv
<1>11. ContextsPreserved'
    BY <1>4, <1>7, <1>8, <1>9 DEF ContextsPreserved
<1>12. UserInv'
    BY <1>10, <1>11 DEF UserInv, NothingInService
<1>13. FaultInv'
    BY <1>4, <1>7, <1>8, <1>9 DEF FaultInv
<1>14. BootInv'
    BY <1>4 DEF BootInv
<1>15. TruthInv'
    BY DEF Inv, TruthInv
<1>16. TurnTaken
    BY <1>2, <1>5, <1>9 DEF TurnTaken, Running
<1> QED  BY <1>4, <1>12, <1>13, <1>14, <1>15, <1>16

\* A step after which the same program goes on.
LEMMA SameProgram ==
    ASSUME Inv, s.mode = "user", s' \in Machine, Scheduled(s', order), order' = order,
           s'.mode = "user", s'.list.current = Running,
           s'.cr3 = Running, s'.ds = "user", s'.inService = {},
           TruthInv', s'.cpu = truth'[Running],
           \A t \in Loaded \ {Running} :
                s'.registers[t] = s.registers[t] /\ truth'[t] = truth[t]
    PROVE  /\ Scheduled(s, order)'
           /\ BootInv' /\ UserInv' /\ FaultInv' /\ TurnTaken
<1>1. /\ order # <<>> /\ Running \in Task
      /\ \A t \in Loaded \ {Running} : s.registers[t] = truth[t] \/ s.registers[t].shifted
    BY UserFacts
<1>2. Loaded' = Loaded /\ Running' = Running
    BY DEF Loaded, Running
<1>3. RunsInItsOwnSpace'
    BY <1>1, <1>2 DEF RunsInItsOwnSpace, TruthInv
<1>4. ContextsPreserved'
    BY <1>1, <1>2 DEF ContextsPreserved
<1> QED  BY <1>1, <1>2, <1>3, <1>4 DEF BootInv, UserInv, FaultInv, NothingInService, TurnTaken

LEMMA SameArray ==
    ASSUME ArrayInv, s'.process = s.process, s'.processes = s.processes,
           s'.current_process = s.current_process,
           order' = order, terminated' = terminated
    PROVE  ArrayInv'
  BY DEF ArrayInv, ProcessArrayExact, Loaded

\* process_unlink empties the slot of the process and of no other.
LEMMA TerminateKeepsArray ==
    ASSUME ArrayInv, s \in Machine, Loaded \subseteq Task, NEW p \in Loaded,
           s'.process = s.process, s'.current_process = s.current_process,
           s'.processes = [s.processes EXCEPT ![s.process[p].id] = NULL],
           order' = order, terminated' = terminated \cup {p}
    PROVE  ArrayInv'
<1> DEFINE k == s.process[p].id
<1>1. k \in Slot /\ s.processes \in [Slot -> Link]
    BY DEF Machine, Process
<1>2. /\ \A i \in Slot : s.processes[i] # NULL => s.process[s.processes[i]].id = i
      /\ {s.processes[i] : i \in Slot} \ {NULL} = Loaded \ terminated
      /\ s.current_process = NULL
      /\ \A t, u \in Loaded : s.process[t].id = s.process[u].id => t = u
    BY DEF ArrayInv, ProcessArrayExact
<1>3. \A i \in Slot : s'.processes[i] = IF i = k THEN NULL ELSE s.processes[i]
    BY <1>1
<1>4. Loaded' = Loaded
    BY DEF Loaded
<1>5. \A i \in Slot : s.processes[i] = p => i = k
    BY <1>2, TaskAssumption
<1> HIDE DEF k
<1>6. ASSUME NEW i \in Slot, s'.processes[i] # NULL
      PROVE  s'.processes[i] \in Loaded \ terminated'
    BY <1>2, <1>3, <1>5, <1>6
<1>7. ASSUME NEW t \in Loaded \ terminated'
      PROVE  \E i \in Slot : s'.processes[i] = t /\ t # NULL
  <2>1. PICK i \in Slot : s.processes[i] = t /\ t # NULL
      BY <1>2, <1>7
  <2>2. i # k
      BY <1>2, <1>7, <2>1 DEF k
  <2> QED  BY <1>3, <2>1, <2>2
<1>8. {s'.processes[i] : i \in Slot} \ {NULL} = Loaded \ terminated'
    BY <1>6, <1>7
<1>9. \A i \in Slot : s'.processes[i] # NULL => s'.process[s'.processes[i]].id = i
    BY <1>2, <1>3
<1> QED  BY <1>2, <1>4, <1>8, <1>9 DEF ArrayInv, ProcessArrayExact

-----------------------------------------------------------------------------
LEMMA InvInit == Init => Inv
<1> SUFFICES ASSUME Init PROVE Inv
    OBVIOUS
<1> DEFINE first == [t \in Task |-> FirstRegisters(t)]
           t0 == CHOOSE t \in Task : TRUE
<1>1. t0 \in Task
    BY TaskNotEmpty
<1>2. FirstRegisters(t0) \in Registers /\ first \in [Task -> Registers]
    BY <1>1, FirstRegistersType
<1>3. 0 \in Slot
    BY KernelAssumption DEF Slot
<1>4. order = <<>> /\ order \in Seq(Task) /\ Len(order) = 0 /\ Loaded = {}
    BY EmptySeq DEF Init, Loaded
<1>5. NoTasks \in TaskListType
    BY NoTasksType
<1> HIDE DEF first, t0
<1>6. /\ s.mode = "boot" /\ s.list = NoTasks /\ s.inService = {}
      /\ s.registers = first /\ s.processes = [i \in Slot |-> NULL]
      /\ s.current_process = NULL
      /\ truth = first /\ terminated = {} /\ pending = {}
    BY DEF Init, first
<1>7. s \in Machine
    BY <1>2, <1>3, <1>5 DEF Init, Machine, first, t0, Process, Link
<1>8. TypeOK
    BY <1>2, <1>4, <1>6, <1>7 DEF TypeOK
<1>9. /\ s.list.head = NULL /\ s.list.tail = NULL /\ s.list.current = NULL
    BY <1>6 DEF NoTasks
<1>10. Scheduled(s, order)
    BY <1>4, <1>9 DEF Scheduled, Linked
<1>11. BootInv
    BY <1>6, <1>9 DEF BootInv, first
<1>12. TruthInv
    BY <1>6, FirstRegistersType DEF TruthInv, first
<1>13. UserInv /\ FaultInv
    BY <1>6 DEF UserInv, FaultInv, RunsInItsOwnSpace, ContextsPreserved, NothingInService
<1>14. ArrayInv
    BY <1>4, <1>6 DEF ArrayInv, ProcessArrayExact
<1> QED  BY <1>8, <1>10, <1>11, <1>12, <1>13, <1>14 DEF Inv

\* A step that only stops the machine.
LEMMA StopKeeps ==
    ASSUME Inv, s' \in Machine, s'.mode \in {"panic", "lost"}, s'.list = s.list,
           s'.process = s.process, s'.processes = s.processes,
           s'.current_process = s.current_process,
           UNCHANGED <<pending, truth, order, terminated>>
    PROVE  Inv' /\ TurnTaken
<1>1. TypeOK'
    BY DEF Inv, TypeOK, Loaded
<1>2. Scheduled(s, order)' /\ BootInv' /\ TruthInv'
    BY DEF Inv, Scheduled, BootInv, TruthInv
<1>3. UserInv' /\ FaultInv'
    BY DEF UserInv, FaultInv, RunsInItsOwnSpace, ContextsPreserved, NothingInService
<1>4. ArrayInv'
    BY SameArray DEF Inv
<1>5. TurnTaken
    BY DEF TurnTaken, Running
<1> QED  BY <1>1, <1>2, <1>3, <1>4, <1>5 DEF Inv

LEMMA LoadStep ==
    ASSUME Inv, NEW t \in Task, Load(t)
    PROVE  Inv' /\ TurnTaken
<1> DEFINE slot == process_get_free_slot(s)
<1>1. s \in Machine /\ Scheduled(s, order) /\ order \in Seq(Task) /\ s.mode = "boot"
    BY DEF Inv, TypeOK, Scheduled, Load
<1>2. /\ Len(order) \in Nat /\ Loaded = {order[i] : i \in 1 .. Len(order)}
      /\ Loaded \subseteq Task /\ (order = <<>> <=> Len(order) = 0)
      /\ DOMAIN order = 1 .. Len(order)
    BY <1>1, LoadedIsRange
<1>3. PICK n \in Loads : Len(order) < n
    BY DEF Load
<1>4. t \in Task \ Loaded
    BY <1>1, <1>3, NewTaskIsNew DEF Load
<1>5. \A i \in 1 .. Len(order) : order[i] # t
    BY <1>2, <1>4
<1>6. PICK failure \in AllocFailures \cup {"none"} :
            /\ s' = process_load(s, t, failure)
            /\ order' = IF s'.mode = "boot" THEN Append(order, t) ELSE order
    BY DEF Load
<1>7. UNCHANGED <<pending, truth, terminated>>
    BY DEF Load
<1>8. \/ /\ s' \in Machine /\ s'.mode \in {"panic", "lost"}
         /\ s'.list = s.list /\ s'.process = s.process /\ s'.processes = s.processes
         /\ s'.current_process = s.current_process
      \/ /\ s' \in Machine /\ s'.mode = "boot"
         /\ Linked(s'.list, Append(order, t))
         /\ s'.list.head = IF order = <<>> THEN t ELSE s.list.head
         /\ s'.list.current = IF order = <<>> THEN t ELSE s.list.current
         /\ s'.registers = [s.registers EXCEPT ![t] = FirstRegisters(t)]
         /\ slot \in Slot /\ s.processes[slot] = NULL
         /\ s'.process = [s.process EXCEPT ![t] = process_load_data(slot)]
         /\ s'.processes = [s.processes EXCEPT ![slot] = t]
         /\ s'.current_process = s.current_process
         /\ s'.inService = s.inService
  <2>1. s' = process_load(s, t, failure)
      BY <1>6
  <2> QED  BY ONLY <1>1, <1>5, <2>1, LoadFields
<1>9. CASE s'.mode # "boot"
    BY <1>6, <1>7, <1>8, <1>9, StopKeeps
<1>10. CASE s'.mode = "boot"
  <2> HIDE DEF slot
  <2>1. order' = Append(order, t)
      BY <1>6, <1>10
  <2>2. /\ s' \in Machine
        /\ Linked(s'.list, order')
        /\ s'.list.head = IF order = <<>> THEN t ELSE s.list.head
        /\ s'.list.current = IF order = <<>> THEN t ELSE s.list.current
        /\ s'.registers = [s.registers EXCEPT ![t] = FirstRegisters(t)]
        /\ slot \in Slot /\ s.processes[slot] = NULL
        /\ s'.process = [s.process EXCEPT ![t] = process_load_data(slot)]
        /\ s'.processes = [s.processes EXCEPT ![slot] = t]
        /\ s'.current_process = s.current_process
        /\ s'.inService = s.inService
      BY <1>8, <1>10, <2>1
  <2>3. /\ order' \in Seq(Task) /\ order' # <<>> /\ Len(order') = Len(order) + 1
        /\ \A i \in 1 .. Len(order) : order'[i] = order[i]
        /\ order'[Len(order) + 1] = t
      BY <1>1, <2>1, AppendProperties
  <2>4. DOMAIN order' = 1 .. Len(order')
      BY <2>3, LenProperties
  <2>5. Loaded' = Loaded \cup {t} /\ Loaded' = {order'[i] : i \in 1 .. Len(order')}
    <3>1. Loaded' = {order'[i] : i \in 1 .. Len(order')}
        BY <2>4 DEF Loaded
    <3>2. Loaded \subseteq Loaded' /\ t \in Loaded'
        BY <1>2, <2>3, <3>1
    <3>3. \A i \in 1 .. Len(order') : order'[i] \in Loaded \cup {t}
        BY <1>2, <2>3
    <3> QED  BY <3>1, <3>2, <3>3
  <2>6. s.list.current = s.list.head /\ terminated = {} /\ s.inService = {}
        /\ s.registers = [u \in Task |-> FirstRegisters(u)]
        /\ truth = [u \in Task |-> FirstRegisters(u)]
      BY <1>1 DEF Inv, BootInv
  <2>7. TypeOK'
      BY <1>7, <2>2, <2>5 DEF Inv, TypeOK
  <2>8. s'.list.current \in Loaded'
      BY <1>1, <1>2, <2>2, <2>5 DEF Scheduled
  <2>9. Scheduled(s, order)'
      BY <2>2, <2>3, <2>5, <2>8 DEF Scheduled
  <2>10. s'.registers = [u \in Task |-> FirstRegisters(u)]
      BY <2>2, <2>6
  <2>11. BootInv'
      BY <1>7, <2>2, <2>6, <2>10 DEF BootInv
  <2>12. TruthInv' /\ UserInv' /\ FaultInv'
      BY <1>7, <1>10 DEF Inv, TruthInv, UserInv, FaultInv, RunsInItsOwnSpace, ContextsPreserved,
                         NothingInService
  <2>13. ArrayInv'
    <3>1. /\ \A i \in Slot : s.processes[i] # NULL => s.process[s.processes[i]].id = i
          /\ {s.processes[i] : i \in Slot} \ {NULL} = Loaded
          /\ s.current_process = NULL
          /\ \A u, v \in Loaded : s.process[u].id = s.process[v].id => u = v
        BY <2>6 DEF Inv, ArrayInv, ProcessArrayExact
    <3>2. /\ \A u \in Loaded : s'.process[u] = s.process[u]
          /\ s'.process[t].id = slot
      <4>1. s.process \in [Task -> Process] /\ process_load_data(slot).id = slot
          BY <1>1 DEF Machine, process_load_data
      <4> QED  BY <1>2, <1>4, <2>2, <4>1
    <3>3. \A i \in Slot : s'.processes[i] = IF i = slot THEN t ELSE s.processes[i]
        BY <1>1, <2>2 DEF Machine
    <3>4. \A u \in Loaded : s.process[u].id \in Slot /\ s.processes[s.process[u].id] = u /\ u # NULL
        BY <3>1
    <3>5. \A u \in Loaded : s.process[u].id # slot
        BY <2>2, <3>4
    <3>6. \A u, v \in Loaded' : s'.process[u].id = s'.process[v].id => u = v
        BY <2>5, <3>1, <3>2, <3>5
    <3>7. \A i \in Slot : s'.processes[i] # NULL =>
                s'.processes[i] \in Loaded' /\ s'.process[s'.processes[i]].id = i
        BY <2>5, <3>1, <3>2, <3>3
    <3>8. \A u \in Loaded' : \E i \in Slot : s'.processes[i] = u /\ u # NULL
        BY <2>2, <2>5, <3>3, <3>4, <3>5, TaskAssumption
    <3>9. {s'.processes[i] : i \in Slot} \ {NULL} = Loaded'
        BY <3>7, <3>8
    <3> QED  BY <1>7, <2>2, <2>6, <3>1, <3>6, <3>7, <3>9 DEF ArrayInv, ProcessArrayExact
  <2>14. TurnTaken
      BY <1>1, <2>2 DEF TurnTaken, Running, Scheduled
  <2> QED  BY <2>7, <2>9, <2>11, <2>12, <2>13, <2>14 DEF Inv
<1> QED  BY <1>9, <1>10

LEMMA StartStep ==
    ASSUME Inv, Start
    PROVE  Inv' /\ TurnTaken
<1> DEFINE t == s.list.head
           l == SetCurrent(s.list, t)
           k == task_switch(s, t)
<1>1. s \in Machine /\ Scheduled(s, order) /\ order \in Seq(Task) /\ s.mode = "boot"
    BY DEF Inv, TypeOK, Scheduled, Start
<1>2. Len(order) \in Loads /\ Len(order) # 0
    BY KernelAssumption DEF Start
<1>3. order # <<>>
    BY <1>2, EmptySeq
<1>4. t \in Task /\ s.list.current = t
    BY <1>1, <1>3, ScheduledCurrent DEF Inv, BootInv
<1>5. s.list \in TaskListType /\ s.registers[t] \in Registers
    BY <1>1, <1>4 DEF Machine
<1>6. /\ s.inService = {} /\ terminated = {}
      /\ s.registers = [u \in Task |-> FirstRegisters(u)]
      /\ truth = [u \in Task |-> FirstRegisters(u)]
    BY <1>1 DEF Inv, BootInv
<1>7. ~ s.registers[t].shifted
    BY <1>4, <1>6, FirstRegistersType
<1>8. UNCHANGED <<pending, truth, order, terminated>>
    BY DEF Start
<1>9. s' = task_return(k, t)
    BY DEF Start, task_run_first_ever_task
<1> HIDE DEF t
<1>10. /\ l \in TaskListType /\ l.current = t
       /\ l.head = s.list.head /\ l.tail = s.list.tail /\ l.next = s.list.next
    BY <1>4, <1>5, SetCurrentFields DEF Link
<1>11. k = [s EXCEPT !.list = l, !.cr3 = t]
    BY DEF task_switch
<1> HIDE DEF l, k
<1>12. /\ k \in Machine /\ k.list = l /\ k.cr3 = t
       /\ k.inService = s.inService /\ k.registers = s.registers
       /\ k.process = s.process /\ k.processes = s.processes
       /\ k.current_process = s.current_process
    BY <1>1, <1>4, <1>10, <1>11 DEF Machine
<1>13. s' = [k EXCEPT !.mode = "user", !.ds = "user", !.cpu = s.registers[t]]
    BY <1>7, <1>9, <1>12 DEF task_return
<1>14. /\ s' \in Machine /\ s'.list = l /\ s'.cr3 = t /\ s'.mode = "user" /\ s'.ds = "user"
       /\ s'.cpu = s.registers[t]
       /\ s'.inService = s.inService /\ s'.registers = s.registers
       /\ s'.process = s.process /\ s'.processes = s.processes
       /\ s'.current_process = s.current_process
    BY <1>5, <1>12, <1>13 DEF Machine
<1>15. TypeOK'
    BY <1>8, <1>14 DEF Inv, TypeOK, Loaded
<1>16. Scheduled(s, order)'
    BY <1>1, <1>4, <1>8, <1>10, <1>14 DEF Scheduled, Linked
<1>17. BootInv' /\ TruthInv'
    BY <1>8, <1>14 DEF Inv, BootInv, TruthInv
<1>18. Running' = t /\ Running = t
    BY <1>4, <1>10, <1>14 DEF Running
<1>19. Loaded \subseteq Task /\ Loaded' = Loaded
    BY <1>1, <1>8, LoadedIsRange DEF Loaded
<1>20. UserInv'
  <2>1. RunsInItsOwnSpace'
      BY <1>4, <1>6, <1>14, <1>18, FirstRegistersType DEF RunsInItsOwnSpace
  <2>2. ContextsPreserved'
      BY <1>4, <1>6, <1>8, <1>14, <1>18, <1>19 DEF ContextsPreserved
  <2> QED  BY <1>3, <1>6, <1>8, <1>14, <2>1, <2>2 DEF UserInv, NothingInService
<1>21. ArrayInv' /\ FaultInv'
    BY <1>8, <1>14, SameArray DEF Inv, FaultInv
<1>22. TurnTaken
    BY <1>18 DEF TurnTaken
<1> QED  BY <1>15, <1>16, <1>17, <1>20, <1>21, <1>22 DEF Inv

LEMMA ComputeStep ==
    ASSUME Inv, Compute
    PROVE  Inv' /\ TurnTaken
<1>1. s.mode = "user" /\ UNCHANGED <<pending, order, terminated>>
    BY DEF Compute
<1>2. /\ s \in Machine /\ truth \in [Task -> Registers]
      /\ Scheduled(s, order)
      /\ Running \in Task /\ Loaded \subseteq Task
      /\ s.cpu = truth[Running] /\ s.cpu \in Registers /\ ~ s.cpu.shifted
      /\ s.cr3 = Running /\ s.ds = "user" /\ s.inService = {}
    BY <1>1, UserFacts
<1>3. PICK eax \in 0 .. 1 :
        LET r == [s.cpu EXCEPT !.step = (@ + 1) % Steps, !.eax = eax]
        IN  s' = [s EXCEPT !.cpu = r] /\ truth' = [truth EXCEPT ![Running] = r]
    BY DEF Compute
<1> DEFINE r == [s.cpu EXCEPT !.step = (@ + 1) % Steps, !.eax = eax]
<1>4. r \in Registers /\ r.of = s.cpu.of /\ ~ r.shifted
  <2>1. s.cpu.step \in 0 .. Steps - 1 /\ Steps \in Nat \ {0}
      BY <1>2, KernelAssumption DEF Registers
  <2>2. (s.cpu.step + 1) % Steps \in 0 .. Steps - 1
      BY <2>1
  <2> QED  BY <1>2, <2>2 DEF Registers
<1>5. s' = [s EXCEPT !.cpu = r] /\ truth' = [truth EXCEPT ![Running] = r]
    BY <1>3
<1> HIDE DEF r
<1>6. /\ s' \in Machine /\ s'.cpu = r /\ s'.mode = "user" /\ s'.list = s.list
      /\ s'.cr3 = s.cr3 /\ s'.ds = s.ds /\ s'.inService = s.inService
      /\ s'.registers = s.registers /\ s'.process = s.process
      /\ s'.processes = s.processes /\ s'.current_process = s.current_process
    BY <1>1, <1>2, <1>4, <1>5 DEF Machine
<1>7. /\ truth' \in [Task -> Registers] /\ truth'[Running] = r
      /\ \A t \in Task \ {Running} : truth'[t] = truth[t]
    BY <1>2, <1>4, <1>5
<1>8. TypeOK'
    BY <1>1, <1>6, <1>7 DEF Inv, TypeOK, Loaded
<1>9. TruthInv'
    BY <1>2, <1>4, <1>7 DEF Inv, TruthInv
<1>10. Scheduled(s', order) /\ s'.list.current = Running
    BY <1>2, <1>6 DEF Scheduled, Running
<1>11. Scheduled(s, order)' /\ BootInv' /\ UserInv' /\ FaultInv' /\ TurnTaken
    BY <1>1, <1>2, <1>6, <1>7, <1>9, <1>10, SameProgram
<1>12. ArrayInv'
    BY <1>1, <1>6, SameArray DEF Inv
<1> QED  BY <1>8, <1>9, <1>11, <1>12 DEF Inv

\* A line that is raised, or nothing.
LEMMA RaiseKeeps ==
    ASSUME Inv, pending' \subseteq Irq, UNCHANGED <<s, truth, order, terminated>>
    PROVE  Inv' /\ TurnTaken
<1>1. Loaded' = Loaded /\ Running' = Running
    BY DEF Loaded, Running
<1>2. TypeOK'
    BY <1>1 DEF Inv, TypeOK
<1>3. Scheduled(s, order)' /\ BootInv' /\ TruthInv'
    BY DEF Inv, Scheduled, BootInv, TruthInv
<1>4. RunsInItsOwnSpace' /\ NothingInService'
    BY <1>1 DEF Inv, UserInv, RunsInItsOwnSpace, NothingInService
<1>5. ContextsPreserved'
    BY <1>1 DEF Inv, UserInv, ContextsPreserved
<1>6. UserInv' /\ FaultInv'
    BY <1>1, <1>4, <1>5 DEF Inv, UserInv, FaultInv
<1>7. ArrayInv'
    BY SameArray DEF Inv
<1> QED  BY <1>1, <1>2, <1>3, <1>6, <1>7 DEF Inv, TurnTaken

\* The clock and every other vector, with m the machine when the interrupt comes:
\* s, or s with one line in service.
LEMMA VectorKeeps ==
    ASSUME Inv, s.mode = "user", NEW m \in Machine, NEW vector \in {"clock", "other"},
           \A i, j \in m.inService : i = j,
           m.mode = s.mode, m.cpu = s.cpu, m.list = s.list, m.registers = s.registers,
           m.process = s.process, m.processes = s.processes,
           m.current_process = s.current_process,
           s' = interrupt_handler(m, vector, s.cpu), pending' \subseteq Irq,
           UNCHANGED <<truth, order, terminated>>
    PROVE  Inv' /\ TurnTaken
<1>1. /\ Scheduled(s, order) /\ order # <<>> /\ truth \in [Task -> Registers]
      /\ s.cpu \in Registers /\ s.cpu = truth[Running]
      /\ \A t \in Loaded \ {Running} : s.registers[t] = truth[t] \/ s.registers[t].shifted
    BY UserFacts
<1>2. Scheduled(m, order)
    BY <1>1 DEF Scheduled
<1>3. CASE vector = "clock"
  <2>1. TurnPassed(m, s', order, s.cpu) /\ s'.inService = {} /\ s'.processes = m.processes
      BY <1>1, <1>2, <1>3, ClockFields
  <2>2. TurnPassed(s, s', order, s.cpu)
      BY <2>1 DEF TurnPassed
  <2>3. /\ s' \in Machine /\ Scheduled(s, order)' /\ BootInv' /\ TruthInv' /\ UserInv'
        /\ FaultInv' /\ TurnTaken
      BY <1>1, <2>1, <2>2, TurnKeeps
  <2>4. s'.process = s.process /\ s'.current_process = s.current_process
      BY <2>2 DEF TurnPassed
  <2>5. ArrayInv'
      BY <2>1, <2>4, SameArray DEF Inv
  <2>6. TypeOK'
      BY <1>1, <2>3 DEF Inv, TypeOK, Loaded
  <2> QED  BY <2>3, <2>5, <2>6 DEF Inv
<1>4. CASE vector = "other"
  <2>1. /\ Resumed(m, s', order)
        /\ s'.cpu = m.cpu /\ s'.inService = {} /\ s'.registers = m.registers
      BY <1>1, <1>2, <1>4, OtherFields
  <2>2. /\ s' \in Machine /\ Scheduled(s', order) /\ s'.mode = "user"
        /\ s'.list.current = Running /\ s'.cr3 = Running /\ s'.ds = "user"
        /\ s'.process = s.process /\ s'.processes = s.processes
        /\ s'.current_process = s.current_process
      BY <2>1 DEF Resumed, Running
  <2>3. TruthInv'
      BY DEF Inv, TruthInv
  <2>4. Scheduled(s, order)' /\ BootInv' /\ UserInv' /\ FaultInv' /\ TurnTaken
      BY <1>1, <2>1, <2>2, <2>3, SameProgram
  <2>5. ArrayInv'
      BY <2>2, SameArray DEF Inv
  <2>6. TypeOK'
      BY <1>1, <2>2 DEF Inv, TypeOK, Loaded
  <2> QED  BY <2>3, <2>4, <2>5, <2>6 DEF Inv
<1> QED  BY <1>3, <1>4

LEMMA DeliverStep ==
    ASSUME Inv, NEW irq \in Irq, Deliver(irq)
    PROVE  Inv' /\ TurnTaken
<1> DEFINE m == [s EXCEPT !.inService = @ \cup {irq}]
           vector == IF irq = 0 THEN "clock" ELSE "other"
<1>1. s.mode = "user" /\ UNCHANGED <<truth, order, terminated>> /\ pending' \subseteq Irq
    BY DEF Deliver, Inv, TypeOK
<1>2. s \in Machine /\ s.inService = {}
    BY <1>1, UserFacts
<1>3. s' = interrupt_handler(m, vector, s.cpu)
    BY DEF Deliver
<1>4. /\ m \in Machine /\ m.inService = {irq}
      /\ m.mode = s.mode /\ m.cpu = s.cpu /\ m.list = s.list /\ m.registers = s.registers
      /\ m.process = s.process /\ m.processes = s.processes
      /\ m.current_process = s.current_process
    BY <1>2 DEF Machine
<1>5. vector \in {"clock", "other"}
    OBVIOUS
<1> HIDE DEF m, vector
<1>6. \A i, j \in m.inService : i = j
    BY <1>4
<1> QED  BY <1>1, <1>3, <1>4, <1>5, <1>6, VectorKeeps

LEMMA SoftwareInterruptStep ==
    ASSUME Inv, NEW vector \in {"clock", "other"}, SoftwareInterrupt(vector)
    PROVE  Inv' /\ TurnTaken
<1>1. /\ s.mode = "user" /\ s' = interrupt_handler(s, vector, s.cpu)
      /\ UNCHANGED <<truth, order, terminated>> /\ pending' \subseteq Irq
    BY DEF SoftwareInterrupt, Inv, TypeOK
<1>2. s \in Machine /\ s.inService = {}
    BY <1>1, UserFacts
<1> QED  BY <1>1, <1>2, VectorKeeps

LEMMA SystemCallStep ==
    ASSUME Inv, SystemCall
    PROVE  Inv' /\ TurnTaken
<1>1. /\ s.mode = "user" /\ s' = isr80h_handler(s, s.cpu)
      /\ truth' = [truth EXCEPT ![Running].eax = 0]
      /\ UNCHANGED <<pending, order, terminated>>
    BY DEF SystemCall
<1>2. /\ s \in Machine /\ truth \in [Task -> Registers]
      /\ Scheduled(s, order) /\ order # <<>>
      /\ Running \in Task /\ Loaded \subseteq Task
      /\ s.cpu = truth[Running] /\ s.cpu \in Registers /\ s.inService = {}
    BY <1>1, UserFacts
<1>3. /\ Resumed(s, s', order)
      /\ s'.cpu = [s.cpu EXCEPT !.eax = 0] /\ s'.inService = s.inService
      /\ s'.registers = [s.registers EXCEPT ![s.list.current] = s.cpu]
    BY <1>1, <1>2, SystemCallFields
<1>4. /\ s' \in Machine /\ Scheduled(s', order) /\ s'.mode = "user"
      /\ s'.list.current = Running /\ s'.cr3 = Running /\ s'.ds = "user"
      /\ s'.process = s.process /\ s'.processes = s.processes
      /\ s'.current_process = s.current_process
    BY <1>1, <1>3 DEF Resumed, Running
<1> DEFINE r == [s.cpu EXCEPT !.eax = 0]
<1>5. r \in Registers /\ r.of = s.cpu.of /\ r.shifted = s.cpu.shifted
    BY <1>2 DEF Registers
<1>6. truth' = [truth EXCEPT ![Running] = r]
    BY <1>1, <1>2
<1>7. s'.cpu = r
    BY <1>3
<1> HIDE DEF r
<1>8. /\ truth' \in [Task -> Registers] /\ truth'[Running] = r
      /\ \A t \in Task \ {Running} : truth'[t] = truth[t]
    BY <1>2, <1>5, <1>6
<1>9. \A t \in Task \ {Running} : s'.registers[t] = s.registers[t]
    BY <1>2, <1>3 DEF Machine, Running
<1>10. TypeOK'
    BY <1>1, <1>4, <1>8 DEF Inv, TypeOK, Loaded
<1>11. TruthInv'
    BY <1>2, <1>5, <1>8 DEF Inv, TruthInv
<1>12. Scheduled(s, order)' /\ BootInv' /\ UserInv' /\ FaultInv' /\ TurnTaken
    BY <1>1, <1>2, <1>3, <1>4, <1>7, <1>8, <1>9, <1>11, SameProgram
<1>13. ArrayInv'
    BY <1>1, <1>4, SameArray DEF Inv
<1> QED  BY <1>10, <1>11, <1>12, <1>13 DEF Inv

LEMMA FaultStep ==
    ASSUME Inv, NEW kind \in Faults, Fault(kind)
    PROVE  Inv' /\ TurnTaken
<1>1. s.mode = "user" /\ UNCHANGED <<pending, truth, order>>
    BY DEF Fault
<1>2. /\ s \in Machine /\ truth \in [Task -> Registers]
      /\ Scheduled(s, order) /\ order # <<>>
      /\ Running \in Task /\ Running \in Loaded /\ Loaded \subseteq Task
      /\ s.cpu \in Registers /\ ~ s.cpu.shifted
      /\ s.cpu = truth[Running] /\ s.inService = {} /\ s.current_process = NULL
      /\ \A t \in Loaded \ {Running} : s.registers[t] = truth[t] \/ s.registers[t].shifted
    BY <1>1, UserFacts
<1>3. CASE kind = "divide"
  <2>1. s' = [s EXCEPT !.mode = "lost"] /\ terminated' = terminated
      BY <1>3 DEF Fault, idt_zero
  <2>2. /\ s' \in Machine /\ s'.mode \in {"panic", "lost"} /\ s'.list = s.list
        /\ s'.process = s.process /\ s'.processes = s.processes
        /\ s'.current_process = s.current_process
      BY <1>2, <2>1 DEF Machine
  <2> QED  BY <1>1, <2>1, <2>2, StopKeeps
<1>4. CASE kind # "divide"
  <2> DEFINE frame == [s.cpu EXCEPT !.shifted = (kind = "error_code")]
  <2>1. s' = interrupt_handler(s, "exception", frame) /\ terminated' = terminated \cup {Running}
      BY <1>4 DEF Fault
  <2>2. frame \in Registers
      BY <1>2 DEF Registers
  <2>3. frame = s.cpu \/ frame.shifted
    <3>1. CASE kind = "error_code"
        BY <1>2, <3>1 DEF Registers
    <3>2. CASE kind # "error_code"
      <4>1. s.cpu.shifted = FALSE
          BY <1>2 DEF Registers
      <4>2. frame = [s.cpu EXCEPT !.shifted = s.cpu.shifted]
          BY <3>2, <4>1
      <4> QED  BY <1>2, <4>2 DEF Registers
    <3> QED  BY <3>1, <3>2
  <2> HIDE DEF frame
  <2>4. /\ TurnPassed(s, s', order, frame)
        /\ s'.inService = s.inService
        /\ s'.processes = [s.processes EXCEPT ![s.process[s.list.current].id] = NULL]
      BY <1>2, <2>1, <2>2, ExceptionFields
  <2>5. /\ s' \in Machine /\ Scheduled(s, order)' /\ BootInv' /\ TruthInv' /\ UserInv'
        /\ FaultInv' /\ TurnTaken
      BY <1>1, <1>2, <2>2, <2>3, <2>4, TurnKeeps
  <2>6. s'.process = s.process /\ s'.current_process = s.current_process
      BY <2>4 DEF TurnPassed
  <2>7. ArrayInv'
      BY <1>1, <1>2, <2>1, <2>4, <2>6, TerminateKeepsArray DEF Inv, Running
  <2>8. TypeOK'
      BY <1>1, <1>2, <2>1, <2>5 DEF Inv, TypeOK, Loaded
  <2> QED  BY <2>5, <2>7, <2>8 DEF Inv
<1> QED  BY <1>3, <1>4

\* The fault of task_return: nothing but the turn is left to change, since the
\* process of a task with a shifted frame has been terminated before.
LEMMA KernelFaultStep ==
    ASSUME Inv, KernelFault
    PROVE  Inv' /\ TurnTaken
<1>1. s.mode = "fault" /\ UNCHANGED <<pending, truth, order>>
    BY DEF KernelFault
<1>2. /\ s \in Machine /\ truth \in [Task -> Registers]
      /\ Scheduled(s, order) /\ order # <<>>
      /\ Running \in Task /\ Running \in Loaded /\ Loaded \subseteq Task
      /\ s.registers[Running] \in Registers /\ s.registers[Running].shifted
      /\ s.inService = {} /\ s.current_process = NULL
      /\ \A t \in Loaded : s.registers[t] = truth[t] \/ s.registers[t].shifted
    BY <1>1, FaultFacts
<1>3. CASE \A t \in Loaded : s.registers[t].shifted
  <2>1. s' = [s EXCEPT !.mode = "lost"] /\ terminated' = terminated
      BY <1>3 DEF KernelFault
  <2>2. /\ s' \in Machine /\ s'.mode = "lost" /\ s'.list = s.list
        /\ s'.process = s.process /\ s'.processes = s.processes
        /\ s'.current_process = s.current_process
      BY <1>2, <2>1 DEF Machine
  <2>3. TypeOK'
      BY <1>1, <1>2, <2>1, <2>2 DEF Inv, TypeOK, Loaded
  <2>4. Scheduled(s, order)' /\ BootInv' /\ TruthInv'
      BY <1>1, <2>2 DEF Inv, Scheduled, BootInv, TruthInv
  <2>5. UserInv' /\ FaultInv'
      BY <2>2 DEF UserInv, FaultInv, RunsInItsOwnSpace, ContextsPreserved, NothingInService
  <2>6. ArrayInv'
      BY <1>1, <2>1, <2>2, SameArray DEF Inv
  <2>7. TurnTaken
      BY <2>2 DEF TurnTaken, Running
  <2> QED  BY <2>3, <2>4, <2>5, <2>6, <2>7 DEF Inv
<1>4. CASE ~ (\A t \in Loaded : s.registers[t].shifted)
  <2> DEFINE frame == s.registers[Running]
  <2>1. s' = interrupt_handler(s, "exception", frame) /\ terminated' = terminated \cup {Running}
      BY <1>4 DEF KernelFault
  <2>2. frame \in Registers /\ frame.shifted
      BY <1>2
  <2> HIDE DEF frame
  <2>3. /\ TurnPassed(s, s', order, frame)
        /\ s'.inService = s.inService
        /\ s'.processes = [s.processes EXCEPT ![s.process[s.list.current].id] = NULL]
      BY <1>2, <2>1, <2>2, ExceptionFields
  <2>4. /\ s' \in Machine /\ Scheduled(s, order)' /\ BootInv' /\ TruthInv' /\ UserInv'
        /\ FaultInv' /\ TurnTaken
      BY <1>1, <1>2, <2>2, <2>3, TurnKeeps
  <2>5. s'.process = s.process /\ s'.current_process = s.current_process
      BY <2>3 DEF TurnPassed
  <2>6. ArrayInv'
      BY <1>1, <1>2, <2>1, <2>3, <2>5, TerminateKeepsArray DEF Inv, Running
  <2>7. TypeOK'
      BY <1>1, <1>2, <2>1, <2>4 DEF Inv, TypeOK, Loaded
  <2> QED  BY <2>4, <2>6, <2>7 DEF Inv
<1> QED  BY <1>3, <1>4

LEMMA InvStep ==
    ASSUME Inv, [Next]_vars
    PROVE  Inv' /\ TurnTaken
<1>1. CASE \E t \in Task : Load(t)
    BY <1>1, LoadStep
<1>2. CASE Start
    BY <1>2, StartStep
<1>3. CASE Compute
    BY <1>3, ComputeStep
<1>4. CASE \E irq \in Irq : Raise(irq) \/ Deliver(irq)
  <2>1. ASSUME NEW irq \in Irq, Raise(irq)
        PROVE  Inv' /\ TurnTaken
    <3>1. UNCHANGED <<s, truth, order, terminated>> /\ pending' \subseteq Irq
        BY <2>1 DEF Raise, Inv, TypeOK
    <3> QED  BY <3>1, RaiseKeeps
  <2> QED  BY <1>4, <2>1, DeliverStep
<1>5. CASE \E vector \in {"clock", "other"} : SoftwareInterrupt(vector)
    BY <1>5, SoftwareInterruptStep
<1>6. CASE SystemCall
    BY <1>6, SystemCallStep
<1>7. CASE \E kind \in Faults : Fault(kind)
    BY <1>7, FaultStep
<1>8. CASE UNCHANGED vars
  <2>1. UNCHANGED <<s, truth, order, terminated>> /\ pending' \subseteq Irq
      BY <1>8 DEF vars, Inv, TypeOK
  <2> QED  BY <2>1, RaiseKeeps
<1>9. CASE KernelFault
    BY <1>9, KernelFaultStep
<1>10. Halted => UNCHANGED vars
    BY DEF Halted
<1> QED  BY <1>1, <1>2, <1>3, <1>4, <1>5, <1>6, <1>7, <1>8, <1>9, <1>10 DEF Next

-----------------------------------------------------------------------------
LEMMA InvHolds == Spec => []Inv
<1>1. Inv /\ [Next]_vars => Inv'
    BY InvStep
<1> QED  BY <1>1, InvInit, PTL DEF Spec

\* The page directory in cr3, the ids of the processes and the saved contexts are
\* always ones that exist, whatever is loaded, raised, called or terminated.
THEOREM TypeCorrect == Spec => []TypeOK
<1>1. Inv => TypeOK
    BY DEF Inv
<1> QED  BY <1>1, InvHolds, PTL

\* idt.c:28-39, task.c:187-192.  However many tasks there are and in whatever order
\* interrupts, system calls and exceptions come, the program that runs has its own
\* page directory, the user segments and its own registers.
THEOREM OwnSpace == Spec => []RunsInItsOwnSpace
<1>1. Inv => RunsInItsOwnSpace
    BY DEF Inv, UserInv
<1> QED  BY <1>1, InvHolds, PTL

\* task.c:125-139, task.asm:9-47.  Every program finds its registers as it left
\* them, unless an exception with an error code saved a shifted frame.
THEOREM Contexts == Spec => []ContextsPreserved
<1>1. Inv => ContextsPreserved
    BY DEF Inv, UserInv
<1> QED  BY <1>1, InvHolds, PTL

\* idt.c:62-68.  No interrupt is left in service when a program runs.
THEOREM Acknowledged == Spec => []NothingInService
<1>1. Inv => NothingInService
    BY DEF Inv, UserInv
<1> QED  BY <1>1, InvHolds, PTL

\* process.c:194-202, 466-475.  The process array is exact for every size of it.
THEOREM ArrayExact == Spec => []ProcessArrayExact
<1>1. Inv => ProcessArrayExact
    BY DEF Inv, ArrayInv
<1> QED  BY <1>1, InvHolds, PTL

\* task.c:63-71, idt.c:56-60.  The turn goes round the tasks in the order of their creation,
\* by the clock, by an exception of the program and by the fault of a shifted frame alike.
THEOREM TurnsGoRound == Spec => RoundRobin
<1>1. Inv /\ [Next]_vars => [TurnTaken]_vars
    BY InvStep
<1>2. Spec => [][TurnTaken]_vars
    BY <1>1, InvHolds, PTL DEF Spec
<1> QED  BY <1>2 DEF RoundRobin, TurnTaken
=============================================================================
