------------------------------- MODULE Kernel -------------------------------
(***************************************************************************)
(* The running system: kernel_main loads its programs, starts the first    *)
(* task, and from then on the kernel is entered through the interrupt      *)
(* table only (kernel.c, process.c, task.c, task.asm, idt.c, idt.asm).     *)
(* Interrupts are off in the kernel (interrupt gates) and on in user mode  *)
(* (task_return sets IF), so that the handling of one interrupt is one     *)
(* step.  The operators below are the functions of the code, from the      *)
(* state "s" of the machine to the state it leaves.                        *)
(***************************************************************************)
EXTENDS TaskOps, Integers, Sequences, FiniteSets

CONSTANTS
    Loads,          \* how many programs kernel_main may load ({1})
    MaxProcesses,   \* PEACHOS_MAX_PROCESSES (12)
    Irq,            \* interrupt lines of the master PIC, 0 is the clock
    Faults,         \* kinds of exception that the programs raise
    AllocFailures,  \* allocations of process_load that find no memory
    Steps           \* bound: distinct register contents of one program

ASSUME KernelAssumption ==
    /\ Loads \subseteq 1 .. Cardinality(Task) /\ Loads # {}
    /\ MaxProcesses \in Nat \ {0}
    /\ Irq \subseteq 0 .. 7 /\ 0 \in Irq
    /\ Faults \subseteq {"plain", "error_code", "divide"}
    /\ AllocFailures \subseteq {"process", "stack", "task"}
    /\ Steps \in Nat \ {0}

VARIABLES
    s,          \* the machine and the kernel's variables, see Machine
    pending,    \* the interrupt lines raised and not delivered
    truth,      \* the register contents each program should find: history
    order,      \* the tasks in the order of their creation: history
    terminated  \* processes given to process_terminate: history

vars == <<s, pending, truth, order, terminated>>

Slot == 0 .. MaxProcesses - 1
Nobody == "kernel"

\* The register contents of a program: whose they are, how far it is, what eax
\* holds.  "shifted" contents are those of a frame that was read one word off.
Registers == [of : Task, step : 0 .. Steps - 1, eax : 0 .. 1, shifted : BOOLEAN]

\* struct process: id, and ptr, which is NULL until a binary is loaded.  The
\* process and the task that process_load makes have the same name here.
Process == [id : Slot, ptr : {NULL, "image"}]

Machine ==
    [mode            : {"boot", "user", "fault", "panic", "lost"},
     cr3             : Task \cup {Nobody},          \* the page directory loaded
     ds              : {"kernel", "user"},          \* the data segments
     cpu             : Registers,                   \* the registers in user mode
     inService       : SUBSET Irq,                  \* of the master PIC
     list            : TaskListType,
     registers       : [Task -> Registers],         \* task->registers
     process         : [Task -> Process],           \* the struct processes
     processes       : [Slot -> Link],
     current_process : Link]

Loaded == {order[i] : i \in DOMAIN order}

FirstRegisters(t) == [of |-> t, step |-> 0, eax |-> 0, shifted |-> FALSE]
-----------------------------------------------------------------------------
(* kernel.c, task.c and task.asm *)

kernel_page(m) == [m EXCEPT !.ds = "kernel", !.cr3 = Nobody]

task_switch(m, t) == [m EXCEPT !.list = SetCurrent(m.list, t), !.cr3 = t]

\* A plausible slip: the segments are restored and the page directory is not.
task_page_NoSwitch(m) == [m EXCEPT !.ds = "user"]

task_page(m) == task_switch([m EXCEPT !.ds = "user"], m.list.current)

\* Loading the data segments of a shifted frame faults, here in the kernel: what
\* is in the place of ss is the stack pointer of the program, no selector.
task_return(m, t) ==
    IF m.registers[t].shifted
    THEN [m EXCEPT !.mode = "fault"]
    ELSE [m EXCEPT !.mode = "user", !.ds = "user", !.cpu = m.registers[t]]

\* A plausible slip: the registers of the task that was running are restored.
task_next_OldRegisters(m) ==
    task_return(task_switch(m, task_get_next(m.list)), m.list.current)

task_next(m) ==
    LET next_task == task_get_next(m.list)
    IN  task_return(task_switch(m, next_task), next_task)

task_current_save_state(m, frame) ==
    [m EXCEPT !.registers[m.list.current] = frame]

task_run_first_ever_task(m) ==
    task_return(task_switch(m, m.list.head), m.list.head)

-----------------------------------------------------------------------------
(* process.c *)

\* The first process of the array, if there is one.
process_switch_to_any(m) ==
    LET used == {i \in Slot : m.processes[i] # NULL}
    IN  IF used = {} THEN m
        ELSE [m EXCEPT !.current_process =
                    m.processes[CHOOSE i \in used : \A j \in used : i <= j]]

process_unlink(m, p) ==
    LET u == [m EXCEPT !.processes[m.process[p].id] = NULL]
    IN  IF u.current_process = p THEN process_switch_to_any(u) ELSE u

\* process_free_process frees nothing and returns 1.
process_terminate(m, p) == process_unlink(m, p)

FreeSlots(m) == {i \in Slot : m.processes[i] = NULL}

\* A plausible slip: the loop looks at one slot too many.
process_get_free_slot_OneMore(m) ==
    IF FreeSlots(m) = {} THEN MaxProcesses
    ELSE CHOOSE i \in FreeSlots(m) : \A j \in FreeSlots(m) : i <= j

\* A plausible slip: a slot that is in use is handed out.
process_get_free_slot_Last(m) == IF FreeSlots(m) = {} THEN -8 ELSE 0

\* -EISTKN when the array is full.
process_get_free_slot(m) ==
    IF FreeSlots(m) = {} THEN -8
    ELSE CHOOSE i \in FreeSlots(m) : \A j \in FreeSlots(m) : i <= j

\* process_load_elf reads nothing and returns 0, which is not the -EINFORMAT
\* for which process_load_data calls process_load_binary: ptr stays NULL.
process_load_data(slot) == [id |-> slot, ptr |-> NULL]

\* process_load and the reaction of kernel_main.  A failed task_new frees
\* through a null pointer and its error is not recognised by the caller.
process_load(m, t, failure) ==
    LET slot == process_get_free_slot(m)
    IN  IF slot < 0 \/ failure \in {"process", "stack"}
        THEN [m EXCEPT !.mode = "panic"]
        ELSE IF failure = "task" THEN [m EXCEPT !.mode = "lost"]
        ELSE [m EXCEPT !.list = task_new(m.list, t),
                       !.registers[t] = FirstRegisters(t),
                       !.process[t] = process_load_data(slot),
                       !.processes[slot] = t]

-----------------------------------------------------------------------------
(* idt.c and idt.asm *)

\* outb(0x20, 0x20): the most urgent interrupt in service is done.
EndOfInterrupt(m) ==
    [m EXCEPT !.inService = {i \in @ : \E j \in @ : j < i}]

\* A plausible slip: the acknowledgement is left to interrupt_handler, to
\* which task_next does not return.
idt_clock_NoEOI(m) == task_next(m)

idt_clock(m) == task_next(EndOfInterrupt(m))

idt_handle_exception(m) ==
    task_next(process_terminate(m, m.list.current))

\* The callbacks switch task and do not return; a vector without callback
\* saves nothing and resumes the program from the stack.
interrupt_handler(m, vector, frame) ==
    LET k == kernel_page(m)
        saved == task_current_save_state(k, frame)
    IN  CASE vector = "clock"     -> idt_clock(saved)
          [] vector = "exception" -> idt_handle_exception(saved)
          [] vector = "other"     -> EndOfInterrupt(task_page(k))

\* No command is registered: every one returns 0, and the wrapper puts it in eax.
isr80h_handler(m, frame) ==
    LET done == task_page(task_current_save_state(kernel_page(m), frame))
    IN  [done EXCEPT !.cpu.eax = 0]

\* idt_zero ends in "ret", not "iret": the program goes on in ring 0.
idt_zero(m) == [m EXCEPT !.mode = "lost"]

-----------------------------------------------------------------------------
Init ==
    /\ s = [mode |-> "boot", cr3 |-> Nobody, ds |-> "kernel",
            cpu |-> FirstRegisters(CHOOSE t \in Task : TRUE), inService |-> {},
            list |-> NoTasks,
            registers |-> [t \in Task |-> FirstRegisters(t)],
            process |-> [t \in Task |-> [id |-> 0, ptr |-> NULL]],
            processes |-> [i \in Slot |-> NULL],
            current_process |-> NULL]
    /\ pending = {}
    /\ truth = [t \in Task |-> FirstRegisters(t)]
    /\ order = <<>>
    /\ terminated = {}

\* Where the heap puts the next struct task.
NewTask == CHOOSE t \in Task : t \notin Loaded

Load(t) ==
    /\ s.mode = "boot" /\ \E n \in Loads : Len(order) < n
    /\ t = NewTask
    /\ \E failure \in AllocFailures \cup {"none"} :
        /\ s' = process_load(s, t, failure)
        /\ order' = IF s'.mode = "boot" THEN Append(order, t) ELSE order
    /\ UNCHANGED <<pending, truth, terminated>>

\* No member of Loads is 0: there is a current task.
Start ==
    /\ s.mode = "boot" /\ Len(order) \in Loads
    /\ s' = task_run_first_ever_task(s)
    /\ UNCHANGED <<pending, truth, order, terminated>>

Running == s.list.current

\* The program computes: its registers change.
Compute ==
    /\ s.mode = "user"
    /\ \E eax \in 0 .. 1 :
        LET r == [s.cpu EXCEPT !.step = (@ + 1) % Steps, !.eax = eax]
        IN  s' = [s EXCEPT !.cpu = r] /\ truth' = [truth EXCEPT ![Running] = r]
    /\ UNCHANGED <<pending, order, terminated>>

\* A device raises its line; the PIC remembers it once.
Raise(irq) ==
    /\ s.mode \in {"boot", "user", "fault"}
    /\ irq \notin pending
    /\ pending' = pending \cup {irq}
    /\ UNCHANGED <<s, truth, order, terminated>>

\* The PIC passes on the most urgent line, if it is more urgent than all in service.
Deliver(irq) ==
    /\ s.mode = "user" /\ irq \in pending
    /\ \A j \in pending : irq <= j
    /\ \A j \in s.inService : irq < j
    /\ LET m == [s EXCEPT !.inService = @ \cup {irq}]
       IN  s' = interrupt_handler(m, IF irq = 0 THEN "clock" ELSE "other", s.cpu)
    /\ pending' = pending \ {irq}
    /\ UNCHANGED <<truth, order, terminated>>

\* The program executes "int 0x20" or another vector: every gate has DPL 3.
SoftwareInterrupt(vector) ==
    /\ s.mode = "user"
    /\ s' = interrupt_handler(s, vector, s.cpu)
    /\ UNCHANGED <<pending, truth, order, terminated>>

SystemCall ==
    /\ s.mode = "user"
    /\ s' = isr80h_handler(s, s.cpu)
    /\ truth' = [truth EXCEPT ![Running].eax = 0]
    /\ UNCHANGED <<pending, order, terminated>>

\* The processor pushes an error code for some exceptions, on top of the frame
\* that the code expects: every field is then read one word off.
Fault(kind) ==
    /\ s.mode = "user"
    /\ s' = IF kind = "divide" THEN idt_zero(s)
            ELSE interrupt_handler(s, "exception",
                    [s.cpu EXCEPT !.shifted = (kind = "error_code")])
    /\ terminated' = IF kind = "divide" THEN terminated
                     ELSE terminated \cup {Running}
    /\ UNCHANGED <<pending, truth, order>>

\* The fault of task_return comes back through the exception handler on the same
\* kernel stack, with interrupts off; what it saves is one word off again, and the
\* turn goes on.  When every task has a shifted frame this never ends and the
\* kernel stack runs over what lies below it.
KernelFault ==
    /\ s.mode = "fault"
    /\ IF \A t \in Loaded : s.registers[t].shifted
       THEN s' = [s EXCEPT !.mode = "lost"] /\ UNCHANGED terminated
       ELSE /\ s' = interrupt_handler(s, "exception", s.registers[Running])
            /\ terminated' = terminated \cup {Running}
    /\ UNCHANGED <<pending, truth, order>>

\* panic loops; a lost machine does nothing that is described here.
Halted == s.mode \in {"panic", "lost"} /\ UNCHANGED vars

Next ==
    \/ \E t \in Task : Load(t)
    \/ Start
    \/ Compute
    \/ \E irq \in Irq : Raise(irq) \/ Deliver(irq)
    \/ \E vector \in {"clock", "other"} : SoftwareInterrupt(vector)
    \/ SystemCall
    \/ \E kind \in Faults : Fault(kind)
    \/ KernelFault
    \/ Halted

\* kernel_main runs on; the timer ticks; the processor takes an interrupt that
\* is pending while it runs a program, and every fault at once.
Fairness ==
    /\ WF_vars(\E t \in Task : Load(t))
    /\ WF_vars(Start)
    /\ WF_vars(Raise(0))
    /\ WF_vars(\E irq \in Irq : Deliver(irq))
    /\ WF_vars(KernelFault)

Spec == Init /\ [][Next]_vars /\ Fairness

-----------------------------------------------------------------------------
\* The machine is in a state that exists: a page directory in cr3, process ids
\* that are slots of the array, contexts of programs.
TypeOK ==
    /\ s \in Machine
    /\ pending \subseteq Irq
    /\ truth \in [Task -> Registers]
    /\ terminated \subseteq Loaded

\* idt.c:28-39, task.c:187-192.  A program runs with its own page directory, the user segments and its own
\* registers, whatever interrupt the kernel has just handled.
RunsInItsOwnSpace ==
    s.mode = "user" =>
        s.cr3 = Running /\ s.ds = "user" /\ s.cpu.of = Running

\* task.c:125-139, task.asm:9-47.  Every program finds its registers as it left them: the one that runs has
\* them in the processor, the others in task->registers, unless an exception
\* with an error code has left a shifted frame there.
ContextsPreserved ==
    s.mode = "user" =>
        /\ s.cpu = truth[Running]
        /\ \A t \in Loaded \ {Running} :
                s.registers[t] = truth[t] \/ s.registers[t].shifted

\* idt.c:62-68.  No interrupt stays in service when a program runs: idt_clock acknowledges
\* before task_next, so that the next tick can be delivered.
NothingInService == s.mode = "user" => s.inService = {}

\* process.c:194-202, 466-475.  The process array holds each process that was loaded and not terminated, in
\* the slot of its id, and no other.
ProcessArrayExact ==
    /\ \A i \in Slot : s.processes[i] # NULL =>
            s.process[s.processes[i]].id = i
    /\ {s.processes[i] : i \in Slot} \ {NULL} = Loaded \ terminated

\* task.c:63-71.  The turn goes from a task to the one created after it, and from the last to
\* the first: task_next skips nobody.  A task whose frame is shifted gets its turn too and
\* loses it, by the fault that its frame raises, to the next one.
RoundRobin ==
    [][Running # NULL /\ Running' # Running =>
        \E i \in DOMAIN order :
            /\ Running = order[i]
            /\ Running' = order[(i % Len(order)) + 1]]_vars

\* task.c:106-116, idt.c:56-68.  No task is starved: each runs a program infinitely often,
\* unless the machine stops or its own frame is shifted.  The shifted frames of others do not
\* keep it from running.
NoStarvation ==
    \A t \in Task :
        []<>(\/ t \notin Loaded
             \/ s.mode = "user" /\ Running = t
             \/ s.registers[t].shifted
             \/ s.mode \in {"panic", "lost"})

-----------------------------------------------------------------------------
\* task.h: "The registers of the task when the task is not running".
RegistersWhenNotRunning ==
    s.mode = "user" =>
        \A t \in Loaded \ {Running} : s.registers[t] = truth[t]

\* task.c: panic("No more tasks!\n").  No program runs once all processes
\* have been terminated.
NoProgramWithoutProcess == s.mode = "user" => terminated # Loaded
=============================================================================
