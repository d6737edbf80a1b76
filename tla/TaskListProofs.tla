--------------------------- MODULE TaskListProofs ---------------------------
(***************************************************************************)
(* The order of the task list and the turn, for every set of tasks and     *)
(* every sequence of task_new, task_free and task_next: the invariants of  *)
(* TaskList and its action properties.  They are stated through            *)
(* Position, the index of a task in the queue; the proofs use the indexes  *)
(* themselves, as Linked does.                                             *)
(***************************************************************************)
EXTENDS TaskList, SequenceTheorems, TLAPS

\* The list links the tasks of q, each once, in the order of q.
Linked(l, q) ==
    /\ \A i, j \in 1 .. Len(q) : q[i] = q[j] => i = j
    /\ l.head = IF q = <<>> THEN NULL ELSE q[1]
    /\ q # <<>> => l.tail = q[Len(q)]
    /\ \A i \in 1 .. Len(q) :
            l.next[q[i]] = IF i = Len(q) THEN NULL ELSE q[i + 1]

\* What the prev links are, those that earlier frees left behind included.
PrevLinks(l, q, g) ==
    \A i \in 1 .. Len(q) :
        l.prev[q[i]] = IF g[q[i]] # NULL THEN g[q[i]]
                       ELSE IF i = 1 THEN NULL ELSE q[i - 1]

\* The task that stood before a task and is gone is none of those before it now.
GoneIsNotBefore(q, g) ==
    \A i \in 1 .. Len(q) : \A j \in 1 .. i : q[j] # g[q[i]]

\* No task is linked twice, and the prev links are known: with this the
\* invariants are inductive.
Inv ==
    /\ TypeOK
    /\ sound => /\ Linked(list, queue)
                /\ PrevLinks(list, queue, gone)
                /\ GoneIsNotBefore(queue, gone)
    /\ CurrentExists

-----------------------------------------------------------------------------
(* The functions of task.c, field by field *)

LEMMA NoTasksType == NoTasks \in TaskListType
  BY DEF NoTasks, TaskListType, Link

\* Whatever the links are, task_new leaves links to tasks or NULL.
LEMMA TaskNewType ==
    ASSUME NEW l \in TaskListType, NEW t \in Task
    PROVE  task_new(l, t) \in TaskListType
<1> DEFINE c == task_init(l, t)
<1>1. c \in TaskListType
    BY DEF task_init, TaskListType, Link
<1>2. l.tail \in Link /\ t \in Link
    BY DEF TaskListType, Link
<1>3. task_new(l, t) = IF l.head = NULL
        THEN [c EXCEPT !.head = t, !.tail = t, !.current = t]
        ELSE [c EXCEPT !.next[l.tail] = t, !.prev[t] = l.tail, !.tail = t]
    BY DEF task_new
<1> HIDE DEF c
<1>4. [c EXCEPT !.head = t, !.tail = t, !.current = t] \in TaskListType
    BY <1>1, <1>2 DEF TaskListType
<1>5. [c EXCEPT !.next[l.tail] = t, !.prev[t] = l.tail, !.tail = t] \in TaskListType
    BY <1>1, <1>2 DEF TaskListType
<1> QED  BY <1>3, <1>4, <1>5

\* task_new puts the task behind the tail; the first one also becomes head and
\* current.
LEMMA TaskNewFields ==
    ASSUME NEW l \in TaskListType, NEW t \in Task,
           l.head # NULL => l.tail # NULL
    PROVE  LET n == task_new(l, t)
           IN  /\ n.head = IF l.head = NULL THEN t ELSE l.head
               /\ n.tail = t
               /\ n.current = IF l.head = NULL THEN t ELSE l.current
               /\ n.next = [u \in Task |->
                    IF l.head # NULL /\ u = l.tail THEN t
                    ELSE IF u = t THEN NULL ELSE l.next[u]]
               /\ n.prev = [u \in Task |->
                    IF u # t THEN l.prev[u] ELSE IF l.head = NULL THEN NULL ELSE l.tail]
<1> DEFINE c == task_init(l, t)
           n == task_new(l, t)
<1>1. /\ c \in TaskListType
      /\ c.head = l.head /\ c.tail = l.tail /\ c.current = l.current
      /\ c.next = [l.next EXCEPT ![t] = NULL]
      /\ c.prev = [l.prev EXCEPT ![t] = NULL]
    BY DEF task_init, TaskListType, Link
<1>2. CASE l.head = NULL
  <2>1. n = [c EXCEPT !.head = t, !.tail = t, !.current = t]
      BY <1>2 DEF task_new
  <2> HIDE DEF c, n
  <2>2. n.head = t /\ n.tail = t /\ n.current = t /\ n.next = c.next /\ n.prev = c.prev
      BY <1>1, <2>1 DEF TaskListType, Link
  <2>3. n.next = [u \in Task |-> IF l.head # NULL /\ u = l.tail THEN t
                                 ELSE IF u = t THEN NULL ELSE l.next[u]]
      BY <1>1, <1>2, <2>2 DEF TaskListType
  <2>4. n.prev = [u \in Task |->
                    IF u # t THEN l.prev[u] ELSE IF l.head = NULL THEN NULL ELSE l.tail]
      BY <1>1, <1>2, <2>2 DEF TaskListType
  <2> QED  BY <1>2, <2>2, <2>3, <2>4 DEF n
<1>3. CASE l.head # NULL
  <2>1. n = [c EXCEPT !.next[l.tail] = t, !.prev[t] = l.tail, !.tail = t]
      BY <1>3 DEF task_new
  <2>2. l.tail \in Task
      BY <1>3 DEF TaskListType, Link
  <2> HIDE DEF c, n
  <2>3. /\ n.head = c.head /\ n.tail = t /\ n.current = c.current
        /\ n.next = [c.next EXCEPT ![l.tail] = t]
        /\ n.prev = [c.prev EXCEPT ![t] = l.tail]
      BY <1>1, <2>1, <2>2 DEF TaskListType, Link
  <2>4. n.next = [u \in Task |-> IF l.head # NULL /\ u = l.tail THEN t
                                 ELSE IF u = t THEN NULL ELSE l.next[u]]
      BY <1>1, <1>3, <2>2, <2>3 DEF TaskListType
  <2>5. n.prev = [u \in Task |->
                    IF u # t THEN l.prev[u] ELSE IF l.head = NULL THEN NULL ELSE l.tail]
      BY <1>1, <1>3, <2>3 DEF TaskListType
  <2> QED  BY <1>1, <1>3, <2>3, <2>4, <2>5 DEF n
<1> QED  BY <1>2, <1>3

LEMMA SetCurrentFields ==
    ASSUME NEW l \in TaskListType, NEW t \in Link
    PROVE  LET n == SetCurrent(l, t)
           IN  /\ n \in TaskListType
               /\ n.current = t
               /\ n.head = l.head /\ n.tail = l.tail /\ n.next = l.next /\ n.prev = l.prev
  BY DEF SetCurrent, TaskListType

\* task_list_remove unlinks the task by its own links and passes the turn on.
LEMMA RemoveFields ==
    ASSUME NEW l \in TaskListType, NEW t \in Task
    PROVE  LET n == task_list_remove(l, t)
           IN  /\ n \in TaskListType
               /\ n.head = IF t = l.head THEN l.next[t] ELSE l.head
               /\ n.tail = IF t = l.tail THEN l.prev[t] ELSE l.tail
               /\ n.current = IF t # l.current THEN l.current
                              ELSE IF l.next[t] = NULL THEN n.head ELSE l.next[t]
               /\ \A u \in Task : n.next[u] = IF u = l.prev[t] THEN l.next[t] ELSE l.next[u]
               /\ n.prev = l.prev
<1> DEFINE a == IF l.prev[t] # NULL THEN [l EXCEPT !.next[l.prev[t]] = l.next[t]] ELSE l
           b == IF t = a.head THEN [a EXCEPT !.head = a.next[t]] ELSE a
           c == IF t = b.tail THEN [b EXCEPT !.tail = b.prev[t]] ELSE b
           n == IF t = c.current THEN [c EXCEPT !.current = task_get_next(c)] ELSE c
<1>1. n = task_list_remove(l, t)
    BY DEF task_list_remove
<1>2. /\ a \in TaskListType
      /\ a.head = l.head /\ a.tail = l.tail /\ a.current = l.current /\ a.prev = l.prev
      /\ a.next = [u \in Task |-> IF u = l.prev[t] THEN l.next[t] ELSE l.next[u]]
      /\ a.next[t] = l.next[t]
    BY TaskAssumption DEF TaskListType, Link
<1> HIDE DEF a
<1>3. /\ b \in TaskListType
      /\ b.head = (IF t = l.head THEN l.next[t] ELSE l.head)
      /\ b.tail = l.tail /\ b.current = l.current /\ b.prev = l.prev /\ b.next = a.next
    BY <1>2 DEF TaskListType
<1> HIDE DEF b
<1>4. /\ c \in TaskListType
      /\ c.head = b.head /\ c.tail = (IF t = l.tail THEN l.prev[t] ELSE l.tail)
      /\ c.current = l.current /\ c.prev = l.prev /\ c.next = a.next
    BY <1>3 DEF TaskListType
<1> HIDE DEF c
<1>5. t = c.current => task_get_next(c) = (IF l.next[t] = NULL THEN c.head ELSE l.next[t])
    BY <1>2, <1>4 DEF task_get_next
<1>6. l.next[t] \in Link /\ c.head \in Link
    BY <1>4 DEF TaskListType
<1>7. /\ n \in TaskListType
      /\ n.head = c.head /\ n.tail = c.tail /\ n.prev = c.prev /\ n.next = c.next
      /\ n.current = IF t # l.current THEN l.current
                     ELSE IF l.next[t] = NULL THEN c.head ELSE l.next[t]
    BY <1>4, <1>5, <1>6 DEF TaskListType
<1> HIDE DEF n
<1> QED  BY <1>1, <1>2, <1>3, <1>4, <1>7

LEMMA LinkedEnds ==
    ASSUME NEW l, NEW q \in Seq(Task), Linked(l, q)
    PROVE  /\ l.head = NULL <=> q = <<>>
           /\ q # <<>> => Len(q) \in Nat \ {0} /\ l.head \in Task /\ l.tail \in Task
<1>1. q # <<>> => 1 \in 1 .. Len(q) /\ Len(q) \in 1 .. Len(q) /\ Len(q) \in Nat \ {0}
    BY EmptySeq, LenProperties
<1>2. \A i \in 1 .. Len(q) : q[i] \in Task
    BY ElementOfSeq
<1> QED  BY <1>1, <1>2, TaskAssumption DEF Linked

\* task_new keeps the order and puts the task last.
LEMMA NewLinked ==
    ASSUME NEW l \in TaskListType, NEW q \in Seq(Task), Linked(l, q),
           NEW t \in Task, \A i \in 1 .. Len(q) : q[i] # t
    PROVE  /\ Linked(task_new(l, t), Append(q, t))
           /\ task_new(l, t).prev = [u \in Task |-> IF u # t THEN l.prev[u]
                                        ELSE IF q = <<>> THEN NULL ELSE q[Len(q)]]
<1> DEFINE n == task_new(l, t)
           r == Append(q, t)
<1>1. /\ Len(q) \in Nat /\ Len(r) = Len(q) + 1 /\ r # <<>>
      /\ \A i \in 1 .. Len(q) : r[i] = q[i] /\ q[i] \in Task
      /\ r[Len(q) + 1] = t
    BY AppendProperties, LenProperties, ElementOfSeq
<1>2. /\ l.head = NULL <=> q = <<>>
      /\ q # <<>> => Len(q) \in Nat \ {0} /\ l.tail \in Task
    BY LinkedEnds
<1>3. /\ n.head = IF l.head = NULL THEN t ELSE l.head
      /\ n.tail = t
      /\ n.next = [u \in Task |-> IF l.head # NULL /\ u = l.tail THEN t
                                 ELSE IF u = t THEN NULL ELSE l.next[u]]
      /\ n.prev = [u \in Task |->
                    IF u # t THEN l.prev[u] ELSE IF l.head = NULL THEN NULL ELSE l.tail]
    BY <1>2, TaskNewFields, TaskAssumption
<1>4. q = <<>> => Len(q) = 0
    BY EmptySeq
<1> HIDE DEF n, r
<1>5. \A i, j \in 1 .. Len(r) : r[i] = r[j] => i = j
  <2> SUFFICES ASSUME NEW i \in 1 .. Len(r), NEW j \in 1 .. Len(r), r[i] = r[j]
               PROVE  i = j
      OBVIOUS
  <2>1. CASE i \in 1 .. Len(q) /\ j \in 1 .. Len(q)
      BY <1>1, <2>1 DEF Linked
  <2>2. CASE i = Len(q) + 1 \/ j = Len(q) + 1
      BY <1>1, <2>2
  <2> QED  BY <1>1, <2>1, <2>2
<1>6. n.head = r[1]
    BY <1>1, <1>2, <1>3, <1>4 DEF Linked
<1>7. ASSUME NEW i \in 1 .. Len(r)
      PROVE  n.next[r[i]] = IF i = Len(r) THEN NULL ELSE r[i + 1]
  <2>1. CASE i = Len(q) + 1
      BY <1>1, <1>2, <1>3, <1>4, <2>1 DEF Linked
  <2>2. CASE i \in 1 .. Len(q)
    <3>1. r[i] \in Task /\ r[i] = q[i] /\ r[i] # t
        BY <1>1, <2>2
    <3>2. q # <<>> /\ l.tail = q[Len(q)] /\ Len(q) \in 1 .. Len(q)
        BY <1>1, <1>4, <2>2 DEF Linked
    <3>3. CASE i = Len(q)
        BY <1>1, <1>2, <1>3, <3>1, <3>2, <3>3
    <3>4. CASE i # Len(q)
      <4>1. q[i] # l.tail
          BY <2>2, <3>2, <3>4 DEF Linked
      <4>2. l.next[q[i]] = q[i + 1] /\ q[i + 1] = r[i + 1]
          BY <1>1, <2>2, <3>4 DEF Linked
      <4> QED  BY <1>1, <1>3, <2>2, <3>1, <3>4, <4>1, <4>2
    <3> QED  BY <3>3, <3>4
  <2> QED  BY <1>1, <2>1, <2>2
<1>8. n.prev = [u \in Task |-> IF u # t THEN l.prev[u]
                               ELSE IF q = <<>> THEN NULL ELSE q[Len(q)]]
    BY <1>2, <1>3 DEF Linked
<1>9. Linked(n, r)
    BY <1>1, <1>3, <1>5, <1>6, <1>7 DEF Linked
<1> QED  BY <1>8, <1>9 DEF n, r

-----------------------------------------------------------------------------
(* The queue *)

LEMMA QueueFacts ==
    ASSUME queue \in Seq(Task)
    PROVE  /\ Len(queue) \in Nat
           /\ DOMAIN queue = 1 .. Len(queue)
           /\ Live = {queue[i] : i \in 1 .. Len(queue)}
           /\ \A i \in 1 .. Len(queue) : queue[i] \in Task
           /\ queue = <<>> <=> Len(queue) = 0
<1>1. Len(queue) \in Nat /\ DOMAIN queue = 1 .. Len(queue)
    BY LenProperties
<1>2. queue = <<>> <=> Len(queue) = 0
    BY EmptySeq
<1>3. \A i \in 1 .. Len(queue) : queue[i] \in Task
    BY ElementOfSeq
<1> QED  BY <1>1, <1>2, <1>3 DEF Live, ToSet

\* In a queue without repetition the position of a task is its only index.
LEMMA IndexOf ==
    ASSUME NEW q \in Seq(Task), \A i, j \in 1 .. Len(q) : q[i] = q[j] => i = j,
           NEW k \in 1 .. Len(q)
    PROVE  (CHOOSE i \in DOMAIN q : q[i] = q[k]) = k
<1>1. DOMAIN q = 1 .. Len(q)
    BY LenProperties
<1> DEFINE c == CHOOSE i \in DOMAIN q : q[i] = q[k]
<1>2. c \in 1 .. Len(q) /\ q[c] = q[k]
    BY <1>1
<1> QED  BY <1>2

LEMMA PositionOf ==
    ASSUME queue \in Seq(Task), \A i, j \in 1 .. Len(queue) : queue[i] = queue[j] => i = j,
           NEW k \in 1 .. Len(queue)
    PROVE  /\ Position(queue[k]) = k
           /\ Successor(queue[k]) = IF k = Len(queue) THEN NULL ELSE queue[k + 1]
<1>1. Position(queue[k]) = k
    BY IndexOf DEF Position
<1> QED  BY <1>1 DEF Successor

LEMMA LinkedIsSuccessor ==
    ASSUME queue \in Seq(Task), Linked(list, queue)
    PROVE  Ordered
<1>1. /\ Live = {queue[i] : i \in 1 .. Len(queue)}
      /\ Len(queue) \in Nat
      /\ queue = <<>> <=> Len(queue) = 0
    BY QueueFacts
<1>2. \A i, j \in 1 .. Len(queue) : queue[i] = queue[j] => i = j
    BY DEF Linked
<1>3. list.head = IF queue = <<>> THEN NULL ELSE Head(queue)
    BY <1>1 DEF Linked
<1>4. queue # <<>> => list.tail = Last(queue)
    BY DEF Linked, Last
<1>5. ASSUME NEW t \in Live
      PROVE  list.next[t] = Successor(t)
  <2>1. PICK i \in 1 .. Len(queue) : t = queue[i]
      BY <1>1
  <2>2. list.next[queue[i]] = IF i = Len(queue) THEN NULL ELSE queue[i + 1]
      BY DEF Linked
  <2> QED  BY <1>2, <2>1, <2>2, PositionOf
<1> QED  BY <1>3, <1>4, <1>5 DEF Ordered

\* Taking out the p-th element moves those behind it one place forward.
LEMMA RemoveAtFields ==
    ASSUME NEW q \in Seq(Task), NEW p \in 1 .. Len(q)
    PROVE  LET r == RemoveAt(q, p)
           IN  /\ r \in Seq(Task)
               /\ Len(r) = Len(q) - 1
               /\ \A i \in 1 .. Len(r) : r[i] = IF i < p THEN q[i] ELSE q[i + 1]
<1> DEFINE a == SubSeq(q, 1, p - 1)
           b == SubSeq(q, p + 1, Len(q))
<1>1. Len(q) \in Nat /\ \A i \in 1 .. Len(q) : q[i] \in Task
    BY LenProperties, ElementOfSeq
<1>2. /\ a \in Seq(Task) /\ Len(a) = p - 1
      /\ \A i \in 1 .. p - 1 : a[i] = q[i]
  <2>1. \A i \in 1 .. p - 1 : q[i] \in Task
      BY <1>1
  <2>2. /\ a \in Seq(Task)
        /\ Len(a) = IF 1 <= p - 1 THEN p - 1 - 1 + 1 ELSE 0
        /\ \A i \in 1 .. p - 1 - 1 + 1 : a[i] = q[1 + i - 1]
      BY <1>1, <2>1, SubSeqProperties
  <2> QED  BY <1>1, <2>2
<1>3. /\ b \in Seq(Task) /\ Len(b) = Len(q) - p
      /\ \A i \in 1 .. Len(q) - p : b[i] = q[p + i]
  <2>1. \A i \in p + 1 .. Len(q) : q[i] \in Task
      BY <1>1
  <2>2. /\ b \in Seq(Task)
        /\ Len(b) = IF p + 1 <= Len(q) THEN Len(q) - (p + 1) + 1 ELSE 0
        /\ \A i \in 1 .. Len(q) - (p + 1) + 1 : b[i] = q[p + 1 + i - 1]
      BY <1>1, <2>1, SubSeqProperties
  <2> QED  BY <1>1, <2>2
<1> HIDE DEF a, b
<1>4. /\ a \o b \in Seq(Task) /\ Len(a \o b) = Len(q) - 1
      /\ \A i \in 1 .. Len(q) - 1 : (a \o b)[i] = IF i <= p - 1 THEN a[i] ELSE b[i - (p - 1)]
    BY <1>1, <1>2, <1>3, ConcatProperties
<1>5. RemoveAt(q, p) = a \o b
    BY DEF RemoveAt, a, b
<1>6. ASSUME NEW i \in 1 .. Len(q) - 1
      PROVE  (a \o b)[i] = IF i < p THEN q[i] ELSE q[i + 1]
  <2>1. CASE i < p
      BY <1>1, <1>2, <1>4, <2>1
  <2>2. CASE ~ (i < p)
    <3>1. i - (p - 1) \in 1 .. Len(q) - p /\ p + (i - (p - 1)) = i + 1
        BY <1>1, <2>2
    <3>2. (a \o b)[i] = b[i - (p - 1)]
        BY <1>1, <1>4, <2>2
    <3> QED  BY <1>3, <2>2, <3>1, <3>2
  <2> QED  BY <2>1, <2>2
<1> QED  BY <1>4, <1>5, <1>6

-----------------------------------------------------------------------------
\* Where the turn goes when a task of an ordered list is freed.
LEMMA RemoveTurn ==
    ASSUME NEW l \in TaskListType, NEW q \in Seq(Task), Linked(l, q),
           NEW p \in 1 .. Len(q)
    PROVE  task_list_remove(l, q[p]).current =
                IF q[p] # l.current THEN l.current
                ELSE IF p < Len(q) THEN q[p + 1]
                ELSE IF p = 1 THEN NULL ELSE q[1]
<1> DEFINE t == q[p]
           n == task_list_remove(l, t)
<1>1. Len(q) \in Nat /\ \A i \in 1 .. Len(q) : q[i] \in Task
    BY LenProperties, ElementOfSeq
<1>2. \A i, j \in 1 .. Len(q) : q[i] = q[j] => i = j
    BY DEF Linked
<1>3. t \in Task
    BY <1>1
<1>4. /\ n.head = IF t = l.head THEN l.next[t] ELSE l.head
      /\ n.current = IF t # l.current THEN l.current
                     ELSE IF l.next[t] = NULL THEN n.head ELSE l.next[t]
  <2> HIDE DEF t
  <2> QED  BY <1>3, RemoveFields
<1>5. q # <<>>
    BY <1>1, EmptySeq
<1>6. l.head = q[1]
    BY <1>5 DEF Linked
<1>7. l.next[t] = IF p = Len(q) THEN NULL ELSE q[p + 1]
    BY DEF Linked
<1>8. t = l.head <=> p = 1
    BY <1>1, <1>2, <1>6
<1>9. p < Len(q) => q[p + 1] # NULL
    BY <1>1, TaskAssumption
<1> HIDE DEF t, n
<1>10. n.current = IF t # l.current THEN l.current
                   ELSE IF p < Len(q) THEN q[p + 1]
                   ELSE IF p = 1 THEN NULL ELSE q[1]
    BY <1>1, <1>4, <1>6, <1>7, <1>8, <1>9
<1> QED  BY <1>10 DEF t, n

\* task_list_remove keeps the order of the others.  The prev link of the task
\* itself is all of the prev links that it needs; at the head it only must not
\* lead to a task.
LEMMA RemoveLinked ==
    ASSUME NEW l \in TaskListType, NEW q \in Seq(Task), Linked(l, q),
           NEW p \in 1 .. Len(q),
           p # 1 => l.prev[q[p]] = q[p - 1],
           p = 1 => \A i \in 1 .. Len(q) : q[i] # l.prev[q[p]]
    PROVE  Linked(task_list_remove(l, q[p]), RemoveAt(q, p))
<1> DEFINE t == q[p]
           n == task_list_remove(l, t)
           r == RemoveAt(q, p)
<1>1. Len(q) \in Nat /\ \A i \in 1 .. Len(q) : q[i] \in Task
    BY LenProperties, ElementOfSeq
<1>2. \A i, j \in 1 .. Len(q) : q[i] = q[j] => i = j
    BY DEF Linked
<1>3. t \in Task
    BY <1>1
<1>4. /\ n.head = IF t = l.head THEN l.next[t] ELSE l.head
      /\ n.tail = IF t = l.tail THEN l.prev[t] ELSE l.tail
      /\ \A u \in Task : n.next[u] = IF u = l.prev[t] THEN l.next[t] ELSE l.next[u]
  <2> HIDE DEF t
  <2> QED  BY <1>3, RemoveFields
<1>5. /\ r \in Seq(Task) /\ Len(r) = Len(q) - 1
      /\ \A i \in 1 .. Len(r) : r[i] = IF i < p THEN q[i] ELSE q[i + 1]
    BY RemoveAtFields
<1>6. r = <<>> <=> Len(q) = 1
    BY <1>1, <1>5, EmptySeq
<1>7. q # <<>>
    BY <1>1, EmptySeq
<1>8. l.head = q[1] /\ l.tail = q[Len(q)]
    BY <1>7 DEF Linked
<1>9. \A i \in 1 .. Len(q) : l.next[q[i]] = IF i = Len(q) THEN NULL ELSE q[i + 1]
    BY DEF Linked
<1>10. l.next[t] = IF p = Len(q) THEN NULL ELSE q[p + 1]
    BY <1>9
<1>11. t = l.head <=> p = 1
    BY <1>1, <1>2, <1>8
<1>12. t = l.tail <=> p = Len(q)
    BY <1>1, <1>2, <1>8
<1>13. /\ p # 1 => l.prev[t] = q[p - 1]
       /\ p = 1 => \A i \in 1 .. Len(q) : q[i] # l.prev[t]
    OBVIOUS
<1> HIDE DEF t, n, r
<1>14. n.head = IF r = <<>> THEN NULL ELSE r[1]
    BY <1>1, <1>4, <1>5, <1>6, <1>8, <1>10, <1>11
<1>15. r # <<>> => n.tail = r[Len(r)]
    BY <1>1, <1>4, <1>5, <1>6, <1>8, <1>12, <1>13
<1>16. \A i, j \in 1 .. Len(r) : r[i] = r[j] => i = j
  <2> SUFFICES ASSUME NEW i \in 1 .. Len(r), NEW j \in 1 .. Len(r), r[i] = r[j]
               PROVE  i = j
      OBVIOUS
  <2>1. i \in 1 .. Len(q) /\ i + 1 \in 1 .. Len(q) /\ j \in 1 .. Len(q) /\ j + 1 \in 1 .. Len(q)
      BY <1>1, <1>5
  <2> QED  BY <1>1, <1>2, <1>5, <2>1
<1>17. ASSUME NEW i \in 1 .. Len(r)
       PROVE  n.next[r[i]] = IF i = Len(r) THEN NULL ELSE r[i + 1]
  <2>1. i \in 1 .. Len(q) /\ i + 1 \in 1 .. Len(q)
      BY <1>1, <1>5
  <2>2. CASE i < p - 1
    <3>1. r[i] = q[i] /\ r[i] \in Task /\ r[i] # l.prev[t]
        BY <1>1, <1>2, <1>5, <1>13, <2>1, <2>2
    <3>2. i # Len(r) /\ r[i + 1] = q[i + 1] /\ i # Len(q)
        BY <1>1, <1>5, <2>1, <2>2
    <3> QED  BY <1>4, <1>9, <2>1, <3>1, <3>2
  <2>3. CASE i = p - 1
    <3>1. r[i] = q[i] /\ r[i] \in Task /\ r[i] = l.prev[t]
        BY <1>1, <1>5, <1>13, <2>1, <2>3
    <3>2. n.next[r[i]] = l.next[t]
        BY <1>4, <3>1
    <3> QED  BY <1>1, <1>5, <1>10, <2>1, <2>3, <3>2
  <2>4. CASE i >= p
    <3>1. r[i] = q[i + 1] /\ r[i] \in Task /\ r[i] # l.prev[t]
      <4>1. r[i] = q[i + 1] /\ r[i] \in Task
          BY <1>1, <1>5, <2>1, <2>4
      <4>2. CASE p = 1
          BY <1>13, <2>1, <4>1, <4>2
      <4>3. CASE p # 1
        <5>1. p - 1 \in 1 .. Len(q) /\ i + 1 # p - 1
            BY <1>1, <2>4, <4>3
        <5>2. l.prev[t] = q[p - 1]
            BY <1>13, <4>3
        <5> QED  BY <1>2, <2>1, <4>1, <5>1, <5>2
      <4> QED  BY <4>1, <4>2, <4>3
    <3>2. n.next[r[i]] = l.next[q[i + 1]]
        BY <1>4, <3>1
    <3>3. l.next[q[i + 1]] = IF i + 1 = Len(q) THEN NULL ELSE q[i + 1 + 1]
        BY <1>9, <2>1
    <3>4. i # Len(r) => r[i + 1] = q[i + 1 + 1]
      <4>1. i # Len(r) => i + 1 \in 1 .. Len(r) /\ ~ (i + 1 < p)
          BY <1>1, <1>5, <2>1, <2>4
      <4> QED  BY <1>5, <4>1
    <3> QED  BY <1>1, <1>5, <2>1, <3>2, <3>3, <3>4
  <2> QED  BY <1>1, <2>1, <2>2, <2>3, <2>4
<1>18. Linked(n, r)
    BY <1>14, <1>15, <1>16, <1>17 DEF Linked
<1> QED  BY <1>18 DEF t, n, r

\* A stale prev link spoils it: behind the head the task in front keeps its
\* next link, and at the head a task further back gets the wrong one.
LEMMA RemoveSpoils ==
    ASSUME NEW l \in TaskListType, NEW q \in Seq(Task), Linked(l, q),
           NEW p \in 1 .. Len(q),
           p # 1 => l.prev[q[p]] # q[p - 1],
           p = 1 => \E k \in 2 .. Len(q) : l.prev[q[p]] = q[k]
    PROVE  LET r == RemoveAt(q, p)
           IN  \E i \in 1 .. Len(r) :
                  task_list_remove(l, q[p]).next[r[i]] #
                      IF i = Len(r) THEN NULL ELSE r[i + 1]
<1> DEFINE t == q[p]
           n == task_list_remove(l, t)
           r == RemoveAt(q, p)
<1>1. Len(q) \in Nat /\ \A i \in 1 .. Len(q) : q[i] \in Task
    BY LenProperties, ElementOfSeq
<1>2. \A i, j \in 1 .. Len(q) : q[i] = q[j] => i = j
    BY DEF Linked
<1>3. t \in Task
    BY <1>1
<1>4. \A u \in Task : n.next[u] = IF u = l.prev[t] THEN l.next[t] ELSE l.next[u]
  <2> HIDE DEF t
  <2> QED  BY <1>3, RemoveFields
<1>5. /\ Len(r) = Len(q) - 1
      /\ \A i \in 1 .. Len(r) : r[i] = IF i < p THEN q[i] ELSE q[i + 1]
    BY RemoveAtFields
<1>6. \A i \in 1 .. Len(q) : l.next[q[i]] = IF i = Len(q) THEN NULL ELSE q[i + 1]
    BY DEF Linked
<1>7. l.next[t] = IF p = Len(q) THEN NULL ELSE q[p + 1]
    BY <1>6
<1>8. /\ p # 1 => l.prev[t] # q[p - 1]
      /\ p = 1 => \E k \in 2 .. Len(q) : l.prev[t] = q[k]
    OBVIOUS
<1>9. t = q[p]
    OBVIOUS
<1> HIDE DEF t, n, r
<1>10. CASE p # 1
  <2>1. p - 1 \in 1 .. Len(r) /\ p - 1 \in 1 .. Len(q) /\ p - 1 # Len(q) /\ p - 1 + 1 = p
      BY <1>1, <1>5, <1>10
  <2>2. r[p - 1] = q[p - 1] /\ r[p - 1] \in Task
      BY <1>1, <1>5, <2>1
  <2>3. n.next[r[p - 1]] = t
      BY <1>4, <1>6, <1>8, <1>9, <1>10, <2>1, <2>2
  <2>4. p - 1 # Len(r) => r[p] = q[p + 1] /\ p + 1 \in 1 .. Len(q)
      BY <1>1, <1>5, <2>1
  <2>5. t # IF p - 1 = Len(r) THEN NULL ELSE r[p]
      BY <1>1, <1>2, <1>3, <1>9, <2>4, TaskAssumption
  <2> QED  BY <2>1, <2>3, <2>5 DEF n, r, t
<1>11. CASE p = 1
  <2>1. PICK k \in 2 .. Len(q) : l.prev[t] = q[k]
      BY <1>8, <1>11
  <2>2. /\ k - 1 \in 1 .. Len(r) /\ k \in 1 .. Len(q) /\ 2 \in 1 .. Len(q)
        /\ ~ (k - 1 < p) /\ k - 1 + 1 = k /\ Len(q) # 1
      BY <1>1, <1>5, <1>11, <2>1
  <2>3. r[k - 1] = q[k] /\ r[k - 1] \in Task
      BY <1>1, <1>5, <2>2
  <2>4. n.next[r[k - 1]] = q[2]
      BY <1>4, <1>7, <1>11, <2>1, <2>2, <2>3
  <2>5. k - 1 # Len(r) => r[k] = q[k + 1] /\ k + 1 \in 1 .. Len(q) /\ k + 1 # 2
      BY <1>1, <1>5, <1>11, <2>1, <2>2
  <2>6. q[2] # IF k - 1 = Len(r) THEN NULL ELSE r[k]
      BY <1>1, <1>2, <2>2, <2>5, TaskAssumption
  <2> QED  BY <2>2, <2>4, <2>6 DEF n, r, t
<1> QED  BY <1>10, <1>11

-----------------------------------------------------------------------------
LEMMA InvInit == Init => Inv
<1> SUFFICES ASSUME Init PROVE Inv
    OBVIOUS
<1>1. list \in TaskListType /\ list.head = NULL /\ list.current = NULL
    BY NoTasksType DEF Init, NoTasks
<1>2. queue = <<>> /\ queue \in Seq(Task) /\ Len(queue) = 0
    BY EmptySeq DEF Init
<1>3. Linked(list, queue) /\ PrevLinks(list, queue, gone) /\ GoneIsNotBefore(queue, gone)
    BY <1>1, <1>2 DEF Linked, PrevLinks, GoneIsNotBefore
<1>4. gone \in [Task -> Link] /\ sound \in BOOLEAN
    BY DEF Init, Link
<1> QED  BY <1>1, <1>2, <1>3, <1>4 DEF Inv, TypeOK, CurrentExists

\* The head and the tail of an ordered list are tasks together.
LEMMA OrderedEnds ==
    ASSUME NEW l, NEW q \in Seq(Task), Linked(l, q), l.tail = NULL
    PROVE  l.head = NULL
  BY LinkedEnds, TaskAssumption

LEMMA NewKeepsInv ==
    ASSUME Inv, NEW t \in Task, New(t)
    PROVE  Inv'
<1>1. list \in TaskListType /\ queue \in Seq(Task) /\ gone \in [Task -> Link] /\ sound \in BOOLEAN
    BY DEF Inv, TypeOK
<1>2. /\ list' = task_new(list, t) /\ queue' = Append(queue, t)
      /\ gone' = [gone EXCEPT ![t] = NULL] /\ sound' = sound
    BY DEF New
<1>3. /\ Live = {queue[i] : i \in 1 .. Len(queue)} /\ Len(queue) \in Nat
      /\ queue = <<>> <=> Len(queue) = 0
      /\ \A i \in 1 .. Len(queue) : queue[i] \in Task
    BY <1>1, QueueFacts
<1>4. \A i \in 1 .. Len(queue) : queue[i] # t
    BY <1>3 DEF New
<1>5. queue' \in Seq(Task) /\ queue' # <<>> /\ Len(queue') = Len(queue) + 1
      /\ queue'[Len(queue) + 1] = t
      /\ \A i \in 1 .. Len(queue) : queue'[i] = queue[i]
    BY <1>1, <1>2, AppendProperties
<1>6. list' \in TaskListType /\ gone' \in [Task -> Link]
    BY <1>1, <1>2, TaskNewType DEF Link
<1>7. ASSUME sound
      PROVE  /\ Linked(list, queue)'
             /\ PrevLinks(list, queue, gone)'
             /\ GoneIsNotBefore(queue, gone)'
             /\ list'.current \in Live'
  <2>1. Linked(list, queue) /\ PrevLinks(list, queue, gone) /\ GoneIsNotBefore(queue, gone)
      BY <1>7 DEF Inv
  <2>2. /\ Linked(list, queue)'
        /\ list'.prev = [u \in Task |-> IF u # t THEN list.prev[u]
                           ELSE IF queue = <<>> THEN NULL ELSE queue[Len(queue)]]
      BY <1>1, <1>2, <1>4, <2>1, NewLinked
  <2>3. /\ list.head = NULL <=> queue = <<>>
        /\ queue # <<>> => list.tail # NULL
      BY <1>1, <2>1, LinkedEnds, TaskAssumption
  <2>4. list'.current = IF list.head = NULL THEN t ELSE list.current
      BY <1>1, <1>2, <2>3, TaskNewFields
  <2>5. Live' = {queue'[i] : i \in 1 .. Len(queue')}
      BY <1>5, LenProperties DEF Live, ToSet
  <2>6. list'.current \in Live'
    <3>1. CASE queue = <<>>
        BY <1>3, <1>5, <2>3, <2>4, <2>5, <3>1
    <3>2. CASE queue # <<>>
      <4>1. PICK i \in 1 .. Len(queue) : list.current = queue[i]
          BY <1>3, <1>7, <3>2 DEF Inv, CurrentExists
      <4>2. i \in 1 .. Len(queue') /\ list'.current = queue'[i]
          BY <1>3, <1>5, <2>3, <2>4, <3>2, <4>1
      <4> QED  BY <2>5, <4>2
    <3> QED  BY <3>1, <3>2
  <2>7. PrevLinks(list, queue, gone)'
    <3> SUFFICES ASSUME NEW i \in 1 .. Len(queue')
                 PROVE  list'.prev[queue'[i]] =
                          IF gone'[queue'[i]] # NULL THEN gone'[queue'[i]]
                          ELSE IF i = 1 THEN NULL ELSE queue'[i - 1]
        BY DEF PrevLinks
    <3>1. CASE i = Len(queue) + 1
      <4>1. queue'[i] = t /\ gone'[t] = NULL
          BY <1>1, <1>2, <1>5, <3>1
      <4>2. list'.prev[t] = IF queue = <<>> THEN NULL ELSE queue[Len(queue)]
          BY <2>2
      <4>3. i # 1 => queue # <<>> /\ queue'[i - 1] = queue[Len(queue)]
          BY <1>3, <1>5, <3>1
      <4>4. i = 1 => queue = <<>>
          BY <1>3, <3>1
      <4> QED  BY <4>1, <4>2, <4>3, <4>4
    <3>2. CASE i \in 1 .. Len(queue)
      <4>1. queue'[i] = queue[i] /\ queue[i] # t /\ queue[i] \in Task
          BY <1>3, <1>4, <1>5, <3>2
      <4>2. gone'[queue[i]] = gone[queue[i]] /\ list'.prev[queue[i]] = list.prev[queue[i]]
          BY <1>1, <1>2, <2>2, <4>1
      <4>3. i # 1 => queue'[i - 1] = queue[i - 1]
          BY <1>3, <1>5, <3>2
      <4> QED  BY <2>1, <3>2, <4>1, <4>2, <4>3 DEF PrevLinks
    <3> QED  BY <1>3, <1>5, <3>1, <3>2
  <2>8. GoneIsNotBefore(queue, gone)'
    <3> SUFFICES ASSUME NEW i \in 1 .. Len(queue'), NEW j \in 1 .. i
                 PROVE  queue'[j] # gone'[queue'[i]]
        BY DEF GoneIsNotBefore
    <3>1. CASE i = Len(queue) + 1
      <4>1. queue'[i] = t /\ gone'[t] = NULL
          BY <1>1, <1>2, <1>5, <3>1
      <4>2. queue'[j] \in Task
          BY <1>3, <1>5, <3>1
      <4> QED  BY <4>1, <4>2, TaskAssumption
    <3>2. CASE i \in 1 .. Len(queue)
      <4>1. queue'[i] = queue[i] /\ queue[i] # t /\ queue[i] \in Task /\ queue'[j] = queue[j]
          BY <1>3, <1>4, <1>5, <3>2
      <4>2. gone'[queue[i]] = gone[queue[i]]
          BY <1>1, <1>2, <4>1
      <4> QED  BY <2>1, <3>2, <4>1, <4>2 DEF GoneIsNotBefore
    <3> QED  BY <1>3, <1>5, <3>1, <3>2
  <2> QED  BY <2>2, <2>6, <2>7, <2>8
<1>8. sound' /\ list'.tail = NULL => list'.head = NULL
    BY <1>2, <1>5, <1>7, OrderedEnds
<1> QED  BY <1>1, <1>2, <1>5, <1>6, <1>7, <1>8 DEF Inv, TypeOK, CurrentExists

-----------------------------------------------------------------------------
(* task_free *)

\* The task by its place in the queue, and what the step is in those terms.
LEMMA FreeAt ==
    ASSUME Inv, sound, NEW t \in Live, task_free(t)
    PROVE  \E p \in 1 .. Len(queue) :
              /\ t = queue[p]
              /\ Successor(t) = IF p = Len(queue) THEN NULL ELSE queue[p + 1]
              /\ list' = task_list_remove(list, queue[p])
              /\ queue' = RemoveAt(queue, p)
              /\ gone' = [u \in Task |->
                    IF p # Len(queue) /\ u = queue[p + 1] /\ gone[u] = NULL
                    THEN queue[p] ELSE gone[u]]
<1>1. queue \in Seq(Task) /\ Linked(list, queue)
    BY DEF Inv, TypeOK
<1>2. /\ Live = {queue[i] : i \in 1 .. Len(queue)} /\ Len(queue) \in Nat
    BY <1>1, QueueFacts
<1>3. PICK p \in 1 .. Len(queue) : t = queue[p]
    BY <1>2
<1>4. /\ Position(t) = p
      /\ Successor(t) = IF p = Len(queue) THEN NULL ELSE queue[p + 1]
    BY <1>1, <1>3, PositionOf DEF Linked
<1>5. \A u \in Task : u = Successor(t) <=> p # Len(queue) /\ u = queue[p + 1]
    BY <1>4, TaskAssumption
<1>6. gone' = [u \in Task |->
                  IF p # Len(queue) /\ u = queue[p + 1] /\ gone[u] = NULL
                  THEN queue[p] ELSE gone[u]]
    BY <1>3, <1>5 DEF task_free
<1> QED  BY <1>3, <1>4, <1>6 DEF task_free

\* A free in which nothing goes wrong keeps the order, and every prev link is
\* still right or leads to the task that is gone.
LEMMA FreeKeepsOrder ==
    ASSUME Inv, sound, NEW t \in Live, task_free(t), Harmless(t)
    PROVE  /\ Linked(list, queue)'
           /\ PrevLinks(list, queue, gone)'
           /\ GoneIsNotBefore(queue, gone)'
           /\ IF queue' = <<>> THEN list'.current = NULL ELSE list'.current \in Live'
<1>1. /\ list \in TaskListType /\ queue \in Seq(Task) /\ gone \in [Task -> Link]
      /\ Linked(list, queue) /\ PrevLinks(list, queue, gone) /\ GoneIsNotBefore(queue, gone)
    BY DEF Inv, TypeOK
<1>2. /\ Live = {queue[i] : i \in 1 .. Len(queue)} /\ Len(queue) \in Nat
      /\ queue = <<>> <=> Len(queue) = 0
      /\ \A i \in 1 .. Len(queue) : queue[i] \in Task
    BY <1>1, QueueFacts
<1>3. \A i, j \in 1 .. Len(queue) : queue[i] = queue[j] => i = j
    BY <1>1 DEF Linked
<1>4. PICK p \in 1 .. Len(queue) :
              /\ t = queue[p]
              /\ list' = task_list_remove(list, queue[p])
              /\ queue' = RemoveAt(queue, p)
              /\ gone' = [u \in Task |->
                    IF p # Len(queue) /\ u = queue[p + 1] /\ gone[u] = NULL
                    THEN queue[p] ELSE gone[u]]
    BY FreeAt
<1>5. /\ p # 1 => list.prev[queue[p]] = queue[p - 1]
      /\ p = 1 => \A i \in 1 .. Len(queue) : queue[i] # list.prev[queue[p]]
  <2>1. list.prev[queue[p]] = IF gone[queue[p]] # NULL THEN gone[queue[p]]
                              ELSE IF p = 1 THEN NULL ELSE queue[p - 1]
      BY <1>1 DEF PrevLinks
  <2>2. CASE gone[queue[p]] = NULL
      BY <1>2, <2>1, <2>2, TaskAssumption
  <2>3. CASE queue[p] = queue[1] /\ gone[queue[p]] \notin Live
    <3>1. p = 1
        BY <1>2, <1>3, <2>3
    <3>2. gone[queue[p]] = NULL \/ list.prev[queue[p]] \notin Live
        BY <2>1, <2>3
    <3>3. CASE list.prev[queue[p]] \notin Live
        BY <1>2, <3>1, <3>3
    <3> QED  BY <2>2, <3>2, <3>3
  <2> QED  BY <1>4, <2>2, <2>3 DEF Harmless
<1>6. Linked(list, queue)'
    BY <1>1, <1>4, <1>5, RemoveLinked
<1>7. /\ queue' \in Seq(Task) /\ Len(queue') = Len(queue) - 1
      /\ \A i \in 1 .. Len(queue') : queue'[i] = IF i < p THEN queue[i] ELSE queue[i + 1]
    BY <1>1, <1>4, RemoveAtFields
<1>8. list'.prev = list.prev
    BY <1>1, <1>2, <1>4, RemoveFields
<1>9. list'.current = IF queue[p] # list.current THEN list.current
                      ELSE IF p < Len(queue) THEN queue[p + 1]
                      ELSE IF p = 1 THEN NULL ELSE queue[1]
    BY <1>1, <1>4, RemoveTurn
\* gone of the tasks that are left, by their old place k
<1>10. ASSUME NEW k \in 1 .. Len(queue), k # p
       PROVE  gone'[queue[k]] = IF k = p + 1 /\ gone[queue[k]] = NULL
                                THEN queue[p] ELSE gone[queue[k]]
    BY <1>2, <1>3, <1>4, <1>10
<1>11. PrevLinks(list, queue, gone)'
  <2> SUFFICES ASSUME NEW i \in 1 .. Len(queue')
               PROVE  list'.prev[queue'[i]] =
                        IF gone'[queue'[i]] # NULL THEN gone'[queue'[i]]
                        ELSE IF i = 1 THEN NULL ELSE queue'[i - 1]
      BY DEF PrevLinks
  <2>1. CASE i < p
    <3>1. i \in 1 .. Len(queue) /\ i # p /\ i # p + 1 /\ queue'[i] = queue[i]
        BY <1>2, <1>7, <2>1
    <3>2. gone'[queue[i]] = gone[queue[i]]
        BY <1>10, <3>1
    <3>3. i # 1 => queue'[i - 1] = queue[i - 1]
        BY <1>2, <1>7, <2>1, <3>1
    <3> QED  BY <1>1, <1>8, <3>1, <3>2, <3>3 DEF PrevLinks
  <2>2. CASE ~ (i < p)
    <3>1. i + 1 \in 1 .. Len(queue) /\ i + 1 # p /\ queue'[i] = queue[i + 1] /\ i + 1 # 1
        BY <1>2, <1>7, <2>2
    <3>2. list.prev[queue[i + 1]] = IF gone[queue[i + 1]] # NULL THEN gone[queue[i + 1]]
                                    ELSE queue[i]
      <4>1. i + 1 - 1 = i
          OBVIOUS
      <4> QED  BY <1>1, <3>1, <4>1 DEF PrevLinks
    <3>3. gone'[queue[i + 1]] = IF i = p /\ gone[queue[i + 1]] = NULL
                                THEN queue[p] ELSE gone[queue[i + 1]]
      <4>1. i + 1 = p + 1 <=> i = p
          BY <1>2
      <4> QED  BY <1>10, <3>1, <4>1
    <3>4. CASE gone[queue[i + 1]] # NULL
        BY <1>8, <3>1, <3>2, <3>3, <3>4
    <3>5. CASE gone[queue[i + 1]] = NULL /\ i = p
      <4>1. queue[p] # NULL
          BY <1>2, TaskAssumption
      <4> QED  BY <1>8, <3>1, <3>2, <3>3, <3>5, <4>1
    <3>6. CASE gone[queue[i + 1]] = NULL /\ i # p
      <4>1. i - 1 \in 1 .. Len(queue') /\ ~ (i - 1 < p) /\ i - 1 + 1 = i /\ i # 1
          BY <1>2, <1>7, <2>2, <3>6
      <4>2. queue'[i - 1] = queue[i]
          BY <1>7, <4>1
      <4> QED  BY <1>8, <3>1, <3>2, <3>3, <3>6, <4>1, <4>2
    <3> QED  BY <3>4, <3>5, <3>6
  <2> QED  BY <2>1, <2>2
<1>12. GoneIsNotBefore(queue, gone)'
  <2> SUFFICES ASSUME NEW i \in 1 .. Len(queue'), NEW j \in 1 .. i
               PROVE  queue'[j] # gone'[queue'[i]]
      BY DEF GoneIsNotBefore
  <2>1. PICK k \in 1 .. Len(queue) : k # p /\ queue'[i] = queue[k] /\ k >= i
                                     /\ (i < p => k = i) /\ (~ (i < p) => k = i + 1)
    <3>1. CASE i < p
        BY <1>2, <1>7, <3>1
    <3>2. CASE ~ (i < p)
      <4>1. i + 1 \in 1 .. Len(queue) /\ i + 1 # p /\ i + 1 >= i
          BY <1>2, <1>7, <3>2
      <4> QED  BY <1>7, <3>2, <4>1
    <3> QED  BY <3>1, <3>2
  <2>2. PICK m \in 1 .. k : m # p /\ queue'[j] = queue[m]
    <3>1. j \in 1 .. Len(queue')
        BY <1>2, <1>7
    <3>2. CASE j < p
        BY <1>2, <1>7, <2>1, <3>1, <3>2
    <3>3. CASE ~ (j < p)
      <4>1. j + 1 \in 1 .. k /\ j + 1 # p
          BY <1>2, <1>7, <2>1, <3>3
      <4> QED  BY <1>7, <3>1, <3>3, <4>1
    <3> QED  BY <3>2, <3>3
  <2>3. gone'[queue[k]] = IF k = p + 1 /\ gone[queue[k]] = NULL
                          THEN queue[p] ELSE gone[queue[k]]
      BY <1>10, <2>1
  <2>4. queue[m] # gone[queue[k]]
      BY <1>1, <2>2 DEF GoneIsNotBefore
  <2>5. queue[m] # queue[p]
      BY <1>2, <1>3, <2>2
  <2> QED  BY <2>1, <2>2, <2>3, <2>4, <2>5
<1>13. queue' = <<>> <=> Len(queue) = 1
    BY <1>2, <1>7, EmptySeq
<1>14. Live' = {queue'[i] : i \in 1 .. Len(queue')}
    BY <1>7, LenProperties DEF Live, ToSet
<1>15. PICK k \in 1 .. Len(queue) : list.current = queue[k]
    BY <1>2 DEF Inv, CurrentExists
<1>16. IF queue' = <<>> THEN list'.current = NULL ELSE list'.current \in Live'
  <2>1. CASE Len(queue) = 1
      BY <1>2, <1>9, <1>13, <1>15, <2>1
  <2>2. CASE Len(queue) # 1
    <3>1. CASE k < p
        BY <1>2, <1>3, <1>7, <1>9, <1>13, <1>14, <1>15, <2>2, <3>1
    <3>2. CASE k > p
      <4>1. k - 1 \in 1 .. Len(queue') /\ queue'[k - 1] = queue[k]
          BY <1>2, <1>7, <3>2
      <4>2. list'.current = queue[k]
          BY <1>3, <1>9, <1>15, <3>2
      <4> QED  BY <1>13, <1>14, <2>2, <4>1, <4>2
    <3>3. CASE k = p /\ p < Len(queue)
      <4>1. p \in 1 .. Len(queue') /\ queue'[p] = queue[p + 1]
          BY <1>2, <1>7, <3>3
      <4>2. list'.current = queue[p + 1]
          BY <1>9, <1>15, <3>3
      <4> QED  BY <1>13, <1>14, <2>2, <4>1, <4>2
    <3>4. CASE k = p /\ p = Len(queue)
      <4>1. 1 \in 1 .. Len(queue') /\ queue'[1] = queue[1]
          BY <1>2, <1>7, <2>2, <3>4
      <4>2. list'.current = queue[1]
          BY <1>2, <1>9, <1>15, <2>2, <3>4
      <4> QED  BY <1>13, <1>14, <2>2, <4>1, <4>2
    <3> QED  BY <1>2, <3>1, <3>2, <3>3, <3>4
  <2> QED  BY <2>1, <2>2
<1> QED  BY <1>6, <1>11, <1>12, <1>16

LEMMA FreeKeepsInv ==
    ASSUME Inv, NEW t \in Live, task_free(t)
    PROVE  Inv'
<1>1. list \in TaskListType /\ queue \in Seq(Task) /\ gone \in [Task -> Link] /\ sound \in BOOLEAN
    BY DEF Inv, TypeOK
<1>2. /\ Live = {queue[i] : i \in 1 .. Len(queue)} /\ DOMAIN queue = 1 .. Len(queue)
      /\ \A i \in 1 .. Len(queue) : queue[i] \in Task
    BY <1>1, QueueFacts
<1>3. t \in Task /\ Position(t) \in 1 .. Len(queue)
    BY <1>2 DEF Position
<1>4. list' \in TaskListType
    BY <1>1, <1>3, RemoveFields DEF task_free
<1>5. queue' \in Seq(Task)
    BY <1>1, <1>3, RemoveAtFields DEF task_free
<1>6. gone' \in [Task -> Link] /\ sound' \in BOOLEAN
    BY <1>1, <1>3 DEF task_free, Link
<1>7. sound' => sound /\ Harmless(t)
    BY DEF task_free
<1>8. sound' => /\ Linked(list, queue)'
                /\ PrevLinks(list, queue, gone)'
                /\ GoneIsNotBefore(queue, gone)'
                /\ IF queue' = <<>> THEN list'.current = NULL ELSE list'.current \in Live'
    BY <1>7, FreeKeepsOrder
<1>9. sound' /\ list'.tail = NULL => list'.head = NULL
    BY <1>5, <1>8, OrderedEnds
<1> QED  BY <1>4, <1>5, <1>6, <1>8, <1>9 DEF Inv, TypeOK, CurrentExists

\* The turn goes on even when the free spoils the list.
LEMMA FreePasses ==
    ASSUME Inv, sound, NEW t \in Live, task_free(t), list.current = t, Len(queue) > 1
    PROVE  list'.current = IF Successor(t) = NULL THEN queue[1] ELSE Successor(t)
<1>1. list \in TaskListType /\ queue \in Seq(Task) /\ Linked(list, queue)
    BY DEF Inv, TypeOK
<1>2. Len(queue) \in Nat /\ \A i \in 1 .. Len(queue) : queue[i] \in Task
    BY <1>1, QueueFacts
<1>3. PICK p \in 1 .. Len(queue) :
              /\ t = queue[p]
              /\ Successor(t) = IF p = Len(queue) THEN NULL ELSE queue[p + 1]
              /\ list' = task_list_remove(list, queue[p])
    BY FreeAt
<1>4. list'.current = IF queue[p] # list.current THEN list.current
                      ELSE IF p < Len(queue) THEN queue[p + 1]
                      ELSE IF p = 1 THEN NULL ELSE queue[1]
    BY <1>1, <1>3, RemoveTurn
<1>5. p < Len(queue) => queue[p + 1] # NULL
    BY <1>2, TaskAssumption
<1> QED  BY <1>2, <1>3, <1>4, <1>5

\* A free that is not harmless leaves some task with a next link that is wrong.
LEMMA FreeSpoils ==
    ASSUME Inv, sound, NEW t \in Live, task_free(t), ~ Harmless(t)
    PROVE  ~ Ordered'
<1>1. /\ list \in TaskListType /\ queue \in Seq(Task) /\ gone \in [Task -> Link]
      /\ Linked(list, queue) /\ PrevLinks(list, queue, gone) /\ GoneIsNotBefore(queue, gone)
    BY DEF Inv, TypeOK
<1>2. /\ Live = {queue[i] : i \in 1 .. Len(queue)} /\ Len(queue) \in Nat
      /\ \A i \in 1 .. Len(queue) : queue[i] \in Task
    BY <1>1, QueueFacts
<1>3. \A i, j \in 1 .. Len(queue) : queue[i] = queue[j] => i = j
    BY <1>1 DEF Linked
<1>4. PICK p \in 1 .. Len(queue) :
              /\ t = queue[p]
              /\ list' = task_list_remove(list, queue[p])
              /\ queue' = RemoveAt(queue, p)
    BY FreeAt
<1>5. gone[queue[p]] # NULL /\ list.prev[queue[p]] = gone[queue[p]]
    BY <1>1, <1>4 DEF Harmless, PrevLinks
<1>6. p # 1 => list.prev[queue[p]] # queue[p - 1]
  <2>1. p # 1 => p - 1 \in 1 .. p
      BY <1>2
  <2> QED  BY <1>1, <1>5, <2>1 DEF GoneIsNotBefore
<1>7. p = 1 => \E k \in 2 .. Len(queue) : list.prev[queue[p]] = queue[k]
  <2> SUFFICES ASSUME p = 1 PROVE \E k \in 2 .. Len(queue) : list.prev[queue[p]] = queue[k]
      OBVIOUS
  <2>1. gone[queue[p]] \in Live
      BY <1>4, <1>5 DEF Harmless
  <2>2. PICK k \in 1 .. Len(queue) : gone[queue[p]] = queue[k]
      BY <1>2, <2>1
  <2>3. k # 1
      BY <1>1, <2>2 DEF GoneIsNotBefore
  <2> QED  BY <1>2, <1>5, <2>2, <2>3
<1>8. PICK i \in 1 .. Len(queue') :
          list'.next[queue'[i]] # IF i = Len(queue') THEN NULL ELSE queue'[i + 1]
    BY <1>1, <1>4, <1>6, <1>7, RemoveSpoils
<1>9. /\ queue' \in Seq(Task) /\ Len(queue') = Len(queue) - 1
      /\ \A j \in 1 .. Len(queue') : queue'[j] = IF j < p THEN queue[j] ELSE queue[j + 1]
    BY <1>1, <1>4, RemoveAtFields
<1>10. \A j, k \in 1 .. Len(queue') : queue'[j] = queue'[k] => j = k
  <2> SUFFICES ASSUME NEW j \in 1 .. Len(queue'), NEW k \in 1 .. Len(queue'), queue'[j] = queue'[k]
               PROVE  j = k
      OBVIOUS
  <2>1. j \in 1 .. Len(queue) /\ j + 1 \in 1 .. Len(queue) /\ k \in 1 .. Len(queue) /\ k + 1 \in 1 .. Len(queue)
      BY <1>2, <1>9
  <2> QED  BY <1>2, <1>3, <1>9, <2>1
<1>11. DOMAIN queue' = 1 .. Len(queue')
    BY <1>9, LenProperties
<1>12. Position(queue[i])' = i
    BY <1>9, <1>10, IndexOf DEF Position
<1>13. Successor(queue[i])' = IF i = Len(queue') THEN NULL ELSE queue'[i + 1]
    BY <1>12 DEF Successor
<1>14. queue'[i] \in Live'
    BY <1>11 DEF Live, ToSet
<1> QED  BY <1>8, <1>13, <1>14 DEF Ordered

-----------------------------------------------------------------------------
LEMMA NextKeepsInv ==
    ASSUME Inv, task_next
    PROVE  Inv' /\ queue' = queue
<1>1. list \in TaskListType /\ queue \in Seq(Task) /\ list.current \in Task
    BY DEF Inv, TypeOK, task_next, TaskListType, Link
<1>2. /\ list' = SetCurrent(list, task_get_next(list))
      /\ queue' = queue /\ gone' = gone /\ sound' = sound
    BY DEF task_next
<1>3. task_get_next(list) \in Link
    BY <1>1 DEF task_get_next, TaskListType
<1>4. /\ list' \in TaskListType
      /\ list'.current = task_get_next(list)
      /\ list'.head = list.head /\ list'.tail = list.tail
      /\ list'.next = list.next /\ list'.prev = list.prev
    BY <1>1, <1>2, <1>3, SetCurrentFields
<1>5. TypeOK'
    BY <1>2, <1>4 DEF Inv, TypeOK
<1>6. ASSUME sound
      PROVE  /\ Linked(list, queue)'
             /\ PrevLinks(list, queue, gone)'
             /\ GoneIsNotBefore(queue, gone)'
             /\ IF queue' = <<>> THEN list'.current = NULL ELSE list'.current \in Live'
  <2>1. Linked(list, queue) /\ PrevLinks(list, queue, gone) /\ GoneIsNotBefore(queue, gone)
      BY <1>6 DEF Inv
  <2>2. Linked(list, queue)'
      BY <1>2, <1>4, <2>1 DEF Linked
  <2>3. PrevLinks(list, queue, gone)' /\ GoneIsNotBefore(queue, gone)'
      BY <1>2, <1>4, <2>1 DEF PrevLinks, GoneIsNotBefore
  <2>4. /\ Live = {queue[i] : i \in 1 .. Len(queue)} /\ Len(queue) \in Nat
        /\ queue = <<>> <=> Len(queue) = 0
        /\ \A i \in 1 .. Len(queue) : queue[i] \in Task
      BY <1>1, QueueFacts
  <2>5. queue # <<>> /\ list.current \in Live
      BY <1>1, <1>6, TaskAssumption DEF Inv, CurrentExists
  <2>6. PICK k \in 1 .. Len(queue) : list.current = queue[k]
      BY <2>4, <2>5
  <2>7. /\ list.head = queue[1]
        /\ list.next[queue[k]] = IF k = Len(queue) THEN NULL ELSE queue[k + 1]
      BY <2>1, <2>5 DEF Linked
  <2>8. task_get_next(list) \in Live
    <3>1. CASE k = Len(queue)
        BY <2>4, <2>6, <2>7, <3>1 DEF task_get_next
    <3>2. CASE k # Len(queue)
      <4>1. k + 1 \in 1 .. Len(queue)
          BY <2>4, <3>2
      <4>2. queue[k + 1] # NULL
          BY <2>4, <4>1, TaskAssumption
      <4>3. task_get_next(list) = queue[k + 1]
          BY <2>6, <2>7, <3>2, <4>2 DEF task_get_next
      <4> QED  BY <2>4, <4>1, <4>3
    <3> QED  BY <3>1, <3>2
  <2>9. Live' = Live
      BY <1>2 DEF Live
  <2> QED  BY <1>2, <1>4, <2>2, <2>3, <2>5, <2>8, <2>9
<1> QED  BY <1>2, <1>5, <1>6 DEF Inv, CurrentExists

LEMMA InvStep == Inv /\ [Next]_vars => Inv'
<1> SUFFICES ASSUME Inv, [Next]_vars PROVE Inv'
    OBVIOUS
<1>1. CASE \E t \in Task : New(t)
    BY <1>1, NewKeepsInv
<1>2. CASE \E t \in Live : task_free(t)
    BY <1>2, FreeKeepsInv
<1>3. CASE task_next
    BY <1>3, NextKeepsInv
<1>4. CASE UNCHANGED vars
    BY <1>4 DEF vars, Inv, TypeOK, Linked, PrevLinks, GoneIsNotBefore, CurrentExists, Live
<1> QED  BY <1>1, <1>2, <1>3, <1>4 DEF Next

LEMMA InvHolds == Spec => []Inv
  BY InvInit, InvStep, PTL DEF Spec

-----------------------------------------------------------------------------
\* The links are tasks or NULL, whatever is created, freed and scheduled, and where
\* task_head (task.c:11-14) is a task so is task_tail, until a free spoils the list.
THEOREM TypeCorrect == Spec => []TypeOK
<1>1. Inv => TypeOK
    BY DEF Inv
<1> QED  BY <1>1, InvHolds, PTL

\* task.c:25-94.  Following next from task_head visits exactly the existing tasks
\* in the order of their creation, for every number of tasks and every sequence of
\* task_new, task_free and task_next, until a free goes wrong by a prev link that
\* task_list_remove left behind.
THEOREM ListInOrder == Spec => []NextIsSuccessor
<1>1. Inv => NextIsSuccessor
    BY LinkedIsSuccessor DEF Inv, TypeOK, NextIsSuccessor
<1> QED  BY <1>1, InvHolds, PTL

\* task.c:73-94.  Until then current_task is never a task that has been freed.
THEOREM CurrentIsLive == Spec => []CurrentExists
<1>1. Inv => CurrentExists
    BY DEF Inv
<1> QED  BY <1>1, InvHolds, PTL

\* task.c:75-83.  A list in order stays in order by every call but one: the free of a
\* task whose predecessor was freed before it, unless it is the head and the memory of
\* that predecessor holds no task again.  That free always loses the order.
THEOREM OrderLost == Spec => OrderLostExactly
<1> DEFINE Lost == sound => (sound' <=> Ordered')
<1>1. Inv /\ Inv' /\ NextIsSuccessor' /\ [Next]_vars => [Lost]_vars
  <2> SUFFICES ASSUME Inv, Inv', NextIsSuccessor', Next, sound PROVE sound' <=> Ordered'
      OBVIOUS
  <2>1. sound' => Ordered'
      BY DEF NextIsSuccessor
  <2>2. sound' \in BOOLEAN
      BY DEF Inv, TypeOK
  <2>3. CASE \E t \in Task : New(t)
      BY <2>1, <2>3 DEF New
  <2>4. ASSUME NEW t \in Live, task_free(t)
        PROVE  Ordered' => sound'
      BY <2>4, FreeSpoils DEF task_free
  <2>5. CASE task_next
      BY <2>1, <2>5 DEF task_next
  <2> QED  BY <2>1, <2>3, <2>4, <2>5 DEF Next
<1>2. Spec => [][Lost]_vars
    BY <1>1, InvHolds, ListInOrder, PTL DEF Spec
<1> QED  BY <1>2 DEF OrderLostExactly

\* task.c:90.  While the list is in order the turn of a freed current task goes to the
\* task behind it, from the last one to the first.
THEOREM TurnPassedOn == Spec => FreePassesTheTurn
<1> DEFINE Passed ==
        \A t \in Live : sound /\ t \notin ToSet(queue') /\ list.current = t /\ Len(queue) > 1 =>
            list'.current = IF Successor(t) = NULL THEN queue[1] ELSE Successor(t)
<1>1. Inv /\ [Next]_vars => [Passed]_vars
  <2> SUFFICES ASSUME Inv, [Next]_vars, NEW t \in Live, sound,
                      t \notin ToSet(queue'), list.current = t, Len(queue) > 1
               PROVE  list'.current = IF Successor(t) = NULL THEN queue[1] ELSE Successor(t)
      OBVIOUS
  <2>1. queue \in Seq(Task)
      BY DEF Inv, TypeOK
  <2>2. ASSUME NEW u \in Task, New(u)
        PROVE  FALSE
    <3>1. PICK i \in 1 .. Len(queue) : t = queue[i]
        BY <2>1, QueueFacts
    <3>2. queue' = Append(queue, u)
        BY <2>2 DEF New
    <3>3. queue' \in Seq(Task) /\ Len(queue') = Len(queue) + 1 /\ queue'[i] = queue[i]
        BY <2>1, <3>2, AppendProperties
    <3>4. i \in DOMAIN queue'
        BY <2>1, <3>3, LenProperties
    <3> QED  BY <3>1, <3>3, <3>4 DEF ToSet
  <2>3. ASSUME NEW u \in Live, task_free(u)
        PROVE  u = t
    <3>1. PICK i \in 1 .. Len(queue) : t = queue[i]
        BY <2>1, QueueFacts
    <3>2. PICK p \in 1 .. Len(queue) : u = queue[p] /\ queue' = RemoveAt(queue, p)
        BY <2>3, FreeAt
    <3>3. /\ queue' \in Seq(Task) /\ Len(queue') = Len(queue) - 1 /\ Len(queue) \in Nat
          /\ \A j \in 1 .. Len(queue') : queue'[j] = IF j < p THEN queue[j] ELSE queue[j + 1]
        BY <2>1, <3>2, RemoveAtFields, LenProperties
    <3>4. ToSet(queue') = {queue'[j] : j \in 1 .. Len(queue')}
        BY <3>3, LenProperties DEF ToSet
    <3>5. CASE i < p
        BY <3>1, <3>3, <3>4, <3>5
    <3>6. CASE i > p
      <4>1. i - 1 \in 1 .. Len(queue') /\ queue'[i - 1] = queue[i]
          BY <3>3, <3>6
      <4> QED  BY <3>1, <3>4, <4>1
    <3>7. CASE i = p
        BY <3>1, <3>2, <3>7
    <3> QED  BY <3>3, <3>5, <3>6, <3>7
  <2>4. ASSUME queue' = queue
        PROVE  FALSE
      BY <2>4 DEF Live
  <2>5. CASE \E u \in Live : task_free(u)
      BY <2>3, <2>5, FreePasses
  <2>6. CASE task_next
      BY <2>4, <2>6 DEF task_next
  <2>7. CASE UNCHANGED vars
      BY <2>4, <2>7 DEF vars
  <2> QED  BY <2>2, <2>5, <2>6, <2>7 DEF Next
<1>2. Spec => [][Passed]_vars
    BY <1>1, InvHolds, PTL DEF Spec
<1> QED  BY <1>2 DEF FreePassesTheTurn
=============================================================================
