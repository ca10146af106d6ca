------------------------ MODULE CriticalSection_proofs ------------------------
(***************************************************************************)
(* Theorems about CriticalSection, for any tasks, any number of elements   *)
(* and any width of the counter.                                           *)
(***************************************************************************)
EXTENDS CriticalSection, FiniteSetTheorems, TLAPS

\* What TypeOK needs to be inductive: what is linked to is an element of the
\* pool, because used has no other, and so the list never leaves the pool.
THEOREM TypeCorrect == Spec => []TypeOK
<1>1. Init => TypeOK
  <2> SUFFICES ASSUME Init PROVE TypeOK
    OBVIOUS
  <2>1. overlap \in BOOLEAN
    BY DEF Init
  <2> QED
    BY <2>1, PoolAssumption, LimitAssumption
    DEF Init, TypeOK, TaskStates, IrqStates, Elements, NULL
<1>2. TypeOK /\ [Next]_vars => TypeOK'
  <2> SUFFICES ASSUME TypeOK, [Next]_vars PROVE TypeOK'
    OBVIOUS
  <2> USE LimitAssumption DEF TypeOK, pool
  <2>0. \A n \in Nat : (n + 1) % Limit \in 0 .. Limit - 1
                       /\ (n + Limit - 1) % Limit \in 0 .. Limit - 1
    OBVIOUS
  <2>1. ASSUME NEW t \in Tasks, SwitchContext(t) PROVE TypeOK'
    BY <2>1 DEF SwitchContext
  <2>2. ASSUME NEW t \in Tasks, EnterLoad(t) PROVE TypeOK'
    BY <2>2 DEF EnterLoad, Step, Load, TaskStates
  <2>3. ASSUME NEW t \in Tasks, EnterStore(t) PROVE TypeOK'
    BY <2>3, <2>0 DEF EnterStore, Store, Step, TaskStates
  <2>4. ASSUME NEW t \in Tasks, OtherSection(t) PROVE TypeOK'
    BY <2>4 DEF OtherSection, Step, TaskStates
  <2>5. ASSUME NEW t \in Tasks, NEW e \in used, LinkFreed(t, e) PROVE TypeOK'
    BY <2>5 DEF LinkFreed, Step, TaskStates
  <2>6. ASSUME NEW t \in Tasks, PublishFreed(t) PROVE TypeOK'
    BY <2>6 DEF PublishFreed, Step, TaskStates
  <2>7. ASSUME NEW t \in Tasks, ExitLoad(t) PROVE TypeOK'
    BY <2>7 DEF ExitLoad, Step, Load, TaskStates
  <2>8. ASSUME NEW t \in Tasks, ExitStore(t) PROVE TypeOK'
    BY <2>8, <2>0 DEF ExitStore, Store, Step, TaskStates
  <2>9. CASE IrqEnter
    BY <2>9, <2>0 DEF IrqEnter, IrqStates
  <2>10. CASE IrqAlloc
    BY <2>10 DEF IrqAlloc, IrqStates, Elements, NULL
  <2>11. CASE IrqLeave
    BY <2>11, <2>0 DEF IrqLeave, IrqStates
  <2>12. CASE UNCHANGED vars
    BY <2>12 DEF vars
  <2> QED
    BY <2>1, <2>2, <2>3, <2>4, <2>5, <2>6, <2>7, <2>8, <2>9, <2>10, <2>11, <2>12
    DEF Next, TaskStep
<1> QED
  BY <1>1, <1>2, PTL DEF Spec

\* The handler's section, when it has one open.
HandlerOpen == IF irq = "idle" THEN 0 ELSE 1

\* What a task between the load and the store has in its register.
RegistersCount == \A t \in Changing : reg[t] = Cardinality(Inside)

\* The count is inductive together with the registers: the handler leaves the
\* counter as it was, so that a register stays right until another task stores.
Counts == ~overlap => nesting = Cardinality(Inside) + HandlerOpen /\ RegistersCount

\* The open sections of the tasks and of the handler fit the counter.
LEMMA InsideFits ==
    /\ IsFiniteSet(Inside)
    /\ Cardinality(Inside) \in Nat
    /\ Cardinality(Inside) + 1 < Limit
<1>1. IsFiniteSet(Tasks) /\ Inside \subseteq Tasks
  BY TasksAssumption DEF Inside
<1>2. IsFiniteSet(Inside) /\ Cardinality(Inside) <= Cardinality(Tasks)
  BY <1>1, FS_Subset
<1>3. Cardinality(Inside) \in Nat /\ Cardinality(Tasks) \in Nat
  BY <1>1, <1>2, FS_CardinalityType
<1> QED
  BY <1>2, <1>3, TasksAssumption, LimitAssumption

\* A counter that does not leave its range is not wrapped.
LEMMA NotWrapped ==
    ASSUME NEW n \in Nat, n < Limit
    PROVE  n % Limit = n /\ (n + Limit) % Limit = n
  BY LimitAssumption

\* The steps that neither change the counter nor who is inside keep the count.
LEMMA CountKept ==
    ASSUME TypeOK, Counts, UNCHANGED <<nesting, irq, overlap>>, Inside' = Inside,
           \A t \in Changing' : t \in Changing /\ reg'[t] = reg[t]
    PROVE  Counts'
  BY DEF Counts, HandlerOpen, RegistersCount

\* A load puts the counter in the register: the handler is not running.
LEMMA LoadStep ==
    ASSUME TypeOK, Counts, NEW t \in Tasks, EnterLoad(t) \/ ExitLoad(t)
    PROVE  Counts'
<1>1. /\ UNCHANGED <<nesting, irq, overlap>> /\ irq = "idle"
      /\ reg' = [reg EXCEPT ![t] = nesting]
      /\ \/ pc[t] = "outside" /\ pc' = [pc EXCEPT ![t] = "enter"]
         \/ pc[t] = "leave" /\ pc' = [pc EXCEPT ![t] = "exit"]
  BY DEF EnterLoad, ExitLoad, Step, Load
<1>2. Inside' = Inside
  BY <1>1 DEF Inside, TypeOK
<1>3. \A u \in Changing' : u = t \/ u \in Changing
  BY <1>1 DEF Changing, TypeOK
<1>4. \A u \in Changing' : reg'[u] = IF u = t THEN nesting ELSE reg[u]
  BY <1>1 DEF Changing, TypeOK
<1>5. ASSUME ~overlap PROVE nesting = Cardinality(Inside)
  BY <1>1, <1>5, InsideFits DEF Counts, HandlerOpen
<1> QED
  BY <1>1, <1>2, <1>3, <1>4, <1>5 DEF Counts, HandlerOpen, RegistersCount

\* A store that overlaps no other opens or closes one section.
LEMMA StoreStep ==
    ASSUME TypeOK, Counts, NEW t \in Tasks, EnterStore(t) \/ ExitStore(t)
    PROVE  Counts'
<1> SUFFICES ASSUME ~overlap'
             PROVE  nesting' = Cardinality(Inside') + HandlerOpen' /\ RegistersCount'
  BY DEF Counts
<1>1. ~overlap /\ Changing = {t} /\ irq = "idle" /\ irq' = irq
  BY DEF EnterStore, ExitStore, Store, Step, TypeOK
<1>2. reg[t] = Cardinality(Inside) /\ HandlerOpen' = 0
  BY <1>1 DEF Counts, RegistersCount, HandlerOpen
<1>3. CASE EnterStore(t)
  <2>1. pc[t] = "enter" /\ pc' = [pc EXCEPT ![t] = "inside"]
        /\ nesting' = (reg[t] + 1) % Limit
    BY <1>3 DEF EnterStore, Store, Step
  <2>2. Inside' = Inside \union {t} /\ t \notin Inside
    BY <2>1 DEF Inside, TypeOK
  <2>3. Cardinality(Inside') = Cardinality(Inside) + 1
    BY <2>2, InsideFits, FS_AddElement
  <2>4. nesting' = Cardinality(Inside) + 1
    BY <1>2, <2>1, InsideFits, NotWrapped
  <2>5. Changing' = {}
    BY <1>1, <2>1 DEF Changing, TypeOK
  <2> QED
    BY <1>2, <2>3, <2>4, <2>5, InsideFits DEF RegistersCount
<1>4. CASE ExitStore(t)
  <2>1. pc[t] = "exit" /\ pc' = [pc EXCEPT ![t] = "outside"]
        /\ nesting' = (reg[t] + Limit - 1) % Limit
    BY <1>4 DEF ExitStore, Store, Step
  <2>2. Inside' = Inside \ {t} /\ t \in Inside
    BY <2>1 DEF Inside, TypeOK
  <2>3. Cardinality(Inside') = Cardinality(Inside) - 1
    BY <2>2, InsideFits, FS_RemoveElement
  <2>4. Cardinality(Inside) # 0
    BY <2>2, InsideFits, FS_EmptySet
  <2>5. Cardinality(Inside) - 1 \in Nat /\ Cardinality(Inside) - 1 < Limit
    BY <2>4, InsideFits, LimitAssumption
  <2>6. ((Cardinality(Inside) - 1) + Limit) % Limit = Cardinality(Inside) - 1
    BY <2>5, NotWrapped
  <2>7. nesting' = Cardinality(Inside) - 1
    BY <1>2, <2>1, <2>6, InsideFits, LimitAssumption
  <2>8. Changing' = {}
    BY <1>1, <2>1 DEF Changing, TypeOK
  <2> QED
    BY <1>2, <2>3, <2>5, <2>7, <2>8 DEF RegistersCount
<1> QED
  BY <1>3, <1>4

\* The handler opens its section and closes it, and no register is disturbed.
LEMMA HandlerStep ==
    ASSUME TypeOK, Counts, IrqEnter \/ IrqLeave
    PROVE  Counts'
<1> SUFFICES ASSUME ~overlap'
             PROVE  nesting' = Cardinality(Inside') + HandlerOpen' /\ RegistersCount'
  BY DEF Counts
<1>1. UNCHANGED <<pc, reg, overlap>>
  BY DEF IrqEnter, IrqLeave
<1>2. Inside' = Inside /\ Changing' = Changing
  BY <1>1 DEF Inside, Changing
<1>3. RegistersCount' /\ nesting = Cardinality(Inside) + HandlerOpen
  BY <1>1, <1>2 DEF Counts, RegistersCount
<1>4. CASE IrqEnter
  <2>1. HandlerOpen = 0 /\ HandlerOpen' = 1 /\ nesting' = (nesting + 1) % Limit
    BY <1>4 DEF IrqEnter, HandlerOpen
  <2> QED
    BY <1>2, <1>3, <2>1, InsideFits, NotWrapped
<1>5. CASE IrqLeave
  <2>1. HandlerOpen = 1 /\ HandlerOpen' = 0
        /\ nesting' = (nesting + Limit - 1) % Limit
    BY <1>5 DEF IrqLeave, HandlerOpen
  <2>2. nesting + Limit - 1 = Cardinality(Inside) + Limit
    BY <1>3, <2>1, InsideFits, LimitAssumption
  <2>3. (Cardinality(Inside) + Limit) % Limit = Cardinality(Inside)
    BY InsideFits, NotWrapped, LimitAssumption
  <2> QED
    BY <1>2, <1>3, <2>1, <2>2, <2>3, InsideFits
<1> QED
  BY <1>4, <1>5

\* For every set of tasks, and whenever the tick and the handler come,
\* uxCriticalNesting is the number of open sections unless two tasks' changes of
\* it have overlapped.
THEOREM CountCorrect == Spec => []CountsUnlessOverlap
<1>1. Init => Counts
  <2> SUFFICES ASSUME Init PROVE Counts
    OBVIOUS
  <2>1. Inside = {} /\ Changing = {}
    BY DEF Init, Inside, Changing
  <2>2. nesting = 0 /\ HandlerOpen = 0
    BY DEF Init, HandlerOpen
  <2> QED
    BY <2>1, <2>2, FS_EmptySet DEF Counts, RegistersCount
<1>2. TypeOK /\ Counts /\ [Next]_vars => Counts'
  <2> SUFFICES ASSUME TypeOK, Counts, [Next]_vars PROVE Counts'
    OBVIOUS
  <2>1. ASSUME UNCHANGED <<nesting, irq, overlap, reg, pc>> PROVE Counts'
    BY <2>1, CountKept DEF Inside, Changing
  <2>2. ASSUME NEW t \in Tasks, NEW to \in {"publish", "leave"},
               pc[t] \in {"inside", "publish"}, pc' = [pc EXCEPT ![t] = to],
               UNCHANGED <<nesting, irq, overlap, reg>>
        PROVE  Counts'
    <3>1. Inside' = Inside /\ Changing' = Changing
      BY <2>2 DEF Inside, Changing, TypeOK
    <3> QED
      BY <2>2, <3>1, CountKept
  <2>3. ASSUME NEW t \in Tasks, SwitchContext(t) PROVE Counts'
    BY <2>1, <2>3 DEF SwitchContext
  <2>4. ASSUME NEW t \in Tasks, OtherSection(t) PROVE Counts'
    BY <2>2, <2>4 DEF OtherSection, Step
  <2>5. ASSUME NEW t \in Tasks, NEW e \in used, LinkFreed(t, e) PROVE Counts'
    BY <2>2, <2>5 DEF LinkFreed, Step
  <2>6. ASSUME NEW t \in Tasks, PublishFreed(t) PROVE Counts'
    BY <2>2, <2>6 DEF PublishFreed, Step
  <2>7. CASE UNCHANGED vars
    BY <2>1, <2>7 DEF vars
  <2>8. CASE IrqAlloc
    <3>1. UNCHANGED <<nesting, overlap, reg, pc>> /\ HandlerOpen' = HandlerOpen
      BY <2>8 DEF IrqAlloc, HandlerOpen
    <3>2. Inside' = Inside /\ Changing' = Changing
      BY <3>1 DEF Inside, Changing
    <3> QED
      BY <3>1, <3>2 DEF Counts, RegistersCount
  <2> QED
    BY <2>3, <2>4, <2>5, <2>6, <2>7, <2>8, LoadStep, StoreStep, HandlerStep
    DEF Next, TaskStep
<1>3. Counts => CountsUnlessOverlap
  BY DEF Counts, CountsUnlessOverlap, HandlerOpen
<1> QED
  BY <1>1, <1>2, <1>3, TypeCorrect, PTL DEF Spec
=============================================================================
