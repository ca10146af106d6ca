--------------------------- MODULE CriticalSection ---------------------------
(***************************************************************************)
(* The critical sections of the FreeRTOS port: vPortEnterCritical,         *)
(* vPortExitCritical and the counter uxCriticalNesting, with code they are *)
(* there for: the list of free elements of lwIP's pbuf pool, which         *)
(* memp_malloc and memp_free change inside a critical section              *)
(* (SYS_LIGHTWEIGHT_PROT, external).                                       *)
(*                                                                         *)
(* portDISABLE_INTERRUPTS and portENABLE_INTERRUPTS are a nop: inside a    *)
(* section ETH_IRQHandler can still run, and the tick can still switch     *)
(* tasks.  A step of a task is one access to memory.  ETH_IRQHandler runs  *)
(* above the tasks and the tick and nothing interrupts it.                 *)
(***************************************************************************)
EXTENDS Naturals, FiniteSets

CONSTANTS
    Tasks,     \* the tasks that open critical sections
    PoolSize,  \* PBUF_POOL_SIZE
    Limit      \* 2^w for a UBaseType_t of w bits

ASSUME TasksAssumption ==
    Tasks # {} /\ IsFiniteSet(Tasks) /\ Cardinality(Tasks) + 1 < Limit
ASSUME PoolAssumption == PoolSize \in Nat
ASSUME LimitAssumption == Limit \in Nat /\ Limit > 2

Elements == 1 .. PoolSize
NULL == 0

VARIABLES
    nesting,  \* uxCriticalNesting
    running,  \* the task that pxCurrentTCB points to
    pc,       \* pc[t]: where task t is
    reg,      \* reg[t]: the register in which t increments or decrements
    irq,      \* where ETH_IRQHandler is
    tab,      \* the first element of the free list
    next,     \* next[e]: the next pointer of element e
    used,     \* the elements that were given out and not taken back
    freed,    \* freed[t]: the elements t puts back, at most one
    overlap   \* history: a task stored the counter while another one was between
              \* its load and its store.  No action depends on it.

pool == <<tab, next, used, freed>>
vars == <<nesting, running, pc, reg, irq, tab, next, used, freed, overlap>>

TaskStates == {"outside", "enter", "inside", "publish", "leave", "exit"}
IrqStates == {"idle", "inside", "leave"}

\* The scheduler has started: no section is open and memp_init has put every
\* element in the list.
Init ==
    /\ nesting = 0
    /\ running \in Tasks
    /\ pc = [t \in Tasks |-> "outside"]
    /\ reg = [t \in Tasks |-> 0]
    /\ irq = "idle"
    /\ tab = PoolSize
    /\ next = [e \in Elements |-> e - 1]
    /\ used = {}
    /\ freed = [t \in Tasks |-> {}]
    /\ overlap = FALSE

\* The tick and SW_Handler switch tasks, whatever the running one is doing.
SwitchContext(t) ==
    /\ irq = "idle"
    /\ running' = t
    /\ UNCHANGED <<nesting, pc, reg, irq, pool, overlap>>

\* Task t runs, and goes from one place to the next.
Step(t, from, to) ==
    /\ irq = "idle"
    /\ running = t
    /\ pc[t] = from
    /\ pc' = [pc EXCEPT ![t] = to]
    /\ UNCHANGED <<running, irq>>

(***************************************************************************)
(* vPortEnterCritical and vPortExitCritical: uxCriticalNesting is loaded,  *)
(* changed in a register and stored.                                       *)
(***************************************************************************)
Load(t) == reg' = [reg EXCEPT ![t] = nesting]

\* The tasks between the load and the store.
Changing == {t \in Tasks : pc[t] \in {"enter", "exit"}}

Store(t, n) ==
    /\ nesting' = n % Limit
    /\ overlap' = (overlap \/ Changing # {t})

EnterLoad(t) ==
    /\ Step(t, "outside", "enter")
    /\ Load(t)
    /\ UNCHANGED <<nesting, pool, overlap>>

EnterStore(t) ==
    /\ Step(t, "enter", "inside")
    /\ Store(t, reg[t] + 1)
    /\ UNCHANGED <<reg, pool>>

ExitLoad(t) ==
    /\ Step(t, "leave", "exit")
    /\ Load(t)
    /\ UNCHANGED <<nesting, pool, overlap>>

\* When the counter is zero interrupts are enabled: a nop.
ExitStore(t) ==
    /\ Step(t, "exit", "outside")
    /\ Store(t, reg[t] + Limit - 1)
    /\ UNCHANGED <<reg, pool>>

(***************************************************************************)
(* What is done inside the section.                                        *)
(***************************************************************************)

\* A section of the kernel, which does not touch the pool.
OtherSection(t) ==
    /\ Step(t, "inside", "leave")
    /\ UNCHANGED <<nesting, reg, pool, overlap>>

\* memp_free: memp->next = *tab.
LinkFreed(t, e) ==
    /\ Step(t, "inside", "publish")
    /\ \A u \in Tasks : e \notin freed[u]
    /\ next' = [next EXCEPT ![e] = tab]
    /\ freed' = [freed EXCEPT ![t] = {e}]
    /\ UNCHANGED <<nesting, reg, tab, used, overlap>>

\* memp_free: *tab = memp.
PublishFreed(t) ==
    /\ Step(t, "publish", "leave")
    /\ \E e \in freed[t] :
          /\ tab' = e
          /\ used' = used \ {e}
    /\ freed' = [freed EXCEPT ![t] = {}]
    /\ UNCHANGED <<nesting, reg, next, overlap>>

(***************************************************************************)
(* ETH_IRQHandler: low_level_input allocates a pbuf.  When it is not       *)
(* wanted ethernetif_input frees it before the handler returns, which      *)
(* leaves the list as it was.                                              *)
(***************************************************************************)

\* Mutant: the section is entered and the counter is not.
IrqEnterUncounted ==
    /\ irq = "idle"
    /\ irq' = "inside"
    /\ UNCHANGED <<nesting, running, pc, reg, pool, overlap>>

IrqEnter ==
    /\ irq = "idle"
    /\ nesting' = (nesting + 1) % Limit
    /\ irq' = "inside"
    /\ UNCHANGED <<running, pc, reg, pool, overlap>>

\* Mutant: an empty list is not noticed.
IrqAllocUnchecked ==
    /\ irq = "inside"
    /\ tab' = IF tab = NULL THEN NULL ELSE next[tab]
    /\ used' = used \union {tab}
    /\ irq' = "leave"
    /\ UNCHANGED <<nesting, running, pc, reg, next, freed, overlap>>

\* memp_malloc takes the first element of the list, if there is one.
IrqAlloc ==
    /\ irq = "inside"
    /\ IF tab = NULL
       THEN UNCHANGED pool
       ELSE /\ tab' = next[tab]
            /\ used' = used \union {tab}
            /\ UNCHANGED <<next, freed>>
    /\ irq' = "leave"
    /\ UNCHANGED <<nesting, running, pc, reg, overlap>>

IrqLeave ==
    /\ irq = "leave"
    /\ nesting' = (nesting + Limit - 1) % Limit
    /\ irq' = "idle"
    /\ UNCHANGED <<running, pc, reg, pool, overlap>>

TaskStep(t) ==
    \/ EnterLoad(t) \/ EnterStore(t)
    \/ OtherSection(t) \/ (\E e \in used : LinkFreed(t, e)) \/ PublishFreed(t)
    \/ ExitLoad(t) \/ ExitStore(t)

Next ==
    \/ \E t \in Tasks : SwitchContext(t) \/ TaskStep(t)
    \/ IrqEnter \/ IrqAlloc \/ IrqLeave

Spec == Init /\ [][Next]_vars

(***************************************************************************)
(* Safety.                                                                 *)
(***************************************************************************)

\* Every variable has its type.
TypeOK ==
    /\ nesting \in 0 .. Limit - 1
    /\ running \in Tasks
    /\ pc \in [Tasks -> TaskStates]
    /\ reg \in [Tasks -> 0 .. Limit - 1]
    /\ irq \in IrqStates
    /\ tab \in Elements \union {NULL}
    /\ next \in [Elements -> Elements \union {NULL}]
    /\ used \subseteq Elements
    /\ freed \in [Tasks -> SUBSET Elements]
    /\ overlap \in BOOLEAN

\* The tasks that have opened a section and not closed it.
Inside == {t \in Tasks : pc[t] \in {"inside", "publish", "leave", "exit"}}

\* uxCriticalNesting counts the open sections of all tasks and of the handler,
\* although the handler and the tick come between its load and its store: the
\* handler leaves the counter as it found it, and a task that is switched away
\* there stores what is still right when it goes on.  Only when another task has
\* stored the counter in the meantime is the count lost.
CountsUnlessOverlap ==
    ~overlap =>
        nesting = Cardinality(Inside) + (IF irq = "idle" THEN 0 ELSE 1)

(***************************************************************************)
(* What a comment says and the code does not do.                           *)
(***************************************************************************)

\* lwipopts.h:7 "critical regions during buffer allocation, deallocation and
\* memory" are protected: an element that memp_malloc would give out is not in
\* use.
FreeIsNotUsed == tab \notin used
=============================================================================
