----------------------------- MODULE ContextSwitch -----------------------------
(***************************************************************************)
(* portASM.S and SysTick_Handler of port.c: pxPortInitialiseStack makes a  *)
(* new task's frame, xPortStartFirstTask starts the first task, and        *)
(* SW_Handler, the handler of the pended software interrupt, saves the     *)
(* registers of one task on its stack and restores another's.              *)
(* SysTick_Handler, which has the same priority, swaps the stack pointer   *)
(* with mscratch to work on the interrupt stack.  ETH_IRQHandler has a     *)
(* higher priority and runs on whatever stack is in use.                   *)
(* The hardware of the core saves and restores the registers that a        *)
(* compiled handler may change, and mepc, in memory of its own; what a     *)
(* handler keeps on the stack is below the stack pointer it finds.         *)
(***************************************************************************)
EXTENDS Naturals, FiniteSets

CONSTANTS
    TCBs,            \* the tasks
    InterruptDepth,  \* the words of an interrupt handler on the stack
    Reserved         \* the 512 bytes below xISRStackTop

\* No task's stack is one of the two others.
ASSUME TCBsAssumption == TCBs \intersect {"main", "isr"} = {}
ASSUME DepthAssumption == InterruptDepth \in Nat /\ Reserved \in Nat

\* The registers that the code names, and "s" for all others; x1 is "ra".
Registers == {"ra", "t0", "t1", "s", "a0", "a1"}

\* The words of a frame from the stack pointer upwards, and its size.
Slot == [pc |-> 0, ra |-> 1, t0 |-> 2, t1 |-> 3, s |-> 4, a0 |-> 5, a1 |-> 6, status |-> 7]
portCONTEXT_SIZE == 8

Junk == <<"junk">>

\* The places in xPortStartFirstTask where interrupts are enabled.
LoadingT0 == <<"load t0">>
Returning == <<"ret">>

\* mstatus, with what the code uses of it: MIE and MPIE.
mstatus(mie, mpie) == <<"mstatus", mie, mpie>>
MPIE(status) == status[3]

VARIABLES
    cpu,        \* registers, sp, pc, mepc, and MIE and MPIE of mstatus
    mem,        \* the words on the stacks that may be read again
    topOfStack, \* the first member of each TCB
    pxCurrentTCB,
    mscratch,
    swPending,  \* the software interrupt is pended
    at,         \* which code runs: "main", "task" or a place in a handler
    hw,         \* the registers and pc that the hardware saved for SysTick_Handler
    work        \* work[t]: how task t has set its registers and stack; a history
                \* variable

switchVars == <<cpu, mem, topOfStack, pxCurrentTCB, mscratch, swPending, at, hw, work>>

\* A stack pointer is a stack and the number of words on it; <<s, n>> is also the
\* address of the n-th word.
xISRStackTop == <<"isr", 0>>
Below(sp, n) == <<sp[1], sp[2] + n>>
Above(sp, n) == <<sp[1], sp[2] - n>>
Frame(sp, slot) == Above(sp, Slot[slot])

NoRegisters == [r \in Registers |-> Junk]

\* A stack's words are what its task has stored, or what the kernel filled it with.
Word(a) == IF a \in DOMAIN mem THEN mem[a] ELSE Junk

\* mem with the word values[a] stored at each address a.
Stored(m, values) ==
    [a \in DOMAIN m \union DOMAIN values |-> IF a \in DOMAIN values THEN values[a] ELSE m[a]]

\* mem after a handler, or a function, that had its words below sp.
Scribbled(m, sp, depth) ==
    [a \in DOMAIN m |-> IF a \in {Below(sp, i) : i \in 1 .. depth} THEN Junk ELSE m[a]]

\* mem without the words below sp, which nobody reads any more.
Popped(m, sp) == [a \in {b \in DOMAIN m : b[1] # sp[1] \/ b[2] <= sp[2]} |-> m[a]]

Created == DOMAIN topOfStack

SwitchInit ==
    /\ cpu = [regs |-> NoRegisters, sp |-> <<"main", 0>>, pc |-> Junk, mepc |-> Junk,
              mie |-> FALSE, mpie |-> FALSE]
    /\ mem = [a \in {} |-> Junk]
    /\ topOfStack = [t \in {} |-> <<t, 0>>]
    /\ pxCurrentTCB \in TCBs
    /\ mscratch = <<"main", 0>>
    /\ swPending \in BOOLEAN
    /\ at = "main"
    /\ hw = [regs |-> NoRegisters, pc |-> Junk]
    /\ work = [t \in TCBs |-> [n |-> 0, depth |-> 0]]

(***************************************************************************)
(* Tasks.                                                                  *)
(***************************************************************************)

\* What register r of task t holds in its n-th state.
Value(t, r, n) ==
    IF n > 0 THEN <<t, r, n>>
    ELSE CASE r = "pc" -> <<t, "code">> [] r = "a0" -> <<t, "parameters">> [] OTHER -> Junk

InTask == at = "task" /\ cpu.pc \notin {LoadingT0, Returning}

\* The mstatus of a new task: MIE is cleared and MPIE set, whatever the creator's.
InitialStatus == mstatus(FALSE, TRUE)

\* main, or a task, creates task t.
pxPortInitialiseStack(t) ==
    LET sp == <<t, portCONTEXT_SIZE>>
    IN  /\ at = "main" \/ InTask
        /\ t \notin Created
        /\ mem' = Stored(mem,
                    [a \in {Frame(sp, x) : x \in {"pc", "ra", "a0", "status"}} |->
                       CASE a = Frame(sp, "pc") -> Value(t, "pc", 0)
                         [] a = Frame(sp, "a0") -> Value(t, "a0", 0)
                         [] a = Frame(sp, "ra") -> Junk
                         [] a = Frame(sp, "status") -> InitialStatus])
        /\ topOfStack' = [u \in Created \union {t} |-> IF u = t THEN sp ELSE topOfStack[u]]
        /\ UNCHANGED <<cpu, pxCurrentTCB, mscratch, swPending, at, hw, work>>

\* The running task computes: it changes all its registers, and has one word on
\* its stack or none.
TaskRuns ==
    \E depth \in {0, 1} :
        LET t == pxCurrentTCB
            n == IF work[t].n = 1 THEN 2 ELSE 1
            word == IF depth = 0 THEN {} ELSE {<<t, 1>>}
        IN  /\ InTask
            /\ work' = [work EXCEPT ![t] = [n |-> n, depth |-> depth]]
            /\ cpu' = [cpu EXCEPT !.regs = [r \in Registers |-> Value(t, r, n)],
                                  !.pc = Value(t, "pc", n), !.sp = <<t, depth>>]
            /\ mem' = Stored(Popped(mem, <<t, 0>>), [a \in word |-> Value(t, "word", n)])
            /\ UNCHANGED <<topOfStack, pxCurrentTCB, mscratch, swPending, at, hw>>

portYIELD ==
    /\ InTask
    /\ swPending' = TRUE
    /\ UNCHANGED <<cpu, mem, topOfStack, pxCurrentTCB, mscratch, at, hw, work>>

(***************************************************************************)
(* xPortStartFirstTask.                                                    *)
(***************************************************************************)

\* Up to the write to mstatus, which enables the interrupts; t0 holds mstatus, and
\* the task's pc is in ra.
StartFirstTask ==
    LET sp == topOfStack[pxCurrentTCB]
        status == Word(Frame(sp, "status"))
    IN  /\ at = "main"
        /\ pxCurrentTCB \in Created
        /\ mscratch' = Below(xISRStackTop, Reserved)
        /\ cpu' = [cpu EXCEPT
             !.sp = sp, !.pc = LoadingT0, !.mie = TRUE, !.mpie = MPIE(status),
             !.regs = [r \in Registers |->
                         CASE r = "ra" -> Word(Frame(sp, "pc"))
                           [] r = "t0" -> status
                           [] OTHER -> Word(Frame(sp, r))]]
        /\ at' = "task"
        /\ UNCHANGED <<mem, topOfStack, pxCurrentTCB, swPending, hw, work>>

\* Interrupts are enabled from here, and one may be pending.
LoadT0 ==
    /\ at = "task" /\ cpu.pc = LoadingT0
    /\ cpu' = [cpu EXCEPT !.regs.t0 = Word(Frame(cpu.sp, "t0")), !.pc = Returning]
    /\ UNCHANGED <<mem, topOfStack, pxCurrentTCB, mscratch, swPending, at, hw, work>>

ReturnToFirstTask ==
    /\ at = "task" /\ cpu.pc = Returning
    /\ cpu' = [cpu EXCEPT !.sp = Above(cpu.sp, portCONTEXT_SIZE), !.pc = cpu.regs.ra]
    /\ mem' = Popped(mem, cpu'.sp)
    /\ UNCHANGED <<topOfStack, pxCurrentTCB, mscratch, swPending, at, hw, work>>

(***************************************************************************)
(* SW_Handler.                                                             *)
(***************************************************************************)
SwEnter ==
    /\ at = "task" /\ cpu.mie /\ swPending
    /\ swPending' = FALSE
    /\ cpu' = [cpu EXCEPT !.mepc = cpu.pc, !.mie = FALSE, !.mpie = cpu.mie]
    /\ at' = "SW_Handler"
    /\ UNCHANGED <<mem, topOfStack, pxCurrentTCB, mscratch, hw, work>>

\* Mutant: no room is made for the registers.
SpNotMoved ==
    /\ at = "SW_Handler"
    /\ at' = "store"
    /\ UNCHANGED <<cpu, mem, topOfStack, pxCurrentTCB, mscratch, swPending, hw, work>>

MoveSp ==
    /\ at = "SW_Handler"
    /\ cpu' = [cpu EXCEPT !.sp = Below(cpu.sp, portCONTEXT_SIZE)]
    /\ at' = "store"
    /\ UNCHANGED <<mem, topOfStack, pxCurrentTCB, mscratch, swPending, hw, work>>

\* t0 is used for mstatus when it has been stored.
StoreRegisters ==
    LET status == mstatus(cpu.mie, cpu.mpie)
    IN  /\ at = "store"
        /\ mem' = Stored(mem, [a \in {Frame(cpu.sp, x) : x \in Registers \union {"status"}} |->
                    IF a = Frame(cpu.sp, "status") THEN status
                    ELSE cpu.regs[CHOOSE r \in Registers : a = Frame(cpu.sp, r)]])
        /\ cpu' = [cpu EXCEPT !.regs.t0 = status]
        /\ at' = "mepc"
        /\ UNCHANGED <<topOfStack, pxCurrentTCB, mscratch, swPending, hw, work>>

\* Bit 5 of 0x804, which is set last, keeps interrupts off until mret.
StoreMepc ==
    /\ at = "mepc"
    /\ topOfStack' = [topOfStack EXCEPT ![pxCurrentTCB] = cpu.sp]
    /\ mem' = Stored(mem, [a \in {Frame(cpu.sp, "pc")} |-> cpu.mepc])
    /\ cpu' = [cpu EXCEPT !.regs.a1 = Junk]
    /\ at' = "vTaskSwitchContext"
    /\ UNCHANGED <<pxCurrentTCB, mscratch, swPending, hw, work>>

\* The kernel chooses a task, on the interrupt stack.
vTaskSwitchContext ==
    /\ at = "vTaskSwitchContext"
    /\ \E t \in Created : pxCurrentTCB' = t
    /\ cpu' = [cpu EXCEPT !.sp = xISRStackTop, !.regs = NoRegisters]
    /\ mem' = Scribbled(mem, xISRStackTop, InterruptDepth)
    /\ at' = "processed_source"
    /\ UNCHANGED <<topOfStack, mscratch, swPending, hw, work>>

\* From the frame of the new task, up to mret.
Restore ==
    LET sp == topOfStack[pxCurrentTCB]
        status == Word(Frame(sp, "status"))
    IN  /\ at = "processed_source"
        /\ cpu' = [regs |-> [r \in Registers |-> Word(Frame(sp, r))],
                   sp |-> Above(sp, portCONTEXT_SIZE),
                   pc |-> Word(Frame(sp, "pc")), mepc |-> Word(Frame(sp, "pc")),
                   mie |-> MPIE(status), mpie |-> TRUE]
        /\ mem' = Popped(mem, cpu'.sp)
        /\ at' = "task"
        /\ UNCHANGED <<topOfStack, pxCurrentTCB, mscratch, swPending, hw, work>>

SW_Handler ==
    SwEnter \/ MoveSp \/ StoreRegisters \/ StoreMepc \/ vTaskSwitchContext \/ Restore

(***************************************************************************)
(* SysTick_Handler and ETH_IRQHandler.                                     *)
(***************************************************************************)

\* The compiler stores a register on the task's stack before GET_INT_SP.
SysTickEnter ==
    LET sp == Below(cpu.sp, 1)
    IN  /\ at = "task" /\ cpu.mie
        /\ hw' = [regs |-> cpu.regs, pc |-> cpu.pc]
        /\ mem' = Stored(mem, [a \in {sp} |-> cpu.regs.s])
        /\ cpu' = [cpu EXCEPT !.sp = mscratch]
        /\ mscratch' = sp
        /\ at' = "SysTick_Handler"
        /\ UNCHANGED <<topOfStack, pxCurrentTCB, swPending, work>>

\* xTaskIncrementTick, and a yield when a task of higher priority is ready.
IncrementTick ==
    /\ at = "SysTick_Handler"
    /\ cpu' = [cpu EXCEPT !.regs = NoRegisters]
    /\ mem' = Scribbled(mem, cpu.sp, InterruptDepth)
    /\ swPending' \in {swPending, TRUE}
    /\ at' = "FREE_INT_SP"
    /\ UNCHANGED <<topOfStack, pxCurrentTCB, mscratch, hw, work>>

\* Mutant: the stack pointer is loaded from mscratch, not swapped.
SysTickLeaveNotSwapped ==
    /\ at = "FREE_INT_SP"
    /\ cpu' = [cpu EXCEPT !.sp = Above(mscratch, 1), !.pc = hw.pc,
                          !.regs = [hw.regs EXCEPT !.s = Word(mscratch)]]
    /\ mem' = Popped(mem, cpu'.sp)
    /\ at' = "task"
    /\ UNCHANGED <<topOfStack, pxCurrentTCB, mscratch, swPending, hw, work>>

SysTickLeave ==
    /\ at = "FREE_INT_SP"
    /\ cpu' = [cpu EXCEPT !.sp = Above(mscratch, 1), !.pc = hw.pc,
                          !.regs = [hw.regs EXCEPT !.s = Word(mscratch)]]
    /\ mscratch' = cpu.sp
    /\ mem' = Popped(mem, cpu'.sp)
    /\ at' = "task"
    /\ UNCHANGED <<topOfStack, pxCurrentTCB, swPending, hw, work>>

\* The whole handler: nothing interrupts it.
EthIrq ==
    /\ \/ at = "task" /\ cpu.mie
       \/ at \in {"SysTick_Handler", "FREE_INT_SP", "SW_Handler", "store", "mepc"}
    /\ mem' = Scribbled(mem, cpu.sp, InterruptDepth)
    /\ swPending' \in {swPending, TRUE}
    /\ UNCHANGED <<cpu, topOfStack, pxCurrentTCB, mscratch, at, hw, work>>

SwitchNext ==
    \/ \E t \in TCBs : pxPortInitialiseStack(t)
    \/ TaskRuns \/ portYIELD
    \/ StartFirstTask \/ LoadT0 \/ ReturnToFirstTask
    \/ SW_Handler
    \/ SysTickEnter \/ IncrementTick \/ SysTickLeave
    \/ EthIrq

SwitchSpec == SwitchInit /\ [][SwitchNext]_switchVars

(***************************************************************************)
(* Safety.                                                                 *)
(***************************************************************************)

\* A task that runs has the registers, the pc, the stack pointer and the word on
\* its stack that it left, and a new one its code and its parameters, wherever it
\* was interrupted and whatever ran on the way; and interrupts are on.
ResumedIntact ==
    InTask =>
        LET t == pxCurrentTCB
            w == work[t]
        IN  /\ cpu.mie
            /\ cpu.pc = Value(t, "pc", w.n)
            /\ cpu.sp = <<t, w.depth>>
            /\ cpu.regs.a0 = Value(t, "a0", w.n)
            /\ w.n > 0 => \A r \in Registers : cpu.regs[r] = Value(t, r, w.n)
            /\ w.depth = 1 => Word(<<t, 1>>) = Value(t, "word", w.n)

\* Outside SysTick_Handler mscratch has the top of the part of the interrupt stack
\* that the handler works on, and inside it the stack of the task it interrupted:
\* the words of vTaskSwitchContext and those of the handler stay apart.
InterruptStackFree ==
    at # "main" =>
        LET isr == Below(xISRStackTop, Reserved)
        IN  IF at \in {"SysTick_Handler", "FREE_INT_SP"}
            THEN cpu.sp = isr /\ mscratch[1] = pxCurrentTCB
            ELSE mscratch = isr
=============================================================================
