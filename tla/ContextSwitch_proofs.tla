------------------------- MODULE ContextSwitch_proofs -------------------------
(***************************************************************************)
(* The stack pointer and mscratch, for any set of tasks, any use of the    *)
(* stack by handlers and any reserve.                                      *)
(***************************************************************************)
EXTENDS ContextSwitch, TLAPS

InSysTick == at \in {"SysTick_Handler", "FREE_INT_SP"}
OnTaskStack == at \in {"task", "SW_Handler", "store", "mepc"}

\* What is needed of the types.
StackType ==
    /\ DOMAIN cpu = {"regs", "sp", "pc", "mepc", "mie", "mpie"}
    /\ at \in {"main", "vTaskSwitchContext", "processed_source"} \/ InSysTick \/ OnTaskStack

\* Each task's first TCB member points into its own stack, and so does the stack
\* pointer while the task runs and until vTaskSwitchContext is called: that is what
\* SysTick_Handler saves in mscratch, and what it gets back from there.
OwnStack ==
    /\ \A t \in Created : topOfStack[t][1] = t
    /\ at # "main" => pxCurrentTCB \in Created
    /\ OnTaskStack => cpu.sp[1] = pxCurrentTCB

IInv == StackType /\ OwnStack /\ InterruptStackFree

\* An address above or below a stack pointer is in the same stack.
LEMMA StackOf ==
  ASSUME NEW sp, NEW n
  PROVE  Above(sp, n)[1] = sp[1] /\ Below(sp, n)[1] = sp[1]
BY DEF Above, Below

\* An interrupt comes when the stack is that of the running task, and mscratch that
\* of the interrupt.
LEMMA SysTickKeeps ==
  ASSUME IInv, SysTickEnter \/ IncrementTick \/ SysTickLeave
  PROVE  IInv'
<1> USE DEF IInv, StackType, OwnStack, InterruptStackFree, Created, InSysTick, OnTaskStack
<1>1. CASE SysTickEnter
  BY <1>1, StackOf DEF SysTickEnter
<1>2. CASE IncrementTick
  BY <1>2 DEF IncrementTick
<1>3. CASE SysTickLeave
  BY <1>3, StackOf DEF SysTickLeave
<1> QED
  BY <1>1, <1>2, <1>3

\* SW_Handler stays on the stack of the task it interrupted until it has stored the
\* stack pointer, and goes on with another's.
LEMMA SwKeeps ==
  ASSUME IInv, SW_Handler
  PROVE  IInv'
<1> USE DEF IInv, StackType, OwnStack, InterruptStackFree, Created, InSysTick, OnTaskStack
<1>1. CASE SwEnter
  BY <1>1 DEF SwEnter
<1>2. CASE MoveSp
  BY <1>2, StackOf DEF MoveSp
<1>3. CASE StoreRegisters
  BY <1>3 DEF StoreRegisters
<1>4. CASE StoreMepc
  BY <1>4 DEF StoreMepc
<1>5. CASE vTaskSwitchContext
  BY <1>5 DEF vTaskSwitchContext
<1>6. CASE Restore
  BY <1>6, StackOf DEF Restore
<1> QED
  BY <1>1, <1>2, <1>3, <1>4, <1>5, <1>6 DEF SW_Handler

\* The steps of tasks and of the start leave each pointer in its own stack.
LEMMA TasksKeep ==
  ASSUME IInv,
         \/ \E t \in TCBs : pxPortInitialiseStack(t)
         \/ TaskRuns \/ portYIELD \/ StartFirstTask \/ LoadT0 \/ ReturnToFirstTask
         \/ EthIrq \/ UNCHANGED switchVars
  PROVE  IInv'
<1> USE DEF IInv, StackType, OwnStack, InterruptStackFree, Created, InSysTick, OnTaskStack
<1>1. ASSUME NEW t \in TCBs, pxPortInitialiseStack(t) PROVE IInv'
  BY <1>1 DEF pxPortInitialiseStack
<1>2. CASE TaskRuns
  BY <1>2 DEF TaskRuns, InTask
<1>3. CASE portYIELD
  BY <1>3 DEF portYIELD
<1>4. CASE StartFirstTask
  BY <1>4 DEF StartFirstTask
<1>5. CASE LoadT0
  BY <1>5 DEF LoadT0
<1>6. CASE ReturnToFirstTask
  BY <1>6, StackOf DEF ReturnToFirstTask
<1>7. CASE EthIrq
  BY <1>7 DEF EthIrq
<1>8. CASE UNCHANGED switchVars
  BY <1>8 DEF switchVars
<1> QED
  BY <1>1, <1>2, <1>3, <1>4, <1>5, <1>6, <1>7, <1>8

\* Each task has its own stack in every reachable state.
LEMMA Inductive == SwitchSpec => []IInv
<1>1. SwitchInit => IInv
  BY DEF SwitchInit, IInv, StackType, OwnStack, InterruptStackFree, Created, InSysTick,
         OnTaskStack
<1>2. IInv /\ [SwitchNext]_switchVars => IInv'
  BY SysTickKeeps, SwKeeps, TasksKeep DEF SwitchNext
<1> QED
  BY <1>1, <1>2, PTL DEF SwitchSpec

\* Whatever is interrupted, the handlers and vTaskSwitchContext use different parts
\* of the interrupt stack, and mscratch has a task's stack only inside
\* SysTick_Handler: InterruptStackFree.
THEOREM InterruptStackCorrect == SwitchSpec => []InterruptStackFree
<1>1. IInv => InterruptStackFree
  BY DEF IInv
<1> QED
  BY <1>1, Inductive, PTL

(***************************************************************************)
(* What a task is resumed with.                                            *)
(***************************************************************************)

\* How many words can be on a task's stack where it is interrupted: the task's own,
\* none or one, or the frame of xPortStartFirstTask, still to be popped.
Depths == {0, 1, portCONTEXT_SIZE}

\* The word at address a of memory m.
WordIn(m, a) == IF a \in DOMAIN m THEN m[a] ELSE Junk

\* Task t, which has set its registers and its stack as w says, goes on correctly
\* with these registers and this pc and the d words on its stack in memory m.
Resumes(t, w, m, regs, d, pc) ==
    \/ /\ d = w.depth
       /\ pc = Value(t, "pc", w.n)
       /\ regs["a0"] = Value(t, "a0", w.n)
       /\ w.n > 0 => \A r \in Registers : regs[r] = Value(t, r, w.n)
       /\ w.depth = 1 => WordIn(m, <<t, 1>>) = Value(t, "word", w.n)
    \/ /\ d = portCONTEXT_SIZE /\ w.n = 0 /\ w.depth = 0
       /\ pc \in {LoadingT0, Returning}
       /\ regs["ra"] = Value(t, "pc", 0)
       /\ regs["a0"] = Value(t, "a0", 0)

\* The registers in the frame at sp.
FrameRegisters(m, sp) == [r \in Registers |-> WordIn(m, Frame(sp, r))]

\* The registers of t are stored above its d words, and its mstatus, with which it
\* is resumed with interrupts on.
Stacked(t, w, m, sp, d, pc) ==
    /\ sp = <<t, d + portCONTEXT_SIZE>>
    /\ MPIE(WordIn(m, Frame(sp, "status")))
    /\ Resumes(t, w, m, FrameRegisters(m, sp), d, pc)

\* All of task t is in memory m.
Saved(t, w, m, sp) ==
    \E d \in Depths : Stacked(t, w, m, sp, d, WordIn(m, Frame(sp, "pc")))

\* No task has its registers in the core.
AllSaved == at \in {"main", "vTaskSwitchContext", "processed_source"}

\* Where the registers of the running task are at each place of the handlers.
Running ==
    LET t == pxCurrentTCB
        w == work[t]
    IN  /\ at = "task" =>
             cpu.mie /\ \E d \in Depths :
                           cpu.sp = <<t, d>> /\ Resumes(t, w, mem, cpu.regs, d, cpu.pc)
        /\ InSysTick =>
             cpu.mie /\ \E d \in Depths :
                           /\ mscratch = <<t, d + 1>>
                           /\ WordIn(mem, mscratch) = hw.regs.s
                           /\ Resumes(t, w, mem, hw.regs, d, hw.pc)
        /\ at \in {"SW_Handler", "store"} => cpu.mpie
        /\ at = "SW_Handler" =>
             \E d \in Depths :
                cpu.sp = <<t, d>> /\ Resumes(t, w, mem, cpu.regs, d, cpu.mepc)
        /\ at = "store" =>
             \E d \in Depths : /\ cpu.sp = <<t, d + portCONTEXT_SIZE>>
                               /\ Resumes(t, w, mem, cpu.regs, d, cpu.mepc)
        /\ at = "mepc" => \E d \in Depths : Stacked(t, w, mem, cpu.sp, d, cpu.mepc)

WorkType ==
    /\ work \in [TCBs -> [n : 0 .. 2, depth : {0, 1}]]
    /\ \A t \in TCBs : work[t].n = 0 => work[t].depth = 0
    /\ DOMAIN cpu.regs = Registers
    /\ DOMAIN hw = {"regs", "pc"} /\ DOMAIN hw.regs = Registers

\* Nothing has run before the start, and no task before it is created.
NotYetRun ==
    /\ Created \subseteq TCBs
    /\ \A t \in TCBs \ Created : work[t].n = 0
    /\ at = "main" =>
         \A t \in Created : work[t].n = 0 /\ topOfStack[t] = <<t, portCONTEXT_SIZE>>

\* Every task that does not run is in memory.
OthersSaved ==
    \A t \in Created :
        AllSaved \/ t # pxCurrentTCB => Saved(t, work[t], mem, topOfStack[t])

Resumable == WorkType /\ NotYetRun /\ OthersSaved /\ Running

(***************************************************************************)
(* Memory.                                                                 *)
(***************************************************************************)

\* The first n words of stack t are the same in both.
Agree(t, n, m1, m2) == \A i \in 1 .. n : WordIn(m2, <<t, i>>) = WordIn(m1, <<t, i>>)

\* A store changes the words it names and no others.
LEMMA StoredIs ==
  ASSUME NEW m, NEW values, NEW a
  PROVE  WordIn(Stored(m, values), a) =
           IF a \in DOMAIN values THEN values[a] ELSE WordIn(m, a)
BY DEF WordIn, Stored

\* A handler that works below sp leaves what is above it and the other stacks.
LEMMA ScribbledIs ==
  ASSUME NEW m, NEW s, NEW n \in Nat, NEW depth, depth \in Nat, NEW a,
         a[1] # s \/ (a[2] \in Nat /\ a[2] <= n)
  PROVE  WordIn(Scribbled(m, <<s, n>>, depth), a) = WordIn(m, a)
<1>1. a \notin {Below(<<s, n>>, i) : i \in 1 .. depth}
  BY DEF Below
<1> QED
  BY <1>1 DEF WordIn, Scribbled

\* Popping to a stack pointer leaves the words from there up, and other stacks.
LEMMA PoppedIs ==
  ASSUME NEW m, NEW s, NEW n \in Nat, NEW a,
         a[1] # s \/ (a[2] \in Nat /\ a[2] <= n)
  PROVE  WordIn(Popped(m, <<s, n>>), a) = WordIn(m, a)
<1> DEFINE kept == {b \in DOMAIN m : b[1] # <<s, n>>[1] \/ b[2] <= <<s, n>>[2]}
<1>1. a \in DOMAIN m => a \in kept
  OBVIOUS
<1>2. Popped(m, <<s, n>>) = [b \in kept |-> m[b]]
  BY DEF Popped
<1>3. kept \subseteq DOMAIN m
  OBVIOUS
<1> HIDE DEF kept
<1> QED
  BY <1>1, <1>2, <1>3 DEF WordIn

\* The slots of the frame above d words.
LEMMA FrameIs ==
  ASSUME NEW t, NEW d \in Depths, NEW sp, sp = <<t, d + portCONTEXT_SIZE>>
  PROVE  /\ Frame(sp, "pc") = <<t, d + 8>> /\ Frame(sp, "ra") = <<t, d + 7>>
         /\ Frame(sp, "t0") = <<t, d + 6>> /\ Frame(sp, "t1") = <<t, d + 5>>
         /\ Frame(sp, "s") = <<t, d + 4>> /\ Frame(sp, "a0") = <<t, d + 3>>
         /\ Frame(sp, "a1") = <<t, d + 2>> /\ Frame(sp, "status") = <<t, d + 1>>
BY DEF Depths, portCONTEXT_SIZE, Frame, Above, Slot

\* What a context goes on with depends only on its registers and the words above
\* its stack pointer.
LEMMA ResumesKept ==
  ASSUME NEW t, NEW w, NEW m1, NEW m2, NEW d \in Depths, Agree(t, d, m1, m2),
         NEW regs1, NEW regs2, \A r \in Registers : regs2[r] = regs1[r],
         NEW pc, Resumes(t, w, m1, regs1, d, pc)
  PROVE  Resumes(t, w, m2, regs2, d, pc)
BY DEF Resumes, Agree, Registers, Depths, portCONTEXT_SIZE

\* A frame depends only on the words from the stack pointer up.
LEMMA FrameKept ==
  ASSUME NEW t, NEW d \in Depths, NEW m1, NEW m2, Agree(t, d + portCONTEXT_SIZE, m1, m2),
         NEW sp, sp = <<t, d + portCONTEXT_SIZE>>
  PROVE  \A x \in Registers \union {"status", "pc"} :
            WordIn(m2, Frame(sp, x)) = WordIn(m1, Frame(sp, x))
BY FrameIs DEF Agree, Registers, Depths, portCONTEXT_SIZE

\* A context in its frame stays there while the words above it do not change.
LEMMA StackedKept ==
  ASSUME NEW t, NEW w, NEW m1, NEW m2, NEW d \in Depths, NEW sp, NEW pc,
         Agree(t, d + portCONTEXT_SIZE, m1, m2), Stacked(t, w, m1, sp, d, pc)
  PROVE  Stacked(t, w, m2, sp, d, pc)
<1>1. sp = <<t, d + portCONTEXT_SIZE>>
  BY DEF Stacked
<1>2. \A x \in Registers \union {"status", "pc"} :
         WordIn(m2, Frame(sp, x)) = WordIn(m1, Frame(sp, x))
  BY <1>1, FrameKept
<1>3. Agree(t, d, m1, m2)
  BY DEF Agree, Depths, portCONTEXT_SIZE
<1>4. \A r \in Registers : FrameRegisters(m2, sp)[r] = FrameRegisters(m1, sp)[r]
  BY <1>2 DEF FrameRegisters
<1>5. Resumes(t, w, m2, FrameRegisters(m2, sp), d, pc)
  BY <1>3, <1>4, ResumesKept DEF Stacked
<1> QED
  BY <1>1, <1>2, <1>5 DEF Stacked

\* A saved task stays saved while its stack does not change.
LEMMA SavedKept ==
  ASSUME NEW t, NEW w, NEW m1, NEW m2, NEW sp, Saved(t, w, m1, sp),
         \A n \in Nat : Agree(t, n, m1, m2)
  PROVE  Saved(t, w, m2, sp)
<1>1. PICK d \in Depths : Stacked(t, w, m1, sp, d, WordIn(m1, Frame(sp, "pc")))
  BY DEF Saved
<1>2. d + portCONTEXT_SIZE \in Nat /\ sp = <<t, d + portCONTEXT_SIZE>>
  BY <1>1 DEF Depths, portCONTEXT_SIZE, Stacked
<1>3. Agree(t, d + portCONTEXT_SIZE, m1, m2)
  BY <1>2
<1>4. WordIn(m2, Frame(sp, "pc")) = WordIn(m1, Frame(sp, "pc"))
  BY <1>2, <1>3, FrameKept
<1> QED
  BY <1>1, <1>3, <1>4, StackedKept DEF Saved

\* Memory changes on stack s only.
OnlyOn(s, m1, m2) == \A t : t # s => \A n \in Nat : Agree(t, n, m1, m2)

\* A store to one stack leaves the others alone.
LEMMA OnlyStored ==
  ASSUME NEW s, NEW m, NEW values, \A a \in DOMAIN values : a[1] = s
  PROVE  OnlyOn(s, m, Stored(m, values))
<1> SUFFICES ASSUME NEW t, t # s, NEW i \in Nat
             PROVE  WordIn(Stored(m, values), <<t, i>>) = WordIn(m, <<t, i>>)
  BY DEF OnlyOn, Agree
<1>1. <<t, i>> \notin DOMAIN values
  OBVIOUS
<1> QED
  BY <1>1, StoredIs

\* A handler that writes below a stack pointer leaves other stacks alone.
LEMMA OnlyScribbled ==
  ASSUME NEW s, NEW m, NEW n \in Nat, NEW depth \in Nat
  PROVE  OnlyOn(s, m, Scribbled(m, <<s, n>>, depth))
BY ScribbledIs DEF OnlyOn, Agree

\* Popping from one stack leaves the others alone.
LEMMA OnlyPopped ==
  ASSUME NEW s, NEW m, NEW n \in Nat
  PROVE  OnlyOn(s, m, Popped(m, <<s, n>>))
BY PoppedIs DEF OnlyOn, Agree

\* The words up to the stack pointer stay.
LEMMA UpToSpKept ==
  ASSUME NEW s, NEW m, NEW n \in Nat, NEW depth \in Nat, NEW k \in 0 .. n
  PROVE  /\ Agree(s, k, m, Scribbled(m, <<s, n>>, depth))
         /\ Agree(s, k, m, Popped(m, <<s, n>>))
<1> SUFFICES ASSUME NEW i \in 1 .. k
             PROVE  /\ WordIn(Scribbled(m, <<s, n>>, depth), <<s, i>>) = WordIn(m, <<s, i>>)
                    /\ WordIn(Popped(m, <<s, n>>), <<s, i>>) = WordIn(m, <<s, i>>)
  BY DEF Agree
<1>1. <<s, i>>[1] = s /\ <<s, i>>[2] = i /\ i \in Nat /\ i <= n
  OBVIOUS
<1> QED
  BY <1>1, ScribbledIs, PoppedIs

\* The tasks that do not run stay in memory when nothing changes their stacks.
LEMMA OthersStay ==
  ASSUME OthersSaved, UNCHANGED <<topOfStack, pxCurrentTCB>>, ~AllSaved',
         \A t \in Created \ {pxCurrentTCB} :
            work'[t] = work[t] /\ \A n \in Nat : Agree(t, n, mem, mem')
  PROVE  OthersSaved'
<1> SUFFICES ASSUME NEW t \in Created, t # pxCurrentTCB
             PROVE  Saved(t, work'[t], mem', topOfStack[t])
  BY DEF OthersSaved, Created
<1>1. Saved(t, work[t], mem, topOfStack[t])
  BY DEF OthersSaved
<1> QED
  BY <1>1, SavedKept

\* A memory agrees with itself.
LEMMA SameMemory == ASSUME NEW t, NEW n, NEW m PROVE Agree(t, n, m, m)
BY DEF Agree

(***************************************************************************)
(* SW_Handler.                                                             *)
(***************************************************************************)
LEMMA SwEnterResumes ==
  ASSUME IInv, Resumable, SwEnter
  PROVE  Resumable'
<1> USE DEF IInv, StackType, Resumable
<1>1. PICK d \in Depths :
         cpu.sp = <<pxCurrentTCB, d>>
         /\ Resumes(pxCurrentTCB, work[pxCurrentTCB], mem, cpu.regs, d, cpu.pc)
  BY DEF SwEnter, Running
<1>2. /\ cpu'.sp = cpu.sp /\ cpu'.regs = cpu.regs /\ cpu'.mepc = cpu.pc /\ cpu'.mpie
      /\ at' = "SW_Handler" /\ UNCHANGED <<mem, topOfStack, pxCurrentTCB, hw, work>>
  BY DEF SwEnter, Running
<1>3. Running'
  BY <1>1, <1>2 DEF Running, InSysTick
<1>4. OthersSaved'
  BY <1>2, OthersStay, SameMemory DEF AllSaved
<1>5. WorkType' /\ NotYetRun'
  BY <1>2 DEF WorkType, NotYetRun, Created
<1> QED
  BY <1>3, <1>4, <1>5

\* Making room for the frame leaves every task resumable.
LEMMA MoveSpResumes ==
  ASSUME IInv, Resumable, MoveSp
  PROVE  Resumable'
<1> USE DEF IInv, StackType, Resumable
<1>1. PICK d \in Depths :
         cpu.sp = <<pxCurrentTCB, d>>
         /\ Resumes(pxCurrentTCB, work[pxCurrentTCB], mem, cpu.regs, d, cpu.mepc)
  BY DEF MoveSp, Running
<1>2. /\ cpu'.sp = Below(cpu.sp, portCONTEXT_SIZE) /\ cpu'.regs = cpu.regs
      /\ cpu'.mepc = cpu.mepc /\ cpu'.mpie
      /\ at' = "store" /\ UNCHANGED <<mem, topOfStack, pxCurrentTCB, hw, work>>
  BY DEF MoveSp, Running
<1>3. cpu'.sp = <<pxCurrentTCB, d + portCONTEXT_SIZE>>
  BY <1>1, <1>2 DEF Below
<1>4. Running'
  BY <1>1, <1>2, <1>3 DEF Running, InSysTick
<1>5. OthersSaved'
  BY <1>2, OthersStay, SameMemory DEF AllSaved
<1>6. WorkType' /\ NotYetRun'
  BY <1>2 DEF WorkType, NotYetRun, Created
<1> QED
  BY <1>4, <1>5, <1>6

\* Storing the registers leaves every task resumable.
LEMMA StoreRegistersResumes ==
  ASSUME IInv, Resumable, StoreRegisters
  PROVE  Resumable'
<1> USE DEF IInv, StackType, Resumable
<1> DEFINE t == pxCurrentTCB
           status == mstatus(cpu.mie, cpu.mpie)
           addresses == {Frame(cpu.sp, x) : x \in Registers \union {"status"}}
           values == [a \in addresses |->
                        IF a = Frame(cpu.sp, "status") THEN status
                        ELSE cpu.regs[CHOOSE r \in Registers : a = Frame(cpu.sp, r)]]
<1>1. PICK d \in Depths :
         cpu.sp = <<t, d + portCONTEXT_SIZE>> /\ Resumes(t, work[t], mem, cpu.regs, d, cpu.mepc)
  BY DEF StoreRegisters, Running
<1>2. /\ mem' = Stored(mem, values)
      /\ cpu' = [cpu EXCEPT !.regs.t0 = status]
      /\ at' = "mepc" /\ UNCHANGED <<topOfStack, pxCurrentTCB, hw, work>> /\ cpu.mpie
  BY DEF StoreRegisters, Running
<1>3. cpu'.sp = cpu.sp /\ cpu'.mepc = cpu.mepc /\ DOMAIN cpu'.regs = Registers
  BY <1>2 DEF WorkType, Registers
<1>4. \A r \in Registers : WordIn(mem', Frame(cpu.sp, r)) = cpu.regs[r]
  <2> SUFFICES ASSUME NEW r \in Registers
               PROVE  WordIn(mem', Frame(cpu.sp, r)) = cpu.regs[r]
    OBVIOUS
  <2>1. Frame(cpu.sp, r) \in addresses
    OBVIOUS
  <2>2. \A q \in Registers : Frame(cpu.sp, q) = Frame(cpu.sp, r) => q = r
    BY <1>1, FrameIs DEF Registers, Depths, portCONTEXT_SIZE
  <2>3. Frame(cpu.sp, r) # Frame(cpu.sp, "status")
    BY <1>1, FrameIs DEF Registers, Depths, portCONTEXT_SIZE
  <2>4. (CHOOSE q \in Registers : Frame(cpu.sp, r) = Frame(cpu.sp, q)) = r
    BY <2>2
  <2>5. values[Frame(cpu.sp, r)] = cpu.regs[r]
    BY <2>1, <2>3, <2>4
  <2>6. Frame(cpu.sp, r) \in DOMAIN values
    BY <2>1
  <2> HIDE DEF values
  <2> QED
    BY <1>2, <2>5, <2>6, StoredIs
<1>5. WordIn(mem', Frame(cpu.sp, "status")) = status
  <2>1. Frame(cpu.sp, "status") \in DOMAIN values /\ values[Frame(cpu.sp, "status")] = status
    OBVIOUS
  <2> HIDE DEF values
  <2> QED
    BY <1>2, <2>1, StoredIs
<1>6. Agree(t, d, mem, mem')
  <2> SUFFICES ASSUME NEW i \in 1 .. d PROVE WordIn(mem', <<t, i>>) = WordIn(mem, <<t, i>>)
    BY DEF Agree
  <2>1. <<t, i>> \notin addresses
    BY <1>1, FrameIs DEF Registers, Depths, portCONTEXT_SIZE
  <2>2. DOMAIN values = addresses
    OBVIOUS
  <2> HIDE DEF values, addresses
  <2> QED
    BY <1>2, <2>1, <2>2, StoredIs
<1>7. OnlyOn(t, mem, mem')
  <2>1. \A a \in addresses : a[1] = t
    BY <1>1, FrameIs DEF Registers
  <2>2. DOMAIN values = addresses
    OBVIOUS
  <2> HIDE DEF values, addresses
  <2> QED
    BY <1>2, <2>1, <2>2, OnlyStored
<1> HIDE DEF values
<1>8. Stacked(t, work[t], mem', cpu.sp, d, cpu.mepc)
  <2>1. \A r \in Registers : FrameRegisters(mem', cpu.sp)[r] = cpu.regs[r]
    BY <1>4 DEF FrameRegisters
  <2>2. Resumes(t, work[t], mem', FrameRegisters(mem', cpu.sp), d, cpu.mepc)
    BY <1>1, <1>6, <2>1, ResumesKept
  <2>3. MPIE(status)
    BY <1>2 DEF MPIE, mstatus
  <2> QED
    BY <1>1, <1>5, <2>2, <2>3 DEF Stacked
<1>9. Running'
  BY <1>2, <1>3, <1>8 DEF Running, InSysTick
<1>10. OthersSaved'
  BY <1>2, <1>7, OthersStay DEF AllSaved, OnlyOn
<1>11. WorkType' /\ NotYetRun'
  BY <1>2, <1>3 DEF WorkType, NotYetRun, Created
<1> QED
  BY <1>9, <1>10, <1>11

\* Storing mepc, which completes the frame, leaves every task resumable.
LEMMA StoreMepcResumes ==
  ASSUME IInv, Resumable, StoreMepc
  PROVE  Resumable'
<1> USE DEF IInv, StackType, Resumable
<1> DEFINE t == pxCurrentTCB
           sp == cpu.sp
           values == [a \in {Frame(sp, "pc")} |-> cpu.mepc]
<1>1. PICK d \in Depths : Stacked(t, work[t], mem, sp, d, cpu.mepc)
  BY DEF StoreMepc, Running
<1>2. /\ mem' = Stored(mem, values)
      /\ cpu' = [cpu EXCEPT !.regs.a1 = Junk]
      /\ topOfStack' = [topOfStack EXCEPT ![t] = sp]
      /\ at' = "vTaskSwitchContext" /\ UNCHANGED <<pxCurrentTCB, hw, work>>
      /\ at = "mepc" /\ t \in Created
  BY DEF StoreMepc, OwnStack
<1>3. sp = <<t, d + portCONTEXT_SIZE>>
  BY <1>1 DEF Stacked
<1>4. Frame(sp, "pc")[1] = t
  BY <1>3, FrameIs
<1>5. DOMAIN values = {Frame(sp, "pc")} /\ values[Frame(sp, "pc")] = cpu.mepc
  OBVIOUS
<1> HIDE DEF values, sp
<1>6. OnlyOn(t, mem, mem')
  BY <1>2, <1>4, <1>5, OnlyStored
<1>7. Saved(t, work[t], mem', sp)
  <2>1. WordIn(mem', Frame(sp, "pc")) = cpu.mepc
    BY <1>2, <1>5, StoredIs
  <2>2. \A x \in Registers \union {"status"} :
           WordIn(mem', Frame(sp, x)) = WordIn(mem, Frame(sp, x))
    <3>1. \A x \in Registers \union {"status"} : Frame(sp, x) # Frame(sp, "pc")
      BY <1>3, FrameIs DEF Registers, Depths, portCONTEXT_SIZE
    <3> QED
      BY <1>2, <1>5, <3>1, StoredIs
  <2>3. Agree(t, d, mem, mem')
    <3>1. \A i \in 1 .. d : <<t, i>> # Frame(sp, "pc")
      BY <1>3, FrameIs DEF Depths, portCONTEXT_SIZE
    <3> QED
      BY <1>2, <1>5, <3>1, StoredIs DEF Agree
  <2>4. \A r \in Registers : FrameRegisters(mem', sp)[r] = FrameRegisters(mem, sp)[r]
    BY <2>2 DEF FrameRegisters
  <2>5. Resumes(t, work[t], mem', FrameRegisters(mem', sp), d, cpu.mepc)
    BY <1>1, <2>3, <2>4, ResumesKept DEF Stacked
  <2> QED
    BY <1>1, <2>1, <2>2, <2>5 DEF Saved, Stacked
<1>8. OthersSaved'
  <2> SUFFICES ASSUME NEW u \in Created
               PROVE  Saved(u, work[u], mem', topOfStack'[u])
    BY <1>2 DEF OthersSaved, Created
  <2>1. CASE u = t
    BY <1>2, <1>7, <2>1 DEF Created
  <2>2. CASE u # t
    <3>1. Saved(u, work[u], mem, topOfStack[u])
      BY <2>2 DEF OthersSaved
    <3> QED
      BY <1>2, <1>6, <2>2, <3>1, SavedKept DEF OnlyOn, Created
  <2> QED
    BY <2>1, <2>2
<1>9. DOMAIN cpu'.regs = Registers
  BY <1>2 DEF WorkType
<1>10. WorkType' /\ NotYetRun' /\ Running'
  BY <1>2, <1>9 DEF WorkType, NotYetRun, Created, Running, InSysTick
<1> QED
  BY <1>8, <1>10

\* The stacks of the tasks are not that of the interrupts.
LEMMA NotIsr == ASSUME Resumable, NEW t \in Created PROVE t # "isr"
BY TCBsAssumption DEF Resumable, NotYetRun

\* vTaskSwitchContext leaves every task resumable, whichever it chooses.
LEMMA SwitchContextResumes ==
  ASSUME IInv, Resumable, vTaskSwitchContext
  PROVE  Resumable'
<1> USE DEF IInv, StackType, Resumable
<1>1. /\ cpu'.regs = NoRegisters /\ mem' = Scribbled(mem, <<"isr", 0>>, InterruptDepth)
      /\ at' = "processed_source" /\ UNCHANGED <<topOfStack, hw, work>> /\ AllSaved
  BY DEF vTaskSwitchContext, xISRStackTop, AllSaved
<1>2. OnlyOn("isr", mem, mem')
  BY <1>1, OnlyScribbled, DepthAssumption
<1>3. OthersSaved'
  <2> SUFFICES ASSUME NEW u \in Created
               PROVE  Saved(u, work[u], mem', topOfStack[u])
    BY <1>1 DEF OthersSaved, Created
  <2>1. Saved(u, work[u], mem, topOfStack[u])
    BY <1>1 DEF OthersSaved
  <2> QED
    BY <1>2, <2>1, NotIsr, SavedKept DEF OnlyOn
<1>4. WorkType' /\ NotYetRun' /\ Running'
  BY <1>1 DEF WorkType, NotYetRun, Created, Running, InSysTick, NoRegisters
<1> QED
  BY <1>3, <1>4

\* Restoring the frame of the chosen task leaves every task resumable.
LEMMA RestoreResumes ==
  ASSUME IInv, Resumable, Restore
  PROVE  Resumable'
<1> USE DEF IInv, StackType, Resumable
<1> DEFINE t == pxCurrentTCB
           sp == topOfStack[t]
<1>1. t \in Created /\ AllSaved
  BY DEF Restore, OwnStack, AllSaved
<1>2. PICK d \in Depths : Stacked(t, work[t], mem, sp, d, WordIn(mem, Frame(sp, "pc")))
  BY <1>1 DEF OthersSaved, Saved
<1>3. sp = <<t, d + portCONTEXT_SIZE>> /\ d \in Nat
  BY <1>2 DEF Stacked, Depths, portCONTEXT_SIZE
<1>4. Above(sp, portCONTEXT_SIZE) = <<t, d>>
  BY <1>3 DEF Above, portCONTEXT_SIZE
<1>5. \A a : Word(a) = WordIn(mem, a)
  BY DEF Word, WordIn
<1>6. /\ cpu'.regs = FrameRegisters(mem, sp)
      /\ cpu'.sp = <<t, d>> /\ cpu'.pc = WordIn(mem, Frame(sp, "pc"))
      /\ cpu'.mie = MPIE(WordIn(mem, Frame(sp, "status")))
      /\ mem' = Popped(mem, <<t, d>>)
      /\ at' = "task" /\ UNCHANGED <<topOfStack, pxCurrentTCB, hw, work>>
  BY <1>4, <1>5 DEF Restore, FrameRegisters
<1>7. Agree(t, d, mem, mem') /\ OnlyOn(t, mem, mem')
  BY <1>3, <1>6, UpToSpKept, OnlyPopped, DepthAssumption
<1>8. Resumes(t, work[t], mem', cpu'.regs, d, cpu'.pc)
  BY <1>2, <1>6, <1>7, ResumesKept DEF Stacked
<1>9. Running'
  BY <1>2, <1>6, <1>8 DEF Running, InSysTick, Stacked
<1>10. OthersSaved'
  BY <1>6, <1>7, OthersStay DEF AllSaved, OnlyOn
<1>11. WorkType' /\ NotYetRun'
  BY <1>6 DEF WorkType, NotYetRun, Created, FrameRegisters
<1> QED
  BY <1>9, <1>10, <1>11

(***************************************************************************)
(* SysTick_Handler and ETH_IRQHandler.                                     *)
(***************************************************************************)
LEMMA SysTickEnterResumes ==
  ASSUME IInv, Resumable, SysTickEnter
  PROVE  Resumable'
<1> USE DEF IInv, StackType, Resumable
<1> DEFINE t == pxCurrentTCB
<1>1. PICK d \in Depths : cpu.sp = <<t, d>> /\ Resumes(t, work[t], mem, cpu.regs, d, cpu.pc)
  BY DEF SysTickEnter, Running
<1>2. d \in Nat /\ Below(cpu.sp, 1) = <<t, d + 1>>
  BY <1>1 DEF Below, Depths, portCONTEXT_SIZE
<1> DEFINE values == [a \in {<<t, d + 1>>} |-> cpu.regs.s]
<1>3. /\ hw' = [regs |-> cpu.regs, pc |-> cpu.pc] /\ mem' = Stored(mem, values)
      /\ cpu' = [cpu EXCEPT !.sp = mscratch] /\ mscratch' = <<t, d + 1>> /\ cpu.mie
      /\ at' = "SysTick_Handler" /\ UNCHANGED <<topOfStack, pxCurrentTCB, work>>
  BY <1>2 DEF SysTickEnter
<1>4. DOMAIN values = {<<t, d + 1>>} /\ values[<<t, d + 1>>] = cpu.regs.s
  OBVIOUS
<1> HIDE DEF values
<1>5. WordIn(mem', <<t, d + 1>>) = cpu.regs.s
  BY <1>3, <1>4, StoredIs
<1>6. OnlyOn(t, mem, mem')
  BY <1>3, <1>4, OnlyStored
<1>7. Agree(t, d, mem, mem')
  <2>1. \A i \in 1 .. d : <<t, i>> # <<t, d + 1>>
    BY <1>2
  <2> QED
    BY <1>3, <1>4, <2>1, StoredIs DEF Agree
<1>8. Resumes(t, work[t], mem', hw'.regs, d, hw'.pc)
  BY <1>1, <1>3, <1>7, ResumesKept
<1>9. Running'
  BY <1>3, <1>5, <1>8 DEF Running, InSysTick
<1>10. OthersSaved'
  BY <1>3, <1>6, OthersStay DEF AllSaved, OnlyOn
<1>11. WorkType' /\ NotYetRun'
  BY <1>3 DEF WorkType, NotYetRun, Created
<1> QED
  BY <1>9, <1>10, <1>11

\* The handler that is on the interrupt stack.
LEMMA OnIsrStackResumes ==
  ASSUME IInv, Resumable, InSysTick, InSysTick', OnlyOn("isr", mem, mem'),
         UNCHANGED <<topOfStack, pxCurrentTCB, mscratch, hw, work>>,
         cpu'.mie = cpu.mie, DOMAIN cpu'.regs = Registers
  PROVE  Resumable'
<1> USE DEF IInv, Resumable
<1>1. PICK d \in Depths :
         /\ mscratch = <<pxCurrentTCB, d + 1>> /\ WordIn(mem, mscratch) = hw.regs.s
         /\ Resumes(pxCurrentTCB, work[pxCurrentTCB], mem, hw.regs, d, hw.pc)
  BY DEF Running
<1>2. pxCurrentTCB # "isr" /\ d \in Nat /\ d + 1 \in 1 .. d + 1
  BY NotIsr DEF OwnStack, InSysTick, Depths, portCONTEXT_SIZE
<1>3. Agree(pxCurrentTCB, d, mem, mem') /\ Agree(pxCurrentTCB, d + 1, mem, mem')
  BY <1>2 DEF OnlyOn
<1>4. WordIn(mem', mscratch) = hw.regs.s
  BY <1>1, <1>2, <1>3 DEF Agree
<1>5. Resumes(pxCurrentTCB, work[pxCurrentTCB], mem', hw.regs, d, hw.pc)
  BY <1>1, <1>3, ResumesKept
<1>6. Running'
  BY <1>1, <1>4, <1>5 DEF Running, InSysTick
<1>7. \A t \in Created \ {pxCurrentTCB} : \A n \in Nat : Agree(t, n, mem, mem')
  BY NotIsr DEF OnlyOn
<1>8. OthersSaved'
  BY <1>7, OthersStay DEF AllSaved, InSysTick
<1>9. WorkType' /\ NotYetRun'
  BY DEF WorkType, NotYetRun, Created, InSysTick
<1> QED
  BY <1>6, <1>8, <1>9

\* The body of SysTick_Handler leaves every task resumable.
LEMMA IncrementTickResumes ==
  ASSUME IInv, Resumable, IncrementTick
  PROVE  Resumable'
<1>1. cpu.sp = <<"isr", Reserved>>
  BY DepthAssumption DEF IInv, InterruptStackFree, IncrementTick, Below, xISRStackTop
<1>2. OnlyOn("isr", mem, mem')
  BY <1>1, OnlyScribbled, DepthAssumption DEF IncrementTick
<1>3. cpu'.mie = cpu.mie /\ DOMAIN cpu'.regs = Registers
  BY DEF IncrementTick, IInv, StackType, NoRegisters
<1>4. InSysTick /\ InSysTick' /\ UNCHANGED <<topOfStack, pxCurrentTCB, mscratch, hw, work>>
  BY DEF IncrementTick, InSysTick
<1> QED
  BY <1>2, <1>3, <1>4, OnIsrStackResumes

\* The return from SysTick_Handler leaves every task resumable.
LEMMA SysTickLeaveResumes ==
  ASSUME IInv, Resumable, SysTickLeave
  PROVE  Resumable'
<1> USE DEF IInv, StackType, Resumable
<1> DEFINE t == pxCurrentTCB
<1>1. PICK d \in Depths :
         /\ mscratch = <<t, d + 1>> /\ WordIn(mem, mscratch) = hw.regs.s
         /\ Resumes(t, work[t], mem, hw.regs, d, hw.pc)
  BY DEF SysTickLeave, InSysTick, Running
<1>2. d \in Nat /\ Above(mscratch, 1) = <<t, d>>
  BY <1>1 DEF Above, Depths, portCONTEXT_SIZE
<1>3. Word(mscratch) = hw.regs.s
  BY <1>1 DEF Word, WordIn
<1>4. /\ cpu' = [cpu EXCEPT !.sp = <<t, d>>, !.pc = hw.pc,
                            !.regs = [hw.regs EXCEPT !.s = hw.regs.s]]
      /\ at' = "task" /\ UNCHANGED <<topOfStack, pxCurrentTCB, hw, work>>
      /\ cpu.mie /\ mem' = Popped(mem, cpu'.sp)
  BY <1>2, <1>3 DEF SysTickLeave, InSysTick, Running
<1>5. /\ cpu'.sp = <<t, d>> /\ cpu'.pc = hw.pc /\ cpu'.mie /\ DOMAIN cpu'.regs = Registers
      /\ \A r \in Registers : cpu'.regs[r] = hw.regs[r]
  BY <1>4 DEF WorkType
<1>6. Agree(t, d, mem, mem') /\ OnlyOn(t, mem, mem')
  BY <1>2, <1>4, <1>5, UpToSpKept, OnlyPopped, DepthAssumption
<1>7. Resumes(t, work[t], mem', cpu'.regs, d, cpu'.pc)
  BY <1>1, <1>5, <1>6, ResumesKept
<1>8. Running'
  BY <1>4, <1>5, <1>7 DEF Running, InSysTick
<1>9. OthersSaved'
  BY <1>4, <1>6, OthersStay DEF AllSaved, OnlyOn
<1>10. WorkType' /\ NotYetRun'
  BY <1>4, <1>5 DEF WorkType, NotYetRun, Created
<1> QED
  BY <1>8, <1>9, <1>10

\* ETH_IRQHandler works below the stack pointer it finds, wherever it comes.
LEMMA EthIrqResumes ==
  ASSUME IInv, Resumable, EthIrq
  PROVE  Resumable'
<1> USE DEF IInv, StackType, Resumable
<1> DEFINE t == pxCurrentTCB
           w == work[t]
<1>1. /\ mem' = Scribbled(mem, cpu.sp, InterruptDepth)
      /\ UNCHANGED <<cpu, topOfStack, pxCurrentTCB, mscratch, at, hw, work>>
  BY DEF EthIrq
<1>2. \A d \in Depths : d \in Nat /\ d + portCONTEXT_SIZE \in Nat
                        /\ d \in 0 .. d + portCONTEXT_SIZE /\ d \in 0 .. d
                        /\ d + portCONTEXT_SIZE \in 0 .. d + portCONTEXT_SIZE
  BY DEF Depths, portCONTEXT_SIZE
<1>3. CASE InSysTick
  <2>1. cpu.sp = <<"isr", Reserved>>
    BY <1>3, DepthAssumption
    DEF InterruptStackFree, InSysTick, Below, xISRStackTop
  <2>2. OnlyOn("isr", mem, mem')
    BY <1>1, <2>1, OnlyScribbled, DepthAssumption
  <2> QED
    BY <1>1, <1>3, <2>2, OnIsrStackResumes DEF WorkType, InSysTick
<1>4. CASE OnTaskStack
  <2>1. PICK n \in Nat : /\ cpu.sp = <<t, n>>
                         /\ Running' /\ OnlyOn(t, mem, mem')
    <3>1. CASE at \in {"task", "SW_Handler"}
      <4>1. PICK d \in Depths :
               /\ cpu.sp = <<t, d>>
               /\ Resumes(t, w, mem, cpu.regs, d, IF at = "task" THEN cpu.pc ELSE cpu.mepc)
        BY <3>1 DEF Running
      <4>2. Agree(t, d, mem, mem') /\ OnlyOn(t, mem, mem')
        BY <1>1, <1>2, <4>1, UpToSpKept, OnlyScribbled, DepthAssumption
      <4>3. Resumes(t, w, mem', cpu.regs, d, IF at = "task" THEN cpu.pc ELSE cpu.mepc)
        BY <4>1, <4>2, ResumesKept
      <4>4. Running'
        BY <1>1, <3>1, <4>1, <4>3 DEF Running, InSysTick
      <4> QED
        BY <1>2, <4>1, <4>2, <4>4
    <3>2. CASE at = "store"
      <4>1. PICK d \in Depths : /\ cpu.sp = <<t, d + portCONTEXT_SIZE>>
                                /\ Resumes(t, w, mem, cpu.regs, d, cpu.mepc)
        BY <3>2 DEF Running
      <4>2. Agree(t, d, mem, mem') /\ OnlyOn(t, mem, mem')
        BY <1>1, <1>2, <4>1, UpToSpKept, OnlyScribbled, DepthAssumption
      <4>3. Resumes(t, w, mem', cpu.regs, d, cpu.mepc)
        BY <4>1, <4>2, ResumesKept
      <4>4. Running'
        BY <1>1, <3>2, <4>1, <4>3 DEF Running, InSysTick
      <4> QED
        BY <1>2, <4>1, <4>2, <4>4
    <3>3. CASE at = "mepc"
      <4>1. PICK d \in Depths : Stacked(t, w, mem, cpu.sp, d, cpu.mepc)
        BY <3>3 DEF Running
      <4>2. cpu.sp = <<t, d + portCONTEXT_SIZE>>
        BY <4>1 DEF Stacked
      <4>3. Agree(t, d + portCONTEXT_SIZE, mem, mem') /\ OnlyOn(t, mem, mem')
        BY <1>1, <1>2, <4>2, UpToSpKept, OnlyScribbled, DepthAssumption
      <4>4. Stacked(t, w, mem', cpu.sp, d, cpu.mepc)
        BY <4>1, <4>3, StackedKept
      <4>5. Running'
        BY <1>1, <3>3, <4>4 DEF Running, InSysTick
      <4> QED
        BY <1>2, <4>2, <4>3, <4>5
    <3> QED
      BY <1>4, <3>1, <3>2, <3>3 DEF OnTaskStack
  <2>2. OthersSaved'
    BY <1>1, <1>4, <2>1, OthersStay DEF AllSaved, OnlyOn, OnTaskStack
  <2> QED
    BY <1>1, <2>1, <2>2 DEF WorkType, NotYetRun, Created
<1> QED
  BY <1>3, <1>4 DEF EthIrq, InSysTick, OnTaskStack

(***************************************************************************)
(* Tasks.                                                                  *)
(***************************************************************************)

\* No pc of a task is a place in xPortStartFirstTask.
LEMMA PcIsNoPlace ==
  ASSUME NEW t, NEW n \in Nat
  PROVE  Value(t, "pc", n) \notin {LoadingT0, Returning}
<1>1. \A a, b, c : <<a, b, c>> \notin {<<"load t0">>, <<"ret">>}
  OBVIOUS
<1>2. \A a, b : <<a, b>> \notin {<<"load t0">>, <<"ret">>}
  OBVIOUS
<1> QED
  BY <1>1, <1>2 DEF Value, LoadingT0, Returning

\* The running task, and what its code makes of its context.
LEMMA TaskContext ==
  ASSUME IInv, Resumable, at = "task"
  PROVE  /\ pxCurrentTCB \in Created /\ pxCurrentTCB \in TCBs /\ cpu.mie
         /\ work[pxCurrentTCB] \in [n : 0 .. 2, depth : {0, 1}]
         /\ \E d \in Depths :
               /\ cpu.sp = <<pxCurrentTCB, d>>
               /\ Resumes(pxCurrentTCB, work[pxCurrentTCB], mem, cpu.regs, d, cpu.pc)
BY DEF IInv, OwnStack, Resumable, WorkType, NotYetRun, Running

\* A yield, which only pends the switch, leaves every task resumable.
LEMMA YieldResumes ==
  ASSUME IInv, Resumable, portYIELD \/ UNCHANGED switchVars
  PROVE  Resumable'
BY DEF portYIELD, switchVars, Resumable, WorkType, NotYetRun, OthersSaved, Running, Created,
       AllSaved, InSysTick

\* A task that works in its registers and on its stack leaves every task resumable.
LEMMA TaskRunsResumes ==
  ASSUME IInv, Resumable, TaskRuns
  PROVE  Resumable'
<1> USE DEF IInv, StackType, Resumable
<1> DEFINE t == pxCurrentTCB
           n == IF work[t].n = 1 THEN 2 ELSE 1
           popped == Popped(mem, <<t, 0>>)
<1>1. /\ at = "task" /\ t \in Created /\ t \in TCBs /\ cpu.mie
  BY TaskContext DEF TaskRuns, InTask
<1>2. PICK depth \in {0, 1} :
         LET word == IF depth = 0 THEN {} ELSE {<<t, 1>>}
         IN  /\ work' = [work EXCEPT ![t] = [n |-> n, depth |-> depth]]
             /\ cpu' = [cpu EXCEPT !.regs = [r \in Registers |-> Value(t, r, n)],
                                   !.pc = Value(t, "pc", n), !.sp = <<t, depth>>]
             /\ mem' = Stored(popped, [a \in word |-> Value(t, "word", n)])
  BY DEF TaskRuns
<1>3. UNCHANGED <<topOfStack, pxCurrentTCB, at, hw>>
  BY DEF TaskRuns
<1> DEFINE word == IF depth = 0 THEN {} ELSE {<<t, 1>>}
           values == [a \in word |-> Value(t, "word", n)]
<1>4. DOMAIN values = word /\ (depth = 1 => values[<<t, 1>>] = Value(t, "word", n))
      /\ mem' = Stored(popped, values)
  BY <1>2
<1>5. n \in {1, 2} /\ depth \in Depths
  BY DEF Depths
<1> HIDE DEF values, popped, n
<1>6. depth = 1 => WordIn(mem', <<t, 1>>) = Value(t, "word", n)
  BY <1>4, StoredIs
<1>7. OnlyOn(t, mem, mem')
  <2>1. OnlyOn(t, mem, popped)
    BY OnlyPopped DEF popped
  <2>2. OnlyOn(t, popped, mem')
    BY <1>4, OnlyStored
  <2> QED
    BY <2>1, <2>2 DEF OnlyOn, Agree
<1>8. /\ cpu'.mie /\ cpu'.sp = <<t, depth>> /\ cpu'.pc = Value(t, "pc", n)
      /\ cpu'.regs = [r \in Registers |-> Value(t, r, n)]
      /\ work'[t] = [n |-> n, depth |-> depth]
  BY <1>1, <1>2 DEF WorkType
<1>9. Resumes(t, work'[t], mem', cpu'.regs, depth, cpu'.pc)
  BY <1>5, <1>6, <1>8 DEF Resumes, Registers
<1>10. Running'
  BY <1>1, <1>3, <1>5, <1>8, <1>9 DEF Running, InSysTick
<1>11. OthersSaved'
  <2>1. \A u \in Created \ {t} : work'[u] = work[u]
    BY <1>2 DEF WorkType, NotYetRun
  <2> QED
    BY <1>1, <1>3, <1>7, <2>1, OthersStay DEF AllSaved, OnlyOn
<1>12. WorkType'
  BY <1>1, <1>2, <1>3, <1>5, <1>8 DEF WorkType
<1>13. NotYetRun'
  BY <1>1, <1>2, <1>3 DEF NotYetRun, Created, WorkType
<1> QED
  BY <1>10, <1>11, <1>12, <1>13

\* pxPortInitialiseStack makes a task that is resumable and leaves the others so.
LEMMA CreateResumes ==
  ASSUME IInv, Resumable, NEW t \in TCBs, pxPortInitialiseStack(t)
  PROVE  Resumable'
<1> USE DEF IInv, StackType, Resumable
<1> DEFINE sp == <<t, portCONTEXT_SIZE>>
           addresses == {Frame(sp, x) : x \in {"pc", "ra", "a0", "status"}}
           values == [a \in addresses |->
                       CASE a = Frame(sp, "pc") -> Value(t, "pc", 0)
                         [] a = Frame(sp, "a0") -> Value(t, "a0", 0)
                         [] a = Frame(sp, "ra") -> Junk
                         [] a = Frame(sp, "status") -> InitialStatus]
<1>1. /\ mem' = Stored(mem, values) /\ t \notin Created
      /\ topOfStack' = [u \in Created \union {t} |-> IF u = t THEN sp ELSE topOfStack[u]]
      /\ UNCHANGED <<cpu, pxCurrentTCB, mscratch, at, hw, work>>
      /\ at \in {"main", "task"}
  BY DEF pxPortInitialiseStack, InTask
<1>2. 0 \in Depths /\ sp = <<t, 0 + portCONTEXT_SIZE>>
  BY DEF Depths, portCONTEXT_SIZE
<1>3. /\ Frame(sp, "pc") = <<t, 8>> /\ Frame(sp, "ra") = <<t, 7>>
      /\ Frame(sp, "a0") = <<t, 3>> /\ Frame(sp, "status") = <<t, 1>>
  BY <1>2, FrameIs
<1>4. /\ DOMAIN values = addresses
      /\ values[Frame(sp, "pc")] = Value(t, "pc", 0)
      /\ values[Frame(sp, "a0")] = Value(t, "a0", 0)
      /\ values[Frame(sp, "status")] = InitialStatus
      /\ Frame(sp, "pc") \in addresses /\ Frame(sp, "a0") \in addresses
      /\ Frame(sp, "status") \in addresses
  BY <1>3
<1>5. \A a \in addresses : a[1] = t
  BY <1>3
<1> HIDE DEF values, addresses, sp
<1>6. /\ WordIn(mem', Frame(sp, "pc")) = Value(t, "pc", 0)
      /\ WordIn(mem', Frame(sp, "a0")) = Value(t, "a0", 0)
      /\ WordIn(mem', Frame(sp, "status")) = InitialStatus
  BY <1>1, <1>4, StoredIs
<1>7. OnlyOn(t, mem, mem')
  BY <1>1, <1>4, <1>5, OnlyStored
<1>8. work[t].n = 0 /\ work[t].depth = 0
  BY <1>1 DEF NotYetRun, WorkType
<1>9. Saved(t, work[t], mem', sp)
  <2>1. MPIE(InitialStatus)
    BY DEF MPIE, InitialStatus, mstatus
  <2>2. FrameRegisters(mem', sp)["a0"] = Value(t, "a0", 0)
    BY <1>6 DEF FrameRegisters, Registers
  <2>3. Resumes(t, work[t], mem', FrameRegisters(mem', sp), 0, Value(t, "pc", 0))
    BY <1>8, <2>2 DEF Resumes
  <2> QED
    BY <1>2, <1>6, <2>1, <2>3 DEF Saved, Stacked
<1>10. OthersSaved'
  <2> SUFFICES ASSUME NEW u \in Created \union {t}, AllSaved \/ u # pxCurrentTCB
               PROVE  Saved(u, work[u], mem', topOfStack'[u])
    BY <1>1 DEF OthersSaved, Created, AllSaved
  <2>1. CASE u = t
    BY <1>1, <1>9, <2>1
  <2>2. CASE u # t
    <3>1. Saved(u, work[u], mem, topOfStack[u])
      BY <2>2 DEF OthersSaved
    <3> QED
      BY <1>1, <1>7, <2>2, <3>1, SavedKept DEF OnlyOn
  <2> QED
    BY <2>1, <2>2
<1>11. Running'
  <2>1. CASE at = "main"
    BY <1>1, <2>1 DEF Running, InSysTick
  <2>2. CASE at = "task"
    <3>1. PICK d \in Depths :
             /\ cpu.sp = <<pxCurrentTCB, d>>
             /\ Resumes(pxCurrentTCB, work[pxCurrentTCB], mem, cpu.regs, d, cpu.pc)
      BY <2>2, TaskContext
    <3>2. pxCurrentTCB # t /\ d \in Nat
      BY <1>1, <2>2, TaskContext DEF Depths, portCONTEXT_SIZE
    <3>3. Resumes(pxCurrentTCB, work[pxCurrentTCB], mem', cpu.regs, d, cpu.pc)
      BY <1>7, <3>1, <3>2, ResumesKept DEF OnlyOn
    <3> QED
      BY <1>1, <2>2, <3>1, <3>3, TaskContext DEF Running, InSysTick
  <2> QED
    BY <1>1, <2>1, <2>2
<1>12. WorkType'
  BY <1>1 DEF WorkType
<1>13. NotYetRun'
  BY <1>1, <1>8 DEF NotYetRun, Created, sp
<1> QED
  BY <1>10, <1>11, <1>12, <1>13

(***************************************************************************)
(* xPortStartFirstTask.                                                    *)
(***************************************************************************)
LEMMA StartResumes ==
  ASSUME IInv, Resumable, StartFirstTask
  PROVE  Resumable'
<1> USE DEF IInv, StackType, Resumable
<1> DEFINE t == pxCurrentTCB
           sp == topOfStack[t]
<1>1. /\ at = "main" /\ t \in Created /\ t \in TCBs
      /\ sp = <<t, portCONTEXT_SIZE>> /\ work[t].n = 0 /\ work[t].depth = 0
  BY DEF StartFirstTask, NotYetRun, WorkType
<1>2. PICK d \in Depths : Stacked(t, work[t], mem, sp, d, WordIn(mem, Frame(sp, "pc")))
  BY <1>1 DEF OthersSaved, Saved, AllSaved
<1>3. d = 0
  BY <1>1, <1>2 DEF Stacked, Depths, portCONTEXT_SIZE
<1>4. /\ WordIn(mem, Frame(sp, "pc")) = Value(t, "pc", 0)
      /\ WordIn(mem, Frame(sp, "a0")) = Value(t, "a0", 0)
  BY <1>1, <1>2, <1>3 DEF Stacked, Resumes, FrameRegisters, Registers, portCONTEXT_SIZE
<1>5. \A a : Word(a) = WordIn(mem, a)
  BY DEF Word, WordIn
<1>6. /\ cpu'.sp = sp /\ cpu'.pc = LoadingT0 /\ cpu'.mie /\ DOMAIN cpu'.regs = Registers
      /\ cpu'.regs["ra"] = Value(t, "pc", 0) /\ cpu'.regs["a0"] = Value(t, "a0", 0)
      /\ at' = "task" /\ UNCHANGED <<mem, topOfStack, pxCurrentTCB, hw, work>>
  BY <1>4, <1>5 DEF StartFirstTask, Registers
<1>7. Resumes(t, work[t], mem, cpu'.regs, portCONTEXT_SIZE, cpu'.pc)
  BY <1>1, <1>6 DEF Resumes
<1>8. Running'
  BY <1>1, <1>6, <1>7 DEF Running, InSysTick, Depths
<1>9. OthersSaved'
  BY <1>6, OthersStay, SameMemory DEF AllSaved
<1>10. WorkType' /\ NotYetRun'
  BY <1>6 DEF WorkType, NotYetRun, Created
<1> QED
  BY <1>8, <1>9, <1>10

\* xPortStartFirstTask leaves every task resumable as it loads t0.
LEMMA LoadT0Resumes ==
  ASSUME IInv, Resumable, LoadT0
  PROVE  Resumable'
<1> USE DEF IInv, StackType, Resumable
<1> DEFINE t == pxCurrentTCB
<1>1. PICK d \in Depths : cpu.sp = <<t, d>> /\ Resumes(t, work[t], mem, cpu.regs, d, cpu.pc)
  BY TaskContext DEF LoadT0
<1>2. /\ d = portCONTEXT_SIZE /\ work[t].n = 0 /\ work[t].depth = 0
      /\ cpu.regs["ra"] = Value(t, "pc", 0) /\ cpu.regs["a0"] = Value(t, "a0", 0)
  <2>1. work[t].n \in Nat /\ cpu.pc = LoadingT0
    BY TaskContext DEF LoadT0
  <2> QED
    BY <1>1, <2>1, PcIsNoPlace DEF Resumes
<1>3. /\ cpu'.sp = cpu.sp /\ cpu'.pc = Returning /\ cpu'.mie = cpu.mie
      /\ DOMAIN cpu'.regs = Registers
      /\ cpu'.regs["ra"] = cpu.regs["ra"] /\ cpu'.regs["a0"] = cpu.regs["a0"]
      /\ at = "task" /\ UNCHANGED <<mem, topOfStack, pxCurrentTCB, at, hw, work>>
  BY DEF LoadT0, WorkType, Registers
<1>4. Resumes(t, work[t], mem, cpu'.regs, d, cpu'.pc)
  BY <1>2, <1>3 DEF Resumes
<1>5. Running'
  BY <1>1, <1>3, <1>4, TaskContext DEF Running, InSysTick
<1>6. OthersSaved'
  BY <1>3, OthersStay, SameMemory DEF AllSaved
<1>7. WorkType' /\ NotYetRun'
  BY <1>3 DEF WorkType, NotYetRun, Created
<1> QED
  BY <1>5, <1>6, <1>7

\* xPortStartFirstTask leaves every task resumable as it returns to the first.
LEMMA ReturnResumes ==
  ASSUME IInv, Resumable, ReturnToFirstTask
  PROVE  Resumable'
<1> USE DEF IInv, StackType, Resumable
<1> DEFINE t == pxCurrentTCB
<1>1. PICK d \in Depths : cpu.sp = <<t, d>> /\ Resumes(t, work[t], mem, cpu.regs, d, cpu.pc)
  BY TaskContext DEF ReturnToFirstTask
<1>2. /\ d = portCONTEXT_SIZE /\ work[t].n = 0 /\ work[t].depth = 0
      /\ cpu.regs["ra"] = Value(t, "pc", 0) /\ cpu.regs["a0"] = Value(t, "a0", 0)
  <2>1. work[t].n \in Nat /\ cpu.pc = Returning
    BY TaskContext DEF ReturnToFirstTask
  <2> QED
    BY <1>1, <2>1, PcIsNoPlace DEF Resumes
<1>3. Above(cpu.sp, portCONTEXT_SIZE) = <<t, 0>>
  BY <1>1, <1>2 DEF Above, portCONTEXT_SIZE
<1>4. /\ cpu'.sp = <<t, 0>> /\ cpu'.pc = Value(t, "pc", 0) /\ cpu'.mie = cpu.mie
      /\ cpu'.regs = cpu.regs /\ mem' = Popped(mem, <<t, 0>>)
      /\ at = "task" /\ UNCHANGED <<topOfStack, pxCurrentTCB, at, hw, work>>
  BY <1>2, <1>3 DEF ReturnToFirstTask
<1>5. Resumes(t, work[t], mem', cpu'.regs, 0, cpu'.pc)
  BY <1>2, <1>4 DEF Resumes
<1>6. Running'
  BY <1>4, <1>5, TaskContext DEF Running, InSysTick, Depths
<1>7. OthersSaved'
  BY <1>4, OthersStay, OnlyPopped DEF AllSaved, OnlyOn
<1>8. WorkType' /\ NotYetRun'
  BY <1>4 DEF WorkType, NotYetRun, Created
<1> QED
  BY <1>6, <1>7, <1>8

\* A task goes on with what it was interrupted with, wherever that was and whatever
\* ran on the way: ResumedIntact, for any set of tasks, any number of tasks created
\* before and after the start, and any use of the stack by the handlers.
THEOREM ResumedCorrect == SwitchSpec => []ResumedIntact
<1>1. SwitchInit => Resumable
  BY DEF SwitchInit, Resumable, WorkType, NotYetRun, OthersSaved, Running, Created, InSysTick,
         NoRegisters
<1>2. IInv /\ Resumable /\ [SwitchNext]_switchVars => Resumable'
  BY CreateResumes, TaskRunsResumes, YieldResumes, StartResumes, LoadT0Resumes,
     ReturnResumes, SwEnterResumes, MoveSpResumes, StoreRegistersResumes, StoreMepcResumes,
     SwitchContextResumes, RestoreResumes, SysTickEnterResumes, IncrementTickResumes,
     SysTickLeaveResumes, EthIrqResumes
  DEF SwitchNext, SW_Handler
<1>3. IInv /\ Resumable => ResumedIntact
  <2> SUFFICES ASSUME IInv, Resumable, InTask PROVE ResumedIntact
    BY DEF ResumedIntact
  <2>1. PICK d \in Depths :
           /\ cpu.sp = <<pxCurrentTCB, d>>
           /\ Resumes(pxCurrentTCB, work[pxCurrentTCB], mem, cpu.regs, d, cpu.pc)
    BY TaskContext DEF InTask
  <2>2. Word(<<pxCurrentTCB, 1>>) = WordIn(mem, <<pxCurrentTCB, 1>>)
    BY DEF Word, WordIn
  <2> QED
    BY <2>1, <2>2, TaskContext DEF ResumedIntact, InTask, Resumes
<1> QED
  BY <1>1, <1>2, <1>3, Inductive, PTL DEF SwitchSpec
=============================================================================
