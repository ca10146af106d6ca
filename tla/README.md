# Verification of the CH32V307 lwIP firmware

TLA+ models of the firmware in `src/`, the TLC runs that check them on small
instances, and theorems about them that TLAPS checks for every value of the
constants. The firmware runs FreeRTOS and lwIP on a WCH CH32V307 (one RISC-V
core, an Ethernet MAC with DMA and an internal 10BASE-T PHY) and serves HTTP on
an address it gets over DHCP.

## 1. Inventory

| Component | State it keeps | Operations | Talks to |
|---|---|---|---|
| Receive path: `eth_driver.c`, `ethernetif.c` | `DMARxDscrTab`, `Rx_Buff`, `DMARxDescToGet`, the DMASR bits | `ETH_IRQHandler`, `ETH_RxPkt_ChainMode`, `low_level_input`, `ethernetif_input` | the receive DMA (shared descriptors), the pbuf pool, the mailbox of `tcpip_thread` |
| Transmit path: the same files | `DMATxDscrTab`, `Tx_Buff`, `DMATxDescToSet`, TBUS | `low_level_output`, `ETH_TxPkt_ChainMode` | the transmit DMA, called by `tcpip_thread` |
| Heap: `heap_4.c` | free list, block headers, byte counters | `pvPortMalloc`, `pvPortCalloc`, `vPortFree`, `vPortGetHeapStats` | every task; `vTaskSuspendAll` |
| Critical sections: `port.c`, `portmacro.h` | `uxCriticalNesting` | `vPortEnterCritical`, `vPortExitCritical` | the kernel, lwIP's `SYS_ARCH_PROTECT` |
| Context switch and start: `portASM.S`, `port.c` | task stacks, `pxCurrentTCB`, `mscratch`, mstatus | `SW_Handler`, `SysTick_Handler`, `xPortStartFirstTask`, `pxPortInitialiseStack` | every task and handler |
| Bring-up: `main.c`, `ethernetif.c`, `init_phy` | PHY and MAC registers, the netif | `main`, `LwIP_Init`, `ethernetif_init`, `low_level_init`, `init_phy` | everything, once, before the scheduler runs |
| Random numbers: `CH30x_RNG_GENERATE` | flags of the generator | one, which waits | lwIP |
| System clock: `system_ch32v30x.c` | clock tree registers | `SystemInit`, `SetSysClock`, `SystemCoreClockUpdate` | runs before `main`; PLL3 needs the HSE it starts |
| Pins and LEDs: `main.c`, `eth_driver.c` | GPIO registers | `GETH_pin_init`, `FETH_pin_init`, `GPIO_Toggle_INIT`, the LEDs | called by `main` and `init_phy` |
| Heap variants `heap_1/2/5.c` | as `heap_4.c`; `heap_5.c` has several regions | the same functions, `vPortDefineHeapRegions` | the Makefile builds one heap |
| `heap_3.c`, MPU wrappers | none | not part of the build | |
| lwIP, FreeRTOS kernel | submodules, not in the repository | external | |
| Vendor peripheral library, startup | third party | register access | |

How they interact. The MAC writes frames into descriptors of the receive ring
and raises `ETH_IRQHandler`, which takes one frame, copies it into a pbuf and
posts that to `tcpip_thread`. `tcpip_thread` does all of lwIP's work, frees the
pbuf, and sends by calling `low_level_output`, which copies into the transmit
ring and hands the descriptor to the transmit DMA. Tasks share the heap and
lwIP's pools; the kernel and lwIP protect their data with critical sections,
which in this port mask nothing.

What is hard:

- The DMA, the handler and the tasks share descriptors and flags with no lock,
  only the OWN bit and write-one-to-clear flags. One flag stands for any number
  of frames and is read, cleared and raised again in any order.
- The interrupt handler has priority over everything and allocates from a pool
  that tasks also use. Critical sections exclude neither it nor the tick.
- A frame is copied out of, and into, a buffer that may be the DMA's at the time.
- Rings, pools and the mailbox fill up; the error of a full transmit ring is not
  looked at.
- A suspended DMA must be resumed by somebody: wake-ups can be lost.
- The heap is split and merged for ever, with sizes near the end of `size_t`.
- The bring-up waits for hardware with delays that, before the scheduler runs,
  do not wait, but delay a task.
- The oscillator may not start; the PHY may not answer; the random number
  generator may report errors at any time.
- A task is switched in assembly, on a stack that an interrupt of higher priority
  may be using, from a frame that another function has laid out.

What makes each component correct:

- Receive: driver and DMA agree on who owns which descriptor; frames are taken
  once, in order, unchanged; each call of `ETH_RxPkt_ChainMode` has a frame to
  take; a full ring has a frame about to be taken; pbufs are neither lost nor freed twice;
  every frame is eventually taken.
- Transmit: packets leave in order; one is lost or damaged only when the ring is
  full, and then the oldest; the transmitter never sleeps with a full ring.
- Heap: blocks tile the heap; the list is sorted, complete and merged; the
  counters are exact; users' regions never overlap.
- Critical sections: the counter counts, wherever an interrupt comes; what is
  inside is excluded.
- Context switch: a task gets back the registers it had; no two contexts use the
  same stack memory.
- Bring-up: no interrupt before rings, netif and mailbox exist; the MAC is set as
  the PHY negotiated; the pins of the PHY's interface are its own; the scheduler
  starts whatever the PHY does.
- System clock: the core runs at the frequency that the rest of the firmware
  computes its timers from.
- Random numbers: a call returns whatever errors there were.

## 2. Modules

| Module | Models | Role |
|---|---|---|
| `RxQueue`, `TxQueue` | | what the rings promise: a bounded FIFO, which on transmission loses or replaces packets when it is full |
| `EthRxRing` | the receive path with its DMA, pool, mailbox and thread | refines `RxQueue` |
| `EthTxRing` | the transmit path with its DMA | refines `TxQueue` |
| `EthRxRing_proofs`, `EthTxRing_proofs`, `Heap4_proofs`, `Heaps_proofs`, `CriticalSection_proofs`, `ContextSwitch_proofs`, `SysClock_proofs`, `BringUp_proofs` | | theorems and their proofs |
| `Allocator` | | what `pvPortMalloc`, `pvPortCalloc` and `vPortFree` promise |
| `Heap1`, `Heap2`, `Heap4`, `Heap5` | `heap_1.c`, `heap_2.c`, `heap_4.c`, `heap_5.c` | each refines `Allocator`; `Heap5` uses parts of `Heap4` |
| `HeapStats` | `vPortGetHeapStats` of `heap_4.c` and `heap_5.c` | reads the heap of `Heap4` while tasks change it |
| `Heaps` | the choice of an allocator in the Makefile | composes `Heap1`, `Heap2`, `Heap4`, `Heap5` and `HeapStats`: a behaviour is one of one of them |
| `CriticalSection` | the critical sections of `port.c`, and the pbuf pool they should protect | |
| `ContextSwitch` | `portASM.S` and `SysTick_Handler` of `port.c` | |
| `SysClock` | `system_ch32v30x.c` and the clock tree | runs alone, and as the first part of `BringUp` |
| `Pins` | GPIO configuration, as operators on the state of the ports | used by `BringUp` |
| `Rng` | `CH30x_RNG_GENERATE` and the generator | composed into `BringUp` |
| `BringUp` | `main.c`, `ethernetif_init`, `low_level_init`, `init_phy`, the start of the scheduler | composes `SysClock`, `Pins` and `Rng` |
| `MCEthRxRing`, `MCEthTxRing`, `MCHeaps`, `MCSysClock`, `MCBoot`, `MCCriticalSection`, `MCPort` | | constants and symmetry for TLC; `MCPort` puts `CriticalSection` and `ContextSwitch` side by side in one run |

### EthRxRing

State: the Status word of each descriptor (`status`), its buffer (`buf`), the
DMA's current descriptor and activity (`cur`, `dma`), the bits R, T, NIS and
RBUS, `DMARxDescToGet` (`get`), the place in `ETH_IRQHandler` (`irq`), the frame
and the pbuf it holds, the free pbufs, the mailbox, and what `tcpip_thread`
holds. The handler is split where another actor could come between: reading R,
clearing R, `ETH_RxPkt_ChainMode` (`RxPkt`), `pbuf_alloc` (`Alloc`,
`AllocFails`), memcpy (`Copy`), `netif->input` (`Input`, `InputFails`), T, NIS.
`ETH_RxPkt_ChainMode` is one step because the DMA looks at nothing that it
changes except OWN, which it sets once. It sets OWN, and the frame is copied
afterwards, as in the code. A frame can fit a buffer, have an error, or be
longer than a buffer (it then uses two descriptors, or is cut short).

About the hardware and lwIP the code says nothing; these choices are explicit:

- `AutoResume`: whether a suspended receive DMA looks again when a frame
  arrives. The theorems hold for both values. Liveness needs TRUE: the driver
  would resume the DMA in the branch for a set OWN bit, and `TakeFindsFrame` says
  that this branch is never executed.
- `NisLevel`: whether the interrupt line follows R and T as well as NIS. The
  handler clears NIS last. With a line that follows only NIS, an R raised just
  before is not served until the next event: the ring can be full with R set and
  the line low. So `FullIsSignalled` and `FrameTaken` are about a line that follows
  R, and with NIS alone TLC finds both violated. The other theorems hold for both
  values. `rx_ring` uses TRUE: every step of the driver with FALSE is one with TRUE,
  where the interrupt may come in more states.
- A frame that is cut short raises R like any frame that ends.
- NIS stays set until it is cleared. A pbuf from the pool holds any frame the
  driver can return, so pbufs are not chained.
- `tcpip_input` fails when all its messages are taken; there are as many messages
  as places in the mailbox, and each is freed by `tcpip_thread` after use.
- Allocation and release of a pbuf are taken as steps. `CriticalSection` shows
  that in this port they are not: the guarantees of `EthRxRing` about pbufs are
  those of a build with critical sections that work.

### EthTxRing

State: OWN, buffer and handed-over packet of each descriptor, the DMA's current
descriptor and activity, what it read from the buffer, TBUS, `DMATxDescToSet`,
and the sender's place. `low_level_output` copies first (`CopyToBuffer`), then
`ETH_TxPkt_ChainMode` refuses (`TxPktRefused`) or hands over (`HandOver`), reads
TBUS, clears it, and resumes the DMA, one step each. `SplitFetch` says whether
the DMA reads OWN and suspends in one step or in two. A call does not begin
between these two: it takes thousands of cycles and they take a few.

The refinement maps what the buffers hold (`buf`, of the descriptors with OWN, from
the DMA's on), what the DMA has read and sends (`wire`) and the packet of the call;
`queued`, a history variable with what was handed over, is only there to compare.
What `TxQueue` promises is thus what the receiver sees: contents leave in order,
each once it is at the head; a packet is lost (`Lose`), or takes the place of the one
at the head (`Replace`), only while all descriptors are waiting. It can be queued as
well after that, when the DMA has made room before OWN is looked at, and is then
sent twice. lwIP is told `ERR_OK` in all cases.

### Heap4

State: `heap`, with the size of every block, the list as a map from each node to
the next, `xFreeBytesRemaining` and `xMinimumEverFreeBytesRemaining`; `asked`,
the size each user asked for (its domain is the set of blocks with the allocated
bit); `freeing`, the block each task is between the two halves of `vPortFree`
with. `pvPortMalloc` is one step because it runs between `vTaskSuspendAll` and
`xTaskResumeAll` and no handler uses the heap. `vPortFree` is two: it clears the
allocated bit before it suspends the scheduler. Sizes are bytes of a `size_t`
with `SizeLimit` values; ucHeap may begin at any address. The list is searched
in address order, which `ListInOrder`, checked at the same time, shows to be the
order of the list.

### Heap1, Heap2, Heap5, HeapStats and Heaps

`Heap1` has an index that only grows; `Heap2` a list in order of size that is
never merged, and `vPortFree` in two steps as in `heap_4.c`. `Heap5` has the
state of `Heap4` over several regions with a node of size zero at the end of
each; where the text of the two files is the same it uses the operators of
`Heap4`. `HeapStats` takes one step for the walk, which runs with the scheduler
suspended, and one for each counter after it, since the critical section there
masks nothing. `heap_5.c` counts those nodes as free blocks in
`xNumberOfFreeBlocks`, although the comment at `heap_5.c:564` says that the walk
leaves out blocks that are not heap; no property is about that number.

`Heaps` puts the allocators side by side: its initial state names the one that is
built, and only that one takes steps. `heap_4.c` is in it twice, alone, and with
calls of `vPortGetHeapStats` on a heap of its own size.

### CriticalSection

State: `uxCriticalNesting`, each task's register for its read-modify-write, the
running task, each task's place and the handler's, and the free list of the
pbuf pool as memp keeps it. The tick can switch tasks anywhere and the handler
can run anywhere, since `portDISABLE_INTERRUPTS` and `portENABLE_INTERRUPTS` are
a nop (`portmacro.h:118`). `overlap` is a history variable: a task has stored the
counter while another was between its load and its store. With two tasks the tick
makes this happen, and an update is lost; `CountsUnlessOverlap` says that nothing
else loses one, neither the handler nor a task that is switched away in a change.
`configASSERT`, which `vPortExitCritical` applies to the counter, is not defined
(`FreeRTOSConfig.h:145`), so that a counter of zero wraps; nothing else reads it.

### ContextSwitch

State: the registers of the core (those the code names, and one for the others),
stack pointer, pc, mepc, MIE and MPIE; the words on the stacks; the first member
of each TCB; `pxCurrentTCB`; `mscratch`; the pended software interrupt; the place
in a handler. A frame has one word for each register. `SW_Handler` is split at
every point where `ETH_IRQHandler`, which writes below the stack pointer it
finds, makes a difference, up to the write to register 0x804 that keeps it out.
`xPortStartFirstTask` is split after the write that enables interrupts.
External: the hardware saves the registers that compiled handlers may change
(and mepc) in memory of its own; the kernel may choose any task that exists; a
task changes all of its registers at once and uses a word of its stack or none.
Of mstatus the bits MIE and MPIE are modelled: the core stays in machine mode and does
not use the floating point unit, so that the others do not change; a wrong constant
for them in a new frame would not be seen.
`work` is a history variable: what the task last did. The actions are named
`SwitchInit`, `SwitchNext` and `SwitchSpec` because `MCPort` extends this module
and `CriticalSection` both.

### SysClock

State: the fields of `RCC->CTLR` and `RCC->CFGR0` that the file touches, the
place in `SystemInit`, the counter of the wait for HSE, and the build: which
`SYSCLK_FREQ_` macro is defined, which kind of chip runs it. The eight variants
of `SetSysClock` share their text but for the factor and the divider of PCLK1,
and `FromPll` is that text. The hardware (HSE starts, the PLL locks, the switch
is made) takes steps of its own. `Frequency` is the reference manual's clock
tree, against which `SystemCoreClockUpdate` is checked.

### BringUp, Pins and Rng

State: the place in `main` and the functions it calls, in the order of the code;
`gpio`, the ports with a clock, the mode of each configured pin and the outputs;
PLL3; the status of the PHY; the MAC (its clock, reset, mode, interrupt enable,
rings, DMA); the netif as far as the interrupt handler uses it; the tasks and the
interrupt enable of the core. The hardware's steps come between any two of the
code. A read of the PHY may time out, which the code takes for zero. The
branches that print an error and block are not reached: `timeout` is set just
before it is decremented and compared with zero.

`vTaskDelay` before the scheduler runs is the kernel's (external): it moves the
task created last to the delayed list, sets `xNextTaskUnblockTime`, pends a
switch that cannot happen yet, and returns. `vTaskStartScheduler` resets
`xNextTaskUnblockTime`, so that `tcpip_thread`, which `init_phy` has delayed, is
woken only when `t1_task` delays and its five seconds are over: `TcpipThreadRuns`
holds because of `t1_task`, and its mutant, a task that does not delay, breaks it.

Nothing in the repository calls `CH30x_RNG_GENERATE`. Its comment says it is for
lwIP, so `tcpip_thread` may call it. Its delays are of zero ticks at 500 Hz.

## 3. Runs

Passing runs:

| Run | Bounds | Shows |
|---|---|---|
| `rx_ring` | 3 descriptors, 2 contents, 1 pbuf, 1 place | the ring invariants, the refinement of `RxQueue`; a full ring is signalled |
| `rx_live` | 3 descriptors, 2 pbufs, 1 place, traffic | pbufs are conserved although `pbuf_alloc` and `tcpip_input` both fail; every frame in the ring is taken |
| `tx_ring` | 4 descriptors, 2 packets, traffic | the ring invariants, the refinement of `TxQueue`; every packet is sent |
| `heaps` | `heap_4.c`: 12 aligned units at an odd address, 2 tasks, sizes 0 to 63 of a 6-bit `size_t`; the others smaller, `heap_5.c` with two adjoining regions | the shape of each heap, exact counters, room for what was asked, the refinement of `Allocator`, reports that are consistent |
| `clock` | 9 builds, 2 kinds of chip, HSE looked at 4 times at most | `SystemInit` returns; the core's frequency is the one declared, or HSI's; every code of every factor is decoded right |
| `boot` | 4 interfaces to a PHY, HSE looked at twice, 2 errors of the generator | nothing the interrupt handler needs is missing; the scheduler starts once HSE does; `tcpip_thread` runs; the pins of an external PHY are right; random numbers come |
| `port` | context switch: 2 tasks, 2 words below an interrupted stack pointer, 3 reserved; critical sections: 2 tasks, 2 elements | tasks go on with what they had; the interrupt stack is shared in turn; `uxCriticalNesting` survives the handler and the tick, until changes of it overlap |

Why the bounds are enough: three descriptors let the driver be behind, at and
ahead of the DMA with one descriptor to spare, and a giant frame wraps round; the
firmware has four, and the theorems cover all numbers. Two contents tell any
frame from another. The heap holds up to six smallest blocks, enough for every
merge (with the block before, after, both, none), and the sizes include zero,
those for which the header or the product wraps, and those with the top bit set.
Two tasks are enough for the context switch: a task is switched to another, or to
itself, before and after it has run, and one is created while the other runs; a
task's stack and the interrupt stack are told apart word by word. HSE needs two
looks: one at which the code goes on and the last. The PHY may lose its link any
number of times. All runs are exhaustive; no state constraint is used. Deadlock
is checked in every run but `clock`, in which `SystemInit` returns and nothing is
left to do, and `boot_wait`, which stops at the violation.

A union of models side by side (`Heaps`, `MCPort`) shows of each what a run of its
own would: its variables change only in the behaviours of its variant.

Runs that find what the code does against its own comments:

| Run | What is found |
|---|---|
| `rx_copy` | a frame is copied after its descriptor went back to the DMA: with the other descriptors full the pbuf holds a later frame |
| `rx_stuck` | one frame is taken per interrupt: when traffic stops, frames stay in the ring |
| `tx_wire` | a packet for a full ring overwrites the oldest one that is queued |
| `boot_wait` | `init_phy` looks once whether the autonegotiation is complete and starts the MAC whether it is or not, with half duplex when it is not |
| `critical_pool` | the handler's `pbuf_alloc` in the middle of `memp_free` puts a pbuf in use back into the free list |

More things the models show and no run is kept for. `eth_driver.c:95` enables the
clock of GPIOA for LEDs that are on GPIOB, whose clock the build with the internal
PHY never enables: the link LED of `eth_driver.c:275` does not light (`LedPins`
writes to a port that ignores it). In the MII build `FETH_pin_init` takes PB8, the
link LED's pin, for the interface, and `Ethernet_LED_LINKSET` still writes its
output. A build without a `SYSCLK_FREQ_` macro leaves HSE off, and then the wait
for PLL3 in `init_phy` never ends. A frame with an error has
length zero, for which `pbuf_alloc` succeeds: an empty pbuf goes to lwIP, although
`ethernetif.c:213` says such a frame is ignored.

### Fairness

`FairSpec`: the DMA finishes what it began; an interrupt that is raised is taken,
nothing masks it, and the handler has no loop that waits; `tcpip_thread` waits
only for its mailbox, and the other tasks leave it time (`t1_task` sleeps for
five seconds between its lines). All are weak fairness of a group of steps of
which at most a few are enabled together. `TrafficSpec` adds that frames keep
arriving, or that lwIP goes on sending: both liveness results need it, and
`rx_stuck` shows what happens without. In `SysClock` and `BringUp` the code goes
on and PLLs lock and switches are made (`ClockFairness`, `Fairness`): the code
waits for these without a bound, so nothing could be promised otherwise; the MAC
leaves its reset, ticks come, ready tasks run (the two have work to do only in
turn). Nothing is assumed of HSE, of the PHY and of the other end of the cable.
`Rng`: the generator makes a number when no error is flagged, and the clock comes
back. With `SplitFetch` false packets are sent
without it, because the DMA then misses no hand-over (no run is kept for this case).

## 4. Proofs

For every number of descriptors (at least two), contents, pool and mailbox size,
and both values of each hardware constant, except that `FullCorrect` has the
hypothesis `NisLevel`:

- `EthRxRing_proofs`: `TypeCorrect`, `WindowCorrect`, `TakeCorrect`,
  `FullCorrect`, `CopyCorrect`, `PbufsCorrect`, and `QueueCorrect`: the receive
  ring implements `RxQueue`.
- `EthTxRing_proofs`: `TypeCorrect`, `WindowCorrect`, `TbusCorrect`,
  `LeavesOneCorrect`, `DamageCorrect`, and `QueueCorrect`: the transmit ring
  implements `TxQueue`.
- `CriticalSection_proofs`: `TypeCorrect` and `CountCorrect`, for any finite set of
  tasks and any pool, where a `UBaseType_t` can count the tasks and the handler.
- `Heap4_proofs`: `TypeCorrect`, `TilesCorrect`, `PlaceCorrect`, `ListCorrect`,
  `AdjoiningCorrect`, `CountCorrect`, `MinimumFalls`, and `AllocatorCorrect`:
  `heap_4.c` implements `Allocator`. For any address of `ucHeap`, any size of it with room
  for a block and of at most half the values of `size_t`, any alignment, header and width of `size_t`, any tasks and any sizes
  asked for.
- `Heaps_proofs`, for the same constants: `Heap1Correct`, `Heap2FormCorrect` and
  `Heap2Correct`, the shape of `heap_2.c` and that both implement `Allocator`;
  `ReportCorrect` about `vPortGetHeapStats`; and `Heap5FormCorrect`, `Heap5Correct`
  and `Heap5MinimumFalls`, the same of `heap_5.c` with any number of regions.
- `BringUp_proofs`: `PreparedCorrect` and `MacPinsCorrect`, for any set of builds,
  any time-out of HSE and any number of errors of the generator.
- `ContextSwitch_proofs`: `InterruptStackCorrect` and `ResumedCorrect`, for any set
  of tasks, any use of the stack by handlers and any reserve below the top of the
  interrupt stack.
- `SysClock_proofs`: `DeclaredCorrect` and `UpdateCorrect`, for any set of builds
  and any time-out of HSE.

The assumptions are the named ones of `EthRxRing`, `EthTxRing`,
`Heap4` (the header is a multiple of the alignment, the first
block begins below `*pxEnd`, the heap ends below `SizeLimit` and is at most half as
long, so that no size collides with the bit that marks a block as allocated,
`heap_4.c:73`, and a size asked for fits a `size_t`), `Heaps` (the same of the other
heaps and of the regions of `heap_5.c`, in the order of their addresses and together
within half of `SizeLimit`), those of `CriticalSection` above, `ContextSwitch` (no task has
the name of the stack of `main` or of the handlers) and `SysClock` (each build
is for one of the two kinds of chip); `BringUp` needs none of its own.

The argument for the receive ring. None of the invariants is inductive alone.
`RingWindow` gives the ring its arithmetic: the number of closed descriptors is a
function of the two pointers. `SignalsCovered` is the heart: the pending R and
the call of `ETH_RxPkt_ChainMode` that is about to look each have a closed
descriptor of their own. It survives because R is raised only as a descriptor is
closed, and because clearing R (`ClearedIsSet`: it is still set then) comes
before the frame is taken. From it follows that the call finds a frame. That a
full ring has R set, or is about to have a frame taken (`FullIsNoticed`), is inductive
with these: the last descriptor can only become closed at the end of a frame, with R.
That the interrupt line is then raised is what `NisLevel` says. `TakenBehindGet` says that between
`ETH_RxPkt_ChainMode` and the copy the frame is just behind `DMARxDescToGet`,
where the DMA comes last.

The argument for the transmit ring. `TbusMeansSuspended` and
`SuspendedShowsTbus` tie TBUS to the suspended DMA; `LateHandOver` counts what
can be pending when the DMA found nothing: one packet, the one handed over while
it suspended. `PacketsQueued` says that what is handed over is what was copied,
so that only a copy to a descriptor that was not checked damages anything, and a
refused copy goes to the oldest descriptor.

The refinements map the ring to the sequence of the contents of the waiting
descriptors. Each step maps to `Put` or `Take` of `RxQueue`, to `Call`, `Send`,
`Replace`, `Lose`, `Begin` or `Sent` of `TxQueue`, or to a stutter. A copy to a
descriptor of the driver changes no waiting buffer; one to a descriptor with OWN
finds, by `RingWindow`, that all are waiting and that it is the head's.

The counter of `CriticalSection`: inductive together with what the registers of the
tasks hold between load and store (`RegistersCount`): as long as no changes overlapped,
the number of sections that tasks have open. A task loads only when the handler is idle,
and the handler leaves the counter as it found it; the store of one of two tasks in a
change sets `overlap`.

The bring-up: `Progress` says what has been done at each place of `main`. The
interrupt is enabled at the place `"chains"`, before the rings are made, and the
core cannot take it before the place `"tasks"`; on the path on which `mem_malloc`
fails neither it nor the DMA is ever enabled.

The interrupt stack: `OwnStack` says that the first member of each TCB, and the
stack pointer until `vTaskSwitchContext` is called, are in the task's own stack,
so that what `SysTick_Handler` swaps out of `mscratch` is what it swapped in.

What a task resumes with: `Resumable` says, for every place of the handlers, where
the context of each task is. One that does not run is `Saved`, all of it in a frame
whose top its TCB names. The one that runs is in the core, in what the hardware
saved on the interrupt, or half in each while `SW_Handler` copies it, with its
stack pointer already below the frame, so that `ETH_IRQHandler`, which writes below
the pointer it finds, does not reach it. The lemmas of the section "Memory" reduce
each step to which stack it changes and from which word down. `ResumedIntact` needs
all of this: it looks only at the moment at which a task runs again, and what it
has then was put together by all the steps before.

The pins: `PinsInv` says that from the software reset of the MAC on each pin of the
interface to an external PHY has its mode. (The build for the internal PHY, which
`eth_driver.c:12` selects, has no such pins, and the theorem is empty there.) It is preserved because a
port that has its clock keeps it and because no later configuration names a pin of
the interface in use.

The clock: `IInv` says that the switch stays on HSI until a source has been made
ready and selected, that the PLL, when it is used, has the factor of the build
(`PllSet`), and that the hardware's switch follows only to what was selected.
`DeclaredIsActual` then is arithmetic over the codes: that the macros mean the
factors they are named for on both kinds of chip (`CodesAreFactors`), and that the
decoding of `SystemCoreClockUpdate` agrees with the clock tree, code by code.

`heap_4.c`: the lemmas are about a heap with a layout `L`, which gives for the
first address of each region the address of its end, so that they serve `heap_5.c`
as well; `heap_4.c` has the layout `Whole`, of one region. `IInv` has three parts. `Tiles`: the blocks cover the regions, each ends
where another begins or its region ends, and all are aligned. `Chain`: each node of the list leads to a
later one, and nothing of the list lies between the two. And that every block that
is not in the list is in use or on its way back, in one place only, and is long
enough for what was asked. `prvInsertBlockIntoFreeList` is taken apart into three
changes that each keep `Tiles` and `Chain`: link the block in, merge it with the
block after, merge it with the block before (`InsertIs`, `LinkChain`, `JoinKeeps`).
That no two free blocks adjoin is preserved because a merge removes just the pairs
that the new block made. The counter is compared with the number of bytes that the
free blocks cover, and not with a sum over the list: the bytes of disjoint blocks
add up by the cardinality of disjoint unions, without induction. For the refinement
block `b` in use is the region at `b + Header`; regions are apart because blocks
are. `MinimumFalls`, that no step raises `xMinimumEverFreeBytesRemaining`, is an
action property of the same invariant.

`heap_1.c`: all that was given out lies below `xNextFreeByte`. `heap_2.c`: `Parts`
(the blocks cover the heap and are apart; they need not adjoin in the list, which is
in another order) and `BySize` (the list is in order of size and has each block
once). A block is inserted after all that are smaller, wherever in the heap it lies,
and the place exists because the loop stops at the end of the list. The lemmas about
regions and covered bytes are those of `Heap4_proofs`.

`heap_5.c`: `IInv5` is the invariant of `heap_4.c` for the layout of the regions
that `vPortDefineHeapRegions` was given. A node at the end of a region is a block of
no bytes. It stays in the list until a block that ends there is inserted, and merged
with it; then nothing begins at that address. So a block ends at another block, at
such a node, or at its region's end. Two regions do not even share an end
(`OneRegion`), so no merge reaches from one into the next, although the merge with
the node links the block to the next region. That no two blocks of the list adjoin is
said only of blocks with bytes, because the first block of a region begins its life in
the list beside its node. `vPortDefineHeapRegions` establishes the invariant
(`FreshTiles`, `FreshChain`, `FreshOrdered`). It compares each region with the one
before (`configASSERT`, `heap_5.c:493`, which is defined as nothing here); the assumption is about any two, which
follows because a region begins before it ends. The calls are the operators of
`Heap4`, and each allocation lies inside the region of its block (`AllocateRefines`),
so that `Allocator` has one area for each region.

The report: the theorems of `Heap4_proofs`, instantiated for the second heap, say
that the minimum never rises and is never above what is free; `Reported` says what
the counter already read bounds of the one still to be read. The order of the two
reads matters, and its mutant, the other order, breaks the property.

Model-checked only:

- liveness (`FrameTaken`, `PacketSent`, `ClockSettles`, `SchedulerStarts`,
  `TcpipThreadRuns`, `RngReturns`), which is beyond the prover. Every safety
  property of a passing run is stated by a theorem.

## 5. Not modelled

- lwIP and the FreeRTOS kernel are submodules whose sources are absent. What the
  firmware needs of them is in external actions.
- The values of the MAC's configuration registers other than the duplex mode, and
  the MAC address: constants that are written once. `PHY_control_pin_init` has no
  caller (it would configure PB15 and connect the interrupt of PA15).
- Fault handlers and the stack overflow hook: they print and stop.
- MPU wrappers: not built; no function of them keeps state. `heap_3.c`: calls the
  C library. The macros of `cc.h` and `lwipopts.h`: configuration of lwIP.
- The numbers of blocks, and of calls, in the report of `vPortGetHeapStats`.
- Floating point registers: `ARCH_FPU` is 0, and the macros that save and restore
  them are empty.
- Malformed calls: freeing a pointer twice, or one that was never allocated.

## 6. Plan

In this order:

1. Done: `EthRxRing`, `EthTxRing`, their abstract queues and proofs; `Allocator`
   with `Heap1`, `Heap2`, `Heap4`, `Heap5`, `HeapStats` and `Heaps`;
   `CriticalSection`; `ContextSwitch`; `SysClock`, `Rng`, `Pins` and `BringUp`.
   Theorems about all of these but `Rng`, whose one property is liveness.
2. Not done: `EthDriver`, both rings with the one handler and the one status
   register they share. The handler clears T and NIS without looking at the
   transmit ring, and `low_level_output` touches only TBUS, so that the two meet in
   NIS and in the time they take; `EthRxRing` already lets T and NIS be raised at any time.
