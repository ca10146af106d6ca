------------------------------- MODULE BringUp -------------------------------
(***************************************************************************)
(* From reset to the running firmware: SystemInit (module SysClock), then  *)
(* main and LwIP_Init of main.c, ethernetif_init and low_level_init of     *)
(* ethernetif.c, init_phy of eth_driver.c (its pins in module Pins),       *)
(* and the start of the scheduler in port.c.  All of it runs before the    *)
(* first task, with the interrupts off, so that every vTaskDelay of        *)
(* init_phy returns at once; it delays the task created last instead.      *)
(* The clocks, the PHY and the MAC take steps of their own.                *)
(***************************************************************************)
EXTENDS SysClock, Pins, Rng

VARIABLES
    at,     \* what main executes next
    gpio,   \* the ports of Pins
    pll3,   \* [on, rdy]: the clock for the PHY
    phy,    \* [resetting, linked, negotiated, full]: the PHY's status
    eth,    \* the MAC: in reset, its clock, mode, interrupt, rings and DMA
    netif,  \* lwip_netif and the mailbox of tcpip_thread
    sched   \* the tasks and the interrupt enable of the core

bootVars == <<at, gpio, pll3, phy, eth, netif, sched>>
allVars == <<build, clockVars, rngVars, bootVars>>

Init ==
    /\ ClockInit /\ RngInit
    /\ at = "main"
    /\ gpio = GpioReset
    /\ pll3 = [on |-> FALSE, rdy |-> FALSE]
    /\ phy = [resetting |-> FALSE, linked |-> FALSE, negotiated |-> FALSE, full |-> FALSE]
    /\ eth = [resetting |-> FALSE, clocked |-> FALSE, mode |-> "none", irq |-> FALSE,
              rings |-> {}, dma |-> FALSE]
    /\ netif = [mbox |-> FALSE, input |-> FALSE, state |-> FALSE, linkoutput |-> FALSE,
                linkUp |-> FALSE, up |-> FALSE]
    /\ sched = [mie |-> FALSE, current |-> "none", ready |-> {}, delayed |-> {},
                unblock |-> FALSE, ran |-> {}]

(***************************************************************************)
(* The kernel, before and after the scheduler is started.                  *)
(***************************************************************************)

\* A task that is created before the scheduler runs becomes pxCurrentTCB when no
\* other has a higher priority; main creates them in that order.
Created(s, t) == [s EXCEPT !.ready = s.ready \union {t}, !.current = t]

\* vTaskDelay(n), n > 0, before the scheduler runs: pxCurrentTCB goes to the
\* delayed list and xNextTaskUnblockTime is set, and the caller goes on.
vTaskDelay(s) ==
    [s EXCEPT !.ready = s.ready \ {s.current}, !.delayed = s.delayed \union {s.current},
              !.unblock = TRUE]

\* vTaskStartScheduler forgets xNextTaskUnblockTime, and the first task enables
\* the interrupts.
Scheduled(s) == [s EXCEPT !.current = "timer", !.unblock = FALSE, !.mie = TRUE]

\* The ticks up to xNextTaskUnblockTime, that is of the delay of t1_task, which is
\* longer than those of init_phy: every delayed task is ready again.
Tick ==
    /\ sched.mie /\ sched.unblock
    /\ sched' = [sched EXCEPT !.ready = sched.ready \union sched.delayed,
                              !.delayed = {}, !.unblock = FALSE]
    /\ UNCHANGED <<at, gpio, pll3, phy, eth, netif>>

TcpipThread ==
    /\ sched.mie /\ "tcpip_thread" \in sched.ready
    /\ sched' = [sched EXCEPT !.ran = sched.ran \union {"tcpip_thread"}]
    /\ UNCHANGED <<at, gpio, pll3, phy, eth, netif>>

\* Mutant: the task does not delay.
t1_task_spins ==
    /\ sched.mie /\ "t1_task" \in sched.ready
    /\ sched' = [sched EXCEPT !.ran = sched.ran \union {"t1_task"}]
    /\ UNCHANGED <<at, gpio, pll3, phy, eth, netif>>

\* The task that main creates delays again and again.
t1_task ==
    /\ sched.mie /\ "t1_task" \in sched.ready
    /\ sched' = [sched EXCEPT !.ran = sched.ran \union {"t1_task"},
                              !.ready = sched.ready \ {"t1_task"},
                              !.delayed = sched.delayed \union {"t1_task"},
                              !.unblock = TRUE]
    /\ UNCHANGED <<at, gpio, pll3, phy, eth, netif>>

(***************************************************************************)
(* The hardware.                                                           *)
(***************************************************************************)

\* PLL3 is fed by HSE.
Pll3Locks ==
    /\ pll3.on /\ ~pll3.rdy /\ rcc.hseRdy
    /\ pll3' = [pll3 EXCEPT !.rdy = TRUE]
    /\ UNCHANGED <<at, gpio, phy, eth, netif, sched>>

MacResets ==
    /\ eth.resetting
    /\ eth' = [eth EXCEPT !.resetting = FALSE]
    /\ UNCHANGED <<at, gpio, pll3, phy, netif, sched>>

\* The PHY leaves its reset, finds a link, agrees with the other end on a mode, and
\* loses the link.
PhyChanges ==
    /\ \/ /\ phy.resetting
          /\ phy' = [phy EXCEPT !.resetting = FALSE]
       \/ /\ eth.clocked /\ ~phy.resetting /\ ~phy.linked
          /\ phy' = [phy EXCEPT !.linked = TRUE]
       \/ /\ phy.linked /\ ~phy.negotiated
          /\ \E full \in BOOLEAN :
                phy' = [phy EXCEPT !.negotiated = TRUE, !.full = full]
       \/ /\ phy.linked
          /\ phy' = [phy EXCEPT !.linked = FALSE, !.negotiated = FALSE, !.full = FALSE]
    /\ UNCHANGED <<at, gpio, pll3, eth, netif, sched>>

(***************************************************************************)
(* main and LwIP_Init.                                                     *)
(***************************************************************************)
Step(here, there) == at = here /\ at' = there

\* The console is at PA9.
Main ==
    /\ Step("main", "LwIP_Init")
    /\ clockAt = "done"
    /\ gpio' = GPIO_Toggle_INIT(Configured(Clocked(gpio, {"A"}), Pin("A", {9}), "AF_PP"))
    /\ UNCHANGED <<pll3, phy, eth, netif, sched>>

EnableRng ==
    /\ Step("LwIP_Init", "tcpip_init")
    /\ rng' = [rng EXCEPT !.enabled = TRUE]
    /\ UNCHANGED <<rngAt, errors, gpio, pll3, phy, eth, netif, sched>>

tcpip_init ==
    /\ Step("tcpip_init", "netif_add")
    /\ netif' = [netif EXCEPT !.mbox = TRUE]
    /\ sched' = Created(sched, "tcpip_thread")
    /\ UNCHANGED <<gpio, pll3, phy, eth>>

\* netif_add sets the input function and calls ethernetif_init, which gives up when
\* mem_malloc fails; LwIP_Init does not look at the result.
ethernetif_init_fails ==
    /\ Step("netif_add", "netif_set_up")
    /\ netif' = [netif EXCEPT !.input = TRUE]
    /\ UNCHANGED <<gpio, pll3, phy, eth, sched>>

ethernetif_init ==
    /\ Step("netif_add", "low_level_init")
    /\ netif' = [netif EXCEPT !.input = TRUE, !.state = TRUE, !.linkoutput = TRUE]
    /\ UNCHANGED <<gpio, pll3, phy, eth, sched>>

\* The address, the MTU and the flags, NETIF_FLAG_LINK_UP among them.
low_level_init ==
    /\ Step("low_level_init", "init_phy")
    /\ netif' = [netif EXCEPT !.linkUp = TRUE]
    /\ UNCHANGED <<gpio, pll3, phy, eth, sched>>

netif_set_up ==
    /\ Step("netif_set_up", "dhcp_start")
    /\ netif' = [netif EXCEPT !.up = TRUE]
    /\ UNCHANGED <<gpio, pll3, phy, eth, sched>>

dhcp_start ==
    /\ Step("dhcp_start", "xTaskCreate")
    /\ UNCHANGED <<gpio, pll3, phy, eth, netif, sched>>

CreateTask1 ==
    /\ Step("xTaskCreate", "vTaskStartScheduler")
    /\ sched' = Created(sched, "t1_task")
    /\ UNCHANGED <<gpio, pll3, phy, eth, netif>>

xPortStartScheduler ==
    /\ Step("vTaskStartScheduler", "tasks")
    /\ sched' = Scheduled(sched)
    /\ UNCHANGED <<gpio, pll3, phy, eth, netif>>

(***************************************************************************)
(* init_phy.                                                               *)
(***************************************************************************)
EnablePll3 ==
    /\ Step("init_phy", "PLL3RDY")
    /\ gpio' = McoPin(gpio)
    /\ pll3' = [on |-> TRUE, rdy |-> FALSE]
    /\ sched' = vTaskDelay(sched)
    /\ UNCHANGED <<phy, eth, netif>>

WaitPll3 ==
    /\ Step("PLL3RDY", IF pll3.rdy THEN "LEDs" ELSE "PLL3RDY")
    /\ sched' = IF pll3.rdy THEN sched ELSE vTaskDelay(sched)
    /\ UNCHANGED <<gpio, pll3, phy, eth, netif>>

\* The LEDs, the clock and the pins of the MAC, and its reset.
ResetMac ==
    /\ Step("LEDs", "ETH_DMABMR_SR")
    /\ gpio' = CASE build.mac = "10BASE_T" -> LedPins(gpio)
                 [] build.mac = "GIGA" -> GETH_pin_init(LedPins(gpio))
                 [] OTHER -> FETH_pin_init(LedPins(gpio), build.mac = "RMII")
    /\ eth' = [eth EXCEPT !.clocked = TRUE, !.resetting = TRUE]
    /\ UNCHANGED <<pll3, phy, netif, sched>>

\* One look at a flag, which may be seen as wanted or not, and a delay in place of
\* a wait.  The branch for timeout = 0 is not reached: timeout has just been set.
Look(here, there, seen) ==
    /\ Step(here, there)
    /\ \E asWanted \in seen : sched' = IF asWanted THEN sched ELSE vTaskDelay(sched)
    /\ UNCHANGED <<gpio, pll3, phy, eth, netif>>

SoftReset == Look("ETH_DMABMR_SR", "PHY_BCR", {~eth.resetting})

\* The write to the PHY may time out, which the code does not look at.
ResetPhy ==
    /\ Step("PHY_BCR", "PHY_Reset")
    /\ phy' \in {phy, [resetting |-> TRUE, linked |-> FALSE, negotiated |-> FALSE,
                       full |-> FALSE]}
    /\ sched' = vTaskDelay(sched)
    /\ UNCHANGED <<gpio, pll3, eth, netif>>

\* A read of the PHY that times out returns zero, which is as wanted of PHY_Reset,
\* and not as wanted of the flags of the link.
PhyReset == Look("PHY_Reset", "PHY_Linked_Status", {TRUE, ~phy.resetting})
PhyLinked == Look("PHY_Linked_Status", "PHY_AutoNego_Complete", {FALSE, phy.linked})
PhyNegotiated == Look("PHY_AutoNego_Complete", "PHY_SR", {FALSE, phy.negotiated})

\* Half duplex when the PHY says so, does not know yet, or does not answer.
ReadMode ==
    /\ Step("PHY_SR", "MAC registers")
    /\ \E answered \in BOOLEAN :
          eth' = [eth EXCEPT !.mode = IF answered /\ phy.full THEN "full" ELSE "half"]
    /\ sched' = vTaskDelay(sched)
    /\ gpio' = Ethernet_LED_LINKSET(gpio, FALSE)
    /\ UNCHANGED <<pll3, phy, netif>>

\* Up to the enabling of the interrupt.
ConfigureMac ==
    /\ Step("MAC registers", "chains")
    /\ eth' = [eth EXCEPT !.irq = TRUE]
    /\ UNCHANGED <<gpio, pll3, phy, netif, sched>>

\* Mutant: the ring for receiving is not made.
TransmitChainOnly ==
    /\ Step("chains", "ETH_Start")
    /\ eth' = [eth EXCEPT !.rings = {"tx"}]
    /\ UNCHANGED <<gpio, pll3, phy, netif, sched>>

InitChains ==
    /\ Step("chains", "ETH_Start")
    /\ eth' = [eth EXCEPT !.rings = {"tx", "rx"}]
    /\ UNCHANGED <<gpio, pll3, phy, netif, sched>>

ETH_Start ==
    /\ Step("ETH_Start", "netif_set_up")
    /\ eth' = [eth EXCEPT !.dma = TRUE]
    /\ UNCHANGED <<gpio, pll3, phy, netif, sched>>

init_phy ==
    \/ EnablePll3 \/ WaitPll3 \/ ResetMac \/ SoftReset \/ ResetPhy \/ PhyReset
    \/ PhyLinked \/ PhyNegotiated \/ ReadMode \/ ConfigureMac \/ InitChains \/ ETH_Start

Code ==
    \/ Main \/ tcpip_init \/ ethernetif_init \/ ethernetif_init_fails \/ low_level_init
    \/ init_phy \/ netif_set_up \/ dhcp_start \/ CreateTask1 \/ xPortStartScheduler

\* Its comment says that CH30x_RNG_GENERATE is for lwIP, whose thread may call it.
RngCalled == "tcpip_thread" \in sched.ran /\ Call

Next ==
    /\ UNCHANGED build
    /\ \/ ClockNext /\ UNCHANGED <<rngVars, bootVars>>
       \/ (Code \/ Pll3Locks \/ MacResets \/ PhyChanges \/ Tick \/ TcpipThread \/ t1_task)
             /\ UNCHANGED <<clockVars, rngVars>>
       \/ EnableRng /\ UNCHANGED clockVars
       \/ (CH30x_RNG_GENERATE \/ RngCalled \/ NumberMade \/ RngFails \/ ClockBack)
             /\ UNCHANGED <<clockVars, bootVars>>

\* The code goes on, and so does the hardware, except that HSE need not start and
\* that nobody need answer at the other end of the cable.
Fairness ==
    /\ ClockFairness /\ RngFairness
    /\ WF_bootVars(Code) /\ WF_<<rngVars, bootVars>>(EnableRng)
    /\ WF_bootVars(Pll3Locks) /\ WF_bootVars(MacResets)
    /\ WF_bootVars(Tick) /\ WF_bootVars(TcpipThread) /\ WF_bootVars(t1_task)

Spec == Init /\ [][Next]_allVars /\ Fairness

(***************************************************************************)
(* Properties.                                                             *)
(***************************************************************************)

\* When the DMA runs both rings are made and the netif is complete, although the
\* interrupt was enabled before; and when the core can take the interrupt, the
\* mailbox that ETH_IRQHandler posts to is there as well.
PreparedForInterrupt ==
    /\ eth.dma => eth.rings = {"tx", "rx"} /\ netif.state /\ netif.linkoutput
    /\ sched.mie => netif.mbox /\ netif.input /\ netif.up
    /\ sched.mie /\ eth.irq => eth.dma

\* When HSE starts, whatever the PHY does and whether mem_malloc fails or not, the
\* scheduler is started.
SchedulerStarts == rcc.hseRdy ~> at = "tasks"

\* tcpip_thread runs in the end, although init_phy has delayed it and the kernel
\* has forgotten when to wake it.
TcpipThreadRuns == at = "tasks" ~> "tcpip_thread" \in sched.ran

\* In the builds for an external PHY, the pins of the interface to it are as the MAC
\* needs them from the software reset of the MAC on, which waits for the clocks on
\* them (the message at eth_driver.c:150): no port was left without its clock, and
\* nothing takes them later.  ResetMac enables the MAC's clock and ends with that
\* reset, so that a state with eth.clocked is one after it.
MacPinsConfigured ==
    eth.clocked =>
        LET outs == CASE build.mac = "GIGA" -> RgmiiOut [] build.mac = "RMII" -> RmiiOut
                      [] build.mac = "FAST" -> MiiOut [] OTHER -> {}
            ins == CASE build.mac = "GIGA" -> RgmiiIn [] build.mac = "RMII" -> RmiiIn
                     [] build.mac = "FAST" -> MiiIn [] OTHER -> {}
        IN  /\ \A p \in outs : Mode(gpio, p) = "AF_PP"
            /\ \A p \in ins : Mode(gpio, p) = "IN_FLOATING"

\* The MAC is started with the mode that the PHY has agreed on.
NegotiatedBeforeStart ==
    [][eth'.dma /\ ~eth.dma => phy.negotiated]_allVars
=============================================================================
