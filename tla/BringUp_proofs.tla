---------------------------- MODULE BringUp_proofs ----------------------------
(***************************************************************************)
(* Whatever the hardware does, ETH_IRQHandler finds its rings, its netif   *)
(* and the mailbox when the first interrupt is taken.                      *)
(***************************************************************************)
EXTENDS BringUp, TLAPS

\* The records that the proof looks into have their fields.
BootType ==
    /\ eth \in [resetting : BOOLEAN, clocked : BOOLEAN, mode : {"none", "half", "full"},
                irq : BOOLEAN, rings : SUBSET {"tx", "rx"}, dma : BOOLEAN]
    /\ netif \in [mbox : BOOLEAN, input : BOOLEAN, state : BOOLEAN,
                  linkoutput : BOOLEAN, linkUp : BOOLEAN, up : BOOLEAN]
    /\ sched.mie \in BOOLEAN
    /\ "mie" \in DOMAIN sched

\* Places of main, in groups: inside ethernetif_init, and after steps of LwIP_Init.
InPhy == {"low_level_init", "init_phy", "PLL3RDY", "LEDs", "ETH_DMABMR_SR", "PHY_BCR",
          "PHY_Reset", "PHY_Linked_Status", "PHY_AutoNego_Complete", "PHY_SR",
          "MAC registers", "chains", "ETH_Start"}
AfterUp == {"dhcp_start", "xTaskCreate", "vTaskStartScheduler", "tasks"}
AfterAdd == InPhy \union {"netif_set_up"} \union AfterUp

\* What has been done when main is at each place; the interrupt is enabled before
\* the rings are made, and the core takes it only in the tasks.
Progress ==
    /\ at \in AfterAdd \union {"netif_add"} => netif.mbox
    /\ at \in AfterAdd => netif.input
    /\ at \in AfterUp => netif.up
    /\ at \in InPhy => netif.state /\ netif.linkoutput
    /\ at = "ETH_Start" => eth.rings = {"tx", "rx"}
    /\ eth.irq => at \in {"chains", "ETH_Start"} \/ eth.dma
    /\ eth.dma => eth.rings = {"tx", "rx"} /\ netif.state /\ netif.linkoutput
    /\ eth.dma => at \in {"netif_set_up"} \union AfterUp
    /\ sched.mie => at = "tasks"

IInv == BootType /\ Progress

\* The invariant holds at reset.
LEMMA InitIInv == Init => IInv
  BY DEF Init, IInv, BootType, Progress, InPhy, AfterUp, AfterAdd

\* IInv says nothing of the other variables, and of sched only whether interrupts are
\* on.
LEMMA SameKeeps ==
  ASSUME IInv, UNCHANGED <<at, eth, netif>>,
         sched'.mie = sched.mie, "mie" \in DOMAIN sched'
  PROVE  IInv'
BY DEF IInv, BootType, Progress

\* The steps of the hardware, of the tasks and of the other modules.
LEMMA OthersKeep ==
  ASSUME IInv,
         \/ UNCHANGED bootVars
         \/ Tick \/ TcpipThread \/ t1_task \/ Pll3Locks \/ MacResets \/ PhyChanges
  PROVE  IInv'
<1>0. "mie" \in DOMAIN sched
  BY DEF IInv, BootType
<1>1. CASE UNCHANGED bootVars
  BY <1>0, <1>1, SameKeeps DEF bootVars
<1>2. CASE Tick
  BY <1>0, <1>2, SameKeeps DEF Tick
<1>3. CASE TcpipThread
  BY <1>0, <1>3, SameKeeps DEF TcpipThread
<1>4. CASE t1_task
  BY <1>0, <1>4, SameKeeps DEF t1_task
<1>5. CASE Pll3Locks
  BY <1>0, <1>5, SameKeeps DEF Pll3Locks
<1>6. CASE MacResets
  <2>1. UNCHANGED <<at, netif, sched>> /\ eth' = [eth EXCEPT !.resetting = FALSE]
    BY <1>6 DEF MacResets
  <2> QED
    BY <2>1 DEF IInv, BootType, Progress
<1>7. CASE PhyChanges
  <2>1. UNCHANGED <<at, eth, netif, sched>>
    BY <1>7 DEF PhyChanges
  <2> QED
    BY <1>0, <2>1, SameKeeps
<1> QED
  BY <1>1, <1>2, <1>3, <1>4, <1>5, <1>6, <1>7

\* vTaskDelay does not enable interrupts.
LEMMA DelayKeepsMie ==
  ASSUME BootType
  PROVE  vTaskDelay(sched).mie = sched.mie /\ "mie" \in DOMAIN vTaskDelay(sched)
BY DEF BootType, vTaskDelay

\* The steps of init_phy keep the invariant.
LEMMA InitPhyKeeps ==
  ASSUME IInv, init_phy
  PROVE  IInv'
<1> USE DelayKeepsMie DEF IInv, BootType, Progress, InPhy, AfterUp, AfterAdd, Step
<1>1. CASE EnablePll3
  BY <1>1 DEF EnablePll3
<1>2. CASE WaitPll3
  BY <1>2 DEF WaitPll3
<1>3. CASE ResetMac
  BY <1>3 DEF ResetMac
<1>4. CASE SoftReset
  BY <1>4 DEF SoftReset, Look
<1>5. CASE ResetPhy
  BY <1>5 DEF ResetPhy
<1>6. CASE PhyReset
  BY <1>6 DEF PhyReset, Look
<1>7. CASE PhyLinked
  BY <1>7 DEF PhyLinked, Look
<1>8. CASE PhyNegotiated
  BY <1>8 DEF PhyNegotiated, Look
<1>9. CASE ReadMode
  BY <1>9 DEF ReadMode
<1>10. CASE ConfigureMac
  BY <1>10 DEF ConfigureMac
<1>11. CASE InitChains
  BY <1>11 DEF InitChains
<1>12. CASE ETH_Start
  BY <1>12 DEF ETH_Start
<1> QED
  BY <1>1, <1>2, <1>3, <1>4, <1>5, <1>6, <1>7, <1>8, <1>9, <1>10, <1>11, <1>12
  DEF init_phy

\* main and LwIP_Init, outside init_phy.
LEMMA MainKeeps ==
  ASSUME IInv,
         \/ Main \/ EnableRng \/ tcpip_init \/ ethernetif_init \/ ethernetif_init_fails
         \/ low_level_init \/ netif_set_up \/ dhcp_start \/ CreateTask1
         \/ xPortStartScheduler
  PROVE  IInv'
<1> USE DEF IInv, BootType, Progress, InPhy, AfterUp, AfterAdd, Step
<1>1. CASE Main
  BY <1>1 DEF Main
<1>2. CASE EnableRng
  BY <1>2 DEF EnableRng
<1>3. CASE tcpip_init
  BY <1>3 DEF tcpip_init, Created
<1>4. CASE ethernetif_init
  BY <1>4 DEF ethernetif_init
<1>5. CASE ethernetif_init_fails
  BY <1>5 DEF ethernetif_init_fails
<1>6. CASE low_level_init
  BY <1>6 DEF low_level_init
<1>7. CASE netif_set_up
  BY <1>7 DEF netif_set_up
<1>8. CASE dhcp_start
  BY <1>8 DEF dhcp_start
<1>9. CASE CreateTask1
  BY <1>9 DEF CreateTask1, Created
<1>10. CASE xPortStartScheduler
  BY <1>10 DEF xPortStartScheduler, Scheduled
<1> QED
  BY <1>1, <1>2, <1>3, <1>4, <1>5, <1>6, <1>7, <1>8, <1>9, <1>10

\* Every step keeps the invariant.
LEMMA StepIInv == IInv /\ [Next]_allVars => IInv'
<1> SUFFICES ASSUME IInv, [Next]_allVars PROVE IInv'
  OBVIOUS
<1>1. CASE UNCHANGED bootVars
  BY <1>1, OthersKeep
<1>2. CASE Code
  BY <1>2, MainKeeps, InitPhyKeeps DEF Code
<1>3. CASE EnableRng
  BY <1>3, MainKeeps
<1>4. CASE Pll3Locks \/ MacResets \/ PhyChanges \/ Tick \/ TcpipThread \/ t1_task
  BY <1>4, OthersKeep
<1> QED
  BY <1>1, <1>2, <1>3, <1>4 DEF Next, allVars

\* The invariant holds in every reachable state.
LEMMA Inductive == Spec => []IInv
  BY InitIInv, StepIInv, PTL DEF Spec

\* The DMA never runs without its rings and a complete netif, and no interrupt of the
\* MAC is taken before the mailbox is there: PreparedForInterrupt, for any bound on
\* the errors of the generator, any time-out of HSE and any set of builds.
THEOREM PreparedCorrect == Spec => []PreparedForInterrupt
<1>1. IInv => PreparedForInterrupt
  BY DEF IInv, Progress, PreparedForInterrupt, InPhy, AfterUp, AfterAdd
<1> QED
  BY <1>1, Inductive, PTL

(***************************************************************************)
(* The pins of the MAC.                                                    *)
(***************************************************************************)
GpioFields == {"clocked", "mode", "high"}

Outs(mac) == CASE mac = "GIGA" -> RgmiiOut [] mac = "RMII" -> RmiiOut
               [] mac = "FAST" -> MiiOut [] OTHER -> {}
Ins(mac) == CASE mac = "GIGA" -> RgmiiIn [] mac = "RMII" -> RmiiIn
              [] mac = "FAST" -> MiiIn [] OTHER -> {}

PinsSet(g, mac) ==
    /\ \A p \in Outs(mac) : Mode(g, p) = "AF_PP"
    /\ \A p \in Ins(mac) : Mode(g, p) = "IN_FLOATING"

\* Where main is when the pins have been configured and the DMA does not run yet.
AfterLeds == {"ETH_DMABMR_SR", "PHY_BCR", "PHY_Reset", "PHY_Linked_Status",
              "PHY_AutoNego_Complete", "PHY_SR", "MAC registers", "chains", "ETH_Start"}

PinsInv ==
    /\ DOMAIN gpio = GpioFields
    /\ eth.clocked => at \in AfterLeds \/ eth.dma
    /\ at \in AfterLeds \/ eth.dma => PinsSet(gpio, build.mac)

\* GPIO_Init reaches every pin of a port that has its clock, and no other pin.
LEMMA ConfiguredIs ==
  ASSUME NEW g, DOMAIN g = GpioFields, NEW pins, NEW mode,
         \A p \in pins : p[1] \in g.clocked
  PROVE  LET c == Configured(g, pins, mode)
         IN  /\ DOMAIN c = GpioFields /\ c.clocked = g.clocked
             /\ \A p : Mode(c, p) = IF p \in pins THEN mode ELSE Mode(g, p)
<1> DEFINE written == {p \in pins : p[1] \in g.clocked}
           modes == [p \in DOMAIN g.mode \union written |->
                       IF p \in written THEN mode ELSE g.mode[p]]
           c == Configured(g, pins, mode)
<1>1. c = [g EXCEPT !.mode = modes]
  BY DEF Configured
<1>2. written = pins
  OBVIOUS
<1>3. DOMAIN c = GpioFields /\ c.clocked = g.clocked /\ c.mode = modes
  BY <1>1 DEF GpioFields
<1>4. \A p : Mode(c, p) = IF p \in pins THEN mode ELSE Mode(g, p)
  <2> HIDE DEF c
  <2> QED
    BY <1>2, <1>3 DEF Mode
<1> QED
  BY <1>3, <1>4

\* The outputs and then the inputs of an interface: neither undoes the other.
LEMMA InterfaceIs ==
  ASSUME NEW g, DOMAIN g = GpioFields, NEW outs, NEW ins, outs \intersect ins = {},
         \A p \in outs \union ins : p[1] \in g.clocked
  PROVE  LET c == define_I(define_O(g, outs), ins)
         IN  /\ DOMAIN c = GpioFields
             /\ \A p \in outs : Mode(c, p) = "AF_PP"
             /\ \A p \in ins : Mode(c, p) = "IN_FLOATING"
<1> DEFINE o == Configured(g, outs, "AF_PP")
           c == Configured(o, ins, "IN_FLOATING")
<1>1. /\ DOMAIN o = GpioFields /\ o.clocked = g.clocked
      /\ \A p : Mode(o, p) = IF p \in outs THEN "AF_PP" ELSE Mode(g, p)
  BY ConfiguredIs
<1>2. /\ DOMAIN c = GpioFields
      /\ \A p : Mode(c, p) = IF p \in ins THEN "IN_FLOATING" ELSE Mode(o, p)
  <2> HIDE DEF o
  <2> QED
    BY <1>1, ConfiguredIs
<1>3. define_I(define_O(g, outs), ins) = c
  BY DEF define_I, define_O
<1> HIDE DEF o, c
<1> QED
  BY <1>1, <1>2, <1>3

\* The pins of an interface are on ports that exist; none is an input and an output.
LEMMA PinsAre ==
  /\ \A p \in RgmiiOut \union RgmiiIn \union RmiiOut \union RmiiIn \union MiiOut \union MiiIn :
        p[1] \in Ports
  /\ RgmiiOut \intersect RgmiiIn = {}
  /\ RmiiOut \intersect RmiiIn = {}
  /\ MiiOut \intersect MiiIn = {}
BY DEF Ports, Pin, RgmiiOut, RgmiiIn, RmiiOut, RmiiIn, MiiOut, MiiIn

\* No operation on the ports takes a clock away, and writing a pin leaves its mode.
LEMMA FieldsKept ==
  ASSUME NEW g, DOMAIN g = GpioFields
  PROVE  /\ \A ports : /\ DOMAIN Clocked(g, ports) = GpioFields
                       /\ Clocked(g, ports).clocked = g.clocked \union ports
         /\ \A pins, mode : DOMAIN Configured(g, pins, mode) = GpioFields
                            /\ Configured(g, pins, mode).clocked = g.clocked
         /\ \A p, level : DOMAIN Written(g, p, level) = GpioFields
                          /\ Written(g, p, level).mode = g.mode
BY DEF GpioFields, Clocked, Configured, Written

\* Configuring the LEDs keeps the shape of the ports.
LEMMA LedPinsKeep ==
  ASSUME NEW g, DOMAIN g = GpioFields
  PROVE  DOMAIN LedPins(g) = GpioFields
<1> DEFINE a == Clocked(g, {"A"})
           b == Configured(a, {LinkLed, DataLed}, "Out_PP")
           c == Written(b, LinkLed, TRUE)
<1>1. DOMAIN a = GpioFields
  BY FieldsKept
<1>2. DOMAIN b = GpioFields
  <2> HIDE DEF a
  <2> QED
    BY <1>1, FieldsKept
<1>3. DOMAIN c = GpioFields
  <2> HIDE DEF b
  <2> QED
    BY <1>2, FieldsKept
<1>4. LedPins(g) = Written(c, DataLed, TRUE)
  BY DEF LedPins, Ethernet_LED_DATASET, Ethernet_LED_LINKSET
<1> HIDE DEF c
<1> QED
  BY <1>3, <1>4, FieldsKept

\* Each of the functions for an external PHY sets the pins of its interface, whatever
\* the ports were before.
LEMMA GethPinsSet ==
  ASSUME NEW g, DOMAIN g = GpioFields
  PROVE  DOMAIN GETH_pin_init(g) = GpioFields /\ PinsSet(GETH_pin_init(g), "GIGA")
<1> DEFINE a == Clocked(g, Ports)
           b == Configured(a, Pin("B", {1, 2}), "AIN")
<1>1. DOMAIN a = GpioFields /\ Ports \subseteq a.clocked
  BY FieldsKept
<1>2. DOMAIN b = GpioFields /\ Ports \subseteq b.clocked
  <2> HIDE DEF a
  <2> QED
    BY <1>1, FieldsKept
<1>3. GETH_pin_init(g) = define_I(define_O(b, RgmiiOut), RgmiiIn)
  BY DEF GETH_pin_init
<1> HIDE DEF b
<1>4. \A p \in RgmiiOut \union RgmiiIn : p[1] \in b.clocked
  BY <1>2, PinsAre
<1>5. DOMAIN GETH_pin_init(g) = GpioFields
      /\ (\A p \in RgmiiOut : Mode(GETH_pin_init(g), p) = "AF_PP")
      /\ (\A p \in RgmiiIn : Mode(GETH_pin_init(g), p) = "IN_FLOATING")
  BY <1>2, <1>3, <1>4, PinsAre, InterfaceIs
<1> QED
  BY <1>5 DEF PinsSet, Outs, Ins

\* FETH_pin_init configures the pins of MII, RMII and the internal PHY.
LEMMA FethPinsSet ==
  ASSUME NEW g, DOMAIN g = GpioFields, NEW mac, mac # "GIGA"
  PROVE  LET f == FETH_pin_init(g, mac = "RMII")
         IN  DOMAIN f = GpioFields /\ PinsSet(f, mac)
<1> DEFINE a == Clocked(g, Ports)
           f == FETH_pin_init(g, mac = "RMII")
<1>1. DOMAIN a = GpioFields /\ Ports \subseteq a.clocked
  BY FieldsKept
<1>2. f = IF mac = "RMII" THEN define_I(define_O(a, RmiiOut), RmiiIn)
          ELSE define_I(define_O(a, MiiOut), MiiIn)
  BY DEF FETH_pin_init
<1> HIDE DEF a, f
<1>3. CASE mac = "RMII"
  <2>1. \A p \in RmiiOut \union RmiiIn : p[1] \in a.clocked
    BY <1>1, PinsAre
  <2>2. DOMAIN f = GpioFields
        /\ (\A p \in RmiiOut : Mode(f, p) = "AF_PP")
        /\ (\A p \in RmiiIn : Mode(f, p) = "IN_FLOATING")
    BY <1>1, <1>2, <1>3, <2>1, PinsAre, InterfaceIs
  <2>3. Outs(mac) = RmiiOut /\ Ins(mac) = RmiiIn
    BY <1>3 DEF Outs, Ins
  <2> QED
    BY <2>2, <2>3 DEF PinsSet, f
<1>4. CASE mac # "RMII"
  <2>1. \A p \in MiiOut \union MiiIn : p[1] \in a.clocked
    BY <1>1, PinsAre
  <2>2. DOMAIN f = GpioFields
        /\ (\A p \in MiiOut : Mode(f, p) = "AF_PP")
        /\ (\A p \in MiiIn : Mode(f, p) = "IN_FLOATING")
    BY <1>1, <1>2, <1>4, <2>1, PinsAre, InterfaceIs
  <2>3. Outs(mac) \subseteq MiiOut /\ Ins(mac) \subseteq MiiIn
    BY <1>4 DEF Outs, Ins
  <2> QED
    BY <2>2, <2>3 DEF PinsSet, f
<1> QED
  BY <1>3, <1>4

\* Whether the pins are right depends on their modes alone.
LEMMA ModesKept ==
  ASSUME NEW g, NEW h, h.mode = g.mode, NEW mac, PinsSet(g, mac)
  PROVE  PinsSet(h, mac)
BY DEF PinsSet, Mode

\* The step that configures the pins of the MAC.
LEMMA ResetMacSets ==
  ASSUME PinsInv, ResetMac, UNCHANGED build
  PROVE  DOMAIN gpio' = GpioFields /\ PinsSet(gpio', build.mac)
<1> DEFINE leds == LedPins(gpio)
<1>1. DOMAIN leds = GpioFields
  BY LedPinsKeep DEF PinsInv
<1>2. CASE build.mac = "10BASE_T"
  <2>1. gpio' = leds
    BY <1>2 DEF ResetMac
  <2>2. Outs(build.mac) = {} /\ Ins(build.mac) = {}
    BY <1>2 DEF Outs, Ins
  <2> QED
    BY <1>1, <2>1, <2>2 DEF PinsSet
<1>3. CASE build.mac = "GIGA"
  <2>1. gpio' = GETH_pin_init(leds)
    BY <1>3 DEF ResetMac
  <2> HIDE DEF leds
  <2> QED
    BY <1>1, <1>3, <2>1, GethPinsSet
<1>4. CASE build.mac \notin {"10BASE_T", "GIGA"}
  <2>1. gpio' = FETH_pin_init(leds, build.mac = "RMII")
    BY <1>4 DEF ResetMac
  <2> HIDE DEF leds
  <2> QED
    BY <1>1, <1>4, <2>1, FethPinsSet
<1> QED
  BY <1>2, <1>3, <1>4

\* Every step keeps what is known of the pins.
LEMMA StepPinsInv == IInv /\ PinsInv /\ [Next]_allVars => PinsInv'
<1> SUFFICES ASSUME IInv, PinsInv, [Next]_allVars PROVE PinsInv'
  OBVIOUS
<1>1. UNCHANGED build
  BY DEF Next, ClockNext, allVars
<1>2. (eth.clocked => at \in AfterLeds \/ eth.dma)'
  <2> USE DEF IInv, BootType, PinsInv, AfterLeds, Step
  <2>1. CASE UNCHANGED bootVars
    BY <2>1 DEF bootVars
  <2>2. CASE init_phy
    BY <2>2 DEF init_phy, EnablePll3, WaitPll3, ResetMac, SoftReset, ResetPhy, PhyReset,
                PhyLinked, PhyNegotiated, Look, ReadMode, ConfigureMac, InitChains, ETH_Start
  <2>3. CASE Code /\ ~init_phy
    BY <2>3 DEF Code, Main, tcpip_init, ethernetif_init, ethernetif_init_fails,
                low_level_init, netif_set_up, dhcp_start, CreateTask1, xPortStartScheduler
  <2>4. CASE EnableRng \/ Pll3Locks \/ MacResets \/ PhyChanges \/ Tick \/ TcpipThread
             \/ t1_task
    BY <2>4 DEF EnableRng, Pll3Locks, MacResets, PhyChanges, Tick, TcpipThread, t1_task
  <2> QED
    BY <2>1, <2>2, <2>3, <2>4 DEF Next, allVars, Code
<1>3. at \in AfterLeds \/ eth.dma => at \notin {"main", "init_phy", "LEDs"}
  BY DEF IInv, Progress, InPhy, AfterUp, AfterLeds
<1>4. CASE Main
  <2>1. DOMAIN gpio' = GpioFields
    BY <1>4, FieldsKept DEF PinsInv, Main, GPIO_Toggle_INIT
  <2> QED
    BY <1>1, <1>3, <1>4, <1>2, <2>1 DEF PinsInv, Main, Step, AfterLeds
<1>5. CASE EnablePll3
  <2>1. DOMAIN gpio' = GpioFields
    BY <1>5, FieldsKept DEF PinsInv, EnablePll3, McoPin
  <2> QED
    BY <1>1, <1>3, <1>5, <1>2, <2>1 DEF PinsInv, EnablePll3, Step, AfterLeds
<1>6. CASE ResetMac
  BY <1>1, <1>6, <1>2, ResetMacSets DEF PinsInv
<1>7. CASE ReadMode
  <2>1. DOMAIN gpio' = GpioFields /\ gpio'.mode = gpio.mode /\ PinsSet(gpio, build.mac)
    <3>1. gpio' = Written(gpio, LinkLed, FALSE) /\ at = "PHY_SR"
      BY <1>7 DEF ReadMode, Step, Ethernet_LED_LINKSET
    <3>2. PinsSet(gpio, build.mac) /\ DOMAIN gpio = GpioFields
      BY <3>1 DEF PinsInv, AfterLeds
    <3>3. DOMAIN Written(gpio, LinkLed, FALSE) = GpioFields
          /\ Written(gpio, LinkLed, FALSE).mode = gpio.mode
      BY <3>2 DEF Written, GpioFields
    <3> QED
      BY <3>1, <3>2, <3>3
  <2> QED
    BY <1>1, <1>2, <2>1, ModesKept DEF PinsInv
<1>8. CASE UNCHANGED gpio /\ (at' \in AfterLeds \/ eth'.dma => at \in AfterLeds \/ eth.dma)
  BY <1>1, <1>8, <1>2 DEF PinsInv
<1>9. \/ Main \/ EnablePll3 \/ ResetMac \/ ReadMode
      \/ UNCHANGED gpio /\ (at' \in AfterLeds \/ eth'.dma => at \in AfterLeds \/ eth.dma)
  <2> USE DEF IInv, BootType, AfterLeds, Step
  <2>1. CASE UNCHANGED bootVars
    BY <2>1 DEF bootVars
  <2>2. CASE init_phy
    BY <2>2 DEF init_phy, WaitPll3, SoftReset, ResetPhy, PhyReset, PhyLinked,
                PhyNegotiated, Look, ConfigureMac, InitChains, ETH_Start
  <2>3. CASE Code /\ ~init_phy /\ ~Main
    BY <2>3 DEF Code, tcpip_init, ethernetif_init, ethernetif_init_fails, low_level_init,
                netif_set_up, dhcp_start, CreateTask1, xPortStartScheduler
  <2>4. CASE EnableRng \/ Pll3Locks \/ MacResets \/ PhyChanges \/ Tick \/ TcpipThread
             \/ t1_task
    BY <2>4 DEF EnableRng, Pll3Locks, MacResets, PhyChanges, Tick, TcpipThread, t1_task
  <2> QED
    BY <2>1, <2>2, <2>3, <2>4 DEF Next, allVars, Code
<1> QED
  BY <1>4, <1>5, <1>6, <1>7, <1>8, <1>9

\* The pins of the interface to an external PHY are configured from the reset of the
\* MAC on, whatever the hardware does: MacPinsConfigured.  (A build for the internal
\* PHY has no such pins.)
THEOREM MacPinsCorrect == Spec => []MacPinsConfigured
<1>1. Init => PinsInv
  BY DEF Init, PinsInv, GpioReset, GpioFields, AfterLeds
<1>2. PinsInv => MacPinsConfigured
  BY DEF PinsInv, MacPinsConfigured, PinsSet, Outs, Ins
<1> QED
  BY <1>1, <1>2, StepPinsInv, Inductive, PTL DEF Spec
=============================================================================
