--------------------------------- MODULE Pins ---------------------------------
(***************************************************************************)
(* The pins that the firmware configures, as operators on the state of the *)
(* GPIO ports: GPIO_Toggle_INIT of main.c, and of eth_driver.c the part of *)
(* init_phy for the LEDs, the pins of the MAC in builds for an external    *)
(* PHY, and the LEDs.  A port whose clock is off ignores what is written   *)
(* to its registers.                                                       *)
(***************************************************************************)
EXTENDS Naturals

Ports == {"A", "B", "C"}

\* After reset no port has a clock, and every pin is a floating input.
GpioReset ==
    [clocked |-> {}, mode |-> [p \in {} |-> "IN_FLOATING"], high |-> {}]

\* The mode of a pin: g.mode has the pins that have been configured.
Mode(g, p) == IF p \in DOMAIN g.mode THEN g.mode[p] ELSE "IN_FLOATING"

\* RCC_APB2PeriphClockCmd(..., ENABLE).
Clocked(g, ports) == [g EXCEPT !.clocked = g.clocked \union ports]

Pin(port, numbers) == {port} \X numbers

\* GPIO_Init of pins in one mode.
Configured(g, pins, mode) ==
    LET written == {p \in pins : p[1] \in g.clocked}
    IN  [g EXCEPT !.mode = [p \in DOMAIN g.mode \union written |->
                              IF p \in written THEN mode ELSE g.mode[p]]]

\* GPIO_SetBits or GPIO_ResetBits of a pin: BSHR and BCR only change the output
\* register of a port that has its clock.
Written(g, p, level) ==
    IF p[1] \notin g.clocked THEN g
    ELSE [g EXCEPT !.high = IF level THEN g.high \union {p} ELSE g.high \ {p}]

\* define_O and define_I.
define_O(g, pins) == Configured(g, pins, "AF_PP")
define_I(g, pins) == Configured(g, pins, "IN_FLOATING")

\* Only main.c's pins, which nothing writes to.
GPIO_Toggle_INIT(g) == Configured(Clocked(g, {"C"}), Pin("C", {0, 1}), "Out_PP")

LinkLed == <<"B", 8>>
DataLed == <<"B", 9>>
Ethernet_LED_LINKSET(g, setbit) == Written(g, LinkLed, setbit)
Ethernet_LED_DATASET(g, setbit) == Written(g, DataLed, setbit)

\* The pin with the clock of an external PHY.
McoPin(g) == Configured(Clocked(g, {"A"}), Pin("A", {8}), "AF_PP")

\* The LEDs, which are off at the high level.  The clock that is enabled is that
\* of GPIOA.
LedPins(g) ==
    LET ports == Configured(Clocked(g, {"A"}), {LinkLed, DataLed}, "Out_PP")
    IN  Ethernet_LED_DATASET(Ethernet_LED_LINKSET(ports, TRUE), TRUE)

\* The outputs and the inputs of the interface to an external PHY.
RgmiiOut == Pin("A", {2, 3, 7}) \union Pin("C", {4, 5}) \union Pin("B", {0, 12, 13})
RgmiiIn == Pin("C", {0, 1, 2, 3}) \union Pin("A", {0, 1}) \union Pin("B", {1})
RmiiOut == Pin("A", {2}) \union Pin("C", {1}) \union Pin("B", {11, 12, 13})
RmiiIn == Pin("A", {1, 7}) \union Pin("C", {4, 5})
MiiOut == Pin("A", {0, 2, 3}) \union Pin("C", {1, 2}) \union Pin("B", {8, 11, 12, 13})
MiiIn == Pin("C", {3, 4, 5}) \union Pin("A", {1, 7}) \union Pin("B", {0, 1, 10})

\* Mutant: the clock of GPIOB is not enabled.
GETH_without_GPIOB(g) ==
    define_I(define_O(Clocked(g, {"A", "C"}), RgmiiOut), RgmiiIn)

\* The registers of PB1, 2, 12 and 13 are written directly: PB2 is made an analog
\* input.
GETH_pin_init(g) ==
    LET b == Configured(Clocked(g, Ports), Pin("B", {1, 2}), "AIN")
    IN  define_I(define_O(b, RgmiiOut), RgmiiIn)

FETH_pin_init(g, rmii) ==
    LET b == Clocked(g, Ports)
    IN  IF rmii THEN define_I(define_O(b, RmiiOut), RmiiIn)
        ELSE define_I(define_O(b, MiiOut), MiiIn)
=============================================================================
