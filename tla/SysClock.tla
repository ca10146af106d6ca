------------------------------- MODULE SysClock -------------------------------
(***************************************************************************)
(* system_ch32v30x.c: SystemInit, which the startup code calls before      *)
(* main, switches the system clock from the internal oscillator (HSI) to   *)
(* the frequency that the SYSCLK_FREQ_ macro of the build asks for, and    *)
(* SystemCoreClockUpdate computes the frequency from the registers.        *)
(* The clock hardware takes steps of its own: an oscillator or the PLL     *)
(* becomes ready, the switch is made.  HSE may never start.                *)
(***************************************************************************)
EXTENDS Naturals

CONSTANTS
    Builds,              \* [sysclk, v307, mac]: the macros and the chip
    HSE_STARTUP_TIMEOUT

\* The code asks whether the chip is a CH32V307, or one of the others.
ASSUME BuildsAssumption == \A b \in Builds : b.v307 \in BOOLEAN

VARIABLES
    build,           \* the build that runs: sysclk is in MHz, or 0
    rcc,             \* the fields of RCC->CTLR and RCC->CFGR0
    clockAt,         \* where SystemInit is
    StartUpCounter   \* how often HSERDY has been read

clockVars == <<rcc, clockAt, StartUpCounter>>

HSI_VALUE == 8000000
HSE_VALUE == 8000000

\* The initial value of SystemCoreClock.
SystemCoreClock == IF build.sysclk = 0 THEN HSI_VALUE ELSE 1000000 * build.sysclk

ClockInit ==
    /\ build \in Builds
    /\ rcc = [hseOn |-> FALSE, hseRdy |-> FALSE, pllOn |-> FALSE, pllRdy |-> FALSE,
              sw |-> "HSI", sws |-> "HSI", hpre |-> 0, ppre1 |-> 1,
              pllmull |-> 0, pllsrc |-> "HSI/2", pllxtpre |-> 1]
    /\ clockAt = "SystemInit"
    /\ StartUpCounter = 0

(***************************************************************************)
(* The hardware.                                                           *)
(***************************************************************************)

\* What a value of the field PLLMULL multiplies by, times two.
PllTimes2(code) ==
    IF build.v307
    THEN CASE code = 0 -> 36 [] code = 13 -> 13 [] code = 14 -> 30
           [] code = 15 -> 32 [] OTHER -> 2 * (code + 2)
    ELSE IF code = 15 THEN 36 ELSE 2 * (code + 2)

\* The frequency of the core for register values r.
Frequency(r) ==
    LET input == IF r.pllsrc = "HSI/2" THEN HSI_VALUE \div 2 ELSE HSE_VALUE \div r.pllxtpre
        sysclk == CASE r.sws = "HSI" -> HSI_VALUE
                    [] r.sws = "HSE" -> HSE_VALUE
                    [] r.sws = "PLL" -> (input * PllTimes2(r.pllmull)) \div 2
        shift == IF r.hpre < 8 THEN 0 ELSE r.hpre - (IF r.hpre < 12 THEN 7 ELSE 6)
    IN  sysclk \div 2 ^ shift

HseStarts ==
    /\ rcc.hseOn /\ ~rcc.hseRdy
    /\ rcc' = [rcc EXCEPT !.hseRdy = TRUE]
    /\ UNCHANGED <<clockAt, StartUpCounter>>

PllLocks ==
    /\ rcc.pllOn /\ ~rcc.pllRdy
    /\ rcc.pllsrc = "HSE" => rcc.hseRdy
    /\ rcc' = [rcc EXCEPT !.pllRdy = TRUE]
    /\ UNCHANGED <<clockAt, StartUpCounter>>

SwitchMade ==
    /\ rcc.sws # rcc.sw
    /\ rcc.sw = "HSE" => rcc.hseRdy
    /\ rcc.sw = "PLL" => rcc.pllRdy
    /\ rcc' = [rcc EXCEPT !.sws = rcc.sw]
    /\ UNCHANGED <<clockAt, StartUpCounter>>

ClockHardware == HseStarts \/ PllLocks \/ SwitchMade

(***************************************************************************)
(* SystemInit.  A step is a place of the code and what it does there.      *)
(***************************************************************************)
Goto(from, to) == clockAt = from /\ clockAt' = to

SystemInit ==
    /\ Goto("SystemInit", "SetSysClock")
    /\ rcc' = [rcc EXCEPT !.hseOn = FALSE, !.pllOn = FALSE, !.sw = "HSI",
                          !.hpre = 0, !.ppre1 = 1,
                          !.pllmull = 0, !.pllsrc = "HSI/2", !.pllxtpre = 1]
    /\ UNCHANGED StartUpCounter

\* What the functions below begin with: they switch HSE on and wait for it, a
\* bounded number of times, and then look once more whether it is ready.
EnableHse ==
    /\ Goto("SetSysClock", "poll")
    /\ rcc' = [rcc EXCEPT !.hseOn = TRUE]
    /\ UNCHANGED StartUpCounter

\* Mutant: HSE is waited for without a bound.
PollHseForever ==
    /\ Goto("poll", IF rcc.hseRdy THEN "test" ELSE "poll")
    /\ StartUpCounter' = (StartUpCounter + 1) % HSE_STARTUP_TIMEOUT
    /\ UNCHANGED rcc

PollHse ==
    /\ StartUpCounter' = StartUpCounter + 1
    /\ Goto("poll", IF rcc.hseRdy \/ StartUpCounter' = HSE_STARTUP_TIMEOUT
                    THEN "test" ELSE "poll")
    /\ UNCHANGED rcc

TestHse ==
    /\ Goto("test", IF rcc.hseRdy THEN "prescale" ELSE "done")
    /\ UNCHANGED <<rcc, StartUpCounter>>

\* HCLK = SYSCLK, and PCLK1 is HCLK divided by ppre1.
Prescale(ppre1) ==
    /\ Goto("prescale", "source")
    /\ rcc' = [rcc EXCEPT !.hpre = 0, !.ppre1 = ppre1]
    /\ UNCHANGED StartUpCounter

StartHse(ppre1) == EnableHse \/ PollHse \/ TestHse \/ Prescale(ppre1)

\* What they end with: the source is selected, and the switch waited for.
Select(source, from) ==
    /\ Goto(from, "switch")
    /\ source = "PLL" => rcc.pllRdy
    /\ rcc' = [rcc EXCEPT !.sw = source]
    /\ UNCHANGED StartUpCounter

Selected(source) ==
    /\ Goto("switch", "done")
    /\ rcc.sws = source
    /\ UNCHANGED <<rcc, StartUpCounter>>

SetSysClockToHSE == StartHse(1) \/ Select("HSE", "source") \/ Selected("HSE")

\* Mutant: the two encodings of PLLMULL are taken for one.
PLLMULLOfOthers(n) == IF n = 18 THEN 15 ELSE n - 2

\* The macro RCC_PLLMULLn, or RCC_PLLMULLn_EXTEN on the CH32V307.
RCC_PLLMULL(n) ==
    CASE ~build.v307 -> IF n = 18 THEN 15 ELSE n - 2
      [] build.v307 -> CASE n = 18 -> 0 [] n = 15 -> 14 [] n = 16 -> 15 [] OTHER -> n - 2

\* PLLCLK = HSE * n; the wait for PLLRDY and for the switch have no bound.
ConfigurePll(n) ==
    /\ Goto("source", "enable")
    /\ rcc' = [rcc EXCEPT !.pllsrc = "HSE", !.pllxtpre = 1, !.pllmull = RCC_PLLMULL(n)]
    /\ UNCHANGED StartUpCounter

\* Mutant: PLLON is not set.
PllNotEnabled ==
    /\ Goto("enable", "ready")
    /\ UNCHANGED <<rcc, StartUpCounter>>

EnablePll ==
    /\ Goto("enable", "ready")
    /\ rcc' = [rcc EXCEPT !.pllOn = TRUE]
    /\ UNCHANGED StartUpCounter

FromPll(n, ppre1) ==
    \/ StartHse(ppre1) \/ ConfigurePll(n) \/ EnablePll
    \/ Select("PLL", "ready") \/ Selected("PLL")

SetSysClockTo24 == FromPll(3, 1)
SetSysClockTo48 == FromPll(6, 2)
SetSysClockTo56 == FromPll(7, 2)
SetSysClockTo72 == FromPll(9, 2)
SetSysClockTo96 == FromPll(12, 2)
SetSysClockTo120 == FromPll(15, 2)
SetSysClockTo144 == FromPll(18, 2)

SetSysClock ==
    \/ build.sysclk = 8 /\ SetSysClockToHSE
    \/ build.sysclk = 24 /\ SetSysClockTo24
    \/ build.sysclk = 48 /\ SetSysClockTo48
    \/ build.sysclk = 56 /\ SetSysClockTo56
    \/ build.sysclk = 72 /\ SetSysClockTo72
    \/ build.sysclk = 96 /\ SetSysClockTo96
    \/ build.sysclk = 120 /\ SetSysClockTo120
    \/ build.sysclk = 144 /\ SetSysClockTo144
    \/ build.sysclk = 0 /\ Goto("SetSysClock", "done") /\ UNCHANGED <<rcc, StartUpCounter>>

(***************************************************************************)
(* SystemCoreClockUpdate.                                                  *)
(***************************************************************************)

\* Mutant: the codes of other chips, whatever the chip.
MultiplierOfOthers(code) == IF code + 2 = 17 THEN 18 ELSE code + 2

\* The local variable pllmull; 13 stands for 6.5 when the code is 13.
Multiplier(code) ==
    LET n == code + 2
    IN  IF ~build.v307 THEN IF n = 17 THEN 18 ELSE n
        ELSE CASE n = 2 -> 18 [] n = 15 -> 13 [] n = 16 -> 15 [] n = 17 -> 16 [] OTHER -> n

AHBPrescTable == <<0, 0, 0, 0, 0, 0, 0, 0, 1, 2, 3, 4, 6, 7, 8, 9>>

\* The value SystemCoreClock has after a call with register values r.
SystemCoreClockUpdate(r) ==
    LET pll == Multiplier(r.pllmull) *
                 (IF r.pllsrc = "HSI/2" THEN HSI_VALUE \div 2
                  ELSE IF r.pllxtpre = 2 THEN HSE_VALUE \div 2 ELSE HSE_VALUE)
        Pll_6_5 == build.v307 /\ r.pllmull = 13
        sysclk == CASE r.sws = "PLL" -> IF Pll_6_5 THEN pll \div 2 ELSE pll
                    [] r.sws = "HSE" -> HSE_VALUE
                    [] OTHER -> HSI_VALUE
    IN  sysclk \div 2 ^ AHBPrescTable[r.hpre + 1]

ClockNext == (SystemInit \/ SetSysClock \/ ClockHardware) /\ UNCHANGED build

\* The code goes on, and so does the hardware, but HSE need not start.
ClockFairness ==
    /\ WF_clockVars(SystemInit \/ SetSysClock)
    /\ WF_clockVars(PllLocks) /\ WF_clockVars(SwitchMade)

ClockSpec == ClockInit /\ [][ClockNext]_<<build, clockVars>> /\ ClockFairness

(***************************************************************************)
(* Properties.                                                             *)
(***************************************************************************)

\* When SystemInit has returned the core runs at the frequency that SystemCoreClock
\* says, or, when HSE did not start in time, at that of HSI.
DeclaredIsActual ==
    clockAt = "done" =>
        Frequency(rcc) = IF rcc.sw = "HSI" THEN HSI_VALUE ELSE SystemCoreClock

\* SystemInit returns, whether HSE starts or not.
ClockSettles == <>(clockAt = "done")

\* SystemCoreClockUpdate computes the frequency of the core whenever it is called
\* and whatever factors another program part has chosen: the tables of codes of
\* the two chips agree with the hardware's.
UpdateIsActual ==
    /\ \A code \in 0 .. 15, src \in {"HSI/2", "HSE"}, xtpre \in {1, 2} :
          LET r == [rcc EXCEPT !.pllmull = code, !.pllsrc = src, !.pllxtpre = xtpre]
          IN  SystemCoreClockUpdate(r) = Frequency(r)
    /\ \A hpre \in 0 .. 15 :
          LET r == [rcc EXCEPT !.hpre = hpre]
          IN  SystemCoreClockUpdate(r) = Frequency(r)
=============================================================================
