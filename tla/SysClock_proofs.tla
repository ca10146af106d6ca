---------------------------- MODULE SysClock_proofs ----------------------------
(***************************************************************************)
(* The frequency of the core and what the code says it is, for any set of  *)
(* builds and any bound on the wait for HSE.                               *)
(***************************************************************************)
EXTENDS SysClock, TLAPS

\* The factors of SetSysClockTo24 to SetSysClockTo144, for 8 MHz times n.
Factors == {3, 6, 7, 9, 12, 15, 18}

Waiting == {"SystemInit", "SetSysClock", "poll", "test", "prescale"}
Places == Waiting \union {"source", "enable", "ready", "switch", "done"}

Fields == {"hseOn", "hseRdy", "pllOn", "pllRdy", "sw", "sws", "hpre", "ppre1",
           "pllmull", "pllsrc", "pllxtpre"}

RccType ==
    /\ DOMAIN rcc = Fields
    /\ rcc.hpre = 0
    /\ rcc.pllmull \in 0 .. 15
    /\ rcc.pllsrc \in {"HSI/2", "HSE"}
    /\ rcc.pllxtpre = 1
    /\ clockAt \in Places

\* The PLL is set to what the build asks for.
PllSet ==
    \E n \in Factors :
        /\ build.sysclk = 8 * n
        /\ rcc.pllmull = RCC_PLLMULL(n)
        /\ rcc.pllsrc = "HSE"

\* The switch is on HSI until a source is selected, and the PLL has been set when
\* it is the source.
Switched ==
    /\ clockAt \in Waiting \union {"source", "enable", "ready"} => rcc.sw = "HSI"
    /\ clockAt \in {"enable", "ready"} => PllSet
    /\ rcc.sw = "HSI" => rcc.sws = "HSI"
    /\ rcc.sw = "HSE" => build.sysclk = 8
    /\ rcc.sw = "PLL" => PllSet
    /\ rcc.sw \in {"HSI", "HSE", "PLL"}
    /\ rcc.sws \in {"HSI", rcc.sw}
    /\ clockAt = "done" => rcc.sws = rcc.sw

IInv == build \in Builds /\ RccType /\ Switched

\* The codes of the macros stand for the factors that they are named for.
LEMMA CodesAreFactors ==
  ASSUME build.v307 \in BOOLEAN, NEW n \in Factors
  PROVE  RCC_PLLMULL(n) \in 0 .. 15 /\ PllTimes2(RCC_PLLMULL(n)) = 2 * n
BY DEF Factors, RCC_PLLMULL, PllTimes2

\* The invariant holds after reset.
LEMMA InitIInv == ClockInit => IInv
  BY DEF ClockInit, IInv, RccType, Switched, Fields, Places, Waiting

\* What HSE, the PLL and the switch do of themselves keeps the invariant.
LEMMA HardwareKeeps ==
  ASSUME IInv, ClockHardware, UNCHANGED build
  PROVE  IInv'
<1> USE DEF IInv, RccType, Switched, PllSet, Fields, RCC_PLLMULL
<1>1. CASE HseStarts
  BY <1>1 DEF HseStarts
<1>2. CASE PllLocks
  BY <1>2 DEF PllLocks
<1>3. CASE SwitchMade
  BY <1>3 DEF SwitchMade
<1> QED
  BY <1>1, <1>2, <1>3 DEF ClockHardware

\* SystemInit, which sets the registers back, keeps the invariant.
LEMMA SystemInitKeeps ==
  ASSUME IInv, SystemInit, UNCHANGED build
  PROVE  IInv'
BY DEF SystemInit, Goto, IInv, RccType, Switched, Fields, Places, Waiting

\* Enabling HSE, waiting for it and setting the prescalers keeps the invariant.
LEMMA StartHseKeeps ==
  ASSUME IInv, NEW p, StartHse(p), UNCHANGED build
  PROVE  IInv'
<1> USE DEF IInv, RccType, Switched, Fields, Places, Waiting, Goto
<1>1. CASE EnableHse
  BY <1>1 DEF EnableHse
<1>2. CASE PollHse
  BY <1>2 DEF PollHse
<1>3. CASE TestHse
  BY <1>3 DEF TestHse
<1>4. CASE Prescale(p)
  BY <1>4 DEF Prescale
<1> QED
  BY <1>1, <1>2, <1>3, <1>4 DEF StartHse

\* Selecting the source that has been made ready keeps the invariant.
LEMMA SelectKeeps ==
  ASSUME IInv, UNCHANGED build,
         \/ build.sysclk = 8 /\ (Select("HSE", "source") \/ Selected("HSE"))
         \/ Select("PLL", "ready") \/ Selected("PLL")
  PROVE  IInv'
BY DEF IInv, RccType, Switched, PllSet, Fields, Places, Waiting, Goto, Select, Selected,
       RCC_PLLMULL

\* The variants of SetSysClock that use the PLL keep the invariant, each with its
\* own factor.
LEMMA PllKeeps ==
  ASSUME IInv, UNCHANGED build, NEW n \in Factors, build.sysclk = 8 * n,
         NEW p, FromPll(n, p)
  PROVE  IInv'
<1> USE DEF IInv, RccType, Switched, PllSet, Fields, Places, Waiting, Goto
<1>1. CASE StartHse(p)
  BY <1>1, StartHseKeeps
<1>2. CASE ConfigurePll(n)
  <2>1. RCC_PLLMULL(n) \in 0 .. 15
    BY BuildsAssumption, CodesAreFactors
  <2>2. RCC_PLLMULL(n)' = RCC_PLLMULL(n)
    BY DEF RCC_PLLMULL
  <2> QED
    BY <1>2, <2>1, <2>2 DEF ConfigurePll
<1>3. CASE EnablePll
  BY <1>3 DEF EnablePll, RCC_PLLMULL
<1>4. CASE Select("PLL", "ready") \/ Selected("PLL")
  BY <1>4, SelectKeeps
<1> QED
  BY <1>1, <1>2, <1>3, <1>4 DEF FromPll

\* Every step keeps the invariant.
LEMMA StepIInv == IInv /\ [ClockNext]_<<build, clockVars>> => IInv'
<1> SUFFICES ASSUME IInv, [ClockNext]_<<build, clockVars>> PROVE IInv'
  OBVIOUS
<1>1. CASE UNCHANGED <<build, clockVars>>
  BY <1>1 DEF clockVars, IInv, RccType, Switched, PllSet, RCC_PLLMULL
<1>2. CASE SystemInit /\ UNCHANGED build
  BY <1>2, SystemInitKeeps
<1>3. CASE ClockHardware /\ UNCHANGED build
  BY <1>3, HardwareKeeps
<1>4. CASE SetSysClock /\ UNCHANGED build
  <2>1. CASE build.sysclk = 8 /\ SetSysClockToHSE
    BY <1>4, <2>1, StartHseKeeps, SelectKeeps DEF SetSysClockToHSE
  <2>2. ASSUME NEW n \in Factors, NEW p, build.sysclk = 8 * n, FromPll(n, p)
        PROVE  IInv'
    BY <1>4, <2>2, PllKeeps
  <2>3. CASE build.sysclk = 0 /\ Goto("SetSysClock", "done")
               /\ UNCHANGED <<rcc, StartUpCounter>>
    BY <1>4, <2>3 DEF Goto, IInv, RccType, Switched, Places, Waiting
  <2>4. \/ build.sysclk = 8 /\ SetSysClockToHSE
        \/ build.sysclk = 0 /\ Goto("SetSysClock", "done") /\ UNCHANGED <<rcc, StartUpCounter>>
        \/ \E n \in Factors, p \in {1, 2} : build.sysclk = 8 * n /\ FromPll(n, p)
    BY <1>4 DEF SetSysClock, Factors, SetSysClockTo24, SetSysClockTo48, SetSysClockTo56,
                SetSysClockTo72, SetSysClockTo96, SetSysClockTo120, SetSysClockTo144
  <2> QED
    BY <2>1, <2>2, <2>3, <2>4
<1> QED
  BY <1>1, <1>2, <1>3, <1>4 DEF ClockNext

\* The invariant holds in every reachable state.
LEMMA Inductive == ClockSpec => []IInv
  BY InitIInv, StepIInv, PTL DEF ClockSpec

\* What the code says of the frequency when SystemInit has returned is true of the
\* hardware: DeclaredIsActual, for every frequency that SystemInit knows.
THEOREM DeclaredCorrect == ClockSpec => []DeclaredIsActual
<1>1. IInv => DeclaredIsActual
  <2> SUFFICES ASSUME IInv, clockAt = "done"
               PROVE  Frequency(rcc) = IF rcc.sw = "HSI" THEN HSI_VALUE ELSE SystemCoreClock
    BY DEF DeclaredIsActual
  <2>1. CASE rcc.sw \in {"HSI", "HSE"}
    BY <2>1 DEF IInv, RccType, Switched, Frequency, SystemCoreClock, HSI_VALUE, HSE_VALUE
  <2>2. CASE rcc.sw = "PLL"
    <3>1. PICK n \in Factors : build.sysclk = 8 * n /\ rcc.pllmull = RCC_PLLMULL(n)
                                 /\ rcc.pllsrc = "HSE"
      BY <2>2 DEF IInv, Switched, PllSet
    <3>2. PllTimes2(rcc.pllmull) = 2 * n
      BY <3>1, BuildsAssumption, CodesAreFactors DEF IInv
    <3>3. rcc.sws = "PLL" /\ rcc.hpre = 0 /\ rcc.pllxtpre = 1
      BY <2>2 DEF IInv, Switched, RccType
    <3>4. Frequency(rcc) = (((8000000 \div 1) * (2 * n)) \div 2) \div 2 ^ 0
      BY <3>1, <3>2, <3>3 DEF Frequency, HSE_VALUE
    <3>5. (((8000000 \div 1) * (2 * n)) \div 2) \div 2 ^ 0 = 8000000 * n
      BY DEF Factors
    <3>6. SystemCoreClock = 8000000 * n
      BY <3>1 DEF SystemCoreClock, Factors
    <3> QED
      BY <2>2, <3>4, <3>5, <3>6
  <2> QED
    BY <2>1, <2>2 DEF IInv, Switched
<1> QED
  BY <1>1, Inductive, PTL

(***************************************************************************)
(* SystemCoreClockUpdate.                                                  *)
(***************************************************************************)

\* The two tables of codes agree, and twice the local variable pllmull is what the
\* PLL multiplies by, but for code 13 of the CH32V307.
LEMMA TablesAgree ==
  ASSUME build.v307 \in BOOLEAN, NEW code \in 0 .. 15
  PROVE  /\ Multiplier(code) \in 2 .. 18
         /\ build.v307 /\ code = 13 => Multiplier(code) = PllTimes2(code)
         /\ ~(build.v307 /\ code = 13) => 2 * Multiplier(code) = PllTimes2(code)
BY DEF Multiplier, PllTimes2

\* AHBPrescTable has the shift of each code of the prescaler.
LEMMA PrescalersAgree ==
  ASSUME NEW h \in 0 .. 15
  PROVE  AHBPrescTable[h + 1] =
           IF h < 8 THEN 0 ELSE h - (IF h < 12 THEN 7 ELSE 6)
BY DEF AHBPrescTable

\* For register values that the hardware can have, whatever the code wrote last.
LEMMA UpdateIs ==
  ASSUME build.v307 \in BOOLEAN, NEW r,
         r.pllmull \in 0 .. 15, r.hpre \in 0 .. 15, r.sws \in {"HSI", "HSE", "PLL"},
         r.pllsrc \in {"HSI/2", "HSE"}, r.pllxtpre \in {1, 2}
  PROVE  SystemCoreClockUpdate(r) = Frequency(r)
<1> DEFINE in == IF r.pllsrc = "HSI/2" THEN HSI_VALUE \div 2 ELSE HSE_VALUE \div r.pllxtpre
           m == Multiplier(r.pllmull)
           k == PllTimes2(r.pllmull)
           pll == m * (IF r.pllsrc = "HSI/2" THEN HSI_VALUE \div 2
                       ELSE IF r.pllxtpre = 2 THEN HSE_VALUE \div 2 ELSE HSE_VALUE)
           half == build.v307 /\ r.pllmull = 13
<1>1. in \in {4000000, 8000000}
  BY DEF HSI_VALUE, HSE_VALUE
<1>2. pll = m * in
  BY DEF HSI_VALUE, HSE_VALUE
<1>3. m \in 2 .. 18 /\ (half => m = k) /\ (~half => 2 * m = k)
  BY TablesAgree
<1>4. (IF half THEN pll \div 2 ELSE pll) = (in * k) \div 2
  <2> HIDE DEF in, m, k, pll, half
  <2>1. CASE in = 4000000
    BY <1>2, <1>3, <2>1
  <2>2. CASE in = 8000000
    BY <1>2, <1>3, <2>2
  <2> QED
    BY <1>1, <2>1, <2>2
<1>5. AHBPrescTable[r.hpre + 1] =
        IF r.hpre < 8 THEN 0 ELSE r.hpre - (IF r.hpre < 12 THEN 7 ELSE 6)
  BY PrescalersAgree
<1> QED
  BY <1>4, <1>5 DEF SystemCoreClockUpdate, Frequency

\* SystemCoreClockUpdate decodes every combination of factors as the hardware does:
\* UpdateIsActual, on both kinds of chip.
THEOREM UpdateCorrect == ClockSpec => []UpdateIsActual
<1>1. IInv => UpdateIsActual
  <2> SUFFICES ASSUME IInv PROVE UpdateIsActual
    OBVIOUS
  <2>1. /\ build.v307 \in BOOLEAN /\ DOMAIN rcc = Fields
        /\ rcc.hpre \in 0 .. 15 /\ rcc.pllmull \in 0 .. 15
        /\ rcc.sws \in {"HSI", "HSE", "PLL"}
        /\ rcc.pllsrc \in {"HSI/2", "HSE"} /\ rcc.pllxtpre \in {1, 2}
    BY BuildsAssumption DEF IInv, RccType, Switched
  <2>2. ASSUME NEW code \in 0 .. 15, NEW src \in {"HSI/2", "HSE"}, NEW xtpre \in {1, 2},
               NEW r, r = [rcc EXCEPT !.pllmull = code, !.pllsrc = src, !.pllxtpre = xtpre]
        PROVE  SystemCoreClockUpdate(r) = Frequency(r)
    <3>1. /\ r.pllmull = code /\ r.pllsrc = src /\ r.pllxtpre = xtpre
          /\ r.hpre = rcc.hpre /\ r.sws = rcc.sws
      BY <2>1, <2>2 DEF Fields
    <3> QED
      BY <2>1, <3>1, UpdateIs
  <2>3. ASSUME NEW hpre \in 0 .. 15, NEW r, r = [rcc EXCEPT !.hpre = hpre]
        PROVE  SystemCoreClockUpdate(r) = Frequency(r)
    <3>1. /\ r.hpre = hpre /\ r.pllmull = rcc.pllmull /\ r.pllsrc = rcc.pllsrc
          /\ r.pllxtpre = rcc.pllxtpre /\ r.sws = rcc.sws
      BY <2>1, <2>3 DEF Fields
    <3> QED
      BY <2>1, <3>1, UpdateIs
  <2> QED
    BY <2>2, <2>3 DEF UpdateIsActual
<1> QED
  BY <1>1, Inductive, PTL
=============================================================================
