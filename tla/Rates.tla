------------------------------- MODULE Rates -------------------------------
(***************************************************************************)
(* The rates of the oscilloscope's inputs and outputs: what                *)
(* wavein_samplerate (Runtime/amx_wavein.c), waveout_analog and            *)
(* waveout_digital (Runtime/amx_waveout.c) write into the registers of     *)
(* three timers, and the rate they return.  A timer divides its clock by   *)
(* PSC + 1 and then by ARR + 1; both registers have 16 bits.               *)
(***************************************************************************)
EXTENDS Integers

CONSTANTS
  CPUFREQ,      \* the clock, in Hz (72000000)
  COUNTER,      \* values of a timer register (2^16)
  FIX_ONE,      \* the number 1 in fixed point (2^16)
  Rates,        \* the rates programs ask for
  Duties        \* the duty cycles they ask for

\* Rates are positive: with a rate of 0 the C code divides by zero.  The third line is what
\* keeps a counter of exactly COUNTER clocks away (72000000 <= 65535 * 1099).
ASSUME RatesAssumption ==
  /\ CPUFREQ \in Nat /\ COUNTER \in Nat /\ COUNTER >= 2
  /\ CPUFREQ >= COUNTER /\ CPUFREQ \div COUNTER < COUNTER
  /\ CPUFREQ <= (COUNTER - 1) * (CPUFREQ \div COUNTER + 1)
  /\ FIX_ONE \in Nat /\ FIX_ONE >= 2 /\ FIX_ONE % 2 = 0
  /\ Rates \subseteq Nat \ {0}
  /\ Duties \subseteq 0 .. FIX_ONE

VARIABLES
  base,         \* T_BASE: the input's sampling clock
  analog,       \* TIM7: the clock of the DAC's samples
  digital,      \* TIM4: the square wave, with its compare register ccr
  call          \* the last call: function, arguments and what it returned

vars == <<base, analog, digital, call>>

-----------------------------------------------------------------------------
(* mathutils.h *)

\* (Names ending in _BugN are faulty variants of the definition after them;
\* README.md says which property notices each.)

\* Ceiling of x / y, for x > 0.
div_round_up_Bug1(x, y) == x \div y
div_round_up_Bug2(x, y) == x \div y + 1
div_round_up(x, y) == (x - 1) \div y + 1

\* x / y to the nearest.
div_round(x, y) == (x + y \div 2) \div y

-----------------------------------------------------------------------------
(* What the three functions compute alike *)

prescale_Bug1(rate) == CPUFREQ \div (COUNTER * (rate + 1))
prescale(rate) == (CPUFREQ \div COUNTER) \div rate

\* The clock behind the prescaler, whose fraction is dropped.
prescaled(rate) == CPUFREQ \div (prescale(rate) + 1)

arr(rate) == div_round_up(prescaled(rate), rate) - 1

\* The rate returned.
actual_Bug1(rate) == rate
actual(rate) == div_round(prescaled(rate), arr(rate) + 1)

\* fix16_mul of two numbers that are not negative: the product is rounded.
fix16_mul_Bug1(a, b) == (a * b) \div FIX_ONE
fix16_mul(a, b) == (a * b + FIX_ONE \div 2) \div FIX_ONE

-----------------------------------------------------------------------------
Timer(rate) == [psc |-> prescale(rate), arr |-> arr(rate)]

\* wavein_samplerate(frequency)
wavein_samplerate(freq) ==
  /\ base' = Timer(freq)
  /\ call' = [fn |-> "wavein_samplerate", rate |-> freq, duty |-> 0, result |-> actual(freq)]
  /\ UNCHANGED <<analog, digital>>

\* waveout_analog(buffer, samplerate, count), without the DMA that fetches the samples.
waveout_analog(samplerate) ==
  /\ analog' = Timer(samplerate)
  /\ call' = [fn |-> "waveout_analog", rate |-> samplerate, duty |-> 0,
              result |-> actual(samplerate)]
  /\ UNCHANGED <<base, digital>>

\* if (arr == 0) return 0
TooFast(frequency) == arr(frequency) = 0

\* waveout_digital(frequency, duty)
waveout_digital(frequency, duty) ==
  /\ digital' = IF TooFast(frequency) THEN digital
                ELSE [psc |-> prescale(frequency), arr |-> arr(frequency),
                      ccr |-> fix16_mul(duty, arr(frequency) + 1)]
  /\ call' = [fn |-> "waveout_digital", rate |-> frequency, duty |-> duty,
              result |-> IF TooFast(frequency) THEN 0 ELSE actual(frequency)]
  /\ UNCHANGED <<base, analog>>

Idle == [psc |-> 0, arr |-> 0]

Init ==
  /\ base = Idle /\ analog = Idle
  /\ digital = [psc |-> 0, arr |-> 0, ccr |-> 0]
  /\ call = [fn |-> "none", rate |-> 1, duty |-> 0, result |-> 0]

Next ==
  \E rate \in Rates :
    \/ wavein_samplerate(rate)
    \/ waveout_analog(rate)
    \/ \E duty \in Duties : waveout_digital(rate, duty)

Spec == Init /\ [][Next]_vars

-----------------------------------------------------------------------------
(* Properties *)

Register == 0 .. COUNTER - 1

\* Every value written to a timer register fits its 16 bits, for the lowest rates
\* too ("Prescale is used only for <1000Hz", amx_wavein.c:63): otherwise the hardware
\* would run at a rate that has nothing to do with the one returned.  That includes the
\* compare register at 100 %, which is one above the top of the counter.
TypeOK ==
  /\ base \in [psc : Register, arr : Register]
  /\ analog \in [psc : Register, arr : Register]
  /\ digital \in [psc : Register, arr : Register, ccr : Register]
  /\ call.fn \in {"none", "wavein_samplerate", "waveout_analog", "waveout_digital"}
  /\ call.rate \in Nat \ {0} /\ call.duty \in 0 .. FIX_ONE /\ call.result \in Nat

\* The timer the last call was about.
LastTimer ==
  IF call.fn = "waveout_analog" THEN analog
  ELSE IF call.fn = "waveout_digital" THEN digital
  ELSE base

Done == call.fn # "none" /\ ~(call.fn = "waveout_digital" /\ call.result = 0)

Divider == (LastTimer.psc + 1) * (LastTimer.arr + 1)

\* "It returns the actual samplerate, which is always less or equal to the requested
\* samplerate" (wavein.inc:65-66), although the rate returned is rounded to the nearest
\* (amx_wavein.c:71, amx_waveout.c:31 and 49).
RateNotAbove == call.result <= call.rate

\* "This tries to achieve a sample rate as close as possible to the given rate"
\* (wavein.inc:64): with the same prescaler, a counter shorter by one would already run
\* faster than what was asked for.
RateIsClosest ==
  Done /\ LastTimer.arr > 0
    => (CPUFREQ \div (LastTimer.psc + 1)) > call.rate * LastTimer.arr

\* What is returned is the rate of the hardware, CPUFREQ / Divider, up to the rounding
\* to whole Hz and the fraction the prescaled clock loses.
Distance(a, b) == IF a >= b THEN a - b ELSE b - a
RateIsReal ==
  Done => 2 * Distance(call.result * Divider, CPUFREQ)
            <= Divider + 2 * (LastTimer.psc + 1)

\* What the three say together: the rate returned is the best the hardware can do with that
\* prescaler without going above the rate asked for.
RateIsBest == RateNotAbove /\ RateIsClosest /\ RateIsReal

\* The square wave is high for the part of the period asked for, to the nearest
\* clock, and never for longer than the period (amx_waveout.c:41).
DutyIsNearest ==
  Done /\ call.fn = "waveout_digital"
    => /\ digital.ccr <= digital.arr + 1
       /\ 2 * Distance(digital.ccr * FIX_ONE, call.duty * (digital.arr + 1)) <= FIX_ONE
=============================================================================
