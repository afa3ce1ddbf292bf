---------------------------- MODULE RatesProofs ----------------------------
(* Theorems about module Rates, for every clock, rate and duty cycle. *)
EXTENDS Rates, TLAPS

-----------------------------------------------------------------------------
(* Integer division *)

\* The quotient is the largest number whose product with the divisor does not exceed
\* the dividend.
LEMMA Quotient ==
  ASSUME NEW x \in Nat, NEW y \in Nat \ {0}
  PROVE  /\ x \div y \in Nat
         /\ y * (x \div y) <= x
         /\ x < y * (x \div y) + y
OBVIOUS

\* A factor may be dropped from both sides of a comparison.
LEMMA Cancel ==
  ASSUME NEW x \in Int, NEW y \in Int, NEW k \in Nat \ {0}, k * x < k * y
  PROVE  x < y
<1>1. SUFFICES ASSUME y <= x PROVE FALSE
  OBVIOUS
<1>2. x - y \in Nat /\ k * (x - y) >= 0
  BY <1>1
<1>3. k * (x - y) = k * x - k * y
  OBVIOUS
<1> QED BY <1>2, <1>3

\* A product grows with its factors.
LEMMA Grow ==
  ASSUME NEW x \in Int, NEW y \in Int, NEW k \in Nat, x <= y
  PROVE  k * x <= k * y
<1>1. y - x \in Nat /\ k * (y - x) >= 0
  OBVIOUS
<1>2. k * (y - x) = k * y - k * x
  OBVIOUS
<1> QED BY <1>1, <1>2

\* div_round_up is the ceiling (mathutils.h:66-70).
LEMMA Ceiling ==
  ASSUME NEW x \in Nat \ {0}, NEW y \in Nat \ {0}
  PROVE  /\ div_round_up(x, y) \in Nat \ {0}
         /\ x <= y * div_round_up(x, y)
         /\ y * (div_round_up(x, y) - 1) < x
<1> DEFINE d == (x - 1) \div y
<1>1. /\ d \in Nat
      /\ y * d <= x - 1
      /\ x - 1 < y * d + y
  <2>1. x - 1 \in Nat
    OBVIOUS
  <2> QED BY <2>1, Quotient
<1>2. div_round_up(x, y) = d + 1
  BY DEF div_round_up
<1>3. y * (d + 1) = y * d + y /\ y * ((d + 1) - 1) = y * d
  BY <1>1
<1> HIDE DEF d
<1> QED BY <1>1, <1>2, <1>3

\* div_round is the nearest integer (mathutils.h:72-76).
LEMMA Nearest ==
  ASSUME NEW x \in Nat, NEW y \in Nat \ {0}
  PROVE  /\ div_round(x, y) \in Nat
         /\ 2 * (y * div_round(x, y)) <= 2 * x + y
         /\ 2 * x <= 2 * (y * div_round(x, y)) + y
<1> DEFINE h == y \div 2
           d == (x + h) \div y
<1>1. h \in Nat /\ 2 * h <= y /\ y < 2 * h + 2
  OBVIOUS
<1>2. x + h \in Nat
  BY <1>1
<1>3. /\ d \in Nat
      /\ y * d <= x + h
      /\ x + h < y * d + y
  BY <1>2, Quotient
<1>4. div_round(x, y) = d
  BY DEF div_round
<1>5. y * d \in Int
  BY <1>3
<1> HIDE DEF d, h
<1> QED BY <1>1, <1>3, <1>4, <1>5
-----------------------------------------------------------------------------
(* The registers of a timer *)

\* The prescaler fits its register and leaves a clock of at least 1 Hz, which is
\* slow enough for the counter.
LEMMA Prescaler ==
  ASSUME NEW f \in Nat \ {0}
  PROVE  /\ prescale(f) \in Register
         /\ prescaled(f) \in Nat \ {0}
         /\ (prescale(f) + 1) * prescaled(f) <= CPUFREQ
         /\ CPUFREQ < (prescale(f) + 1) * prescaled(f) + (prescale(f) + 1)
         /\ prescaled(f) <= (COUNTER - 1) * f
<1> DEFINE m == CPUFREQ \div COUNTER
           s == m \div f
           q == CPUFREQ \div (s + 1)
<1>c. /\ CPUFREQ \in Nat /\ COUNTER \in Nat /\ COUNTER >= 2
      /\ CPUFREQ >= COUNTER
  BY RatesAssumption
<1>1. /\ m \in Nat
      /\ COUNTER * m <= CPUFREQ
      /\ CPUFREQ < COUNTER * m + COUNTER
  BY <1>c, Quotient
<1>2. s \in Nat /\ f * s <= m /\ m < f * s + f
  BY <1>1, Quotient
<1>3. q \in Nat /\ (s + 1) * q <= CPUFREQ /\ CPUFREQ < (s + 1) * q + (s + 1)
  <2> HIDE DEF s
  <2>1. s + 1 \in Nat \ {0}
    BY <1>2
  <2> QED BY <1>c, <2>1, Quotient
<1> HIDE DEF m, s, q
<1>4. m < COUNTER
  BY RatesAssumption DEF m
<1>5. s <= m
  <2>1. 1 * s <= f * s
    BY <1>2
  <2> QED BY <2>1, <1>1, <1>2
<1>6. s + 1 <= CPUFREQ
  <2>1. 2 * m <= COUNTER * m
    BY <1>c, <1>1
  <2>2. 2 * m <= CPUFREQ
    BY <2>1, <1>1, <1>c
  <2> QED BY <2>2, <1>c, <1>1, <1>2, <1>5
<1>7. q >= 1
  <2>1. SUFFICES ASSUME q = 0 PROVE FALSE
    BY <1>3
  <2>2. (s + 1) * q = 0
    BY <2>1, <1>2
  <2> QED BY <2>2, <1>2, <1>3, <1>6, <1>c
<1> DEFINE top == COUNTER - 1
<1>t. top \in Nat /\ CPUFREQ <= top * (m + 1)
  BY RatesAssumption DEF m
<1> HIDE DEF top
<1>8. q <= top * f
  <2>1. m + 1 <= f * (s + 1)
    BY <1>1, <1>2
  <2>2. top * (m + 1) <= top * (f * (s + 1))
    <3>1. f * (s + 1) \in Int /\ m + 1 \in Int
      BY <1>1, <1>2
    <3> QED BY <3>1, <2>1, <1>t, Grow
  <2>3. (s + 1) * (top * f + 1) = top * (f * (s + 1)) + s + 1
    BY <1>2, <1>t
  <2>4. (s + 1) * q < (s + 1) * (top * f + 1)
    <3>1. /\ top * (m + 1) \in Int /\ (s + 1) * q \in Int
          /\ top * (f * (s + 1)) \in Int
      BY <1>1, <1>2, <1>3, <1>t
    <3> QED BY <3>1, <2>2, <2>3, <1>2, <1>3, <1>t, <1>c
  <2>5. q \in Int /\ top * f \in Int /\ s + 1 \in Nat \ {0}
    BY <1>2, <1>3, <1>t
  <2>6. q < top * f + 1
    BY <2>4, <2>5, Cancel
  <2> QED BY <2>5, <2>6
<1>9. prescale(f) = s /\ prescaled(f) = q
  BY DEF prescale, prescaled, s, m, q
<1> QED BY <1>2, <1>3, <1>4, <1>5, <1>7, <1>8, <1>9, <1>1, <1>c DEF Register, top

\* The counter fits its register and is the shortest that is not too fast.
LEMMA Counter ==
  ASSUME NEW f \in Nat \ {0}
  PROVE  /\ arr(f) \in Register /\ arr(f) + 1 \in Register
         /\ prescaled(f) <= f * (arr(f) + 1)
         /\ f * arr(f) < prescaled(f)
<1> DEFINE q == prescaled(f)
           n == div_round_up(q, f)
<1>1. q \in Nat \ {0} /\ q <= (COUNTER - 1) * f
  BY Prescaler
<1>2. n \in Nat \ {0} /\ q <= f * n /\ f * (n - 1) < q
  BY <1>1, Ceiling
<1>3. arr(f) = n - 1
  BY DEF arr
<1> HIDE DEF q, n
<1>4. n - 1 < COUNTER - 1
  <2> DEFINE top == COUNTER - 1
  <2>t. top \in Nat
    BY RatesAssumption
  <2> HIDE DEF top
  <2>1. f * (n - 1) < f * top
    <3>1. f * top = top * f /\ f * top \in Int /\ f * (n - 1) \in Int /\ q <= top * f
      BY <1>1, <1>2, <2>t DEF top
    <3> QED BY <3>1, <1>1, <1>2
  <2>2. n - 1 < top
    BY <2>1, <2>t, <1>2, Cancel
  <2> QED BY <2>2 DEF top
<1>5. n - 1 + 1 = n
  BY <1>2
<1>6. arr(f) + 1 = n
  BY <1>3, <1>5
<1> QED BY <1>2, <1>3, <1>4, <1>6, RatesAssumption DEF Register, q

\* The rate returned is not above the one asked for, and is what the registers make
\* of the clock.
LEMMA Returned ==
  ASSUME NEW f \in Nat \ {0}
  PROVE  LET D == (prescale(f) + 1) * (arr(f) + 1)
         IN  /\ actual(f) \in Nat
             /\ actual(f) <= f
             /\ 2 * Distance(actual(f) * D, CPUFREQ) <= D + 2 * (prescale(f) + 1)
<1> DEFINE p == prescale(f) + 1
           q == prescaled(f)
           n == arr(f) + 1
           v == actual(f)
<1>1. /\ p \in Nat \ {0} /\ q \in Nat \ {0}
      /\ p * q <= CPUFREQ /\ CPUFREQ < p * q + p
  BY Prescaler, RatesAssumption DEF Register
<1>2. n \in Nat \ {0} /\ q <= f * n
  BY Counter, RatesAssumption DEF Register
<1>3. v = div_round(q, n)
  BY DEF actual
<1>4. v \in Nat /\ 2 * (n * v) <= 2 * q + n /\ 2 * q <= 2 * (n * v) + n
  BY <1>1, <1>2, <1>3, Nearest
<1> HIDE DEF p, q, n, v
<1>5. v <= f
  <2>1. n * f = f * n /\ n * f \in Int /\ n * v \in Int
    BY <1>2, <1>4
  <2>2. n * v < n * f + n
    BY <2>1, <1>1, <1>2, <1>4
  <2>3. n * v < n * (f + 1)
    BY <2>1, <2>2, <1>2
  <2>4. v < f + 1
    BY <2>3, <1>2, <1>4, Cancel
  <2> QED BY <2>4, <1>4
<1>6. 2 * Distance(v * (p * n), CPUFREQ) <= p * n + 2 * p
  <2>1. /\ p * (2 * (n * v)) <= p * (2 * q + n)
        /\ p * (2 * q) <= p * (2 * (n * v) + n)
    <3>1. 2 * (n * v) \in Int /\ 2 * q + n \in Int /\ 2 * q \in Int
          /\ 2 * (n * v) + n \in Int
      BY <1>1, <1>2, <1>4
    <3> QED BY <3>1, <1>1, <1>4, Grow
  <2>2. /\ p * (2 * (n * v)) = 2 * (v * (p * n))
        /\ p * (2 * q + n) = 2 * (p * q) + p * n
        /\ p * (2 * q) = 2 * (p * q)
        /\ p * (2 * (n * v) + n) = 2 * (v * (p * n)) + p * n
    BY <1>1, <1>2, <1>4
  <2>3. v * (p * n) \in Int /\ p * q \in Int /\ p * n \in Int /\ CPUFREQ \in Int
    BY <1>1, <1>2, <1>4, RatesAssumption
  <2> DEFINE a == v * (p * n)
             b == p * q
             d == p * n
  <2> HIDE DEF a, b, d
  <2>4. /\ 2 * a <= 2 * b + d /\ 2 * b <= 2 * a + d
        /\ b <= CPUFREQ /\ CPUFREQ < b + p
        /\ a \in Int /\ b \in Int /\ d \in Int
    BY <2>1, <2>2, <2>3, <1>1 DEF a, b, d
  <2>5. d >= 0
    BY <1>1, <1>2 DEF d
  <2>6. 2 * Distance(a, CPUFREQ) <= d + 2 * p
    BY <2>3, <2>4, <2>5, <1>1 DEF Distance
  <2> QED BY <2>6 DEF a, d
<1> QED BY <1>4, <1>5, <1>6 DEF p, n, v

\* fix16_mul of a duty cycle and a period (fix16.c:68-105).
LEMMA Duty ==
  ASSUME NEW d \in 0 .. FIX_ONE, NEW n \in Nat
  PROVE  /\ fix16_mul(d, n) \in 0 .. n
         /\ 2 * Distance(fix16_mul(d, n) * FIX_ONE, d * n) <= FIX_ONE
<1> DEFINE h == FIX_ONE \div 2
           c == (d * n + h) \div FIX_ONE
<1>1. FIX_ONE \in Nat \ {0} /\ h \in Nat /\ 2 * h = FIX_ONE
  BY RatesAssumption
<1>2. d * n \in Nat /\ d * n <= FIX_ONE * n
  BY <1>1
<1>3. /\ c \in Nat
      /\ FIX_ONE * c <= d * n + h
      /\ d * n + h < FIX_ONE * c + FIX_ONE
  <2>1. d * n + h \in Nat
    BY <1>1, <1>2
  <2> QED BY <1>1, <2>1, Quotient
<1>4. fix16_mul(d, n) = c
  BY DEF fix16_mul
<1> HIDE DEF h, c
<1>5. c <= n
  <2>1. FIX_ONE * c \in Int /\ FIX_ONE * n \in Int
    BY <1>1, <1>3
  <2>2. FIX_ONE * c < FIX_ONE * n + FIX_ONE
    BY <2>1, <1>1, <1>2, <1>3
  <2>3. FIX_ONE * c < FIX_ONE * (n + 1)
    BY <2>1, <2>2, <1>1
  <2>4. c < n + 1
    BY <2>3, <1>1, <1>3, Cancel
  <2> QED BY <2>4, <1>3
<1>6. c * FIX_ONE = FIX_ONE * c /\ FIX_ONE * c \in Int
  BY <1>1, <1>3
<1>7. 2 * Distance(c * FIX_ONE, d * n) <= FIX_ONE
  BY <1>1, <1>2, <1>3, <1>6 DEF Distance
<1> QED BY <1>3, <1>4, <1>5, <1>7

-----------------------------------------------------------------------------
(* The invariant: the last call's timer and result are those of its arguments *)

RatesInv ==
  /\ TypeOK
  /\ Done => /\ LastTimer.psc = prescale(call.rate)
             /\ LastTimer.arr = arr(call.rate)
             /\ call.result = actual(call.rate)
  /\ Done /\ call.fn = "waveout_digital"
       => digital.ccr = fix16_mul(call.duty, digital.arr + 1)
  /\ ~Done => call.result = 0

LEMMA InitRates == Init => RatesInv
BY RatesAssumption DEF Init, RatesInv, TypeOK, Idle, Done, Register

LEMMA NextRates == ASSUME RatesInv, [Next]_vars PROVE RatesInv'
<1> USE DEF RatesInv
<1>1. ASSUME NEW f \in Rates, wavein_samplerate(f) PROVE RatesInv'
  <2>1. f \in Nat \ {0} /\ 0 \in 0 .. FIX_ONE
    BY RatesAssumption
  <2>2. prescale(f) \in Register /\ arr(f) \in Register /\ actual(f) \in Nat
    BY <2>1, Prescaler, Counter, Returned
  <2> QED BY <1>1, <2>1, <2>2 DEF wavein_samplerate, Timer, TypeOK, Done, LastTimer
<1>2. ASSUME NEW f \in Rates, waveout_analog(f) PROVE RatesInv'
  <2>1. f \in Nat \ {0} /\ 0 \in 0 .. FIX_ONE
    BY RatesAssumption
  <2>2. prescale(f) \in Register /\ arr(f) \in Register /\ actual(f) \in Nat
    BY <2>1, Prescaler, Counter, Returned
  <2> QED BY <1>2, <2>1, <2>2 DEF waveout_analog, Timer, TypeOK, Done, LastTimer
<1>3. ASSUME NEW f \in Rates, NEW d \in Duties, waveout_digital(f, d) PROVE RatesInv'
  <2>1. f \in Nat \ {0} /\ d \in 0 .. FIX_ONE
    BY RatesAssumption
  <2>2. prescale(f) \in Register /\ arr(f) \in Register /\ actual(f) \in Nat
    BY <2>1, Prescaler, Counter, Returned
  <2>3. arr(f) + 1 \in Nat /\ arr(f) + 1 <= COUNTER - 1
    BY <2>1, Counter, RatesAssumption DEF Register
  <2>4. fix16_mul(d, arr(f) + 1) \in Register
    <3>1. fix16_mul(d, arr(f) + 1) \in 0 .. (arr(f) + 1)
      BY <2>1, <2>3, Duty
    <3> QED BY <3>1, <2>3, RatesAssumption DEF Register
  <2>5. CASE TooFast(f)
    BY <1>3, <2>1, <2>5 DEF waveout_digital, TypeOK, Done, LastTimer
  <2>6. CASE ~TooFast(f)
    BY <1>3, <2>1, <2>2, <2>4, <2>6 DEF waveout_digital, TypeOK, Done, LastTimer
  <2> QED BY <2>5, <2>6
<1>4. CASE UNCHANGED vars
  BY <1>4 DEF vars, TypeOK, Done, LastTimer
<1> QED BY <1>1, <1>2, <1>3, <1>4 DEF Next

LEMMA RatesInvariant == Spec => []RatesInv
<1>1. RatesInv /\ [Next]_vars => RatesInv'
  BY NextRates
<1> QED BY InitRates, <1>1, PTL DEF Spec

-----------------------------------------------------------------------------
(* The theorems *)

\* All that is written fits the 16 bits of its register, the compare register at 100 %
\* included, for every rate from 1 Hz on (amx_waveout.c:39-47).
THEOREM RegistersFit == Spec => []TypeOK
<1>1. RatesInv => TypeOK
  BY DEF RatesInv
<1> QED BY RatesInvariant, <1>1, PTL

\* The rate returned is never above the rate asked for, in spite of the rounding.
THEOREM RateIsNotAbove == Spec => []RateNotAbove
<1>1. RatesInv => RateNotAbove
  <2> SUFFICES ASSUME RatesInv PROVE RateNotAbove
    OBVIOUS
  <2>1. call.rate \in Nat \ {0}
    BY DEF RatesInv, TypeOK
  <2>2. actual(call.rate) <= call.rate
    BY <2>1, Returned
  <2> QED BY <2>1, <2>2 DEF RatesInv, RateNotAbove
<1> QED BY RatesInvariant, <1>1, PTL

\* No shorter counter would keep to the rate asked for.
THEOREM RateIsTheClosest == Spec => []RateIsClosest
<1>1. RatesInv => RateIsClosest
  <2> SUFFICES ASSUME RatesInv, Done PROVE CPUFREQ \div (LastTimer.psc + 1) > call.rate * LastTimer.arr
    BY DEF RateIsClosest
  <2>1. call.rate \in Nat \ {0}
    BY DEF RatesInv, TypeOK
  <2>2. call.rate * arr(call.rate) < prescaled(call.rate)
    BY <2>1, Counter
  <2>3. call.rate * arr(call.rate) \in Int /\ prescaled(call.rate) \in Int
    BY <2>1, Counter, Prescaler, RatesAssumption DEF Register
  <2> QED BY <2>2, <2>3 DEF RatesInv, prescaled
<1> QED BY RatesInvariant, <1>1, PTL

\* The rate returned is the rate of the hardware, up to rounding.
THEOREM RateIsTheHardwares == Spec => []RateIsReal
<1>1. RatesInv => RateIsReal
  <2> SUFFICES ASSUME RatesInv, Done
               PROVE  2 * Distance(call.result * Divider, CPUFREQ)
                        <= Divider + 2 * (LastTimer.psc + 1)
    BY DEF RateIsReal
  <2>1. call.rate \in Nat \ {0}
    BY DEF RatesInv, TypeOK
  <2> QED BY <2>1, Returned DEF RatesInv, Divider
<1> QED BY RatesInvariant, <1>1, PTL

\* The three together, for every rate and frequency of the clock (amx_wavein.c:59-72).
THEOREM RateIsTheBest == Spec => []RateIsBest
BY RateIsNotAbove, RateIsTheClosest, RateIsTheHardwares, PTL DEF RateIsBest

\* The duty cycle is met to the nearest clock.
THEOREM DutyIsMet == Spec => []DutyIsNearest
<1>1. RatesInv => DutyIsNearest
  <2> SUFFICES ASSUME RatesInv, Done, call.fn = "waveout_digital"
               PROVE  /\ digital.ccr <= digital.arr + 1
                      /\ 2 * Distance(digital.ccr * FIX_ONE, call.duty * (digital.arr + 1))
                            <= FIX_ONE
    BY DEF DutyIsNearest
  <2>1. call.duty \in 0 .. FIX_ONE /\ digital.arr \in Register
    BY DEF RatesInv, TypeOK
  <2>2. digital.arr + 1 \in Nat
    BY <2>1, RatesAssumption DEF Register
  <2>3. digital.ccr = fix16_mul(call.duty, digital.arr + 1)
    BY DEF RatesInv
  <2>4. digital.ccr \in 0 .. (digital.arr + 1)
    BY <2>1, <2>2, <2>3, Duty
  <2>5. 2 * Distance(digital.ccr * FIX_ONE, call.duty * (digital.arr + 1)) <= FIX_ONE
    BY <2>1, <2>2, <2>3, Duty
  <2> QED BY <2>2, <2>4, <2>5
<1> QED BY RatesInvariant, <1>1, PTL
=============================================================================
