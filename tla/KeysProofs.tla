----------------------------- MODULE KeysProofs -----------------------------
(***************************************************************************)
(* Theorems about module Keys for every set of keys, every counter width   *)
(* and all argument sets.                                                  *)
(***************************************************************************)
EXTENDS Keys, TLAPS

USE KeysAssumption DEF KeysAssumption

\* Differences of clock values are clock values.
LEMMA ElapsedType ==
  ASSUME NEW a \in Time, NEW b \in Time
  PROVE  Elapsed(a, b) \in Time
BY DEF Elapsed, Time

LEMMA NextTickType ==
  ASSUME TICKCOUNT \in Time
  PROVE  NextTick \in Time
BY DEF NextTick, Time

\* Every variable stays within the C type the source gives it.
THEOREM TypeCorrect == Spec => []TypeOK
<1>1. Init => TypeOK
  <2>1. 0 \in Time
    BY DEF Time
  <2>2. Init => /\ KEYS_PRESSED \in SUBSET Keys /\ KEYS_DOWN \in SUBSET Keys
                /\ mask \in SUBSET Keys /\ word \in SUBSET Keys
                /\ keys \in SUBSET Keys /\ out \in SUBSET Keys
                /\ monitor \in BOOLEAN
    BY DEF Init
  <2>3. Init => /\ BEEP_TIME \in Int /\ BEEP_VOLUME \in Nat
                /\ ms \in Int /\ waited \in Nat /\ quiet \in 0 .. DEBOUNCE
    BY DEF Init
  <2>4. QED
    BY <2>1, <2>2, <2>3, Zenon DEF Init, TypeOK
<1>2. TypeOK /\ [Next]_vars => TypeOK'
  <2> SUFFICES ASSUME TypeOK, [Next]_vars PROVE TypeOK'
    OBVIOUS
  <2>1. ASSUME NEW down \in SUBSET Keys, TIM3_IRQHandler(down) PROVE TypeOK'
    <3>1. NextTick \in Time
      BY NextTickType DEF TypeOK
    <3>2. LastDownAt(NextTick, down) \in Time
      BY <3>1 DEF LastDownAt, TypeOK
    <3>3. (IF down # KEYS_DOWN THEN NextTick ELSE KEYS_LAST_CHANGED) \in Time
      BY <3>1 DEF TypeOK
    <3>4. KEYS_PRESSED' \in SUBSET Keys
      BY <2>1 DEF TypeOK, TIM3_IRQHandler, FirstPress, Repeats
    <3>5. BEEP_TIME' \in Int /\ BEEP_VOLUME' \in Nat
      BY <2>1 DEF TypeOK, TIM3_IRQHandler, BeepCountdown
    <3>6. waited' \in Nat /\ quiet' \in 0 .. DEBOUNCE
      BY <2>1 DEF TypeOK, TIM3_IRQHandler
    <3>7. QED
      BY <2>1, <3>1, <3>2, <3>3, <3>4, <3>5, <3>6
      DEF TypeOK, TIM3_IRQHandler, heldVars
  <2>2. CASE Call
    BY <2>2 DEF Call, PeekKeys, GetKeysCall, HeldKeysCall, DelayCall, BeepVolume,
       TypeOK, Time, isrVars, beepVars, getVars, heldVars, delayVars
  <2>3. CASE GetKeysStep
    BY <2>3 DEF GetKeysStep, LoadExclusive, StoreExclusive, StoreRefused,
       TypeOK, isrVars, beepVars, getVars, heldVars, delayVars
  <2>4. CASE HeldKeysStep
    BY <2>4 DEF HeldKeysStep, HeldReadTime, HeldReadKeys, HeldCheck, HeldReturn,
       TypeOK, Time, isrVars, beepVars, getVars, heldVars, delayVars
  <2>5. CASE DelayReturn
    BY <2>5 DEF DelayReturn, TypeOK, Time, isrVars, beepVars, getVars, heldVars
  <2>6. CASE BeepTime
    BY <2>6 DEF BeepTime, TypeOK, isrVars, beepVars, getVars, heldVars
  <2>7. CASE UNCHANGED vars
    BY <2>7 DEF TypeOK, vars, isrVars, beepVars, getVars, heldVars, delayVars
  <2>8. QED
    BY <2>1, <2>2, <2>3, <2>4, <2>5, <2>6, <2>7 DEF Next, Interrupt
<1>3. QED
  BY <1>1, <1>2, PTL DEF Spec

-----------------------------------------------------------------------------
(* get_keys is atomic *)

\* The copy in the register is current as long as the monitor is set: only the
\* interrupt changes KEYS_PRESSED behind the thread's back, and it clears the
\* monitor.
CopyIsCurrent == pc = "strex" /\ monitor => word = KEYS_PRESSED

LEMMA CopyStaysCurrent == Spec => []CopyIsCurrent
<1>1. Init => CopyIsCurrent
  BY DEF Init, CopyIsCurrent
<1>2. TypeOK /\ CopyIsCurrent /\ [Next]_vars => CopyIsCurrent'
  <2> SUFFICES ASSUME TypeOK, CopyIsCurrent, [Next]_vars PROVE CopyIsCurrent'
    OBVIOUS
  <2> USE DEF CopyIsCurrent
  <2>1. ASSUME NEW down \in SUBSET Keys, TIM3_IRQHandler(down)
        PROVE  CopyIsCurrent'
    BY <2>1 DEF TIM3_IRQHandler
  <2>2. CASE Call
    BY <2>2 DEF Call, PeekKeys, GetKeysCall, HeldKeysCall, DelayCall, BeepVolume,
       getVars
  <2>3. CASE GetKeysStep
    BY <2>3 DEF GetKeysStep, LoadExclusive, StoreExclusive, StoreRefused
  <2>4. CASE HeldKeysStep
    BY <2>4 DEF HeldKeysStep, HeldReadTime, HeldReadKeys, HeldCheck, HeldReturn
  <2>5. CASE DelayReturn
    BY <2>5 DEF DelayReturn
  <2>6. CASE BeepTime
    BY <2>6 DEF BeepTime
  <2>7. CASE UNCHANGED vars
    BY <2>7 DEF vars, getVars
  <2>8. QED
    BY <2>1, <2>2, <2>3, <2>4, <2>5, <2>6, <2>7 DEF Next, Interrupt
<1>3. QED
  BY <1>1, <1>2, TypeCorrect, PTL DEF Spec

\* The interrupt and the retry loop implement the abstract key buffer: what
\* get_keys returns is what it removes, in one step, whenever it is interrupted.
THEOREM KeysImplementBuffer == Spec => AtomicKeyBuffer
<1> USE DEF Buffer!kbVars
<1>1. Init => Buffer!KBInit
  BY DEF Init, Buffer!KBInit
<1>2. TypeOK /\ CopyIsCurrent /\ [Next]_vars => [Buffer!KBNext]_(Buffer!kbVars)
  <2> SUFFICES ASSUME TypeOK, CopyIsCurrent, [Next]_vars
               PROVE  Buffer!KBNext \/ UNCHANGED Buffer!kbVars
    OBVIOUS
  <2>1. ASSUME NEW down \in SUBSET Keys, TIM3_IRQHandler(down)
        PROVE  Buffer!KBNext
    <3> DEFINE flags == FirstPress(NextTick, down)
                        \union Repeats(down, Elapsed(NextTick,
                            IF down # KEYS_DOWN THEN NextTick
                                                ELSE KEYS_LAST_CHANGED))
    <3>1. flags \in SUBSET Keys
      BY DEF FirstPress, Repeats
    <3>2. Buffer!Press(flags)
      BY <2>1 DEF TIM3_IRQHandler, Buffer!Press
    <3>3. QED
      BY <3>1, <3>2 DEF Buffer!KBNext
  <2>2. CASE Call
    <3>1. ASSUME NEW m \in SUBSET Keys, PeekKeys(m) PROVE Buffer!KBNext
      BY <3>1 DEF PeekKeys, Buffer!KBNext, Buffer!Look
    <3>2. QED
      BY <2>2, <3>1 DEF Call, GetKeysCall, HeldKeysCall, DelayCall, BeepVolume
  <2>3. CASE GetKeysStep
    <3>1. CASE StoreExclusive
      <4>1. Buffer!Take(mask)
        BY <3>1 DEF StoreExclusive, CopyIsCurrent, Buffer!Take
      <4>2. QED
        BY <4>1 DEF Buffer!KBNext, TypeOK
    <3>2. QED
      BY <2>3, <3>1 DEF GetKeysStep, LoadExclusive, StoreRefused
  <2>4. CASE HeldKeysStep
    BY <2>4 DEF HeldKeysStep, HeldReadTime, HeldReadKeys, HeldCheck, HeldReturn
  <2>5. CASE DelayReturn
    BY <2>5 DEF DelayReturn
  <2>6. CASE BeepTime
    BY <2>6 DEF BeepTime
  <2>7. CASE UNCHANGED vars
    BY <2>7 DEF vars
  <2>8. QED
    BY <2>1, <2>2, <2>3, <2>4, <2>5, <2>6, <2>7 DEF Next, Interrupt
<1>3. QED
  BY <1>1, <1>2, TypeCorrect, CopyStaysCurrent, PTL
  DEF Spec, AtomicKeyBuffer, Buffer!KBSpec

-----------------------------------------------------------------------------
(* Debouncing *)

LEMMA LastDownStaysNow == Spec => []LastDownIsNow
<1>1. Init => LastDownIsNow
  BY DEF Init, LastDownIsNow
<1>2. LastDownIsNow /\ [Next]_vars => LastDownIsNow'
  <2> SUFFICES ASSUME LastDownIsNow, [Next]_vars PROVE LastDownIsNow'
    OBVIOUS
  <2> USE DEF LastDownIsNow
  <2>1. ASSUME NEW down \in SUBSET Keys, TIM3_IRQHandler(down)
        PROVE  LastDownIsNow'
    BY <2>1 DEF TIM3_IRQHandler, LastDownAt
  <2>2. CASE UNCHANGED isrVars
    BY <2>2 DEF isrVars
  <2>3. QED
    BY <2>1, <2>2 DEF Next, Interrupt, Call, PeekKeys, GetKeysCall, HeldKeysCall,
       DelayCall, BeepVolume, GetKeysStep, LoadExclusive, StoreExclusive,
       StoreRefused, HeldKeysStep, HeldReadTime, HeldReadKeys, HeldCheck,
       HeldReturn, DelayReturn, BeepTime, vars
<1>3. QED
  BY <1>1, <1>2, PTL DEF Spec

\* While quiet still counts, a key was down no longer ago than it says, by the unsigned
\* difference, wherever the counter wraps.
QuietCounted == quiet = DEBOUNCE \/ Elapsed(TICKCOUNT, KEYS_LAST_DOWN) <= quiet

LEMMA QuietStaysCounted == Spec => []QuietCounted
<1> USE DEF QuietCounted
<1>1. Init => QuietCounted
  BY DEF Init, Elapsed
<1>2. TypeOK /\ QuietCounted /\ [Next]_vars => QuietCounted'
  <2> SUFFICES ASSUME TypeOK, QuietCounted, [Next]_vars PROVE QuietCounted'
    OBVIOUS
  <2>1. ASSUME NEW down \in SUBSET Keys, TIM3_IRQHandler(down)
        PROVE  QuietCounted'
    <3>1. /\ TICKCOUNT' = NextTick
          /\ KEYS_LAST_DOWN' = IF down # {} THEN NextTick ELSE KEYS_LAST_DOWN
          /\ quiet' = IF down # {} THEN 0
                      ELSE IF quiet < DEBOUNCE THEN quiet + 1 ELSE quiet
      BY <2>1 DEF TIM3_IRQHandler, LastDownAt
    <3>2. TICKCOUNT \in 0 .. W-1 /\ KEYS_LAST_DOWN \in 0 .. W-1 /\ quiet \in 0 .. DEBOUNCE
      BY DEF TypeOK, Time
    <3> QED
      BY <3>1, <3>2 DEF Elapsed, NextTick
  <2>2. CASE UNCHANGED isrVars
    BY <2>2 DEF isrVars, Elapsed
  <2>3. QED
    BY <2>1, <2>2 DEF Next, Interrupt, Call, PeekKeys, GetKeysCall, HeldKeysCall,
       DelayCall, BeepVolume, GetKeysStep, LoadExclusive, StoreExclusive,
       StoreRefused, HeldKeysStep, HeldReadTime, HeldReadKeys, HeldCheck,
       HeldReturn, DelayReturn, BeepTime, vars
<1>3. QED
  BY <1>1, <1>2, TypeCorrect, PTL DEF Spec

\* A tick that is not preceded by DEBOUNCE ticks with no key down is no first press.
LEMMA BounceIsNoFirstPress ==
  ASSUME TypeOK, QuietCounted, quiet # DEBOUNCE, NEW down
  PROVE  FirstPress(NextTick, down) = {}
<1>1. Elapsed(NextTick, KEYS_LAST_DOWN) <= Elapsed(TICKCOUNT, KEYS_LAST_DOWN) + 1
  BY DEF Elapsed, NextTick, TypeOK, Time
<1>2. Elapsed(TICKCOUNT, KEYS_LAST_DOWN) \in Int /\ Elapsed(NextTick, KEYS_LAST_DOWN) \in Int
  BY DEF Elapsed, NextTick, TypeOK, Time
<1>3. quiet \in 0 .. DEBOUNCE
  BY DEF TypeOK
<1>4. ~(Elapsed(NextTick, KEYS_LAST_DOWN) > DEBOUNCE)
  BY <1>1, <1>2, <1>3 DEF QuietCounted
<1> QED
  BY <1>4 DEF FirstPress

\* Only scrollers that were down at the tick before are repeated.
LEMMA HeldRepeats ==
  ASSUME TypeOK, NEW down
  PROVE  LET changed == IF down # KEYS_DOWN THEN NextTick ELSE KEYS_LAST_CHANGED
         IN  Repeats(down, Elapsed(NextTick, changed))
               \subseteq REPEAT_KEYS \intersect KEYS_DOWN \intersect down
<1>1. CASE down # KEYS_DOWN
  <2>1. Elapsed(NextTick, NextTick) = 0
    BY DEF Elapsed, NextTick, TypeOK, Time
  <2> QED
    BY <1>1, <2>1 DEF Repeats
<1>2. CASE down = KEYS_DOWN
  BY <1>2 DEF Repeats
<1> QED
  BY <1>1, <1>2

\* Keys are flagged after DEBOUNCE quiet ticks, or they are scrollers that stay down:
\* for every debounce time, and wherever the counter wraps.
THEOREM BouncesAreNotFlagged == Spec => FlagOnlyOnPress
<1> DEFINE flagged == KEYS_PRESSED' \ KEYS_PRESSED
           Flagging ==
             flagged # {} =>
               \/ quiet = DEBOUNCE
               \/ flagged \subseteq REPEAT_KEYS \intersect KEYS_DOWN \intersect KEYS_DOWN'
<1>1. TypeOK /\ QuietCounted /\ CopyIsCurrent /\ [Next]_vars => [Flagging]_vars
  <2> SUFFICES ASSUME TypeOK, QuietCounted, CopyIsCurrent, [Next]_vars,
                      vars' # vars
               PROVE  Flagging
    OBVIOUS
  <2>1. ASSUME NEW down \in SUBSET Keys, TIM3_IRQHandler(down) PROVE Flagging
    <3>1. CASE quiet = DEBOUNCE
      BY <3>1
    <3>2. CASE quiet # DEBOUNCE
      <4>1. FirstPress(NextTick, down) = {}
        BY <3>2, BounceIsNoFirstPress
      <4> DEFINE repeated == Repeats(down, Elapsed(NextTick,
                   IF down # KEYS_DOWN THEN NextTick ELSE KEYS_LAST_CHANGED))
      <4>2. KEYS_PRESSED' = KEYS_PRESSED \union FirstPress(NextTick, down)
                                         \union repeated
            /\ KEYS_DOWN' = down
        BY <2>1 DEF TIM3_IRQHandler
      <4>3. repeated \subseteq REPEAT_KEYS \intersect KEYS_DOWN \intersect down
        BY HeldRepeats
      <4> HIDE DEF repeated
      <4> QED
        BY <4>1, <4>2, <4>3
    <3>3. QED
      BY <3>1, <3>2
  <2>2. CASE KEYS_PRESSED' \subseteq KEYS_PRESSED
    BY <2>2
  <2>3. CASE StoreExclusive
    BY <2>3 DEF StoreExclusive, CopyIsCurrent
  <2>4. QED
    BY <2>1, <2>2, <2>3 DEF Next, Interrupt, Call, PeekKeys, GetKeysCall,
       HeldKeysCall, DelayCall, BeepVolume, GetKeysStep, LoadExclusive,
       StoreRefused, HeldKeysStep, HeldReadTime, HeldReadKeys, HeldCheck,
       HeldReturn, DelayReturn, BeepTime, vars
<1>2. QED
  BY <1>1, TypeCorrect, QuietStaysCounted, CopyStaysCurrent, PTL
  DEF Spec, FlagOnlyOnPress

-----------------------------------------------------------------------------
(* Timestamps, before the counter wraps *)

\* The timestamps are in the past, ordered as the events they stamp; a call of
\* held_keys in progress has read them in that order.
Chronology ==
  /\ KEYS_LAST_DOWN <= TICKCOUNT /\ KEYS_LAST_CHANGED <= TICKCOUNT
  /\ KEYS_DOWN = {} => KEYS_LAST_DOWN <= KEYS_LAST_CHANGED
  /\ pc = "heldKeys"  => time <= KEYS_LAST_CHANGED
  /\ pc = "heldCheck" => time <= changedAt /\ changedAt <= KEYS_LAST_CHANGED
  /\ HeldConsistent

LEMMA ChronologyHolds ==
  ASSUME ~WRAPS
  PROVE  Spec => []Chronology
<1> USE DEF Chronology, HeldConsistent
<1>1. Init => Chronology
  BY DEF Init
<1>2. TypeOK /\ LastDownIsNow /\ Chronology /\ [Next]_vars => Chronology'
  <2> SUFFICES ASSUME TypeOK, LastDownIsNow, Chronology, [Next]_vars
               PROVE  Chronology'
    OBVIOUS
  <2>0. /\ TICKCOUNT \in Nat /\ KEYS_LAST_DOWN \in Nat
        /\ KEYS_LAST_CHANGED \in Nat /\ time \in Nat /\ changedAt \in Nat
    BY DEF TypeOK, Time
  <2>1. ASSUME NEW down \in SUBSET Keys, TIM3_IRQHandler(down)
        PROVE  Chronology'
    <3>1. /\ TICKCOUNT' = TICKCOUNT + 1
          /\ KEYS_LAST_DOWN' = IF down # {} THEN TICKCOUNT + 1
                                            ELSE KEYS_LAST_DOWN
          /\ KEYS_LAST_CHANGED' = IF down # KEYS_DOWN THEN TICKCOUNT + 1
                                                      ELSE KEYS_LAST_CHANGED
          /\ KEYS_DOWN' = down
          /\ UNCHANGED <<pc, time, changedAt>>
      BY <2>0, <2>1 DEF TIM3_IRQHandler, NextTick, LastDownAt, heldVars
    <3>2. KEYS_LAST_CHANGED <= KEYS_LAST_CHANGED'
      BY <2>0, <3>1
    <3>3. KEYS_DOWN' = {} => KEYS_LAST_DOWN' <= KEYS_LAST_CHANGED'
      BY <2>0, <3>1
    <3>4. QED
      BY <2>0, <3>1, <3>2, <3>3
  <2>2. CASE HeldReadTime
    BY <2>0, <2>2 DEF HeldReadTime, isrVars
  <2>3. CASE HeldReadKeys
    BY <2>0, <2>3 DEF HeldReadKeys, isrVars
  <2>4. CASE HeldCheck
    BY <2>0, <2>4 DEF HeldCheck, isrVars, heldVars
  <2>5. CASE HeldReturn
    BY <2>5 DEF HeldReturn, isrVars
  <2>6. CASE Call
    BY <2>6 DEF Call, PeekKeys, GetKeysCall, HeldKeysCall, DelayCall, BeepVolume,
       isrVars, heldVars
  <2>7. CASE GetKeysStep
    BY <2>7 DEF GetKeysStep, LoadExclusive, StoreExclusive, StoreRefused,
       isrVars, heldVars
  <2>8. CASE DelayReturn
    BY <2>8 DEF DelayReturn, isrVars, heldVars
  <2>9. CASE BeepTime
    BY <2>9 DEF BeepTime, isrVars, heldVars
  <2>10. CASE UNCHANGED vars
    BY <2>10 DEF vars, isrVars, heldVars
  <2>11. QED
    BY <2>1, <2>2, <2>3, <2>4, <2>5, <2>6, <2>7, <2>8, <2>9, <2>10
    DEF Next, Interrupt, HeldKeysStep
<1>3. QED
  BY <1>1, <1>2, TypeCorrect, LastDownStaysNow, PTL DEF Spec

\* held_keys returns keys together with the time since which they are down.
THEOREM HeldKeysReadsAgree ==
  ASSUME ~WRAPS
  PROVE  Spec => []HeldConsistent
<1>1. Chronology => HeldConsistent
  BY DEF Chronology
<1>2. QED
  BY <1>1, ChronologyHolds, PTL

\* A press after a quiet time longer than the debounce time is not missed.
THEOREM QuietPressIsFlagged ==
  ASSUME ~WRAPS
  PROVE  Spec => QuietPressFlagged
<1> DEFINE Flagged ==
      KEYS_DOWN = {} /\ Elapsed(TICKCOUNT', KEYS_LAST_CHANGED) > DEBOUNCE
      => KEYS_DOWN' \subseteq KEYS_PRESSED'
<1>1. TypeOK /\ Chronology /\ [Next]_vars => [Flagged]_isrVars
  <2> SUFFICES ASSUME TypeOK, Chronology, [Next]_vars, isrVars' # isrVars
               PROVE  Flagged
    OBVIOUS
  <2>1. PICK down \in SUBSET Keys : TIM3_IRQHandler(down)
    BY DEF Next, Interrupt, Call, PeekKeys, GetKeysCall, HeldKeysCall, DelayCall,
       BeepVolume, GetKeysStep, LoadExclusive, StoreExclusive, StoreRefused,
       HeldKeysStep, HeldReadTime, HeldReadKeys, HeldCheck, HeldReturn,
       DelayReturn, BeepTime, vars
  <2>2. TICKCOUNT' = NextTick /\ NextTick = TICKCOUNT + 1
    BY <2>1 DEF TIM3_IRQHandler, NextTick, TypeOK, Time
  <2>3. ASSUME KEYS_DOWN = {}, Elapsed(TICKCOUNT', KEYS_LAST_CHANGED) > DEBOUNCE
        PROVE  Elapsed(NextTick, KEYS_LAST_DOWN) > DEBOUNCE
    BY <2>2, <2>3 DEF Elapsed, Chronology, TypeOK, Time
  <2>4. QED
    BY <2>1, <2>3 DEF TIM3_IRQHandler, FirstPress
<1>2. QED
  BY <1>1, TypeCorrect, ChronologyHolds, PTL DEF Spec, QuietPressFlagged

-----------------------------------------------------------------------------
(* delay_ms, across any number of wraps of the counter *)

\* Until ms interrupts have happened, the unsigned difference of the counter and
\* the start of the delay is their number.
DelayMeasured ==
  pc = "delay" => /\ ms \in 0 .. W-1
                  /\ waited < ms => Elapsed(TICKCOUNT, start) = waited

LEMMA DelayStaysMeasured == Spec => []DelayMeasured
<1> USE DEF DelayMeasured
<1>1. Init => DelayMeasured
  BY DEF Init
<1>2. TypeOK /\ DelayMeasured /\ [Next]_vars => DelayMeasured'
  <2> SUFFICES ASSUME TypeOK, DelayMeasured, [Next]_vars PROVE DelayMeasured'
    OBVIOUS
  <2>1. ASSUME NEW down \in SUBSET Keys, TIM3_IRQHandler(down), pc = "delay"
        PROVE  DelayMeasured'
    <3>1. /\ TICKCOUNT' = NextTick /\ UNCHANGED <<pc, start, ms>>
          /\ waited' = IF waited < ms THEN waited + 1 ELSE waited
      BY <2>1 DEF TIM3_IRQHandler
    <3>2. SUFFICES ASSUME waited' < ms
                   PROVE  Elapsed(TICKCOUNT', start) = waited'
      BY <2>1, <3>1
    <3>3. waited \in Nat /\ ms \in Int /\ ms < W
      BY <2>1 DEF TypeOK
    <3>4. waited < ms /\ waited' = waited + 1
      BY <3>1, <3>2, <3>3
    <3>5. Elapsed(TICKCOUNT, start) = waited
      BY <2>1, <3>4
    <3>6. QED
      BY <3>1, <3>3, <3>4, <3>2, <3>5 DEF Elapsed, NextTick, TypeOK, Time
  <2>2. ASSUME NEW n \in Delays, DelayCall(n) PROVE DelayMeasured'
    <3>1. n \in 0 .. W-1 /\ TICKCOUNT \in 0 .. W-1
      BY DEF TypeOK, Time
    <3>2. /\ ms' = n /\ start' = TICKCOUNT /\ waited' = 0
          /\ TICKCOUNT' = TICKCOUNT
      BY <2>2 DEF DelayCall, isrVars
    <3>3. QED
      BY <3>1, <3>2 DEF Elapsed
  <2>3. CASE pc' # "delay"
    BY <2>3
  <2>4. CASE UNCHANGED <<pc, isrVars, delayVars>>
    BY <2>4 DEF isrVars, delayVars, Elapsed
  <2>5. ASSUME NEW down \in SUBSET Keys, TIM3_IRQHandler(down), pc # "delay"
        PROVE  pc' # "delay"
    BY <2>5 DEF TIM3_IRQHandler
  <2>6. QED
    BY <2>1, <2>2, <2>3, <2>4, <2>5 DEF Next, Interrupt, Call, PeekKeys,
       GetKeysCall, HeldKeysCall, BeepVolume, GetKeysStep, LoadExclusive,
       StoreExclusive, StoreRefused, HeldKeysStep, HeldReadTime, HeldReadKeys,
       HeldCheck, HeldReturn, DelayReturn, BeepTime, vars
<1>3. QED
  BY <1>1, <1>2, TypeCorrect, PTL DEF Spec

\* delay_ms(n) lasts at least n interrupts of the timer.
THEOREM DelayLastsLongEnough == Spec => DelayWaits
<1> DEFINE Waited == pc = "delay" /\ pc' # "delay" => waited >= ms
<1>1. TypeOK /\ DelayMeasured /\ [Next]_vars => [Waited]_vars
  <2> SUFFICES ASSUME TypeOK, DelayMeasured, [Next]_vars,
                      pc = "delay", pc' # "delay"
               PROVE  waited >= ms
    OBVIOUS
  <2>1. DelayReturn
    BY DEF Next, Interrupt, TIM3_IRQHandler, Call, PeekKeys, GetKeysCall,
       HeldKeysCall, DelayCall, BeepVolume, GetKeysStep, LoadExclusive,
       StoreExclusive, StoreRefused, HeldKeysStep, HeldReadTime, HeldReadKeys,
       HeldCheck, HeldReturn, BeepTime, vars
  <2>2. QED
    BY <2>1 DEF DelayReturn, DelayOver, DelayMeasured, TypeOK
<1>2. QED
  BY <1>1, TypeCorrect, DelayStaysMeasured, PTL DEF Spec, DelayWaits

-----------------------------------------------------------------------------
(* beep, if every length is positive *)

\* A beep that sounds has time left, unless beep is about to set it.
BeepIsTimed ==
  /\ BEEP_VOLUME # 0 => BEEP_TIME > 0 \/ pc = "beepTime"
  /\ pc = "beepTime" => ms > 0

LEMMA BeepStaysTimed ==
  ASSUME \A n \in BeepLengths : n > 0 PROVE Spec => []BeepIsTimed
<1> USE DEF BeepIsTimed
<1>1. Init => BeepIsTimed
  BY DEF Init
<1>2. TypeOK /\ BeepIsTimed /\ [Next]_vars => BeepIsTimed'
  <2> SUFFICES ASSUME TypeOK, BeepIsTimed, [Next]_vars PROVE BeepIsTimed'
    OBVIOUS
  <2>1. ASSUME NEW down \in SUBSET Keys, TIM3_IRQHandler(down) PROVE BeepIsTimed'
    BY <2>1 DEF TIM3_IRQHandler, BeepCountdown, TypeOK
  <2>2. ASSUME NEW n \in BeepLengths, NEW v \in Volumes, BeepVolume(n, v) PROVE BeepIsTimed'
    BY <2>2 DEF BeepVolume
  <2>3. CASE BeepTime
    BY <2>3 DEF BeepTime
  <2>4. CASE UNCHANGED beepVars /\ pc # "beepTime" /\ pc' # "beepTime"
    BY <2>4 DEF beepVars
  <2>5. CASE UNCHANGED vars
    BY <2>5 DEF vars, beepVars, delayVars
  <2>6. QED
    BY <2>1, <2>2, <2>3, <2>4, <2>5 DEF Next, Interrupt, Call, PeekKeys,
       GetKeysCall, HeldKeysCall, DelayCall, GetKeysStep, LoadExclusive,
       StoreExclusive, StoreRefused, HeldKeysStep, HeldReadTime, HeldReadKeys,
       HeldCheck, HeldReturn, DelayReturn
<1>3. QED
  BY <1>1, <1>2, TypeCorrect, PTL DEF Spec

\* Each interrupt brings the end of a beep nearer, wherever it comes in the routine beep.
THEOREM BeepsRunOut ==
  ASSUME \A n \in BeepLengths : n > 0 PROVE Spec => BeepRunsOut
<1>1. TypeOK /\ BeepIsTimed /\ [Next]_vars =>
        [ Interrupt => \/ BEEP_VOLUME' = 0 \/ pc = "beepTime"
                       \/ 0 < BEEP_TIME' /\ BEEP_TIME' < BEEP_TIME ]_vars
  <2> SUFFICES ASSUME TypeOK, BeepIsTimed, Interrupt, BEEP_VOLUME' # 0, pc # "beepTime"
               PROVE  0 < BEEP_TIME' /\ BEEP_TIME' < BEEP_TIME
    OBVIOUS
  <2>1. BeepCountdown
    BY DEF Interrupt, TIM3_IRQHandler
  <2>2. QED
    BY <2>1 DEF BeepCountdown, BeepIsTimed, TypeOK
<1>2. QED
  BY <1>1, TypeCorrect, BeepStaysTimed, PTL DEF Spec, BeepRunsOut
=============================================================================
