-------------------------------- MODULE Keys --------------------------------
(***************************************************************************)
(* Runtime/buttons.c: the 1 ms timer interrupt that samples the keys and   *)
(* counts down the beeper, and the routines a program's thread calls at    *)
(* the same time, one action per access to the shared volatile words.      *)
(*                                                                         *)
(* The interrupt is one atomic action: the thread cannot run inside it.    *)
(* The 32-bit tick counter is TICKCOUNT \in 0 .. W-1.  With WRAPS the      *)
(* counter wraps as it does after 49 days; without, the behaviour ends at  *)
(* the horizon W the comment at buttons.c:7 speaks of.                     *)
(***************************************************************************)
EXTENDS Integers

CONSTANTS
  Keys,            \* the members of ALL_KEYS
  REPEAT_KEYS,     \* the scroller directions among them
  W,               \* number of values of the tick counter (2^32)
  WRAPS,           \* whether behaviours reach the wrap of the counter
  DEBOUNCE, REPEAT_DELAY, REPEAT_PERIOD,
  Delays,          \* arguments programs give delay_ms
  BeepLengths,     \* first arguments programs give beep
  Volumes          \* second arguments programs give beep

ASSUME KeysAssumption ==
  /\ REPEAT_KEYS \subseteq Keys
  /\ W \in Nat \ {0, 1}
  /\ WRAPS \in BOOLEAN
  /\ DEBOUNCE \in Nat \ {0}
  /\ REPEAT_DELAY \in Nat /\ REPEAT_PERIOD \in Nat \ {0}
  /\ Delays \subseteq 0 .. W-1
  /\ BeepLengths \subseteq Int
  /\ Volumes \subseteq Nat

VARIABLES
  TICKCOUNT, KEYS_LAST_DOWN, KEYS_PRESSED, KEYS_DOWN, KEYS_LAST_CHANGED,
  BEEP_TIME,
  BEEP_VOLUME,     \* the volume last given to the BIOS
  pc,              \* where the thread is in the routine it has called
  mask,            \* its argument
  word,            \* the copy of KEYS_PRESSED that LDREX left in a register
  monitor,         \* the core's exclusive monitor
  time, keys,      \* locals of held_keys
  start, ms,       \* local and argument of delay_ms; ms also of beep
  out,             \* what the last get_keys or peek_keys returned
  quiet,           \* ghost: ticks since a key was down, counted up to DEBOUNCE
  changedAt,       \* ghost: KEYS_LAST_CHANGED when held_keys read KEYS_DOWN
  waited           \* ghost: interrupts since delay_ms began, counted up to ms

isrVars   == <<TICKCOUNT, KEYS_LAST_DOWN, KEYS_DOWN, KEYS_LAST_CHANGED, quiet>>
beepVars  == <<BEEP_TIME, BEEP_VOLUME>>
getVars   == <<word, monitor>>
heldVars  == <<time, keys, changedAt>>
delayVars == <<start, ms, waited>>
vars == <<isrVars, KEYS_PRESSED, beepVars, pc, mask, getVars, heldVars,
          delayVars, out>>

Time == 0 .. W-1

\* (Names ending in a _BugN are faulty variants of the definition after them;
\* README.md says which property notices each.)

\* Difference of two unsigned words.
Elapsed(now, then) == IF now >= then THEN now - then ELSE now + W - then

NextTick == IF TICKCOUNT + 1 = W THEN 0 ELSE TICKCOUNT + 1

Init ==
  /\ TICKCOUNT = 0 /\ KEYS_LAST_DOWN = 0 /\ KEYS_LAST_CHANGED = 0
  /\ KEYS_PRESSED = {} /\ KEYS_DOWN = {} /\ quiet = 0
  /\ BEEP_TIME = 0 /\ BEEP_VOLUME = 0
  /\ pc = "idle" /\ mask = {} /\ word = {} /\ monitor = FALSE
  /\ time = 0 /\ keys = {} /\ changedAt = 0
  /\ start = 0 /\ ms = 0 /\ waited = 0
  /\ out = {}

-----------------------------------------------------------------------------
(* TIM3_IRQHandler *)

\* "Only record keypresses the first time the key goes down."
FirstPress_Bug1(now, down) ==   \* the first time only: bounces are flagged
  IF down # {} /\ KEYS_DOWN = {} THEN down ELSE {}
FirstPress(now, down) ==
  IF down # {} /\ Elapsed(now, KEYS_LAST_DOWN) > DEBOUNCE THEN down ELSE {}

LastDownAt_Bug1(now, down) == now
LastDownAt(now, down) == IF down # {} THEN now ELSE KEYS_LAST_DOWN

\* Scroller keys held longer than REPEAT_DELAY are flagged again and again.
Repeats(down, timeDown) ==
  IF timeDown > REPEAT_DELAY /\ (timeDown - REPEAT_DELAY) % REPEAT_PERIOD = 0
    THEN down \intersect REPEAT_KEYS ELSE {}

BeepCountdown_Bug1 ==   \* tests BEEP_TIME < 0 after the decrement
  /\ BEEP_TIME' = IF BEEP_TIME > 0 THEN BEEP_TIME - 1 ELSE BEEP_TIME
  /\ UNCHANGED BEEP_VOLUME
BeepCountdown ==
  /\ BEEP_TIME' = IF BEEP_TIME > 0 THEN BEEP_TIME - 1 ELSE BEEP_TIME
  /\ BEEP_VOLUME' = IF BEEP_TIME = 1 THEN 0 ELSE BEEP_VOLUME

\* One timer interrupt that finds the keys `down' pressed.  Returning from it
\* clears the exclusive monitor, so an interrupted LDREX/STREX pair retries.
TIM3_IRQHandler(down) ==
  LET now     == NextTick
      changed == IF down # KEYS_DOWN THEN now ELSE KEYS_LAST_CHANGED
  IN  /\ WRAPS \/ TICKCOUNT + 1 < W
      /\ TICKCOUNT' = now
      /\ KEYS_LAST_DOWN' = LastDownAt(now, down)
      /\ KEYS_DOWN' = down
      /\ KEYS_LAST_CHANGED' = changed
      /\ quiet' = IF down # {} THEN 0 ELSE IF quiet < DEBOUNCE THEN quiet + 1 ELSE quiet
      /\ KEYS_PRESSED' = KEYS_PRESSED \union FirstPress(now, down)
                                      \union Repeats(down, Elapsed(now, changed))
      /\ BeepCountdown
      /\ monitor' = FALSE
      /\ waited' = IF pc = "delay" /\ waited < ms THEN waited + 1 ELSE waited
      /\ UNCHANGED <<pc, mask, word, heldVars, start, ms, out>>

-----------------------------------------------------------------------------
(* The thread *)

PeekKeys(m) ==
  /\ pc = "idle"
  /\ out' = KEYS_PRESSED \intersect m
  /\ UNCHANGED <<isrVars, KEYS_PRESSED, beepVars, pc, mask, getVars, heldVars,
                 delayVars>>

\* get_keys: __sync_fetch_and_and is a load-exclusive/store-exclusive loop.
GetKeysCall(m) ==
  /\ pc = "idle" /\ pc' = "ldrex" /\ mask' = m
  /\ UNCHANGED <<isrVars, KEYS_PRESSED, beepVars, getVars, heldVars, delayVars,
                 out>>

LoadExclusive ==
  /\ pc = "ldrex" /\ pc' = "strex"
  /\ word' = KEYS_PRESSED /\ monitor' = TRUE
  /\ UNCHANGED <<isrVars, KEYS_PRESSED, beepVars, mask, heldVars, delayVars, out>>

StoreExclusive_Bug1 ==   \* a plain store: KEYS_PRESSED &= ~mask
  /\ pc = "strex"
  /\ KEYS_PRESSED' = word \ mask
  /\ out' = word \intersect mask
  /\ pc' = "idle" /\ monitor' = FALSE
  /\ UNCHANGED <<isrVars, beepVars, mask, word, heldVars, delayVars>>
StoreExclusive ==
  /\ pc = "strex" /\ monitor
  /\ KEYS_PRESSED' = word \ mask
  /\ out' = word \intersect mask
  /\ pc' = "idle" /\ monitor' = FALSE
  /\ UNCHANGED <<isrVars, beepVars, mask, word, heldVars, delayVars>>

StoreRefused ==
  /\ pc = "strex" /\ ~monitor
  /\ pc' = "ldrex"
  /\ UNCHANGED <<isrVars, KEYS_PRESSED, beepVars, mask, getVars, heldVars,
                 delayVars, out>>

\* held_keys: read the timestamp, read the keys, retry unless the timestamp is
\* still the same.
HeldKeysCall(m) ==
  /\ pc = "idle" /\ pc' = "heldTime" /\ mask' = m
  /\ UNCHANGED <<isrVars, KEYS_PRESSED, beepVars, getVars, heldVars, delayVars,
                 out>>

HeldReadTime ==
  /\ pc = "heldTime" /\ pc' = "heldKeys"
  /\ time' = KEYS_LAST_CHANGED
  /\ UNCHANGED <<isrVars, KEYS_PRESSED, beepVars, mask, getVars, keys, changedAt,
                 delayVars, out>>

HeldReadKeys ==
  /\ pc = "heldKeys" /\ pc' = "heldCheck"
  /\ keys' = KEYS_DOWN \intersect mask
  /\ changedAt' = KEYS_LAST_CHANGED
  /\ UNCHANGED <<isrVars, KEYS_PRESSED, beepVars, mask, getVars, time, delayVars,
                 out>>

HeldCheck_Bug1 ==   \* no second look at the timestamp
  /\ pc = "heldCheck" /\ pc' = "heldReturn"
  /\ UNCHANGED <<isrVars, KEYS_PRESSED, beepVars, mask, getVars, heldVars,
                 delayVars, out>>
HeldCheck ==
  /\ pc = "heldCheck"
  /\ pc' = IF time = KEYS_LAST_CHANGED THEN "heldReturn" ELSE "heldTime"
  /\ UNCHANGED <<isrVars, KEYS_PRESSED, beepVars, mask, getVars, heldVars,
                 delayVars, out>>

\* The call returns <<keys, TICKCOUNT - time>>; the locals go out of scope.
HeldReturn ==
  /\ pc = "heldReturn" /\ pc' = "idle"
  /\ time' = 0 /\ keys' = {} /\ changedAt' = 0
  /\ UNCHANGED <<isrVars, KEYS_PRESSED, beepVars, mask, getVars, delayVars, out>>

DelayCall(n) ==
  /\ pc = "idle" /\ pc' = "delay"
  /\ start' = TICKCOUNT /\ ms' = n /\ waited' = 0
  /\ UNCHANGED <<isrVars, KEYS_PRESSED, beepVars, mask, getVars, heldVars, out>>

\* The test of delay_ms's busy loop that lets it end.
DelayOver_Bug1 == TICKCOUNT >= (start + ms) % W   \* not the difference
DelayOver_Bug2 == TICKCOUNT >= start + ms         \* in a wider word
DelayOver == Elapsed(TICKCOUNT, start) >= ms

DelayReturn ==
  /\ pc = "delay" /\ DelayOver /\ pc' = "idle"
  /\ start' = 0 /\ ms' = 0 /\ waited' = 0
  /\ UNCHANGED <<isrVars, KEYS_PRESSED, beepVars, mask, getVars, heldVars, out>>

\* beep: the volume is set first, the time it is to last afterwards.
BeepVolume(n, volume) ==
  /\ pc = "idle" /\ pc' = "beepTime"
  /\ BEEP_VOLUME' = volume /\ ms' = n
  /\ UNCHANGED <<isrVars, KEYS_PRESSED, BEEP_TIME, mask, getVars, heldVars,
                 start, waited, out>>

BeepTime ==
  /\ pc = "beepTime" /\ pc' = "idle"
  /\ BEEP_TIME' = ms /\ ms' = 0
  /\ UNCHANGED <<isrVars, KEYS_PRESSED, BEEP_VOLUME, mask, getVars, heldVars,
                 start, waited, out>>

-----------------------------------------------------------------------------
Interrupt == \E down \in SUBSET Keys : TIM3_IRQHandler(down)

Call ==
  \/ \E m \in SUBSET Keys : PeekKeys(m) \/ GetKeysCall(m) \/ HeldKeysCall(m)
  \/ \E n \in Delays : DelayCall(n)
  \/ \E n \in BeepLengths, v \in Volumes : BeepVolume(n, v)

GetKeysStep  == LoadExclusive \/ StoreExclusive \/ StoreRefused
HeldKeysStep == HeldReadTime \/ HeldReadKeys \/ HeldCheck \/ HeldReturn

Next == Interrupt \/ Call \/ GetKeysStep \/ HeldKeysStep \/ DelayReturn
        \/ BeepTime

Spec == Init /\ [][Next]_vars

\* The timer never stops; the thread is never starved by it, and since
\* thousands of instructions run between two interrupts a retry loop is not
\* interrupted in the middle forever, nor does a polling loop always miss the
\* moment its condition holds.
Fairness ==
  /\ WF_vars(Interrupt)
  /\ WF_vars(LoadExclusive) /\ WF_vars(StoreRefused) /\ SF_vars(StoreExclusive)
  /\ WF_vars(HeldReadTime) /\ WF_vars(HeldReadKeys) /\ WF_vars(HeldCheck)
  /\ WF_vars(HeldReturn)
  /\ SF_vars(DelayReturn) /\ WF_vars(BeepTime)

FairSpec == Spec /\ Fairness

-----------------------------------------------------------------------------
(* Properties *)

TypeOK ==
  /\ TICKCOUNT \in Time /\ KEYS_LAST_DOWN \in Time /\ KEYS_LAST_CHANGED \in Time
  /\ KEYS_PRESSED \in SUBSET Keys /\ KEYS_DOWN \in SUBSET Keys
  /\ quiet \in 0 .. DEBOUNCE
  /\ BEEP_TIME \in Int /\ BEEP_VOLUME \in Nat
  /\ pc \in {"idle", "ldrex", "strex", "heldTime", "heldKeys", "heldCheck",
             "heldReturn", "delay", "beepTime"}
  /\ mask \in SUBSET Keys /\ word \in SUBSET Keys /\ monitor \in BOOLEAN
  /\ time \in Time /\ keys \in SUBSET Keys /\ changedAt \in Time
  /\ start \in Time /\ ms \in Int /\ waited \in Nat
  /\ out \in SUBSET Keys

\* The interrupt and the three-instruction get_keys together are the atomic key
\* buffer: no press that arrives between the load and the store is lost, and
\* none is delivered twice (buttons.c:80-83 against 42-43 and 57).
Buffer == INSTANCE KeyBuffer WITH pending <- KEYS_PRESSED
AtomicKeyBuffer == Buffer!KBSpec

\* While keys are down, the time one was last seen down is now: what makes the
\* debounce test tell a new press from a held key.
LastDownIsNow == KEYS_DOWN # {} => KEYS_LAST_DOWN = TICKCOUNT

\* No bounce is flagged, whether of a key that is held or of one that was let go: a key
\* is flagged after DEBOUNCE ticks at which no key at all was down, or it is a scroller
\* that goes on being held (buttons.c:41-43, 53-58).
FlagOnlyOnPress ==
  [][ LET flagged == KEYS_PRESSED' \ KEYS_PRESSED
      IN  flagged # {} =>
            \/ quiet = DEBOUNCE
            \/ flagged \subseteq REPEAT_KEYS \intersect KEYS_DOWN \intersect KEYS_DOWN' ]_vars

\* What held_keys returns belongs together: the keys it returns were the keys
\* down since the time it returns, although the interrupt may run between any
\* two of its reads (buttons.c:88-99).
HeldConsistent == pc = "heldReturn" => changedAt = time

\* With no key down, and none for longer than the debounce time, every key that
\* goes down is flagged (buttons.c:42-43).  True up to the horizon W.
QuietPressFlagged ==
  [][ KEYS_DOWN = {} /\ Elapsed(TICKCOUNT', KEYS_LAST_CHANGED) > DEBOUNCE
      => KEYS_DOWN' \subseteq KEYS_PRESSED' ]_isrVars

\* delay_ms(n) never returns before the counter has ticked n times, even across
\* the wrap of the counter (buttons.c:107-111).
DelayWaits == [][pc = "delay" /\ pc' # "delay" => waited >= ms]_vars

\* Once the user leaves the keys alone, every routine the thread calls returns:
\* get_keys and held_keys are retried, delay_ms polls a counter that wraps
\* (buttons.c:80-111).
KeysSettle  == <>[][KEYS_DOWN' = KEYS_DOWN]_vars
CallReturns == KeysSettle => ((pc # "idle") ~> (pc = "idle"))

\* Whatever beep sounds, each interrupt brings it nearer to its end, if no program asks
\* for a length of 0: there is always time left to count down, although volume and time
\* are set one after the other (buttons.c:60-68 and 113-117).
BeepRunsOut ==
  [][ Interrupt => \/ BEEP_VOLUME' = 0 \/ pc = "beepTime"
                   \/ 0 < BEEP_TIME' /\ BEEP_TIME' < BEEP_TIME ]_vars

\* A beep does not sound for ever (buttons.c:60-68 and 113-117).
BeepEnds == (BEEP_VOLUME # 0) ~> (BEEP_VOLUME = 0 \/ pc = "beepTime")
=============================================================================
