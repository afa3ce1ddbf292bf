------------------------------ MODULE Capture ------------------------------
(***************************************************************************)
(* Runtime/amx_wavein.c: starting a capture, optionally in step with the   *)
(* waveform being put out, and reading the samples from the FPGA's FIFO,   *)
(* while the FPGA, the DAC's DMA and the timer interrupt go their own      *)
(* ways.  Every busy loop on a hardware flag is an action enabled when the *)
(* flag lets the loop end.                                                 *)
(*                                                                         *)
(* Samples are numbered from the start of the capture; 0 is what a read    *)
(* from an empty FIFO gives.  The FPGA, the DAC and TIM4 are external.     *)
(***************************************************************************)
EXTENDS Integers, Sequences

CONSTANTS
  DEPTH,        \* samples in the FIFO (4096)
  PRESAMPLES,   \* samples stored before the trigger (151)
  GROUP,        \* samples packed into one cell (4)
  NEAR,         \* 10: how near to the end of its period the DAC is waited for
  PERIOD,       \* samples in the DAC's buffer
  POLLS,        \* accesses to the hardware the thread makes, at least, between
                \* two samples of the DAC when no interrupt can come in between
  Channels,
  MaxCount      \* bound on the cells asked of a channel

ASSUME CaptureAssumption ==
  /\ DEPTH \in Nat /\ PRESAMPLES \in 0 .. DEPTH /\ GROUP \in Nat \ {0}
  /\ NEAR \in Nat \ {0} /\ PERIOD \in Nat /\ PERIOD >= 2
  /\ POLLS \in Nat /\ POLLS >= 2
  /\ MaxCount \in Nat

VARIABLES
  start, w, r,      \* FPGA: FIFO_START, samples written, samples read
  clrw,             \* the pin that keeps the FIFO cleared (GPIOB 1)
  wave,             \* what puts out a waveform: "none", "dac", "tim4"
  cndtr,            \* DMA2_Channel4->CNDTR, the DAC's samples left in the period
  armed, tcif,      \* DMA1 channel 4: enabled by TIM4, transfer complete flag
  irq,              \* whether interrupts are enabled
  polls,            \* accesses since the DAC's last sample, up to POLLS; POLLS
                    \* while interrupts are enabled
  ABORT,
  pc, sync, left, full, counts,          \* the thread and its locals
  trigger_is_unconditional,
  group, buffer,    \* the samples being read, and the arrays of the last wavein_read
                    \* since wavein_start
  first,            \* ghost: r when wavein_read was called
  skipping          \* ghost: the last wavein_start got rid of the presamples

fpga  == <<start, w, r, clrw>>
waves == <<wave, cndtr, armed, tcif>>
locals == <<sync, left, full, counts, group>>
ghosts == <<first, skipping>>
vars == <<fpga, waves, irq, polls, ABORT, pc, locals, trigger_is_unconditional,
          buffer, ghosts>>

FULL  == w = DEPTH
EMPTY == r = w

Init ==
  /\ start = FALSE /\ w = 0 /\ r = 0 /\ clrw = FALSE
  /\ wave = "none" /\ cndtr = PERIOD /\ armed = FALSE /\ tcif = FALSE
  /\ irq = TRUE /\ polls = POLLS /\ ABORT = FALSE
  /\ pc = "idle" /\ sync = FALSE /\ left = 0 /\ full = FALSE
  /\ counts = [c \in Channels |-> 0] /\ group = <<>>
  /\ trigger_is_unconditional = FALSE
  /\ buffer = [c \in Channels |-> <<>>]
  /\ first = 0 /\ skipping = FALSE

-----------------------------------------------------------------------------
(* The hardware and the timer interrupt *)

Trigger ==
  /\ ~clrw /\ ~start /\ start' = TRUE
  /\ UNCHANGED <<w, r, clrw, waves, irq, polls, ABORT, pc, locals,
                 trigger_is_unconditional, buffer, ghosts>>

\* Before the trigger the FPGA keeps no more than the presamples.
Sample ==
  /\ ~clrw /\ w < (IF start THEN DEPTH ELSE PRESAMPLES)
  /\ w' = w + 1
  /\ UNCHANGED <<start, r, clrw, waves, irq, polls, ABORT, pc, locals,
                 trigger_is_unconditional, buffer, ghosts>>

\* The DMA gives the DAC its next sample.  Without interrupts the thread is faster
\* than that: "the frequency is at most 1MHz or so" (amx_wavein.c:117-118).
DacTick ==
  /\ wave = "dac" /\ polls = POLLS
  /\ cndtr' = IF cndtr = 1 THEN PERIOD ELSE cndtr - 1
  /\ polls' = IF irq THEN POLLS ELSE 0
  /\ UNCHANGED <<fpga, wave, armed, tcif, irq, ABORT, pc, locals,
                 trigger_is_unconditional, buffer, ghosts>>

\* TIM4 begins a period: the DMA, if armed, writes GPIOB->BRR once.
Tim4Overflow ==
  /\ wave = "tim4" /\ armed
  /\ clrw' = FALSE /\ armed' = FALSE /\ tcif' = TRUE
  /\ UNCHANGED <<start, w, r, wave, cndtr, irq, polls, ABORT, pc, locals,
                 trigger_is_unconditional, buffer, ghosts>>

\* TimerTick (main.c); nothing ever sets ABORT back.
RaiseAbort ==
  /\ irq /\ ~ABORT
  /\ ABORT' = TRUE
  /\ UNCHANGED <<fpga, waves, irq, polls, pc, locals, trigger_is_unconditional,
                 buffer, ghosts>>

-----------------------------------------------------------------------------
(* What programs do between their calls *)

\* wavein_settrigger
SetTrigger(unconditional) ==
  /\ pc = "idle"
  /\ trigger_is_unconditional' = unconditional
  /\ UNCHANGED <<fpga, waves, irq, polls, ABORT, pc, locals, buffer, ghosts>>

\* waveout_analog and waveout_digital
WaveOut(kind) ==
  /\ pc = "idle"
  /\ wave' = kind /\ cndtr' = PERIOD
  /\ UNCHANGED <<fpga, armed, tcif, irq, polls, ABORT, pc, locals,
                 trigger_is_unconditional, buffer, ghosts>>

-----------------------------------------------------------------------------
(* wavein_start *)

\* (Names ending in _BugN are faulty variants of the definition after them;
\* README.md says which property notices each.)

\* DMA1->IFCR = DMA_IFCR_CTCIF4
FlagCleared_Bug1 == tcif
FlagCleared == FALSE

\* while (!__Get(FIFO_START) && !ABORT);
Triggered == start \/ ABORT

\* Where wavein_start goes on once it is in step.
Synced(s) == IF trigger_is_unconditional \/ s THEN "waitStart" ELSE "idle"

StartCall(s) ==
  /\ pc = "idle"
  /\ w' = 0 /\ r' = 0 /\ start' = FALSE
  /\ sync' = s
  /\ pc' = IF s /\ wave = "dac" THEN "dacFar"
           ELSE IF s /\ wave = "tim4" THEN "timWait" ELSE Synced(s)
  /\ clrw' = (s /\ wave # "none")
  /\ armed' = (s /\ wave = "tim4")
  /\ tcif' = IF s /\ wave = "tim4" THEN FlagCleared ELSE tcif
  /\ left' = PRESAMPLES
  /\ skipping' = (trigger_is_unconditional \/ s)
  /\ buffer' = [c \in Channels |-> <<>>] /\ first' = 0
  /\ UNCHANGED <<wave, cndtr, irq, polls, ABORT, full, counts, group,
                 trigger_is_unconditional>>

MorePolls == polls' = IF polls < POLLS THEN polls + 1 ELSE polls

\* A step of the wait for the end of the DAC's period, from one place to another.
DacStep(from, condition, to) ==
  /\ pc = from /\ condition /\ pc' = to
  /\ MorePolls
  /\ UNCHANGED <<fpga, waves, irq, ABORT, locals, trigger_is_unconditional, buffer,
                 ghosts>>

\* CNDTR counts from PERIOD down to 1.
LastSample_Bug1 == cndtr = 0
LastSample == cndtr = 1

DacAborted == DacStep("dacFar", cndtr > NEAR /\ ABORT, "idle")
DacFar     == DacStep("dacFar", cndtr <= NEAR, "dacNear")
DacNear    == DacStep("dacNear", LastSample, "dacMask")

\* __disable_irq, after which the thread waits once more for the last sample:
\* an interrupt may have come since it has seen it.
NextWait_Bug1 == "dacTurn"
NextWait == "dacLast"

DisableIrq ==
  /\ pc = "dacMask" /\ pc' = NextWait
  /\ irq' = FALSE
  /\ UNCHANGED <<fpga, waves, polls, ABORT, locals, trigger_is_unconditional, buffer, ghosts>>

DacLast == DacStep("dacLast", LastSample, "dacTurn")
DacTurn == DacStep("dacTurn", ~LastSample, "dacGo")

\* A turn of a loop that goes on.  Only the loops without interrupts need to be
\* counted.
DacPoll ==
  \/ DacStep("dacLast", ~LastSample, "dacLast")
  \/ DacStep("dacTurn", LastSample, "dacTurn")

\* GPIOB->BRR = 2, __enable_irq
DacGo ==
  /\ pc = "dacGo" /\ pc' = Synced(sync)
  /\ clrw' = FALSE /\ irq' = TRUE /\ polls' = POLLS
  /\ UNCHANGED <<start, w, r, waves, ABORT, locals,
                 trigger_is_unconditional, buffer, ghosts>>

TimWait ==
  /\ pc = "timWait" /\ (tcif \/ ABORT)
  /\ pc' = Synced(sync) /\ armed' = FALSE
  /\ UNCHANGED <<fpga, wave, cndtr, tcif, irq, polls, ABORT, locals,
                 trigger_is_unconditional, buffer, ghosts>>

WaitStart ==
  /\ pc = "waitStart" /\ Triggered
  /\ pc' = "skip"
  /\ UNCHANGED <<fpga, waves, irq, polls, ABORT, locals, trigger_is_unconditional,
                 buffer, ghosts>>

\* __Read_FIFO
ReadFifo == r' = IF EMPTY THEN r ELSE r + 1

\* The wait before a sample is read that way.
Available_Bug1 == TRUE
Available == ~EMPTY \/ FULL \/ ABORT

ToSkip_Bug1 == left > 1
ToSkip == left > 0

Skip ==
  /\ pc = "skip" /\ ToSkip /\ Available
  /\ ReadFifo /\ left' = left - 1
  /\ UNCHANGED <<start, w, clrw, waves, irq, polls, ABORT, pc, sync, full, counts,
                 group, trigger_is_unconditional, buffer, ghosts>>

SkipDone ==
  /\ pc = "skip" /\ ~ToSkip /\ pc' = "idle"
  /\ UNCHANGED <<fpga, waves, irq, polls, ABORT, locals, trigger_is_unconditional,
                 buffer, ghosts>>

-----------------------------------------------------------------------------
(* wavein_read *)

\* Programs do not read beyond the end of the FIFO ("max. 4096", wavein.inc); one cell
\* is read even if none is asked for.
InFifo(n) ==
  r + GROUP <= DEPTH /\ \A c \in Channels : r + n[c] * GROUP <= DEPTH

ReadCall(n) ==
  /\ pc = "idle" /\ pc' = "readStart"
  /\ InFifo(n)
  /\ counts' = n /\ group' = <<>>
  /\ buffer' = [c \in Channels |-> <<>>] /\ first' = r
  /\ UNCHANGED <<fpga, waves, irq, polls, ABORT, sync, left, full,
                 trigger_is_unconditional, skipping>>

ReadStart ==
  /\ pc = "readStart" /\ Triggered
  /\ pc' = "read" /\ full' = FULL
  /\ UNCHANGED <<fpga, waves, irq, polls, ABORT, sync, left, counts, group,
                 trigger_is_unconditional, buffer, ghosts>>

ReadSample ==
  /\ pc = "read" /\ Len(group) < GROUP
  /\ full \/ Available
  /\ ReadFifo
  /\ group' = Append(group, IF EMPTY THEN 0 ELSE r + 1)
  /\ UNCHANGED <<start, w, clrw, waves, irq, polls, ABORT, pc, sync, left, full,
                 counts, trigger_is_unconditional, buffer, ghosts>>

\* mangle_samples, and the condition of the loop
Mangle ==
  LET n == [c \in Channels |-> IF counts[c] > 0 THEN counts[c] - 1 ELSE 0]
  IN  /\ pc = "read" /\ Len(group) = GROUP
      /\ buffer' = [c \in Channels |->
                      IF counts[c] > 0 THEN buffer[c] \o group ELSE buffer[c]]
      /\ counts' = n /\ group' = <<>>
      /\ full' = FULL
      /\ pc' = IF (\E c \in Channels : n[c] > 0) /\ ~ABORT THEN "read" ELSE "idle"
      /\ UNCHANGED <<fpga, waves, irq, polls, ABORT, sync, left,
                     trigger_is_unconditional, ghosts>>

-----------------------------------------------------------------------------
Hardware == Trigger \/ Sample \/ DacTick \/ Tim4Overflow \/ RaiseAbort

Calls ==
  \/ \E u \in BOOLEAN : SetTrigger(u) \/ StartCall(u)
  \/ \E kind \in {"none", "dac", "tim4"} : WaveOut(kind)
  \/ \E n \in [Channels -> 0 .. MaxCount] : ReadCall(n)

DacSync == DacAborted \/ DacFar \/ DacNear \/ DisableIrq \/ DacLast \/ DacTurn
           \/ DacPoll \/ DacGo
Thread == DacSync \/ TimWait \/ WaitStart \/ Skip \/ SkipDone \/ ReadStart
          \/ ReadSample \/ Mangle

Next == Hardware \/ Calls \/ Thread

Spec == Init /\ [][Next]_vars

\* The thread runs, the DAC and TIM4 go on, the FPGA samples once triggered.  With
\* interrupts enabled the thread polls many times in most periods of the DAC, so
\* it sees the last sample of one of them.
Fairness ==
  /\ WF_vars(Thread) /\ SF_vars(DacFar) /\ SF_vars(DacNear)
  /\ WF_vars(DacTick) /\ WF_vars(Tim4Overflow) /\ WF_vars(start /\ Sample)

FairSpec == Spec /\ Fairness

-----------------------------------------------------------------------------
(* Properties *)

TypeOK ==
  /\ start \in BOOLEAN /\ w \in 0 .. DEPTH /\ r \in 0 .. w /\ clrw \in BOOLEAN
  /\ wave \in {"none", "dac", "tim4"} /\ cndtr \in 1 .. PERIOD
  /\ armed \in BOOLEAN /\ tcif \in BOOLEAN /\ irq \in BOOLEAN /\ polls \in 0 .. POLLS
  /\ ABORT \in BOOLEAN
  /\ pc \in {"idle", "dacFar", "dacNear", "dacMask", "dacLast", "dacTurn", "dacGo",
             "timWait", "waitStart", "skip", "readStart", "read"}
  /\ sync \in BOOLEAN /\ left \in 0 .. PRESAMPLES /\ full \in BOOLEAN
  /\ counts \in [Channels -> 0 .. MaxCount]
  /\ trigger_is_unconditional \in BOOLEAN
  /\ group \in Seq(0 .. DEPTH) /\ Len(group) <= GROUP
  /\ buffer \in [Channels -> Seq(0 .. DEPTH)]
  /\ first \in 0 .. DEPTH /\ skipping \in BOOLEAN

\* What wavein_read gives every channel are consecutive samples of the capture,
\* beginning where the last call stopped: none is lost, doubled or made up, however
\* slow the FPGA is and whenever it fills up (amx_wavein.c:234-261).
SamplesInOrder ==
  ~ABORT => \A c \in Channels : \A k \in DOMAIN buffer[c] : buffer[c][k] = first + k

\* After a synchronised or unconditional start no presample is read: "Get rid of the
\* presamples" (amx_wavein.c:160-171).
PresamplesSkipped ==
  ~ABORT /\ skipping
    => \A c \in Channels : \A k \in DOMAIN buffer[c] : buffer[c][k] > PRESAMPLES

\* "If sync is true, the capture is synchronized with the waveout output so that it
\* starts at the same time as the waveout period" (wavein.inc:78-79): the FIFO is released
\* at the first sample of the DAC's period, whenever interrupts come, and by TIM4
\* before wavein_start goes on (amx_wavein.c:112-157).
CaptureStartsWithPeriod ==
  [][ /\ pc = "dacGo" => cndtr = PERIOD
      /\ pc = "timWait" /\ pc' # "timWait" /\ ~ABORT => ~clrw ]_vars

\* Every call of wavein_start and wavein_read that the trigger or the user lets go
\* on returns: no loop waits for what cannot come any more.
CaptureReturns == (pc # "idle" /\ (start \/ ABORT)) ~> (pc = "idle")
=============================================================================
