--------------------------- MODULE CaptureProofs ---------------------------
(***************************************************************************)
(* Proofs about Capture, for every depth of the FIFO, number of            *)
(* presamples, number of channels and period of the waveform.  CaptureInv  *)
(* is inductive: that no empty FIFO is read needs that what is still to be *)
(* read fits the FIFO, and that the capture starts with the period needs   *)
(* how many accesses the thread has made since the DAC's last sample.      *)
(***************************************************************************)
EXTENDS Capture, TLAPS

\* What is still to be read is in the FIFO, or will be.
Room ==
  pc \in {"readStart", "read"} =>
    /\ r - Len(group) + GROUP <= DEPTH
    /\ \A c \in Channels : r - Len(group) + counts[c] * GROUP <= DEPTH

FullIsFull == pc = "read" /\ full => w = DEPTH

\* While a channel is read, its array and the group follow each other.
GroupFollows ==
  /\ pc = "readStart" => group = <<>> /\ first = r /\ \A c \in Channels : buffer[c] = <<>>
  /\ ~ABORT /\ pc = "read" =>
       /\ \A k \in DOMAIN group : group[k] = r - Len(group) + k
       /\ \A c \in Channels :
            counts[c] > 0 => first + Len(buffer[c]) + Len(group) = r

\* Before the presamples are skipped nothing has been read; afterwards all of them.
Synchronising == {"dacFar", "dacNear", "dacMask", "dacLast", "dacTurn", "dacGo", "timWait"}
Empty == \A c \in Channels : buffer[c] = <<>>
Skipped ==
  /\ pc \in Synchronising => sync
  /\ pc \in Synchronising \union {"waitStart"} => r = 0 /\ left = PRESAMPLES
  /\ pc \in Synchronising \union {"waitStart", "skip"} => Empty
  /\ ~ABORT /\ pc = "skip" => r = PRESAMPLES - left
  /\ ~ABORT /\ skipping /\ pc \in {"idle", "readStart", "read"} => r >= PRESAMPLES
  /\ ~ABORT /\ skipping /\ pc = "read" => first >= PRESAMPLES
  /\ ~ABORT /\ skipping => first >= PRESAMPLES \/ Empty

\* The thread sees the DAC's turn to the next period before the sample after it.
InTime ==
  /\ pc \in {"dacLast", "dacTurn", "dacGo"} => ~irq
  /\ pc = "dacTurn" => cndtr = 1 \/ (cndtr = PERIOD /\ polls = 0)
  /\ pc = "dacGo" => cndtr = PERIOD /\ polls = 1
  /\ pc = "timWait" /\ tcif => ~clrw

CaptureInv ==
  TypeOK /\ Room /\ FullIsFull /\ GroupFollows /\ SamplesInOrder /\ Skipped /\ InTime

-----------------------------------------------------------------------------
\* The FIFO is not empty when a sample is read, as long as nobody has aborted.
LEMMA SampleIsThere ==
  ASSUME CaptureAssumption, CaptureInv, ~ABORT,
         \/ pc = "read" /\ Len(group) < GROUP /\ (full \/ Available)
         \/ pc = "skip" /\ left > 0 /\ Available
  PROVE  r < w
<1>1. r \in Nat /\ w \in Nat /\ r <= w /\ Len(group) \in Nat /\ left \in Nat
  BY DEF CaptureInv, TypeOK, CaptureAssumption
<1>2. r < DEPTH
  BY <1>1 DEF CaptureInv, Room, Skipped, CaptureAssumption
<1> QED
  BY <1>1, <1>2 DEF CaptureInv, FullIsFull, Available, EMPTY, FULL

LEMMA StartCallKeepsInv ==
  ASSUME CaptureAssumption, CaptureInv, NEW s \in BOOLEAN, StartCall(s)
  PROVE  CaptureInv'
<1>1. pc' \in {"dacFar", "timWait", "waitStart", "idle"}
  BY DEF StartCall, Synced
<1>2. /\ start' \in BOOLEAN /\ clrw' \in BOOLEAN /\ armed' \in BOOLEAN /\ tcif' \in BOOLEAN
      /\ sync' \in BOOLEAN /\ skipping' \in BOOLEAN
  BY DEF StartCall, FlagCleared, CaptureInv, TypeOK
<1>3. /\ w' \in 0 .. DEPTH /\ r' \in 0 .. w' /\ left' \in 0 .. PRESAMPLES
      /\ first' \in 0 .. DEPTH
  BY DEF StartCall, CaptureAssumption
<1>4. buffer' \in [Channels -> Seq(0 .. DEPTH)]
  BY DEF StartCall
<1>5. TypeOK'
  BY <1>1, <1>2, <1>3, <1>4 DEF StartCall, CaptureInv, TypeOK
<1>6. Room' /\ FullIsFull' /\ GroupFollows'
  BY <1>1 DEF Room, FullIsFull, GroupFollows
<1>8. SamplesInOrder'
  <2>1. \A c \in Channels : buffer'[c] = <<>>
    BY DEF StartCall
  <2> QED
    BY <2>1 DEF SamplesInOrder
<1>9. InTime'
  <2>1. tcif' => pc' # "timWait"
    BY DEF StartCall, FlagCleared, Synced
  <2> QED
    BY <1>1, <2>1 DEF InTime
<1>7. Skipped'
  BY DEF StartCall, Synced, Skipped, Synchronising, Empty
<1> QED
  BY <1>5, <1>6, <1>7, <1>8, <1>9 DEF CaptureInv

LEMMA ReadSampleKeepsInv ==
  ASSUME CaptureAssumption, CaptureInv, ReadSample
  PROVE  CaptureInv'
<1> DEFINE new == IF EMPTY THEN 0 ELSE r + 1
<1>1. /\ pc = "read" /\ Len(group) < GROUP /\ group \in Seq(0 .. DEPTH)
      /\ r \in Nat /\ w \in 0 .. DEPTH /\ r <= w
  BY DEF ReadSample, CaptureInv, TypeOK, CaptureAssumption
<1>2. new \in 0 .. DEPTH
  BY <1>1 DEF EMPTY, CaptureAssumption
<1>3. group' = Append(group, new)
  BY DEF ReadSample
<1> HIDE DEF new
<1>4. /\ group' \in Seq(0 .. DEPTH) /\ Len(group') = Len(group) + 1
      /\ group'[Len(group) + 1] = new
      /\ \A k \in DOMAIN group : group'[k] = group[k]
      /\ \A k \in DOMAIN group' : k \in DOMAIN group \/ k = Len(group) + 1
  BY <1>1, <1>2, <1>3
<1>5. r' \in 0 .. w /\ r' <= r + 1
  BY <1>1 DEF ReadSample, ReadFifo, EMPTY
<1>6. ~ABORT => r' = r + 1 /\ new = r + 1
  BY <1>1, SampleIsThere DEF ReadSample, ReadFifo, EMPTY, new
<1>7. UNCHANGED <<start, w, clrw, waves, irq, polls, ABORT, pc, sync, left, full,
                  counts, trigger_is_unconditional, buffer, ghosts>>
  BY DEF ReadSample
<1>8. TypeOK'
  BY <1>1, <1>4, <1>5, <1>7 DEF CaptureInv, TypeOK, CaptureAssumption, waves, ghosts
<1>9. Room'
  <2>1. r' - Len(group') <= r - Len(group)
    BY <1>1, <1>4, <1>5
  <2>2. \A c \in Channels : counts[c] * GROUP \in Nat
    BY DEF CaptureInv, TypeOK, CaptureAssumption
  <2> QED
    BY <1>1, <1>4, <1>5, <1>7, <2>1, <2>2 DEF CaptureInv, Room, CaptureAssumption
<1>10. FullIsFull' /\ SamplesInOrder' /\ InTime'
  BY <1>7 DEF CaptureInv, FullIsFull, SamplesInOrder, InTime, waves, ghosts
<1>11. GroupFollows'
  <2>1. ASSUME ~ABORT, NEW k \in DOMAIN group'
        PROVE  group'[k] = r' - Len(group') + k
    <3>1. CASE k \in DOMAIN group
      <4>1. group[k] = r - Len(group) + k
        BY <1>1, <2>1, <3>1 DEF CaptureInv, GroupFollows
      <4>2. k \in Nat /\ Len(group) \in Nat
        BY <1>1, <3>1
      <4> QED
        BY <1>1, <1>4, <1>6, <2>1, <3>1, <4>1, <4>2
    <3>2. CASE k = Len(group) + 1
      BY <1>1, <1>4, <1>6, <2>1, <3>2
    <3> QED
      BY <1>4, <3>1, <3>2
  <2>2. ASSUME ~ABORT, NEW c \in Channels, counts[c] > 0
        PROVE  first + Len(buffer[c]) + Len(group') = r'
    <3> DEFINE b == Len(buffer[c])
               g == Len(group)
    <3>1. b \in Nat /\ g \in Nat /\ first \in Nat
      <4>1. first \in Nat /\ buffer[c] \in Seq(0 .. DEPTH)
        BY DEF CaptureInv, TypeOK, CaptureAssumption
      <4> QED
        BY <1>1, <4>1
    <3>2. first + b + g = r
      BY <1>1, <2>2 DEF CaptureInv, GroupFollows
    <3>3. Len(group') = g + 1 /\ r' = r + 1
      BY <1>4, <1>6, <2>2
    <3>4. first + b + Len(group') = r' <=> first + b + (g + 1) = r + 1
      BY <3>3
    <3> HIDE DEF b, g
    <3>5. first + b + (g + 1) = r + 1
      BY <3>1, <3>2
    <3> QED
      BY <3>4, <3>5 DEF b
  <2> QED
    BY <1>1, <1>7, <2>1, <2>2 DEF GroupFollows, ghosts
<1>12. Skipped'
  BY <1>1, <1>5, <1>6, <1>7
     DEF CaptureInv, Skipped, Synchronising, Empty, ghosts, CaptureAssumption
<1> QED
  BY <1>8, <1>9, <1>10, <1>11, <1>12 DEF CaptureInv

LEMMA Concatenated ==
  ASSUME NEW S, NEW s \in Seq(S), NEW t \in Seq(S)
  PROVE  /\ s \o t \in Seq(S) /\ Len(s \o t) = Len(s) + Len(t)
         /\ \A k \in DOMAIN (s \o t) :
              (s \o t)[k] = IF k <= Len(s) THEN s[k] ELSE t[k - Len(s)]
  OBVIOUS

LEMMA Times ==
  ASSUME NEW a \in Nat, NEW g \in Nat
  PROVE  (a + 1) * g = a * g + g /\ (a > 0 => a * g >= g)
<1>1. (a + 1) * g = a * g + g
  OBVIOUS
<1>2. ASSUME a > 0 PROVE a * g >= g
  <2>1. a * g = (a - 1) * g + g /\ (a - 1) * g \in Nat
    BY <1>2
  <2> QED
    BY <2>1
<1> QED
  BY <1>1, <1>2

LEMMA MangleKeepsInv ==
  ASSUME CaptureAssumption, CaptureInv, Mangle
  PROVE  CaptureInv'
<1> DEFINE n == [c \in Channels |-> IF counts[c] > 0 THEN counts[c] - 1 ELSE 0]
<1>1. /\ pc = "read" /\ Len(group) = GROUP /\ counts' = n /\ group' = <<>>
      /\ buffer' = [c \in Channels |->
                      IF counts[c] > 0 THEN buffer[c] \o group ELSE buffer[c]]
      /\ full' = FULL
      /\ pc' = IF (\E c \in Channels : n[c] > 0) /\ ~ABORT THEN "read" ELSE "idle"
      /\ UNCHANGED <<fpga, waves, irq, polls, ABORT, sync, left,
                     trigger_is_unconditional, ghosts>>
  BY DEF Mangle
<1>2. /\ group \in Seq(0 .. DEPTH) /\ r \in Nat /\ w \in 0 .. DEPTH /\ r <= w
      /\ GROUP \in Nat \ {0} /\ first \in Nat /\ DEPTH \in Nat
      /\ MaxCount \in Nat
      /\ \A c \in Channels : counts[c] \in 0 .. MaxCount /\ buffer[c] \in Seq(0 .. DEPTH)
  BY DEF CaptureInv, TypeOK, CaptureAssumption
<1>3. n \in [Channels -> 0 .. MaxCount]
  BY <1>2 DEF CaptureAssumption
<1>4. \A c \in Channels : n[c] = IF counts[c] > 0 THEN counts[c] - 1 ELSE 0
  OBVIOUS
<1> HIDE DEF n
<1>5. ASSUME NEW c \in Channels, counts[c] > 0
      PROVE  /\ buffer'[c] \in Seq(0 .. DEPTH)
             /\ Len(buffer'[c]) = Len(buffer[c]) + GROUP
             /\ \A k \in DOMAIN buffer'[c] :
                  buffer'[c][k] = IF k <= Len(buffer[c]) THEN buffer[c][k]
                                  ELSE group[k - Len(buffer[c])]
  <2>1. buffer'[c] = buffer[c] \o group
    BY <1>1, <1>5
  <2>2. buffer[c] \in Seq(0 .. DEPTH) /\ group \in Seq(0 .. DEPTH) /\ Len(group) = GROUP
    BY <1>1, <1>2
  <2>3. /\ buffer[c] \o group \in Seq(0 .. DEPTH)
        /\ Len(buffer[c] \o group) = Len(buffer[c]) + Len(group)
        /\ \A k \in DOMAIN (buffer[c] \o group) :
             (buffer[c] \o group)[k]
               = IF k <= Len(buffer[c]) THEN buffer[c][k] ELSE group[k - Len(buffer[c])]
    BY <2>2, Concatenated
  <2> QED
    BY <2>1, <2>2, <2>3, Zenon
<1>6. \A c \in Channels : ~(counts[c] > 0) => buffer'[c] = buffer[c]
  BY <1>1
<1>7. buffer' \in [Channels -> Seq(0 .. DEPTH)]
  <2>1. \A c \in Channels : buffer'[c] \in Seq(0 .. DEPTH)
    BY <1>2, <1>5, <1>6
  <2> QED
    BY <1>1, <2>1
<1>8. TypeOK'
  BY <1>1, <1>3, <1>7
     DEF CaptureInv, TypeOK, FULL, fpga, waves, ghosts, CaptureAssumption
<1>9. Room'
  <2>1. ASSUME NEW c \in Channels, n[c] > 0
        PROVE  r + n[c] * GROUP <= DEPTH /\ n[c] * GROUP >= GROUP
    <3>1. n[c] \in Nat /\ counts[c] = n[c] + 1
      <4>1. counts[c] \in 0 .. MaxCount /\ MaxCount \in Nat
        BY <1>2
      <4>2. n[c] = IF counts[c] > 0 THEN counts[c] - 1 ELSE 0
        BY <1>4
      <4> QED
        BY <2>1, <4>1, <4>2
    <3>2. counts[c] * GROUP = n[c] * GROUP + GROUP /\ n[c] * GROUP >= GROUP
      BY <1>2, <2>1, <3>1, Times
    <3>3. r - GROUP + counts[c] * GROUP <= DEPTH
      BY <1>1 DEF CaptureInv, Room
    <3>4. n[c] * GROUP \in Nat
      BY <1>2, <3>1
    <3> HIDE DEF n
    <3> QED
      BY <1>2, <3>2, <3>3, <3>4
  <2>2. \A c \in Channels : ~(n[c] > 0) => n[c] * GROUP = 0
    <3>1. \A c \in Channels : ~(n[c] > 0) => n[c] = 0
      BY <1>2, <1>4
    <3> QED
      BY <1>2, <3>1
  <2>3. pc' # "readStart" /\ (pc' = "read" => \E c \in Channels : n[c] > 0)
    BY <1>1
  <2>4. ASSUME pc' = "read"
        PROVE  r + GROUP <= DEPTH
    <3>1. PICK c \in Channels : n[c] > 0
      BY <2>3, <2>4
    <3>2. n[c] * GROUP \in Nat
      BY <1>2, <1>3 DEF CaptureAssumption
    <3> QED
      BY <1>2, <2>1, <3>1, <3>2
  <2>5. \A c \in Channels : r + n[c] * GROUP <= DEPTH
    BY <1>2, <2>1, <2>2
  <2>6. r' = r /\ Len(group') = 0 /\ counts' = n
    BY <1>1 DEF fpga
  <2> QED
    BY <1>2, <2>3, <2>4, <2>5, <2>6 DEF Room
<1>10. FullIsFull' /\ InTime'
  BY <1>1 DEF FULL, FullIsFull, InTime, fpga
<1>11. GroupFollows'
  <2>1. ASSUME ~ABORT, NEW c \in Channels, n[c] > 0
        PROVE  first + Len(buffer'[c]) = r
    <3>1. counts[c] > 0 /\ Len(buffer[c]) \in Nat
      BY <1>2, <1>4, <2>1
    <3>2. first + Len(buffer[c]) + Len(group) = r
      BY <1>1, <2>1, <3>1 DEF CaptureInv, GroupFollows
    <3>3. Len(buffer'[c]) = Len(buffer[c]) + GROUP /\ Len(group) = GROUP
      BY <1>1, <1>5, <3>1
    <3>4. first \in Nat /\ Len(buffer[c]) \in Nat /\ GROUP \in Nat /\ r \in Nat
      BY <1>2, <3>1
    <3> QED
      BY <3>2, <3>3, <3>4
  <2>2. Len(group') = 0 /\ DOMAIN group' = {}
    BY <1>1
  <2> QED
    BY <1>1, <1>2, <2>1, <2>2 DEF GroupFollows, fpga, ghosts
<1>12. SamplesInOrder'
  <2>1. ASSUME ~ABORT, NEW c \in Channels, NEW k \in DOMAIN buffer'[c], counts[c] > 0
        PROVE  buffer'[c][k] = first + k
    <3>0. Len(buffer[c]) \in Nat /\ first + Len(buffer[c]) + GROUP = r
      BY <1>1, <1>2, <2>1 DEF CaptureInv, GroupFollows
    <3>1. /\ Len(buffer[c]) \in Nat /\ k \in 1 .. (Len(buffer[c]) + GROUP)
          /\ first + Len(buffer[c]) + GROUP = r
      BY <1>2, <1>5, <2>1, <3>0
    <3>2. CASE k <= Len(buffer[c])
      <4>1. k \in DOMAIN buffer[c] /\ buffer'[c][k] = buffer[c][k]
        BY <1>2, <1>5, <2>1, <3>1, <3>2
      <4> QED
        BY <2>1, <4>1 DEF CaptureInv, SamplesInOrder
    <3>3. CASE k > Len(buffer[c])
      <4>1. k - Len(buffer[c]) \in DOMAIN group
        BY <1>1, <1>2, <3>1, <3>3
      <4>2. group[k - Len(buffer[c])] = r - GROUP + (k - Len(buffer[c]))
        BY <1>1, <2>1, <4>1 DEF CaptureInv, GroupFollows
      <4> QED
        <5>1. buffer'[c][k] = group[k - Len(buffer[c])]
          BY <1>5, <2>1, <3>1, <3>3, <1>2
        <5>2. k \in Int /\ first \in Nat /\ GROUP \in Nat /\ r = first + Len(buffer[c]) + GROUP
          BY <1>2, <3>1
        <5> QED
          BY <3>0, <4>2, <5>1, <5>2
    <3> QED
      BY <3>1, <3>2, <3>3
  <2> QED
    BY <1>1, <1>6, <2>1 DEF CaptureInv, SamplesInOrder, ghosts
<1>13. Skipped'
  BY <1>1 DEF CaptureInv, Skipped, Synchronising, Empty, fpga, ghosts
<1> QED
  BY <1>8, <1>9, <1>10, <1>11, <1>12, <1>13 DEF CaptureInv

LEMMA NextKeepsInv == CaptureAssumption /\ CaptureInv /\ [Next]_vars => CaptureInv'
<1> SUFFICES ASSUME CaptureAssumption, CaptureInv, [Next]_vars PROVE CaptureInv'
  OBVIOUS
<1> USE DEF CaptureInv, CaptureAssumption
<1>1. CASE Trigger
  <2>1. TypeOK'
    BY <1>1 DEF Trigger, TypeOK, fpga, waves, locals, ghosts
  <2>2. Room' /\ FullIsFull' /\ GroupFollows' /\ SamplesInOrder' /\ Skipped' /\ InTime'
    BY <1>1
       DEF Trigger, TypeOK, Room, FullIsFull, GroupFollows, SamplesInOrder, Skipped,
           Synchronising, Empty, InTime, fpga, waves, locals, ghosts
  <2> QED
    BY <2>1, <2>2
<1>2. CASE Sample
  <2>1. TypeOK'
    BY <1>2 DEF Sample, TypeOK, fpga, waves, locals, ghosts
  <2>2. Room' /\ FullIsFull' /\ GroupFollows' /\ SamplesInOrder' /\ Skipped' /\ InTime'
    BY <1>2
       DEF Sample, TypeOK, Room, FullIsFull, GroupFollows, SamplesInOrder, Skipped,
           Synchronising, Empty, InTime, fpga, waves, locals, ghosts
  <2> QED
    BY <2>1, <2>2
<1>3. CASE DacTick
  <2>1. TypeOK'
    BY <1>3 DEF DacTick, TypeOK, fpga, waves, locals, ghosts
  <2>2. Room' /\ FullIsFull' /\ GroupFollows' /\ SamplesInOrder' /\ Skipped' /\ InTime'
    BY <1>3
       DEF DacTick, TypeOK, Room, FullIsFull, GroupFollows, SamplesInOrder, Skipped,
           Synchronising, Empty, InTime, fpga, waves, locals, ghosts
  <2> QED
    BY <2>1, <2>2
<1>4. CASE Tim4Overflow
  <2>1. TypeOK'
    BY <1>4 DEF Tim4Overflow, TypeOK, fpga, waves, locals, ghosts
  <2>2. Room' /\ FullIsFull' /\ GroupFollows' /\ SamplesInOrder' /\ Skipped' /\ InTime'
    BY <1>4
       DEF Tim4Overflow, TypeOK, Room, FullIsFull, GroupFollows, SamplesInOrder,
           Skipped, Synchronising, Empty, InTime, fpga, waves, locals, ghosts
  <2> QED
    BY <2>1, <2>2
<1>5. CASE RaiseAbort
  <2>1. TypeOK'
    BY <1>5 DEF RaiseAbort, TypeOK, fpga, waves, locals, ghosts
  <2>2. Room' /\ FullIsFull' /\ GroupFollows' /\ SamplesInOrder' /\ Skipped' /\ InTime'
    BY <1>5
       DEF RaiseAbort, TypeOK, Room, FullIsFull, GroupFollows, SamplesInOrder,
           Skipped, Synchronising, Empty, InTime, fpga, waves, locals, ghosts
  <2> QED
    BY <2>1, <2>2
<1>6. ASSUME NEW u \in BOOLEAN, SetTrigger(u)
      PROVE  CaptureInv'
  <2>1. TypeOK'
    BY <1>6 DEF SetTrigger, TypeOK, fpga, waves, locals, ghosts
  <2>2. Room' /\ FullIsFull' /\ GroupFollows' /\ SamplesInOrder' /\ Skipped' /\ InTime'
    BY <1>6
       DEF SetTrigger, TypeOK, Room, FullIsFull, GroupFollows, SamplesInOrder,
           Skipped, Synchronising, Empty, InTime, fpga, waves, locals, ghosts
  <2> QED
    BY <2>1, <2>2
<1>7. ASSUME NEW u \in BOOLEAN, StartCall(u)
      PROVE  CaptureInv'
  BY <1>7, StartCallKeepsInv
<1>8. ASSUME NEW kind \in {"none", "dac", "tim4"}, WaveOut(kind)
      PROVE  CaptureInv'
  <2>1. TypeOK'
    BY <1>8 DEF WaveOut, TypeOK, fpga, waves, locals, ghosts
  <2>2. Room' /\ FullIsFull' /\ GroupFollows' /\ SamplesInOrder' /\ Skipped' /\ InTime'
    BY <1>8
       DEF WaveOut, TypeOK, Room, FullIsFull, GroupFollows, SamplesInOrder, Skipped,
           Synchronising, Empty, InTime, fpga, waves, locals, ghosts
  <2> QED
    BY <2>1, <2>2
<1>9. ASSUME NEW n \in [Channels -> 0 .. MaxCount], ReadCall(n)
      PROVE  CaptureInv'
  <2>1. TypeOK'
    BY <1>9 DEF ReadCall, InFifo, TypeOK, fpga, waves, locals, ghosts
  <2>2. Room' /\ FullIsFull' /\ GroupFollows' /\ SamplesInOrder' /\ Skipped' /\ InTime'
    BY <1>9
       DEF ReadCall, InFifo, TypeOK, Room, FullIsFull, GroupFollows, SamplesInOrder,
           Skipped, Synchronising, Empty, InTime, fpga, waves, locals, ghosts
  <2> QED
    BY <2>1, <2>2
<1>10. CASE DacAborted
  <2>1. TypeOK'
    BY <1>10 DEF DacAborted, DacStep, MorePolls, TypeOK, fpga, waves, locals, ghosts
  <2>2. Room' /\ FullIsFull' /\ GroupFollows' /\ SamplesInOrder' /\ Skipped' /\ InTime'
    BY <1>10
       DEF DacAborted, DacStep, MorePolls, TypeOK, Room, FullIsFull, GroupFollows,
           SamplesInOrder, Skipped, Synchronising, Empty, InTime, fpga, waves, locals,
           ghosts
  <2> QED
    BY <2>1, <2>2
<1>11. CASE DacFar
  <2>1. TypeOK'
    BY <1>11 DEF DacFar, DacStep, MorePolls, TypeOK, fpga, waves, locals, ghosts
  <2>2. Room' /\ FullIsFull' /\ GroupFollows' /\ SamplesInOrder' /\ Skipped' /\ InTime'
    BY <1>11
       DEF DacFar, DacStep, MorePolls, TypeOK, Room, FullIsFull, GroupFollows,
           SamplesInOrder, Skipped, Synchronising, Empty, InTime, fpga, waves, locals,
           ghosts
  <2> QED
    BY <2>1, <2>2
<1>12. CASE DacNear
  <2>1. TypeOK'
    BY <1>12 DEF DacNear, DacStep, MorePolls, TypeOK, fpga, waves, locals, ghosts
  <2>2. Room' /\ FullIsFull' /\ GroupFollows' /\ SamplesInOrder' /\ Skipped' /\ InTime'
    BY <1>12
       DEF DacNear, DacStep, MorePolls, TypeOK, Room, FullIsFull, GroupFollows,
           SamplesInOrder, Skipped, Synchronising, Empty, InTime, fpga, waves, locals,
           ghosts
  <2> QED
    BY <2>1, <2>2
<1>13. CASE DisableIrq
  <2>1. TypeOK'
    BY <1>13 DEF DisableIrq, NextWait, TypeOK, fpga, waves, locals, ghosts
  <2>2. Room' /\ FullIsFull' /\ GroupFollows' /\ SamplesInOrder' /\ Skipped' /\ InTime'
    BY <1>13
       DEF DisableIrq, NextWait, TypeOK, Room, FullIsFull, GroupFollows,
           SamplesInOrder, Skipped, Synchronising, Empty, InTime, fpga, waves, locals,
           ghosts
  <2> QED
    BY <2>1, <2>2
<1>14. CASE DacLast
  <2>1. TypeOK'
    BY <1>14
       DEF DacLast, DacStep, MorePolls, LastSample, TypeOK, fpga, waves, locals,
           ghosts
  <2>2. Room' /\ FullIsFull' /\ GroupFollows' /\ SamplesInOrder' /\ Skipped' /\ InTime'
    BY <1>14
       DEF DacLast, DacStep, MorePolls, LastSample, TypeOK, Room, FullIsFull,
           GroupFollows, SamplesInOrder, Skipped, Synchronising, Empty, InTime, fpga,
           waves, locals, ghosts
  <2> QED
    BY <2>1, <2>2
<1>15. CASE DacTurn
  <2>1. TypeOK'
    BY <1>15
       DEF DacTurn, DacStep, MorePolls, LastSample, TypeOK, fpga, waves, locals,
           ghosts
  <2>2. Room' /\ FullIsFull' /\ GroupFollows' /\ SamplesInOrder' /\ Skipped' /\ InTime'
    BY <1>15
       DEF DacTurn, DacStep, MorePolls, LastSample, TypeOK, Room, FullIsFull,
           GroupFollows, SamplesInOrder, Skipped, Synchronising, Empty, InTime, fpga,
           waves, locals, ghosts
  <2> QED
    BY <2>1, <2>2
<1>16. CASE DacPoll
  <2>1. TypeOK'
    BY <1>16
       DEF DacPoll, DacStep, MorePolls, LastSample, TypeOK, fpga, waves, locals,
           ghosts
  <2>2. Room' /\ FullIsFull' /\ GroupFollows' /\ SamplesInOrder' /\ Skipped' /\ InTime'
    BY <1>16
       DEF DacPoll, DacStep, MorePolls, LastSample, TypeOK, Room, FullIsFull,
           GroupFollows, SamplesInOrder, Skipped, Synchronising, Empty, InTime, fpga,
           waves, locals, ghosts
  <2> QED
    BY <2>1, <2>2
<1>17. CASE DacGo
  <2>1. TypeOK'
    <3>1. pc' \in {"waitStart", "idle"}
      BY <1>17 DEF DacGo, Synced
    <3>2. POLLS \in 0 .. POLLS
      OBVIOUS
    <3> QED
      BY <1>17, <3>1, <3>2 DEF DacGo, TypeOK, waves, locals, ghosts
  <2>2. Room'
    BY <1>17 DEF DacGo, Synced, TypeOK, Room, fpga, waves, locals, ghosts
  <2>3. FullIsFull'
    BY <1>17 DEF DacGo, Synced, TypeOK, FullIsFull, fpga, waves, locals, ghosts
  <2>4. GroupFollows'
    BY <1>17 DEF DacGo, Synced, TypeOK, GroupFollows, fpga, waves, locals, ghosts
  <2>5. SamplesInOrder'
    BY <1>17 DEF DacGo, Synced, TypeOK, SamplesInOrder, fpga, waves, locals, ghosts
  <2>6. Skipped'
    BY <1>17 DEF DacGo, Synced, TypeOK, Skipped, Synchronising, Empty, fpga, waves, locals, ghosts
  <2>7. InTime'
    BY <1>17 DEF DacGo, Synced, TypeOK, InTime, fpga, waves, locals, ghosts
  <2> QED
    BY <2>1, <2>2, <2>3, <2>4, <2>5, <2>6, <2>7
<1>18. CASE TimWait
  <2>1. pc' \in {"waitStart", "idle"} /\ armed' = FALSE
    BY <1>18 DEF TimWait, Synced
  <2>2. TypeOK'
    BY <1>18, <2>1 DEF TimWait, TypeOK, fpga, locals, ghosts
  <2>3. Room' /\ FullIsFull' /\ GroupFollows' /\ SamplesInOrder' /\ Skipped' /\ InTime'
    BY <1>18
       DEF TimWait, Synced, Room, FullIsFull, GroupFollows, SamplesInOrder, Skipped,
           Synchronising, Empty, InTime, fpga, waves, locals, ghosts
  <2> QED
    BY <2>2, <2>3
<1>19. CASE WaitStart
  <2>1. TypeOK'
    BY <1>19 DEF WaitStart, Triggered, TypeOK, fpga, waves, locals, ghosts
  <2>2. Room' /\ FullIsFull' /\ GroupFollows' /\ SamplesInOrder' /\ Skipped' /\ InTime'
    BY <1>19
       DEF WaitStart, Triggered, TypeOK, Room, FullIsFull, GroupFollows,
           SamplesInOrder, Skipped, Synchronising, Empty, InTime, fpga, waves, locals,
           ghosts
  <2> QED
    BY <2>1, <2>2
<1>20. CASE Skip
  <2>1. TypeOK'
    BY <1>20 DEF Skip, ToSkip, ReadFifo, EMPTY, TypeOK, fpga, waves, locals, ghosts
  <2>2. Room' /\ FullIsFull' /\ GroupFollows' /\ SamplesInOrder' /\ Skipped' /\ InTime'
    BY <1>20, SampleIsThere
       DEF Skip, ToSkip, ReadFifo, EMPTY, TypeOK, Room, FullIsFull, GroupFollows,
           SamplesInOrder, Skipped, Synchronising, Empty, InTime, fpga, waves, locals,
           ghosts
  <2> QED
    BY <2>1, <2>2
<1>21. CASE SkipDone
  <2>1. TypeOK'
    BY <1>21 DEF SkipDone, ToSkip, TypeOK, fpga, waves, locals, ghosts
  <2>2. Room' /\ FullIsFull' /\ GroupFollows' /\ SamplesInOrder' /\ Skipped' /\ InTime'
    BY <1>21
       DEF SkipDone, ToSkip, TypeOK, Room, FullIsFull, GroupFollows, SamplesInOrder,
           Skipped, Synchronising, Empty, InTime, fpga, waves, locals, ghosts
  <2> QED
    BY <2>1, <2>2
<1>22. CASE ReadStart
  <2>1. TypeOK'
    BY <1>22 DEF ReadStart, Triggered, FULL, TypeOK, fpga, waves, locals, ghosts
  <2>2. Room'
    BY <1>22 DEF ReadStart, Triggered, FULL, TypeOK, Room, fpga, waves, locals, ghosts
  <2>3. FullIsFull'
    BY <1>22 DEF ReadStart, Triggered, FULL, TypeOK, FullIsFull, fpga, waves, locals, ghosts
  <2>4. GroupFollows'
    BY <1>22 DEF ReadStart, Triggered, FULL, TypeOK, GroupFollows, fpga, waves, locals, ghosts
  <2>5. SamplesInOrder'
    BY <1>22 DEF ReadStart, Triggered, FULL, TypeOK, SamplesInOrder, fpga, waves, locals, ghosts
  <2>6. Skipped'
    BY <1>22 DEF ReadStart, Triggered, FULL, GroupFollows, Skipped, Synchronising, Empty, fpga, waves, locals, ghosts
  <2>7. InTime'
    BY <1>22 DEF ReadStart, Triggered, FULL, TypeOK, InTime, fpga, waves, locals, ghosts
  <2> QED
    BY <2>1, <2>2, <2>3, <2>4, <2>5, <2>6, <2>7
<1>23. CASE ReadSample
  BY <1>23, ReadSampleKeepsInv
<1>24. CASE Mangle
  BY <1>24, MangleKeepsInv
<1>25. CASE UNCHANGED vars
  BY <1>25
     DEF vars, TypeOK, Room, FullIsFull, GroupFollows, SamplesInOrder, Skipped,
         Synchronising, Empty, InTime, fpga, waves, locals, ghosts
<1> QED
  BY <1>1, <1>2, <1>3, <1>4, <1>5, <1>6, <1>7, <1>8, <1>9, <1>10, <1>11,
     <1>12, <1>13, <1>14, <1>15, <1>16, <1>17, <1>18, <1>19, <1>20, <1>21, <1>22,
     <1>23, <1>24, <1>25
     DEF Next, Hardware, Calls, Thread, DacSync

LEMMA InitInv == CaptureAssumption /\ Init => CaptureInv
<1> SUFFICES ASSUME CaptureAssumption, Init PROVE CaptureInv
  OBVIOUS
<1>1. TypeOK
  <2>1. <<>> \in Seq(0 .. DEPTH) /\ Len(<<>>) = 0
    OBVIOUS
  <2>2. /\ buffer \in [Channels -> Seq(0 .. DEPTH)] /\ counts \in [Channels -> 0 .. MaxCount]
        /\ group \in Seq(0 .. DEPTH) /\ Len(group) <= GROUP
    BY <2>1 DEF CaptureAssumption, Init
  <2>3. /\ w \in 0 .. DEPTH /\ r \in 0 .. w /\ cndtr \in 1 .. PERIOD /\ polls \in 0 .. POLLS
        /\ left \in 0 .. PRESAMPLES /\ first \in 0 .. DEPTH
    BY DEF CaptureAssumption, Init
  <2>4. /\ start \in BOOLEAN /\ clrw \in BOOLEAN /\ armed \in BOOLEAN /\ tcif \in BOOLEAN
        /\ irq \in BOOLEAN /\ ABORT \in BOOLEAN /\ sync \in BOOLEAN /\ full \in BOOLEAN
        /\ trigger_is_unconditional \in BOOLEAN /\ skipping \in BOOLEAN
        /\ wave = "none" /\ pc = "idle"
    BY DEF Init
  <2> QED
    BY <2>2, <2>3, <2>4 DEF TypeOK
<1>2. Room /\ FullIsFull /\ GroupFollows /\ SamplesInOrder /\ Skipped /\ InTime
  BY DEF Init, Room, FullIsFull, GroupFollows, SamplesInOrder, Skipped, Synchronising,
         Empty, InTime
<1> QED
  BY <1>1, <1>2 DEF CaptureInv

LEMMA Invariance == Spec => []CaptureInv
<1>1. Init => CaptureInv
  BY CaptureAssumption, InitInv
<1>2. CaptureInv /\ [Next]_vars => CaptureInv'
  BY CaptureAssumption, NextKeepsInv
<1> QED
  BY <1>1, <1>2, PTL DEF Spec

-----------------------------------------------------------------------------
\* FIFO, counters and arrays keep their types, whenever the FPGA samples or triggers.
THEOREM CaptureTypeCorrect == Spec => []TypeOK
<1>1. CaptureInv => TypeOK
  BY DEF CaptureInv
<1> QED
  BY <1>1, Invariance, PTL

\* wavein_read gives each channel consecutive samples (amx_wavein.c:234-261).
THEOREM SamplesComeInOrder == Spec => []SamplesInOrder
<1>1. CaptureInv => SamplesInOrder
  BY DEF CaptureInv
<1> QED
  BY <1>1, Invariance, PTL

\* After a synchronised or unconditional start no channel gets a presample
\* (amx_wavein.c:160-171).
THEOREM NoPresampleIsRead == Spec => []PresamplesSkipped
<1>1. CaptureInv => PresamplesSkipped
  <2> SUFFICES ASSUME CaptureInv, ~ABORT, skipping,
                      NEW c \in Channels, NEW k \in DOMAIN buffer[c]
               PROVE  buffer[c][k] > PRESAMPLES
    BY DEF PresamplesSkipped
  <2>1. buffer[c] \in Seq(0 .. DEPTH) /\ k \in Nat \ {0} /\ first \in Nat
    BY CaptureAssumption DEF CaptureInv, TypeOK, CaptureAssumption
  <2>2. first >= PRESAMPLES
    BY <2>1 DEF CaptureInv, Skipped, Empty
  <2>3. buffer[c][k] = first + k
    BY DEF CaptureInv, SamplesInOrder
  <2> QED
    BY <2>1, <2>2, <2>3, CaptureAssumption DEF CaptureAssumption
<1> QED
  BY <1>1, Invariance, PTL

\* A synchronised capture starts with the period of the waveform, wherever interrupts and
\* the samples of the DAC fall between the thread's steps (amx_wavein.c:112-157).
THEOREM CaptureIsInStep == Spec => CaptureStartsWithPeriod
<1>1. CaptureInv /\ [Next]_vars
        => [ /\ pc = "dacGo" => cndtr = PERIOD
             /\ pc = "timWait" /\ pc' # "timWait" /\ ~ABORT => ~clrw ]_vars
  <2> SUFFICES ASSUME CaptureInv, [Next]_vars, pc = "timWait", pc' # "timWait", ~ABORT
               PROVE  ~clrw
    BY DEF CaptureInv, InTime
  <2>1. tcif
    BY DEF Next, vars, Hardware, Calls, Thread, DacSync, Trigger, Sample, DacTick,
           Tim4Overflow, RaiseAbort, SetTrigger, StartCall, WaveOut, ReadCall, DacStep,
           DacAborted, DacFar, DacNear, DisableIrq, DacLast, DacTurn, DacPoll, DacGo,
           TimWait, WaitStart, Skip, SkipDone, ReadStart, ReadSample, Mangle
  <2> QED
    BY <2>1 DEF CaptureInv, InTime
<1> QED
  BY <1>1, Invariance, PTL DEF Spec, CaptureStartsWithPeriod
=============================================================================
