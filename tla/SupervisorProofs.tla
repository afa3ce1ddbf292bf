-------------------------- MODULE SupervisorProofs --------------------------
(***************************************************************************)
(* Proofs about Supervisor, for any programs, keys, sleep times and width  *)
(* of the clock.  SupervisorInv is inductive.  It says which machine runs  *)
(* for which caller, that everything that may still be called or resumed   *)
(* belongs to the program loaded, what the clock shows while main()        *)
(* sleeps, and where a failure is on its way to its message.               *)
(***************************************************************************)
EXTENDS Supervisor, TLAPS

Alive    == pc \in {"exec", "returned", "events", "eventsDone"}
InCall   == pc \in {"exec", "returned"}
InEvents == \/ pc \in {"events", "eventsDone"}
            \/ InCall /\ caller \in {"menu", "timer"}

\* The machine and the loop go with the caller; only a program that has a function
\* "@idle" gets to the second loop.
Loops ==
  /\ loop = "idle" => Alive /\ "@idle" \in prog
  /\ InCall /\ caller = "main" => loop = "sleep"
  /\ InCall /\ caller = "idle" => loop = "idle"
  /\ (machine = "nested") <=> (InEvents /\ loop = "sleep")

\* What may be called or resumed is a function of the program loaded.
Loaded ==
  /\ Alive => handlers \subseteq prog /\ amx.cont \in prog \union {"main"}
  /\ machine = "nested" => nested.cont \in prog \union {"main"}
  /\ pc = "exec" => /\ fn \in prog \union {"main"}
                    /\ caller \in {"menu", "timer"} => fn \in EventFunctions
                    /\ caller = "idle" => fn = "@idle"

\* As long as main() sleeps or runs, the global AMX stands in main(), if only main()
\* sleeps; the exception is a handler's end that is reported in its place.
Broken == pc = "returned" /\ caller = "main" /\ status \notin {"ok", "sleep"}
MainStays ==
  SleepyFunctions \subseteq {"main"} =>
    /\ Alive /\ loop = "sleep" /\ ~Broken => amx.cont = "main"
    /\ pc = "eventsDone" \/ (pc = "returned" /\ caller # "main") => status # "sleep"

\* The clock since the sleep began, unless its end has wrapped.
Asleep ==
  machine = "nested" =>
    \/ slept >= amx.pri
    \/ end < amx.pri
    \/ clock = (end - amx.pri) + slept

\* The machine that runs stands in the function that runs; after a failure that is the
\* function that failed, and main() is on its way to the message.
FailureKept ==
  /\ pc = "exec" => Running.cont = fn
  /\ failed # NoFunction => /\ pc \in {"returned", "eventsDone"}
                            /\ status \in {"error", "abort"}
                            /\ Running.cont = failed

SupervisorInv ==
  TypeOK /\ Loops /\ Loaded /\ MainStays /\ Asleep /\ FailureKept

-----------------------------------------------------------------------------
LEMMA EventNames ==
  /\ EventFunctions = {"@button1", "@button2", "@button3", "@button4", "@scroll1",
                       "@scroll2", "@timertick"}
  /\ \A i \in 1 .. 6 : MenuSlots[i] \in EventFunctions
  /\ DOMAIN MenuSlots = 1 .. 6 /\ Len(MenuSlots) = 6
  /\ EventFunctions \subseteq Functions
  /\ "main" \in Functions /\ "@idle" \in Functions
<1>1. DOMAIN MenuSlots = 1 .. 6 /\ Len(MenuSlots) = 6
  BY DEF MenuSlots
<1>2. /\ MenuSlots[1] = "@button1" /\ MenuSlots[2] = "@button2"
      /\ MenuSlots[3] = "@button3" /\ MenuSlots[4] = "@button4"
      /\ MenuSlots[5] = "@scroll1" /\ MenuSlots[6] = "@scroll2"
  BY DEF MenuSlots
<1>3. \A i \in 1 .. 6 : i = 1 \/ i = 2 \/ i = 3 \/ i = 4 \/ i = 5 \/ i = 6
  OBVIOUS
<1> HIDE DEF MenuSlots
<1>4. EventFunctions = {"@button1", "@button2", "@button3", "@button4", "@scroll1",
                        "@scroll2", "@timertick"}
  BY <1>1, <1>2, <1>3 DEF EventFunctions
<1> QED
  BY <1>1, <1>2, <1>3, <1>4 DEF Functions, EventFunctions

LEMMA ClockStep ==
  ASSUME SupervisorAssumption, NEW c \in 0 .. W-1
  PROVE  /\ (c + 1) % W \in 0 .. W-1
         /\ c + 1 < W => (c + 1) % W = c + 1
  BY DEF SupervisorAssumption

\* Where get_time() + pri has not wrapped, it is pri after get_time().
LEMMA EndOfSleep ==
  ASSUME SupervisorAssumption, NEW c \in 0 .. W-1, NEW p \in Nat
  PROVE  /\ (c + p) % W \in 0 .. W-1
         /\ (c + p) % W >= p => c = ((c + p) % W) - p
  <1>1. (c + p) % W \in 0 .. W-1
    BY DEF SupervisorAssumption
  <1>2. c + p < W => (c + p) % W = c + p
    BY DEF SupervisorAssumption
  <1>3. c + p >= W /\ p < W => (c + p) % W = c + p - W
    BY DEF SupervisorAssumption
  <1> QED
    BY <1>1, <1>2, <1>3 DEF SupervisorAssumption

LEMMA PriIsNat ==
  ASSUME SupervisorAssumption, TypeOK
  PROVE  amx.pri \in Nat
<1>1. amx.pri \in 0 .. W-1 \union ExitCodes \union {0, 1}
  BY DEF TypeOK, Amxs
<1>2. ExitCodes \subseteq Nat /\ W \in Nat
  BY DEF SupervisorAssumption
<1>3. 0 .. W-1 \subseteq Nat
  BY <1>2
<1>4. \/ amx.pri \in 0 .. W-1
      \/ amx.pri \in ExitCodes
      \/ amx.pri \in {0, 1}
  BY <1>1, Zenon
<1>5. {0, 1} \subseteq Nat
  OBVIOUS
<1> QED
  BY <1>2, <1>3, <1>4, <1>5, Zenon

LEMMA NextKeepsInv ==
  SupervisorAssumption /\ SupervisorInv /\ [Next]_vars => SupervisorInv'
<1> SUFFICES ASSUME SupervisorAssumption, SupervisorInv, [Next]_vars
             PROVE  SupervisorInv'
  OBVIOUS
<1> USE DEF SupervisorInv, SupervisorAssumption
<1>1. CASE Tick
  <2>1. TypeOK'
    <3>1. PICK down \in SUBSET UserKeys : \E presses \in SUBSET Flaggable(down) :
                                            Interrupt(down, presses)
      BY <1>1 DEF Tick
    <3>2. PICK presses \in SUBSET Flaggable(down) : Interrupt(down, presses)
      BY <3>1
    <3>3. presses \subseteq UserKeys
      BY <3>1, <3>2 DEF Flaggable
    <3>4. /\ clock' = (clock + 1) % W /\ held' = down
          /\ heldFor' = IF down # held \/ down # {"BUTTON4"} THEN 0
                        ELSE IF heldFor > HOOK_MS + 1 THEN heldFor ELSE heldFor + 1
          /\ pending' = pending \union presses /\ out' = out
          /\ amx' = amx \/ amx' = [amx EXCEPT !.debug = TRUE]
          /\ slept' = IF machine = "nested" /\ slept < W-1 THEN slept + 1 ELSE slept
          /\ UNCHANGED <<pc, progVars, nested, machine, fn, caller, loop, slot, status,
                         ret, end, timerVars, failed>>
      BY <3>2 DEF Interrupt, TimerTick, Buffer!Press
    <3>5. clock' \in 0 .. W-1 /\ heldFor' \in 0 .. HOOK_MS+2 /\ slept' \in 0 .. W-1
      <4>1. clock' \in 0 .. W-1
        BY <3>4, ClockStep DEF TypeOK
      <4>2. heldFor' \in 0 .. HOOK_MS+2
        BY <3>4 DEF TypeOK
      <4>3. slept' \in 0 .. W-1
        BY <3>4 DEF TypeOK
      <4> QED
        BY <4>1, <4>2, <4>3
    <3>6. held' \in SUBSET UserKeys /\ pending' \in SUBSET UserKeys /\ out' \in SUBSET UserKeys
      BY <3>3, <3>4 DEF TypeOK
    <3>7. amx' \in Amxs
      BY <3>4 DEF TypeOK, Amxs
    <3> QED
      BY <3>4, <3>5, <3>6, <3>7 DEF TypeOK, progVars, timerVars
  <2>2. Loops'
    BY <1>1
       DEF Tick, Interrupt, TimerTick, Buffer!Press, Flaggable, keyVars, progVars,
           vmVars, loopVars, timerVars, Loops, Alive, InCall, InEvents, TypeOK
  <2>3. Loaded'
    BY <1>1, EventNames
       DEF Tick, Interrupt, TimerTick, Buffer!Press, Flaggable, keyVars, progVars,
           vmVars, loopVars, timerVars, Loaded, Loops, Alive, InCall, InEvents, TypeOK,
           Amxs
  <2>4. MainStays'
    BY <1>1, EventNames
       DEF Tick, Interrupt, TimerTick, Buffer!Press, Flaggable, keyVars, progVars,
           vmVars, loopVars, timerVars, MainStays, Broken, Loaded, Loops, Alive, InCall,
           InEvents, TypeOK, Amxs
  <2>5. Asleep'
    <3>1. /\ clock' = (clock + 1) % W
          /\ slept' = IF machine = "nested" /\ slept < W-1 THEN slept + 1 ELSE slept
          /\ amx'.pri = amx.pri
          /\ UNCHANGED <<machine, end>>
      BY <1>1 DEF Tick, Interrupt, TimerTick, TypeOK, Amxs
    <3>2. clock \in 0 .. W-1 /\ slept \in 0 .. W-1 /\ end \in 0 .. W-1
      BY DEF TypeOK
    <3>3. amx.pri \in Nat
      BY PriIsNat
    <3>4. CASE machine = "nested" /\ slept < amx.pri /\ end >= amx.pri
      <4>1. clock = (end - amx.pri) + slept
        BY <3>2, <3>3, <3>4 DEF Asleep
      <4>2. clock + 1 < W /\ slept < W-1
        BY <3>2, <3>3, <3>4, <4>1
      <4>3. clock' = clock + 1 /\ slept' = slept + 1
        BY <3>1, <3>2, <3>4, <4>2, ClockStep
      <4> QED
        BY <3>1, <3>2, <3>3, <4>1, <4>3 DEF Asleep
    <3>5. CASE machine = "nested" /\ (slept >= amx.pri \/ end < amx.pri)
      BY <3>1, <3>2, <3>3, <3>5 DEF Asleep
    <3> QED
      BY <3>1, <3>2, <3>3, <3>4, <3>5 DEF Asleep
  <2>6. FailureKept'
    BY <1>1, EventNames
       DEF Tick, Interrupt, TimerTick, Buffer!Press, Flaggable, keyVars, progVars,
           vmVars, loopVars, timerVars, FailureKept, Running, Loaded, Loops, InCall, InEvents,
           TypeOK, Amxs
  <2> QED
    BY <2>1, <2>2, <2>3, <2>4, <2>5, <2>6
<1>2. CASE \E p \in Programs : SelectFile(p)
  <2>1. TypeOK'
    BY <1>2, EventNames
       DEF SelectFile, Buffer!Take, keyVars, progVars, vmVars, loopVars, timerVars,
           TypeOK, Amxs, Functions, NoFunction
  <2>2. Loops' /\ Loaded' /\ MainStays' /\ Asleep' /\ FailureKept'
    BY <1>2, EventNames
       DEF SelectFile, Buffer!Take, keyVars, progVars, vmVars, loopVars, timerVars,
           Loops, Loaded, MainStays, Broken, Asleep, FailureKept, Running, Alive, InCall, InEvents,
           TypeOK, Amxs
  <2> QED
    BY <2>1, <2>2
<1>3. CASE LoadProgram
  <2>1. TypeOK'
    <3>1. amx' \in Amxs /\ fn' \in Functions \union {NoFunction}
      BY <1>3, EventNames DEF LoadProgram, BlankAmx, Amxs
    <3>2. handlers' \in SUBSET EventFunctions
      BY <1>3 DEF LoadProgram, EventHandlers
    <3> QED
      BY <1>3, <3>1, <3>2
         DEF LoadProgram, keyVars, loopVars, timerVars, TypeOK
  <2>2. Loops' /\ Loaded' /\ MainStays' /\ Asleep' /\ FailureKept'
    BY <1>3, EventNames
       DEF LoadProgram, EventHandlers, BlankAmx, keyVars, progVars, vmVars, loopVars,
           timerVars, Loops, Loaded, MainStays, Broken, Asleep, FailureKept, Running, Alive, InCall,
           InEvents, TypeOK, Amxs
  <2> QED
    BY <2>1, <2>2
<1>4. CASE LoadFails
  <2>1. TypeOK'
    BY <1>4, EventNames
       DEF LoadFails, Buffer!Take, keyVars, progVars, vmVars, loopVars, timerVars,
           TypeOK, Amxs, Functions, NoFunction
  <2>2. Loops' /\ Loaded' /\ MainStays' /\ Asleep' /\ FailureKept'
    BY <1>4, EventNames
       DEF LoadFails, Buffer!Take, keyVars, progVars, vmVars, loopVars, timerVars,
           Loops, Loaded, MainStays, Broken, Asleep, FailureKept, Running, Alive, InCall, InEvents,
           TypeOK, Amxs
  <2> QED
    BY <2>1, <2>2
<1>5. CASE CloseMessage
  <2>1. TypeOK'
    BY <1>5, EventNames
       DEF CloseMessage, Buffer!Take, keyVars, progVars, vmVars, loopVars, timerVars,
           TypeOK, Amxs, Functions, NoFunction
  <2>2. Loops' /\ Loaded' /\ MainStays' /\ Asleep' /\ FailureKept'
    BY <1>5, EventNames
       DEF CloseMessage, Buffer!Take, keyVars, progVars, vmVars, loopVars, timerVars,
           Loops, Loaded, MainStays, Broken, Asleep, FailureKept, Running, Alive, InCall, InEvents,
           TypeOK, Amxs
  <2> QED
    BY <2>1, <2>2
<1>6. CASE CloseProgram
  <2>1. TypeOK'
    BY <1>6, EventNames
       DEF CloseProgram, Buffer!Take, keyVars, progVars, vmVars, loopVars, timerVars,
           TypeOK, Amxs, Functions, NoFunction
  <2>2. Loops' /\ Loaded' /\ MainStays' /\ Asleep' /\ FailureKept'
    BY <1>6, EventNames
       DEF CloseProgram, Buffer!Take, keyVars, progVars, vmVars, loopVars, timerVars,
           Loops, Loaded, MainStays, Broken, Asleep, FailureKept, Running, Alive, InCall, InEvents,
           TypeOK, Amxs
  <2> QED
    BY <2>1, <2>2
<1>7. CASE \E p \in Periods : SetTimer(p)
  <2>1. TypeOK'
    BY <1>7, EventNames
       DEF SetTimer, keyVars, progVars, vmVars, loopVars, timerVars, TypeOK, Amxs,
           Functions, NoFunction
  <2>2. Loops' /\ Loaded' /\ MainStays' /\ Asleep' /\ FailureKept'
    BY <1>7, EventNames
       DEF SetTimer, keyVars, progVars, vmVars, loopVars, timerVars, Loops, Loaded,
           MainStays, Broken, Asleep, FailureKept, Running, Alive, InCall, InEvents, TypeOK, Amxs
  <2> QED
    BY <2>1, <2>2
<1>8. CASE \E k \in UserKeys : PollKeys(k)
  <2>1. TypeOK'
    BY <1>8, EventNames
       DEF PollKeys, Buffer!Take, keyVars, progVars, vmVars, loopVars, timerVars,
           TypeOK, Amxs, Functions, NoFunction
  <2>2. Loops' /\ Loaded' /\ MainStays' /\ Asleep' /\ FailureKept'
    BY <1>8, EventNames
       DEF PollKeys, Buffer!Take, keyVars, progVars, vmVars, loopVars, timerVars, Loops,
           Loaded, MainStays, Broken, Asleep, FailureKept, Running, Alive, InCall, InEvents, TypeOK,
           Amxs
  <2> QED
    BY <2>1, <2>2
<1>9. CASE FunctionReturns
  <2>1. TypeOK'
    BY <1>9, EventNames
       DEF FunctionReturns, ExecReturns, Running, keyVars, progVars, vmVars, loopVars,
           timerVars, TypeOK, Amxs, Functions, NoFunction
  <2>2. Loops' /\ Loaded' /\ MainStays' /\ Asleep' /\ FailureKept'
    BY <1>9, EventNames
       DEF FunctionReturns, ExecReturns, Running, keyVars, progVars, vmVars, loopVars,
           timerVars, Loops, Loaded, MainStays, Broken, Asleep, FailureKept, Alive, InCall,
           InEvents, TypeOK, Amxs
  <2> QED
    BY <2>1, <2>2
<1>10. CASE FunctionSleeps
  <2>1. TypeOK'
    BY <1>10, EventNames
       DEF FunctionSleeps, ExecReturns, Running, keyVars, progVars, vmVars, loopVars,
           timerVars, TypeOK, Amxs, Functions, NoFunction
  <2>2. Loops' /\ Loaded' /\ MainStays' /\ Asleep' /\ FailureKept'
    BY <1>10, EventNames
       DEF FunctionSleeps, ExecReturns, Running, keyVars, progVars, vmVars, loopVars,
           timerVars, Loops, Loaded, MainStays, Broken, Asleep, FailureKept, Alive, InCall,
           InEvents, TypeOK, Amxs
  <2> QED
    BY <2>1, <2>2
<1>11. CASE FunctionExits
  <2>1. TypeOK'
    BY <1>11, EventNames
       DEF FunctionExits, ExecReturns, Running, keyVars, progVars, vmVars, loopVars,
           timerVars, TypeOK, Amxs, Functions, NoFunction
  <2>2. Loops' /\ Loaded' /\ MainStays' /\ Asleep' /\ FailureKept'
    BY <1>11, EventNames
       DEF FunctionExits, ExecReturns, Running, keyVars, progVars, vmVars, loopVars,
           timerVars, Loops, Loaded, MainStays, Broken, Asleep, FailureKept, Alive, InCall,
           InEvents, TypeOK, Amxs
  <2> QED
    BY <2>1, <2>2
<1>12. CASE FunctionFails
  <2>1. TypeOK'
    BY <1>12, EventNames
       DEF FunctionFails, ExecReturns, Running, keyVars, progVars, vmVars, loopVars,
           timerVars, TypeOK, Amxs, Functions, NoFunction
  <2>2. Loops' /\ Loaded' /\ MainStays' /\ Asleep' /\ FailureKept'
    BY <1>12, EventNames
       DEF FunctionFails, ExecReturns, Running, keyVars, progVars, vmVars, loopVars,
           timerVars, Loops, Loaded, MainStays, Broken, Asleep, FailureKept, Alive, InCall,
           InEvents, TypeOK, Amxs
  <2> QED
    BY <2>1, <2>2
<1>13. CASE Break
  <2>1. TypeOK'
    BY <1>13, EventNames
       DEF Break, ExecReturns, Running, keyVars, progVars, vmVars, loopVars, timerVars,
           TypeOK, Amxs, Functions, NoFunction
  <2>2. Loops' /\ Loaded' /\ MainStays' /\ Asleep' /\ FailureKept'
    BY <1>13, EventNames
       DEF Break, ExecReturns, Running, keyVars, progVars, vmVars, loopVars, timerVars,
           Loops, Loaded, MainStays, Broken, Asleep, FailureKept, Alive, InCall, InEvents,
           TypeOK, Amxs
  <2> QED
    BY <2>1, <2>2
<1>14. CASE DispatchKey
  <2>1. TypeOK'
    BY <1>14, EventNames
       DEF DispatchKey, ReadySlots, StartIn, NextSlot, Buffer!Take, keyVars, progVars,
           vmVars, loopVars, timerVars, TypeOK, Amxs, Functions, NoFunction
  <2>2. Loops' /\ Loaded' /\ MainStays' /\ Asleep' /\ FailureKept'
    BY <1>14, EventNames
       DEF DispatchKey, ReadySlots, StartIn, NextSlot, Buffer!Take, keyVars, progVars,
           vmVars, loopVars, timerVars, Loops, Loaded, MainStays, Broken, Asleep,
           FailureKept, Running, Alive, InCall, InEvents, TypeOK, Amxs
  <2> QED
    BY <2>1, <2>2
<1>15. CASE DispatchTimer
  <2>1. TypeOK'
    BY <1>15, EventNames
       DEF DispatchTimer, TimerDue, StartIn, keyVars, progVars, vmVars, loopVars,
           timerVars, TypeOK, Amxs, Functions, NoFunction
  <2>2. Loops' /\ Loaded' /\ MainStays' /\ Asleep' /\ FailureKept'
    BY <1>15, EventNames
       DEF DispatchTimer, TimerDue, StartIn, keyVars, progVars, vmVars, loopVars,
           timerVars, Loops, Loaded, MainStays, Broken, Asleep, FailureKept, Running, Alive, InCall,
           InEvents, TypeOK, Amxs
  <2> QED
    BY <2>1, <2>2
<1>16. CASE NoEvent
  <2>1. TypeOK'
    BY <1>16, EventNames
       DEF NoEvent, keyVars, progVars, vmVars, loopVars, timerVars, TypeOK, Amxs,
           Functions, NoFunction
  <2>2. Loops' /\ Loaded' /\ MainStays' /\ Asleep' /\ FailureKept'
    BY <1>16, EventNames
       DEF NoEvent, keyVars, progVars, vmVars, loopVars, timerVars, Loops, Loaded,
           MainStays, Broken, Asleep, FailureKept, Running, Alive, InCall, InEvents, TypeOK, Amxs
  <2> QED
    BY <2>1, <2>2
<1>17. CASE HandlerReturned
  <2>1. TypeOK'
    BY <1>17, EventNames
       DEF HandlerReturned, keyVars, progVars, vmVars, loopVars, timerVars, TypeOK,
           Amxs, Functions, NoFunction
  <2>2. Loops' /\ Loaded' /\ MainStays' /\ Asleep' /\ FailureKept'
    BY <1>17, EventNames
       DEF HandlerReturned, keyVars, progVars, vmVars, loopVars, timerVars, Loops,
           Loaded, MainStays, Broken, Asleep, FailureKept, Running, Alive, InCall, InEvents, TypeOK,
           Amxs
  <2> QED
    BY <2>1, <2>2
<1>18. CASE StartSleep
  <2>1. TypeOK'
    <3>1. clock \in 0 .. W-1 /\ amx.pri \in Nat
      BY PriIsNat DEF TypeOK
    <3>2. end' \in 0 .. W-1 /\ slept' \in 0 .. W-1
      <4>1. end' = (clock + amx.pri) % W /\ slept' = 0
        BY <1>18 DEF StartSleep, SleepEnd
      <4>2. 0 \in 0 .. W-1
        OBVIOUS
      <4> QED
        BY <3>1, <4>1, <4>2, EndOfSleep
    <3> QED
      BY <1>18, <3>2 DEF StartSleep, SleepMachine, keyVars, progVars, timerVars, TypeOK
  <2>2. Loops'
    BY <1>18
       DEF StartSleep, SleepMachine, SleepEnd, keyVars, progVars, vmVars, loopVars,
           timerVars, Loops, Alive, InCall, InEvents, TypeOK
  <2>3. Loaded'
    BY <1>18, EventNames
       DEF StartSleep, SleepMachine, SleepEnd, keyVars, progVars, vmVars, loopVars,
           timerVars, Loaded, Loops, Alive, InCall, InEvents, TypeOK, Amxs
  <2>4. MainStays'
    BY <1>18, EventNames
       DEF StartSleep, SleepMachine, SleepEnd, keyVars, progVars, vmVars, loopVars,
           timerVars, MainStays, Broken, Loaded, Loops, Alive, InCall, InEvents, TypeOK,
           Amxs
  <2>5. Asleep'
    <3>1. clock \in 0 .. W-1 /\ amx.pri \in Nat
      BY PriIsNat DEF TypeOK
    <3>2. end' = (clock + amx.pri) % W /\ slept' = 0 /\ clock' = clock /\ amx' = amx
      BY <1>18 DEF StartSleep, SleepEnd
    <3>3. end' \in 0 .. W-1 /\ (end' >= amx.pri => clock = end' - amx.pri)
      BY <3>1, <3>2, EndOfSleep
    <3> QED
      BY <3>1, <3>2, <3>3 DEF Asleep
  <2>6. FailureKept'
    BY <1>18, EventNames
       DEF StartSleep, SleepMachine, SleepEnd, keyVars, progVars, vmVars, loopVars,
           timerVars, FailureKept, Running, Loaded, Loops, InCall, InEvents, TypeOK, Amxs
  <2> QED
    BY <2>1, <2>2, <2>3, <2>4, <2>5, <2>6
<1>19. CASE SleepMore
  <2>1. TypeOK'
    BY <1>19, EventNames
       DEF SleepMore, keyVars, progVars, vmVars, loopVars, timerVars, TypeOK, Amxs,
           Functions, NoFunction
  <2>2. Loops' /\ Loaded' /\ MainStays' /\ Asleep' /\ FailureKept'
    BY <1>19, EventNames
       DEF SleepMore, keyVars, progVars, vmVars, loopVars, timerVars, Loops, Loaded,
           MainStays, Broken, Asleep, FailureKept, Running, Alive, InCall, InEvents, TypeOK, Amxs
  <2> QED
    BY <2>1, <2>2
<1>20. CASE Resume
  <2>1. TypeOK'
    BY <1>20, EventNames
       DEF Resume, SleepBlockLeft, BlankAmx, keyVars, progVars, vmVars, loopVars,
           timerVars, TypeOK, Amxs, Functions, NoFunction
  <2>2. Loops' /\ Loaded' /\ MainStays' /\ Asleep' /\ FailureKept'
    BY <1>20, EventNames
       DEF Resume, SleepBlockLeft, BlankAmx, keyVars, progVars, vmVars, loopVars,
           timerVars, Loops, Loaded, MainStays, Broken, Asleep, FailureKept, Running, Alive, InCall,
           InEvents, TypeOK, Amxs
  <2> QED
    BY <2>1, <2>2
<1>21. CASE SleepBroken
  <2>1. TypeOK'
    BY <1>21, EventNames
       DEF SleepBroken, SleepBlockLeft, BlankAmx, keyVars, progVars, vmVars, loopVars,
           timerVars, TypeOK, Amxs, Functions, NoFunction
  <2>2. Loops' /\ Loaded' /\ MainStays' /\ Asleep' /\ FailureKept'
    BY <1>21, EventNames
       DEF SleepBroken, SleepBlockLeft, BlankAmx, keyVars, progVars, vmVars, loopVars,
           timerVars, Loops, Loaded, MainStays, Broken, Asleep, FailureKept, Running, Alive, InCall,
           InEvents, TypeOK, Amxs
  <2> QED
    BY <2>1, <2>2
<1>22. CASE StartIdling
  <2>1. TypeOK'
    BY <1>22, EventNames
       DEF StartIdling, keyVars, progVars, vmVars, loopVars, timerVars, TypeOK, Amxs,
           Functions, NoFunction
  <2>2. Loops' /\ Loaded' /\ MainStays' /\ Asleep' /\ FailureKept'
    BY <1>22, EventNames
       DEF StartIdling, keyVars, progVars, vmVars, loopVars, timerVars, Loops, Loaded,
           MainStays, Broken, Asleep, FailureKept, Running, Alive, InCall, InEvents, TypeOK, Amxs
  <2> QED
    BY <2>1, <2>2
<1>23. CASE RunIdle
  <2>1. TypeOK'
    BY <1>23, EventNames
       DEF RunIdle, StartIn, keyVars, progVars, vmVars, loopVars, timerVars, TypeOK,
           Amxs, Functions, NoFunction
  <2>2. Loops' /\ Loaded' /\ MainStays' /\ Asleep' /\ FailureKept'
    BY <1>23, EventNames
       DEF RunIdle, StartIn, keyVars, progVars, vmVars, loopVars, timerVars, Loops,
           Loaded, MainStays, Broken, Asleep, FailureKept, Running, Alive, InCall, InEvents, TypeOK,
           Amxs
  <2> QED
    BY <2>1, <2>2
<1>24. CASE IdleMore
  <2>1. TypeOK'
    BY <1>24, EventNames
       DEF IdleMore, keyVars, progVars, vmVars, loopVars, timerVars, TypeOK, Amxs,
           Functions, NoFunction
  <2>2. Loops' /\ Loaded' /\ MainStays' /\ Asleep' /\ FailureKept'
    BY <1>24, EventNames
       DEF IdleMore, keyVars, progVars, vmVars, loopVars, timerVars, Loops, Loaded,
           MainStays, Broken, Asleep, FailureKept, Running, Alive, InCall, InEvents, TypeOK, Amxs
  <2> QED
    BY <2>1, <2>2
<1>25. CASE EndNormally
  <2>1. TypeOK'
    BY <1>25, EventNames
       DEF EndNormally, Ended, ProgramOver, keyVars, progVars, vmVars, loopVars,
           timerVars, TypeOK, Amxs, Functions, NoFunction
  <2>2. Loops' /\ Loaded' /\ MainStays' /\ Asleep' /\ FailureKept'
    BY <1>25, EventNames
       DEF EndNormally, Ended, ProgramOver, keyVars, progVars, vmVars, loopVars,
           timerVars, Loops, Loaded, MainStays, Broken, Asleep, FailureKept, Running, Alive, InCall,
           InEvents, TypeOK, Amxs
  <2> QED
    BY <2>1, <2>2
<1>26. CASE EndInCrash
  <2>1. TypeOK'
    BY <1>26, EventNames
       DEF EndInCrash, Ended, ProgramOver, Buffer!Take, keyVars, progVars, vmVars,
           loopVars, timerVars, TypeOK, Amxs, Functions, NoFunction
  <2>2. Loops' /\ Loaded' /\ MainStays' /\ Asleep' /\ FailureKept'
    BY <1>26, EventNames
       DEF EndInCrash, Ended, ProgramOver, Buffer!Take, keyVars, progVars, vmVars,
           loopVars, timerVars, Loops, Loaded, MainStays, Broken, Asleep, FailureKept, Running,
           Alive, InCall, InEvents, TypeOK, Amxs
  <2> QED
    BY <2>1, <2>2
<1>28. CASE PassSlots
  <2>1. slot' \in 1 .. 7
    BY <1>28, EventNames DEF PassSlots, TypeOK
  <2>2. TypeOK'
    BY <1>28, <2>1, EventNames
       DEF PassSlots, keyVars, progVars, vmVars, timerVars, TypeOK
  <2>3. Loops' /\ Loaded' /\ MainStays' /\ Asleep' /\ FailureKept'
    BY <1>28
       DEF PassSlots, keyVars, progVars, vmVars, timerVars, Loops, Loaded, MainStays,
           Broken, Asleep, FailureKept, Running, Alive, InCall, InEvents
  <2> QED
    BY <2>2, <2>3
<1>27. CASE UNCHANGED vars
  BY <1>27
     DEF vars, keyVars, progVars, vmVars, loopVars, timerVars, TypeOK, Loops, Loaded,
         MainStays, Broken, Asleep, FailureKept, Running, Alive, InCall, InEvents
<1> QED
  BY <1>1, <1>2, <1>3, <1>4, <1>5, <1>6, <1>7, <1>8, <1>9, <1>10, <1>11, <1>12, <1>13, <1>14, <1>15, <1>16, <1>17, <1>18, <1>19, <1>20, <1>21, <1>22, <1>23, <1>24, <1>25, <1>26, <1>27, <1>28
     DEF Next, Shell, ProgramStep, ProgramEnds, Events, Main

LEMMA InitInv == SupervisorAssumption /\ Init => SupervisorInv
<1> SUFFICES ASSUME SupervisorAssumption, Init PROVE SupervisorInv
  OBVIOUS
<1>1. TypeOK
  BY EventNames
     DEF SupervisorAssumption, Init, TypeOK, Amxs, BlankAmx, NoFunction, Buffer!KBInit
<1>2. Loops /\ Loaded /\ MainStays /\ Asleep /\ FailureKept
  BY DEF Init, Loops, Loaded, MainStays, Broken, Asleep, FailureKept, Running, Alive, InCall,
         InEvents
<1> QED
  BY <1>1, <1>2 DEF SupervisorInv

LEMMA Invariance == Spec => []SupervisorInv
<1>1. Init => SupervisorInv
  BY SupervisorAssumption, InitInv
<1>2. SupervisorInv /\ [Next]_vars => SupervisorInv'
  BY SupervisorAssumption, NextKeepsInv
<1> QED
  BY <1>1, <1>2, PTL DEF Spec

-----------------------------------------------------------------------------
\* Machines, keys, clock and the locals of main() keep their types.
THEOREM SupervisorTypeCorrect == Spec => []TypeOK
<1>1. SupervisorInv => TypeOK
  BY DEF SupervisorInv
<1> QED
  BY <1>1, Invariance, PTL

\* No function of an earlier program is ever called (amx_menu.c:100-116, amx_time.c:52-53).
THEOREM OnlyThisProgramRuns == Spec => []HandlersOfThisProgram
<1>1. SupervisorInv => HandlersOfThisProgram
  BY DEF SupervisorInv, Loaded, HandlersOfThisProgram
<1> QED
  BY <1>1, Invariance, PTL

\* What can lead from the events to a running function.
LEMMA AfterEvents ==
  ASSUME SupervisorInv, [Next]_vars, pc = "eventsDone", pc' = "exec"
  PROVE  Resume \/ RunIdle
BY DEF Next, vars, Tick, Interrupt, Shell, SelectFile, LoadProgram, LoadFails,
       CloseMessage, CloseProgram, ProgramStep, SetTimer, PollKeys, ProgramEnds,
       FunctionReturns, FunctionSleeps, FunctionExits, FunctionFails, Break,
       ExecReturns, Events, PassSlots, DispatchKey, DispatchTimer, NoEvent, HandlerReturned, Main,
       StartSleep, SleepMore, SleepBroken, StartIdling, IdleMore, EndNormally,
       EndInCrash

\* The sleep loop resumes main(), if only main() sleeps (main.c:380-389).
THEOREM MainIsResumed ==
  ASSUME SleepyFunctions \subseteq {"main"} PROVE Spec => MainResumes
<1>1. SupervisorInv /\ [Next]_vars
        => [pc = "eventsDone" /\ pc' = "exec" /\ caller' = "main" => fn' = "main"]_vars
  <2> SUFFICES ASSUME SupervisorInv, [Next]_vars, pc = "eventsDone", pc' = "exec",
                      caller' = "main"
               PROVE  fn' = "main"
    OBVIOUS
  <2>1. Resume
    BY AfterEvents DEF RunIdle, StartIn
  <2> QED
    BY <2>1 DEF Resume, SupervisorInv, MainStays, Broken, Alive
<1> QED
  BY <1>1, Invariance, PTL DEF Spec, MainResumes

\* main() sleeps as long as it asked for, for every width of the clock and wherever it
\* wraps, unless the end of the sleep itself has wrapped (main.c:384-388).
THEOREM SleepIsLongEnough == Spec => SleepLasts
<1>1. SupervisorInv /\ [Next]_vars
        => [ loop = "sleep" /\ pc = "eventsDone" /\ pc' = "exec"
             => slept >= amx.pri \/ end < amx.pri ]_vars
  <2> SUFFICES ASSUME SupervisorInv, [Next]_vars, pc = "eventsDone", pc' = "exec",
                      loop = "sleep"
               PROVE  slept >= amx.pri \/ end < amx.pri
    OBVIOUS
  <2>1. clock >= end
    BY AfterEvents DEF Resume, RunIdle
  <2>2. machine = "nested"
    BY DEF SupervisorInv, Loops, InEvents
  <2>3. clock \in Int /\ end \in Int /\ slept \in Int
    BY DEF SupervisorInv, TypeOK
  <2>4. amx.pri \in Nat
    BY SupervisorAssumption, PriIsNat DEF SupervisorInv
  <2> QED
    BY <2>1, <2>2, <2>3, <2>4 DEF SupervisorInv, Asleep
<1> QED
  BY <1>1, Invariance, PTL DEF Spec, SleepLasts

\* What can end a program.
LEMMA AfterProgram ==
  ASSUME SupervisorInv, [Next]_vars, pc \in {"returned", "eventsDone"},
         pc' \in {"close", "message"}
  PROVE  EndNormally \/ EndInCrash
BY DEF Next, vars, Tick, Interrupt, Shell, SelectFile, LoadProgram, LoadFails,
       CloseMessage, CloseProgram, ProgramStep, SetTimer, PollKeys, ProgramEnds,
       FunctionReturns, FunctionSleeps, FunctionExits, FunctionFails, Break,
       ExecReturns, Events, PassSlots, DispatchKey, DispatchTimer, NoEvent, HandlerReturned, Main,
       StartSleep, SleepMore, Resume, SleepBroken, StartIdling, RunIdle, StartIn,
       IdleMore

\* After a failure in any function, run by any loop on either machine, nothing of the program
\* runs, and the message is about that function (main.c:388-412).
THEOREM FailuresGetReported == Spec => FailuresAreReported
<1>1. SupervisorInv /\ [Next]_vars
        => [ failed # NoFunction => /\ pc' \notin {"exec", "close"}
                                    /\ pc' = "message" => amx.cont = failed ]_vars
  <2> SUFFICES ASSUME SupervisorInv, [Next]_vars, failed # NoFunction
               PROVE  /\ pc' \notin {"exec", "close"}
                      /\ pc' = "message" => amx.cont = failed
    OBVIOUS
  <2>1. /\ pc \in {"returned", "eventsDone"} /\ status \in {"error", "abort"}
        /\ Running.cont = failed
    BY DEF SupervisorInv, FailureKept
  <2>2. pc' # "exec"
    BY <2>1
    DEF Next, vars, Tick, Interrupt, Shell, SelectFile, LoadProgram, LoadFails,
        CloseMessage, CloseProgram, ProgramStep, SetTimer, PollKeys, ProgramEnds,
        FunctionReturns, FunctionSleeps, FunctionExits, FunctionFails, Break, ExecReturns,
        Events, PassSlots, DispatchKey, DispatchTimer, NoEvent, HandlerReturned, Main,
        StartSleep, SleepMore, Resume, SleepBroken, StartIdling, RunIdle, IdleMore,
        EndNormally, EndInCrash
  <2>3. pc' \in {"close", "message"} => Ended /\ IsCrash /\ pc' = "message"
    BY <2>1, AfterProgram DEF EndNormally, EndInCrash, IsCrash
  <2>4. Ended => machine = "amx"
    BY DEF Ended, SupervisorInv, TypeOK, Loops, InEvents, InCall
  <2> QED
    BY <2>1, <2>2, <2>3, <2>4 DEF Running
<1> QED
  BY <1>1, Invariance, PTL DEF Spec, FailuresAreReported

-----------------------------------------------------------------------------
\* get_keys finds a key of the slot it is dispatched for.
LEMMA KeyOfSlot ==
  ASSUME NEW i \in 1 .. 6, \E j \in DOMAIN SlotKeys[i] : SlotKeys[i][j] \in pending
  PROVE  KeyTaken(i) \in pending /\ \E j \in DOMAIN SlotKeys[i] : KeyTaken(i) = SlotKeys[i][j]
<1> DEFINE js == {j \in DOMAIN SlotKeys[i] : SlotKeys[i][j] \in pending}
<1>1. DOMAIN SlotKeys[i] \subseteq 1 .. 3
  BY DEF SlotKeys
<1>2. js \subseteq 1 .. 3 /\ js # {}
  BY <1>1
<1> HIDE DEF js
<1>3. \E j \in js : \A k \in js : j <= k
  <2>1. \A k \in js : k = 1 \/ k = 2 \/ k = 3
    BY <1>2
  <2>2. CASE 1 \in js
    BY <2>1, <2>2
  <2>3. CASE 1 \notin js /\ 2 \in js
    BY <2>1, <2>3
  <2>4. CASE 1 \notin js /\ 2 \notin js
    <3>1. PICK j \in js : TRUE
      BY <1>2
    <3>2. \A k \in js : k = 3
      BY <2>1, <2>4
    <3> QED
      BY <3>1, <3>2
  <2> QED
    BY <2>2, <2>3, <2>4
<1>4. (CHOOSE j \in js : \A k \in js : j <= k) \in js
  BY <1>3
<1>5. KeyTaken(i) = SlotKeys[i][CHOOSE j \in js : \A k \in js : j <= k]
  BY DEF KeyTaken, js
<1> QED
  BY <1>4, <1>5 DEF js

\* The event loop takes one key for one call of its handler (amx_menu.c:34-88).
THEOREM KeysGoToHandlers == Spec => KeysTakenForHandlers
<1>1. SupervisorInv /\ [Next]_vars
        => [ pc = "events" /\ pending \ pending' # {}
             => pc' = "exec" /\ OneKeyForOneCall ]_vars
  <2> SUFFICES ASSUME SupervisorInv, [Next]_vars, pc = "events", pending \ pending' # {}
               PROVE  pc' = "exec" /\ OneKeyForOneCall
    OBVIOUS
  <2>1. DispatchKey
    BY DEF Next, vars, keyVars, Tick, Interrupt, Buffer!Press, Shell, SelectFile,
           LoadProgram, LoadFails, CloseMessage, CloseProgram, ProgramStep, SetTimer,
           PollKeys, ProgramEnds, FunctionReturns, FunctionSleeps, FunctionExits,
           FunctionFails, Break, ExecReturns, Events, PassSlots, DispatchTimer, NoEvent,
           HandlerReturned, Main, StartSleep, SleepMore, Resume, SleepBroken,
           StartIdling, RunIdle, IdleMore, EndNormally, EndInCrash, Ended
  <2>2. PICK i \in ReadySlots : /\ pending' = pending \ {KeyTaken(i)}
                                /\ pc' = "exec" /\ fn' = MenuSlots[i]
    BY <2>1 DEF DispatchKey, StartIn, Buffer!Take, TakenFor
  <2>3. /\ i \in 1 .. 6
        /\ \E j \in DOMAIN SlotKeys[i] : SlotKeys[i][j] \in pending
    <3>1. slot \in 1 .. 7
      BY EventNames DEF SupervisorInv, TypeOK
    <3> QED
      BY <3>1, EventNames DEF ReadySlots
  <2>4. KeyTaken(i) \in pending /\ \E j \in DOMAIN SlotKeys[i] : KeyTaken(i) = SlotKeys[i][j]
    BY <2>3, KeyOfSlot
  <2>5. pending \ pending' = {KeyTaken(i)}
    BY <2>2, <2>4
  <2>6. DOMAIN SlotKeys = 1 .. 6
    BY DEF SlotKeys
  <2>7. KeyTaken(i) \in ANY_KEY
    BY <2>3, <2>4, <2>6 DEF ANY_KEY
  <2> QED
    BY <2>2, <2>3, <2>4, <2>5, <2>7, EventNames DEF OneKeyForOneCall
<1> QED
  BY <1>1, Invariance, PTL DEF Spec, KeysTakenForHandlers

\* The round of doevents goes forward to its end (amx_menu.c:26-91).
THEOREM RoundsGoForward == Spec => EachHandlerOnce
<1>1. SupervisorInv /\ [Next]_vars
        => [ /\ slot' < slot => pc' = "eventsDone"
             /\ pc = "events" /\ pc' = "exec" /\ caller' = "menu"
                  => slot' > slot /\ fn' = MenuSlots[slot' - 1] ]_vars
  <2> SUFFICES ASSUME SupervisorInv, Next
               PROVE  /\ slot' < slot => pc' = "eventsDone"
                      /\ pc = "events" /\ pc' = "exec" /\ caller' = "menu"
                           => slot' > slot /\ fn' = MenuSlots[slot' - 1]
    OBVIOUS
  <2>1. slot \in 1 .. 7
    BY EventNames DEF SupervisorInv, TypeOK
  <2>2. CASE DispatchKey
    <3>1. PICK i \in ReadySlots : /\ fn' = MenuSlots[i] /\ slot' = i + 1 /\ pc' = "exec"
      BY <2>2 DEF DispatchKey, StartIn, NextSlot
    <3>2. i \in slot .. 6
      BY EventNames DEF ReadySlots
    <3> QED
      BY <2>1, <3>1, <3>2
  <2>3. CASE DispatchTimer
    BY <2>1, <2>3 DEF DispatchTimer, StartIn, loopVars
  <2>4. CASE NoEvent \/ HandlerReturned
    BY <2>1, <2>4 DEF NoEvent, HandlerReturned
  <2>6. CASE PassSlots
    <3>1. slot' > slot /\ pc' = pc
      BY <2>1, <2>6, EventNames DEF PassSlots
    <3> QED
      BY <2>1, <2>6, <3>1 DEF PassSlots
  <2>5. CASE ~(PassSlots \/ DispatchKey \/ DispatchTimer \/ NoEvent \/ HandlerReturned)
    <3>1. slot' = slot /\ (pc = "events" => pc' = "events")
      BY <2>5 DEF Next, loopVars, Tick, Interrupt, Shell, SelectFile, LoadProgram,
         LoadFails, CloseMessage, CloseProgram, ProgramStep, SetTimer, PollKeys,
         ProgramEnds, FunctionReturns, FunctionSleeps, FunctionExits, FunctionFails, Break,
         ExecReturns, Events, Main, StartSleep, SleepMore, Resume, SleepBroken,
         StartIdling, RunIdle, IdleMore, EndNormally, EndInCrash, Ended
    <3> QED
      BY <2>1, <3>1
  <2> QED
    BY <2>2, <2>3, <2>4, <2>5, <2>6
<1> QED
  BY <1>1, Invariance, PTL DEF Spec, EachHandlerOnce

-----------------------------------------------------------------------------
(* The supervisor's use of the key buffer *)

\* The interrupt only adds keys to the buffer, and whoever takes some takes them in one
\* step: what holds of KeyBuffer may be used here, and Keys may stand in for it.
THEOREM SupervisorUsesBuffer == Spec => UsesBuffer
<1>1. Init => Buffer!KBInit
  BY DEF Init
<1>2. SupervisorInv /\ [Next]_vars => [Buffer!KBNext]_(Buffer!kbVars)
  <2> SUFFICES ASSUME SupervisorInv, [Next]_vars
               PROVE  Buffer!KBNext \/ UNCHANGED <<pending, out>>
    BY DEF Buffer!kbVars
  <2>1. UserKeys \subseteq ANY_KEY
    BY SupervisorAssumption
  <2>2. CASE Tick
    <3>1. PICK down \in SUBSET UserKeys : \E presses \in SUBSET Flaggable(down) :
                 Buffer!Press(presses)
      BY <2>2 DEF Tick, Interrupt
    <3>2. Flaggable(down) \subseteq ANY_KEY
      BY <2>1, <3>1 DEF Flaggable, SupervisorInv, TypeOK
    <3> QED
      BY <3>1, <3>2 DEF Buffer!KBNext
  <2>3. ASSUME Buffer!Take(ANY_KEY) PROVE Buffer!KBNext
    BY <2>3 DEF Buffer!KBNext
  <2>4. CASE CloseProgram
    <3>1. "BUTTON1" \in ANY_KEY
      BY DEF ANY_KEY, SlotKeys
    <3> QED
      BY <2>4, <3>1 DEF CloseProgram, Buffer!KBNext
  <2>5. ASSUME NEW k \in UserKeys, PollKeys(k) PROVE Buffer!KBNext
    BY <2>1, <2>5 DEF PollKeys, Buffer!KBNext
  <2>6. CASE DispatchKey
    <3>1. PICK i \in ReadySlots : Buffer!Take(TakenFor(i))
      BY <2>6 DEF DispatchKey
    <3>2. i \in 1 .. 6 /\ \E j \in DOMAIN SlotKeys[i] : SlotKeys[i][j] \in pending
      <4>1. slot \in 1 .. 7
        BY EventNames DEF SupervisorInv, TypeOK
      <4> QED
        BY <4>1, EventNames DEF ReadySlots
    <3>3. KeyTaken(i) \in pending
      BY <3>2, KeyOfSlot
    <3>4. TakenFor(i) \subseteq ANY_KEY
      BY <2>1, <3>3 DEF TakenFor, SupervisorInv, TypeOK
    <3> QED
      BY <3>1, <3>4 DEF Buffer!KBNext
  <2>7. CASE (\E p \in Programs : SelectFile(p)) \/ LoadFails \/ CloseMessage \/ EndInCrash
    BY <2>3, <2>7 DEF SelectFile, LoadFails, CloseMessage, EndInCrash
  <2> QED
    BY <2>2, <2>4, <2>5, <2>6, <2>7
    DEF Next, vars, keyVars, Shell, LoadProgram, ProgramStep, SetTimer, ProgramEnds,
        FunctionReturns, FunctionSleeps, FunctionExits, FunctionFails, Break, ExecReturns,
        Events, PassSlots, DispatchTimer, NoEvent, HandlerReturned, Main, StartSleep, SleepMore,
        Resume, SleepBroken, StartIdling, RunIdle, IdleMore, EndNormally
<1> QED
  BY <1>1, <1>2, Invariance, PTL DEF Spec, UsesBuffer, Buffer!KBSpec
=============================================================================
