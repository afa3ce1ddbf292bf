----------------------------- MODULE Supervisor -----------------------------
(***************************************************************************)
(* Runtime/main.c, amx_menu.c, amx_time.c and msgbox.c: the loop that      *)
(* picks a program, runs its main(), dispatches key and timer events to    *)
(* its public functions while main() sleeps or after it has returned, and  *)
(* reports how it ended; and the part of the timer interrupt (TimerTick)   *)
(* by which the user aborts a program that hangs.                          *)
(*                                                                         *)
(* A program is the set of the public functions it defines.  What its code *)
(* does is external: while a function runs it may set the timer, poll the  *)
(* keys, and return, sleep, exit, fail, or run on.  The key buffer is the  *)
(* abstract one of module KeyBuffer, which module Keys implements.         *)
(***************************************************************************)
EXTENDS Integers, Sequences

CONSTANTS
  Programs,          \* the programs on the disk: sets of public functions
  UserKeys,          \* the keys the user plays with
  W, WRAPS,          \* as in module Keys: width of the clock, and its wrap
  HOOK_MS,           \* 3000 ms in TimerTick
  Outcomes,          \* how functions end: of "return", "sleep", "exit", "fail"
  SleepyFunctions,   \* the functions that may execute the sleep instruction
  ExitingFunctions,  \* the functions that may execute the exit instruction
  HangingFunctions,  \* the functions that may never end by themselves
  SleepTimes, Periods, ExitCodes

VARIABLES
  clock,             \* TICKCOUNT
  held, heldFor,     \* KEYS_DOWN; ms it has been BUTTON4, up to HOOK_MS + 2
  pending, out,      \* the key buffer
  pc,                \* where main() is
  prog,              \* the program loaded
  handlers,          \* the b1_func .. s2_func and timer_func that are not -1
  amx, nested,       \* the AMX and its copy nested_amx
  machine,           \* which of the two doevents() was given
  fn,                \* the function amx_Exec is running
  caller,            \* who called amx_Exec: "main", "menu", "timer" or "idle"
  loop,              \* the loop doevents() was called from: "sleep" or "idle"
  slot,              \* how far amx_menu_doevents has got
  status, ret,       \* the locals of main()
  end,               \* when the sleep is over
  timer_period, timer_last_tick,
  slept,             \* ghost: how long main() has slept, in ms, up to W-1
  failed             \* ghost: the function of this program that has failed

keyVars   == <<held, heldFor, pending, out>>
progVars  == <<prog, handlers>>
vmVars    == <<amx, nested, machine, fn, caller>>
loopVars  == <<loop, slot, status, ret, end, slept>>
timerVars == <<timer_period, timer_last_tick>>
vars == <<clock, keyVars, pc, progVars, vmVars, loopVars, timerVars, failed>>

\* amx_menu_doevents looks at the handlers in this order, and for each at its
\* keys in this order.
MenuSlots == <<"@button1", "@button2", "@button3", "@button4",
               "@scroll1", "@scroll2">>
SlotKeys == <<
  <<"BUTTON1">>, <<"BUTTON2">>, <<"BUTTON3">>, <<"BUTTON4">>,
  <<"SCROLL1_PRESS", "SCROLL1_LEFT", "SCROLL1_RIGHT">>,
  <<"SCROLL2_PRESS", "SCROLL2_LEFT", "SCROLL2_RIGHT">> >>
ANY_KEY == UNION {{SlotKeys[i][j] : j \in DOMAIN SlotKeys[i]} :
                  i \in DOMAIN SlotKeys}
EventFunctions == {MenuSlots[i] : i \in DOMAIN MenuSlots} \union {"@timertick"}
Functions == EventFunctions \union {"main", "@idle"}

ASSUME SupervisorAssumption ==
  /\ \A p \in Programs : p \subseteq Functions \ {"main"}
  /\ UserKeys \subseteq ANY_KEY
  /\ W \in Nat \ {0, 1} /\ WRAPS \in BOOLEAN
  /\ HOOK_MS \in Nat
  /\ Outcomes \subseteq {"return", "sleep", "exit", "fail"}
  /\ SleepyFunctions \union ExitingFunctions \union HangingFunctions
       \subseteq Functions
  /\ SleepTimes \subseteq 0 .. W-1 /\ Periods \subseteq 0 .. W-1
  /\ ExitCodes \subseteq Nat

Buffer == INSTANCE KeyBuffer WITH Keys <- ANY_KEY

NoFunction == "none"
BlankAmx == [debug |-> FALSE, cont |-> NoFunction, pri |-> 0]

Init ==
  /\ clock = 0 /\ held = {} /\ heldFor = 0
  /\ Buffer!KBInit
  /\ pc = "select" /\ prog = {} /\ handlers = {}
  /\ amx = BlankAmx /\ nested = BlankAmx /\ machine = "amx"
  /\ fn = NoFunction /\ caller = "main"
  /\ loop = "sleep" /\ slot = 1 /\ status = "ok" /\ ret = 0 /\ end = 0
  /\ timer_period = 0 /\ timer_last_tick = 0
  /\ slept = 0 /\ failed = NoFunction

-----------------------------------------------------------------------------
(* The timer interrupt *)

\* (Names ending in _BugN are faulty variants of the definition after them;
\* README.md says which property notices each.)

\* TimerTick: BUTTON4 alone, held long enough, installs the debug hook in the
\* global AMX.  (ABORT, raised half a second later, is part of module Capture:
\* only wavein_start and wavein_read look at it.)
TimerTick_Bug1(down, ms) ==   \* only at one instant
  /\ amx' = IF down = {"BUTTON4"} /\ ms = HOOK_MS + 1
              THEN [amx EXCEPT !.debug = TRUE] ELSE amx
TimerTick(down, ms) ==
  /\ amx' = IF down = {"BUTTON4"} /\ ms > HOOK_MS
              THEN [amx EXCEPT !.debug = TRUE] ELSE amx

Interrupt(down, presses) ==
  LET ms == IF down # held \/ down # {"BUTTON4"} THEN 0
            ELSE IF heldFor > HOOK_MS + 1 THEN heldFor ELSE heldFor + 1
  IN  /\ WRAPS \/ clock + 1 < W
      /\ clock' = (clock + 1) % W
      /\ held' = down /\ heldFor' = ms
      /\ Buffer!Press(presses)
      /\ TimerTick(down, ms)
      /\ slept' = IF machine = "nested" /\ slept < W-1 THEN slept + 1 ELSE slept
      /\ UNCHANGED <<pc, progVars, nested, machine, fn, caller, loop, slot, status,
                     ret, end, timerVars, failed>>

\* Which presses TIM3_IRQHandler may flag: theorem BouncesAreNotFlagged of
\* module KeysProofs (keys that were up at the last tick, and scrollers).
Scrollers == {"SCROLL1_LEFT", "SCROLL1_RIGHT", "SCROLL2_LEFT", "SCROLL2_RIGHT"}
Flaggable(down) == (down \ held) \union (down \intersect Scrollers)

Tick == \E down \in SUBSET UserKeys :
          \E presses \in SUBSET Flaggable(down) : Interrupt(down, presses)

-----------------------------------------------------------------------------
(* Choosing and loading a program *)

\* select_file returns when BUTTON1 has been pressed; then get_keys(ANY_KEY).
SelectFile(p) ==
  /\ pc = "select" /\ "BUTTON1" \in pending
  /\ Buffer!Take(ANY_KEY)
  /\ prog' = p /\ pc' = "load"
  /\ UNCHANGED <<clock, held, heldFor, handlers, vmVars, loopVars, timerVars, failed>>

\* amxinit_menu and amxinit_time look the event handlers up in the new program.
EventHandlers_Bug1(p) == handlers \union (p \intersect EventFunctions)
EventHandlers(p) == p \intersect EventFunctions

\* loadprogram clears amx and initialises the libraries; main() is started.
LoadProgram ==
  /\ pc = "load" /\ pc' = "exec"
  /\ handlers' = EventHandlers(prog)
  /\ amx' = [BlankAmx EXCEPT !.cont = "main"]
  /\ machine' = "amx" /\ fn' = "main" /\ caller' = "main"
  /\ UNCHANGED <<clock, keyVars, prog, nested, loopVars, timerVars, failed>>

\* A file that cannot be read, is no program or needs a missing native function.
LoadFails ==
  /\ pc = "load" /\ pc' = "message"
  /\ Buffer!Take(ANY_KEY)
  /\ UNCHANGED <<clock, held, heldFor, progVars, vmVars, loopVars, timerVars, failed>>

\* show_msgbox, at its end: each of the four buttons has a title, if only " ".
CloseMessage ==
  /\ pc = "message" /\ {"BUTTON1", "BUTTON2", "BUTTON3", "BUTTON4"} \intersect pending # {}
  /\ Buffer!Take(ANY_KEY)
  /\ pc' = "select"
  /\ UNCHANGED <<clock, held, heldFor, progVars, vmVars, loopVars, timerVars, failed>>

\* while (!get_keys(BUTTON1));
CloseProgram ==
  /\ pc = "close" /\ "BUTTON1" \in pending
  /\ Buffer!Take({"BUTTON1"})
  /\ pc' = "select"
  /\ UNCHANGED <<clock, held, heldFor, progVars, vmVars, loopVars, timerVars, failed>>

-----------------------------------------------------------------------------
(* The program's code, running in amx_Exec *)

Running == IF machine = "amx" THEN amx ELSE nested

\* set_timer
SetTimer(p) ==
  /\ pc = "exec"
  /\ timer_period' = p /\ timer_last_tick' = clock
  /\ UNCHANGED <<clock, keyVars, pc, progVars, vmVars, loopVars, failed>>

\* The program reads keys itself.
PollKeys(k) ==
  /\ pc = "exec" /\ k \in pending
  /\ Buffer!Take({k})
  /\ UNCHANGED <<clock, held, heldFor, pc, progVars, vmVars, loopVars, timerVars, failed>>

\* amx_Exec returns st.  The HALT instruction also stores PRI in the caller's
\* retval, which is main()'s ret only when main() itself is the caller.
ExecReturns(st, halted, value) ==
  /\ pc = "exec" /\ pc' = "returned"
  /\ status' = st
  /\ ret' = IF halted /\ caller \in {"main", "idle"} THEN value ELSE ret
  /\ LET m == [Running EXCEPT !.pri = IF halted THEN value ELSE @]
     IN  IF machine = "amx" THEN amx' = m /\ UNCHANGED nested
                            ELSE nested' = m /\ UNCHANGED amx
  /\ failed' = IF st \in {"error", "abort"} THEN fn ELSE failed
  /\ UNCHANGED <<clock, keyVars, progVars, machine, fn, caller, loop, slot, end, slept,
                 timerVars>>

FunctionReturns == \E r \in {0, 1} :
  "return" \in Outcomes /\ ExecReturns("ok", TRUE, r)
FunctionSleeps == \E d \in SleepTimes :
  /\ "sleep" \in Outcomes /\ fn \in SleepyFunctions
  /\ ExecReturns("sleep", TRUE, d)
FunctionExits == \E c \in ExitCodes :
  /\ "exit" \in Outcomes /\ fn \in ExitingFunctions
  /\ ExecReturns("exit", TRUE, c)
FunctionFails == "fail" \in Outcomes /\ ExecReturns("error", FALSE, 0)

\* The BREAK instruction before every statement calls the debug hook, if the
\* machine that runs has one.
Break == Running.debug /\ ExecReturns("abort", FALSE, 0)

\* Start function f in the machine given to doevents.
StartIn(who, f, from) ==
  /\ pc' = "exec" /\ fn' = f /\ caller' = from /\ machine' = who
  /\ IF who = "amx"
       THEN amx' = [amx EXCEPT !.cont = f] /\ UNCHANGED nested
       ELSE nested' = [nested EXCEPT !.cont = f] /\ UNCHANGED amx

-----------------------------------------------------------------------------
(* doevents: amx_menu_doevents, then amx_timer_doevents *)

\* The slots not yet passed whose handler exists and has a key waiting.
ReadySlots ==
  {i \in slot .. Len(MenuSlots) :
     /\ MenuSlots[i] \in handlers
     /\ \E j \in DOMAIN SlotKeys[i] : SlotKeys[i][j] \in pending}

\* The key get_keys takes for slot i.
KeyTaken(i) ==
  LET js == {j \in DOMAIN SlotKeys[i] : SlotKeys[i][j] \in pending}
  IN  SlotKeys[i][CHOOSE j \in js : \A k \in js : j <= k]

\* What get_keys removes when slot i is dispatched.
TakenFor_Bug1(i) == ANY_KEY
TakenFor(i) == {KeyTaken(i)}

NextSlot_Bug1(i) == 1
NextSlot(i) == i + 1

\* Each slot is polled by a get_keys of its own: keys that come after it has been passed
\* wait for the next round.  (Only slots that have a handler are told apart.)
PassSlots ==
  /\ pc = "events"
  /\ \E i \in slot+1 .. Len(MenuSlots)+1 :
       /\ MenuSlots[i-1] \in handlers
       /\ \A k \in ReadySlots : i <= k
       /\ slot' = i
  /\ UNCHANGED <<clock, keyVars, pc, progVars, vmVars, loop, status, ret, end, slept,
                 timerVars, failed>>

DispatchKey ==
  /\ pc = "events"
  /\ \E i \in ReadySlots :
       /\ \A k \in ReadySlots : i <= k
       /\ Buffer!Take(TakenFor(i))
       /\ StartIn(machine, MenuSlots[i], "menu")
       /\ slot' = NextSlot(i)
  /\ UNCHANGED <<clock, held, heldFor, progVars, loop, status, ret, end, slept,
                 timerVars, failed>>

TimerDue ==
  /\ "@timertick" \in handlers /\ timer_period # 0
  /\ (clock - timer_last_tick) % W >= timer_period

DispatchTimer ==
  /\ pc = "events" /\ ReadySlots = {} /\ TimerDue
  /\ StartIn(machine, "@timertick", "timer")
  /\ UNCHANGED <<clock, keyVars, progVars, loopVars, timerVars, failed>>

NoEvent ==
  /\ pc = "events" /\ ReadySlots = {} /\ ~TimerDue
  /\ pc' = "eventsDone" /\ status' = "ok" /\ slot' = 1
  /\ UNCHANGED <<clock, keyVars, progVars, vmVars, loop, ret, end, slept,
                 timerVars, failed>>

\* A handler came back: an error ends doevents, a key handler lets it go on.
HandlerReturned ==
  /\ pc = "returned" /\ caller \in {"menu", "timer"}
  /\ IF status # "ok" \/ caller = "timer"
       THEN pc' = "eventsDone" /\ slot' = 1
       ELSE pc' = "events" /\ UNCHANGED slot
  /\ UNCHANGED <<clock, keyVars, progVars, vmVars, loop, status, ret, end, slept,
                 timerVars, failed>>

-----------------------------------------------------------------------------
(* main(): sleeping and idling *)

\* What nested_amx gives doevents.
SleepMachine_Bug1 == "amx"
SleepMachine == "nested"

\* get_time() + amx.pri
SleepEnd_Bug1 == amx.pri
SleepEnd == (clock + amx.pri) % W

\* nested_amx and end are locals of the body of the while.
SleepBlockLeft == nested' = BlankAmx /\ machine' = "amx" /\ end' = 0 /\ slept' = 0

\* "AMX nested_amx = amx": handlers run on the copy.
StartSleep ==
  /\ pc = "returned" /\ caller = "main" /\ status = "sleep"
  /\ nested' = amx /\ machine' = SleepMachine
  /\ end' = SleepEnd /\ slept' = 0
  /\ pc' = "events" /\ loop' = "sleep"
  /\ UNCHANGED <<clock, keyVars, progVars, amx, fn, caller, slot, status, ret,
                 timerVars, failed>>

SleepMore ==
  /\ pc = "eventsDone" /\ loop = "sleep" /\ status = "ok" /\ clock < end
  /\ pc' = "events"
  /\ UNCHANGED <<clock, keyVars, progVars, vmVars, loopVars, timerVars, failed>>

\* amx_Exec(&amx, &ret, AMX_EXEC_CONT)
Resume ==
  /\ pc = "eventsDone" /\ loop = "sleep" /\ status = "ok" /\ clock >= end
  /\ pc' = "exec" /\ fn' = amx.cont /\ caller' = "main"
  /\ SleepBlockLeft
  /\ UNCHANGED <<clock, keyVars, progVars, amx, loop, slot, status, ret,
                 timerVars, failed>>

\* "amx = nested_amx; // Report errors properly", and back to the while.
SleepBroken_Bug1 ==   \* amx stays what it was when main() went to sleep
  /\ pc = "eventsDone" /\ loop = "sleep" /\ status # "ok"
  /\ pc' = "returned" /\ caller' = "main"
  /\ SleepBlockLeft
  /\ UNCHANGED <<clock, keyVars, progVars, amx, fn, loop, slot, status, ret,
                 timerVars, failed>>
SleepBroken ==
  /\ pc = "eventsDone" /\ loop = "sleep" /\ status # "ok"
  /\ amx' = nested /\ pc' = "returned" /\ caller' = "main"
  /\ SleepBlockLeft
  /\ UNCHANGED <<clock, keyVars, progVars, fn, loop, slot, status, ret,
                 timerVars, failed>>

StartIdling ==
  /\ pc = "returned" /\ caller = "main" /\ status = "ok" /\ "@idle" \in prog
  /\ pc' = "events" /\ loop' = "idle"
  /\ UNCHANGED <<clock, keyVars, progVars, vmVars, slot, status, ret, end, slept,
                 timerVars, failed>>

RunIdle ==
  /\ pc = "eventsDone" /\ loop = "idle" /\ status = "ok"
  /\ StartIn("amx", "@idle", "idle")
  /\ UNCHANGED <<clock, keyVars, progVars, loopVars, timerVars, failed>>

IdleMore ==
  /\ pc = "returned" /\ caller = "idle" /\ status = "ok" /\ ret # 0
  /\ pc' = "events"
  /\ UNCHANGED <<clock, keyVars, progVars, vmVars, loopVars, timerVars, failed>>

\* The program has ended, in whatever way: main() reached the end of both loops.
Ended ==
  \/ pc = "returned" /\ caller = "main" /\ status # "sleep"
       /\ ~(status = "ok" /\ "@idle" \in prog)
  \/ pc = "returned" /\ caller = "idle" /\ ~(status = "ok" /\ ret # 0)
  \/ pc = "eventsDone" /\ loop = "idle" /\ status # "ok"

\* "Ignore exit(0), but inform about e.g. exit(1)"
IsCrash == status # "ok" /\ ~(status = "exit" /\ ret = 0)

\* status and ret are locals of the body of main()'s loop.
ProgramOver ==
  /\ fn' = NoFunction /\ caller' = "main"
  /\ loop' = "sleep" /\ status' = "ok" /\ ret' = 0 /\ failed' = NoFunction

EndNormally ==
  /\ Ended /\ ~IsCrash
  /\ pc' = "close"
  /\ ProgramOver
  /\ UNCHANGED <<clock, keyVars, progVars, amx, nested, machine, slot, end, slept,
                 timerVars>>

\* show_pawn_traceback ends in a message box.
EndInCrash ==
  /\ Ended /\ IsCrash
  /\ pc' = "message"
  /\ Buffer!Take(ANY_KEY)
  /\ ProgramOver
  /\ UNCHANGED <<clock, held, heldFor, progVars, amx, nested, machine, slot, end, slept,
                 timerVars>>

-----------------------------------------------------------------------------
Shell == (\E p \in Programs : SelectFile(p)) \/ LoadProgram \/ LoadFails
         \/ CloseMessage \/ CloseProgram

ProgramStep == (\E p \in Periods : SetTimer(p)) \/ (\E k \in UserKeys : PollKeys(k))
ProgramEnds == FunctionReturns \/ FunctionSleeps \/ FunctionExits \/ FunctionFails

Events == PassSlots \/ DispatchKey \/ DispatchTimer \/ NoEvent \/ HandlerReturned

Main == StartSleep \/ SleepMore \/ Resume \/ SleepBroken \/ StartIdling
        \/ RunIdle \/ IdleMore \/ EndNormally \/ EndInCrash

Next == Tick \/ Shell \/ ProgramStep \/ ProgramEnds \/ Break \/ Events \/ Main

Spec == Init /\ [][Next]_vars

\* The timer does not stop and the main loop is never starved.  Functions that
\* do not hang end; a function that hangs still executes BREAK instructions.
\* The sleep loop goes round many times in each millisecond, so it does
\* not for ever look away whenever the sleep is over.
Fairness ==
  /\ WF_vars(Tick)
  /\ WF_vars(LoadProgram \/ LoadFails) /\ WF_vars(Events)
  /\ WF_vars(Main) /\ SF_vars(Resume)
  /\ SF_vars(loop = "sleep" /\ clock >= end /\ NoEvent)
  /\ WF_vars(fn \notin HangingFunctions /\ ProgramEnds)
  /\ SF_vars(Break)

FairSpec == Spec /\ Fairness

-----------------------------------------------------------------------------
(* Properties *)

Amxs == [debug : BOOLEAN, cont : Functions \union {NoFunction},
         pri : 0 .. W-1 \union ExitCodes \union {0, 1}]

TypeOK ==
  /\ clock \in 0 .. W-1 /\ held \in SUBSET UserKeys /\ heldFor \in 0 .. HOOK_MS+2
  /\ pending \in SUBSET UserKeys /\ out \in SUBSET UserKeys
  /\ pc \in {"select", "load", "message", "exec", "returned", "events",
             "eventsDone", "close"}
  /\ prog \in Programs \union {{}} /\ handlers \in SUBSET EventFunctions
  /\ amx \in Amxs /\ nested \in Amxs /\ machine \in {"amx", "nested"}
  /\ fn \in Functions \union {NoFunction}
  /\ caller \in {"main", "menu", "timer", "idle"} /\ loop \in {"sleep", "idle"}
  /\ slot \in 1 .. Len(MenuSlots) + 1
  /\ status \in {"ok", "sleep", "exit", "error", "abort"}
  /\ ret \in 0 .. W-1 \union ExitCodes \union {0, 1} /\ end \in 0 .. W-1
  /\ timer_period \in 0 .. W-1 /\ timer_last_tick \in 0 .. W-1
  /\ slept \in 0 .. W-1 /\ failed \in Functions \union {NoFunction}

\* The function that runs is one the loaded program defines: no event handler
\* looked up in an earlier program is ever called (amx_menu.c:100-116,
\* amx_time.c:52-53 against the static variables they fill).
HandlersOfThisProgram == pc = "exec" => fn \in prog \union {"main"}

OneKeyForOneCall ==
  \E i \in DOMAIN MenuSlots, k \in ANY_KEY :
    /\ MenuSlots[i] = fn' /\ k \in {SlotKeys[i][j] : j \in DOMAIN SlotKeys[i]}
    /\ pending \ pending' = {k}

\* The event loop takes a key only to call its handler, one key for one call; a
\* key without a handler stays for the program to poll (amx_menu.c:34-88; the
\* two approaches share one buffer, buttons.inc:4-11).
KeysTakenForHandlers ==
  [][ pc = "events" /\ pending \ pending' # {} => pc' = "exec" /\ OneKeyForOneCall ]_vars

\* What the sleep loop resumes is main(), wherever handlers have been run since
\* it went to sleep (main.c:380-389).
MainResumes ==
  [][pc = "eventsDone" /\ pc' = "exec" /\ caller' = "main" => fn' = "main"]_vars

\* main() sleeps at least as long as it asked for, with handlers running meanwhile and
\* the clock wrapping round; only where get_time() + amx.pri itself wraps may the sleep
\* end early (main.c:384-388).
SleepLasts ==
  [][ loop = "sleep" /\ pc = "eventsDone" /\ pc' = "exec"
      => slept >= amx.pri \/ end < amx.pri ]_vars

\* "Report errors properly" (main.c:389): once a function has failed or been aborted, in
\* whichever machine and whoever called it, nothing of the program runs again, the program
\* does not end as if all were well, and the message is about the function that failed.
FailuresAreReported ==
  [][ failed # NoFunction => /\ pc' \notin {"exec", "close"}
                             /\ pc' = "message" => amx.cont = failed ]_vars

\* In one round of doevents each handler is called at most once, in their order: however
\* many keys come while handlers run, the round does not go back, so it ends and the
\* timer has its turn (amx_menu.c:26-91, the measure under EventServed).
EachHandlerOnce ==
  [][ /\ slot' < slot => pc' = "eventsDone"
      /\ pc = "events" /\ pc' = "exec" /\ caller' = "menu"
           => slot' > slot /\ fn' = MenuSlots[slot' - 1] ]_vars

\* All that supervisor, program and interrupt do to the key buffer are the operations
\* of KeyBuffer, which Keys implements.
UsesBuffer == Buffer!KBSpec

\* A user who goes on holding BUTTON4 gets out of a program that hangs: whatever copies are
\* made meanwhile, the hook reaches the machine that runs and the program ends
\* (main.c:62-76, 380-390).  All that escapes is an event handler that hangs on a copy of
\* the AMX made before the hook was there.
UserCanAbort ==
  <>[](held = {"BUTTON4"}) => \/ <>[](pc \in {"select", "message", "close"})
                              \/ <>[](pc = "exec" /\ machine = "nested" /\ ~nested.debug)

\* While main() has ended and the program idles, a key with a handler is not starved by
\* other keys, unless a function never ends (amx_menu.c:26-91, main.c:392-401).
EventServed ==
  \A i \in {j \in DOMAIN MenuSlots :
            \E k \in DOMAIN SlotKeys[j] : SlotKeys[j][k] \in UserKeys} :
    LET ready == \E k \in DOMAIN SlotKeys[i] : SlotKeys[i][k] \in pending
    IN  \/ <>[](pc = "exec")
        \/ (loop = "idle" /\ pc = "events" /\ MenuSlots[i] \in handlers /\ ready)
              ~> (~ready \/ fn = MenuSlots[i] \/ pc \in {"message", "close"})
=============================================================================
