------------------------------ MODULE Overlays ------------------------------
(***************************************************************************)
(* Runtime/amx_overlays.c with its callers: programs larger than the       *)
(* memory are cut into overlays, loaded into the pool when a call, a       *)
(* return or a jump enters them.  overlay_callback finds an overlay in a   *)
(* small cache of block pointers, in the pool, or on the disk; the         *)
(* instructions CALL.OVL, RETN.OVL and SWITCH.OVL then jump to amx->code.  *)
(*                                                                         *)
(* The pool is that of module OverlayStore, which OverlayPool implements:  *)
(* to load an overlay it evicts any of its blocks and gives an address     *)
(* that none of the others has, as one step, for nobody looks in between.  *)
(* What the program executes is external.                                  *)
(***************************************************************************)
EXTENDS Integers, Sequences

CONSTANTS
  Count,       \* how many overlays the program has
  CACHESIZE,
  Addresses,   \* where in the pool a block may begin
  NULL,
  FileMayFail, \* whether the file may be found changed, short, or garbled
  MaxDepth     \* bound on the depth of calls

VARIABLES
  cache,       \* the cache entries
  pool,        \* address -> the overlay whose block begins there, or Free
  memory,      \* address -> the overlay whose verified code is there, or Raw
  amx,         \* code, overlay index and return stack of the AMX, and of
  nested,      \*   the copy that handlers run on while main() sleeps
  tooLarge,    \* the overlays of the program that do not fit the pool
  loaded,      \* how many overlays amx_Init has loaded
  pc           \* "load", "main", "sleep", "handler", "idle", "idlehandler", "ended"

storeVars == <<cache, pool, memory>>
vars == <<storeVars, amx, nested, tooLarge, loaded, pc>>

Overlay == 0 .. Count - 1
Raw  == -1

ASSUME OverlaysAssumption ==
  /\ Count \in Nat \ {0} /\ CACHESIZE \in Nat \ {0} /\ MaxDepth \in Nat
  /\ NULL \notin Addresses
  /\ FileMayFail \in BOOLEAN

Store == INSTANCE OverlayStore WITH Overlays <- Overlay

NoEntry  == [index |-> 0, code |-> NULL]
BlankAmx == [code |-> NULL, ovl |-> 0, stack |-> <<>>]

\* memset(cache, 0, sizeof(cache))
EmptyCache == [k \in 0 .. CACHESIZE-1 |-> NoEntry]

\* What a program that is being loaded finds: amx_poolinit, overlay_init.
Fresh ==
  /\ cache' = EmptyCache
  /\ Store!Clear /\ memory' = [a \in Addresses |-> Raw]

Init ==
  /\ cache = EmptyCache
  /\ Store!StoreInit /\ memory = [a \in Addresses |-> Raw]
  /\ amx = BlankAmx /\ nested = BlankAmx /\ loaded = 0 /\ pc = "load"
  /\ tooLarge \in SUBSET Overlay

-----------------------------------------------------------------------------
(* overlay_callback *)

\* (Names ending in _BugN are faulty variants of the definition after them;
\* README.md says which property notices each.)

\* index & (CACHESIZE - 1)
Slot(i) == i % CACHESIZE

Hit_Bug1(i) == cache[Slot(i)].code # NULL   \* the index is not compared
Hit(i) == cache[Slot(i)].index = i /\ cache[Slot(i)].code # NULL

\* "Unfortunately we have to clear the cache as poolalloc may have released some
\* blocks."
CacheAfterAlloc_Bug1 == cache   \* it is not cleared
CacheAfterAlloc == EmptyCache

\* overlay_callback_full when the overlay has to be read from the file: it is
\* loaded at a, or there is a fault and the block at a holds something else.
LoadFromFile(i, code, ok) ==
  \/ /\ i \in tooLarge
     /\ code = NULL /\ ok = FALSE
     /\ cache' = [cache EXCEPT ![Slot(i)] = [index |-> i, code |-> NULL]]
     /\ UNCHANGED <<pool, memory>>
  \/ /\ i \notin tooLarge
     /\ \E p \in Store!Placements :
          /\ code = p[2] /\ pool' = Store!Placed(i, p[1], code)
          /\ \/ ok = TRUE  /\ memory' = [memory EXCEPT ![code] = i]
             \/ ok = FALSE /\ FileMayFail /\ memory' = [memory EXCEPT ![code] = Raw]
     /\ cache' = [CacheAfterAlloc EXCEPT ![Slot(i)] = [index |-> i, code |-> code]]

\* overlay_callback(i) leaves `code' in amx->code and returns AMX_ERR_NONE if ok.
\* The cache entry is updated whatever overlay_callback_full has returned.
OverlayCallback(i, code, ok) ==
  \/ /\ Hit(i)
     /\ code = cache[Slot(i)].code /\ ok = TRUE
     /\ UNCHANGED storeVars
  \/ /\ ~Hit(i)
     /\ code \in Addresses /\ pool[code] = i /\ ok = TRUE
     /\ cache' = [cache EXCEPT ![Slot(i)] = [index |-> i, code |-> code]]
     /\ UNCHANGED <<pool, memory>>
  \/ /\ ~Hit(i) /\ \A a \in Addresses : pool[a] # i
     /\ LoadFromFile(i, code, ok)

-----------------------------------------------------------------------------
(* Its callers *)

\* The AMX whose code runs, and the change of it.
Vm == IF pc = "handler" THEN nested ELSE amx
SetVm(vm) ==
  IF pc = "handler" THEN nested' = vm /\ UNCHANGED amx
                    ELSE amx' = vm /\ UNCHANGED nested
Running == pc \in {"main", "handler", "idlehandler"}

Results == (Addresses \union {NULL}) \X BOOLEAN

\* loadprogram: a new program, once the last one is over.
NewProgram ==
  /\ pc \in {"idle", "ended"}
  /\ Fresh
  /\ amx' = BlankAmx /\ nested' = BlankAmx /\ loaded' = 0 /\ pc' = "load"
  /\ tooLarge' \in SUBSET Overlay

\* amx_Init loads every overlay once.
MoreToLoad == loaded < Count

InitLoad ==
  /\ pc = "load" /\ MoreToLoad
  /\ \E r \in Results :
       /\ OverlayCallback(loaded, r[1], r[2])
       /\ amx' = [amx EXCEPT !.code = r[1]]
       /\ IF r[2] THEN loaded' = loaded + 1 /\ UNCHANGED pc
                  ELSE pc' = "ended" /\ UNCHANGED loaded
  /\ UNCHANGED <<nested, tooLarge>>

\* amx_Exec(AMX_EXEC_MAIN)
ExecMain(i) ==
  /\ pc = "load" /\ loaded = Count
  /\ \E r \in Results :
       /\ OverlayCallback(i, r[1], r[2])
       /\ amx' = [code |-> r[1], ovl |-> i, stack |-> <<>>]
       /\ pc' = IF r[2] THEN "main" ELSE "ended"
  /\ UNCHANGED <<nested, tooLarge, loaded>>

\* amx_Exec of a handler: on the copy while main() sleeps, on the AMX itself after
\* main() has returned.
ExecHandler(i) ==
  /\ pc \in {"sleep", "idle"}
  /\ \E r \in Results :
       LET vm == [code |-> r[1], ovl |-> i, stack |-> <<>>]
       IN  /\ OverlayCallback(i, r[1], r[2])
           /\ IF pc = "sleep" THEN nested' = vm /\ UNCHANGED amx
                              ELSE amx' = vm /\ UNCHANGED nested
           /\ pc' = IF ~r[2] THEN "ended"
                    ELSE IF pc = "sleep" THEN "handler" ELSE "idlehandler"
  /\ UNCHANGED <<tooLarge, loaded>>

\* The sleep instruction of main(): the AMX is copied for the handlers.
Sleep ==
  /\ pc = "main"
  /\ pc' = "sleep" /\ nested' = amx
  /\ UNCHANGED <<storeVars, amx, tooLarge, loaded>>

\* amx_Exec(AMX_EXEC_CONT): the overlay main() was in may have been evicted.
Continue_Bug1 ==   \* amx->code is believed
  /\ pc = "sleep" /\ pc' = "main"
  /\ UNCHANGED <<storeVars, amx, nested, tooLarge, loaded>>
Continue ==
  /\ pc = "sleep"
  /\ \E r \in Results :
       /\ OverlayCallback(amx.ovl, r[1], r[2])
       /\ amx' = [amx EXCEPT !.code = r[1]]
       /\ pc' = IF r[2] THEN "main" ELSE "ended"
  /\ UNCHANGED <<nested, tooLarge, loaded>>

\* The overlay instructions jump to amx->code whatever the callback returned.
Enter(i, stack) ==
  /\ \E r \in Results : /\ OverlayCallback(i, r[1], r[2])
                        /\ SetVm([code |-> r[1], ovl |-> i, stack |-> stack])
  /\ UNCHANGED <<tooLarge, loaded, pc>>

CallOvl(i) ==
  /\ Running /\ Len(Vm.stack) < MaxDepth
  /\ Enter(i, Append(Vm.stack, Vm.ovl))

SwitchOvl(i) == Running /\ Enter(i, Vm.stack)

RetnOvl ==
  /\ Running /\ Vm.stack # <<>>
  /\ Enter(Vm.stack[Len(Vm.stack)], SubSeq(Vm.stack, 1, Len(Vm.stack) - 1))

\* The outermost function returns to offset 0 of overlay 0, where a HALT is.
Halt ==
  /\ Running /\ Vm.stack = <<>>
  /\ \E r \in Results : /\ OverlayCallback(0, r[1], r[2])
                        /\ SetVm([code |-> r[1], ovl |-> 0, stack |-> <<>>])
  /\ pc' = IF pc = "handler" THEN "sleep" ELSE "idle"
  /\ UNCHANGED <<tooLarge, loaded>>

\* An error, exit() or the user's abort ends the program.
Abort ==
  /\ Running
  /\ pc' = "ended"
  /\ UNCHANGED <<storeVars, amx, nested, tooLarge, loaded>>

Next ==
  \/ NewProgram \/ InitLoad \/ Sleep \/ Continue \/ RetnOvl \/ Halt \/ Abort
  \/ \E i \in Overlay : ExecMain(i) \/ ExecHandler(i) \/ CallOvl(i) \/ SwitchOvl(i)

Spec == Init /\ [][Next]_vars

-----------------------------------------------------------------------------
(* Properties *)

AmxType == [code : Addresses \union {NULL}, ovl : Overlay, stack : Seq(Overlay)]

TypeOK ==
  /\ cache \in [0 .. CACHESIZE-1 -> [index : Overlay, code : Addresses \union {NULL}]]
  /\ pool \in [Addresses -> Overlay \union {Store!Free}]
  /\ memory \in [Addresses -> Overlay \union {Raw}]
  /\ amx \in AmxType /\ nested \in AmxType
  /\ tooLarge \subseteq Overlay /\ loaded \in 0 .. Count
  /\ pc \in {"load", "main", "sleep", "handler", "idle", "idlehandler", "ended"}

\* The programs ask nothing of the pool but what OverlayStore offers: an overlay is
\* loaded when it is not there, and the pool is emptied for another program.
UsesStore == Store!StoreSpec

\* A cached pointer points to a block of the pool that is still there and holds the
\* overlay it is cached for (amx_overlays.c:40-42, 78-85).
CacheSound ==
  \A k \in DOMAIN cache : cache[k].code # NULL =>
    /\ pool[cache[k].code] = cache[k].index
    /\ memory[cache[k].code] = cache[k].index

\* Whatever the file does, there is a block of the pool for the overlay asked for, and
\* the program runs in it: at worst what it holds was not verified, but the block is not
\* one that the pool has since given to another overlay (amx_overlays.c:78-94).
NeverAnotherOverlay ==
  Running => /\ Vm.code # NULL
             /\ pool[Vm.code] = Vm.ovl
             /\ memory[Vm.code] \in {Vm.ovl, Raw}

\* A program that runs executes the overlay it has asked for, verified, in a block
\* of the pool that has not been evicted: after calls and returns, after handlers
\* have run while main() slept, and after the program before it.  A program with an
\* overlay that does not fit the pool does not run.
RunsWhatItAskedFor ==
  Running => /\ Vm.code # NULL
             /\ pool[Vm.code] = Vm.ovl
             /\ memory[Vm.code] = Vm.ovl
=============================================================================
