-------------------------- MODULE OverlaysProofs --------------------------
(***************************************************************************)
(* Proofs about Overlays, for any number of overlays, cache size, pool and *)
(* depth of calls: whatever the file does, a program runs in a block that  *)
(* is there for the overlay it has asked for; and as long as the file can  *)
(* be read, the cache is sound and the block holds that overlay.           *)
(*                                                                         *)
(* CachePointsToPool is not inductive alone: a block found in the pool     *)
(* enters the cache, so what is in the pool matters (PoolFilled).  And the *)
(* overlay instructions jump wherever the callback points, so it must      *)
(* point to a block, which is so once every overlay has been loaded        *)
(* (AllFit).                                                               *)
(***************************************************************************)
EXTENDS Overlays, SequenceTheorems, TLAPS

USE OverlaysAssumption
DEF OverlaysAssumption, Raw, Store!Free, Store!Nothing, Store!Clear, Store!StoreInit

StoreType ==
  /\ cache \in [0 .. CACHESIZE-1 -> [index : Overlay, code : Addresses \union {NULL}]]
  /\ pool \in [Addresses -> Overlay \union {Store!Free}]
  /\ memory \in [Addresses -> Overlay \union {Raw}]

\* A cached pointer points to a block that is there for the overlay it is cached for.
CachePointsToPool ==
  \A k \in DOMAIN cache : cache[k].code # NULL => pool[cache[k].code] = cache[k].index

\* Whatever is in the pool did fit, and was verified unless there was a fault.
PoolFilled ==
  \A a \in Addresses :
    pool[a] # Store!Free => /\ pool[a] \notin tooLarge
                            /\ memory[a] \in {pool[a], Raw}
                            /\ FileMayFail \/ memory[a] = pool[a]

StoreInv == StoreType /\ CachePointsToPool /\ PoolFilled

\* The overlays amx_Init has loaded fit the pool, and it has loaded all of them
\* before the program runs.
AllFit ==
  /\ \A i \in Overlay : i < loaded => i \notin tooLarge
  /\ pc \notin {"load", "ended"} => loaded = Count

OverlaysInv == TypeOK /\ StoreInv /\ AllFit /\ NeverAnotherOverlay

\* What overlay_callback promises: it keeps the store sound, and points to a block for
\* every overlay that fits.  It reports no error for any that does not.
LEMMA CallbackKeepsPromise ==
  ASSUME StoreInv, NEW i \in Overlay, NEW code, NEW ok,
         OverlayCallback(i, code, ok), tooLarge' = tooLarge
  PROVE  /\ StoreInv'
         /\ ok => i \notin tooLarge
         /\ i \notin tooLarge => /\ code \in Addresses /\ pool'[code] = i
                               /\ memory'[code] \in {i, Raw}
<1>1. Slot(i) \in 0 .. CACHESIZE-1 /\ i \in Int /\ i # Store!Free
  BY DEF Slot, Overlay
<1>2. CASE Hit(i)
  <2>1. code = cache[Slot(i)].code /\ ok = TRUE /\ UNCHANGED storeVars
    BY <1>2 DEF OverlayCallback
  <2>2. code \in Addresses /\ pool[code] = i /\ memory[code] \in {i, Raw} /\ i \notin tooLarge
    BY <1>1, <1>2, <2>1 DEF StoreInv, StoreType, CachePointsToPool, PoolFilled, Hit
  <2>3. StoreInv'
    BY <2>1 DEF StoreInv, StoreType, CachePointsToPool, PoolFilled, storeVars
  <2>4. QED
    BY <2>1, <2>2, <2>3 DEF storeVars
<1>3. CASE ~Hit(i) /\ code \in Addresses /\ pool[code] = i /\ ok = TRUE
           /\ cache' = [cache EXCEPT ![Slot(i)] = [index |-> i, code |-> code]]
           /\ UNCHANGED <<pool, memory>>
  <2>1. memory[code] \in {i, Raw} /\ i \notin tooLarge
    BY <1>1, <1>3 DEF StoreInv, PoolFilled
  <2>2. StoreType'
    BY <1>1, <1>3 DEF StoreInv, StoreType
  <2>3. CachePointsToPool'
    BY <1>1, <1>3, <2>1 DEF StoreInv, StoreType, CachePointsToPool
  <2>4. PoolFilled'
    BY <1>3 DEF StoreInv, PoolFilled
  <2>5. QED
    BY <1>3, <2>1, <2>2, <2>3, <2>4 DEF StoreInv
<1>4. CASE LoadFromFile(i, code, ok) /\ i \in tooLarge
  <2>1. /\ code = NULL /\ ok = FALSE
        /\ cache' = [cache EXCEPT ![Slot(i)] = [index |-> i, code |-> NULL]]
        /\ pool' = pool /\ memory' = memory
    BY <1>4 DEF LoadFromFile
  <2>2. StoreType'
    BY <1>1, <2>1 DEF StoreInv, StoreType
  <2>3. CachePointsToPool'
    BY <1>1, <2>1 DEF StoreInv, StoreType, CachePointsToPool
  <2>4. PoolFilled'
    BY <2>1 DEF StoreInv, PoolFilled
  <2>5. QED
    BY <1>4, <2>1, <2>2, <2>3, <2>4 DEF StoreInv
<1>5. CASE LoadFromFile(i, code, ok) /\ i \notin tooLarge
  <2>1. PICK p \in Store!Placements :
          /\ code = p[2] /\ pool' = Store!Placed(i, p[1], code)
          /\ \/ memory' = [memory EXCEPT ![code] = i]
             \/ FileMayFail /\ memory' = [memory EXCEPT ![code] = Raw]
          /\ cache' = [EmptyCache EXCEPT ![Slot(i)] = [index |-> i, code |-> code]]
    BY <1>5 DEF LoadFromFile, CacheAfterAlloc
  <2>2. code \in Addresses
    BY <2>1 DEF Store!Placements
  <2>3. /\ DOMAIN pool' = Addresses /\ pool'[code] = i
        /\ \A b \in Addresses : b # code => pool'[b] \in {pool[b], Store!Free}
    BY <2>1, <2>2 DEF Store!Placed
  <2>4. /\ DOMAIN memory' = Addresses /\ memory'[code] \in {i, Raw}
        /\ FileMayFail \/ memory'[code] = i
        /\ \A b \in Addresses : b # code => memory'[b] = memory[b]
    BY <2>1, <2>2 DEF StoreInv, StoreType
  <2>5. \A k \in 0 .. CACHESIZE-1 :
          cache'[k] = IF k = Slot(i) THEN [index |-> i, code |-> code] ELSE NoEntry
    BY <2>1, <1>1 DEF EmptyCache
  <2>6. cache' \in [0 .. CACHESIZE-1 -> [index : Overlay, code : Addresses \union {NULL}]]
    <3>1. NoEntry \in [index : Overlay, code : Addresses \union {NULL}]
      BY DEF NoEntry, Overlay
    <3>2. EmptyCache \in [0 .. CACHESIZE-1 -> [index : Overlay, code : Addresses \union {NULL}]]
      BY <3>1 DEF EmptyCache
    <3>3. QED
      BY <2>1, <2>2, <3>2
  <2>7. StoreType'
    <3>1. pool' \in [Addresses -> Overlay \union {Store!Free}]
      BY <2>1 DEF Store!Placed, StoreInv, StoreType
    <3>2. memory' \in [Addresses -> Overlay \union {Raw}]
      BY <2>1 DEF StoreInv, StoreType
    <3>3. QED
      BY <2>6, <3>1, <3>2 DEF StoreType
  <2>8. CachePointsToPool'
    BY <1>1, <2>3, <2>4, <2>5, <2>6 DEF CachePointsToPool, NoEntry
  <2>9. PoolFilled'
    BY <1>5, <2>3, <2>4 DEF StoreInv, PoolFilled
  <2>10. QED
    BY <1>5, <2>1, <2>2, <2>3, <2>4, <2>7, <2>8, <2>9 DEF StoreInv
<1>6. QED
  BY <1>2, <1>3, <1>4, <1>5 DEF OverlayCallback

-----------------------------------------------------------------------------
(* The steps *)

LEMMA InitEstablishesInv == Init => OverlaysInv
<1> SUFFICES ASSUME Init PROVE OverlaysInv
  OBVIOUS
<1> USE DEF Init
<1>1. NoEntry \in [index : Overlay, code : Addresses \union {NULL}]
  BY DEF NoEntry, Overlay
<1>2. cache \in [0 .. CACHESIZE-1 -> [index : Overlay, code : Addresses \union {NULL}]]
  BY <1>1 DEF EmptyCache
<1>3. BlankAmx \in AmxType
  BY EmptySeq DEF BlankAmx, AmxType, Overlay
<1>4. TypeOK
  BY <1>2, <1>3 DEF TypeOK
<1>5. CachePointsToPool
  BY DEF CachePointsToPool, EmptyCache, NoEntry
<1>6. StoreInv
  BY <1>2, <1>5 DEF StoreInv, StoreType, PoolFilled
<1>7. AllFit
  BY DEF AllFit, Overlay
<1>8. QED
  BY <1>4, <1>6, <1>7 DEF OverlaysInv, NeverAnotherOverlay, Running

\* Entering overlay i from the code that runs, which happens only once all overlays
\* have been loaded.
LEMMA EnterKeepsInv ==
  ASSUME OverlaysInv, Running, NEW i \in Overlay,
         NEW stack \in Seq(Overlay), NEW r \in Results,
         OverlayCallback(i, r[1], r[2]),
         SetVm([code |-> r[1], ovl |-> i, stack |-> stack]),
         UNCHANGED <<tooLarge, loaded>>,
         pc' \in {pc, "sleep", "idle"}
  PROVE  OverlaysInv'
<1> DEFINE vm == [code |-> r[1], ovl |-> i, stack |-> stack]
<1>1. loaded = Count /\ i \notin tooLarge
  BY DEF OverlaysInv, AllFit, Running, Overlay
<1>2. /\ StoreInv'
      /\ r[1] \in Addresses /\ pool'[r[1]] = i /\ memory'[r[1]] \in {i, Raw}
  BY <1>1, CallbackKeepsPromise DEF OverlaysInv
<1>3. vm \in AmxType
  BY <1>2 DEF AmxType
<1>4. TypeOK'
  BY <1>2, <1>3 DEF StoreInv, StoreType, TypeOK, OverlaysInv, SetVm, Running
<1>5. AllFit'
  BY <1>1 DEF AllFit, OverlaysInv
<1>6. ASSUME pc' = pc PROVE NeverAnotherOverlay'
  <2>1. Vm' = vm
    BY <1>6 DEF Vm, SetVm
  <2>2. vm.code = r[1] /\ vm.ovl = i
    OBVIOUS
  <2>3. QED
    BY <1>2, <2>1, <2>2 DEF NeverAnotherOverlay
<1>7. ASSUME pc' \in {"sleep", "idle"} PROVE NeverAnotherOverlay'
  BY <1>7 DEF NeverAnotherOverlay, Running
<1>8. QED
  BY <1>2, <1>4, <1>5, <1>6, <1>7 DEF OverlaysInv

LEMMA NextKeepsInv ==
  ASSUME OverlaysInv, [Next]_vars PROVE OverlaysInv'
<1> USE DEF OverlaysInv
<1>1. CASE UNCHANGED vars
  BY <1>1 DEF vars, storeVars, TypeOK, StoreInv, StoreType, CachePointsToPool, PoolFilled,
              AllFit, NeverAnotherOverlay, Running, Vm
<1>2. CASE NewProgram
  <2>1. NoEntry \in [index : Overlay, code : Addresses \union {NULL}]
    BY DEF NoEntry, Overlay
  <2>2. cache' \in [0 .. CACHESIZE-1 -> [index : Overlay, code : Addresses \union {NULL}]]
    BY <1>2, <2>1 DEF NewProgram, Fresh, EmptyCache
  <2>3. BlankAmx \in AmxType
    BY EmptySeq DEF BlankAmx, AmxType, Overlay
  <2>4. TypeOK'
    BY <1>2, <2>2, <2>3 DEF NewProgram, Fresh, TypeOK
  <2>5. CachePointsToPool'
    BY <1>2 DEF NewProgram, Fresh, CachePointsToPool, EmptyCache, NoEntry
  <2>6. StoreInv'
    BY <1>2, <2>2, <2>5 DEF NewProgram, Fresh, StoreInv, StoreType, PoolFilled
  <2>7. AllFit' /\ NeverAnotherOverlay'
    BY <1>2 DEF NewProgram, AllFit, Overlay, NeverAnotherOverlay, Running
  <2>8. QED
    BY <2>4, <2>6, <2>7
<1>3. CASE InitLoad
  <2>1. PICK r \in Results :
          /\ OverlayCallback(loaded, r[1], r[2])
          /\ amx' = [amx EXCEPT !.code = r[1]]
          /\ IF r[2] THEN loaded' = loaded + 1 /\ UNCHANGED pc
                     ELSE pc' = "ended" /\ UNCHANGED loaded
    BY <1>3 DEF InitLoad
  <2>2. loaded \in Overlay /\ tooLarge' = tooLarge /\ nested' = nested /\ pc = "load"
    BY <1>3 DEF InitLoad, MoreToLoad, TypeOK, Overlay
  <2>3. StoreInv' /\ (r[2] => loaded \notin tooLarge)
    BY <2>1, <2>2, CallbackKeepsPromise
  <2>4. r[1] \in Addresses \union {NULL}
    BY DEF Results
  <2>5. amx' \in AmxType
    BY <2>1, <2>4 DEF TypeOK, AmxType
  <2>6. TypeOK'
    BY <2>1, <2>2, <2>3, <2>5 DEF TypeOK, StoreInv, StoreType, Overlay
  <2>7. AllFit'
    BY <2>1, <2>2, <2>3 DEF AllFit, Overlay
  <2>8. NeverAnotherOverlay'
    BY <2>1, <2>2 DEF NeverAnotherOverlay, Running
  <2>9. QED
    BY <2>3, <2>6, <2>7, <2>8
<1>4. ASSUME NEW i \in Overlay, ExecMain(i) PROVE OverlaysInv'
  <2>1. PICK r \in Results :
          /\ OverlayCallback(i, r[1], r[2])
          /\ amx' = [code |-> r[1], ovl |-> i, stack |-> <<>>]
          /\ pc' = IF r[2] THEN "main" ELSE "ended"
    BY <1>4 DEF ExecMain
  <2>2. /\ loaded = Count /\ tooLarge' = tooLarge
        /\ nested' = nested /\ loaded' = loaded
    BY <1>4 DEF ExecMain
  <2>3. i \notin tooLarge
    BY <2>2 DEF AllFit, Overlay
  <2>4. /\ StoreInv'
        /\ r[1] \in Addresses /\ pool'[r[1]] = i /\ memory'[r[1]] \in {i, Raw}
    BY <2>1, <2>2, <2>3, CallbackKeepsPromise
  <2>5. amx' \in AmxType /\ amx'.code = r[1] /\ amx'.ovl = i
    BY <2>1, <2>4, EmptySeq DEF AmxType
  <2>6. TypeOK'
    BY <2>1, <2>2, <2>4, <2>5 DEF TypeOK, StoreInv, StoreType
  <2>7. AllFit' /\ NeverAnotherOverlay'
    BY <2>1, <2>2, <2>4, <2>5 DEF AllFit, NeverAnotherOverlay, Running, Vm
  <2>8. QED
    BY <2>4, <2>6, <2>7
<1>5. ASSUME NEW i \in Overlay, ExecHandler(i) PROVE OverlaysInv'
  <2> DEFINE vm(r) == [code |-> r[1], ovl |-> i, stack |-> <<>>]
  <2>1. PICK r \in Results :
          /\ OverlayCallback(i, r[1], r[2])
          /\ IF pc = "sleep" THEN nested' = vm(r) /\ UNCHANGED amx
                             ELSE amx' = vm(r) /\ UNCHANGED nested
          /\ pc' = IF ~r[2] THEN "ended"
                   ELSE IF pc = "sleep" THEN "handler" ELSE "idlehandler"
    BY <1>5 DEF ExecHandler
  <2>2. /\ pc \in {"sleep", "idle"} /\ tooLarge' = tooLarge /\ loaded' = loaded
    BY <1>5 DEF ExecHandler
  <2>3. loaded = Count /\ i \notin tooLarge
    BY <2>2 DEF AllFit, Overlay
  <2>4. /\ StoreInv'
        /\ r[1] \in Addresses /\ pool'[r[1]] = i /\ memory'[r[1]] \in {i, Raw}
    <3>1. OverlayCallback(i, r[1], r[2]) /\ tooLarge' = tooLarge
      BY <2>1, <2>2
    <3>2. QED
      BY <3>1, <2>3, CallbackKeepsPromise
  <2>5. vm(r) \in AmxType /\ vm(r).code = r[1] /\ vm(r).ovl = i
    BY <2>4, EmptySeq DEF AmxType
  <2> HIDE DEF vm
  <2>6. TypeOK'
    BY <2>1, <2>2, <2>4, <2>5 DEF TypeOK, StoreInv, StoreType
  <2>7. Running' => Vm' = vm(r)
    BY <2>1, <2>2, <2>4 DEF Vm, Running
  <2>8. AllFit' /\ NeverAnotherOverlay'
    BY <2>2, <2>3, <2>4, <2>5, <2>7 DEF AllFit, NeverAnotherOverlay
  <2>9. QED
    BY <2>4, <2>6, <2>8
<1>6. CASE Sleep
  <2>1. /\ pc = "main" /\ pc' = "sleep" /\ nested' = amx
        /\ UNCHANGED <<storeVars, amx, tooLarge, loaded>>
    BY <1>6 DEF Sleep
  <2>2. TypeOK' /\ StoreInv' /\ AllFit'
    BY <2>1 DEF TypeOK, storeVars, StoreInv, StoreType, CachePointsToPool, PoolFilled, AllFit
  <2>3. QED
    BY <2>1, <2>2 DEF NeverAnotherOverlay, Running
<1>7. CASE Continue
  <2>1. PICK r \in Results :
          /\ OverlayCallback(amx.ovl, r[1], r[2])
          /\ amx' = [amx EXCEPT !.code = r[1]]
          /\ pc' = IF r[2] THEN "main" ELSE "ended"
    BY <1>7 DEF Continue
  <2>2. /\ pc = "sleep" /\ tooLarge' = tooLarge /\ nested' = nested /\ loaded' = loaded
        /\ amx.ovl \in Overlay
    BY <1>7 DEF Continue, TypeOK, AmxType
  <2>3. loaded = Count /\ amx.ovl \notin tooLarge
    BY <2>2 DEF AllFit, Overlay
  <2>4. /\ StoreInv'
        /\ r[1] \in Addresses /\ pool'[r[1]] = amx.ovl /\ memory'[r[1]] \in {amx.ovl, Raw}
    BY <2>1, <2>2, <2>3, CallbackKeepsPromise
  <2>5. amx' \in AmxType /\ amx'.code = r[1] /\ amx'.ovl = amx.ovl
    BY <2>1, <2>4 DEF TypeOK, AmxType
  <2>6. TypeOK'
    BY <2>1, <2>2, <2>4, <2>5 DEF TypeOK, StoreInv, StoreType
  <2>7. AllFit' /\ NeverAnotherOverlay'
    BY <2>1, <2>2, <2>3, <2>4, <2>5 DEF AllFit, NeverAnotherOverlay, Running, Vm
  <2>8. QED
    BY <2>4, <2>6, <2>7
<1> USE DEF AmxType
<1>8. Running => Vm.ovl \in Overlay /\ Vm.stack \in Seq(Overlay)
  BY DEF TypeOK, Vm
<1>9. ASSUME NEW i \in Overlay, CallOvl(i) PROVE OverlaysInv'
  <2>1. Append(Vm.stack, Vm.ovl) \in Seq(Overlay)
    BY <1>8, <1>9 DEF CallOvl
  <2>2. QED
    BY <1>9, <2>1, EnterKeepsInv DEF CallOvl, Enter
<1>10. ASSUME NEW i \in Overlay, SwitchOvl(i) PROVE OverlaysInv'
  BY <1>8, <1>10, EnterKeepsInv DEF SwitchOvl, Enter
<1>11. CASE RetnOvl
  <2> DEFINE s == Vm.stack
  <2>1. s \in Seq(Overlay) /\ s # <<>> /\ Running
    BY <1>8, <1>11 DEF RetnOvl
  <2>2. s[Len(s)] \in Overlay /\ SubSeq(s, 1, Len(s) - 1) \in Seq(Overlay)
    <3>1. Len(s) \in Nat \ {0}
      BY <2>1, EmptySeq
    <3>2. QED
      BY <2>1, <3>1, SubSeqProperties, ElementOfSeq
  <2>3. Enter(s[Len(s)], SubSeq(s, 1, Len(s) - 1))
    BY <1>11 DEF RetnOvl
  <2> HIDE DEF s
  <2>4. QED
    BY <2>1, <2>2, <2>3, EnterKeepsInv DEF Enter
<1>12. CASE Halt
  <2>1. Running /\ <<>> \in Seq(Overlay) /\ 0 \in Overlay
    BY <1>12, EmptySeq DEF Halt, Overlay
  <2>2. pc' \in {pc, "sleep", "idle"} /\ UNCHANGED <<tooLarge, loaded>>
    BY <1>12 DEF Halt
  <2>3. PICK r \in Results : /\ OverlayCallback(0, r[1], r[2])
                             /\ SetVm([code |-> r[1], ovl |-> 0, stack |-> <<>>])
    BY <1>12 DEF Halt
  <2>4. QED
    BY <2>1, <2>2, <2>3, EnterKeepsInv
<1>13. CASE Abort
  <2>1. pc' = "ended" /\ UNCHANGED <<storeVars, amx, nested, tooLarge, loaded>>
    BY <1>13 DEF Abort
  <2>2. TypeOK' /\ StoreInv' /\ AllFit'
    BY <2>1 DEF TypeOK, storeVars, StoreInv, StoreType, CachePointsToPool, PoolFilled, AllFit
  <2>3. QED
    BY <2>1, <2>2 DEF NeverAnotherOverlay, Running
<1>14. QED
  BY <1>1, <1>2, <1>3, <1>4, <1>5, <1>6, <1>7, <1>9, <1>10, <1>11, <1>12, <1>13 DEF Next

-----------------------------------------------------------------------------
(* Theorems *)

LEMMA InvHolds == Spec => []OverlaysInv
<1>1. OverlaysInv /\ [Next]_vars => OverlaysInv'
  BY NextKeepsInv
<1>2. QED
  BY <1>1, InitEstablishesInv, PTL DEF Spec

\* The variables stay in their ranges, whatever the file does.
THEOREM OverlaysTypeCorrect == Spec => []TypeOK
<1>1. OverlaysInv => TypeOK
  BY DEF OverlaysInv
<1>2. QED
  BY <1>1, InvHolds, PTL

\* Also when reads fail and their errors are ignored, a program does not run the code of
\* an overlay it has not asked for, nor code in a block that has been evicted: a fault
\* costs it the contents of a block, never the block (amx_overlays.c:78-94).
THEOREM ProgramStaysInItsBlocks == Spec => []NeverAnotherOverlay
<1>1. OverlaysInv => NeverAnotherOverlay
  BY DEF OverlaysInv
<1>2. QED
  BY <1>1, InvHolds, PTL

\* As long as the file can be read, no cache entry outlives the block it points to,
\* whatever the pool evicts (amx_overlays.c:40-42).
THEOREM CacheIsSound == ASSUME ~FileMayFail PROVE Spec => []CacheSound
<1>1. OverlaysInv => CacheSound
  <2> SUFFICES ASSUME OverlaysInv, NEW k \in DOMAIN cache, cache[k].code # NULL
               PROVE  /\ pool[cache[k].code] = cache[k].index
                      /\ memory[cache[k].code] = cache[k].index
    BY DEF CacheSound
  <2>1. cache[k].code \in Addresses /\ cache[k].index \in Overlay
    BY DEF OverlaysInv, StoreInv, StoreType
  <2>2. pool[cache[k].code] = cache[k].index /\ cache[k].index # Store!Free
    BY <2>1 DEF OverlaysInv, StoreInv, CachePointsToPool, Overlay
  <2>3. QED
    BY <2>1, <2>2 DEF OverlaysInv, StoreInv, PoolFilled
<1>2. QED
  BY <1>1, InvHolds, PTL

\* As long as the file can be read, the code that runs is that of the overlay asked
\* for, after any sequence of calls, returns, handlers and programs.
THEOREM ProgramRunsItsOverlays == ASSUME ~FileMayFail PROVE Spec => []RunsWhatItAskedFor
<1>1. OverlaysInv => RunsWhatItAskedFor
  <2> SUFFICES ASSUME OverlaysInv, Running
               PROVE  /\ Vm.code # NULL /\ pool[Vm.code] = Vm.ovl
                      /\ memory[Vm.code] = Vm.ovl
    BY DEF RunsWhatItAskedFor
  <2>1. Vm.code # NULL /\ pool[Vm.code] = Vm.ovl
    BY DEF OverlaysInv, NeverAnotherOverlay
  <2>2. Vm.code \in Addresses /\ Vm.ovl \in Overlay
    BY <2>1 DEF OverlaysInv, TypeOK, AmxType, Vm
  <2>3. pool[Vm.code] # Store!Free
    BY <2>1, <2>2 DEF Overlay
  <2>4. QED
    BY <2>1, <2>2, <2>3 DEF OverlaysInv, StoreInv, PoolFilled
<1>2. QED
  BY <1>1, InvHolds, PTL

-----------------------------------------------------------------------------
(* The programs are users of OverlayStore *)

LEMMA CallbackUsesStore ==
  ASSUME NEW i \in Overlay, NEW code, NEW ok, OverlayCallback(i, code, ok)
  PROVE  Store!Load(i) \/ UNCHANGED pool
<1>1. CASE LoadFromFile(i, code, ok) /\ \A a \in Addresses : pool[a] # i
  <2>1. CASE i \notin tooLarge
    <3>1. \E p \in Store!Placements : pool' = Store!Placed(i, p[1], p[2])
      BY <1>1, <2>1 DEF LoadFromFile
    <3>2. QED
      BY <1>1, <3>1 DEF Store!Load
  <2>2. QED
    BY <1>1, <2>1 DEF LoadFromFile
<1>2. QED
  BY <1>1 DEF OverlayCallback, storeVars

\* Whatever runs, overlay_callback and loadprogram use the pool as OverlayStore says,
\* so that what PoolHistory implements is all that the other theorems need of it
\* (amx_overlays.c:23-58, main.c:136).
THEOREM ProgramsUseTheStore == Spec => UsesStore
<1>1. Init => Store!StoreInit
  BY DEF Init
<1>2. OverlaysInv /\ [Next]_vars => [Store!StoreNext]_pool
  <2> SUFFICES ASSUME OverlaysInv, [Next]_vars
               PROVE  Store!StoreNext \/ UNCHANGED pool
    OBVIOUS
  <2>1. ASSUME NEW i \in Overlay, NEW r \in Results, OverlayCallback(i, r[1], r[2])
        PROVE  Store!StoreNext \/ UNCHANGED pool
    BY <2>1, CallbackUsesStore DEF Store!StoreNext
  <2>2. CASE NewProgram
    BY <2>2 DEF NewProgram, Fresh, Store!StoreNext
  <2>3. CASE Sleep \/ Abort \/ UNCHANGED vars
    BY <2>3 DEF Sleep, Abort, vars, storeVars
  <2>4. CASE InitLoad
    <3>1. loaded \in Overlay
      BY <2>4 DEF InitLoad, MoreToLoad, OverlaysInv, TypeOK, Overlay
    <3>2. QED
      BY <2>1, <2>4, <3>1 DEF InitLoad
  <2>5. CASE Continue
    <3>1. amx.ovl \in Overlay
      BY DEF OverlaysInv, TypeOK, AmxType
    <3>2. QED
      BY <2>1, <2>5, <3>1 DEF Continue
  <2>6. ASSUME NEW i \in Overlay, ExecMain(i) \/ ExecHandler(i) \/ CallOvl(i) \/ SwitchOvl(i)
        PROVE  Store!StoreNext \/ UNCHANGED pool
    BY <2>1, <2>6 DEF ExecMain, ExecHandler, CallOvl, SwitchOvl, Enter
  <2>7. CASE RetnOvl
    <3>1. Vm.stack \in Seq(Overlay) /\ Vm.stack # <<>>
      BY <2>7 DEF RetnOvl, OverlaysInv, TypeOK, AmxType, Vm
    <3>2. Vm.stack[Len(Vm.stack)] \in Overlay
      BY <3>1, ElementOfSeq, EmptySeq
    <3>3. QED
      BY <2>1, <2>7, <3>2 DEF RetnOvl, Enter
  <2>8. CASE Halt
    BY <2>1, <2>8 DEF Halt, Overlay
  <2>9. QED
    BY <2>2, <2>3, <2>4, <2>5, <2>6, <2>7, <2>8 DEF Next
<1>3. QED
  BY <1>1, <1>2, InvHolds, PTL DEF Spec, UsesStore, Store!StoreSpec
=============================================================================
