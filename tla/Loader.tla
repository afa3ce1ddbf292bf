------------------------------- MODULE Loader -------------------------------
(***************************************************************************)
(* Runtime/main.c (loadprogram), amx_fpga.c and fpga.c: how a program is   *)
(* laid out in vm_data, and what becomes of the FPGA's image and of the    *)
(* pins between processor and FPGA from one program to the next.           *)
(*                                                                         *)
(* A program is the fields of its AMX header.  What the images do, and     *)
(* whether the FPGA says that it is configured (DONE), are external.       *)
(***************************************************************************)
EXTENDS Integers

CONSTANTS
  MEMORY,       \* sizeof(vm_data) (32768)
  ARENA,        \* sizeof(ARENA), the header of a block of the pool (8)
  Headers,      \* programs on the disk
  Pins,         \* the pins between processor and FPGA
  default_pins, \* those that are outputs for the original image
  Images,       \* image files on the disk
  Driven        \* the pins that each image drives

Original == "original"
Blank    == "blank"      \* the FPGA is not configured: it drives no pin

\* The compiler lays out header, code, data, heap and stack in this order.  The
\* original image does not drive the pins that are outputs for it.
ASSUME LoaderAssumption ==
  /\ MEMORY \in Nat /\ ARENA \in Nat
  /\ \A h \in Headers :
       /\ h.overlay \in BOOLEAN /\ {h.cod, h.dat, h.hea, h.stp} \subseteq Nat
       /\ 0 < h.cod /\ h.cod <= h.dat /\ h.dat <= h.hea /\ h.hea < h.stp
  /\ Original \notin Images /\ Blank \notin Images
  /\ Driven \in [Images \union {Original, Blank} -> SUBSET Pins]
  /\ default_pins \subseteq Pins
  /\ Driven[Original] \intersect default_pins = {} /\ Driven[Blank] = {}

VARIABLES
  pc,                \* where the thread is
  hdr,               \* the header of the program loaded last
  data,              \* amx.data: offset in vm_data
  pool,              \* the overlay pool: its offset and size
  image,             \* what the FPGA is configured with
  outputs,           \* the pins that are outputs of the processor
  have_custom_image,
  source,            \* the image fpga_configure is loading, or has tried last
  unloaded           \* ghost: the last attempt to load the original image has failed

memory == <<hdr, data, pool>>
fpga   == <<image, outputs, have_custom_image, source, unloaded>>
loaderVars == <<pc, memory, fpga>>

NoProgram == [overlay |-> FALSE, cod |-> 0, dat |-> 0, hea |-> 0, stp |-> 0]
NoPool == [base |-> 0, size |-> 0]

LoaderInit ==
  /\ pc = "select" /\ hdr = NoProgram /\ data = 0 /\ pool = NoPool
  /\ image = Original /\ outputs \in SUBSET default_pins
  /\ have_custom_image = FALSE /\ source = Original /\ unloaded = FALSE

-----------------------------------------------------------------------------
(* loadprogram *)

\* (Names ending in _BugN are faulty variants of the definition after them;
\* README.md says which property notices each.)

\* f_open and the header.  A file that cannot be read, or is no AMX file, leaves
\* everything else as it is.
OpenProgram(h) ==
  /\ pc = "select" /\ pc' = "divide"
  /\ hdr' = h
  /\ UNCHANGED <<data, pool, fpga>>

OpenFails ==
  /\ pc = "divide" /\ pc' = "select"
  /\ UNCHANGED <<memory, fpga>>

\* Header, data, heap and stack of a program with overlays; its code is in the pool.
\* It is not compared with the size of vm_data: a negative size of the pool stands for
\* the unsigned difference that has wrapped.
static_size_Bug1(h) == (h.hea - h.dat) + h.cod
static_size(h) == (h.stp - h.dat) + h.cod

DivideForOverlays ==
  /\ pc = "divide" /\ hdr.overlay
  /\ pc' = "init"
  /\ data' = hdr.cod
  /\ pool' = [base |-> static_size(hdr), size |-> MEMORY - static_size(hdr)]
  /\ UNCHANGED <<hdr, fpga>>

TooLarge_Bug1(h) == h.hea > MEMORY
TooLarge(h) == h.stp > MEMORY

ReadWhole ==
  /\ pc = "divide" /\ ~hdr.overlay /\ ~TooLarge(hdr)
  /\ pc' = "init"
  /\ data' = hdr.dat
  /\ UNCHANGED <<hdr, pool, fpga>>

\* AMX_ERR_MEMORY, a file that ends too early, amx_Init: an error
LoadFails ==
  /\ \/ pc = "divide" /\ ~hdr.overlay
     \/ pc = "init"
  /\ pc' = "select"
  /\ UNCHANGED <<memory, fpga>>

\* amx_Init has been successful: amxinit_fpga is the last of the libraries.
MustRestore_Bug1 == FALSE
MustRestore == have_custom_image

Restore ==
  /\ pc = "init" /\ MustRestore
  /\ pc' = "restore" /\ have_custom_image' = FALSE
  /\ image' = Blank /\ source' = Original
  /\ UNCHANGED <<memory, outputs, unloaded>>

\* What the end of fpga_configure leaves: without DONE the FPGA stays blank.
Configure(done) ==
  /\ image' = IF done THEN source ELSE Blank
  /\ unloaded' = IF source = Original THEN ~done ELSE unloaded

\* amxinit_fpga ignores the result.
Restored(done) ==
  /\ pc = "restore" /\ pc' = "ports"
  /\ Configure(done)
  /\ UNCHANGED <<memory, outputs, have_custom_image, source>>

\* set_port_directions(default_pins)
DefaultPorts ==
  /\ \/ pc = "init" /\ ~MustRestore
     \/ pc = "ports"
  /\ pc' = "register" /\ outputs' = default_pins
  /\ UNCHANGED <<memory, image, have_custom_image, source, unloaded>>

\* The last amx_Register: are all native functions there?
Register(found) ==
  /\ pc = "register" /\ pc' = IF found THEN "run" ELSE "select"
  /\ UNCHANGED <<memory, fpga>>

-----------------------------------------------------------------------------
(* The program and its calls *)

End ==
  /\ pc = "run" /\ pc' = "select"
  /\ UNCHANGED <<memory, fpga>>

\* fpga_config_outputs; programs do not drive a pin their image drives.
ConfigOutputs(pins) ==
  /\ pc = "run" /\ pins \intersect Driven[image] = {}
  /\ outputs' = pins
  /\ UNCHANGED <<pc, memory, image, have_custom_image, source, unloaded>>

\* fpga_load with a file's name or with none: the pins, the flag, then the reset.
InputsFirst_Bug1 == outputs
InputsFirst == {}

LoadImage(file) ==
  /\ pc = "run" /\ pc' = "configure"
  /\ outputs' = InputsFirst
  /\ have_custom_image' = (file # Original)
  /\ image' = Blank /\ source' = file
  /\ UNCHANGED <<memory, unloaded>>

\* The file cannot be opened: neither image nor pins are set back.
ImageMissing ==
  /\ pc = "run"
  /\ outputs' = InputsFirst /\ have_custom_image' = TRUE
  /\ UNCHANGED <<pc, memory, image, source, unloaded>>

\* The bytes are sent; after a read error, or a file that is no image, there is no DONE,
\* and fpga_load returns false.
Configured(done) ==
  /\ pc = "configure" /\ pc' = "run"
  /\ Configure(done)
  /\ outputs' = IF source = Original THEN default_pins ELSE outputs
  /\ UNCHANGED <<memory, have_custom_image, source>>

\* loadprogram until the last amx_Register, and what ends it early
Loading ==
  \/ \E h \in Headers : OpenProgram(h)
  \/ OpenFails \/ DivideForOverlays \/ ReadWhole \/ LoadFails
  \/ Restore \/ (\E done \in BOOLEAN : Restored(done)) \/ DefaultPorts \/ Register(FALSE)

\* amx_fpga_load, amx_fpga_config_outputs
FPGACalls ==
  \/ ImageMissing \/ \E done \in BOOLEAN : Configured(done)
  \/ \E pins \in SUBSET Pins : ConfigOutputs(pins)
  \/ \E file \in Images \union {Original} : LoadImage(file)

LoaderNext == Loading \/ Register(TRUE) \/ FPGACalls \/ End

LoaderSpec == LoaderInit /\ [][LoaderNext]_loaderVars

-----------------------------------------------------------------------------
(* Properties *)

LoaderTypeOK ==
  /\ pc \in {"select", "divide", "init", "restore", "ports", "register", "run", "configure"}
  /\ hdr \in Headers \union {NoProgram} /\ data \in Nat
  /\ pool.base \in Nat /\ pool.size \in Int
  /\ image \in Images \union {Original, Blank} /\ outputs \subseteq Pins
  /\ have_custom_image \in BOOLEAN /\ source \in Images \union {Original}
  /\ unloaded \in BOOLEAN

\* The bytes of vm_data that are the AMX header (with its tables), and the data, heap
\* and stack that amx_Init derives from the fields and from amx.data.
HeaderPart == 0 .. hdr.cod - 1
DataPart   == data .. data + (hdr.stp - hdr.dat) - 1
CodePart   == IF hdr.overlay THEN pool.base .. pool.base + pool.size - 1
              ELSE hdr.cod .. hdr.dat - 1

\* A program with overlays leaves room for the header of one block of the pool.
LeavesAPool(h) == h.overlay => (h.stp - h.dat) + h.cod + ARENA <= MEMORY

\* While a program runs, the header, the data with heap and stack, and the code or the
\* pool of overlays each have their own part of vm_data, whichever of the two ways of
\* loading it took (main.c:122-152, amx.c:1184-1227).  A program with overlays that
\* leaves no pool is not refused (main.c:135-136), and nothing is said of it.
MemoryIsDivided ==
  pc \in {"run", "configure"} /\ LeavesAPool(hdr) =>
    /\ HeaderPart \union DataPart \union CodePart \subseteq 0 .. MEMORY - 1
    /\ HeaderPart \intersect DataPart = {} /\ HeaderPart \intersect CodePart = {}
    /\ DataPart \intersect CodePart = {}

\* No pin is driven by both sides, although FPGA images and directions change at
\* different times ("Sets all pins to inputs before loading, to avoid any conflicts",
\* fpga.inc:24), except from the end of the reload in amxinit_fpga until the directions
\* are set (amx_fpga.c:162-165).
NoPinConflict == pc # "ports" => outputs \intersect Driven[image] = {}
=============================================================================
