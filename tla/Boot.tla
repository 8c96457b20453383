-------------------------------- MODULE Boot --------------------------------
(***************************************************************************)
(* From power-up to main: U-Boot (Bootloader) loads the program and enters *)
(* it, and Reset_Handler (Startup) initialises RAM out of the image U-Boot *)
(* has left.  A reset may come at any time, in Reset_Handler too.          *)
(***************************************************************************)
EXTENDS Bootloader

CONSTANTS MAX_SIZE, STACK_SIZE

\* .data is a part of every image.
ASSUME BootAssumption ==
    /\ {MAX_SIZE, STACK_SIZE} \subseteq Nat \ {0}
    /\ \A f \in Files : MAX_SIZE + (MAX_SIZE % 2) <= f

VARIABLES data_size, bss_size, ram, phase, r0, r1, sp, mode, masked, vbar, step

\* The image is the memory at 0x60000000, and .data, up to its alignment, is at its end.
text_end == os - (data_size + (data_size % 2))
S == INSTANCE Startup WITH rom <- mem

program == <<ram, phase, r0, r1, sp, mode, masked, vbar, step>>
allvars == <<vars, data_size, bss_size, program>>

BootInit ==
    /\ Init
    /\ data_size \in 0 .. MAX_SIZE
    /\ bss_size \in 0 .. MAX_SIZE
    /\ ram = S!Entry.ram /\ phase = S!Entry.phase /\ r0 = S!Entry.r0 /\ r1 = S!Entry.r1
    /\ sp = S!Entry.sp /\ mode = S!Entry.mode /\ masked = S!Entry.masked
    /\ vbar = S!Entry.vbar /\ step = S!Entry.step

\* U-Boot and the environment of U-Boot; the program has not been entered.
Loading ==
    /\ U_Boot \/ abortboot_key \/ cli_loop \/ board_card
    /\ UNCHANGED <<data_size, bss_size, program>>

\* U-Boot's start.S runs again; nothing is assumed of RAM.
Resetting ==
    /\ board_reset
    /\ ram' = S!Entry.ram /\ phase' = S!Entry.phase /\ r0' = S!Entry.r0 /\ r1' = S!Entry.r1
    /\ sp' = S!Entry.sp /\ mode' = S!Entry.mode /\ masked' = S!Entry.masked
    /\ vbar' = S!Entry.vbar /\ step' = S!Entry.step
    /\ UNCHANGED <<data_size, bss_size>>

Starting ==
    /\ pc = "kernel"
    /\ UNCHANGED <<vars, data_size, bss_size>>
    /\ S!Next

BootNext == Loading \/ Resetting \/ Starting

\* The processor executes U-Boot and then the program.
BootSpec ==
    /\ BootInit
    /\ [][BootNext]_allvars
    /\ WF_allvars(U_Boot /\ UNCHANGED <<data_size, bss_size, program>>)
    /\ WF_allvars(Starting)

-----------------------------------------------------------------------------
(* Properties.                                                             *)

\* The initial values of main's variables are those of the version that was loaded,
\* word for word as linked, and 0 in .bss, after failed loads and resets too.
\* The exception is a word of .data that lies under the list of tags.
MainFindsItsVariables ==
    step = "main" =>
        /\ \A k \in 0 .. data_size - 1 :
             ram[k] = <<os, HEADER + text_end + k>> \/ text_end + k \in Tags
        /\ \A k \in 0 .. bss_size - 1 : ram[S!bss_start + k] = S!Zero

\* Startup's MainFindsItsStacks and UnmaskedWithOwnVectors, from any entry.
MainFindsItsStacks == S!MainFindsItsStacks
UnmaskedWithOwnVectors == S!UnmaskedWithOwnVectors

\* Once U-Boot jumps, every loop of Reset_Handler ends and main is reached, unless
\* the board is reset.
MainReached == pc = "jump" ~> (step = "main" \/ pc = "autoboot")

=============================================================================
