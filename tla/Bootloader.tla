----------------------------- MODULE Bootloader -----------------------------
(***************************************************************************)
(* The part of U-Boot that brings the program into memory: autoboot with   *)
(* its countdown, the commands of bootcmd_bare_arm (ext2load, then bootm), *)
(* the same commands typed at the prompt, and resets, after which memory   *)
(* is as it was except for the words that U-Boot's first stack has         *)
(* overwritten.  Addresses count words from 0x60000000, where the file     *)
(* bare-arm.uimg is read to, which is also the load address and the entry  *)
(* point in its header.                                                    *)
(*                                                                         *)
(* A file is identified by the number of words of its payload.  A word of  *)
(* memory is a pair: <<f, k>> is word k of file f, header first.           *)
(***************************************************************************)
EXTENDS Integers, Sequences

CONSTANTS
    Files,          \* the versions of bare-arm.uimg
    HEADER,         \* words in image_header_t
    BOOTM_LEN,      \* CONFIG_SYS_BOOTM_LEN, in words
    BOOT_PARAMS,    \* LINUX_BOOT_PARAM_ADDR, as an address
    TAG_WORDS,      \* words in the list of tags
    INIT_RAM_SIZE,  \* CONFIG_SYS_INIT_RAM_SIZE, in words
    BOOTDELAY,      \* seconds of the countdown
    MAX_RESETS      \* bound: resets

ASSUME BootloaderAssumption ==
    /\ Files \subseteq Nat \ {0}
    /\ {HEADER, BOOTM_LEN, TAG_WORDS} \subseteq Nat \ {0}
    /\ {BOOT_PARAMS, INIT_RAM_SIZE, BOOTDELAY, MAX_RESETS} \subseteq Nat

VARIABLES
    pc,             \* where U-Boot is; "kernel" once the program runs
    delay,          \* seconds left of the countdown
    cmds,           \* the commands of the line being executed
    card,           \* the file on the card, or 0
    mem,            \* the contents of memory
    os,             \* images.os: the file bootm found, or 0
    moved,          \* words memmove has copied
    resets

vars == <<pc, delay, cmds, card, mem, os, moved, resets>>

Junk == <<0, 0>>
Tag(k) == <<-3, k>>

Tags == BOOT_PARAMS .. BOOT_PARAMS + TAG_WORDS - 1
Memory == (UNION {0 .. HEADER + f - 1 : f \in Files}) \cup Tags

Init ==
    /\ pc = "autoboot"
    /\ delay = BOOTDELAY
    /\ cmds = <<>>
    /\ card \in Files \cup {0}
    /\ mem = [a \in Memory |-> Junk]
    /\ os = 0
    /\ moved = 0
    /\ resets = 0

\* The words that U-Boot's stack may overwrite before U-Boot has relocated itself.
InitRam == Memory \cap 0 .. INIT_RAM_SIZE - 1

\* U-Boot starts again.  The card and the rest of memory are as they were.
Reset ==
    /\ resets < MAX_RESETS
    /\ resets' = resets + 1
    /\ pc' = "autoboot"
    /\ delay' = BOOTDELAY
    /\ cmds' = <<>>
    /\ os' = 0
    /\ moved' = 0
    /\ \E stack \in SUBSET InitRam :
         mem' = [a \in Memory |-> IF a \in stack THEN Junk ELSE mem[a]]
    /\ UNCHANGED card

-----------------------------------------------------------------------------
(* The countdown and the command line.                                     *)

bootcmd_bare_arm == <<"mmc", "ext2load", "bootm">>

\* A second passes without a key.
abortboot_second ==
    /\ pc = "autoboot"
    /\ delay > 0
    /\ delay' = delay - 1
    /\ UNCHANGED <<pc, cmds, card, mem, os, moved, resets>>

\* A key is consumed and leads to the prompt.
abortboot_key ==
    /\ pc = "autoboot"
    /\ pc' = "shell"
    /\ delay' = 0
    /\ UNCHANGED <<cmds, card, mem, os, moved, resets>>

autoboot_command ==
    /\ pc = "autoboot"
    /\ delay = 0
    /\ pc' = "shell"
    /\ cmds' = bootcmd_bare_arm
    /\ UNCHANGED <<delay, card, mem, os, moved, resets>>

\* A line is typed at the prompt.
cli_loop ==
    /\ pc = "shell"
    /\ cmds = <<>>
    /\ \E c \in {"ext2load", "bootm", "reset"} : cmds' = <<c>>
    /\ UNCHANGED <<pc, delay, card, mem, os, moved, resets>>

Command(c) ==
    /\ pc = "shell"
    /\ cmds # <<>>
    /\ Head(cmds) = c

\* The shell goes on with the line whether a command between semicolons has failed
\* or not.
mmc ==
    /\ Command("mmc")
    /\ cmds' = Tail(cmds)
    /\ UNCHANGED <<pc, delay, card, mem, os, moved, resets>>

\* The file is read in the order of its words.  Without a file nothing is read, and
\* after an error of the card what has been read stays.
ext2load ==
    /\ Command("ext2load")
    /\ \E n \in IF card = 0 THEN {0} ELSE 0 .. HEADER + card :
         mem' = [a \in Memory |-> IF a < n THEN <<card, a>> ELSE mem[a]]
    /\ cmds' = Tail(cmds)
    /\ UNCHANGED <<pc, delay, card, os, moved, resets>>

do_reset == Command("reset") /\ Reset

-----------------------------------------------------------------------------
(* bootm.                                                                  *)

\* The magic number is in the first word.  A checksum matches nothing but what it was
\* computed from.
image_check_magic(f) == mem[0] = <<f, 0>>
image_check_hcrc(f) == \A k \in 0 .. HEADER - 1 : mem[k] = <<f, k>>
image_check_dcrc(f) == \A k \in HEADER .. HEADER + f - 1 : mem[k] = <<f, k>>

\* Architecture, type and format are those of a program: every file is one.
image_get_kernel(f) == image_check_magic(f) /\ image_check_hcrc(f) /\ image_check_dcrc(f)

\* bootm_start and bootm_find_os.  An image that fails a check ends the command;
\* otherwise its parameters are copied, the header included.
bootm_find_os ==
    /\ Command("bootm")
    /\ \/ /\ \E f \in Files : image_get_kernel(f) /\ os' = f
          /\ pc' = "load_os"
          /\ UNCHANGED cmds
       \/ /\ ~ \E f \in Files : image_get_kernel(f)
          /\ os' = 0
          /\ cmds' = Tail(cmds)
          /\ UNCHANGED pc
    /\ moved' = 0
    /\ UNCHANGED <<delay, card, mem, resets>>

\* bootm_decomp_image of an image that is too large: BOOTM_ERR_RESET.
bootm_too_large ==
    /\ pc = "load_os"
    /\ os > BOOTM_LEN
    /\ Reset

\* Mutant of Source: the words are moved from the last one down.
Source_backward == os - 1 - moved

\* The word memmove copies next: to is below from, so memcpy goes upwards.
Source == moved

memmove ==
    /\ pc = "load_os"
    /\ os <= BOOTM_LEN
    /\ moved < os
    /\ mem' = [mem EXCEPT ![Source] = mem[HEADER + Source]]
    /\ moved' = moved + 1
    /\ UNCHANGED <<pc, delay, cmds, card, os, resets>>

\* Mutant of AfterLoad: the overlap is an error like any other.
AfterLoad_error == "shell"

\* The image has overwritten its own header: BOOTM_ERR_OVERLAP, which do_bootm_states
\* takes for success, as the header was copied.
AfterLoad == "prep"

bootm_load_os ==
    /\ pc = "load_os"
    /\ os <= BOOTM_LEN
    /\ moved = os
    /\ pc' = AfterLoad
    /\ cmds' = Tail(cmds)
    /\ UNCHANGED <<delay, card, mem, os, moved, resets>>

\* There is no device tree, so the list of tags is written to bi_boot_params.
boot_prep_linux ==
    /\ pc = "prep"
    /\ mem' = [a \in Memory |-> IF a \in Tags THEN Tag(a - BOOT_PARAMS) ELSE mem[a]]
    /\ pc' = "jump"
    /\ UNCHANGED <<delay, cmds, card, os, moved, resets>>

boot_jump_linux ==
    /\ pc = "jump"
    /\ pc' = "kernel"
    /\ UNCHANGED <<delay, cmds, card, mem, os, moved, resets>>

-----------------------------------------------------------------------------
(* The board.                                                              *)

\* The reset button, at any time.
board_reset == Reset

\* The card is exchanged, or taken out.  It matters when it is read, so the exchange
\* can be as late as the countdown or the prompt.
board_card ==
    /\ pc = "autoboot" \/ (pc = "shell" /\ cmds = <<>>)
    /\ \E f \in (Files \cup {0}) \ {card} : card' = f
    /\ UNCHANGED <<pc, delay, cmds, mem, os, moved, resets>>

U_Boot ==
    \/ abortboot_second \/ autoboot_command \/ mmc \/ ext2load \/ do_reset
    \/ bootm_find_os \/ bootm_too_large \/ memmove \/ bootm_load_os
    \/ boot_prep_linux \/ boot_jump_linux

Environment == abortboot_key \/ cli_loop \/ board_reset \/ board_card

Next == U_Boot \/ Environment

\* U-Boot executes; nobody need touch the board.
Spec == Init /\ [][Next]_vars /\ WF_vars(U_Boot)

-----------------------------------------------------------------------------
(* Properties.                                                             *)

\* The program is entered with all of one version's payload at its load address,
\* whatever loads have failed and resets have happened before, except for the
\* words under the list of tags.
EntersWholeImage ==
    pc = "kernel" => \A k \in 0 .. os - 1 : mem[k] = <<os, HEADER + k>> \/ k \in Tags

Loaded(f) == \A k \in 0 .. HEADER + f - 1 : mem[k] = <<f, k>>

\* A file that has been read completely, and is not too large, is what bootm enters,
\* whatever earlier attempts have left in memory; only a reset prevents it.
LoadedIsEntered ==
    \A f \in {g \in Files : g <= BOOTM_LEN} :
        (Command("bootm") /\ Loaded(f))
            ~> (pc = "kernel" /\ os = f) \/ pc = "autoboot"

=============================================================================
