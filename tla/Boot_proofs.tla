---------------------------- MODULE Boot_proofs ----------------------------
(***************************************************************************)
(* Proofs about Bootloader and Boot, for sections, stacks, headers and     *)
(* files of any size and every place of the tags.                          *)
(*                                                                         *)
(* U-Boot's move of the payload overlaps its source, so the first          *)
(* invariant says of each word on which side of the move it is.  The five  *)
(* loops of Reset_Handler run over disjoint regions, so the second says of *)
(* every word of RAM which loop has written it.                            *)
(***************************************************************************)
EXTENDS Boot, TLAPS

-----------------------------------------------------------------------------
(* U-Boot.                                                                 *)


\* The words of the payload below n are in their place; those from n on are where
\* the file was read to.
Placed(n) == \A k \in 0 .. n - 1 : mem[k] = <<os, HEADER + k>>
Unmoved(n) == \A k \in n .. os - 1 : mem[HEADER + k] = <<os, HEADER + k>>
PlacedBesidesTags == \A k \in 0 .. os - 1 : mem[k] = <<os, HEADER + k>> \/ k \in Tags

\* The inductive invariant: where bootm has got to says what memory holds.
IInv ==
    /\ card \in Files \cup {0}
    /\ mem \in [Memory -> Int \X Int]
    /\ pc \in {"load_os", "prep", "jump", "kernel"} => os \in Files
    /\ pc = "load_os" => moved \in 0 .. os /\ Placed(moved) /\ Unmoved(moved)
    /\ pc = "prep" => Placed(os)
    /\ pc \in {"jump", "kernel"} => PlacedBesidesTags

\* The payload of a file lies in memory before and after the move.
LEMMA PayloadInMemory ==
    ASSUME NEW f \in Files, NEW k \in 0 .. f - 1
    PROVE  /\ k \in Memory
           /\ HEADER + k \in Memory
<1>1. k \in 0 .. HEADER + f - 1 /\ HEADER + k \in 0 .. HEADER + f - 1
  BY BootloaderAssumption
<1> QED
  BY <1>1 DEF Memory

\* A file that passes the checks of image_get_kernel is where it was read to.
LEMMA CheckedIsUnmoved ==
    ASSUME NEW f \in Files, image_get_kernel(f), NEW k \in 0 .. f - 1
    PROVE  mem[HEADER + k] = <<f, HEADER + k>>
<1>1. HEADER + k \in HEADER .. HEADER + f - 1
  BY BootloaderAssumption
<1> QED
  BY <1>1 DEF image_get_kernel, image_check_dcrc

\* One word moved: forwards, so that no word still to be moved is overwritten.
LEMMA MoveKeepsInv == IInv /\ memmove => IInv'
<1> SUFFICES ASSUME IInv, memmove PROVE IInv'
  OBVIOUS
<1>a. /\ pc = "load_os" /\ pc' = pc /\ os' = os /\ card' = card
      /\ moved < os /\ moved' = moved + 1
  BY DEF memmove
<1>b. os \in Files /\ moved \in 0 .. os
  BY <1>a DEF IInv
<1>c. os \in Nat /\ HEADER \in Nat \ {0}
  BY <1>b, BootloaderAssumption
<1>1. /\ os \in Files /\ os \in Nat /\ HEADER \in Nat \ {0}
      /\ moved \in 0 .. os - 1 /\ moved' = moved + 1
      /\ pc = "load_os" /\ pc' = pc /\ os' = os /\ card' = card
  BY <1>a, <1>b, <1>c
<1>2. moved \in Memory
  BY <1>1, PayloadInMemory
<1>3. mem' = [mem EXCEPT ![moved] = mem[HEADER + moved]]
  BY DEF memmove, Source
<1>4. mem' \in [Memory -> Int \X Int]
  BY <1>1, <1>2, <1>3, PayloadInMemory DEF IInv
<1>5. mem[HEADER + moved] = <<os, HEADER + moved>>
  BY <1>1 DEF IInv, Unmoved
<1>6. Placed(moved)'
  <2> SUFFICES ASSUME NEW k \in 0 .. moved PROVE mem'[k] = <<os, HEADER + k>>
    BY <1>1 DEF Placed
  <2>1. k \in Memory
    BY <1>1, PayloadInMemory
  <2>2. CASE k = moved
    BY <2>1, <2>2, <1>3, <1>5 DEF IInv
  <2>3. CASE k # moved
    <3>1. mem'[k] = mem[k]
      BY <2>1, <2>3, <1>3 DEF IInv
    <3>2. k \in 0 .. moved - 1
      BY <2>3, <1>1
    <3> QED
      BY <3>1, <3>2, <1>1 DEF IInv, Placed
  <2> QED
    BY <2>2, <2>3
<1>7. Unmoved(moved)'
  <2> SUFFICES ASSUME NEW k \in moved + 1 .. os - 1 PROVE mem'[HEADER + k] = <<os, HEADER + k>>
    BY <1>1 DEF Unmoved
  <2>1. HEADER + k \in Memory
    BY <1>1, PayloadInMemory
  <2>2. HEADER + k # moved
    BY <1>1
  <2>3. mem'[HEADER + k] = mem[HEADER + k]
    BY <2>1, <2>2, <1>3 DEF IInv
  <2>4. k \in moved .. os - 1
    BY <1>1
  <2> QED
    BY <2>3, <2>4, <1>1 DEF IInv, Unmoved
<1>8. moved' \in 0 .. os'
  BY <1>1
<1> QED
  BY <1>1, <1>4, <1>6, <1>7, <1>8 DEF IInv

\* The inductive step, action by action.
LEMMA InvNext == IInv /\ [Next]_vars => IInv'
<1> SUFFICES ASSUME IInv, [Next]_vars PROVE IInv'
  OBVIOUS
<1> USE DEF IInv, Placed, Unmoved, PlacedBesidesTags
<1>1. CASE Reset
  <2>1. pc' = "autoboot" /\ card' = card
    BY <1>1 DEF Reset
  <2>2. PICK stack : mem' = [a \in Memory |-> IF a \in stack THEN Junk ELSE mem[a]]
    BY <1>1 DEF Reset
  <2>3. mem' \in [Memory -> Int \X Int]
    BY <2>2 DEF Junk
  <2> QED
    BY <2>1, <2>3
<1>2. CASE abortboot_second \/ abortboot_key \/ autoboot_command \/ cli_loop \/ mmc
  BY <1>2 DEF abortboot_second, abortboot_key, autoboot_command, cli_loop, mmc, Command
<1>3. CASE ext2load
  <2>1. PICK n : mem' = [a \in Memory |-> IF a < n THEN <<card, a>> ELSE mem[a]]
    BY <1>3 DEF ext2load
  <2>2. Memory \subseteq Int /\ card \in Int
    BY BootloaderAssumption DEF Memory, Tags
  <2>3. mem' \in [Memory -> Int \X Int]
    BY <2>1, <2>2
  <2> QED
    BY <1>3, <2>3 DEF ext2load, Command
<1>4. CASE bootm_find_os
  <2>1. CASE pc' = "load_os"
    <3>1. PICK f \in Files : image_get_kernel(f) /\ os' = f
      BY <1>4, <2>1 DEF bootm_find_os, Command
    <3>2. mem' = mem /\ card' = card /\ moved' = 0 /\ f \in Nat
      BY <1>4, BootloaderAssumption DEF bootm_find_os
    <3>3. \A k \in 0 .. f - 1 : mem[HEADER + k] = <<f, HEADER + k>>
      BY <3>1, CheckedIsUnmoved
    <3>4. Unmoved(moved)' /\ Placed(moved)' /\ moved' \in 0 .. os'
      BY <3>1, <3>2, <3>3
    <3> QED
      BY <2>1, <3>1, <3>2, <3>4
  <2>2. CASE pc' = "shell"
    BY <1>4, <2>2 DEF bootm_find_os, Command
  <2> QED
    BY <1>4, <2>1, <2>2 DEF bootm_find_os, Command
<1>5. CASE memmove
  BY <1>5, MoveKeepsInv
<1>6. CASE bootm_load_os
  BY <1>6 DEF bootm_load_os, AfterLoad
<1>7. CASE boot_prep_linux
  <2>1. /\ pc = "prep" /\ pc' = "jump" /\ os' = os /\ os \in Files
        /\ mem' = [a \in Memory |-> IF a \in Tags THEN Tag(a - BOOT_PARAMS) ELSE mem[a]]
    BY <1>7 DEF boot_prep_linux
  <2>2. ASSUME NEW k \in 0 .. os - 1 PROVE mem'[k] = <<os, HEADER + k>> \/ k \in Tags
    <3>1. k \in Memory
      BY <2>1, PayloadInMemory
    <3> QED
      BY <2>1, <3>1
  <2>3. mem' \in [Memory -> Int \X Int]
    BY <2>1, BootloaderAssumption DEF Tag, Tags
  <2> QED
    BY <1>7, <2>1, <2>2, <2>3 DEF boot_prep_linux
<1>8. CASE boot_jump_linux
  BY <1>8 DEF boot_jump_linux
<1>9. CASE board_card
  BY <1>9 DEF board_card
<1>10. CASE UNCHANGED vars
  BY <1>10 DEF vars
<1> QED
  BY <1>1, <1>2, <1>3, <1>4, <1>5, <1>6, <1>7, <1>8, <1>9, <1>10
  DEF Next, U_Boot, Environment, do_reset, bootm_too_large, board_reset

\* EntersWholeImage, the promise bootm makes to the program it enters: whatever
\* ext2load left unfinished and whenever the board was reset, the payload is whole.
THEOREM EntersWholeTheorem == Spec => []EntersWholeImage
<1>1. Init => IInv
  BY DEF Init, IInv, Junk
<1>2. IInv => EntersWholeImage
  BY DEF IInv, EntersWholeImage, PlacedBesidesTags
<1> QED
  BY <1>1, <1>2, InvNext, PTL DEF Spec

-----------------------------------------------------------------------------
(* Reset_Handler.                                                          *)

From(p) == S!Phases[p].from
To(p) == S!Phases[p].to

\* The first word that loop p has not written.
Reached(p) ==
    IF phase > p THEN To(p)
    ELSE IF phase = p /\ step = "loop" THEN r1
    ELSE From(p)

\* What loop p stores at address a.
Value(p, a) == IF p = S!DataPhase THEN mem[text_end + a] ELSE S!Phases[p].value

Sizes == data_size \in 0 .. MAX_SIZE /\ bss_size \in 0 .. MAX_SIZE

\* Where Reset_Handler is.
Control ==
    /\ phase \in 1 .. 6
    /\ step \in {"vector", "enter", "loop", "cpsid", "main"}
    /\ step = "vector" => phase = 1
    /\ step \in {"enter", "loop"} => phase \in 1 .. 5
    /\ step \in {"cpsid", "main"} => phase = 6
    /\ step = "loop" => r1 \in From(phase) .. To(phase)
    /\ step = "loop" /\ phase = S!DataPhase => r0 = text_end + r1

\* Every word of RAM is what the loop that has reached it stored, or untouched.
Contents ==
    /\ ram \in [S!Ram -> Int \X Int]
    /\ \A a \in S!Ram :
         /\ \A p \in 1 .. 5 : a \in From(p) .. Reached(p) - 1 => ram[a] = Value(p, a)
         /\ (\A p \in 1 .. 5 : a \notin From(p) .. Reached(p) - 1) => ram[a] = S!Junk

\* Each of the first three loops sets the stack pointer of its mode.
Stacks ==
    /\ DOMAIN sp = {"FIQ", "IRQ", "SVC"}
    /\ phase > 1 => sp["FIQ"] = To(1)
    /\ phase > 2 => sp["IRQ"] = To(2)
    /\ phase > 3 => sp["SVC"] = To(3)
    /\ step = "loop" /\ phase = 1 => sp["FIQ"] = To(1)
    /\ step = "loop" /\ phase = 2 => sp["IRQ"] = To(2)
    /\ step = "loop" /\ phase = 3 => sp["SVC"] = To(3)
    /\ phase > 3 => mode = "SVC"
    /\ step = "loop" /\ phase = 3 => mode = "SVC"

\* Reset_Handler runs once U-Boot has jumped, and U-Boot does not run any more.
Entered == pc # "kernel" => step = "vector"

\* The masks are set up to the first loop and from cpsid on.
Masks ==
    /\ step = "vector" => masked
    /\ step # "vector" => vbar = "_Reset"
    /\ step = "main" => masked

\* The pattern of the stacks comes from nowhere else.
NoFill == \A a \in Memory : mem[a] # S!Fill

-----------------------------------------------------------------------------
(* The linker script.                                                      *)

\* The sections and the stacks follow each other in RAM.
LEMMA Layout ==
    ASSUME Sizes
    PROVE  /\ S!data_end \in Nat
           /\ S!data_end = data_size + (data_size % 2)
           /\ data_size <= S!data_end
           /\ S!data_end <= MAX_SIZE + (MAX_SIZE % 2)
           /\ S!bss_start = S!data_end
           /\ S!bss_end \in Nat
           /\ S!bss_start + bss_size <= S!bss_end
           /\ S!bss_end <= 2 * (MAX_SIZE + (MAX_SIZE % 2))
<1>1. MAX_SIZE \in Nat /\ data_size \in 0 .. MAX_SIZE /\ bss_size \in 0 .. MAX_SIZE
  BY BootAssumption DEF Sizes
<1>2. S!data_end = data_size + (data_size % 2)
  BY <1>1 DEF S!data_end, S!data_start, S!Aligned
<1>3. data_size + (data_size % 2) <= MAX_SIZE + (MAX_SIZE % 2)
  BY <1>1
<1>4. S!bss_start = S!data_end
  BY DEF S!bss_start
<1>5. S!bss_end = S!data_end + bss_size + ((S!data_end + bss_size) % 2)
  BY DEF S!bss_end, S!bss_start, S!Aligned
<1>6. (S!data_end + bss_size) % 2 = bss_size % 2
  BY <1>1, <1>2
<1>7. bss_size + (bss_size % 2) <= MAX_SIZE + (MAX_SIZE % 2)
  BY <1>1
<1> QED
  BY <1>1, <1>2, <1>3, <1>4, <1>5, <1>6, <1>7

\* The rows of Phases.
LEMMA PhaseTable ==
    /\ From(1) = S!fiq_stack_start /\ To(1) = S!irq_stack_start
    /\ From(2) = S!irq_stack_start /\ To(2) = S!usr_stack_start
    /\ From(3) = S!stack_start /\ To(3) = S!stack_end
    /\ From(4) = 0 /\ To(4) = S!data_end
    /\ From(5) = S!bss_start /\ To(5) = S!bss_end
    /\ \A p \in 1 .. 3 : S!Phases[p].value = S!Fill /\ S!Phases[p].stack
    /\ S!Phases[5].value = S!Zero
    /\ ~S!Phases[4].stack /\ ~S!Phases[5].stack
    /\ S!Phases[1].mode = "FIQ" /\ S!Phases[2].mode = "IRQ"
    /\ \A p \in 3 .. 5 : S!Phases[p].mode = "SVC"
    /\ Len(S!Phases) = 5
BY DEF From, To, S!Phases, S!data_start

\* The stacks, one after the other.
LEMMA StackTable ==
    ASSUME Sizes
    PROVE  /\ From(1) = S!bss_end
           /\ To(1) = S!bss_end + STACK_SIZE
           /\ From(2) = S!bss_end + STACK_SIZE
           /\ To(2) = S!bss_end + 2 * STACK_SIZE
           /\ From(3) = S!bss_end + 3 * STACK_SIZE
           /\ To(3) = S!bss_end + 4 * STACK_SIZE
<1>1. STACK_SIZE \in Nat /\ S!bss_end \in Nat
  BY Layout, BootAssumption
<1> QED
  BY <1>1, PhaseTable
     DEF S!fiq_stack_start, S!irq_stack_start, S!usr_stack_start, S!stack_start, S!stack_end

\* The loops run upwards, inside RAM.
LEMMA PhaseInRam ==
    ASSUME Sizes, NEW p \in 1 .. 5
    PROVE  /\ From(p) \in Nat
           /\ To(p) \in Nat
           /\ From(p) <= To(p)
           /\ \A a \in From(p) .. To(p) - 1 : a \in S!Ram
<1>1. STACK_SIZE \in Nat /\ MAX_SIZE \in Nat /\ bss_size \in Nat
  BY BootAssumption DEF Sizes
<1>2. S!Ram = 0 .. 2 * (MAX_SIZE + (MAX_SIZE % 2)) + 4 * STACK_SIZE + 1
  BY DEF S!Ram, S!Aligned
<1>3. p \in {1, 2, 3} \/ p = 4 \/ p = 5
  OBVIOUS
<1>4. From(p) \in Nat /\ To(p) \in Nat /\ From(p) <= To(p)
  BY <1>1, <1>3, Layout, StackTable, PhaseTable
<1>5. To(p) <= 2 * (MAX_SIZE + (MAX_SIZE % 2)) + 4 * STACK_SIZE
  BY <1>1, <1>3, Layout, StackTable, PhaseTable
<1> QED
  BY <1>1, <1>2, <1>4, <1>5

\* No two loops write the same word.
LEMMA PhasesDisjoint ==
    ASSUME Sizes, NEW p \in 1 .. 5, NEW q \in 1 .. 5, p # q,
           NEW a \in From(p) .. To(p) - 1
    PROVE  a \notin From(q) .. To(q) - 1
<1>1. STACK_SIZE \in Nat /\ bss_size \in Nat
  BY BootAssumption DEF Sizes
<1>2. To(p) <= From(q) \/ To(q) <= From(p)
  <2>1. From(4) = 0 /\ To(4) = From(5) /\ From(5) <= To(5) /\ To(5) = From(1)
        /\ From(5) \in Nat /\ To(5) \in Nat
    BY <1>1, Layout, StackTable, PhaseTable
  <2>2. /\ To(1) = From(1) + STACK_SIZE
        /\ From(2) = From(1) + STACK_SIZE /\ To(2) = From(1) + 2 * STACK_SIZE
        /\ From(3) = From(1) + 3 * STACK_SIZE /\ To(3) = From(1) + 4 * STACK_SIZE
    BY StackTable
  <2>3. p \in {1, 2, 3, 4, 5} /\ q \in {1, 2, 3, 4, 5}
    OBVIOUS
  <2> QED
    BY <1>1, <2>1, <2>2, <2>3
<1>3. From(p) \in Nat /\ To(p) \in Nat /\ From(q) \in Nat /\ To(q) \in Nat
  BY PhaseInRam
<1> QED
  BY <1>2, <1>3

\* The layout is fixed when the program is linked.
LEMMA LayoutKept ==
    ASSUME UNCHANGED <<data_size, bss_size>>
    PROVE  S!Phases' = S!Phases /\ (\A p \in 1 .. 5 : From(p)' = From(p) /\ To(p)' = To(p))
<1>1. S!Phases' = S!Phases
  BY DEF S!Phases, S!fiq_stack_start, S!irq_stack_start, S!usr_stack_start, S!stack_start,
     S!stack_end, S!data_start, S!data_end, S!bss_start, S!bss_end, S!Aligned
<1> QED
  BY <1>1 DEF From, To

-----------------------------------------------------------------------------
(* Reset_Handler.                                                          *)

\* .data is at the end of the image that U-Boot has entered.
LEMMA TextEnd ==
    ASSUME Sizes, IInv, pc = "kernel"
    PROVE  os \in Nat /\ text_end \in Nat /\ text_end + S!data_end = os
<1>1. os \in Files
  BY DEF IInv
<1>2. os \in Nat /\ MAX_SIZE + (MAX_SIZE % 2) <= os /\ MAX_SIZE \in Nat
  BY <1>1, BootAssumption, BootloaderAssumption
<1>3. text_end = os - S!data_end
  BY Layout DEF text_end
<1> QED
  BY <1>2, <1>3, Layout

\* Where a step of Reset_Handler leads.
LEMMA ControlStep ==
    ASSUME Sizes, IInv, Control, Starting
    PROVE  Control'
<1>1. UNCHANGED <<mem, os, data_size, bss_size>>
  BY DEF Starting, vars
<1>2. text_end' = text_end /\ S!Phases' = S!Phases
      /\ (\A p \in 1 .. 5 : From(p)' = From(p) /\ To(p)' = To(p))
  BY <1>1, LayoutKept DEF text_end
<1>3. \A p \in 1 .. 5 : From(p) \in Nat /\ To(p) \in Nat /\ From(p) <= To(p)
  BY PhaseInRam
<1>4. CASE S!set_vectors
  BY <1>4 DEF S!set_vectors, Control
<1>5. CASE S!enter
  <2>1. /\ step = "enter" /\ step' = "loop" /\ phase' = phase /\ phase \in 1 .. 5
        /\ r1' = From(phase)
        /\ phase = S!DataPhase => r0' = text_end
    BY <1>5 DEF S!enter, Control, From
  <2>2. r1' \in From(phase)' .. To(phase)'
    BY <1>2, <1>3, <2>1
  <2>3. phase = S!DataPhase => r0' = text_end' + r1'
    <3>1. From(S!DataPhase) = 0
      BY PhaseTable DEF S!DataPhase
    <3>2. text_end + 0 = text_end
      BY TextEnd DEF Starting
    <3> QED
      BY <1>2, <2>1, <3>1, <3>2
  <2> QED
    BY <2>1, <2>2, <2>3 DEF Control
<1>6. CASE S!store
  <2>1. /\ step = "loop" /\ step' = step /\ phase' = phase /\ phase \in 1 .. 5
        /\ r1 < To(phase) /\ r1' = r1 + 1 /\ r1 \in From(phase) .. To(phase)
        /\ phase = S!DataPhase => r0' = r0 + 1
        /\ phase = S!DataPhase => r0 = text_end + r1
    BY <1>6 DEF S!store, Control, To, S!Before, S!NextSource, S!NextDestination
  <2>2. r1' \in From(phase)' .. To(phase)'
    BY <1>2, <1>3, <2>1
  <2>3. phase = S!DataPhase => r0' = text_end' + r1'
    <3>1. r1 \in Int /\ text_end \in Int
      BY <1>3, <2>1, TextEnd DEF Starting
    <3> QED
      BY <1>2, <2>1, <3>1
  <2> QED
    BY <2>1, <2>2, <2>3 DEF Control
<1>7. CASE S!leave
  <2>1. /\ step = "loop" /\ phase \in 1 .. 5 /\ phase' = phase + 1
        /\ step' = IF phase < 5 THEN "enter" ELSE "cpsid"
    BY <1>7, PhaseTable DEF S!leave, Control
  <2> QED
    BY <2>1 DEF Control
<1>8. CASE S!cpsid
  BY <1>8 DEF S!cpsid, Control
<1> QED
  BY <1>4, <1>5, <1>6, <1>7, <1>8 DEF Starting, S!Next

\* Every word of .data is a word of the image.
LEMMA DataInImage ==
    ASSUME Sizes, IInv, pc = "kernel", NEW a \in 0 .. S!data_end - 1
    PROVE  text_end + a \in 0 .. os - 1 /\ text_end + a \in Memory
<1>1. text_end + a \in 0 .. os - 1
  BY TextEnd, Layout
<1>2. os \in Files
  BY DEF IInv
<1> QED
  BY <1>1, <1>2, PayloadInMemory

\* What a loop stores is a word.
LEMMA WordStored ==
    ASSUME Sizes, IInv, pc = "kernel", NEW p \in 1 .. 5, NEW a \in From(p) .. To(p) - 1
    PROVE  Value(p, a) \in Int \X Int
<1>1. CASE p = 4
  <2>1. text_end + a \in Memory
    BY <1>1, PhaseTable, DataInImage
  <2> QED
    BY <1>1, <2>1 DEF Value, S!DataPhase, IInv
<1>2. CASE p # 4
  <2>1. S!Phases[p].value \in {S!Fill, S!Zero}
    BY <1>2, PhaseTable
  <2> QED
    BY <1>2, <2>1 DEF Value, S!DataPhase, S!Fill, S!Zero
<1> QED
  BY <1>1, <1>2

\* One word stored: the loop has reached the next one, and no other loop is affected.
LEMMA StoreContents ==
    ASSUME Sizes, IInv, Control, Contents, Starting, S!store
    PROVE  Contents'
<1>1. UNCHANGED <<mem, os, data_size, bss_size>> /\ pc = "kernel"
  BY DEF Starting, vars
<1>2. text_end' = text_end /\ S!Phases' = S!Phases
      /\ (\A p \in 1 .. 5 : From(p)' = From(p) /\ To(p)' = To(p))
  BY <1>1, LayoutKept DEF text_end
<1>3. \A p \in 1 .. 5 : From(p) \in Nat /\ To(p) \in Nat /\ From(p) <= To(p)
  BY PhaseInRam
<1>4. /\ step = "loop" /\ step' = step /\ phase' = phase /\ phase \in 1 .. 5
      /\ r1 < To(phase) /\ r1' = r1 + 1 /\ r1 \in From(phase) .. To(phase)
      /\ ram' = [ram EXCEPT ![r1] = IF phase = S!DataPhase THEN mem[r0] ELSE S!Phases[phase].value]
      /\ phase = S!DataPhase => r0 = text_end + r1
  BY DEF S!store, Control, To, S!Before, S!NextDestination
<1>5. r1 \in From(phase) .. To(phase) - 1 /\ r1 \in S!Ram /\ r1 \in Nat
  BY <1>3, <1>4, PhaseInRam
<1>6. ram' = [ram EXCEPT ![r1] = Value(phase, r1)]
  BY <1>4 DEF Value
<1>7. \A p \in 1 .. 5 : \A a : Value(p, a)' = Value(p, a)
  BY <1>1, <1>2 DEF Value
<1>8. Reached(phase) = r1 /\ Reached(phase)' = r1 + 1
  BY <1>4 DEF Reached
<1>9. \A p \in 1 .. 5 : p # phase => Reached(p)' = Reached(p) /\ Reached(p) \in {From(p), To(p)}
  BY <1>2, <1>4 DEF Reached
<1>10. Value(phase, r1) \in Int \X Int
  BY <1>1, <1>4, <1>5, WordStored
<1>11. ram' \in [S!Ram -> Int \X Int]
  BY <1>5, <1>6, <1>10 DEF Contents
<1>12. ASSUME NEW a \in S!Ram, a # r1, NEW p \in 1 .. 5
       PROVE  a \in From(p)' .. Reached(p)' - 1 <=> a \in From(p) .. Reached(p) - 1
  <2>1. a \in Int
    BY <1>12 DEF S!Ram
  <2>2. CASE p = phase
    <3>1. From(phase)' = From(phase) /\ From(phase) \in Nat
      BY <1>2, <1>3, <1>4
    <3>2. a \in From(phase)' .. Reached(phase)' - 1 <=> a \in From(phase) .. Reached(phase) - 1
      BY <1>5, <1>8, <1>12, <2>1, <3>1
    <3> QED
      BY <1>2, <1>4, <1>8, <2>2, <3>1, <3>2 DEF Reached
  <2>3. CASE p # phase
    BY <1>2, <1>9, <2>3
  <2> QED
    BY <2>2, <2>3
<1>13. ASSUME NEW p \in 1 .. 5, p # phase
       PROVE  r1 \notin From(p)' .. Reached(p)' - 1
  <2>1. r1 \notin From(p) .. To(p) - 1
    BY <1>4, <1>5, <1>13, PhasesDisjoint
  <2>2. Reached(p)' \in {From(p), To(p)}
    BY <1>9, <1>13
  <2> QED
    BY <1>2, <1>3, <1>5, <2>1, <2>2
<1>14. r1 \in From(phase)' .. Reached(phase)' - 1
  BY <1>2, <1>3, <1>4, <1>5, <1>8
<1>15. ASSUME NEW a \in S!Ram
       PROVE  /\ \A p \in 1 .. 5 : a \in From(p)' .. Reached(p)' - 1 => ram'[a] = Value(p, a)'
              /\ (\A p \in 1 .. 5 : a \notin From(p)' .. Reached(p)' - 1) => ram'[a] = S!Junk
  <2>1. CASE a = r1
    <3>1. ram'[r1] = Value(phase, r1)
      BY <1>5, <1>6 DEF Contents
    <3> QED
      BY <1>4, <1>7, <1>13, <1>14, <2>1, <3>1
  <2>2. CASE a # r1
    <3>1. ram'[a] = ram[a]
      BY <1>6, <2>2 DEF Contents
    <3> QED
      BY <1>7, <1>12, <2>2, <3>1 DEF Contents
  <2> QED
    BY <2>1, <2>2
<1>16. S!Ram' = S!Ram /\ S!Junk' = S!Junk
  BY DEF S!Ram, S!Aligned, S!Junk
<1> QED
  BY <1>11, <1>15, <1>16 DEF Contents

\* The other steps store nothing, and leave where every loop has got to.
LEMMA ContentsStep ==
    ASSUME Sizes, IInv, Control, Contents, Starting
    PROVE  Contents'
<1>1. UNCHANGED <<mem, os, data_size, bss_size>>
  BY DEF Starting, vars
<1>2. text_end' = text_end /\ S!Phases' = S!Phases
      /\ (\A p \in 1 .. 5 : From(p)' = From(p) /\ To(p)' = To(p))
  BY <1>1, LayoutKept DEF text_end
<1>3. \A p \in 1 .. 5 : From(p) \in Nat /\ To(p) \in Nat /\ From(p) <= To(p)
  BY PhaseInRam
<1>4. CASE S!store
  BY <1>4, StoreContents
<1>5. CASE ram' = ram /\ \A p \in 1 .. 5 : Reached(p)' = Reached(p)
  <2>1. \A p \in 1 .. 5 : \A a : Value(p, a)' = Value(p, a)
    BY <1>1, <1>2 DEF Value
  <2>2. S!Ram' = S!Ram /\ S!Junk' = S!Junk
    BY DEF S!Ram, S!Aligned, S!Junk
  <2> QED
    BY <1>2, <1>5, <2>1, <2>2 DEF Contents
<1>6. CASE S!set_vectors \/ S!cpsid
  BY <1>2, <1>5, <1>6 DEF S!set_vectors, S!cpsid, Reached
<1>7. CASE S!enter
  <2>1. step = "enter" /\ step' = "loop" /\ phase' = phase /\ r1' = From(phase) /\ ram' = ram
    BY <1>7 DEF S!enter, From
  <2> QED
    BY <1>2, <1>5, <2>1 DEF Reached
<1>8. CASE S!leave
  <2>1. /\ step = "loop" /\ step' # "loop" /\ phase' = phase + 1 /\ ram' = ram
        /\ phase \in 1 .. 5 /\ ~(r1 < To(phase)) /\ r1 \in From(phase) .. To(phase)
    BY <1>8 DEF S!leave, Control, To, S!Before
  <2>2. r1 = To(phase)
    BY <1>3, <2>1
  <2>3. ASSUME NEW p \in 1 .. 5 PROVE Reached(p)' = Reached(p)
    <3>1. CASE p < phase
      BY <1>2, <2>1, <3>1 DEF Reached
    <3>2. CASE p = phase
      BY <1>2, <2>1, <2>2, <3>2 DEF Reached
    <3>3. CASE p > phase
      BY <1>2, <2>1, <3>3 DEF Reached
    <3> QED
      BY <2>1, <3>1, <3>2, <3>3
  <2> QED
    BY <1>5, <2>1, <2>3
<1> QED
  BY <1>4, <1>6, <1>7, <1>8 DEF Starting, S!Next

\* Each mode has its stack pointer from its loop on.
LEMMA StacksStep ==
    ASSUME Sizes, Control, Stacks, Starting
    PROVE  Stacks'
<1>1. UNCHANGED <<data_size, bss_size>>
  BY DEF Starting
<1>2. To(1)' = To(1) /\ To(2)' = To(2) /\ To(3)' = To(3)
  BY <1>1, LayoutKept
<1>3. CASE S!set_vectors \/ S!cpsid \/ S!store
  BY <1>2, <1>3 DEF S!set_vectors, S!cpsid, S!store, Stacks
<1>4. CASE S!enter
  <2>1. /\ step = "enter" /\ step' = "loop" /\ phase' = phase /\ phase \in 1 .. 5
        /\ mode' = S!Phases[phase].mode
        /\ sp' = IF S!Phases[phase].stack THEN [sp EXCEPT ![S!Phases[phase].mode] = To(phase)]
                                          ELSE sp
    BY <1>4 DEF S!enter, Control, To
  <2>2. CASE phase = 1
    <3>1. sp' = [sp EXCEPT !["FIQ"] = To(1)]
      BY <2>1, <2>2, PhaseTable
    <3> QED
      BY <1>2, <2>1, <2>2, <3>1 DEF Stacks
  <2>3. CASE phase = 2
    <3>1. sp' = [sp EXCEPT !["IRQ"] = To(2)]
      BY <2>1, <2>3, PhaseTable
    <3> QED
      BY <1>2, <2>1, <2>3, <3>1 DEF Stacks
  <2>4. CASE phase = 3
    <3>1. S!Phases[3].stack /\ S!Phases[3].mode = "SVC"
      BY PhaseTable
    <3>2. sp' = [sp EXCEPT !["SVC"] = To(3)] /\ mode' = "SVC"
      BY <2>1, <2>4, <3>1
    <3> QED
      BY <1>2, <2>1, <2>4, <3>2 DEF Stacks
  <2>5. CASE phase \in 4 .. 5
    <3>1. sp' = sp /\ mode' = "SVC"
      BY <2>1, <2>5, PhaseTable
    <3> QED
      BY <1>2, <2>1, <2>5, <3>1 DEF Stacks
  <2> QED
    BY <2>1, <2>2, <2>3, <2>4, <2>5
<1>5. CASE S!leave
  <2>1. /\ step = "loop" /\ step' # "loop" /\ phase' = phase + 1 /\ phase \in 1 .. 5
        /\ sp' = sp /\ mode' = mode
    BY <1>5 DEF S!leave, Control
  <2> QED
    BY <1>2, <2>1 DEF Stacks
<1> QED
  BY <1>3, <1>4, <1>5 DEF Starting, S!Next

\* The vectors are set before the first write of the CPSR.
LEMMA MasksStep ==
    ASSUME Masks, Entered, Starting
    PROVE  Masks' /\ Entered'
<1>1. pc = "kernel" /\ pc' = pc
  BY DEF Starting, vars
<1>2. CASE S!set_vectors \/ S!cpsid
  BY <1>1, <1>2 DEF S!set_vectors, S!cpsid, S!Vectors, Masks, Entered
<1>3. CASE S!enter \/ S!store \/ S!leave
  BY <1>1, <1>3 DEF S!enter, S!store, S!leave, Masks, Entered
<1> QED
  BY <1>2, <1>3 DEF Starting, S!Next

-----------------------------------------------------------------------------
(* U-Boot and resets.                                                      *)

\* RAM as Reset_Handler finds it.
Untouched == ram \in [S!Ram -> Int \X Int] /\ \A a \in S!Ram : ram[a] = S!Junk

\* At the entry no loop has reached anything.
LEMMA AtEntry == Sizes /\ step = "vector" /\ phase = 1 => (Contents <=> Untouched)
<1> SUFFICES ASSUME Sizes, step = "vector", phase = 1 PROVE Contents <=> Untouched
  OBVIOUS
<1>1. \A p \in 1 .. 5 : Reached(p) = From(p) /\ From(p) \in Nat
  BY PhaseInRam DEF Reached
<1>2. \A p \in 1 .. 5 : \A a : a \notin From(p) .. Reached(p) - 1
  BY <1>1
<1> QED
  BY <1>2 DEF Contents, Untouched

\* Nothing U-Boot writes is the pattern of the stacks.
LEMMA NoFillNext == IInv /\ NoFill /\ [Next]_vars => NoFill'
<1> SUFFICES ASSUME IInv, NoFill, [Next]_vars PROVE NoFill'
  OBVIOUS
<1> USE DEF NoFill, S!Fill
<1>1. CASE ext2load
  <2>1. PICK n : mem' = [a \in Memory |-> IF a < n THEN <<card, a>> ELSE mem[a]]
    BY <1>1 DEF ext2load
  <2>2. card \in Nat
    BY BootloaderAssumption DEF IInv
  <2>3. \A a : <<card, a>> # <<-1, 0>>
    BY <2>2
  <2> QED
    BY <2>1, <2>3
<1>2. CASE memmove
  <2>1. /\ os \in Files /\ moved \in 0 .. os - 1
        /\ mem' = [mem EXCEPT ![moved] = mem[HEADER + moved]]
    <3>1. pc = "load_os" /\ moved < os
      BY <1>2 DEF memmove
    <3>2. os \in Files /\ moved \in 0 .. os
      BY <3>1 DEF IInv
    <3>3. os \in Nat
      BY <3>2, BootloaderAssumption
    <3> QED
      BY <1>2, <3>1, <3>2, <3>3 DEF memmove, Source
  <2>2. HEADER + moved \in Memory
    BY <2>1, PayloadInMemory
  <2>3. mem \in [Memory -> Int \X Int]
    BY DEF IInv
  <2> QED
    BY <2>1, <2>2, <2>3
<1>3. CASE boot_prep_linux
  <2>1. mem' = [a \in Memory |-> IF a \in Tags THEN Tag(a - BOOT_PARAMS) ELSE mem[a]]
    BY <1>3 DEF boot_prep_linux
  <2>2. \A k : Tag(k) # <<-1, 0>>
    BY DEF Tag
  <2> QED
    BY <2>1, <2>2
<1>4. CASE Reset
  <2>1. PICK stack : mem' = [a \in Memory |-> IF a \in stack THEN Junk ELSE mem[a]]
    BY <1>4 DEF Reset
  <2>2. Junk # <<-1, 0>>
    BY DEF Junk
  <2> QED
    BY <2>1, <2>2
<1>5. CASE mem' = mem
  BY <1>5
<1>6. [Next]_vars => ext2load \/ memmove \/ boot_prep_linux \/ Reset \/ mem' = mem
  BY DEF Next, U_Boot, Environment, vars, abortboot_second, abortboot_key,
     autoboot_command, cli_loop, mmc, do_reset, bootm_find_os, bootm_too_large,
     bootm_load_os, boot_jump_linux, board_reset, board_card
<1> QED
  BY <1>1, <1>2, <1>3, <1>4, <1>5, <1>6

\* U-Boot runs before the program is entered.
LEMMA LoadingBefore == Loading => pc # "kernel"
BY DEF Loading, U_Boot, abortboot_second, abortboot_key, autoboot_command, cli_loop, mmc,
   ext2load, do_reset, bootm_find_os, bootm_too_large, memmove, bootm_load_os,
   boot_prep_linux, boot_jump_linux, board_card, Command

\* A step of the whole is a step of U-Boot or leaves U-Boot's state alone.
LEMMA BootStep == [BootNext]_allvars => [Next]_vars /\ UNCHANGED <<data_size, bss_size>>
BY DEF BootNext, Loading, Resetting, Starting, allvars, Next, Environment

-----------------------------------------------------------------------------
(* The invariant.                                                          *)

BootInv ==
    /\ Sizes /\ IInv /\ NoFill
    /\ Control /\ Contents /\ Stacks /\ Entered /\ Masks

\* What the program's part of the invariant says while U-Boot runs.
Fresh == step = "vector" /\ phase = 1 /\ masked /\ DOMAIN sp = {"FIQ", "IRQ", "SVC"} /\ Untouched

\* The state at the entry satisfies the invariant.
LEMMA FreshInv == Sizes /\ Fresh => Control /\ Contents /\ Stacks /\ Entered /\ Masks
<1> SUFFICES ASSUME Sizes, Fresh PROVE Control /\ Contents /\ Stacks /\ Entered /\ Masks
  OBVIOUS
<1>1. step = "vector" /\ phase = 1 /\ masked /\ DOMAIN sp = {"FIQ", "IRQ", "SVC"} /\ Untouched
  BY DEF Fresh
<1>2. Contents
  BY <1>1, AtEntry
<1>3. Control /\ Stacks
  BY <1>1 DEF Control, Stacks
<1>4. Entered /\ Masks
  BY <1>1 DEF Entered, Masks
<1> QED
  BY <1>2, <1>3, <1>4

\* While U-Boot runs the program is as at its entry.
LEMMA InvFresh == BootInv /\ pc # "kernel" => Fresh
<1> SUFFICES ASSUME BootInv, pc # "kernel" PROVE Fresh
  OBVIOUS
<1>1. step = "vector" /\ Sizes /\ Contents /\ DOMAIN sp = {"FIQ", "IRQ", "SVC"}
  BY DEF BootInv, Entered, Stacks
<1>2. phase = 1 /\ masked
  BY <1>1 DEF BootInv, Control, Masks
<1> QED
  BY <1>1, <1>2, AtEntry DEF Fresh

\* Entry, the state U-Boot's start.S sets up, is such a state.
LEMMA EntryUntouched == [a \in S!Ram |-> S!Junk] \in [S!Ram -> Int \X Int]
BY DEF S!Junk

\* The inductive step.
LEMMA BootInvNext == BootInv /\ [BootNext]_allvars => BootInv'
<1> SUFFICES ASSUME BootInv, [BootNext]_allvars PROVE BootInv'
  OBVIOUS
<1>1. [Next]_vars /\ UNCHANGED <<data_size, bss_size>>
  BY BootStep
<1>2. Sizes' /\ IInv' /\ NoFill'
  BY <1>1, InvNext, NoFillNext DEF BootInv, Sizes
<1>3. (Sizes /\ Fresh => Control /\ Contents /\ Stacks /\ Entered /\ Masks)'
  BY FreshInv, PTL
<1>4. S!Ram' = S!Ram /\ S!Junk' = S!Junk
  BY DEF S!Ram, S!Aligned, S!Junk
<1>5. CASE Loading
  <2>1. Fresh /\ UNCHANGED <<ram, step, phase, masked, sp>>
    BY <1>5, LoadingBefore, InvFresh DEF Loading, program
  <2>2. Fresh'
    BY <1>4, <2>1 DEF Fresh, Untouched
  <2> QED
    BY <1>2, <1>3, <2>2 DEF BootInv
<1>6. CASE Resetting
  <2>1. /\ ram' = [a \in S!Ram |-> S!Junk] /\ step' = "vector" /\ phase' = 1 /\ masked'
        /\ sp' = [m \in {"FIQ", "IRQ", "SVC"} |-> -1]
    BY <1>6 DEF Resetting, S!Entry
  <2>2. Untouched'
    BY <1>4, <2>1, EntryUntouched DEF Untouched
  <2>3. Fresh'
    BY <2>1, <2>2 DEF Fresh
  <2> QED
    BY <1>2, <1>3, <2>3 DEF BootInv
<1>7. CASE Starting
  BY <1>2, <1>7, ControlStep, ContentsStep, StacksStep, MasksStep DEF BootInv
<1>8. CASE UNCHANGED allvars
  <2>1. UNCHANGED <<pc, mem, os, data_size, bss_size, ram, phase, r0, r1, sp, mode, masked, vbar, step>>
    BY <1>8 DEF allvars, vars, program
  <2>2. text_end' = text_end /\ S!Phases' = S!Phases
        /\ (\A p \in 1 .. 5 : From(p)' = From(p) /\ To(p)' = To(p))
    BY <2>1, LayoutKept DEF text_end
  <2>3. \A p \in 1 .. 5 : Reached(p)' = Reached(p) /\ \A a : Value(p, a)' = Value(p, a)
    BY <2>1, <2>2 DEF Reached, Value
  <2>4. Contents'
    BY <1>4, <2>1, <2>3, <2>2 DEF BootInv, Contents
  <2>5. Control'
    BY <2>1, <2>2 DEF BootInv, Control
  <2>6. Stacks' /\ Entered' /\ Masks'
    BY <2>1, <2>2 DEF BootInv, Stacks, Entered, Masks
  <2> QED
    BY <1>2, <2>4, <2>5, <2>6 DEF BootInv
<1> QED
  BY <1>5, <1>6, <1>7, <1>8 DEF BootNext

\* The invariant holds from power-up on.
LEMMA BootInvariant == BootSpec => []BootInv
<1>1. BootInit => BootInv
  <2> SUFFICES ASSUME BootInit PROVE BootInv
    OBVIOUS
  <2>1. Sizes
    BY DEF BootInit, Sizes
  <2>2. /\ ram = [a \in S!Ram |-> S!Junk] /\ step = "vector" /\ phase = 1 /\ masked
        /\ sp = [m \in {"FIQ", "IRQ", "SVC"} |-> -1]
    BY DEF BootInit, S!Entry
  <2>3. Untouched
    BY <2>2, EntryUntouched DEF Untouched
  <2>4. Fresh
    BY <2>2, <2>3 DEF Fresh
  <2>5. IInv /\ NoFill
    BY DEF BootInit, Init, IInv, NoFill, Junk, S!Fill
  <2> QED
    BY <2>1, <2>4, <2>5, FreshInv DEF BootInv
<1> QED
  BY <1>1, BootInvNext, PTL DEF BootSpec

\* In main every loop has come to its end.
LEMMA AtMain ==
    ASSUME BootInv, step = "main"
    PROVE  /\ pc = "kernel"
           /\ \A a \in S!Ram :
                /\ \A p \in 1 .. 5 : a \in From(p) .. To(p) - 1 => ram[a] = Value(p, a)
                /\ (\A p \in 1 .. 5 : a \notin From(p) .. To(p) - 1) => ram[a] = S!Junk
<1>1. pc = "kernel" /\ phase = 6
  BY DEF BootInv, Entered, Control
<1>2. \A p \in 1 .. 5 : Reached(p) = To(p)
  BY <1>1 DEF Reached
<1> QED
  BY <1>1, <1>2 DEF BootInv, Contents

\* MainFindsItsVariables: whatever version U-Boot has entered, and however often the
\* board was reset inside the loops of Reset_Handler, .data and .bss are initialised.
THEOREM VariablesTheorem == BootSpec => []MainFindsItsVariables
<1>1. BootInv => MainFindsItsVariables
  <2> SUFFICES ASSUME BootInv, step = "main" PROVE MainFindsItsVariables
    BY DEF MainFindsItsVariables
  <2>1. Sizes /\ IInv /\ pc = "kernel"
    BY AtMain DEF BootInv
  <2>2. data_size \in Nat /\ bss_size \in Nat
    BY <2>1, BootAssumption DEF Sizes
  <2>3. ASSUME NEW k \in 0 .. data_size - 1
        PROVE  ram[k] = <<os, HEADER + text_end + k>> \/ text_end + k \in Tags
    <3>1. k \in 0 .. S!data_end - 1
      BY <2>1, <2>2, Layout
    <3>2. k \in From(4) .. To(4) - 1
      BY <3>1, PhaseTable
    <3>3. k \in S!Ram
      BY <2>1, <3>2, PhaseInRam
    <3>4. ram[k] = mem[text_end + k]
      BY <3>2, <3>3, AtMain DEF Value, S!DataPhase
    <3>5. text_end + k \in 0 .. os - 1
      BY <2>1, <3>1, DataInImage
    <3>6. mem[text_end + k] = <<os, HEADER + (text_end + k)>> \/ text_end + k \in Tags
      BY <2>1, <3>5 DEF IInv, PlacedBesidesTags
    <3>7. HEADER + (text_end + k) = HEADER + text_end + k
      BY <2>1, TextEnd, BootloaderAssumption
    <3> QED
      BY <3>4, <3>6, <3>7
  <2>4. ASSUME NEW k \in 0 .. bss_size - 1
        PROVE  ram[S!bss_start + k] = S!Zero
    <3>1. S!bss_start + k \in From(5) .. To(5) - 1
      BY <2>1, <2>2, Layout, PhaseTable
    <3>2. S!bss_start + k \in S!Ram
      BY <2>1, <3>1, PhaseInRam
    <3>3. Value(5, S!bss_start + k) = S!Zero
      BY PhaseTable DEF Value, S!DataPhase
    <3> QED
      BY <3>1, <3>2, <3>3, AtMain
  <2> QED
    BY <2>3, <2>4 DEF MainFindsItsVariables
<1> QED
  BY <1>1, BootInvariant, PTL

\* MainFindsItsStacks: the regions that Reset_Handler fills are exactly the three
\* stacks, each of them below its stack pointer.
THEOREM StacksTheorem == BootSpec => []MainFindsItsStacks
<1>1. BootInv => MainFindsItsStacks
  <2> SUFFICES ASSUME BootInv, step = "main" PROVE MainFindsItsStacks
    BY DEF MainFindsItsStacks, S!MainFindsItsStacks
  <2>1. Sizes /\ IInv /\ NoFill /\ pc = "kernel" /\ phase = 6
    BY AtMain DEF BootInv, Control
  <2>2. /\ DOMAIN sp = {"FIQ", "IRQ", "SVC"} /\ mode = "SVC"
        /\ sp["FIQ"] = To(1) /\ sp["IRQ"] = To(2) /\ sp["SVC"] = To(3)
    BY <2>1 DEF BootInv, Stacks
  <2>3. masked
    BY DEF BootInv, Masks
  <2>4. /\ STACK_SIZE \in Nat \ {0} /\ S!bss_end \in Nat /\ S!bss_start \in Nat
        /\ bss_size \in Nat /\ S!bss_start + bss_size <= S!bss_end
    BY <2>1, Layout, BootAssumption DEF Sizes
  <2>5. /\ From(1) = S!bss_end /\ To(1) = S!bss_end + STACK_SIZE
        /\ From(2) = S!bss_end + STACK_SIZE /\ To(2) = S!bss_end + 2 * STACK_SIZE
        /\ From(3) = S!bss_end + 3 * STACK_SIZE /\ To(3) = S!bss_end + 4 * STACK_SIZE
    BY <2>1, StackTable
  <2>6. /\ sp["FIQ"] - STACK_SIZE = From(1)
        /\ sp["IRQ"] - STACK_SIZE = From(2)
        /\ sp["SVC"] - STACK_SIZE = From(3)
    BY <2>2, <2>4, <2>5
  <2>7. UNION {sp[m] - STACK_SIZE .. sp[m] - 1 : m \in DOMAIN sp}
          = UNION {From(p) .. To(p) - 1 : p \in 1 .. 3}
    <3>1. {sp[m] - STACK_SIZE .. sp[m] - 1 : m \in DOMAIN sp}
            = {From(1) .. To(1) - 1, From(2) .. To(2) - 1, From(3) .. To(3) - 1}
      BY <2>2, <2>6
    <3>2. 1 .. 3 = {1, 2, 3}
      OBVIOUS
    <3>3. {From(p) .. To(p) - 1 : p \in 1 .. 3}
            = {From(1) .. To(1) - 1, From(2) .. To(2) - 1, From(3) .. To(3) - 1}
      BY <3>2
    <3> QED
      BY <3>1, <3>3
  <2>8. ASSUME NEW a \in S!Ram
        PROVE  ram[a] = S!Fill <=> \E p \in 1 .. 3 : a \in From(p) .. To(p) - 1
    <3>1. ASSUME NEW p \in 1 .. 3, a \in From(p) .. To(p) - 1 PROVE ram[a] = S!Fill
      <4>1. p \in 1 .. 5 /\ p # 4
        OBVIOUS
      <4>2. Value(p, a) = S!Fill
        BY <4>1, PhaseTable DEF Value, S!DataPhase
      <4> QED
        BY <3>1, <4>1, <4>2, AtMain
    <3>2. ASSUME a \in From(4) .. To(4) - 1 PROVE ram[a] # S!Fill
      <4>1. a \in 0 .. S!data_end - 1
        BY <3>2, PhaseTable
      <4>2. text_end + a \in Memory
        BY <2>1, <4>1, DataInImage
      <4>3. ram[a] = mem[text_end + a]
        BY <3>2, AtMain DEF Value, S!DataPhase
      <4> QED
        BY <2>1, <4>2, <4>3 DEF NoFill
    <3>3. ASSUME a \in From(5) .. To(5) - 1 PROVE ram[a] # S!Fill
      <4>1. Value(5, a) = S!Zero
        BY PhaseTable DEF Value, S!DataPhase
      <4>2. ram[a] = S!Zero
        BY <3>3, <4>1, AtMain
      <4> QED
        BY <4>2 DEF S!Zero, S!Fill
    <3>4. ASSUME \A p \in 1 .. 5 : a \notin From(p) .. To(p) - 1 PROVE ram[a] # S!Fill
      <4>1. ram[a] = S!Junk
        BY <3>4, AtMain
      <4> QED
        BY <4>1 DEF S!Junk, S!Fill
    <3>5. \A p \in 1 .. 5 : p \in 1 .. 3 \/ p = 4 \/ p = 5
      OBVIOUS
    <3> QED
      BY <3>1, <3>2, <3>3, <3>4, <3>5
  <2>9. {a \in S!Ram : ram[a] = S!Fill} = UNION {From(p) .. To(p) - 1 : p \in 1 .. 3}
    <3>1. \A p \in 1 .. 3 : \A a \in From(p) .. To(p) - 1 : a \in S!Ram
      BY <2>1, PhaseInRam
    <3> QED
      BY <2>8, <3>1
  <2>10. \A m, n \in DOMAIN sp :
           m # n => sp[m] \notin sp[n] - STACK_SIZE + 1 .. sp[n] + STACK_SIZE - 1
    BY <2>2, <2>4, <2>5
  <2>11. \A m \in DOMAIN sp : sp[m] - STACK_SIZE >= S!bss_start + bss_size
    BY <2>2, <2>4, <2>5
  <2>12. \A a \in S!usr_stack_start .. S!stack_start - 1 : ram[a] = S!Junk
    <3>1. S!usr_stack_start = To(2) /\ S!stack_start = From(3)
      BY PhaseTable
    <3> TAKE a \in S!usr_stack_start .. S!stack_start - 1
    <3>2. a \in To(2) .. From(3) - 1
      BY <3>1
    <3>3. a \in S!Ram
      BY <2>1, <2>4, <2>5, <3>2, Layout, BootAssumption DEF S!Ram, S!Aligned
    <3>4. From(4) = 0 /\ To(4) <= From(1) /\ To(5) = From(1) /\ To(4) \in Nat /\ From(5) \in Nat
      BY <2>1, <2>4, <2>5, Layout, PhaseTable
    <3>5. \A p \in {1, 2, 3, 4, 5} : a \notin From(p) .. To(p) - 1
      BY <2>4, <2>5, <3>2, <3>4
    <3> QED
      BY <3>3, <3>5, AtMain
  <2> QED
    BY <2>2, <2>3, <2>7, <2>9, <2>10, <2>11, <2>12 DEF MainFindsItsStacks, S!MainFindsItsStacks
<1> QED
  BY <1>1, BootInvariant, PTL

\* UnmaskedWithOwnVectors: at no point between power-up and main, resets included,
\* could an interrupt be taken through U-Boot's vectors.
THEOREM VectorsTheorem == BootSpec => []UnmaskedWithOwnVectors
<1>1. BootInv => UnmaskedWithOwnVectors
  BY DEF BootInv, Masks, UnmaskedWithOwnVectors, S!UnmaskedWithOwnVectors
<1> QED
  BY <1>1, BootInvariant, PTL

=============================================================================
