------------------------------ MODULE Startup ------------------------------
(***************************************************************************)
(* Reset_Handler (startup.s) over the memory that linkscript.ld lays out.  *)
(* Addresses in RAM count words from 0x70000000, addresses in the image    *)
(* words from 0x60000000.  A word is a pair, as in Bootloader.             *)
(***************************************************************************)
EXTENDS Integers, Sequences

CONSTANTS
    MAX_SIZE,       \* bound: words in .data and in .bss before alignment
    STACK_SIZE      \* words in each of the four stacks

VARIABLES
    data_size, bss_size,    \* words in the two sections, as linked
    rom, text_end,          \* the image as it was loaded, and where .data starts in it
    ram,                    \* the contents of RAM
    phase,                  \* the loop being executed; Len(Phases) + 1 after the last
    r0, r1,                 \* source in the data loop, and destination
    sp,                     \* the banked stack pointers
    mode,                   \* the mode bits of the CPSR
    masked,                 \* the I and F bits of the CPSR are set
    vbar,                   \* whose vectors the vector base address selects
    step                    \* "vector"; "enter" or "loop" of a phase; "cpsid", "main"

image == <<data_size, bss_size, rom, text_end>>
cpu == <<phase, r0, r1, sp, mode, masked, vbar, step>>
vars == <<image, ram, cpu>>

-----------------------------------------------------------------------------
(* linkscript.ld.                                                          *)

\* ALIGN(8): two words.
Aligned(n) == n + (n % 2)

data_start == 0
data_end == Aligned(data_start + data_size)
bss_start == data_end
bss_end == Aligned(bss_start + bss_size)

fiq_stack_start == bss_end
irq_stack_start == fiq_stack_start + STACK_SIZE
usr_stack_start == irq_stack_start + STACK_SIZE
stack_start == usr_stack_start + STACK_SIZE
stack_end == stack_start + STACK_SIZE

\* RAM up to two words past the last stack.
Ram == 0 .. 2 * Aligned(MAX_SIZE) + 4 * STACK_SIZE + 1

\* What RAM holds before, the pattern 0xFEFEFEFE, and 0.
Junk == <<0, 0>>
Fill == <<-1, 0>>
Zero == <<-2, 0>>

-----------------------------------------------------------------------------
(* Reset_Handler.                                                          *)

\* The state U-Boot's start.S sets up and leaves: supervisor mode, interrupts
\* masked, its own vectors.  RAM holds anything.
Entry == [
    ram |-> [a \in Ram |-> Junk], phase |-> 1, r0 |-> 0, r1 |-> 0,
    sp |-> [m \in {"FIQ", "IRQ", "SVC"} |-> -1],
    mode |-> "SVC", masked |-> TRUE, vbar |-> "U-Boot", step |-> "vector"]

\* Mutant of Vectors: the vector base is left alone.
Vectors_kept == vbar

\* The address _Reset has been linked to.
Vectors == "_Reset"

set_vectors ==
    /\ step = "vector"
    /\ vbar' = Vectors
    /\ step' = "enter"
    /\ UNCHANGED <<image, ram, phase, r0, r1, sp, mode, masked>>

\* The five loops, in their order.  A stack loop sets the mode, and its end is the
\* stack pointer.  In all but the data loop r0 is the value stored.
Phases == <<
    [mode |-> "FIQ", stack |-> TRUE, from |-> fiq_stack_start, to |-> irq_stack_start, value |-> Fill],
    [mode |-> "IRQ", stack |-> TRUE, from |-> irq_stack_start, to |-> usr_stack_start, value |-> Fill],
    [mode |-> "SVC", stack |-> TRUE, from |-> stack_start, to |-> stack_end, value |-> Fill],
    [mode |-> "SVC", stack |-> FALSE, from |-> data_start, to |-> data_end, value |-> Junk],
    [mode |-> "SVC", stack |-> FALSE, from |-> bss_start, to |-> bss_end, value |-> Zero] >>

DataPhase == 4

\* The loads before a loop.  Writing a mode to cpsr_c writes the I and F bits too,
\* and the constants leave them clear.
enter ==
    /\ step = "enter"
    /\ LET p == Phases[phase] IN
        /\ mode' = p.mode
        /\ masked' = (masked /\ ~p.stack)
        /\ sp' = IF p.stack THEN [sp EXCEPT ![p.mode] = p.to] ELSE sp
        /\ r1' = p.from
    /\ r0' = IF phase = DataPhase THEN text_end ELSE r0
    /\ step' = "loop"
    /\ UNCHANGED <<image, ram, phase, vbar>>

\* Mutant of Before: the loop stores once more.
Before_or_at(a, end) == a <= end

\* The condition lt of cmp r1.
Before(a, end) == a < end

\* Mutants of NextSource and NextDestination: the register is not advanced.
NextSource_same(a) == a
NextDestination_same(a) == a

\* The post-increment of ldrlt and of strlt.
NextSource(a) == a + 1
NextDestination(a) == a + 1

\* One round: the data loop loads the next word of the image first.
store ==
    /\ step = "loop"
    /\ Before(r1, Phases[phase].to)
    /\ ram' = [ram EXCEPT ![r1] = IF phase = DataPhase THEN rom[r0] ELSE Phases[phase].value]
    /\ r0' = IF phase = DataPhase THEN NextSource(r0) ELSE r0
    /\ r1' = NextDestination(r1)
    /\ UNCHANGED <<image, phase, sp, mode, masked, vbar, step>>

leave ==
    /\ step = "loop"
    /\ ~Before(r1, Phases[phase].to)
    /\ phase' = phase + 1
    /\ step' = IF phase < Len(Phases) THEN "enter" ELSE "cpsid"
    /\ UNCHANGED <<image, ram, r0, r1, sp, mode, masked, vbar>>

\* cpsid if, and the call of main, which does not return.
cpsid ==
    /\ step = "cpsid"
    /\ masked' = TRUE
    /\ step' = "main"
    /\ UNCHANGED <<image, ram, phase, r0, r1, sp, mode, vbar>>

Next == set_vectors \/ enter \/ store \/ leave \/ cpsid

-----------------------------------------------------------------------------
(* Properties.                                                             *)

\* main is called in supervisor mode with interrupts masked, and each mode's stack
\* is the filled region below its stack pointer: the three share no word with one
\* another, with a variable or with the unused user stack, which is not written.
MainFindsItsStacks ==
    step = "main" =>
        /\ masked /\ mode = "SVC"
        /\ {a \in Ram : ram[a] = Fill} =
             UNION {sp[m] - STACK_SIZE .. sp[m] - 1 : m \in DOMAIN sp}
        /\ \A m, n \in DOMAIN sp : m # n => sp[m] \notin sp[n] - STACK_SIZE + 1 .. sp[n] + STACK_SIZE - 1
        /\ \A m \in DOMAIN sp : sp[m] - STACK_SIZE >= bss_start + bss_size
        /\ \A a \in usr_stack_start .. stack_start - 1 : ram[a] = Junk

\* Whenever an interrupt could be taken, it would be taken through the program's own
\* vectors: the first write of the CPSR, which clears the masks, comes after the
\* vector base has been moved away from U-Boot.
UnmaskedWithOwnVectors == ~masked => vbar = "_Reset"

=============================================================================
