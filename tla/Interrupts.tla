----------------------------- MODULE Interrupts -----------------------------
(***************************************************************************)
(* The interrupt controller (pic.c), the interrupt half of the CPU loop    *)
(* (cpu.c), the interrupt instructions (ops.c) and the device threads that *)
(* trigger interrupts (pit.c, video.c, keyboard.c).                        *)
(*                                                                         *)
(* pic.c takes no lock.  Its words of active bits are updated with |= and  *)
(* &= ~ by the CPU thread and by the device threads at the same time, so   *)
(* every such update is two steps here, a load and a store, and what other *)
(* threads stored in between is lost.  The words of the interrupt mask are *)
(* touched by the CPU thread alone.  A word of bits is modelled as the set *)
(* of the interrupts whose bit is 1.  Loads and stores of one word are     *)
(* taken to be atomic and in program order, which is what the supported    *)
(* builds (aligned 32-bit accesses) produce.                               *)
(*                                                                         *)
(* The program run by the CPU is arbitrary: each fetched instruction is    *)
(* any interrupt instruction, a store to the interrupt mask, HALT, or one  *)
(* that has no effect on interrupts.                                       *)
(***************************************************************************)
EXTENDS Integers

CONSTANTS WordCount,          \* INTERRUPTS_WORDS_COUNT
          PerWord,            \* INTERRUPTS_PER_WORD
          Timer,              \* INT_TIMER
          Vsync,              \* INT_VSYNC
          Keyboard            \* INT_KEYBOARD

INTERRUPTS_COUNT == WordCount * PerWord

Interrupt == 0 .. INTERRUPTS_COUNT - 1

Words == 0 .. WordCount - 1

\* The word an interrupt's bit lives in; the bit itself is the interrupt's
\* own membership in that word.
find_interrupt_location(i) == i \div PerWord

DeviceInterrupt == {Timer, Vsync, Keyboard}

\* The last conjunct is what the scan's answer 0 for "nothing found" needs:
\* interrupt 0 lives in a word the devices write (word 0, like all three).
ASSUME ConstantsAssumption ==
    /\ WordCount \in Nat \ {0}
    /\ PerWord \in Nat \ {0}
    /\ DeviceInterrupt \subseteq Interrupt
    /\ \A i \in Interrupt : find_interrupt_location(i) \in Words
    /\ \E i \in DeviceInterrupt :
          find_interrupt_location(i) = find_interrupt_location(0)

(***************************************************************************)
(* The threads that call pic_interrupt_trigger besides the CPU: the PIT's  *)
(* timer_loop, and the main thread, whose video_loop runs the keyboard     *)
(* callbacks (any number per frame) and then raises VSYNC, so that any     *)
(* sequence of the two is possible.                                        *)
(***************************************************************************)
Devices == {"pit", "main"}

Raises(d) == IF d = "pit" THEN {Timer} ELSE {Vsync, Keyboard}

\* A word that a device thread updates, and the interrupts that live in no
\* such word: those can only be triggered by the INT instruction.
SharedWord == { find_interrupt_location(i) : i \in DeviceInterrupt }

Private == { i \in Interrupt : find_interrupt_location(i) \notin SharedWord }

VARIABLES
    active,     \* pic->active_interrupts: word -> the interrupts set in it
    mask,       \* pic->memory->interrupt_mask: word -> the interrupts set in it
    ie,         \* cpu->flags.interrupts_enabled
    ir,         \* cpu->ir
    cpc,        \* where the CPU thread is
    idx,        \* loop index of pic_interrupt_active / pic_interrupt_get
    arg,        \* the operand of the INT instruction under way
    loaded,     \* the word the CPU thread loaded and has not stored back yet
    dpc,        \* device thread -> where it is in pic_interrupt_trigger
    dint,       \* device thread -> the interrupt it triggers
    dloaded,    \* device thread -> the word it loaded
    owed,       \* history: triggered (stored) and not yet reset by the CPU
    missed      \* history: a trigger signalled after WFI began, before its wait

cpuVars == <<ie, ir, cpc, idx, arg, loaded>>
devVars == <<dpc, dint, dloaded>>
vars == <<active, mask, cpuVars, devVars, owed, missed>>

\* pic_create: nothing active, the three device interrupts masked.
Init ==
    /\ active = [w \in Words |-> {}]
    /\ mask = [w \in Words |->
                 { i \in DeviceInterrupt : find_interrupt_location(i) = w }]
    /\ ie = FALSE /\ ir = 0
    /\ cpc = "loop" /\ idx = 0 /\ arg = 0 /\ loaded = {}
    /\ dpc = [d \in Devices |-> "idle"]
    /\ dint = [d \in Devices |-> Timer]
    /\ dloaded = [d \in Devices |-> {}]
    /\ owed = {} /\ missed = FALSE

-----------------------------------------------------------------------------
(***************************************************************************)
(* Words of bits, and the condition variable.  Each helper is followed     *)
(* where it is used; the definitions named slip_* are what a plausible     *)
(* slip in that line would compute instead, and no action uses them.       *)
(***************************************************************************)
is_active(i) == i \in active[find_interrupt_location(i)]

is_masked(i) == i \in mask[find_interrupt_location(i)]

slip_set_bit(word, i) == {i}                    \* = for |=

set_bit(word, i) == word \cup {i}

slip_clear_bit(word, i) == word \cap {i}        \* &= bit for &= ~bit

clear_bit(word, i) == word \ {i}

slip_deliverable(i) == is_active(i)             \* the mask is not looked at

deliverable(i) == is_active(i) /\ ~ is_masked(i)

scan_ends(i) == i + 1 \notin Interrupt

\* The only thread that ever waits on pic_got_interrupt is the CPU, in WFI:
\* with nobody waiting a signal is gone.
woken(pc) == IF pc = "waiting" THEN "loop" ELSE pc

-----------------------------------------------------------------------------
(***************************************************************************)
(* pic_interrupt_trigger on a device thread: load the word, store it with  *)
(* the bit set, then signal pic_got_interrupt without holding its lock.    *)
(***************************************************************************)
TriggerLoad(d, i) ==
    /\ dpc[d] = "idle"
    /\ i \in Raises(d)
    /\ dint' = [dint EXCEPT ![d] = i]
    /\ dloaded' = [dloaded EXCEPT ![d] = active[find_interrupt_location(i)]]
    /\ dpc' = [dpc EXCEPT ![d] = "store"]
    /\ UNCHANGED <<active, mask, cpuVars, owed, missed>>

TriggerStore(d) ==
    /\ dpc[d] = "store"
    /\ active' = [active EXCEPT ![find_interrupt_location(dint[d])] =
                                   set_bit(dloaded[d], dint[d])]
    /\ owed' = owed \cup {dint[d]}
    /\ dpc' = [dpc EXCEPT ![d] = "signal"]
    /\ dint' = [dint EXCEPT ![d] = Timer]
    /\ dloaded' = [dloaded EXCEPT ![d] = {}]
    /\ UNCHANGED <<mask, cpuVars, missed>>

TriggerSignal(d) ==
    /\ dpc[d] = "signal"
    /\ cpc' = woken(cpc)
    /\ missed' = (cpc = "wfi" \/ (missed /\ cpc # "waiting"))
    /\ dpc' = [dpc EXCEPT ![d] = "idle"]
    /\ UNCHANGED <<active, mask, ie, ir, idx, arg, loaded, dint, dloaded, owed>>

Device(d) ==
    \/ \E i \in Raises(d) : TriggerLoad(d, i)
    \/ TriggerStore(d)
    \/ TriggerSignal(d)

-----------------------------------------------------------------------------
(***************************************************************************)
(* The head of the CPU loop.  The test of the flag and the scans of        *)
(* pic_interrupt_active (one word at a time) and pic_interrupt_get (one    *)
(* interrupt at a time) are separate steps.                                *)
(***************************************************************************)
LoopTop ==
    /\ cpc = "loop"
    /\ cpc' = IF ie THEN "active" ELSE "exec"
    /\ idx' = 0
    /\ UNCHANGED <<active, mask, ie, ir, arg, loaded, devVars, owed, missed>>

\* A word with an active, unmasked interrupt ends the scan: the loop then
\* clears the flag and asks which interrupt it is.
pic_interrupt_active ==
    /\ cpc = "active"
    /\ \/ /\ active[idx] \ mask[idx] # {}
          /\ ie' = FALSE /\ idx' = 0 /\ cpc' = "get"
       \/ /\ active[idx] \ mask[idx] = {}
          /\ idx + 1 \in Words
          /\ idx' = idx + 1
          /\ UNCHANGED <<ie, cpc>>
       \/ /\ active[idx] \ mask[idx] = {}
          /\ idx + 1 \notin Words
          /\ cpc' = "exec" /\ idx' = 0
          /\ UNCHANGED ie
    /\ UNCHANGED <<active, mask, ir, arg, loaded, devVars, owed, missed>>

\* The scan reads the words again; when it finds nothing it answers 0.
pic_interrupt_get ==
    /\ cpc = "get"
    /\ \/ /\ deliverable(idx)
          /\ ir' = idx /\ cpc' = "resetload" /\ idx' = 0
       \/ /\ ~ deliverable(idx)
          /\ ~ scan_ends(idx)
          /\ idx' = idx + 1
          /\ UNCHANGED <<ir, cpc>>
       \/ /\ ~ deliverable(idx)
          /\ scan_ends(idx)
          /\ ir' = 0 /\ cpc' = "resetload" /\ idx' = 0
    /\ UNCHANGED <<active, mask, ie, arg, loaded, devVars, owed, missed>>

ResetLoad ==
    /\ cpc = "resetload"
    /\ loaded' = active[find_interrupt_location(ir)]
    /\ cpc' = "resetstore"
    /\ UNCHANGED <<active, mask, ie, ir, idx, arg, devVars, owed, missed>>

ResetStore ==
    /\ cpc = "resetstore"
    /\ active' = [active EXCEPT ![find_interrupt_location(ir)] = clear_bit(loaded, ir)]
    /\ owed' = owed \ {ir}
    /\ loaded' = {}
    /\ cpc' = "push"
    /\ UNCHANGED <<mask, ie, ir, idx, arg, devVars, missed>>

\* Push the return address; a refused write panics and ends the loop, and
\* otherwise the first instruction of the ROM's dispatcher is fetched
\* without another look at the controller.
Enter ==
    /\ cpc = "push"
    /\ cpc' \in {"exec", "stopped"}
    /\ UNCHANGED <<active, mask, ie, ir, idx, arg, loaded, devVars, owed, missed>>

-----------------------------------------------------------------------------
(***************************************************************************)
(* The instructions.                                                       *)
(***************************************************************************)
op_int(i) ==
    /\ cpc = "exec"
    /\ arg' = i
    /\ loaded' = active[find_interrupt_location(i)]
    /\ cpc' = "intstore"
    /\ UNCHANGED <<active, mask, ie, ir, idx, devVars, owed, missed>>

\* The second half of INT.  Its signal finds nobody waiting: only the CPU
\* itself ever waits.
IntStore ==
    /\ cpc = "intstore"
    /\ active' = [active EXCEPT ![find_interrupt_location(arg)] = set_bit(loaded, arg)]
    /\ owed' = owed \cup {arg}
    /\ loaded' = {} /\ arg' = 0
    /\ cpc' = "loop"
    /\ UNCHANGED <<mask, ie, ir, idx, devVars, missed>>

\* MI and UMI (pic_interrupt_mask and pic_interrupt_unmask), and a STOR to
\* the interrupt mask's zone of the bus, which replaces a whole word.
SetMaskWord(w, m) ==
    /\ cpc = "exec"
    /\ mask' = [mask EXCEPT ![w] = m]
    /\ cpc' = "loop"
    /\ UNCHANGED <<active, ie, ir, idx, arg, loaded, devVars, owed, missed>>

op_mi(i) == LET w == find_interrupt_location(i)
            IN  SetMaskWord(w, set_bit(mask[w], i))

op_umi(i) == LET w == find_interrupt_location(i)
             IN  SetMaskWord(w, clear_bit(mask[w], i))

StoreMask(w, m) ==
    /\ m \subseteq { i \in Interrupt : find_interrupt_location(i) = w }
    /\ SetMaskWord(w, m)

\* IND, INE, and IRET, which also sets the flag when its pop succeeds (a pop
\* that fails is op_panic).
SetFlag(b) ==
    /\ cpc = "exec"
    /\ ie' = b
    /\ cpc' = "loop"
    /\ UNCHANGED <<active, mask, ir, idx, arg, loaded, devVars, owed, missed>>

op_ind == SetFlag(FALSE)

op_ine == SetFlag(TRUE)

\* WFI locks pic_got_interrupt_lock, then waits on pic_got_interrupt.  The
\* wait has no condition of its own: whatever is pending is not looked at.
op_wfi ==
    /\ cpc = "exec"
    /\ cpc' = "wfi"
    /\ UNCHANGED <<active, mask, ie, ir, idx, arg, loaded, devVars, owed, missed>>

WfiWait ==
    /\ cpc = "wfi"
    /\ cpc' = "waiting"
    /\ UNCHANGED <<active, mask, ie, ir, idx, arg, loaded, devVars, owed, missed>>

\* pthread_cond_wait may also return for no reason.
SpuriousWakeup ==
    /\ cpc = "waiting"
    /\ cpc' = "loop" /\ missed' = FALSE
    /\ UNCHANGED <<active, mask, ie, ir, idx, arg, loaded, devVars, owed>>

\* Every other instruction, and the ones that end the loop (HALT, PANIC, a
\* panic of any kind).
op_other ==
    /\ cpc = "exec"
    /\ cpc' \in {"loop", "stopped"}
    /\ UNCHANGED <<active, mask, ie, ir, idx, arg, loaded, devVars, owed, missed>>

Instruction ==
    \/ \E i \in Interrupt : op_int(i) \/ op_mi(i) \/ op_umi(i)
    \/ \E w \in Words, m \in SUBSET Interrupt : StoreMask(w, m)
    \/ op_ind \/ op_ine \/ op_wfi \/ op_other

Cpu ==
    \/ LoopTop \/ pic_interrupt_active \/ pic_interrupt_get
    \/ ResetLoad \/ ResetStore \/ Enter
    \/ Instruction \/ IntStore \/ WfiWait \/ SpuriousWakeup

Next == Cpu \/ \E d \in Devices : Device(d)

Spec == Init /\ [][Next]_vars

-----------------------------------------------------------------------------
TypeOK ==
    /\ active \in [Words -> SUBSET Interrupt]
    /\ mask \in [Words -> SUBSET Interrupt]
    /\ ie \in BOOLEAN
    /\ ir \in Interrupt
    /\ cpc \in {"loop", "active", "get", "resetload", "resetstore", "push",
                "exec", "intstore", "wfi", "waiting", "stopped"}
    /\ idx \in IF cpc = "active" THEN Words ELSE Interrupt
    /\ arg \in Interrupt
    /\ loaded \in SUBSET Interrupt
    /\ dpc \in [Devices -> {"idle", "store", "signal"}]
    /\ dint \in [Devices -> DeviceInterrupt]
    /\ dloaded \in [Devices -> SUBSET Interrupt]
    /\ owed \in SUBSET Interrupt
    /\ missed \in BOOLEAN

\* The interrupts set in the words they belong to.
Active == { i \in Interrupt : is_active(i) }

Masked == { i \in Interrupt : is_masked(i) }

\* Deliverable interrupts that live in a word only the CPU touches.
Waiting == (Active \cap Private) \ Masked

\* In the words no device touches, an interrupt is active exactly when an INT
\* triggered it and the CPU has not taken it since: whatever the devices do,
\* pic.c neither loses nor invents an interrupt there.
PrivateExact == owed \cap Private = Active \cap Private

(***************************************************************************)
(* The number pic_interrupt_get answers, when the loop comes to reset it:  *)
(* it is not masked, no lower-numbered interrupt of a word that only the   *)
(* CPU touches is being passed over, and if it is such an interrupt itself *)
(* it is really active; or it is 0, the answer of a scan that found        *)
(* nothing, and then no such interrupt was waiting at all.                 *)
(***************************************************************************)
AnswerJustified ==
    cpc \in {"resetload", "resetstore"} =>
        \/ /\ ir \notin Masked
           /\ ir \in Private => ir \in Waiting
           /\ \A j \in Waiting : ir <= j
        \/ ir = 0 /\ Waiting = {}

\* An interrupt once triggered is active until the CPU takes it: what
\* interrupt_mask_unmask of pic_test.c expects of pic_interrupt_active and
\* pic_interrupt_get after a trigger.  It fails in the words the devices share.
TriggeredIsActive ==
    (\A d \in Devices : dpc[d] # "store") /\ cpc \notin {"resetstore", "intstore"}
        => owed \subseteq Active

\* WFI "pauses the CPU until the next interrupt is triggered": it does not
\* stay asleep after one was triggered and signalled while it ran.
WfiSeesTrigger == cpc = "waiting" => ~ missed

(***************************************************************************)
(* The inductive invariant behind PrivateExact and AnswerJustified.  What  *)
(* the CPU loaded from a private word is still what that word holds when   *)
(* it stores it back, and the scan of pic_interrupt_get has passed no      *)
(* waiting private interrupt.                                              *)
(***************************************************************************)
LoadedFresh ==
    /\ cpc = "intstore" /\ arg \in Private =>
          loaded = active[find_interrupt_location(arg)]
    /\ cpc = "resetstore" /\ ir \in Private =>
          loaded = active[find_interrupt_location(ir)]

ScanPassed == cpc = "get" => \A j \in Waiting : idx <= j

IInv == TypeOK /\ PrivateExact /\ LoadedFresh /\ ScanPassed /\ AnswerJustified

-----------------------------------------------------------------------------
\* The interrupts of the private words are a pending set.
P == INSTANCE PendingSet
       WITH Line <- Private,
            pending <- Active \cap Private,
            masked <- Masked \cap Private

\* Seen through the words that only the CPU touches, the controller, with all
\* its scans, half-done updates and device threads, is an atomic pending set:
\* each trigger is delivered once, in the order of the numbers.
PrivateIsPendingSet == P!Spec
=============================================================================
