---------------------------- MODULE DevicesProof ----------------------------
(***************************************************************************)
(* Proofs about modules Vm and Devices: of all threads, only the timer's   *)
(* uses a component after vm_destroy has freed it; the steps of Devices    *)
(* are steps of the threads of Vm, the screen follows the register, and a  *)
(* key's interrupt is not lost by the order in which the callback works.   *)
(***************************************************************************)
EXTENDS Devices, TLAPS

(***************************************************************************)
(* The threads, whatever the devices' registers hold.                      *)
(***************************************************************************)
\* The steps of vm_destroy, and the process's end.
Destroying ==
    {"pit_stop", "pit_join", "keyboard_stop", "keyboard_signal", "keyboard_join",
     "video_stop", "video_signal", "video_join", "exit"}

\* Nothing is freed before the CPU's thread has ended, and the keyboard and the
\* video only once their threads have.
FreedLate ==
    /\ freed # {} => main \in Destroying
    /\ main \in Destroying \union {"pic_destroy"} => cpu = "ended"
    /\ "keyboard" \in freed => kb = "ended"
    /\ "video" \in freed => vid \in {"none", "ended"}

VmInv == FreedLate /\ OnlyTimerUsesFreed

\* Nothing is freed and no thread has ended when the machine is created.
THEOREM InitVmInv == Init => VmInv
BY DEF Init, keyboard_create, pit_create, video_create, VmInv, FreedLate, OnlyTimerUsesFreed, Destroying

\* Every step of the main thread preserves the invariant.
LEMMA MainStep == VmInv /\ Main => VmInv'
<1> SUFFICES ASSUME VmInv, Main PROVE VmInv'
  OBVIOUS
<1> USE DEF VmInv, FreedLate, OnlyTimerUsesFreed, Destroying
<1>1. CASE VmStart
  BY <1>1 DEF VmStart
<1>2. CASE VideoLoop
  BY <1>2 DEF VideoLoop
<1>3. CASE WindowOpens
  BY <1>3 DEF WindowOpens
<1>4. CASE WindowFails
  BY <1>4 DEF WindowFails
<1>5. CASE Frame
  BY <1>5 DEF Frame, uses, stop_requested, pic_interrupt_trigger
<1>6. CASE AfterLoop
  BY <1>6 DEF AfterLoop
<1>7. CASE JoinCpu
  BY <1>7 DEF JoinCpu
<1>8. CASE PicDestroy
  BY <1>8 DEF PicDestroy
<1>9. CASE pit_destroy
  BY <1>9 DEF pit_destroy
<1>10. CASE keyboard_destroy
  BY <1>10 DEF keyboard_destroy, signalled
<1>11. CASE video_destroy
  BY <1>11 DEF video_destroy, signalled
<1> QED
  BY <1>1, <1>2, <1>3, <1>4, <1>5, <1>6, <1>7, <1>8, <1>9, <1>10, <1>11 DEF Main

\* Every step of the other threads does, and the user's.
LEMMA OtherStep ==
    VmInv /\ [Next]_vars /\ ~Main => VmInv'
<1> SUFFICES ASSUME VmInv, [Next]_vars, ~Main PROVE VmInv'
  OBVIOUS
<1> USE DEF VmInv, FreedLate, OnlyTimerUsesFreed, Destroying
<1>1. CASE UserCloses
  BY <1>1 DEF UserCloses
<1>2. CASE CpuStarts
  BY <1>2 DEF CpuStarts
<1>3. CASE CpuRuns
  BY <1>3 DEF CpuRuns, executes, cpu_debugger_trap_handler, uses, signalled
<1>4. CASE CpuHalts
  BY <1>4 DEF CpuHalts
<1>5. CASE CpuLeaves
  BY <1>5 DEF CpuLeaves
<1>6. CASE CpuStopsVideo
  BY <1>6 DEF CpuStopsVideo, uses
<1>7. CASE Keyboard
  BY <1>7 DEF Keyboard, uses, next_wait
<1>8. CASE Video
  BY <1>8 DEF Video, uses, next_wait
<1>9. CASE Timer
  BY <1>9 DEF Timer, TimerElapses, TimerEnds, uses, pic_interrupt_trigger
<1>10. CASE SpuriousWakeup
  BY <1>10 DEF SpuriousWakeup
<1>11. CASE op_wfi
  BY <1>11 DEF op_wfi, executes, cpu_debugger_trap_handler, uses
<1>12. CASE CpuTraps
  BY <1>12 DEF CpuTraps
<1>13. CASE op_xbrk
  BY <1>13 DEF op_xbrk, uses
<1>14. CASE UNCHANGED vars
  BY <1>14 DEF vars
<1> QED
  BY <1>1, <1>2, <1>3, <1>4, <1>5, <1>6, <1>7, <1>8, <1>9, <1>10, <1>11, <1>12, <1>13,
     <1>14 DEF Next

\* The threads vm_destroy joins are those that use what it frees: whatever the
\* mode and however the threads interleave, only the timer uses freed memory.
THEOREM OnlyTimerUsesFreedHolds == Spec => []OnlyTimerUsesFreed
<1>1. Init => VmInv
  BY InitVmInv
<1>2. VmInv /\ [Next]_vars => VmInv'
  BY MainStep, OtherStep
<1>3. VmInv => OnlyTimerUsesFreed
  BY DEF VmInv
<1> QED
  BY <1>1, <1>2, <1>3, PTL DEF Spec

\* The parts of TypeOK: where the threads are, the flags, what is freed and by whom
\* it is used, the window and the keyboard's thread.
Places ==
    /\ mode \in Modes /\ main \in MainSteps
    /\ cpu \in {"none", "starting", "video_stop", "mfb_close", "ended"} \union InLoop
    /\ kb \in Waiter /\ vid \in Waiter
    /\ pit \in {"none", "sleep", "ended"}

Flags ==
    /\ running \in BOOLEAN /\ trap \in BOOLEAN /\ kbRunning \in BOOLEAN /\ pitRunning \in BOOLEAN
    /\ window \in BOOLEAN /\ closed \in BOOLEAN /\ enabled \in BOOLEAN

Uses ==
    /\ freed \subseteq {"bus", "pic", "pit", "keyboard", "video"}
    /\ stale \subseteq {"main", "cpu", "kb", "pit", "vid"}

Lives ==
    /\ window => main = "frame" /\ vid # "none"
    /\ kb = "none" <=> main \in {"cpu_create", "keyboard_start"}

LEMMA Parts == TypeOK <=> Places /\ Flags /\ Uses /\ Lives
BY DEF TypeOK, Places, Flags, Uses, Lives

\* Every part is kept by every step of the main thread, and of the others.
LEMMA MainPlaces == Places /\ Main => Places'
<1> SUFFICES ASSUME Places, Main PROVE Places'
  OBVIOUS
<1> USE DEF Places, MainSteps, Waiter, InLoop
<1>1. CASE VmStart
  BY <1>1 DEF VmStart
<1>2. CASE VideoLoop
  BY <1>2 DEF VideoLoop
<1>3. CASE WindowOpens
  BY <1>3 DEF WindowOpens
<1>4. CASE WindowFails
  BY <1>4 DEF WindowFails
<1>5. CASE Frame
  BY <1>5 DEF Frame, uses, stop_requested, pic_interrupt_trigger
<1>6. CASE AfterLoop
  BY <1>6 DEF AfterLoop
<1>7. CASE JoinCpu
  BY <1>7 DEF JoinCpu
<1>8. CASE PicDestroy
  BY <1>8 DEF PicDestroy
<1>9. CASE pit_destroy
  BY <1>9 DEF pit_destroy
<1>10. CASE keyboard_destroy
  BY <1>10 DEF keyboard_destroy, signalled
<1>11. CASE video_destroy
  BY <1>11 DEF video_destroy, signalled
<1> QED
  BY <1>1, <1>2, <1>3, <1>4, <1>5, <1>6, <1>7, <1>8, <1>9, <1>10, <1>11 DEF Main

LEMMA OtherPlaces == Places /\ [Next]_vars /\ ~Main => Places'
BY DEF Places, MainSteps, Waiter, InLoop, Next, UserCloses, CpuStarts, CpuRuns, CpuHalts,
       CpuLeaves, CpuStopsVideo, Keyboard, Video, Timer, TimerElapses,
       TimerEnds, SpuriousWakeup, CpuTraps, executes, cpu_debugger_trap_handler, op_xbrk,
       op_wfi, uses, signalled, next_wait, pic_interrupt_trigger,
       vars

LEMMA MainFlags == Flags /\ Main => Flags'
BY DEF Flags, Main, VmStart, VideoLoop, WindowOpens, WindowFails, Frame, AfterLoop,
       JoinCpu, PicDestroy, pit_destroy, keyboard_destroy, video_destroy, uses,
       signalled, stop_requested, pic_interrupt_trigger

LEMMA OtherFlags == Flags /\ [Next]_vars /\ ~Main => Flags'
BY DEF Flags, Next, UserCloses, CpuStarts, CpuRuns, CpuHalts, CpuLeaves,
       CpuStopsVideo, Keyboard, Video, Timer, TimerElapses, TimerEnds,
       SpuriousWakeup, CpuTraps, executes, cpu_debugger_trap_handler, op_xbrk, op_wfi,
       uses, signalled, next_wait, pic_interrupt_trigger, vars

LEMMA MainUses == Uses /\ Main => Uses'
BY DEF Uses, Main, VmStart, VideoLoop, WindowOpens, WindowFails, Frame, AfterLoop,
       JoinCpu, PicDestroy, pit_destroy, keyboard_destroy, video_destroy, uses,
       signalled, stop_requested, pic_interrupt_trigger

LEMMA OtherUses == Uses /\ [Next]_vars /\ ~Main => Uses'
BY DEF Uses, Next, UserCloses, CpuStarts, CpuRuns, CpuHalts, CpuLeaves,
       CpuStopsVideo, Keyboard, Video, Timer, TimerElapses, TimerEnds,
       SpuriousWakeup, CpuTraps, executes, cpu_debugger_trap_handler, op_xbrk, op_wfi,
       uses, signalled, next_wait, pic_interrupt_trigger, vars

LEMMA MainLives == Lives /\ Main => Lives'
<1> SUFFICES ASSUME Lives, Main PROVE Lives'
  OBVIOUS
<1> USE DEF Lives
<1>1. CASE VmStart
  BY <1>1 DEF VmStart
<1>2. CASE VideoLoop
  BY <1>2 DEF VideoLoop
<1>3. CASE WindowOpens
  BY <1>3 DEF WindowOpens
<1>4. CASE WindowFails
  BY <1>4 DEF WindowFails
<1>5. CASE Frame
  BY <1>5 DEF Frame, uses, stop_requested, pic_interrupt_trigger
<1>6. CASE AfterLoop
  BY <1>6 DEF AfterLoop
<1>7. CASE JoinCpu
  BY <1>7 DEF JoinCpu
<1>8. CASE PicDestroy
  BY <1>8 DEF PicDestroy
<1>9. CASE pit_destroy
  BY <1>9 DEF pit_destroy
<1>10. CASE keyboard_destroy
  BY <1>10 DEF keyboard_destroy, signalled
<1>11. CASE video_destroy
  BY <1>11 DEF video_destroy, signalled
<1> QED
  BY <1>1, <1>2, <1>3, <1>4, <1>5, <1>6, <1>7, <1>8, <1>9, <1>10, <1>11 DEF Main

LEMMA OtherLives == Lives /\ [Next]_vars /\ ~Main => Lives'
<1> SUFFICES ASSUME Lives, [Next]_vars, ~Main PROVE Lives'
  OBVIOUS
<1> USE DEF Lives
<1>1. CASE UserCloses \/ CpuStarts \/ CpuTraps \/ op_xbrk
  BY <1>1 DEF UserCloses, CpuStarts, CpuTraps, op_xbrk
<1>2. CASE op_wfi
  BY <1>2 DEF op_wfi
<1>3. CASE CpuHalts
  BY <1>3 DEF CpuHalts
<1>4. CASE CpuLeaves
  BY <1>4 DEF CpuLeaves
<1>5. CASE CpuStopsVideo
  BY <1>5 DEF CpuStopsVideo
<1>6. CASE CpuRuns
  BY <1>6 DEF CpuRuns, signalled
<1>7. CASE Keyboard \/ Video
  BY <1>7 DEF Keyboard, Video, next_wait
<1>8. CASE Timer \/ SpuriousWakeup
  BY <1>8 DEF Timer, TimerElapses, TimerEnds, SpuriousWakeup
<1>9. CASE UNCHANGED vars
  BY <1>9 DEF vars
<1> QED
  BY <1>1, <1>2, <1>3, <1>4, <1>5, <1>6, <1>7, <1>8, <1>9 DEF Next

\* The threads are where their code can be; in particular there is a window only while
\* the main thread shows its frames, with the thread that follows the buffer register,
\* whichever of them closes it and in whatever order (vm.c, video.c).
THEOREM VmTypeCorrect == Spec => []TypeOK
<1>1. Init => Places /\ Flags /\ Uses /\ Lives
  BY ModesAssumption
     DEF Init, keyboard_create, pit_create, video_create, Places, Flags, Uses, Lives,
         MainSteps, Waiter
<1>2. Places /\ [Next]_vars => Places'
  BY MainPlaces, OtherPlaces
<1>3. Flags /\ [Next]_vars => Flags'
  BY MainFlags, OtherFlags
<1>4. Uses /\ [Next]_vars => Uses'
  BY MainUses, OtherUses
<1>5. Lives /\ [Next]_vars => Lives'
  BY MainLives, OtherLives
<1>6. Places /\ Flags /\ Uses /\ Lives => TypeOK
  BY Parts
<1> QED
  BY <1>1, <1>2, <1>3, <1>4, <1>5, <1>6, PTL DEF Spec

(***************************************************************************)
(* The devices.                                                            *)
(***************************************************************************)
\* Whatever a step does to the registers, it is a step of Vm or leaves the threads
\* alone: the callback's trigger is what wakes a CPU in WFI.
LEMMA DevicesStepIsVmStep == [DevicesNext]_allVars => [Next]_vars
<1> SUFFICES ASSUME [DevicesNext]_allVars PROVE [Next]_vars
  OBVIOUS
<1>1. CASE DevicesMain
  BY <1>1 DEF DevicesMain, Next
<1>2. CASE keyboard_key
  <2>1. CASE main = "frame" /\ ~callback /\ (UserCloses \/ UNCHANGED vars)
    BY <2>1 DEF Next
  <2>2. CASE /\ pic_interrupt_trigger
             /\ UNCHANGED <<mode, main, running, trap, kb, kbRunning, pit, pitRunning, vid,
                            window, closed, enabled, freed, stale>>
    BY <2>2 DEF pic_interrupt_trigger, SpuriousWakeup, Next, vars
  <2> QED
    BY <1>2, <2>1, <2>2 DEF keyboard_key
<1>3. CASE \E bit \in Bit : CpuWritesMetadata(bit)
  BY <1>3 DEF CpuWritesMetadata, Next
<1>4. CASE CpuComputes
  BY <1>4 DEF CpuComputes, Next
<1>5. CASE CpuTakesKey \/ CpuReadsKey \/ ControllerRace \/ VideoReads \/ VideoFollows
  BY <1>5 DEF CpuTakesKey, CpuReadsKey, ControllerRace, VideoReads, VideoFollows, Next
<1>6. CASE DevicesVideo \/ DevicesKeyboard \/ DevicesTimer
  BY <1>6 DEF DevicesVideo, DevicesKeyboard, DevicesTimer, Next
<1>7. CASE UserCloses \/ CpuStarts \/ CpuTraps \/ op_xbrk \/ op_wfi \/ CpuHalts
           \/ CpuLeaves \/ CpuStopsVideo \/ SpuriousWakeup
  BY <1>7 DEF Next
<1>8. CASE UNCHANGED allVars
  BY <1>8 DEF allVars
<1> QED
  BY <1>1, <1>2, <1>3, <1>4, <1>5, <1>6, <1>7, <1>8 DEF DevicesNext

\* The machine with its registers implements the machine of threads: what is proved
\* of Vm's threads holds of the machine whose registers they share.
THEOREM DevicesImplementVm == DevicesSpec => Spec
<1>1. DevicesInit => Init
  BY DEF DevicesInit
<1>2. [DevicesNext]_allVars => [Next]_vars
  BY DevicesStepIsVmStep
<1> QED
  BY <1>1, <1>2, PTL DEF DevicesSpec, Spec

\* Of all threads only the timer's uses a component vm_destroy has freed, also when
\* keys are pressed and the registers written.
THEOREM DevicesOnlyTimerUsesFreed == DevicesSpec => []OnlyTimerUsesFreed
BY DevicesImplementVm, OnlyTimerUsesFreedHolds, PTL

\* The threads are where their code can be, and the registers and what the threads
\* read of them are bits, whatever the program writes (video.c, keyboard.c).
THEOREM DevicesTypeCorrect == DevicesSpec => []DevicesTypeOK
<1> DEFINE Registers ==
             /\ metadata \in Bit /\ buffer \in Bit /\ flags \in Bit \union {NotRead}
             /\ woken \in BOOLEAN /\ missed \in BOOLEAN /\ callback \in BOOLEAN
             /\ pending \in BOOLEAN /\ serving \in BOOLEAN /\ owed \in BOOLEAN
<1>1. DevicesInit => Registers
  BY DEF DevicesInit, Bit
<1>2. Registers /\ [DevicesNext]_allVars => Registers'
  <2> SUFFICES ASSUME Registers, [DevicesNext]_allVars PROVE Registers'
    OBVIOUS
  <2> USE DEF keyVars, videoVars
  <2>1. CASE keyboard_key
    BY <2>1 DEF keyboard_key
  <2>2. CASE \E bit \in Bit : CpuWritesMetadata(bit)
    BY <2>2 DEF CpuWritesMetadata, listening
  <2>3. CASE Wakes
    BY <2>3 DEF Wakes
  <2>4. CASE CpuTakesKey \/ CpuReadsKey \/ ControllerRace
    BY <2>4 DEF CpuTakesKey, CpuReadsKey, ControllerRace
  <2>5. CASE VideoReads \/ VideoFollows
    BY <2>5 DEF VideoReads, VideoFollows
  <2>6. CASE UNCHANGED allVars
    BY <2>6 DEF allVars
  <2> QED
    BY <2>1, <2>2, <2>3, <2>4, <2>5, <2>6
       DEF DevicesNext, DevicesMain, CpuComputes, DevicesVideo, DevicesKeyboard, DevicesTimer
<1>3. TypeOK /\ Registers => DevicesTypeOK
  BY DEF DevicesTypeOK
<1> QED
  BY <1>1, <1>2, <1>3, DevicesImplementVm, VmTypeCorrect, PTL DEF DevicesSpec

----------------------------------------------------------------------------
(***************************************************************************)
(* The last key event.                                                     *)
(***************************************************************************)
\* However the handler, the callback and the controller's races interleave, the last
\* key event that is unread still has an interrupt to come, unless it was lost.
THEOREM LastKeyComesHolds == DevicesSpec => []LastKeyComes
<1>1. DevicesInit => LastKeyComes
  BY DEF DevicesInit, LastKeyComes
<1>2. LastKeyComes /\ [DevicesNext]_allVars => LastKeyComes'
  <2> SUFFICES ASSUME LastKeyComes, [DevicesNext]_allVars PROVE LastKeyComes'
    OBVIOUS
  <2> USE DEF LastKeyComes, keyVars
  <2>1. CASE keyboard_key
    BY <2>1 DEF keyboard_key
  <2>2. CASE \E bit \in Bit : CpuWritesMetadata(bit)
    BY <2>2 DEF CpuWritesMetadata
  <2>3. CASE Wakes
    BY <2>3 DEF Wakes
  <2>4. CASE CpuTakesKey
    BY <2>4 DEF CpuTakesKey
  <2>5. CASE CpuReadsKey
    BY <2>5 DEF CpuReadsKey
  <2>6. CASE ControllerRace
    BY <2>6 DEF ControllerRace
  <2>7. CASE VideoReads \/ VideoFollows
    BY <2>7 DEF VideoReads, VideoFollows
  <2>8. CASE UNCHANGED allVars
    BY <2>8 DEF allVars
  <2> QED
    BY <2>1, <2>2, <2>3, <2>4, <2>5, <2>6, <2>7, <2>8
       DEF DevicesNext, DevicesMain, CpuComputes, DevicesVideo, DevicesKeyboard, DevicesTimer
<1> QED
  BY <1>1, <1>2, PTL DEF DevicesSpec

----------------------------------------------------------------------------
(***************************************************************************)
(* The buffer on the screen.                                               *)
(***************************************************************************)
\* While the thread is signalled the screen may lag behind the register; before the
\* thread has read the register it neither shows it nor waits; and what it read last
\* is what it shows, unless a switch was missed.
ScreenInv ==
    /\ buffer # metadata => missed \/ woken
    /\ flags = NotRead => ~woken /\ vid \in {"none", "check"}
    /\ flags # NotRead /\ buffer # flags => missed
    /\ woken => vid = "check"

\* The steps of Vm that are not the video's own thread's.
Others ==
    \/ Main \/ UserCloses \/ CpuStarts \/ CpuTraps \/ CpuRuns \/ op_xbrk \/ op_wfi
    \/ CpuHalts \/ CpuLeaves \/ CpuStopsVideo \/ Keyboard \/ Timer \/ SpuriousWakeup

\* Every one of them leaves the video's wait as it is, signals it or starts it.
LEMMA VideoOnlySignalled ==
    ASSUME Others PROVE vid' \in {vid, signalled(vid), "check"}
<1>1. CASE Main
  BY <1>1 DEF Main, VmStart, VideoLoop, WindowOpens, WindowFails, Frame, AfterLoop,
              JoinCpu, PicDestroy, pit_destroy, keyboard_destroy, video_destroy
<1>2. CASE UserCloses \/ CpuStarts \/ CpuTraps \/ CpuRuns \/ op_xbrk \/ op_wfi
           \/ CpuHalts \/ CpuLeaves \/ CpuStopsVideo
  BY <1>2 DEF UserCloses, CpuStarts, CpuTraps, CpuRuns, op_xbrk, op_wfi, CpuHalts,
              CpuLeaves, CpuStopsVideo
<1>3. CASE Keyboard \/ Timer \/ SpuriousWakeup
  BY <1>3 DEF Keyboard, Timer, TimerElapses, TimerEnds, SpuriousWakeup
<1> QED
  BY <1>1, <1>2, <1>3 DEF Others

\* The thread that is signalled is noted as woken, and nothing else changes.
LEMMA WakesStep == ASSUME ScreenInv, Wakes, Others PROVE ScreenInv'
<1>1. vid' \in {vid, signalled(vid), "check"}
  BY VideoOnlySignalled
<1> QED
  BY <1>1 DEF ScreenInv, Wakes, signalled

\* A step of the video's thread to its end, its lock or its wait.
LEMMA VideoStep == ASSUME ScreenInv, DevicesVideo PROVE ScreenInv'
BY DEF ScreenInv, DevicesVideo, Video, Wakes

\* Every step of the machine preserves the invariant of the screen.
LEMMA ScreenStep ==
    ASSUME ScreenInv, [DevicesNext]_allVars PROVE ScreenInv'
<1>1. CASE \E bit \in Bit : CpuWritesMetadata(bit)
  <2>1. PICK bit \in Bit : CpuWritesMetadata(bit)
    BY <1>1
  <2> QED
    BY <2>1 DEF CpuWritesMetadata, ScreenInv, listening, signalled
<1>2. CASE VideoReads
  BY <1>2 DEF VideoReads, ScreenInv, vars
<1>3. CASE VideoFollows
  BY <1>3 DEF VideoFollows, ScreenInv, vars
<1>4. CASE DevicesVideo
  BY <1>4, VideoStep
<1>5. CASE Wakes /\ Others
  BY <1>5, WakesStep
<1>6. CASE keyboard_key \/ CpuTakesKey \/ CpuReadsKey \/ ControllerRace
  <2>1. UNCHANGED <<vid, videoVars>>
    BY <1>6 DEF keyboard_key, CpuTakesKey, CpuReadsKey, ControllerRace, UserCloses, vars
  <2> QED
    BY <2>1 DEF ScreenInv, videoVars
<1>7. CASE UNCHANGED allVars
  BY <1>7 DEF ScreenInv, allVars, videoVars, vars
<1> QED
  BY <1>1, <1>2, <1>3, <1>4, <1>5, <1>6, <1>7
     DEF DevicesNext, DevicesMain, CpuComputes, DevicesKeyboard, DevicesTimer, Others

\* Whatever the program writes and however the video's thread is woken, by a signal
\* or by itself, the screen shows the buffer the register names once the thread is
\* back in its wait, unless a switch came while the thread did not listen.
THEOREM WrongBufferMissedHolds == DevicesSpec => []WrongBufferMissed
<1>1. DevicesInit => ScreenInv
  BY DEF DevicesInit, Init, video_create, ScreenInv
<1>2. ScreenInv /\ [DevicesNext]_allVars => ScreenInv'
  BY ScreenStep
<1>3. ScreenInv => WrongBufferMissed
  BY DEF ScreenInv, WrongBufferMissed
<1> QED
  BY <1>1, <1>2, <1>3, PTL DEF DevicesSpec
=============================================================================
