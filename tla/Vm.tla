--------------------------------- MODULE Vm ---------------------------------
(***************************************************************************)
(* The life of the machine's threads: vm.c starts them, joins them and     *)
(* frees the components, keyboard.c, pit.c and video.c run them.           *)
(*                                                                         *)
(* Condition variables are modelled by what pthread promises: a signal     *)
(* wakes a thread that waits and is lost otherwise, and a thread may wake  *)
(* by itself.  The CPU waits in WFI for any interrupt to be triggered.     *)
(* The window library (MiniFB) is external: a window may fail              *)
(* to open, the user may close it, and a closed window makes the next      *)
(* mfb_update_ex fail.  What the program executed on the CPU does is left  *)
(* open: it may halt or run for ever, may set a breakpoint, and writes     *)
(* the registers the keyboard and the video wait on when it likes.  At a   *)
(* breakpoint its thread waits for the user; what is typed there is in     *)
(* module Debugger, here it is the answer that counts.                     *)
(***************************************************************************)
EXTENDS Naturals

CONSTANT Modes              \* values of --video

ASSUME ModesAssumption == Modes \subseteq {"none", "master", "slave"}

MainSteps ==
    {"cpu_create", "keyboard_start", "pit_start", "video_loop", "mfb_open",
     "frame", "after_loop", "join_cpu", "pic_destroy", "pit_stop", "pit_join",
     "keyboard_stop", "keyboard_signal", "keyboard_join", "video_stop",
     "video_signal", "video_join", "exit"}

VARIABLES
    mode,       \* --video
    main,       \* the next step of the main thread
    cpu,        \* cpu_thread_run
    running,    \* cpu->state.running
    trap,       \* cpu->debug.trap
    kb,         \* keyboard_thread_run
    kbRunning,  \* keyboard->running
    pit,        \* timer_loop
    pitRunning, \* pit->running
    vid,        \* video_thread_run
    window,     \* video->window is not null
    closed,     \* the window library has been told to close it
    enabled,    \* video->enabled
    freed,      \* components that have been freed
    stale       \* history: threads that used a component after it was freed

vars == <<mode, main, cpu, running, trap, kb, kbRunning, pit, pitRunning, vid, window,
          closed, enabled, freed, stale>>

\* The CPU in cpu_loop: at its head, at the debugger's prompt, in WFI.
InLoop == {"looping", "prompt", "wfi", "waiting"}

Waiter == {"none", "check", "lock", "waiting", "ended"}

TypeOK ==
    /\ mode \in Modes /\ main \in MainSteps
    /\ cpu \in {"none", "starting", "video_stop", "mfb_close", "ended"} \union InLoop
    /\ kb \in Waiter /\ vid \in Waiter
    /\ pit \in {"none", "sleep", "ended"}
    /\ running \in BOOLEAN /\ trap \in BOOLEAN /\ kbRunning \in BOOLEAN /\ pitRunning \in BOOLEAN
    /\ window \in BOOLEAN /\ closed \in BOOLEAN /\ enabled \in BOOLEAN
    /\ freed \subseteq {"bus", "pic", "pit", "keyboard", "video"}
    /\ stale \subseteq {"main", "cpu", "kb", "pit", "vid"}
    \* a window belongs to the frames, and its thread to a window
    /\ window => main = "frame" /\ vid # "none"
    /\ kb = "none" <=> main \in {"cpu_create", "keyboard_start"}

keyboard_create == kb = "none" /\ kbRunning = FALSE

\* running is left to pit_start.
pit_create == pit = "none" /\ pitRunning \in BOOLEAN

video_create ==
    /\ mode \in Modes /\ enabled = (mode # "none")
    /\ vid = "none" /\ window = FALSE /\ closed = FALSE

\* vm_create
Init ==
    /\ keyboard_create /\ pit_create /\ video_create
    /\ main = "cpu_create" /\ cpu = "none" /\ running = FALSE /\ trap = FALSE
    /\ freed = {} /\ stale = {}

\* Thread t uses the components in objects.
uses(t, objects) ==
    stale' = IF objects \intersect freed = {} THEN stale ELSE stale \union {t}

\* pthread_cond_signal to a thread in state t.
signalled(t) == IF t = "waiting" THEN "check" ELSE t

slip_pic_interrupt_trigger == UNCHANGED cpu                \* nobody is signalled

\* pthread_cond_signal of pic_got_interrupt, on which the CPU waits in WFI.
pic_interrupt_trigger == cpu' = IF cpu = "waiting" THEN "looping" ELSE cpu

----------------------------------------------------------------------------
(***************************************************************************)
(* The main thread.                                                        *)
(***************************************************************************)
VmStart ==
    /\ \/ /\ main = "cpu_create" /\ cpu' = "starting" /\ main' = "keyboard_start"
          /\ UNCHANGED <<kb, kbRunning, pit, pitRunning>>
       \/ /\ main = "keyboard_start" /\ kbRunning' = TRUE /\ kb' = "check"
          /\ main' = "pit_start"
          /\ UNCHANGED <<cpu, pit, pitRunning>>
       \/ /\ main = "pit_start" /\ pitRunning' = TRUE /\ pit' = "sleep"
          /\ main' = "video_loop"
          /\ UNCHANGED <<cpu, kb, kbRunning>>
    /\ UNCHANGED <<mode, running, trap, vid, window, closed, enabled, freed, stale>>

\* video_loop decides whether to open a window ...
VideoLoop ==
    /\ main = "video_loop"
    /\ main' = IF enabled THEN "mfb_open" ELSE "after_loop"
    /\ UNCHANGED <<mode, cpu, running, trap, kb, kbRunning, pit, pitRunning, vid, window,
                   closed, enabled, freed, stale>>

\* ... opens it and starts the thread that follows the buffer register ...
WindowOpens ==
    /\ main = "mfb_open"
    /\ window' = TRUE /\ closed' = FALSE
    /\ vid' = "check" /\ main' = "frame"
    /\ UNCHANGED <<mode, cpu, running, trap, kb, kbRunning, pit, pitRunning, enabled,
                   freed, stale>>

WindowFails ==
    /\ main = "mfb_open"
    /\ main' = "after_loop"
    /\ UNCHANGED <<mode, cpu, running, trap, kb, kbRunning, pit, pitRunning, vid, window,
                   closed, enabled, freed, stale>>

\* The mutant of stop_requested: the frame does not look at enabled.
slip_stop_requested == closed

\* video_stop, in the frame that sees the video disabled
stop_requested == closed \/ ~enabled

\* The mutant of Frame: the loop leaves without clearing the window.
slip_Frame ==
    /\ main = "frame"
    /\ IF closed THEN main' = "after_loop" /\ UNCHANGED <<cpu, closed>>
                 ELSE /\ closed' = stop_requested /\ UNCHANGED main
                      /\ pic_interrupt_trigger
    /\ uses("main", {"pic", "video", "keyboard"})
    /\ UNCHANGED <<mode, running, trap, kb, kbRunning, pit, pitRunning, vid, window,
                   enabled, freed>>

\* ... and shows frames, triggering INT_VSYNC, until the window is closed.
Frame ==
    /\ main = "frame"
    /\ IF closed THEN window' = FALSE /\ main' = "after_loop" /\ UNCHANGED <<cpu, closed>>
                 ELSE /\ closed' = stop_requested /\ UNCHANGED <<window, main>>
                      /\ pic_interrupt_trigger
    /\ uses("main", {"pic", "video", "keyboard"})
    /\ UNCHANGED <<mode, running, trap, kb, kbRunning, pit, pitRunning, vid, enabled, freed>>

\* The mutant of AfterLoop: nothing is said to the CPU.
slip_AfterLoop ==
    /\ main = "after_loop" /\ main' = "join_cpu"
    /\ UNCHANGED <<mode, cpu, running, trap, kb, kbRunning, pit, pitRunning, vid, window,
                   closed, enabled, freed, stale>>

AfterLoop ==
    /\ main = "after_loop" /\ main' = "join_cpu"
    /\ running' = IF mode = "master" THEN FALSE ELSE running
    /\ UNCHANGED <<mode, cpu, trap, kb, kbRunning, pit, pitRunning, vid, window, closed,
                   enabled, freed, stale>>

JoinCpu ==
    /\ main = "join_cpu" /\ cpu = "ended"
    /\ main' = "pic_destroy"
    /\ UNCHANGED <<mode, cpu, running, trap, kb, kbRunning, pit, pitRunning, vid, window,
                   closed, enabled, freed, stale>>

\* vm_destroy frees the memories, the bus and the interrupt controller, and only
\* then stops the timer.
PicDestroy ==
    /\ main = "pic_destroy" /\ main' = "pit_stop"
    /\ freed' = freed \union {"bus", "pic"}
    /\ UNCHANGED <<mode, cpu, running, trap, kb, kbRunning, pit, pitRunning, vid, window,
                   closed, enabled, stale>>

\* The mutant of pit_destroy: the timer's flag is not cleared.
slip_pit_destroy ==
    /\ \/ main = "pit_stop" /\ main' = "pit_join" /\ UNCHANGED freed
       \/ /\ main = "pit_join" /\ pit = "ended" /\ main' = "keyboard_stop"
          /\ freed' = freed \union {"pit"}
    /\ UNCHANGED <<mode, cpu, running, trap, kb, kbRunning, pit, pitRunning, vid, window,
                   closed, enabled, stale>>

pit_destroy ==
    /\ \/ /\ main = "pit_stop" /\ pitRunning' = FALSE /\ main' = "pit_join"
          /\ UNCHANGED freed
       \/ /\ main = "pit_join" /\ pit = "ended" /\ main' = "keyboard_stop"
          /\ freed' = freed \union {"pit"} /\ UNCHANGED pitRunning
    /\ UNCHANGED <<mode, cpu, running, trap, kb, kbRunning, pit, vid, window, closed,
                   enabled, stale>>

\* The mutant of keyboard_destroy: the memory goes before the join.
slip_keyboard_destroy ==
    /\ \/ /\ main = "keyboard_stop" /\ kbRunning' = FALSE
          /\ main' = "keyboard_signal" /\ UNCHANGED <<kb, freed>>
       \/ /\ main = "keyboard_signal" /\ kb' = signalled(kb)
          /\ freed' = freed \union {"keyboard"}
          /\ main' = "keyboard_join" /\ UNCHANGED kbRunning
       \/ /\ main = "keyboard_join" /\ kb = "ended" /\ main' = "video_stop"
          /\ UNCHANGED <<kb, kbRunning, freed>>
    /\ UNCHANGED <<mode, cpu, running, trap, pit, pitRunning, vid, window, closed,
                   enabled, stale>>

\* keyboard_destroy: the flag, one signal without the lock, the join.
keyboard_destroy ==
    /\ \/ /\ main = "keyboard_stop" /\ kbRunning' = FALSE
          /\ main' = "keyboard_signal" /\ UNCHANGED <<kb, freed>>
       \/ /\ main = "keyboard_signal" /\ kb' = signalled(kb)
          /\ main' = "keyboard_join" /\ UNCHANGED <<kbRunning, freed>>
       \/ /\ main = "keyboard_join" /\ kb = "ended" /\ main' = "video_stop"
          /\ freed' = freed \union {"keyboard"} /\ UNCHANGED <<kb, kbRunning>>
    /\ UNCHANGED <<mode, cpu, running, trap, pit, pitRunning, vid, window, closed,
                   enabled, stale>>

\* video_destroy: video_stop closes a window that is already null; then one
\* signal without the lock and the join, also of a thread never created, where
\* the join of an indeterminate thread returns or ends the process.
video_destroy ==
    /\ \/ /\ main = "video_stop" /\ enabled' = FALSE /\ main' = "video_signal"
          /\ UNCHANGED <<vid, freed>>
       \/ /\ main = "video_signal" /\ vid' = signalled(vid) /\ main' = "video_join"
          /\ UNCHANGED <<enabled, freed>>
       \/ /\ main = "video_join" /\ vid \in {"none", "ended"} /\ main' = "exit"
          /\ freed' = freed \union {"video"} /\ UNCHANGED <<enabled, vid>>
    /\ UNCHANGED <<mode, cpu, running, trap, kb, kbRunning, pit, pitRunning, window,
                   closed, stale>>

Main ==
    \/ VmStart \/ VideoLoop \/ WindowOpens \/ WindowFails \/ Frame \/ AfterLoop
    \/ JoinCpu \/ PicDestroy \/ pit_destroy \/ keyboard_destroy \/ video_destroy

\* The user closes the window, or hits Escape in it.
UserCloses ==
    /\ window /\ ~closed
    /\ closed' = TRUE
    /\ UNCHANGED <<mode, main, cpu, running, trap, kb, kbRunning, pit, pitRunning, vid,
                   window, enabled, freed, stale>>

----------------------------------------------------------------------------
(***************************************************************************)
(* The CPU's thread.                                                       *)
(***************************************************************************)
\* cpu_loop starts by setting running, whatever it was.
CpuStarts ==
    /\ cpu = "starting" /\ cpu' = "looping" /\ running' = TRUE
    /\ UNCHANGED <<mode, main, trap, kb, kbRunning, pit, pitRunning, vid, window, closed,
                   enabled, freed, stale>>

\* Under a breakpoint the loop asks the debugger, which main always attaches, before
\* it executes an instruction.
CpuTraps ==
    /\ cpu = "looping" /\ running /\ trap /\ cpu' = "prompt"
    /\ UNCHANGED <<mode, main, running, trap, kb, kbRunning, pit, pitRunning, vid, window,
                   closed, enabled, freed, stale>>

\* The user's answer is stored in running, over what came meanwhile: step is 1, quit
\* and continue are 0, and continue takes the breakpoint away.
cpu_debugger_trap_handler ==
    /\ cpu = "prompt"
    /\ \/ running' = TRUE /\ UNCHANGED trap
       \/ running' = FALSE /\ trap' \in {trap, FALSE}

\* The loop gets to executing an instruction: after an answer, whatever the answer.
executes ==
    \/ cpu = "looping" /\ running /\ ~trap /\ UNCHANGED <<running, trap>>
    \/ cpu_debugger_trap_handler

\* An instruction: it may write the keyboard's or the video's register, whose
\* notification signals their thread.
CpuRuns ==
    /\ executes /\ cpu' = "looping"
    /\ \/ kb' = signalled(kb) /\ UNCHANGED vid
       \/ vid' = signalled(vid) /\ UNCHANGED kb
       \/ UNCHANGED <<kb, vid>>
    /\ uses("cpu", {"bus", "pic", "keyboard", "video"})
    /\ UNCHANGED <<mode, main, kbRunning, pit, pitRunning, window, closed, enabled,
                   freed>>

\* WFI locks the mutex of pic_got_interrupt, then waits; what is triggered between
\* does not wake it.
op_wfi ==
    /\ \/ executes /\ cpu' = "wfi"
       \/ cpu = "wfi" /\ cpu' = "waiting" /\ UNCHANGED <<running, trap>>
    /\ uses("cpu", {"bus", "pic"})
    /\ UNCHANGED <<mode, main, kb, kbRunning, pit, pitRunning, vid, window, closed,
                   enabled, freed>>

op_xbrk ==
    /\ \/ cpu = "looping" /\ running /\ ~trap /\ UNCHANGED running
       \/ cpu = "prompt" /\ running' \in BOOLEAN
    /\ cpu' = "looping" /\ trap' = TRUE
    /\ uses("cpu", {"bus"})
    /\ UNCHANGED <<mode, main, kb, kbRunning, pit, pitRunning, vid, window, closed,
                   enabled, freed>>

\* HALT, or a panic: the instruction's, or that of the entry or the fetch before it.
CpuHalts ==
    /\ \/ cpu = "looping" /\ running /\ UNCHANGED trap
       \/ cpu = "prompt" /\ trap' \in {trap, FALSE}
    /\ cpu' = "looping" /\ running' = FALSE
    /\ UNCHANGED <<mode, main, kb, kbRunning, pit, pitRunning, vid, window, closed,
                   enabled, freed, stale>>

CpuLeaves ==
    /\ cpu = "looping" /\ ~running
    /\ cpu' = IF mode = "slave" THEN "video_stop" ELSE "ended"
    /\ UNCHANGED <<mode, main, running, trap, kb, kbRunning, pit, pitRunning, vid,
                   window, closed, enabled, freed, stale>>

\* video_stop, on the CPU's thread.
CpuStopsVideo ==
    /\ \/ cpu = "video_stop" /\ cpu' = "mfb_close" /\ enabled' = FALSE
          /\ UNCHANGED closed
       \/ cpu = "mfb_close" /\ cpu' = "ended" /\ closed' = (closed \/ window)
          /\ UNCHANGED enabled
    /\ uses("cpu", {"video"})
    /\ UNCHANGED <<mode, main, running, trap, kb, kbRunning, pit, pitRunning, vid, window,
                   freed>>

----------------------------------------------------------------------------
(***************************************************************************)
(* The keyboard's, the timer's and the video's threads.  A waiter tests    *)
(* its flag before it locks and waits, never after.                        *)
(***************************************************************************)
next_wait(t, going) ==
    CASE t = "check" -> IF going THEN "lock" ELSE "ended"
      [] t = "lock" -> "waiting"

Keyboard ==
    /\ kb \in {"check", "lock"}
    /\ kb' = next_wait(kb, kbRunning)
    /\ uses("kb", {"keyboard"})
    /\ UNCHANGED <<mode, main, cpu, running, trap, kbRunning, pit, pitRunning, vid,
                   window, closed, enabled, freed>>

Video ==
    /\ vid \in {"check", "lock"}
    /\ vid' = next_wait(vid, window)
    /\ uses("vid", {"video"})
    /\ UNCHANGED <<mode, main, cpu, running, trap, kb, kbRunning, pit, pitRunning,
                   window, closed, enabled, freed>>

\* usleep, the trigger once the period has passed, and the test of the flag.
TimerElapses ==
    /\ pit = "sleep" /\ pit' = IF pitRunning THEN "sleep" ELSE "ended"
    /\ pic_interrupt_trigger /\ uses("pit", {"pit", "pic"})
    /\ UNCHANGED <<mode, main, running, trap, kb, kbRunning, pitRunning, vid, window,
                   closed, enabled, freed>>

\* A pass within the period only matters if it finds the flag cleared.
TimerEnds ==
    /\ pit = "sleep" /\ ~pitRunning /\ pit' = "ended"
    /\ uses("pit", {"pit"})
    /\ UNCHANGED <<mode, main, cpu, running, trap, kb, kbRunning, pitRunning, vid, window,
                   closed, enabled, freed>>

Timer == TimerElapses \/ TimerEnds

SpuriousWakeup ==
    /\ \/ kb = "waiting" /\ kb' = "check" /\ UNCHANGED <<cpu, vid>>
       \/ vid = "waiting" /\ vid' = "check" /\ UNCHANGED <<cpu, kb>>
       \/ cpu = "waiting" /\ cpu' = "looping" /\ UNCHANGED <<kb, vid>>
    /\ UNCHANGED <<mode, main, running, trap, kbRunning, pit, pitRunning, window,
                   closed, enabled, freed, stale>>

Next ==
    \/ Main \/ UserCloses
    \/ CpuStarts \/ CpuTraps \/ CpuRuns \/ op_xbrk \/ op_wfi
    \/ CpuHalts \/ CpuLeaves \/ CpuStopsVideo
    \/ Keyboard \/ Video \/ Timer \/ SpuriousWakeup

Spec == Init /\ [][Next]_vars

\* Every thread that can run does, and the timer's period passes again and again.
\* The program need not halt or reach WFI, though a WFI it began gets to its wait;
\* the user need not close the window nor answer the prompt, though an answer is acted
\* on, and no thread need wake by itself.
FairSpec ==
    /\ Spec
    /\ WF_vars(Main)
    /\ WF_vars(CpuStarts) /\ WF_vars(CpuTraps) /\ WF_vars(CpuLeaves)
    /\ WF_vars(cpu = "wfi" /\ op_wfi) /\ WF_vars(CpuStopsVideo)
    /\ WF_vars(Keyboard) /\ WF_vars(Video)
    /\ WF_vars(Timer)

----------------------------------------------------------------------------
(***************************************************************************)
(* Properties.                                                             *)
(***************************************************************************)
\* Of all threads only the timer's ever uses a component that vm_destroy has
\* freed: the CPU, the keyboard and the video are joined first.  (The timer
\* does: pic_destroy comes before pit_destroy.)
OnlyTimerUsesFreed == stale \subseteq {"pit"}

\* In slave mode the window goes when the CPU has halted, also when the CPU halts
\* while the window is being opened.
SlaveFollows ==
    (mode = "slave" /\ cpu = "ended") ~> main \notin {"video_loop", "mfb_open", "frame"}

\* A CPU asleep in WFI resumes, whatever the main thread does: the timer is started
\* whether or not a window opens, and stopped only once the CPU's thread is joined.
WfiResumes == cpu = "waiting" ~> cpu = "looping"

\* In master mode the CPU stops after the window is closed, also if it sleeps in WFI
\* or stands at the debugger's prompt then, provided its thread had entered the loop,
\* which begins with overwriting a stop that came before.  The debugger may overwrite
\* it too: the CPU stays there as long as the user answers step, or nothing.
MasterStops ==
    (mode = "master" /\ main = "after_loop" /\ cpu \in InLoop) ~>
        (cpu = "ended" \/ []<>(cpu = "prompt"))

\* Once the CPU's thread has ended and is joined, the process exits, or hangs in
\* the join of a thread that began to wait after the one signal meant for it.
ShutdownEnds ==
    main = "pic_destroy" ~>
        \/ main = "exit"
        \/ main = "keyboard_join" /\ kb = "waiting"
        \/ main = "video_join" /\ vid = "waiting"

\* bin/test-vm.sh:18 runs each test program, without video, in a command
\* substitution, which waits for the machine to exit after the program halted.
TestExits == (mode = "none" /\ cpu = "ended") ~> (main = "exit")
=============================================================================
