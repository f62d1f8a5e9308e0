------------------------------ MODULE Devices ------------------------------
(***************************************************************************)
(* The registers of the video and of the keyboard, on the threads of       *)
(* module Vm: what the CPU writes and the video's thread follows, and what *)
(* the window's keyboard callback writes and the CPU's handler reads.      *)
(*                                                                         *)
(* Every action is one of Vm's, with what it does to the registers, or a   *)
(* step between two of Vm's.  Of the metadata register only the bit        *)
(* VIDEO_BIT_BUFFER matters, of the keyboard's register only whether the   *)
(* handler has read its last word.  A write of a register and the signal   *)
(* that bus_word_write sends after it are one step: a thread that looked   *)
(* between them would only be signalled once more.                         *)
(***************************************************************************)
EXTENDS Vm, Integers

VARIABLES
    metadata,   \* the bit VIDEO_BIT_BUFFER of the metadata register
    flags,      \* video_thread_run: the bit it read last
    buffer,     \* the buffer that is shown
    woken,      \* the video's thread was signalled and has not read the register
    missed,     \* history: a switch was written while the thread did not listen,
                \* and the wrong buffer may be shown since
    callback,   \* video_kb_callback has written the register, not yet triggered
    pending,    \* INT_KEYBOARD is active
    serving,    \* INT_KEYBOARD was taken and its handler has not read the register
    owed        \* history: the last event was not read, nor its trigger lost

videoVars == <<metadata, flags, buffer, woken, missed>>
keyVars == <<callback, pending, serving, owed>>
allVars == <<vars, videoVars, keyVars>>

NotRead == -1
Bit == {0, 1}

DevicesTypeOK ==
    /\ TypeOK
    /\ metadata \in Bit /\ buffer \in Bit /\ flags \in Bit \union {NotRead}
    /\ woken \in BOOLEAN /\ missed \in BOOLEAN /\ callback \in BOOLEAN
    /\ pending \in BOOLEAN /\ serving \in BOOLEAN /\ owed \in BOOLEAN

\* video_create: the register holds VIDEO_BIT_ENABLED, the first buffer is shown.
DevicesInit ==
    /\ Init
    /\ metadata = 0 /\ buffer = 0 /\ flags = NotRead /\ woken = FALSE
    /\ callback = FALSE /\ pending = FALSE /\ serving = FALSE
    /\ missed = FALSE /\ owed = FALSE

----------------------------------------------------------------------------
(***************************************************************************)
(* The video.                                                              *)
(***************************************************************************)
listening == vid = "waiting" \/ woken

\* The instruction that writes the metadata register.
CpuWritesMetadata(bit) ==
    /\ CpuRuns /\ vid' = signalled(vid) /\ kb' = kb
    /\ metadata' = bit
    /\ woken' = listening
    /\ missed' = (missed \/ (bit # metadata /\ ~listening))
    /\ UNCHANGED <<flags, buffer, keyVars>>

\* Before its loop the thread reads the register once.
VideoReads ==
    /\ vid = "check" /\ flags = NotRead
    /\ flags' = metadata
    /\ UNCHANGED <<vars, metadata, buffer, woken, missed, keyVars>>

\* The mutant of VideoFollows: the bit it read is not kept.
slip_VideoFollows ==
    /\ vid = "check" /\ woken
    /\ buffer' = IF flags # metadata THEN metadata ELSE buffer
    /\ woken' = FALSE
    /\ missed' = (missed /\ buffer' # metadata)
    /\ UNCHANGED <<vars, metadata, flags, keyVars>>

\* Back from the wait, it shows the other buffer if the bit it reads is not the
\* one it read before.
VideoFollows ==
    /\ vid = "check" /\ woken
    /\ buffer' = IF flags # metadata THEN metadata ELSE buffer
    /\ flags' = metadata
    /\ woken' = FALSE
    /\ missed' = (missed /\ buffer' # metadata)
    /\ UNCHANGED <<vars, metadata, keyVars>>

\* A step of Vm that may end the wait of the video's thread.
Wakes ==
    /\ woken' = (woken \/ (vid = "waiting" /\ vid' = "check"))
    /\ UNCHANGED <<metadata, flags, buffer, missed, keyVars>>

----------------------------------------------------------------------------
(***************************************************************************)
(* The keyboard.  MiniFB calls video_kb_callback while it updates the      *)
(* window, any number of times.                                            *)
(***************************************************************************)
\* The mutant of keyboard_key: the interrupt comes before the register's word.
slip_keyboard_key ==
    \/ /\ main = "frame" /\ ~callback
       /\ pic_interrupt_trigger
       /\ callback' = TRUE /\ pending' = TRUE
       /\ UNCHANGED <<mode, main, running, trap, kb, kbRunning, pit, pitRunning, vid, window,
                      closed, enabled, freed, stale, videoVars, serving, owed>>
    \/ /\ callback
       /\ callback' = FALSE /\ owed' = TRUE
       /\ UNCHANGED <<vars, videoVars, pending, serving>>

\* keyboard_key_pressed and keyboard_key_released write the register over whatever
\* it held, then trigger INT_KEYBOARD.  Escape closes the window before.
keyboard_key ==
    \/ /\ main = "frame" /\ ~callback
       /\ (UserCloses \/ UNCHANGED vars)
       /\ callback' = TRUE /\ owed' = TRUE
       /\ UNCHANGED <<videoVars, pending, serving>>
    \/ /\ callback
       /\ pic_interrupt_trigger
       /\ callback' = FALSE /\ pending' = TRUE
       /\ UNCHANGED <<mode, main, running, trap, kb, kbRunning, pit, pitRunning, vid, window,
                      closed, enabled, freed, stale, videoVars, serving, owed>>

\* The head of cpu_loop takes INT_KEYBOARD ...
CpuTakesKey ==
    /\ cpu = "looping" /\ running /\ pending
    /\ pending' = FALSE /\ serving' = TRUE
    /\ UNCHANGED <<vars, videoVars, callback, owed>>

\* ... and the program's handler then reads the register.
CpuReadsKey ==
    /\ CpuRuns /\ UNCHANGED <<kb, vid>> /\ serving
    /\ serving' = FALSE /\ owed' = FALSE
    /\ UNCHANGED <<videoVars, callback, pending>>

\* What another thread's update of the same word of the controller may undo: the
\* trigger, or the reset (module Interrupts).
ControllerRace ==
    /\ pending' = ~pending
    /\ owed' = (owed /\ ~pending)
    /\ UNCHANGED <<vars, videoVars, callback, serving>>

----------------------------------------------------------------------------
DevicesMain == Main /\ ~callback /\ Wakes
DevicesFrame == Frame /\ ~callback /\ Wakes
DevicesVideo == Video /\ flags # NotRead /\ ~woken /\ Wakes
DevicesKeyboard == Keyboard /\ Wakes
DevicesTimer == Timer /\ Wakes

\* An instruction that does not write the metadata register.
CpuComputes == CpuRuns /\ vid' = vid /\ Wakes

DevicesNext ==
    \/ DevicesMain \/ keyboard_key
    \/ \E bit \in Bit : CpuWritesMetadata(bit)
    \/ CpuComputes \/ CpuTakesKey \/ CpuReadsKey \/ ControllerRace
    \/ DevicesVideo \/ VideoReads \/ VideoFollows
    \/ DevicesKeyboard \/ DevicesTimer
    \/ /\ \/ UserCloses \/ CpuStarts \/ CpuTraps \/ op_xbrk \/ op_wfi
          \/ CpuHalts \/ CpuLeaves \/ CpuStopsVideo \/ SpuriousWakeup
       /\ Wakes

DevicesSpec == DevicesInit /\ [][DevicesNext]_allVars

\* The fairness of Vm, thread by thread: what the CPU must do, the main thread, the
\* other three.  Keys do not come so fast that a frame never ends.
CpuMust ==
    \/ CpuStarts \/ CpuTraps \/ CpuLeaves \/ CpuStopsVideo
    \/ cpu = "wfi" /\ op_wfi

DevicesFair ==
    /\ DevicesSpec
    /\ WF_allVars(CpuMust /\ Wakes)
    /\ WF_allVars(DevicesMain \/ (callback /\ keyboard_key)) /\ SF_allVars(DevicesFrame)
    /\ WF_allVars(DevicesKeyboard)
    /\ WF_allVars(DevicesVideo \/ VideoReads \/ VideoFollows)
    /\ WF_allVars(DevicesTimer)

----------------------------------------------------------------------------
(***************************************************************************)
(* Properties.                                                             *)
(***************************************************************************)
\* The buffer on the screen is the one the register names, whenever the video's
\* thread is back in its wait, unless a switch was written while the thread did
\* not listen: before its first wait, or between two waits.
WrongBufferMissed ==
    vid = "waiting" /\ buffer # metadata => missed

\* The last key event is not overtaken by its own interrupt: as long as the
\* handler has not read it, its interrupt is still to come or being served,
\* unless the controller lost it.
LastKeyComes == owed => callback \/ pending \/ serving
=============================================================================
