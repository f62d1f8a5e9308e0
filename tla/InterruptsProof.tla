-------------------------- MODULE InterruptsProof --------------------------
(***************************************************************************)
(* Proofs about Interrupts.tla for any number of words and interrupts.     *)
(***************************************************************************)
EXTENDS Interrupts, TLAPS

\* What the proofs need of the constants, so that the ranges stay folded.
LEMMA RangeFacts ==
    /\ Interrupt \subseteq Nat /\ 0 \in Interrupt
    /\ Words \subseteq Nat /\ 0 \in Words
    /\ DeviceInterrupt \subseteq Interrupt
    /\ Timer \in DeviceInterrupt
    /\ \A d \in Devices : Raises(d) \subseteq DeviceInterrupt
    /\ \A i \in Interrupt : find_interrupt_location(i) \in Words
<1>1. WordCount * PerWord \in Int
  BY ConstantsAssumption
<1>2. Interrupt \subseteq Nat /\ Words \subseteq Nat
  BY <1>1, ConstantsAssumption DEF Interrupt, Words, INTERRUPTS_COUNT
<1>3. Timer \in Interrupt
  BY ConstantsAssumption DEF DeviceInterrupt
<1>4. 0 \in Interrupt
  BY <1>1, <1>3 DEF Interrupt, INTERRUPTS_COUNT
<1>5. 0 \in Words
  BY ConstantsAssumption DEF Words
<1>6. QED
  BY <1>2, <1>4, <1>5, ConstantsAssumption DEF DeviceInterrupt, Raises

\* Interrupt 0 and the devices' interrupts live in shared words.
LEMMA SharedFacts ==
    /\ 0 \notin Private
    /\ \A i \in DeviceInterrupt : find_interrupt_location(i) \in SharedWord
    /\ \A i \in Private : /\ i \in Interrupt
                          /\ find_interrupt_location(i) \notin SharedWord
    /\ \A i \in Interrupt \ Private : find_interrupt_location(i) \in SharedWord
BY ConstantsAssumption DEF Private, SharedWord

(***************************************************************************)
(* Type correctness.                                                       *)
(***************************************************************************)
LEMMA TypeInit == Init => TypeOK
BY RangeFacts DEF Init, TypeOK

LEMMA TypeNext == TypeOK /\ [Next]_vars => TypeOK'
<1> SUFFICES ASSUME TypeOK, [Next]_vars PROVE TypeOK'
  OBVIOUS
<1> USE RangeFacts DEF TypeOK, devVars, cpuVars
<1>1. ASSUME NEW d \in Devices, NEW i \in Raises(d), TriggerLoad(d, i)
      PROVE  TypeOK'
  BY <1>1 DEF TriggerLoad
<1>2. ASSUME NEW d \in Devices, TriggerStore(d) PROVE TypeOK'
  BY <1>2 DEF TriggerStore, set_bit
<1>3. ASSUME NEW d \in Devices, TriggerSignal(d) PROVE TypeOK'
  BY <1>3 DEF TriggerSignal, woken
<1>4. CASE LoopTop
  BY <1>4 DEF LoopTop
<1>5. CASE pic_interrupt_active
  BY <1>5 DEF pic_interrupt_active
<1>6. CASE pic_interrupt_get
  BY <1>6 DEF pic_interrupt_get, scan_ends
<1>7. CASE ResetLoad
  BY <1>7 DEF ResetLoad
<1>8. CASE ResetStore
  BY <1>8 DEF ResetStore, clear_bit
<1>9. CASE Enter
  BY <1>9 DEF Enter
<1>10. CASE IntStore
  BY <1>10 DEF IntStore, set_bit
<1>11. CASE WfiWait
  BY <1>11 DEF WfiWait
<1>12. CASE SpuriousWakeup
  BY <1>12 DEF SpuriousWakeup
<1>13. ASSUME NEW i \in Interrupt, op_int(i) PROVE TypeOK'
  BY <1>13 DEF op_int
<1>14. ASSUME NEW w \in Words, NEW m \in SUBSET Interrupt, SetMaskWord(w, m)
       PROVE  TypeOK'
  BY <1>14 DEF SetMaskWord
<1>15. ASSUME NEW i \in Interrupt, op_mi(i) \/ op_umi(i) PROVE TypeOK'
  <2>1. /\ set_bit(mask[find_interrupt_location(i)], i) \in SUBSET Interrupt
        /\ clear_bit(mask[find_interrupt_location(i)], i) \in SUBSET Interrupt
    BY DEF set_bit, clear_bit
  <2>2. QED
    BY <1>14, <1>15, <2>1 DEF op_mi, op_umi
<1>16. ASSUME NEW w \in Words, NEW m \in SUBSET Interrupt, StoreMask(w, m)
       PROVE  TypeOK'
  BY <1>14, <1>16 DEF StoreMask
<1>17. CASE op_ind \/ op_ine
  BY <1>17 DEF op_ind, op_ine, SetFlag
<1>18. CASE op_wfi
  BY <1>18 DEF op_wfi
<1>19. CASE op_other
  BY <1>19 DEF op_other
<1>20. CASE UNCHANGED vars
  BY <1>20 DEF vars
<1>21. QED
  BY <1>1, <1>2, <1>3, <1>4, <1>5, <1>6, <1>7, <1>8, <1>9, <1>10, <1>11, <1>12,
     <1>13, <1>15, <1>16, <1>17, <1>18, <1>19, <1>20
     DEF Next, Cpu, Device, Instruction

\* Every variable of the controller, the CPU loop and the device threads keeps
\* its type: the scans of pic.c never leave their arrays.
THEOREM TypeCorrect == Spec => []TypeOK
BY TypeInit, TypeNext, PTL DEF Spec

(***************************************************************************)
(* The inductive invariant.  Its parts speak of the private words only, so *)
(* a device thread's step, which changes a shared word, disturbs none of   *)
(* them; a step that changes nothing they mention disturbs none either.    *)
(***************************************************************************)
LEMMA InvInit == Init => IInv
BY TypeInit, RangeFacts, SharedFacts
   DEF Init, IInv, PrivateExact, LoadedFresh, ScanPassed, AnswerJustified,
       Active, is_active

\* The parts of the invariant see of the PIC only its private words, the mask
\* and the history of triggers.
LEMMA PrivateWordsOnly ==
    ASSUME TypeOK, UNCHANGED mask,
           \A w \in Words \ SharedWord : active'[w] = active[w]
    PROVE  /\ (Active \cap Private)' = Active \cap Private
           /\ Masked' = Masked
           /\ Waiting' = Waiting
BY RangeFacts, SharedFacts DEF TypeOK, Active, Masked, Waiting, is_active, is_masked

LEMMA InvNext == IInv /\ [Next]_vars => IInv'
<1> SUFFICES ASSUME IInv, [Next]_vars PROVE IInv'
  OBVIOUS
<1>t. TypeOK /\ TypeOK'
  BY TypeNext DEF IInv
<1> DEFINE Rest == PrivateExact /\ LoadedFresh /\ ScanPassed /\ AnswerJustified
<1> SUFFICES Rest'
  BY <1>t DEF IInv
<1>r. Rest
  BY DEF IInv
\* A step that leaves the PIC and the history alone keeps PrivateExact, and
\* the sets the other parts are stated with.
<1>s. ASSUME UNCHANGED <<active, mask, owed>>
      PROVE  /\ PrivateExact' /\ Masked' = Masked /\ Waiting' = Waiting
  BY <1>s, <1>t, <1>r, PrivateWordsOnly DEF PrivateExact
<1>1. ASSUME NEW d \in Devices, NEW i \in Raises(d), TriggerLoad(d, i)
      PROVE  Rest'
  BY <1>1, <1>s, <1>r
     DEF TriggerLoad, LoadedFresh, ScanPassed, AnswerJustified, cpuVars
<1>2. ASSUME NEW d \in Devices, TriggerStore(d) PROVE Rest'
  <2>1. /\ dint[d] \in DeviceInterrupt
        /\ find_interrupt_location(dint[d]) \in SharedWord
    BY <1>t, SharedFacts DEF TypeOK
  <2>2. \A w \in Words \ SharedWord : active'[w] = active[w]
    BY <1>2, <1>t, <2>1 DEF TriggerStore, TypeOK
  <2>3. owed' \cap Private = owed \cap Private
    BY <1>2, <2>1, SharedFacts DEF TriggerStore
  <2>4. UNCHANGED <<mask, cpuVars>>
    BY <1>2 DEF TriggerStore
  <2>5. /\ (Active \cap Private)' = Active \cap Private
        /\ Masked' = Masked /\ Waiting' = Waiting
    BY <1>t, <2>2, <2>4, PrivateWordsOnly
  <2>6. \A i \in Private : active'[find_interrupt_location(i)]
                               = active[find_interrupt_location(i)]
    BY <2>2, SharedFacts, RangeFacts
  <2>7. QED
    BY <1>r, <2>3, <2>4, <2>5, <2>6
       DEF PrivateExact, LoadedFresh, ScanPassed, AnswerJustified, cpuVars
<1>3. ASSUME NEW d \in Devices, TriggerSignal(d) PROVE Rest'
  BY <1>3, <1>s, <1>r
     DEF TriggerSignal, woken, LoadedFresh, ScanPassed, AnswerJustified
<1>4. CASE LoopTop
  BY <1>4, <1>s, <1>r DEF LoopTop, LoadedFresh, ScanPassed, AnswerJustified
<1>5. CASE pic_interrupt_active
  \* The scan of pic_interrupt_get starts at 0.
  <2>1. \A j \in Waiting : 0 <= j
    BY RangeFacts DEF Waiting, Active
  <2>2. QED
    BY <1>5, <1>s, <1>r, <2>1
       DEF pic_interrupt_active, LoadedFresh, ScanPassed, AnswerJustified
<1>6. CASE pic_interrupt_get
  <2>1. /\ PrivateExact' /\ Masked' = Masked /\ Waiting' = Waiting
    BY <1>6, <1>s DEF pic_interrupt_get
  <2>2. /\ \A j \in Waiting : idx <= j
        /\ idx \in Interrupt
    BY <1>6, <1>r, <1>t DEF pic_interrupt_get, ScanPassed, TypeOK
  <2>3. Waiting \subseteq Interrupt /\ Interrupt \subseteq Nat
    BY RangeFacts DEF Waiting, Active
  <2>4. CASE deliverable(idx)
    <3>1. idx \notin Masked /\ (idx \in Private => idx \in Waiting)
      BY <2>2, <2>4 DEF deliverable, Masked, Waiting, Active
    <3>2. QED
      BY <1>6, <2>1, <2>2, <2>4, <3>1
         DEF pic_interrupt_get, LoadedFresh, ScanPassed, AnswerJustified
  <2>5. CASE ~ deliverable(idx)
    <3>1. idx \notin Waiting
      BY <2>2, <2>5 DEF deliverable, Waiting, Active, Masked
    <3>2. \A j \in Waiting : idx + 1 <= j
      BY <2>2, <2>3, <3>1
    <3>3. CASE ~ scan_ends(idx)
      BY <1>6, <2>1, <2>5, <3>2, <3>3
         DEF pic_interrupt_get, LoadedFresh, ScanPassed, AnswerJustified
    <3>4. CASE scan_ends(idx)
      <4>1. \A j \in Interrupt : j <= idx
        BY <2>2, <3>4, ConstantsAssumption
           DEF scan_ends, Interrupt, INTERRUPTS_COUNT
      <4>2. Waiting = {}
        BY <2>2, <2>3, <3>2, <4>1
      <4>3. QED
        BY <1>6, <2>1, <2>5, <3>4, <4>2
           DEF pic_interrupt_get, LoadedFresh, ScanPassed, AnswerJustified
    <3>5. QED
      BY <3>3, <3>4
  <2>6. QED
    BY <2>4, <2>5
<1>7. CASE ResetLoad
  BY <1>7, <1>s, <1>r DEF ResetLoad, LoadedFresh, ScanPassed, AnswerJustified
<1>8. CASE ResetStore
  <2>1. ir \in Interrupt /\ active \in [Words -> SUBSET Interrupt]
    BY <1>t DEF TypeOK
  <2>2. PrivateExact'
    <3>1. ASSUME NEW i \in Private
          PROVE  is_active(i)' <=> is_active(i) /\ i # ir
      BY <1>8, <1>r, <2>1, SharedFacts, RangeFacts
         DEF ResetStore, clear_bit, is_active, LoadedFresh, Private
    <3>2. QED
      BY <1>8, <1>r, <3>1 DEF ResetStore, PrivateExact, Active
  <2>3. QED
    BY <1>8, <2>2 DEF ResetStore, LoadedFresh, ScanPassed, AnswerJustified
<1>9. CASE Enter
  BY <1>9, <1>s, <1>r DEF Enter, LoadedFresh, ScanPassed, AnswerJustified
<1>10. CASE IntStore
  <2>1. arg \in Interrupt /\ active \in [Words -> SUBSET Interrupt]
    BY <1>t DEF TypeOK
  <2>2. PrivateExact'
    <3>1. ASSUME NEW i \in Private
          PROVE  is_active(i)' <=> is_active(i) \/ i = arg
      BY <1>10, <1>r, <2>1, SharedFacts, RangeFacts
         DEF IntStore, set_bit, is_active, LoadedFresh, Private
    <3>2. QED
      BY <1>10, <1>r, <3>1, SharedFacts DEF IntStore, PrivateExact, Active
  <2>3. QED
    BY <1>10, <2>2 DEF IntStore, LoadedFresh, ScanPassed, AnswerJustified
<1>11. CASE WfiWait \/ SpuriousWakeup \/ op_wfi \/ op_other
  BY <1>11, <1>s, <1>r
     DEF WfiWait, SpuriousWakeup, op_wfi, op_other, LoadedFresh, ScanPassed,
         AnswerJustified
<1>12. ASSUME NEW i \in Interrupt, op_int(i) PROVE Rest'
  BY <1>12, <1>s, <1>r DEF op_int, LoadedFresh, ScanPassed, AnswerJustified
<1>13. ASSUME NEW w, NEW m, SetMaskWord(w, m) PROVE Rest'
  <2>1. PrivateExact'
    BY <1>13, <1>r DEF SetMaskWord, PrivateExact, Active, is_active
  <2>2. QED
    BY <1>13, <2>1 DEF SetMaskWord, LoadedFresh, ScanPassed, AnswerJustified
<1>14. CASE op_ind \/ op_ine
  BY <1>14, <1>s, <1>r
     DEF op_ind, op_ine, SetFlag, LoadedFresh, ScanPassed, AnswerJustified
<1>15. CASE UNCHANGED vars
  BY <1>15, <1>s, <1>r
     DEF vars, cpuVars, LoadedFresh, ScanPassed, AnswerJustified
<1>16. QED
  BY <1>1, <1>2, <1>3, <1>4, <1>5, <1>6, <1>7, <1>8, <1>9, <1>10, <1>11, <1>12,
     <1>13, <1>14, <1>15
     DEF Next, Cpu, Device, Instruction, op_mi, op_umi, StoreMask

\* In the words no device touches, pic.c neither loses nor invents an
\* interrupt, whatever the device threads do and however many there are.
THEOREM PrivateExactHolds == Spec => []PrivateExact
BY InvInit, InvNext, PTL DEF Spec, IInv

\* pic_interrupt_get answers an unmasked interrupt and passes over no waiting
\* private one, or answers 0 with none waiting.
THEOREM AnswerJustifiedHolds == Spec => []AnswerJustified
BY InvInit, InvNext, PTL DEF Spec, IInv

(***************************************************************************)
(* The refinement.  The store of an INT of a private interrupt raises it,  *)
(* the store of the loop's reset delivers it, a change of the mask is a    *)
(* change of the mask, and every other step, of the CPU or of a device,    *)
(* is a stutter.                                                           *)
(***************************************************************************)
LEMMA RefinementInit == Init => P!Init
BY SharedFacts, RangeFacts DEF Init, P!Init, Active, Masked, is_active

LEMMA RefinementNext == IInv /\ [Next]_vars => [P!Next]_(P!vars)
<1> SUFFICES ASSUME IInv, [Next]_vars PROVE [P!Next]_(P!vars)
  OBVIOUS
<1>t. TypeOK
  BY DEF IInv
<1>s. ASSUME UNCHANGED <<active, mask>> PROVE UNCHANGED P!vars
  BY <1>s DEF P!vars, Active, Masked, is_active, is_masked
<1>1. ASSUME NEW d \in Devices, TriggerStore(d) PROVE UNCHANGED P!vars
  <2>1. find_interrupt_location(dint[d]) \in SharedWord
    BY <1>t, SharedFacts DEF TypeOK
  <2>2. \A w \in Words \ SharedWord : active'[w] = active[w]
    BY <1>1, <1>t, <2>1 DEF TriggerStore, TypeOK
  <2>3. QED
    BY <1>1, <1>t, <2>2, PrivateWordsOnly DEF TriggerStore, P!vars
<1>2. CASE IntStore
  <2>1. arg \in Interrupt /\ active \in [Words -> SUBSET Interrupt] /\ LoadedFresh
    BY <1>t DEF TypeOK, IInv
  <2>2. ASSUME NEW i \in Private
        PROVE  is_active(i)' <=> is_active(i) \/ i = arg
    BY <1>2, <2>1, SharedFacts, RangeFacts
       DEF IntStore, set_bit, is_active, LoadedFresh, Private
  <2>3. UNCHANGED (Masked \cap Private)
    BY <1>2 DEF IntStore, Masked, is_masked
  <2>4. CASE arg \in Private
    <3>1. (Active \cap Private)' = (Active \cap Private) \cup {arg}
      BY <2>1, <2>2, <2>4 DEF Active
    <3>2. P!Raise(arg)
      BY <2>3, <3>1 DEF P!Raise
    <3>3. QED
      BY <2>4, <3>2 DEF P!Next
  <2>5. CASE arg \notin Private
    <3>1. UNCHANGED (Active \cap Private)
      BY <2>2, <2>5 DEF Active
    <3>2. QED
      BY <2>3, <3>1 DEF P!vars
  <2>6. QED
    BY <2>4, <2>5
<1>3. CASE ResetStore
  <2>1. /\ ir \in Interrupt /\ active \in [Words -> SUBSET Interrupt]
        /\ LoadedFresh /\ AnswerJustified
    BY <1>t DEF TypeOK, IInv
  <2>2. ASSUME NEW i \in Private
        PROVE  is_active(i)' <=> is_active(i) /\ i # ir
    BY <1>3, <2>1, SharedFacts, RangeFacts
       DEF ResetStore, clear_bit, is_active, LoadedFresh, Private
  <2>3. UNCHANGED (Masked \cap Private)
    BY <1>3 DEF ResetStore, Masked, is_masked
  <2>4. CASE ir \in Private
    \* It is not the 0 of a scan that found nothing: 0 is not private.
    <3>1. ir \in Waiting /\ \A j \in Waiting : ir <= j
      BY <1>3, <2>1, <2>4, SharedFacts DEF ResetStore, AnswerJustified
    <3>2. (Active \cap Private)' = (Active \cap Private) \ {ir}
      BY <2>2 DEF Active
    <3>3. Waiting = (Active \cap Private) \ (Masked \cap Private)
      BY DEF Waiting
    <3>4. P!Deliver(ir)
      BY <2>3, <3>1, <3>2, <3>3 DEF P!Deliver
    <3>5. QED
      BY <2>4, <3>4 DEF P!Next
  <2>5. CASE ir \notin Private
    <3>1. UNCHANGED (Active \cap Private)
      BY <2>2, <2>5 DEF Active
    <3>2. QED
      BY <2>3, <3>1 DEF P!vars
  <2>6. QED
    BY <2>4, <2>5
<1>4. ASSUME NEW w, NEW m, SetMaskWord(w, m) PROVE P!Next
  <2>1. UNCHANGED (Active \cap Private)
    BY <1>4 DEF SetMaskWord, Active, is_active
  <2>2. P!SetMask((Masked \cap Private)')
    BY <2>1 DEF P!SetMask
  <2>3. (Masked \cap Private)' \in SUBSET Private
    OBVIOUS
  <2>4. QED
    BY <2>2, <2>3 DEF P!Next
<1>5. CASE UNCHANGED <<active, mask>>
  BY <1>5, <1>s
<1>6. ASSUME NEW d \in Devices, Device(d), ~ TriggerStore(d)
      PROVE  UNCHANGED <<active, mask>>
  BY <1>6 DEF Device, TriggerLoad, TriggerSignal
<1>7. ASSUME Cpu, ~ IntStore, ~ ResetStore, \A w, m : ~ SetMaskWord(w, m)
      PROVE  UNCHANGED <<active, mask>>
  BY <1>7
     DEF Cpu, Instruction, LoopTop, pic_interrupt_active, pic_interrupt_get,
         ResetLoad, Enter, WfiWait, SpuriousWakeup, op_int, op_mi, op_umi,
         StoreMask, op_ind, op_ine, SetFlag, op_wfi, op_other
<1>8. CASE UNCHANGED vars
  BY <1>8, <1>5 DEF vars
<1>9. QED
  BY <1>1, <1>2, <1>3, <1>4, <1>5, <1>6, <1>7, <1>8 DEF Next

\* Seen through the private words, the controller and its racing threads
\* implement an atomic pending set that delivers in the order of the numbers.
THEOREM Refinement == Spec => PrivateIsPendingSet
<1>1. Spec => []IInv
  BY InvInit, InvNext, PTL DEF Spec
<1>2. Spec => P!Spec
  BY <1>1, RefinementInit, RefinementNext, PTL DEF Spec, P!Spec
<1>3. QED
  BY <1>2 DEF PrivateIsPendingSet
=============================================================================
