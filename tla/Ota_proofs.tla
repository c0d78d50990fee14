----------------------------- MODULE Ota_proofs -----------------------------
(* Proofs about Ota, for any number of OTA tasks, images and URLs, any sizes *)
(* of images and partitions, and any number of power cycles.                 *)
EXTENDS Ota, TLAPS

TaskType == [pc : PCs, asked : Urls \cup {NoLine}, url : Urls \cup {NoLine},
             slot : OtaSlots \cup {"none"}, at : Nat]

\* A task works on an OTA partition that the program does not run from, and
\* writes an image.
Apart(r) ==
    /\ r.slot # running
    /\ r.pc = "write" => r.slot \in OtaSlots /\ Offer(r.url) \in Images

\* The program runs from a whole image, the factory image is whole, and no
\* task can touch either.
Guarded ==
    /\ RunningWhole
    /\ Holds("factory", FactoryImage)
    /\ \A t \in Tasks : Apart(task[t])

IInv == TypeOK /\ Guarded

-----------------------------------------------------------------------------
(* The flash.                                                              *)

\* A partition whose blocks do not change holds what it held.
LEMMA Untouched ==
    ASSUME NEW s \in Slots, flash'[s] = flash[s]
    PROVE  /\ Bootable(s) => Bootable(s)'
           /\ \A i \in Images : Holds(s, i) => Holds(s, i)'
BY DEF Bootable, Holds

\* Writing a block of one partition leaves the others alone.
LEMMA WriteType ==
    ASSUME TypeOK, NEW s \in OtaSlots, NEW b \in Nat, b < Room[s],
           NEW c \in Images \cup {Erased},
           flash' = [flash EXCEPT ![s][b + 1] = c]
    PROVE  /\ DOMAIN flash' = Slots
           /\ \A r \in Slots : flash'[r] \in [1 .. Room[r] -> Images \cup {Erased}]
           /\ \A r \in Slots \ {s} : flash'[r] = flash[r]
<1>1. s \in Slots /\ Room[s] \in Nat
  BY ImageAssumption DEF OtaSlots
<1>2. flash' = [flash EXCEPT ![s] = [flash[s] EXCEPT ![b + 1] = c]]
  OBVIOUS
<1>3. [flash[s] EXCEPT ![b + 1] = c] \in [1 .. Room[s] -> Images \cup {Erased}]
  BY <1>1 DEF TypeOK
<1>4. DOMAIN flash' = DOMAIN flash
  BY <1>2
<1>5. \A r \in Slots : flash'[r] = IF r = s THEN [flash[s] EXCEPT ![b + 1] = c] ELSE flash[r]
  BY <1>1, <1>2 DEF TypeOK
<1> QED  BY <1>1, <1>3, <1>4, <1>5 DEF TypeOK

\* Whatever the bootloader picks is whole, as long as the factory image is.
LEMMA ResetGuarded ==
    ASSUME IInv, Reset, Holds("factory", FactoryImage)',
           DOMAIN flash' = Slots,
           \A s \in Slots : flash'[s] \in [1 .. Room[s] -> Images \cup {Erased}],
           resets' \in 0 .. MaxResets
    PROVE  IInv'
<1>1. Bootable("factory")'
  BY ImageAssumption DEF Bootable
<1>2. running' \in Slots /\ Boots(running)'
  <2>1. \E s \in Slots : Bootable(s)'
    BY <1>1 DEF Slots
  <2>2. running' \in {s \in Slots : Boots(s)'}
    BY <2>1 DEF Reset
  <2>3. PICK s \in Slots : running' = s /\ Boots(s)'
    BY <2>2
  <2> QED  BY <2>3 DEF Boots
<1>3. RunningWhole'
  BY <1>2 DEF RunningWhole, Boots, Slots
<1>4. \A t \in Tasks : task'[t] \in TaskType /\ task'[t].slot = "none" /\ task'[t].pc = "none"
  BY DEF Reset, NoTask, TaskType, PCs
<1>5. task' \in [Tasks -> TaskType]
  BY <1>4 DEF Reset
<1>6. \A t \in Tasks : Apart(task[t])'
  BY <1>2, <1>4 DEF Slots, Apart
<1>7. otadata' \in OtaSlots \cup {"none"} /\ line' \in Urls \cup {NoLine}
  BY DEF Reset, IInv, TypeOK
<1> QED  BY <1>2, <1>3, <1>5, <1>6, <1>7 DEF IInv, TypeOK, Guarded, TaskType

-----------------------------------------------------------------------------
(* The steps.                                                              *)

LEMMA InitIInv == Init => IInv
<1> SUFFICES ASSUME Init PROVE IInv
  OBVIOUS
<1>1. \A s \in Slots : flash[s] \in [1 .. Room[s] -> Images \cup {Erased}]
  BY ImageAssumption DEF Init
<1>2. Holds("factory", FactoryImage)
  <2>1. "factory" \in Slots /\ Room["factory"] \in Nat /\ Blocks[FactoryImage] \in Nat
    BY ImageAssumption DEF Slots
  <2>2. \A b \in 1 .. Blocks[FactoryImage] : flash["factory"][b] = FactoryImage
    BY <2>1, ImageAssumption DEF Init
  <2> QED  BY <2>2, ImageAssumption DEF Holds
<1>3. RunningWhole
  BY <1>2, ImageAssumption DEF Init, RunningWhole, Bootable
<1>4. /\ task \in [Tasks -> TaskType]
      /\ \A t \in Tasks : Apart(task[t])
  BY DEF Init, NoTask, TaskType, PCs, Apart
<1>5. /\ DOMAIN flash = Slots /\ otadata = "none" /\ running = "factory" /\ line = NoLine
      /\ resets = 0
  BY DEF Init
<1>6. resets \in 0 .. MaxResets
  BY <1>5, BoundAssumption
<1> QED  BY <1>1, <1>2, <1>3, <1>4, <1>5, <1>6 DEF IInv, TypeOK, Guarded, TaskType, Slots

\* A step that is no reset, leaves the running partition and the factory
\* partition alone and moves one task keeps the invariant.
LEMMA StepIInv ==
    ASSUME IInv,
           DOMAIN flash' = Slots,
           \A s \in Slots : flash'[s] \in [1 .. Room[s] -> Images \cup {Erased}],
           flash'["factory"] = flash["factory"], flash'[running] = flash[running],
           otadata' \in OtaSlots \cup {"none"}, running' = running,
           line' \in Urls \cup {NoLine}, resets' = resets,
           NEW t \in Tasks, NEW r \in TaskType, task' = [task EXCEPT ![t] = r],
           Apart(r)
    PROVE  IInv'
<1>1. task' \in [Tasks -> TaskType]
  BY DEF IInv, TypeOK, TaskType
<1>2. \A u \in Tasks : Apart(task[u])'
  BY DEF IInv, Guarded, TypeOK, Apart
<1>3. running \in Slots /\ "factory" \in Slots
  BY DEF IInv, TypeOK, Guarded, RunningWhole, Slots
<1>4. RunningWhole'
  BY <1>3, Untouched DEF IInv, Guarded, RunningWhole
<1>5. Holds("factory", FactoryImage)'
  BY <1>3, Untouched, ImageAssumption DEF IInv, Guarded
<1> QED  BY <1>1, <1>2, <1>4, <1>5 DEF IInv, TypeOK, Guarded, TaskType

\* Writing a block, whatever is written.
LEMMA BlockWritten ==
    ASSUME IInv, NEW t \in Tasks, Writing(t), NEW c \in Images \cup {Erased},
           flash' = [flash EXCEPT ![task[t].slot][task[t].at + 1] = c]
    PROVE  /\ DOMAIN flash' = Slots
           /\ \A s \in Slots : flash'[s] \in [1 .. Room[s] -> Images \cup {Erased}]
           /\ flash'["factory"] = flash["factory"] /\ flash'[running] = flash[running]
<1>1. task[t].at \in Nat /\ running \in Slots /\ task[t].slot # running
  BY DEF IInv, TypeOK, Guarded, RunningWhole, Apart
<1>2. task[t].slot \in OtaSlots /\ task[t].at < Room[task[t].slot]
  BY DEF IInv, Guarded, Writing, Apart
<1>3. /\ DOMAIN flash' = Slots
      /\ \A s \in Slots : flash'[s] \in [1 .. Room[s] -> Images \cup {Erased}]
      /\ \A s \in Slots \ {task[t].slot} : flash'[s] = flash[s]
  BY <1>1, <1>2, WriteType DEF IInv
<1>4. "factory" \in Slots \ {task[t].slot}
  BY <1>2 DEF OtaSlots, Slots
<1> QED  BY <1>1, <1>3, <1>4

\* A task's step keeps the invariant, and leaves the running partition alone
\* unless it resets the device.
LEMMA TaskIInv ==
    ASSUME IInv, NEW t \in Tasks, OtaTask(t)
    PROVE  IInv' /\ flash'[running] = flash[running]
<1>0. /\ DOMAIN flash = Slots
      /\ \A s \in Slots : flash[s] \in [1 .. Room[s] -> Images \cup {Erased}]
      /\ otadata \in OtaSlots \cup {"none"} /\ line \in Urls \cup {NoLine}
      /\ resets \in 0 .. MaxResets
      /\ task[t] \in TaskType /\ Apart(task[t])
  BY DEF IInv, TypeOK, Guarded, TaskType
<1>1. \A pc \in PCs \ {"write"} : /\ [task[t] EXCEPT !.pc = pc] \in TaskType
                                  /\ Apart([task[t] EXCEPT !.pc = pc])
  BY <1>0 DEF TaskType, Apart
<1>2. {"select", "commit", "ok", "error"} \subseteq PCs \ {"write"}
  BY DEF PCs
<1>3. ASSUME NEW pc \in PCs \ {"write"}, Goto(t, pc), UNCHANGED <<flash, running, line, resets>>,
             otadata' \in OtaSlots \cup {"none"}
      PROVE  IInv' /\ flash'[running] = flash[running]
  <2>1. task' = [task EXCEPT ![t] = [task[t] EXCEPT !.pc = pc]]
    BY <1>3 DEF Goto
  <2> QED  BY <1>0, <1>1, <1>3, <2>1, StepIInv
<1>4. CASE Begin(t)
  <2>1. UNCHANGED <<flash, otadata, running, line, resets>>
    BY <1>4 DEF Begin
  <2>2. CASE Goto(t, "error")
    BY <1>0, <1>2, <1>3, <2>1, <2>2
  <2>3. CASE ~Goto(t, "error")
    <3> DEFINE r == [task[t] EXCEPT !.pc = "write", !.url = line, !.slot = NextSlot]
    <3>1. task' = [task EXCEPT ![t] = r] /\ Offer(line) # NoImage
      BY <1>4, <2>3 DEF Begin
    <3>2. NextSlot \in OtaSlots /\ NextSlot # running
      BY DEF NextSlot, OtaSlots, Slots
    <3>3. Offer(line) \in Images
      BY <3>1, ImageAssumption DEF Offer
    <3>4. r \in TaskType /\ Apart(r)
      BY <1>0, <3>2, <3>3 DEF TaskType, PCs, Apart
    <3> HIDE DEF r
    <3> QED  BY <1>0, <2>1, <3>1, <3>4, StepIInv
  <2> QED  BY <2>2, <2>3
<1>5. CASE WriteBlock(t)
  <2>0. UNCHANGED <<otadata, running, line, resets>>
    BY <1>5 DEF WriteBlock
  <2>1. CASE Writing(t) /\ flash' = [flash EXCEPT ![task[t].slot][task[t].at + 1] = Image(t)]
                        /\ task' = [task EXCEPT ![t].at = @ + 1]
    <3> DEFINE r == [task[t] EXCEPT !.at = @ + 1]
    <3>1. Image(t) \in Images
      BY <1>0, <2>1 DEF Image, Writing, Apart
    <3>2. r \in TaskType /\ Apart(r) /\ task' = [task EXCEPT ![t] = r]
      BY <1>0, <2>1 DEF TaskType, Apart
    <3>3. /\ DOMAIN flash' = Slots
          /\ \A s \in Slots : flash'[s] \in [1 .. Room[s] -> Images \cup {Erased}]
          /\ flash'["factory"] = flash["factory"] /\ flash'[running] = flash[running]
      BY <2>1, <3>1, BlockWritten
    <3> HIDE DEF r
    <3> QED  BY <1>0, <2>0, <3>2, <3>3, StepIInv
  <2>2. CASE UNCHANGED flash /\ Goto(t, "error")
    BY <1>0, <1>2, <1>3, <2>0, <2>2
  <2>3. CASE Writing(t) /\ flash' = Torn(t) /\ Goto(t, "error")
    <3> DEFINE r == [task[t] EXCEPT !.pc = "error"]
    <3>1. r \in TaskType /\ Apart(r) /\ task' = [task EXCEPT ![t] = r]
      BY <1>1, <1>2, <2>3 DEF Goto
    <3>2. /\ DOMAIN flash' = Slots
          /\ \A s \in Slots : flash'[s] \in [1 .. Room[s] -> Images \cup {Erased}]
          /\ flash'["factory"] = flash["factory"] /\ flash'[running] = flash[running]
      BY <2>3, BlockWritten DEF Torn
    <3> HIDE DEF r
    <3> QED  BY <1>0, <2>0, <3>1, <3>2, StepIInv
  <2> QED  BY <1>5, <2>1, <2>2, <2>3 DEF WriteBlock
<1>6. CASE EndImage(t) \/ CheckImage(t)
  <2>1. PICK pc \in {"select", "commit", "error"} : Goto(t, pc)
    BY <1>6 DEF EndImage, CheckImage, Verify
  <2>2. UNCHANGED <<flash, otadata, running, line, resets>>
    BY <1>6 DEF EndImage, CheckImage, Verify
  <2> QED  BY <1>0, <1>2, <1>3, <2>1, <2>2
<1>7. CASE Commit(t)
  <2>1. task[t].slot \in OtaSlots \cup {"none"}
    BY <1>0 DEF TaskType
  <2> QED  BY <1>2, <1>3, <1>7, <2>1 DEF Commit
<1>8. CASE Restart(t)
  <2>1. Holds("factory", FactoryImage)'
    BY <1>8 DEF Restart, IInv, Guarded, Holds
  <2> QED  BY <1>0, <1>8, <2>1, ResetGuarded DEF Restart
<1>9. CASE PrintError(t)
  <2>1. NoTask \in TaskType /\ Apart(NoTask)
    BY DEF NoTask, TaskType, PCs, Apart, IInv, TypeOK, Guarded, RunningWhole
  <2> QED  BY <1>0, <1>9, <2>1, StepIInv DEF PrintError
<1> QED  BY <1>4, <1>5, <1>6, <1>7, <1>8, <1>9 DEF OtaTask

\* The console's steps and the power failures.
LEMMA OtherIInv ==
    ASSUME IInv,
           \/ \E t \in Tasks, u \in Urls : OtaCommand(t, u)
           \/ OtherCommand
           \/ PowerCycle
    PROVE  IInv' /\ flash'[running] = flash[running]
<1>0. /\ DOMAIN flash = Slots
      /\ \A s \in Slots : flash[s] \in [1 .. Room[s] -> Images \cup {Erased}]
      /\ otadata \in OtaSlots \cup {"none"} /\ line \in Urls \cup {NoLine}
      /\ resets \in 0 .. MaxResets
      /\ Holds("factory", FactoryImage) /\ running # "none"
  BY DEF IInv, TypeOK, Guarded, RunningWhole
<1>1. ASSUME NEW t \in Tasks, NEW u \in Urls, OtaCommand(t, u)
      PROVE  IInv' /\ flash'[running] = flash[running]
  <2> DEFINE r == [NoTask EXCEPT !.pc = "start", !.asked = u]
  <2>1. r \in TaskType /\ Apart(r)
    BY <1>0 DEF NoTask, TaskType, PCs, Apart
  <2>2. /\ task' = [task EXCEPT ![t] = r] /\ line' = u
        /\ UNCHANGED <<flash, otadata, running, resets>>
    BY <1>1 DEF OtaCommand
  <2> HIDE DEF r
  <2> QED  BY <1>0, <2>1, <2>2, StepIInv
<1>2. CASE OtherCommand
  <2>1. UNCHANGED <<flash, otadata, running, task, resets>> /\ line' = NoLine
    BY <1>2 DEF OtherCommand
  <2>2. Guarded'
    BY <2>1 DEF IInv, Guarded, RunningWhole, Bootable, Holds, Apart
  <2> QED  BY <2>1, <2>2 DEF IInv, TypeOK
<1>3. CASE PowerCycle
  <2>1. /\ DOMAIN flash' = Slots
        /\ \A s \in Slots : flash'[s] \in [1 .. Room[s] -> Images \cup {Erased}]
        /\ flash'["factory"] = flash["factory"] /\ flash'[running] = flash[running]
    <3>1. CASE UNCHANGED flash
      BY <1>0, <3>1, SMTT(30)
    <3>2. CASE \E t \in Tasks : Writing(t) /\ flash' = Torn(t)
      BY <3>2, BlockWritten DEF Torn
    <3> QED  BY <1>3, <3>1, <3>2 DEF PowerCycle
  <2>2. Holds("factory", FactoryImage)'
    BY <1>0, <2>1, Untouched, ImageAssumption DEF Slots
  <2>3. resets' \in 0 .. MaxResets /\ Reset
    BY <1>0, <1>3, BoundAssumption DEF PowerCycle
  <2> QED  BY <2>1, <2>2, <2>3, ResetGuarded
<1> QED  BY <1>1, <1>2, <1>3

LEMMA NextIInv == IInv /\ [Next]_vars => IInv' /\ flash'[running] = flash[running]
<1> SUFFICES ASSUME IInv, [Next]_vars PROVE IInv' /\ flash'[running] = flash[running]
  OBVIOUS
<1>1. CASE Next
  BY <1>1, TaskIInv, OtherIInv DEF Next
<1>2. CASE UNCHANGED vars
  BY <1>2 DEF vars, IInv, TypeOK, Guarded, RunningWhole, Bootable, Holds, Apart
<1> QED  BY <1>1, <1>2

-----------------------------------------------------------------------------
(* The theorems.                                                           *)

\* The inductive invariant holds (main/ota.c:5-22).
THEOREM Invariance == Spec => []IInv
<1>1. IInv /\ [Next]_vars => IInv'
  BY NextIInv
<1> QED  BY InitIInv, <1>1, PTL DEF Spec

\* Whatever tasks run at once, whatever fails and whenever the power goes, the
\* device runs a whole image (main/ota.c:15-21).
THEOREM AlwaysRunsWhole == Spec => []RunningWhole
<1>1. IInv => RunningWhole
  BY DEF IInv, Guarded
<1> QED  BY Invariance, <1>1, PTL

\* No step writes the partition the program runs from (main/ota.c:15).
THEOREM NeverWritesRunning == Spec => RunningUntouched
<1>1. IInv /\ [Next]_vars => [flash'[running] = flash[running]]_vars
  BY NextIInv
<1> QED  BY Invariance, <1>1, PTL DEF Spec, RunningUntouched

\* The variables have their types (main/ota.c:5-22).
THEOREM TypeCorrect == Spec => []TypeOK
<1>1. IInv => TypeOK
  BY DEF IInv
<1> QED  BY Invariance, <1>1, PTL

-----------------------------------------------------------------------------
(* One task at a time: the update is what Update says.                     *)

OneTask == \A t, u \in Tasks : t = u

\* What the next reset runs.
Selected == IF otadata = "none" THEN "factory" ELSE otadata

\* How far a task is, and that it works beside what is selected.
Progress(t) ==
    /\ task[t].pc = "start" => task[t].at = 0
    /\ task[t].pc = "write" =>
         /\ task[t].at <= Room[task[t].slot]
         /\ \A b \in 1 .. task[t].at : flash[task[t].slot][b] = Image(t)
    /\ task[t].pc \in {"select", "commit", "ok"} =>
         task[t].slot \in OtaSlots /\ Image(t) \in Images /\ Holds(task[t].slot, Image(t))
    /\ task[t].pc = "ok" => otadata = task[t].slot

Pending == \E t \in Tasks : task[t].pc = "ok"

OneInv ==
    /\ IInv
    /\ Bootable(Selected)
    /\ running = Selected \/ Pending
    /\ \A t \in Tasks : Progress(t)

LEMMA OnlyOneImage ==
    ASSUME NEW f, NEW s, NEW i \in Images,
           Blocks[i] <= Room[s] /\ \A b \in 1 .. Blocks[i] : f[s][b] = i
    PROVE  (CHOOSE j \in Images : Blocks[j] <= Room[s] /\ \A b \in 1 .. Blocks[j] : f[s][b] = j) = i
<1>1. \A j \in Images : 1 \in 1 .. Blocks[j]
  BY ImageAssumption
<1>2. \A j \in Images : (\A b \in 1 .. Blocks[j] : f[s][b] = j) => j = i
  BY <1>1
<1> QED  BY <1>2

LEMMA BootsSelected == TypeOK /\ Bootable(Selected) => \A s \in Slots : Boots(s) <=> s = Selected
<1> SUFFICES ASSUME TypeOK, Bootable(Selected), NEW s \in Slots PROVE Boots(s) <=> s = Selected
  OBVIOUS
<1>1. BootOrder(otadata)[1] = Selected
  BY DEF BootOrder, Selected, TypeOK, OtaSlots, Slots
<1>2. ASSUME Boots(s) PROVE s = Selected
  <2>1. PICK n \in 1 .. 3 : /\ s = BootOrder(otadata)[n]
                            /\ \A m \in 1 .. (n - 1) : ~Bootable(BootOrder(otadata)[m])
    BY <1>2 DEF Boots
  <2>2. n = 1
    <3>1. ASSUME n # 1 PROVE FALSE
      <4>1. 1 \in 1 .. (n - 1)
        BY <3>1
      <4> QED  BY <1>1, <2>1, <4>1
    <3> QED  BY <3>1
  <2> QED  BY <1>1, <2>1, <2>2
<1>3. ASSUME s = Selected PROVE Boots(s)
  BY <1>1, <1>3 DEF Boots
<1> QED  BY <1>2, <1>3

\* The refinement mapping, in terms of the partitions.
LEMMA Mapped ==
    OneInv =>
        /\ \A i \in Images : Holds(running, i) => image = i
        /\ \A i \in Images : Holds(Selected, i) => chosen = i
        /\ ~Pending => outcome = NoImage
        /\ OneTask => \A t \in Tasks : task[t].pc = "ok" => outcome = Image(t)
<1> SUFFICES ASSUME OneInv
             PROVE  /\ \A i \in Images : Holds(running, i) => image = i
                    /\ \A i \in Images : Holds(Selected, i) => chosen = i
                    /\ ~Pending => outcome = NoImage
                    /\ OneTask => \A t \in Tasks : task[t].pc = "ok" => outcome = Image(t)
  OBVIOUS
<1>1. \A s, i : i \in Images /\ Holds(s, i) => ImageIn(s) = i
  BY OnlyOneImage DEF ImageIn, Holds
<1>2. (CHOOSE s \in Slots : Boots(s)) = Selected
  <2>1. Selected \in Slots
    BY DEF OneInv, IInv, TypeOK, Selected, OtaSlots, Slots
  <2> QED  BY <2>1, BootsSelected DEF OneInv, IInv
<1>3. \A i \in Images : Holds(running, i) => image = i
  BY <1>1 DEF image
<1>4. \A i \in Images : Holds(Selected, i) => chosen = i
  BY <1>1, <1>2 DEF chosen
<1>5. ~Pending => outcome = NoImage
  BY DEF Pending, outcome
<1>6. ASSUME OneTask, NEW t \in Tasks, task[t].pc = "ok" PROVE outcome = Image(t)
  <2>1. (CHOOSE u \in Tasks : task[u].pc = "ok") = t
    BY <1>6 DEF OneTask
  <2> QED  BY <1>6, <2>1 DEF outcome
<1> QED  BY <1>3, <1>4, <1>5, <1>6

LEMMA MappedNext ==
    (OneInv =>
        /\ \A i \in Images : Holds(running, i) => image = i
        /\ \A i \in Images : Holds(Selected, i) => chosen = i
        /\ ~Pending => outcome = NoImage
        /\ OneTask => \A t \in Tasks : task[t].pc = "ok" => outcome = Image(t))'
BY Mapped, PTL

LEMMA BootsSelectedNext ==
    (TypeOK /\ Bootable(Selected) => \A s \in Slots : Boots(s) <=> s = Selected)'
BY BootsSelected, PTL

LEMMA SelectedSlot == ASSUME IInv PROVE Selected \in Slots /\ running \in Slots
BY DEF IInv, TypeOK, Guarded, RunningWhole, Selected, OtaSlots, Slots

\* A step before the update is complete cannot be seen.
LEMMA Hidden ==
    ASSUME OneInv, OneInv', ~Pending, ~Pending', UNCHANGED <<otadata, running>>,
           flash'[running] = flash[running]
    PROVE  UNCHANGED Whole!vars
<1>1. running = Selected /\ Selected' = Selected /\ Selected \in Slots
  BY SelectedSlot DEF OneInv, Selected
<1>2. PICK i \in Images : Holds(Selected, i)
  BY DEF OneInv, Bootable
<1>3. Holds(running, i) /\ Holds(running, i)' /\ Holds(Selected, i)'
  BY <1>1, <1>2 DEF Holds
<1>4. image = i /\ chosen = i /\ outcome = NoImage
  BY <1>2, <1>3, Mapped
<1>5. image' = i /\ chosen' = i /\ outcome' = NoImage
  BY <1>3, MappedNext
<1> QED  BY <1>4, <1>5 DEF Whole!vars

\* A reset boots what is selected.
LEMMA ResetBoots ==
    ASSUME OneInv, IInv', Reset, flash'[Selected] = flash[Selected]
    PROVE  OneInv' /\ Whole!Boot
<1>1. Selected' = Selected /\ Selected \in Slots
  BY SelectedSlot DEF OneInv, Reset, Selected
<1>2. PICK i \in Images : Holds(Selected, i)
  BY DEF OneInv, Bootable
<1>3. Holds(Selected, i)'
  BY <1>1, <1>2 DEF Holds
<1>4. Bootable(Selected)'
  BY <1>3 DEF Bootable
<1>5. running' = Selected'
  <2>1. \E s \in Slots : Bootable(s)'
    BY <1>1, <1>4 DEF Bootable, Holds
  <2>2. running' \in {s \in Slots : Boots(s)'}
    BY <2>1 DEF Reset
  <2>3. PICK s \in Slots : running' = s /\ Boots(s)'
    BY <2>2
  <2> QED  BY <1>4, <2>3, BootsSelectedNext DEF IInv
<1>6. \A t \in Tasks : Progress(t)' /\ task'[t].pc = "none"
  BY DEF Reset, NoTask, Progress
<1>7. OneInv'
  BY <1>4, <1>5, <1>6 DEF OneInv
<1>8. Holds(running, i)'
  BY <1>3, <1>5 DEF Holds
<1>9. image' = i /\ chosen' = i /\ outcome' = NoImage
  BY <1>3, <1>6, <1>7, <1>8, MappedNext DEF Pending
<1> QED  BY <1>2, <1>7, <1>9, Mapped DEF Whole!Boot

\* Steps of a task towards the commit, and of the console.
LEMMA Working ==
    ASSUME OneInv, IInv', ~Pending, ~Pending', UNCHANGED <<otadata, running>>,
           flash'[running] = flash[running], \A t \in Tasks : Progress(t)'
    PROVE  OneInv' /\ UNCHANGED Whole!vars
<1>1. running = Selected /\ Selected' = Selected /\ Selected \in Slots
  BY SelectedSlot DEF OneInv, Selected
<1>2. Bootable(Selected)'
  BY <1>1 DEF OneInv, Bootable, Holds
<1>3. OneInv'
  BY <1>1, <1>2 DEF OneInv
<1> QED  BY <1>3, Hidden

LEMMA OneTaskSteps ==
    ASSUME OneTask, OneInv, NEW t \in Tasks, OtaTask(t)
    PROVE  OneInv' /\ [Whole!Next]_Whole!vars
<1>0. /\ IInv' /\ flash'[running] = flash[running]
      /\ task[t] \in TaskType /\ Apart(task[t]) /\ Progress(t)
      /\ task \in [Tasks -> TaskType]
      /\ running \in Slots
  BY TaskIInv, SelectedSlot DEF OneInv, IInv, TypeOK, Guarded, TaskType
<1>1. \A u \in Tasks : u = t
  BY DEF OneTask
<1>2. Pending <=> task[t].pc = "ok"
  BY <1>1 DEF Pending
<1>3. Pending' <=> task'[t].pc = "ok"
  BY <1>1 DEF Pending
<1>4. ASSUME task[t].pc # "ok", task'[t].pc # "ok", UNCHANGED <<otadata, running>>, Progress(t)'
      PROVE  OneInv' /\ UNCHANGED Whole!vars
  BY <1>0, <1>1, <1>2, <1>3, <1>4, Working
<1>5. CASE Begin(t)
  <2>1. task'[t].pc \in {"write", "error"} /\ task[t].pc = "start" /\ UNCHANGED <<flash, otadata, running>>
    <3>1. \/ task' = [task EXCEPT ![t] = [@ EXCEPT !.pc = "write", !.url = line, !.slot = NextSlot]]
          \/ task' = [task EXCEPT ![t] = [@ EXCEPT !.pc = "error"]]
      BY <1>5 DEF Begin, Goto
    <3>2. task'[t].pc \in {"write", "error"}
      <4>1. task[t] \in TaskType
        BY <1>0
      <4>2. ASSUME task' = [task EXCEPT ![t] = [@ EXCEPT !.pc = "write", !.url = line, !.slot = NextSlot]]
            PROVE  task'[t].pc = "write"
        BY <1>0, <4>1, <4>2 DEF TaskType
      <4>3. ASSUME task' = [task EXCEPT ![t] = [@ EXCEPT !.pc = "error"]]
            PROVE  task'[t].pc = "error"
        BY <1>0, <4>1, <4>3 DEF TaskType
      <4> QED  BY <3>1, <4>2, <4>3, Zenon
    <3> QED  BY <1>5, <3>2 DEF Begin
  <2>2. Progress(t)'
    <3>1. CASE Goto(t, "error")
      BY <1>0, <3>1 DEF Goto, Progress
    <3>2. CASE ~Goto(t, "error")
      <4>1. task'[t] = [task[t] EXCEPT !.pc = "write", !.url = line, !.slot = NextSlot]
        BY <1>0, <1>5, <3>2 DEF Begin
      <4>2. task'[t].at = 0 /\ task'[t].pc = "write" /\ task'[t].slot = NextSlot /\ NextSlot \in Slots
        BY <1>0, <2>1, <4>1 DEF TaskType, Progress, NextSlot, Slots
      <4> QED  BY <4>2, ImageAssumption DEF Progress
    <3> QED  BY <3>1, <3>2
  <2> QED  BY <1>4, <2>1, <2>2
<1>6. CASE WriteBlock(t)
  <2>1. task[t].pc = "write" /\ UNCHANGED <<otadata, running>> /\ task[t].slot \in OtaSlots
    BY <1>0, <1>6 DEF WriteBlock, Apart
  <2>2. CASE Goto(t, "error")
    <3>1. task'[t].pc = "error"
      BY <1>0, <2>2 DEF Goto, TaskType
    <3> QED  BY <1>4, <2>1, <3>1 DEF Progress
  <2>3. CASE Writing(t) /\ flash' = [flash EXCEPT ![task[t].slot][task[t].at + 1] = Image(t)]
                        /\ task' = [task EXCEPT ![t].at = @ + 1]
    <3>1. /\ task'[t].pc = "write" /\ task'[t].slot = task[t].slot /\ task'[t].url = task[t].url
          /\ task'[t].at = task[t].at + 1 /\ task[t].at \in Nat
      BY <1>0, <2>1, <2>3 DEF TaskType
    <3>2. Image(t)' = Image(t)
      BY <3>1 DEF Image
    <3> DEFINE s == task[t].slot
               n == task[t].at
    <3>3. s \in Slots /\ Room[s] \in Nat /\ n < Room[s]
      BY <2>1, <2>3, ImageAssumption DEF Writing, OtaSlots
    <3>4. flash[s] \in [1 .. Room[s] -> Images \cup {Erased}] /\ DOMAIN flash = Slots
      BY <3>3 DEF OneInv, IInv, TypeOK
    <3>5. flash'[s] = [flash[s] EXCEPT ![n + 1] = Image(t)]
      BY <2>3, <3>3, <3>4
    <3>6. \A b \in 1 .. n : flash[s][b] = Image(t)
      BY <1>0, <2>1 DEF Progress
    <3>7. \A b \in 1 .. n + 1 : flash'[s][b] = Image(t)
      BY <3>1, <3>3, <3>4, <3>5, <3>6, SMTT(30)
    <3>8. Progress(t)'
      BY <3>1, <3>2, <3>3, <3>7 DEF Progress
    <3> QED  BY <1>4, <2>1, <3>1, <3>8
  <2> QED  BY <1>6, <2>2, <2>3 DEF WriteBlock
<1>7. CASE EndImage(t) \/ CheckImage(t)
  <2>1. /\ UNCHANGED <<flash, otadata, running>> /\ task[t].pc \in {"write", "select"}
        /\ task[t].pc = "write" => task[t].at = Blocks[Image(t)]
        /\ \E pc \in {"select", "commit", "error"} : Goto(t, pc)
    BY <1>7 DEF EndImage, CheckImage, Verify
  <2>2. PICK pc \in {"select", "commit", "error"} : Goto(t, pc)
    BY <2>1
  <2>3. /\ task'[t].pc = pc /\ task'[t].slot = task[t].slot /\ task'[t].url = task[t].url
    BY <1>0, <2>2 DEF Goto, TaskType
  <2>4. task[t].slot \in OtaSlots /\ Image(t) \in Images /\ Holds(task[t].slot, Image(t))
    BY <1>0, <2>1 DEF Apart, Image, Progress, Holds
  <2>5. Progress(t)'
    BY <2>1, <2>3, <2>4 DEF Progress, Image, Holds
  <2> QED  BY <1>4, <2>1, <2>3, <2>5
<1>8. CASE Commit(t)
  <2>1. /\ task[t].pc = "commit" /\ task'[t].pc = "ok" /\ task'[t].slot = task[t].slot
        /\ task'[t].url = task[t].url /\ otadata' = task[t].slot /\ UNCHANGED <<flash, running>>
    BY <1>0, <1>8 DEF Commit, Goto, TaskType
  <2>2. task[t].slot \in OtaSlots /\ Image(t) \in Images /\ Holds(task[t].slot, Image(t))
    BY <1>0, <2>1 DEF Progress
  <2>3. Selected' = task[t].slot
    BY <2>1, <2>2 DEF Selected, OtaSlots, Slots
  <2>4. Holds(Selected, Image(t))' /\ Image(t)' = Image(t)
    BY <2>1, <2>2, <2>3 DEF Holds, Image
  <2>5. Progress(t)'
    BY <2>1, <2>2 DEF Progress, Image, Holds
  <2>6. OneInv'
    BY <1>0, <1>1, <1>3, <2>1, <2>2, <2>4, <2>5 DEF OneInv, Bootable
  <2>7. chosen' = Image(t) /\ outcome' = Image(t)
    BY <2>1, <2>2, <2>4, <2>6, MappedNext
  <2>8. PICK i \in Images : Holds(running, i)
    BY DEF OneInv, IInv, Guarded, RunningWhole, Bootable
  <2>9. image = i /\ image' = i
    BY <2>1, <2>6, <2>8, Mapped, MappedNext DEF Holds
  <2> QED  BY <2>2, <2>6, <2>7, <2>9 DEF Whole!Next, Whole!Install
<1>9. CASE Restart(t)
  BY <1>0, <1>9, ResetBoots DEF Restart, Whole!Next
<1>10. CASE PrintError(t)
  <2>1. task[t].pc = "error" /\ task'[t] = NoTask /\ UNCHANGED <<flash, otadata, running>>
    BY <1>0, <1>10 DEF PrintError
  <2>2. task'[t].pc = "none" /\ Progress(t)'
    BY <2>1 DEF NoTask, Progress
  <2> QED  BY <1>4, <2>1, <2>2
<1> QED  BY <1>5, <1>6, <1>7, <1>8, <1>9, <1>10 DEF OtaTask

LEMMA OneOtherSteps ==
    ASSUME OneTask, OneInv,
           \/ \E t \in Tasks, u \in Urls : OtaCommand(t, u)
           \/ OtherCommand
           \/ PowerCycle
    PROVE  OneInv' /\ [Whole!Next]_Whole!vars
<1>0. /\ IInv' /\ flash'[running] = flash[running]
      /\ \A t \in Tasks : task[t] \in TaskType /\ Apart(task[t]) /\ Progress(t)
      /\ task \in [Tasks -> TaskType]
  BY OtherIInv DEF OneInv, IInv, TypeOK, Guarded, TaskType
<1>1. ASSUME NEW t \in Tasks, NEW u \in Urls, OtaCommand(t, u)
      PROVE  OneInv' /\ [Whole!Next]_Whole!vars
  <2>1. /\ task[t].pc = "none" /\ task'[t].pc = "start" /\ task'[t].at = 0
        /\ UNCHANGED <<flash, otadata, running>>
    BY <1>0, <1>1 DEF OtaCommand, NoTask
  <2>2. ~Pending /\ ~Pending' /\ \A v \in Tasks : Progress(v)'
    BY <2>1 DEF OneTask, Pending, Progress
  <2> QED  BY <1>0, <2>1, <2>2, Working
<1>2. CASE OtherCommand
  <2>1. UNCHANGED <<flash, otadata, running, task>>
    BY <1>2 DEF OtherCommand
  <2>2. OneInv'
    BY <1>0, <2>1 DEF OneInv, Bootable, Holds, Selected, Pending, Progress, Image
  <2>3. UNCHANGED Whole!vars
    BY <2>1 DEF Whole!vars, image, chosen, outcome, ImageIn, Boots, Bootable, Holds, Image
  <2> QED  BY <2>2, <2>3
<1>3. CASE PowerCycle
  <2>1. Reset /\ (UNCHANGED flash \/ \E t \in Tasks : Writing(t) /\ flash' = Torn(t))
    BY <1>3 DEF PowerCycle
  <2>2. flash'[Selected] = flash[Selected]
    <3>1. ASSUME NEW t \in Tasks, Writing(t) PROVE running = Selected
      BY <3>1 DEF Writing, OneInv, Pending, OneTask
    <3> QED  BY <1>0, <2>1, <3>1
  <2> QED  BY <1>0, <2>1, <2>2, ResetBoots DEF Whole!Next
<1> QED  BY <1>1, <1>2, <1>3

\* One task at a time, and whatever fails: an update is complete or leaves no
\* trace, and ESP_OK means that the image of the URL is the one the next reset
\* runs (main/ota.c:15-20).
THEOREM OneUpdateWhole == ASSUME OneTask PROVE Spec => UpdatesWhole
<1>1. ASSUME Init PROVE OneInv /\ Whole!Init
  <2>1. IInv
    BY <1>1, InitIInv
  <2>2. running = "factory" /\ Selected = "factory" /\ \A t \in Tasks : task[t] = NoTask
    BY <1>1 DEF Init, Selected
  <2>3. Holds("factory", FactoryImage)
    BY <2>1 DEF IInv, Guarded
  <2>4. OneInv
    BY <2>1, <2>2, <2>3, ImageAssumption DEF OneInv, Bootable, Progress, NoTask
  <2>5. ~Pending
    BY <2>2 DEF Pending, NoTask
  <2> QED  BY <2>2, <2>3, <2>4, <2>5, Mapped, ImageAssumption DEF Whole!Init
<1>2. ASSUME OneInv, [Next]_vars PROVE OneInv' /\ [Whole!Next]_Whole!vars
  <2>1. CASE Next
    BY <1>2, <2>1, OneTaskSteps, OneOtherSteps DEF Next
  <2>2. CASE UNCHANGED vars
    <3>1. OneInv'
      BY <1>2, <2>2, NextIInv DEF vars, OneInv, Bootable, Holds, Selected, Pending, Progress, Image
    <3>2. UNCHANGED Whole!vars
      BY <2>2 DEF vars, Whole!vars, image, chosen, outcome, ImageIn, Boots, Bootable, Holds, Image
    <3> QED  BY <3>1, <3>2
  <2> QED  BY <1>2, <2>1, <2>2
<1> QED  BY <1>1, <1>2, PTL DEF Spec, UpdatesWhole, Whole!Spec
=============================================================================
